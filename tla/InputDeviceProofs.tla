-------------------------- MODULE InputDeviceProofs --------------------------
(***************************************************************************)
(* The stick's repeat rate, for every cooldown and every frame time.       *)
(***************************************************************************)
EXTENDS InputDevice, TLAPS

Inv == TypeOK /\ CooldownInv

LEMMA InvStep == Inv /\ [Next]_vars => Inv'
<1>. SUFFICES ASSUME Inv, [Next]_vars PROVE Inv'
  OBVIOUS
<1>. USE CooldownAssumption, FrameTimeAssumption DEF Inv, TypeOK, CooldownInv
<1>1. CASE UpdateTimings
  BY <1>1 DEF UpdateTimings, RunDown, AtMost
<1>2. CASE DoMovement
  <2>1. CASE "ACCEPT" \in edges
    BY <1>2, <2>1 DEF DoMovement
  <2>2. CASE "ACCEPT" \notin edges
    <3>1. reported' \in BOOLEAN /\ pressed' \in BOOLEAN
      BY <1>2, <2>2 DEF DoMovement
    <3>2. CASE StickRead
      BY <1>2, <2>2, <3>1, <3>2 DEF DoMovement
    <3>3. CASE ~StickRead
      BY <1>2, <2>2, <3>1, <3>3 DEF DoMovement
    <3>. QED  BY <3>2, <3>3
  <2>. QED  BY <2>1, <2>2
<1>3. CASE EndFrame
  BY <1>3 DEF EndFrame
<1>4. CASE UNCHANGED vars
  BY <1>4 DEF vars
<1>. QED  BY <1>1, <1>2, <1>3, <1>4 DEF Next

LEMMA InvInit == Init => Inv
<1>. SUFFICES ASSUME Init PROVE Inv
  OBVIOUS
<1>1. TypeOK
  <2>1. pressed \in BOOLEAN /\ reported \in BOOLEAN
    BY DEF Init
  <2>2. timing \in Int /\ timing <= joystickCooldown /\ elapsed \in Nat /\ dt \in Nat
    BY CooldownAssumption DEF Init
  <2>. QED  BY <2>1, <2>2 DEF Init, TypeOK
<1>2. CooldownInv
  BY CooldownAssumption DEF Init, CooldownInv
<1>. QED  BY <1>1, <1>2 DEF Inv

(* Input devices keep their types, a timing never exceeding the cooldown   *)
(* it is set to.                                                           *)
THEOREM StickTypeCorrect == SafeSpec => []TypeOK
<1>1. Inv => TypeOK
  BY DEF Inv
<1>. QED  BY <1>1, InvInit, InvStep, PTL DEF SafeSpec

(* What is left of the cooldown and the time since the last report make up *)
(* the whole of it: the cooldown is not run down too far in one frame.     *)
THEOREM CooldownRunsFull == SafeSpec => []CooldownInv
<1>1. Inv => CooldownInv
  BY DEF Inv
<1>. QED  BY <1>1, InvInit, InvStep, PTL DEF SafeSpec

(* A stick held up jumps no faster than once per cooldown. *)
THEOREM StickRepeatRate == SafeSpec => StickRepeatSpaced
<1>1. Inv /\ [Next]_vars =>
        [~reported /\ reported' => elapsed >= joystickCooldown]_vars
  <2>1. SUFFICES ASSUME Inv, Next, ~reported, reported'
                 PROVE  elapsed >= joystickCooldown
    OBVIOUS
  <2>2. DoMovement
    BY <2>1 DEF Next, UpdateTimings, EndFrame
  <2>3. timing = 0
    BY <2>1, <2>2 DEF DoMovement, StickRead
  <2>. QED  BY <2>1, <2>3, CooldownAssumption DEF Inv, TypeOK, CooldownInv
<1>. QED  BY <1>1, InvInit, InvStep, PTL DEF SafeSpec, StickRepeatSpaced
=============================================================================
