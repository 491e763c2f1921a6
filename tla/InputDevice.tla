----------------------------- MODULE InputDevice -----------------------------
(***************************************************************************)
(* A gamepad as PlayerInput::doMovement polls it: ACCEPT, then UP, which   *)
(* the D-pad button and the left stick both report.  The stick is an axis  *)
(* with no edges of its own, so InputDevice keeps a cooldown in            *)
(* pressedTimings, run down by Input::updateTimings at the top of every    *)
(* frame.  The other directions have the same cooldown, but nothing polls  *)
(* them with PRESSED.  The keyboard's PRESSED is raylib's IsKeyPressed.    *)
(***************************************************************************)
EXTENDS Integers

CONSTANTS
  FrameTimes,       \* what GetFrameTime() may return after a frame
  joystickCooldown  \* ticks

ASSUME FrameTimeAssumption == FrameTimes \subseteq Nat
ASSUME CooldownAssumption  == joystickCooldown \in Nat \ {0}

VARIABLES
  pc,        \* the part of the frame that runs next
  dt,        \* GetFrameTime()
  axis,      \* the stick: "up", "down" or at "rest"
  edges,     \* the buttons that went down in the last poll of the hardware
  timing,    \* pressedTimings[Buttons::UP]
  pressed,   \* what doMovement made of it: a jump button was pressed
  \* history
  reported,  \* the stick was reported as UP in this frame
  elapsed    \* frame time since the last such report (up to the cooldown)

vars == <<pc, dt, axis, edges, timing, pressed, reported, elapsed>>

TypeOK ==
  /\ pc \in {"timings", "movement", "end"}
  /\ dt \in Nat
  /\ axis \in {"up", "down", "rest"}
  /\ edges \subseteq {"ACCEPT", "UP"}
  /\ timing \in Int /\ timing <= joystickCooldown
  /\ pressed \in BOOLEAN /\ reported \in BOOLEAN
  /\ elapsed \in Nat

(* Input::init has created the devices; nothing was polled yet. *)
Init ==
  /\ pc = "timings" /\ dt = 0 /\ axis = "rest" /\ edges = {}
  /\ timing = 0 /\ pressed = FALSE /\ reported = FALSE
  /\ elapsed = joystickCooldown

AtMost(bound, n) == IF n > bound THEN bound ELSE n

(* One entry of pressedTimings: it may fall below zero, and is set to zero *)
(* a frame later.                                                          *)
MutantRunDownNoClamp(t) == IF t > 0 THEN t - dt ELSE t
MutantRunDownAtOnce(t)  == 0
MutantRunDownUpwards(t) == IF t > 0 THEN t + dt ELSE 0
RunDown(t) == IF t > 0 THEN t - dt ELSE 0

UpdateTimings ==
  /\ pc = "timings" /\ pc' = "movement"
  /\ timing' = RunDown(timing)
  /\ elapsed' = AtMost(joystickCooldown, elapsed + dt)
  /\ UNCHANGED <<dt, axis, edges, pressed, reported>>

(* isButtonPressed(UP) looks at the stick when its cooldown is exactly     *)
(* zero; any movement of the axis, down as well, starts the cooldown.      *)
StickRead == timing = 0 /\ axis # "rest"

(* doMovement asks for ACCEPT first; when that is pressed, UP is not       *)
(* polled and the cooldown not touched.  SHOOT is mapped to no gamepad     *)
(* button.                                                                 *)
DoMovement ==
  /\ pc = "movement" /\ pc' = "end"
  /\ IF "ACCEPT" \in edges
     THEN pressed' = TRUE /\ reported' = FALSE /\ UNCHANGED <<timing, elapsed>>
     ELSE /\ reported' = (StickRead /\ axis = "up")
          /\ pressed'  = (reported' \/ "UP" \in edges)
          /\ timing'   = IF StickRead THEN joystickCooldown ELSE timing
          /\ elapsed'  = IF reported' THEN 0 ELSE elapsed
  /\ UNCHANGED <<dt, axis, edges>>

(* EndDrawing polls the hardware and times the frame. *)
EndFrame ==
  /\ pc = "end" /\ pc' = "timings"
  /\ dt' \in FrameTimes
  /\ axis' \in {"up", "down", "rest"}
  /\ edges' \in SUBSET {"ACCEPT", "UP"}
  /\ reported' = FALSE /\ pressed' = FALSE
  /\ UNCHANGED <<timing, elapsed>>

Next == UpdateTimings \/ DoMovement \/ EndFrame

SafeSpec == Init /\ [][Next]_vars

(* The frame loop goes on. *)
Spec == SafeSpec /\ WF_vars(Next)

-----------------------------------------------------------------------------
(* Properties *)

(* A stick held up repeats, but never faster than the cooldown, whatever   *)
(* the frame times and whatever buttons are pressed meanwhile.             *)
StickRepeatSpaced ==
  [][~reported /\ reported' => elapsed >= joystickCooldown]_vars

(* A stick held up is reported again and again: no sequence of frame times *)
(* leaves a timing that the test for exactly zero misses for ever.         *)
HeldStickRepeats ==
  <>[](axis = "up" /\ "ACCEPT" \notin edges) => []<>reported

(* The inductive invariant behind StickRepeatSpaced. *)
CooldownInv == elapsed >= joystickCooldown \/ elapsed + timing >= joystickCooldown
=============================================================================
