------------------------------ MODULE GameProofs ------------------------------
(***************************************************************************)
(* Theorems about Game for every set of tiles, cells and frame times and   *)
(* every step length: the safety properties that game_safety checks on a   *)
(* small instance, and that Game implements the safety part of             *)
(* JumpContract.  Everything rests on the inductive invariant IInv, proved *)
(* part by part; each part lists the actions that can disturb it.          *)
(***************************************************************************)
EXTENDS Game, TLAPS

(* The physics loop, the contact callbacks included, and the steps that    *)
(* only move the control forward.                                          *)
USE DEF PCs, Keys

LEMMA TypeInit == Init => TypeOK
BY DEF Init, TypeOK, Idle, Players, Walls

(* What resetGame does to the types: the new body is one more player, and  *)
(* every contact that existed is still one of a body and a wall.           *)
LEMMA ResetType ==
  ASSUME TypeOK, NEW next \in {"move", "keys", "end"}, ResetGame(next),
         restarts' \in {restarts, restarts + 1}
  PROVE  TypeOK'
<1>1. PICK a \in Addr : heap' = {a} /\ udata' = Append(udata, a) /\ input' = Idle
                        /\ force' = 0 /\ lifted' = 0
  BY DEF ResetGame, CreatePlayerEntity, EcsReset
<1>2. levels' = levels + 1 /\ accumulator' = accumulator + dt
      /\ frameResets' = frameResets + 1 /\ pc' = "steps" /\ ret' = next
      /\ UNCHANGED <<state, keys, dt, jumpTimer, touching, filterWorld, simmed, carried,
                     waited>>
  BY DEF ResetGame, LoadLevelPhysics, Accumulate
<1>3. udata' \in Seq(Addr) /\ Len(udata') = Len(udata) + 1 /\ Len(udata) \in Nat
  BY <1>1 DEF TypeOK
<1>4. Players \subseteq Players' /\ Walls \subseteq Walls'
  BY <1>2, <1>3 DEF Players, Walls, TypeOK
<1>5. touching' \subseteq (Players \X Walls)'
  BY <1>2, <1>4 DEF TypeOK
<1>. QED  BY <1>1, <1>2, <1>3, <1>5 DEF TypeOK, Idle

(* PlayerInput's two flags, and what changes them. *)
Flags == [isJumping : BOOLEAN, startJumping : BOOLEAN]

LEMMA FlagsType ==
  ASSUME NEW in \in Flags
  PROVE  /\ [in EXCEPT !.startJumping = FALSE] \in Flags
         /\ Landed(in) \in Flags
         /\ DoMovement(in) \in Flags
         /\ [isJumping |-> TRUE, startJumping |-> TRUE] \in Flags
BY DEF Flags, Landed, DoMovement, MayJump

LEMMA TypeStep == TypeOK /\ [Next]_vars => TypeOK'
<1>. SUFFICES ASSUME TypeOK, [Next]_vars PROVE TypeOK'
  OBVIOUS
<1>1. CASE Load
  BY <1>1, ResetType DEF Load
<1>2. CASE Move
  <2>1. input' \in Flags
    <3>1. input \in Flags /\ input' = [DoMovement(input) EXCEPT !.startJumping = FALSE]
      BY <1>2 DEF Move, TypeOK, Flags
    <3>. QED  BY <3>1, FlagsType
  <2>2. force' \in Nat /\ lifted' \in Nat
    BY <1>2 DEF Move, TypeOK
  <2>3. accumulator' \in Nat /\ filterWorld' \in Nat
    BY <1>2 DEF Move, BuildFilter, Accumulate, TypeOK
  <2>. QED
    BY <1>2, <2>1, <2>2, <2>3 DEF Move, TypeOK, Flags, world, Players, Walls
<1>3. CASE BeginStep
  BY <1>3, PhysTimeAssumption DEF BeginStep, StepDue, TypeOK, world, Players, Walls
<1>4. CASE EndSteps
  BY <1>4 DEF EndSteps, TypeOK, world, history, Players, Walls
<1>5. ASSUME NEW g \in Players, NEW wall \in Walls, BeginContact(g, wall)
      PROVE  TypeOK'
  <2>1. input' \in Flags
    <3>1. input \in Flags /\ input' \in {input, Landed(input)}
      BY <1>5 DEF BeginContact, TypeOK, Flags
    <3>. QED  BY <3>1, FlagsType
  <2>2. pc' \in PCs
    BY <1>5 DEF BeginContact, TypeOK
  <2>3. touching' \subseteq Players \X Walls
    BY <1>5 DEF BeginContact, TypeOK
  <2>. QED
    BY <1>5, <2>1, <2>2, <2>3
    DEF BeginContact, TypeOK, Flags, world, history, Players, Walls
<1>6. ASSUME NEW g \in Players, NEW wall \in Walls, EndContact(g, wall)
      PROVE  TypeOK'
  BY <1>6 DEF EndContact, TypeOK, world, history, Players, Walls
<1>15. ASSUME NEW g \in Players, NEW h \in Players, PlayersMeet(g, h) PROVE TypeOK'
  BY <1>15 DEF PlayersMeet, TypeOK, world, history, Players, Walls
<1>7. CASE Solve
  BY <1>7 DEF Solve, TypeOK, world, Players, Walls
<1>8. CASE EndStep
  BY <1>8 DEF EndStep, ClearForces, TypeOK, world, history, Players, Walls
<1>9. CASE DrawUI
  <2>1. CASE "N" \in keys
    BY <1>9, <2>1, ResetType DEF DrawUI
  <2>2. CASE "N" \notin keys
    BY <1>9, <2>2 DEF DrawUI, TypeOK, world, history, Players, Walls
  <2>. QED  BY <2>1, <2>2
<1>10. CASE HandleInput
  <2>1. input' \in Flags
    <3>1. input \in Flags /\ input' \in {input, [isJumping |-> TRUE, startJumping |-> TRUE]}
      BY <1>10 DEF HandleInput, TypeOK, Flags
    <3>. QED  BY <3>1, FlagsType
  <2>2. jumpTimer' \in Nat /\ waited' \in Nat
    BY <1>10 DEF HandleInput, RestartTimer, TypeOK
  <2>. QED
    BY <1>10, <2>1, <2>2 DEF HandleInput, TypeOK, Flags, world, Players, Walls
<1>11. CASE Reap
  BY <1>11 DEF Reap, TypeOK, world, history, Players, Walls
<1>12. CASE Close
  BY <1>12 DEF Close, TypeOK, world, history, Players, Walls
<1>13. CASE EndFrame
  <2>1. keys' \subseteq Keys
    BY <1>13 DEF EndFrame
  <2>2. PICK d \in Nat : /\ dt' = d /\ jumpTimer' = UpdateLerps(d)
                         /\ waited' = AtMost(jumpDuration, waited + d)
    BY <1>13, FrameTimeAssumption DEF EndFrame
  <2>. QED
    BY <1>13, <2>1, <2>2, JumpTimeAssumption
    DEF EndFrame, UpdateLerps, AtMost, TypeOK, world, Players, Walls
<1>14. CASE UNCHANGED vars
  BY <1>14 DEF vars, TypeOK, world, history, Players, Walls
<1>. QED
  BY <1>1, <1>2, <1>3, <1>4, <1>5, <1>6, <1>7, <1>8, <1>9, <1>10, <1>11, <1>12, <1>13,
     <1>14, <1>15 DEF Next, Contacts, Terminated

-----------------------------------------------------------------------------
(* The parts of the inductive invariant, one after the other. *)

(* The effect of resetGame as the invariants see it. *)
LEMMA ResetEffect ==
  ASSUME TypeOK, NEW next, ResetGame(next)
  PROVE  /\ pc' = "steps" /\ ret' = next /\ state' = state /\ dt' = dt
         /\ accumulator' = accumulator + dt /\ frameResets' = frameResets + 1
         /\ input' = Idle /\ force' = 0 /\ lifted' = 0 /\ simmed' = simmed
         /\ carried' = carried /\ keys' = keys
         /\ filterWorld' = filterWorld /\ jumpTimer' = jumpTimer /\ waited' = waited
         /\ Len(udata') = Len(udata) + 1 /\ Len(udata) \in Nat /\ udata' # <<>>
         /\ heap' = {udata'[Len(udata')]}
<1>1. PICK a \in Addr : heap' = {a} /\ udata' = Append(udata, a) /\ input' = Idle
                        /\ force' = 0 /\ lifted' = 0
  BY DEF ResetGame, CreatePlayerEntity, EcsReset
<1>2. Len(udata') = Len(udata) + 1 /\ Len(udata) \in Nat /\ udata'[Len(udata')] = a
  BY <1>1 DEF TypeOK
<1>3. udata' # <<>>
  BY <1>2
<1>. QED  BY <1>1, <1>2, <1>3 DEF ResetGame, LoadLevelPhysics, Accumulate

LEMMA ControlStep == IInv /\ [Next]_vars => ControlInv'
<1>. SUFFICES ASSUME IInv, [Next]_vars PROVE ControlInv'
  OBVIOUS
<1>. USE DEF InStep, InLoop
<1>1. TypeOK /\ ControlInv
  BY DEF IInv
<1>2. CASE Load
  <2>1. ResetGame(IF state = "GAME" THEN "move" ELSE "end")
    BY <1>2 DEF Load
  <2>2. CASE state = "GAME"
    BY <1>1, <1>2, <2>1, <2>2, ResetEffect DEF Load, ControlInv, TypeOK
  <2>3. CASE state = "QUIT"
    BY <1>1, <1>2, <2>1, <2>3, ResetEffect DEF Load, ControlInv, TypeOK
  <2>. QED  BY <1>1, <2>2, <2>3 DEF TypeOK
<1>3. CASE Move
  BY <1>1, <1>3 DEF Move, ControlInv, world
<1>4. CASE BeginStep
  BY <1>1, <1>4, PhysTimeAssumption DEF BeginStep, StepDue, ControlInv, TypeOK, world
<1>5. CASE EndSteps
  BY <1>1, <1>5 DEF EndSteps, ControlInv, TypeOK, world, history
<1>6. ASSUME NEW g \in Players, NEW wall \in Walls, BeginContact(g, wall)
      PROVE  ControlInv'
  BY <1>1, <1>6 DEF BeginContact, ControlInv, world, history
<1>7. ASSUME NEW g \in Players, NEW wall \in Walls, EndContact(g, wall)
      PROVE  ControlInv'
  BY <1>1, <1>7 DEF EndContact, ControlInv, world, history
<1>16. ASSUME NEW g \in Players, NEW h \in Players, PlayersMeet(g, h)
       PROVE  ControlInv'
  BY <1>1, <1>16 DEF PlayersMeet, ControlInv, world, history
<1>8. CASE Solve
  BY <1>1, <1>8 DEF Solve, ControlInv, world
<1>9. CASE EndStep
  BY <1>1, <1>9 DEF EndStep, ControlInv, world, history
<1>10. CASE DrawUI
  <2>1. CASE "N" \in keys
    BY <1>1, <1>10, <2>1, ResetEffect DEF DrawUI, ControlInv
  <2>2. CASE "N" \notin keys
    BY <1>1, <1>10, <2>2 DEF DrawUI, ControlInv, world, history
  <2>. QED  BY <2>1, <2>2
<1>11. CASE HandleInput
  BY <1>1, <1>11 DEF HandleInput, ControlInv, world
<1>12. CASE Reap
  BY <1>1, <1>12 DEF Reap, ControlInv, world, history
<1>13. CASE Close
  BY <1>1, <1>13 DEF Close, ControlInv, world, history
<1>14. CASE EndFrame
  BY <1>1, <1>14 DEF EndFrame, ControlInv, TypeOK, world
<1>15. CASE UNCHANGED vars
  BY <1>1, <1>15 DEF vars, ControlInv, world, history
<1>. QED
  BY <1>2, <1>3, <1>4, <1>5, <1>6, <1>7, <1>8, <1>9, <1>10, <1>11, <1>12, <1>13, <1>14,
     <1>15, <1>16 DEF Next, Contacts, Terminated

(* A request lives from handleInput to the next draw(), an impulse from    *)
(* there to the first physics step.                                        *)
LEMMA JumpStep == IInv /\ [Next]_vars => JumpInv'
<1>. SUFFICES ASSUME IInv, [Next]_vars PROVE JumpInv'
  OBVIOUS
<1>. USE DEF InStep
<1>1. TypeOK /\ ControlInv /\ JumpInv /\ (pc = "move" => simmed = 0)
  BY DEF IInv, TimeInv
<1>2. CASE Load
  BY <1>1, <1>2, ResetEffect DEF Load, JumpInv, Idle
<1>3. CASE Move
  <2>1. input \in Flags /\ DoMovement(input) \in Flags
    BY <1>1, FlagsType DEF TypeOK, Flags
  <2>2. /\ ~input'.startJumping
        /\ input'.isJumping <=> DoMovement(input).isJumping
    BY <1>3, <2>1 DEF Move, Flags
  <2>3. CASE DoMovement(input).startJumping
    <3>1. DoMovement(input).isJumping /\ force = 0
      BY <1>1, <1>3, <2>3 DEF Move, DoMovement, MayJump, JumpInv, TypeOK
    <3>2. /\ pc' = "steps" /\ force' = 1 /\ lifted' = 0 /\ simmed' = 0
          /\ input'.isJumping
      BY <1>1, <1>3, <2>2, <2>3, <3>1 DEF Move
    <3>. QED  BY <2>2, <3>2 DEF JumpInv
  <2>4. CASE ~DoMovement(input).startJumping
    <3>1. DoMovement(input) = input
      BY <2>4 DEF DoMovement
    <3>. QED  BY <1>1, <1>3, <2>2, <2>4, <3>1 DEF Move, JumpInv
  <2>. QED  BY <2>3, <2>4
<1>4. CASE BeginStep
  BY <1>1, <1>4 DEF BeginStep, JumpInv
<1>5. CASE EndSteps
  BY <1>1, <1>5 DEF EndSteps, JumpInv, ControlInv, TypeOK, history
<1>6. ASSUME NEW g \in Players, NEW wall \in Walls, BeginContact(g, wall)
      PROVE  JumpInv'
  <2>1. ~input.startJumping
    BY <1>1, <1>6 DEF BeginContact, JumpInv
  <2>2. ~input'.startJumping
    BY <1>1, <1>6, <2>1 DEF BeginContact, Landed, TypeOK
  <2>. QED  BY <1>1, <1>6, <2>2 DEF BeginContact, JumpInv, history
<1>7. ASSUME NEW g \in Players, NEW wall \in Walls, EndContact(g, wall)
      PROVE  JumpInv'
  BY <1>1, <1>7 DEF EndContact, JumpInv, history
<1>16. ASSUME NEW g \in Players, NEW h \in Players, PlayersMeet(g, h) PROVE JumpInv'
  BY <1>1, <1>16 DEF PlayersMeet, JumpInv, history
<1>8. CASE Solve
  BY <1>1, <1>8 DEF Solve, JumpInv, TypeOK
<1>9. CASE EndStep
  BY <1>1, <1>9 DEF EndStep, ClearForces, JumpInv
<1>10. CASE DrawUI
  <2>1. CASE "N" \in keys
    BY <1>1, <1>10, <2>1, ResetEffect DEF DrawUI, JumpInv, Idle
  <2>2. CASE "N" \notin keys
    BY <1>1, <1>10, <2>2 DEF DrawUI, JumpInv, history
  <2>. QED  BY <2>1, <2>2
<1>11. CASE HandleInput
  <2>1. CASE KJump
    <3>1. force = 0
      BY <1>1, <1>11, <2>1 DEF HandleInput, KJump, MayJump, JumpInv, TypeOK
    <3>. QED  BY <1>1, <1>11, <2>1, <3>1 DEF HandleInput, JumpInv
  <2>2. CASE ~KJump
    BY <1>1, <1>11, <2>2 DEF HandleInput, JumpInv
  <2>. QED  BY <2>1, <2>2
<1>12. CASE Reap
  BY <1>1, <1>12 DEF Reap, JumpInv, history
<1>13. CASE Close
  BY <1>1, <1>13 DEF Close, JumpInv, history
<1>14. CASE EndFrame
  BY <1>1, <1>14 DEF EndFrame, JumpInv
<1>15. CASE UNCHANGED vars
  BY <1>1, <1>15 DEF vars, JumpInv, history
<1>. QED
  BY <1>2, <1>3, <1>4, <1>5, <1>6, <1>7, <1>8, <1>9, <1>10, <1>11, <1>12, <1>13, <1>14,
     <1>15, <1>16 DEF Next, Contacts, Terminated

(* One more reset, one more frame time: what a frame was fed is a product. *)
LEMMA Product ==
  ASSUME NEW n \in Nat, NEW d \in Nat
  PROVE  /\ (n + 1) * d = n * d + d
         /\ n * d \in Nat
         /\ 0 * d = 0 /\ (0 + 0) * d = 0 /\ (0 + 1) * 0 = 0
BY SMT

LEMMA Shift ==
  ASSUME NEW s \in Nat, NEW a \in Nat, NEW c \in Nat, NEW f \in Nat, NEW d \in Nat,
         s + a = c + f
  PROVE  s + (a + d) = c + (f + d)
OBVIOUS

LEMMA TimeStep == IInv /\ [Next]_vars => TimeInv'
<1>. SUFFICES ASSUME IInv, [Next]_vars PROVE TimeInv'
  OBVIOUS
<1>. USE DEF InStep, InLoop, TimeConserved
<1>1. TypeOK /\ ControlInv /\ TimeInv
  BY DEF IInv
<1>2. ASSUME NEW next, ResetGame(next), pc # "move", pc # "halted" PROVE TimeInv'
  <2>1. Fed' = Fed + dt /\ Fed \in Nat
    <3>1. Fed = (frameResets + 1) * dt /\ Fed' = ((frameResets + 1) + 1) * dt
      BY <1>1, <1>2, ResetEffect DEF Fed
    <3>. QED  BY <1>1, <3>1, Product DEF TypeOK
  <2>2. simmed + accumulator = carried + Fed
    BY <1>1, <1>2 DEF TimeInv
  <2>3. simmed' + accumulator' = carried' + Fed'
    <3>1. /\ simmed' = simmed /\ accumulator' = accumulator + dt /\ carried' = carried
          /\ Fed' = Fed + dt
      BY <1>1, <1>2, <2>1, ResetEffect
    <3>. QED  BY <1>1, <2>1, <2>2, <3>1, Shift DEF TypeOK
  <2>. QED  BY <1>1, <1>2, <2>3, ResetEffect DEF TimeInv
<1>3. CASE Load
  BY <1>2, <1>3 DEF Load
<1>4. CASE Move
  <2>1. Fed' = Fed + dt /\ Fed \in Nat
    <3>1. Fed = (frameResets + 0) * dt /\ Fed' = (frameResets + 1) * dt
      BY <1>4 DEF Move, Fed
    <3>. QED  BY <1>1, <3>1, Product DEF TypeOK
  <2>2. simmed + accumulator = carried + Fed
    BY <1>1, <1>4 DEF Move, TimeInv
  <2>3. simmed' + accumulator' = carried' + Fed'
    <3>1. /\ simmed' = simmed /\ accumulator' = accumulator + dt /\ carried' = carried
          /\ Fed' = Fed + dt
      BY <1>4, <2>1 DEF Move, Accumulate
    <3>. QED  BY <1>1, <2>1, <2>2, <3>1, Shift DEF TypeOK
  <2>. QED  BY <1>4, <2>3 DEF Move, TimeInv
<1>5. CASE BeginStep
  <2>1. simmed' + accumulator' = simmed + accumulator
    BY <1>1, <1>5, PhysTimeAssumption DEF BeginStep, StepDue, TypeOK
  <2>. QED  BY <1>1, <1>5, <2>1 DEF BeginStep, TimeInv, Fed
<1>6. CASE EndSteps
  <2>1. accumulator < physTime
    BY <1>1, <1>6, PhysTimeAssumption DEF EndSteps, StepDue, TypeOK
  <2>2. pc' = "move" => dt = 0 /\ simmed = 0 /\ state = "GAME"
    BY <1>1, <1>6 DEF EndSteps, ControlInv, TypeOK
  <2>3. Fed' = Fed
    <3>1. CASE pc' = "move"
      <4>1. Fed = (frameResets + 1) * 0 /\ Fed' = (frameResets + 0) * 0
        BY <1>6, <2>2, <3>1 DEF EndSteps, Fed, history
      <4>. QED  BY <1>1, <4>1, Product DEF TypeOK
    <3>2. CASE pc' # "move"
      BY <1>6, <3>2 DEF EndSteps, Fed, history
    <3>. QED  BY <3>1, <3>2
  <2>. QED  BY <1>1, <1>6, <2>1, <2>2, <2>3 DEF EndSteps, TimeInv, history
<1>7. ASSUME NEW g \in Players, NEW wall \in Walls, BeginContact(g, wall)
      PROVE  TimeInv'
  BY <1>1, <1>7 DEF BeginContact, TimeInv, Fed, history
<1>8. ASSUME NEW g \in Players, NEW wall \in Walls, EndContact(g, wall)
      PROVE  TimeInv'
  BY <1>1, <1>8 DEF EndContact, TimeInv, Fed, history
<1>9. ASSUME NEW g \in Players, NEW h \in Players, PlayersMeet(g, h) PROVE TimeInv'
  BY <1>1, <1>9 DEF PlayersMeet, TimeInv, Fed, history
<1>10. CASE Solve
  BY <1>1, <1>10 DEF Solve, TimeInv, Fed
<1>11. CASE EndStep
  BY <1>1, <1>11 DEF EndStep, TimeInv, Fed, history
<1>12. CASE DrawUI
  <2>1. CASE "N" \in keys
    BY <1>2, <1>12, <2>1 DEF DrawUI
  <2>2. CASE "N" \notin keys
    BY <1>1, <1>12, <2>2 DEF DrawUI, TimeInv, Fed, history
  <2>. QED  BY <2>1, <2>2
<1>13. CASE HandleInput
  BY <1>1, <1>13 DEF HandleInput, TimeInv, Fed
<1>14. CASE Reap
  BY <1>1, <1>14 DEF Reap, TimeInv, Fed, history
<1>15. CASE Close
  BY <1>1, <1>15 DEF Close, TimeInv, Fed, history
<1>16. CASE EndFrame
  <2>1. PICK d \in Nat : dt' = d
    BY <1>16, FrameTimeAssumption DEF EndFrame
  <2>2. /\ simmed' = 0 /\ carried' = accumulator /\ accumulator' = accumulator
        /\ frameResets' = 0 /\ accumulator < physTime
    BY <1>1, <1>16 DEF EndFrame, TimeInv
  <2>3. pc' = "move" => Fed' = 0
    <3>1. pc' = "move" => Fed' = (0 + 0) * d
      BY <2>1, <2>2 DEF Fed
    <3>. QED  BY <2>1, <3>1, Product
  <2>. QED  BY <1>1, <1>16, <2>2, <2>3 DEF EndFrame, TimeInv, TypeOK
<1>17. CASE UNCHANGED vars
  BY <1>1, <1>17 DEF vars, TimeInv, Fed, history
<1>. QED
  BY <1>3, <1>4, <1>5, <1>6, <1>7, <1>8, <1>9, <1>10, <1>11, <1>12, <1>13, <1>14, <1>15,
     <1>16, <1>17 DEF Next, Contacts, Terminated

(* A body that a contact leads to is the current player's, or one that was *)
(* left behind by a reset.                                                 *)
LEMMA FaultExplained ==
  ASSUME TypeOK, MemoryInv, NEW g \in Players, "fault" \in ReadUserData(g)
  PROVE  restarts > 0 \/ state = "QUIT"
<1>1. udata[g] \notin heap
  BY DEF ReadUserData
<1>2. g # Len(udata) /\ g \in 1 .. Len(udata) /\ Len(udata) \in Nat
  BY <1>1 DEF MemoryInv, TypeOK, Players
<1>3. Len(udata) > 1
  BY <1>2
<1>. QED  BY <1>2, <1>3 DEF MemoryInv, TypeOK

LEMMA MemoryStep == IInv /\ [Next]_vars => MemoryInv'
<1>. SUFFICES ASSUME IInv, [Next]_vars PROVE MemoryInv'
  OBVIOUS
<1>. USE DEF FirstGameDefined
<1>1. TypeOK /\ ControlInv /\ MemoryInv
  BY DEF IInv
<1>2. CASE Load
  <2>1. ResetGame(IF state = "GAME" THEN "move" ELSE "end") /\ restarts' = restarts
    BY <1>2 DEF Load
  <2>2. CASE state = "GAME"
    <3>1. Len(udata) = 0
      BY <1>1, <1>2, <2>2 DEF Load, ControlInv
    <3>. QED  BY <1>1, <2>1, <2>2, <3>1, ResetEffect DEF MemoryInv, TypeOK
  <2>3. CASE state = "QUIT"
    BY <1>1, <2>1, <2>3, ResetEffect DEF MemoryInv, TypeOK
  <2>. QED  BY <1>1, <2>2, <2>3 DEF TypeOK
<1>3. CASE Move
  BY <1>1, <1>3 DEF Move, BuildFilter, MemoryInv, world
<1>4. CASE BeginStep
  BY <1>1, <1>4 DEF BeginStep, MemoryInv, world
<1>5. CASE EndSteps
  BY <1>1, <1>5 DEF EndSteps, MemoryInv, TypeOK, world, history
<1>6. ASSUME NEW g \in Players, NEW wall \in Walls, BeginContact(g, wall)
      PROVE  MemoryInv'
  <2>1. pc' # pc => pc' = "crashed" /\ "fault" \in ReadUserData(g)
    BY <1>6 DEF BeginContact
  <2>2. pc' # pc => restarts > 0 \/ state = "QUIT"
    BY <1>1, <1>6, <2>1, FaultExplained
  <2>. QED  BY <1>1, <1>6, <2>1, <2>2 DEF BeginContact, MemoryInv, world, history
<1>7. ASSUME NEW g \in Players, NEW wall \in Walls, EndContact(g, wall)
      PROVE  MemoryInv'
  BY <1>1, <1>7 DEF EndContact, MemoryInv, world, history
<1>8. ASSUME NEW g \in Players, NEW h \in Players, PlayersMeet(g, h) PROVE MemoryInv'
  <2>1. pc' # pc => /\ pc' = "crashed"
                    /\ "fault" \in ReadUserData(g) \/ "fault" \in ReadUserData(h)
    BY <1>8 DEF PlayersMeet
  <2>2. pc' # pc => restarts > 0 \/ state = "QUIT"
    BY <1>1, <1>8, <2>1, FaultExplained
  <2>. QED  BY <1>1, <1>8, <2>1, <2>2 DEF PlayersMeet, MemoryInv, world, history
<1>9. CASE Solve
  BY <1>1, <1>9 DEF Solve, MemoryInv, world
<1>10. CASE EndStep
  BY <1>1, <1>10 DEF EndStep, MemoryInv, world, history
<1>11. CASE DrawUI
  <2>1. CASE "N" \in keys
    BY <1>1, <1>11, <2>1, ResetEffect DEF DrawUI, MemoryInv, TypeOK
  <2>2. CASE "N" \notin keys
    BY <1>1, <1>11, <2>2 DEF DrawUI, MemoryInv, world, history
  <2>. QED  BY <2>1, <2>2
<1>12. CASE HandleInput
  BY <1>1, <1>12 DEF HandleInput, MemoryInv, world
<1>13. CASE Reap
  <2>1. ret \in {"ui", "keys"} /\ state \in {"GAME", "QUIT"}
    BY <1>1, <1>13 DEF Reap, ControlInv, TypeOK
  <2>2. pc' = "crashed" => filterWorld # Len(udata)
    BY <1>13 DEF Reap
  <2>3. pc' = "crashed" => restarts > 0 \/ state = "QUIT"
    BY <1>1, <1>13, <2>1, <2>2 DEF MemoryInv, Reap
  <2>. QED  BY <1>1, <1>13, <2>3 DEF Reap, MemoryInv, world, history
<1>14. CASE Close
  BY <1>1, <1>14 DEF Close, MemoryInv, world, history
<1>15. CASE EndFrame
  BY <1>1, <1>15 DEF EndFrame, MemoryInv, world
<1>16. CASE UNCHANGED vars
  BY <1>1, <1>16 DEF vars, MemoryInv, world, history
<1>. QED
  BY <1>2, <1>3, <1>4, <1>5, <1>6, <1>7, <1>8, <1>9, <1>10, <1>11, <1>12, <1>13, <1>14,
     <1>15, <1>16 DEF Next, Contacts, Terminated

LEMMA TimerStep == IInv /\ [Next]_vars => TimerInv'
<1>. SUFFICES ASSUME IInv, [Next]_vars PROVE TimerInv'
  OBVIOUS
<1>1. TypeOK /\ TimerInv
  BY DEF IInv
<1>2. CASE EndFrame
  <2>1. PICK d \in Nat : /\ jumpTimer' = UpdateLerps(d)
                         /\ waited' = AtMost(jumpDuration, waited + d)
    BY <1>2, FrameTimeAssumption DEF EndFrame
  <2>. QED
    BY <1>1, <2>1, JumpTimeAssumption
    DEF UpdateLerps, TimerFinished, AtMost, TimerInv, TypeOK
<1>3. CASE HandleInput
  BY <1>1, <1>3 DEF HandleInput, RestartTimer, TimerInv
<1>4. ASSUME NEW next, ResetGame(next) PROVE TimerInv'
  BY <1>1, <1>4, ResetEffect DEF TimerInv
<1>5. CASE Load \/ DrawUI
  BY <1>1, <1>4, <1>5 DEF Load, DrawUI, TimerInv, history
<1>6. CASE Move \/ BeginStep \/ EndSteps \/ Contacts \/ Solve \/ EndStep \/ Reap \/ Close
            \/ UNCHANGED vars
  BY <1>1, <1>6 DEF Move, BeginStep, EndSteps, Contacts, BeginContact, EndContact,
     PlayersMeet, Solve, EndStep, Reap, Close, vars, history, TimerInv
<1>. QED  BY <1>2, <1>3, <1>5, <1>6 DEF Next, Terminated

THEOREM InductiveInvariant == SafeSpec => []IInv
<1>1. Init => IInv
  <2>1. ASSUME Init PROVE Fed = 0
    <3>1. Fed = (0 + 1) * 0
      BY <2>1 DEF Init, Fed
    <3>. QED  BY <3>1, Product
  <2>. QED
    BY <2>1, TypeInit, PhysTimeAssumption
    DEF Init, IInv, ControlInv, JumpInv, TimeInv, TimeConserved, MemoryInv, TimerInv,
        FirstGameDefined, InStep, InLoop, Idle
<1>2. IInv /\ [Next]_vars => IInv'
  BY TypeStep, ControlStep, JumpStep, TimeStep, MemoryStep, TimerStep DEF IInv
<1>. QED  BY <1>1, <1>2, PTL DEF SafeSpec

-----------------------------------------------------------------------------
(* The theorems. *)

(* Every variable keeps its type; in particular every contact the physics  *)
(* engine remembers is between a player's body and a static body that      *)
(* still exist.                                                            *)
THEOREM TypeCorrect == SafeSpec => []TypeOK
<1>1. IInv => TypeOK
  BY DEF IInv
<1>. QED  BY InductiveInvariant, <1>1, PTL

(* One jump gives the body one impulse, and one physics step integrates    *)
(* it, for every step length and every sequence of frame times.            *)
THEOREM JumpImpulse == SafeSpec => []SingleImpulse
<1>1. IInv => SingleImpulse
  BY DEF IInv, JumpInv, SingleImpulse, InStep, InLoop
<1>. QED  BY InductiveInvariant, <1>1, PTL

(* An impulse outlives its frame only if that frame simulated nothing.     *)
THEOREM NoImpulseLeftOver == SafeSpec => []NoStaleForce
<1>1. IInv => NoStaleForce
  BY DEF IInv, JumpInv, NoStaleForce, InStep, InLoop
<1>. QED  BY InductiveInvariant, <1>1, PTL

(* The physics simulates the time it is given, all of it and once, less    *)
(* than one step being carried over, however often the game is reset.      *)
THEOREM TimeConservation == SafeSpec => []TimeConserved
<1>1. IInv => TimeConserved
  BY DEF IInv, TimeInv
<1>. QED  BY InductiveInvariant, <1>1, PTL

(* Until the window is closed or KEY_N is pressed, no contact callback and *)
(* no filter reads freed memory.  Nothing is promised after either.        *)
THEOREM FirstGameRunsDefined == SafeSpec => []FirstGameDefined
<1>1. IInv => FirstGameDefined
  BY DEF IInv, MemoryInv
<1>. QED  BY InductiveInvariant, <1>1, PTL

(* A filter is destroyed after its world only in a frame that KEY_N reset. *)
THEOREM OnlyResetsStaleFilters == SafeSpec => StaleFilterOnlyOnReset
<1>1. IInv /\ [Next]_vars => [pc = "reap" /\ pc' = "crashed" => "N" \in keys]_vars
  <2>1. SUFFICES ASSUME IInv, Next, pc = "reap", pc' = "crashed", "N" \notin keys
                 PROVE  FALSE
    OBVIOUS
  <2>2. ret \in {"ui", "keys"} /\ filterWorld = Len(udata)
    BY <2>1 DEF IInv, ControlInv, MemoryInv
  <2>3. ~Reap
    BY <2>1, <2>2 DEF Reap
  <2>. QED
    BY <2>1, <2>3 DEF Next, Load, Move, BeginStep, EndSteps, Contacts, BeginContact,
       EndContact, PlayersMeet, Solve, EndStep, DrawUI, HandleInput, Close, EndFrame,
       Terminated, Stopped
<1>. QED  BY InductiveInvariant, <1>1, PTL DEF SafeSpec, StaleFilterOnlyOnReset

(* Two jumps by KEY_K are never closer than the timer's duration.          *)
THEOREM KeyJumpsSpaced == SafeSpec => KJumpSpacing
<1>1. IInv /\ [Next]_vars =>
        [pc = "keys" /\ ~input.startJumping /\ input'.startJumping
           => waited >= jumpDuration]_vars
  <2>1. SUFFICES ASSUME IInv, Next, pc = "keys", ~input.startJumping, input'.startJumping
                 PROVE  waited >= jumpDuration
    OBVIOUS
  <2>2. HandleInput
    BY <2>1 DEF Next, Load, Move, BeginStep, EndSteps, Contacts, BeginContact, EndContact,
       PlayersMeet, Solve, EndStep, DrawUI, Reap, Close, EndFrame, Terminated, Stopped
  <2>3. KJump
    BY <2>1, <2>2 DEF HandleInput
  <2>4. jumpTimer >= jumpDuration /\ jumpTimer \in Nat /\ waited \in Nat
    BY <2>1, <2>3 DEF KJump, TimerFinished, IInv, TypeOK
  <2>. QED  BY <2>1, <2>4, JumpTimeAssumption DEF IInv, TimerInv
<1>. QED  BY InductiveInvariant, <1>1, PTL DEF SafeSpec, KJumpSpacing

-----------------------------------------------------------------------------
(* Game implements JumpContract, step by step. *)

LEMMA ContractReset ==
  ASSUME TypeOK, NEW next, ResetGame(next), ~Stopped
  PROVE  Contract!Respawn
<1>1. JumpPhase # "over"
  BY DEF JumpPhase
<1>2. JumpPhase' = "ready"
  BY ResetEffect DEF JumpPhase, Stopped, Idle
<1>. QED  BY <1>1, <1>2, ResetEffect DEF Contract!Respawn

LEMMA ContractStep == IInv /\ [Next]_vars => [Contract!Next]_(Contract!vars)
<1>. SUFFICES ASSUME IInv, [Next]_vars PROVE [Contract!Next]_(Contract!vars)
  OBVIOUS
<1>. USE DEF JumpPhase, Stopped, Contract!Next, Contract!vars, Contract!Becomes
<1>1. TypeOK /\ ControlInv /\ JumpInv
  BY DEF IInv
<1>2. CASE Load
  BY <1>1, <1>2, ContractReset DEF Load
<1>3. CASE Move
  <2>1. UNCHANGED <<udata>> /\ pc = "move" /\ pc' = "steps"
    BY <1>3 DEF Move, world
  <2>2. CASE DoMovement(input).startJumping
    <3>1. JumpPhase \in {"ready", "asked"}
      BY <1>1, <2>1, <2>2 DEF DoMovement, MayJump, JumpInv, InStep, TypeOK
    <3>2. input'.isJumping /\ ~input'.startJumping
      <4>1. input \in Flags /\ DoMovement(input) \in Flags
        BY <1>1, FlagsType DEF TypeOK, Flags
      <4>2. DoMovement(input).isJumping
        BY <1>1, <2>2 DEF DoMovement, JumpInv
      <4>. QED  BY <1>3, <4>1, <4>2 DEF Move, Flags
    <3>3. force' = force + 1 /\ lifted' = 0
      BY <1>3, <2>2 DEF Move
    <3>4. JumpPhase' = "pushed"
      BY <1>1, <2>1, <3>2, <3>3 DEF TypeOK
    <3>. QED  BY <2>1, <3>1, <3>4 DEF Contract!Push
  <2>3. CASE ~DoMovement(input).startJumping
    <3>1. DoMovement(input) = input /\ ~input.startJumping
      BY <2>3 DEF DoMovement
    <3>2. /\ force' = force /\ lifted' = lifted
          /\ input' = [input EXCEPT !.startJumping = FALSE]
      BY <1>3, <2>3, <3>1 DEF Move
    <3>3. ~input'.startJumping /\ input'.isJumping = input.isJumping
      BY <1>1, <3>2 DEF TypeOK
    <3>. QED  BY <2>1, <3>1, <3>2, <3>3
  <2>. QED  BY <2>2, <2>3
<1>4. CASE BeginStep
  BY <1>4 DEF BeginStep, world
<1>5. CASE EndSteps
  BY <1>1, <1>5 DEF EndSteps, TypeOK, world, history
<1>6. ASSUME NEW g \in Players, NEW wall \in Walls, BeginContact(g, wall)
      PROVE  [Contract!Next]_(Contract!vars)
  <2>1. ~input.startJumping /\ UNCHANGED <<udata, force, lifted>> /\ InStep
    BY <1>1, <1>6 DEF BeginContact, JumpInv, InStep, world, history
  <2>2. CASE pc' = "crashed"
    BY <1>6, <2>1, <2>2 DEF BeginContact, Contract!Stop, Contract!Phases
  <2>3. CASE pc' # "crashed"
    <3>1. pc' = pc /\ input' \in {input, Landed(input)}
      BY <1>6, <2>3 DEF BeginContact
    <3>2. CASE input' = input
      BY <2>1, <3>1, <3>2 DEF InStep
    <3>3. CASE input' = Landed(input)
      <4>1. ~input'.isJumping /\ ~input'.startJumping
        BY <1>1, <2>1, <3>3 DEF Landed, TypeOK
      <4>. QED
        BY <2>1, <3>1, <4>1 DEF InStep, Contract!Release, Contract!Land
    <3>. QED  BY <3>1, <3>2, <3>3
  <2>. QED  BY <2>2, <2>3
<1>7. ASSUME NEW g \in Players, NEW wall \in Walls, EndContact(g, wall)
      PROVE  [Contract!Next]_(Contract!vars)
  BY <1>7 DEF EndContact, world, history
<1>16. ASSUME NEW g \in Players, NEW h \in Players, PlayersMeet(g, h)
       PROVE  [Contract!Next]_(Contract!vars)
  BY <1>16 DEF PlayersMeet, world, history, Contract!Stop, Contract!Phases
<1>8. CASE Solve
  <2>1. ~input.startJumping
    BY <1>1, <1>8 DEF Solve, JumpInv
  <2>2. CASE force > 0
    BY <1>1, <1>8, <2>1, <2>2 DEF Solve, JumpInv, TypeOK, world, Contract!TakeOff
  <2>3. CASE ~(force > 0)
    BY <1>8, <2>3 DEF Solve, world
  <2>. QED  BY <2>2, <2>3
<1>9. CASE EndStep
  BY <1>1, <1>9 DEF EndStep, ClearForces, JumpInv, TypeOK, world, history
<1>10. CASE DrawUI
  <2>1. CASE "N" \in keys
    BY <1>1, <1>10, <2>1, ContractReset DEF DrawUI
  <2>2. CASE "N" \notin keys
    BY <1>10, <2>2 DEF DrawUI, world, history
  <2>. QED  BY <2>1, <2>2
<1>11. CASE HandleInput
  <2>1. CASE KJump
    <3>1. ~input.isJumping /\ ~input.startJumping /\ force = 0
      BY <1>1, <1>11, <2>1 DEF HandleInput, KJump, MayJump, JumpInv, InStep, TypeOK
    <3>. QED
      BY <1>11, <2>1, <3>1 DEF HandleInput, world, Contract!Request
  <2>2. CASE ~KJump
    BY <1>11, <2>2 DEF HandleInput, world
  <2>. QED  BY <2>1, <2>2
<1>12. CASE Reap
  BY <1>12 DEF Reap, world, history, Contract!Stop, Contract!Phases
<1>13. CASE Close
  BY <1>13 DEF Close, world, history
<1>14. CASE EndFrame
  BY <1>14 DEF EndFrame, world, Contract!Stop, Contract!Phases
<1>15. CASE UNCHANGED vars
  BY <1>15 DEF vars, world, history
<1>. QED
  BY <1>2, <1>3, <1>4, <1>5, <1>6, <1>7, <1>8, <1>9, <1>10, <1>11, <1>12, <1>13, <1>14,
     <1>15, <1>16 DEF Next, Contacts, Terminated

(* The frame loop implements the contract: an accepted jump is never lost  *)
(* but by a reset or the end of the program, never doubled, and never      *)
(* repeated in the air but through the early landing the contract names.   *)
THEOREM JumpImplementsContract == SafeSpec => JumpSafety
<1>1. Init => Contract!Init
  BY DEF Init, Contract!Init, JumpPhase, Stopped, Idle
<1>. QED
  BY InductiveInvariant, ContractStep, <1>1, PTL
  DEF SafeSpec, JumpSafety, Contract!SafeSpec
=============================================================================
