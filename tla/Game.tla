-------------------------------- MODULE Game --------------------------------
(***************************************************************************)
(* The frame loop of the game: main.cpp's loop, GameState (load, draw,     *)
(* resetGame, drawUI, handleInput), the player's jump (PlayerInput, the    *)
(* jump timer), the fixed-step physics loop with its contact callbacks,    *)
(* and the life of the UserData cell that a player's physics body points   *)
(* to.  One thread runs everything; what is unknown to it is the keyboard, *)
(* the length of a frame, which contacts the physics engine reports, and   *)
(* what a read of freed memory gives.                                      *)
(*                                                                         *)
(* Time is counted in ticks.  Bodies are numbered by the call of resetGame *)
(* that created them: body g is the g-th player's, copy w of the level's   *)
(* static bodies is the one the w-th call added.                           *)
(***************************************************************************)
EXTENDS Naturals, Sequences

CONSTANTS
  Tiles,         \* the non-empty floor tiles: one static body each per copy of the level
  Addr,          \* heap cells a UserData may be allocated in
  FrameTimes,    \* what GetFrameTime() may return after a frame
  physTime,      \* game.h: length of a physics step, 1 / refresh rate
  jumpDuration,  \* game.cpp: the duration given to "jumpLerp"
  MaxResets      \* bound: KEY_N is no longer pressed once this many players were created

ASSUME AddrAssumption      == Addr # {}
ASSUME FrameTimeAssumption == FrameTimes \subseteq Nat
ASSUME PhysTimeAssumption  == physTime \in Nat \ {0}
ASSUME JumpTimeAssumption  == jumpDuration \in Nat
ASSUME ResetAssumption     == MaxResets \in Nat

VARIABLES
  pc,           \* the part of the frame that runs next
  ret,          \* where the physics loop returns to: it is reached from three places
  state,        \* State::currentstate
  keys,         \* the input polled at the end of the last frame
  dt,           \* GetFrameTime()
  accumulator,  \* game time not yet simulated
  input,        \* the current player's PlayerInput flags
  jumpTimer,    \* jumpTimer->time
  udata,        \* udata[g]: the UserData pointer stored in body g
  heap,         \* the cells that hold a live UserData
  levels,       \* copies of the level's static bodies in the physics world
  touching,     \* contacts <<g, <<w, t>>>> the physics engine has begun and not ended
  force,        \* jump impulses waiting in the current body's m_force
  filterWorld,  \* which ECS world (numbered by resets) draw()'s playerFilter was built on
  \* history, read by the properties only
  lifted,       \* how often the last jump impulse has been integrated
  simmed,       \* ticks simulated since the last frame began
  carried,      \* what was left in the accumulator when it began
  frameResets,  \* calls of resetGame since then
  restarts,     \* calls of resetGame by KEY_N
  waited        \* ticks since the last jump by KEY_K, or since the start

world   == <<udata, heap, levels>>
history == <<lifted, simmed, carried, frameResets, restarts, waited>>
vars == <<pc, ret, state, keys, dt, accumulator, input, jumpTimer, world,
          touching, force, filterWorld, history>>

Keys    == {"jump", "K", "N"}
PCs     == {"load", "move", "steps", "collide", "toi", "ui", "keys", "reap",
            "close", "end", "halted", "crashed"}
Players == 1 .. Len(udata)
Walls   == (1 .. levels) \X Tiles
Idle    == [isJumping |-> FALSE, startJumping |-> FALSE]

Stopped == pc \in {"halted", "crashed"}

TypeOK ==
  /\ pc \in PCs
  /\ ret \in {"move", "ui", "keys", "end"}
  /\ state \in {"GAME", "QUIT"}
  /\ keys \subseteq Keys
  /\ dt \in Nat /\ accumulator \in Nat /\ jumpTimer \in Nat /\ force \in Nat
  /\ input \in [isJumping : BOOLEAN, startJumping : BOOLEAN]
  /\ udata \in Seq(Addr) /\ heap \subseteq Addr
  /\ levels \in Nat /\ filterWorld \in Nat
  /\ touching \subseteq Players \X Walls
  /\ lifted \in Nat /\ simmed \in Nat /\ carried \in Nat
  /\ frameResets \in Nat /\ restarts \in Nat /\ waited \in Nat

(* main() up to State::setState(GAME): the loop has not begun, no frame    *)
(* has been timed, and Lerp::getLerp is about to create the timer at 0.    *)
Init ==
  /\ pc = "load" /\ ret = "move" /\ state = "GAME"
  /\ keys = {} /\ dt = 0 /\ accumulator = 0
  /\ input = Idle /\ jumpTimer = 0
  /\ udata = <<>> /\ heap = {} /\ levels = 0 /\ touching = {}
  /\ force = 0 /\ filterWorld = 0
  /\ lifted = 0 /\ simmed = 0 /\ carried = 0 /\ frameResets = 0 /\ restarts = 0
  /\ waited = 0

-----------------------------------------------------------------------------
(* GameState::resetGame *)

(* ECS::reset destroys the ECS world.  Each UserData is owned by a         *)
(* component of its player, so its cell goes back to the heap; the physics *)
(* world is a separate singleton and keeps every body.                     *)
EcsReset(cells) == {}

(* CreatePlayerEntity: one entity, one UserData in a free cell, one body   *)
(* whose userData.pointer is the raw address of that cell.                 *)
MutantCreatePlayerFreesUserData ==
  \E a \in Addr \ EcsReset(heap) :
    /\ heap'  = EcsReset(heap)
    /\ udata' = Append(udata, a)
    /\ input' = Idle
    /\ force' = 0
    /\ lifted' = 0

CreatePlayerEntity ==
  \E a \in Addr \ EcsReset(heap) :
    /\ heap'  = EcsReset(heap) \cup {a}
    /\ udata' = Append(udata, a)
    /\ input' = Idle
    /\ force' = 0
    /\ lifted' = 0

(* World::loadLevelPhysics adds static bodies and removes none. *)
MutantLoadLevelOnce == levels' = IF levels = 0 THEN 1 ELSE 0
LoadLevelPhysics == levels' = levels + 1

MutantAccumulateForgets == accumulator' = dt
Accumulate == accumulator' = accumulator + dt

ResetGame(next) ==
  /\ CreatePlayerEntity
  /\ LoadLevelPhysics
  /\ Accumulate
  /\ frameResets' = frameResets + 1
  /\ pc' = "steps" /\ ret' = next
  /\ UNCHANGED <<state, keys, dt, jumpTimer, touching, filterWorld, simmed, carried,
                 waited>>

(* GameState::load, called by State::_setState: when the game starts and,  *)
(* since QUIT creates no state of its own, once more when it ends.  The    *)
(* timer is found by name the second time and keeps its value.             *)
Load ==
  /\ pc = "load"
  /\ ResetGame(IF state = "GAME" THEN "move" ELSE "end")
  /\ UNCHANGED restarts

-----------------------------------------------------------------------------
(* GameState::draw, up to the physics loop *)

MutantMayAlwaysJump(in) == TRUE
MayJump(in) == ~in.isJumping

(* PlayerInput::doMovement.  "jump" stands for ACCEPT, UP or SHOOT reading *)
(* PRESSED on any of the player's controllers.                             *)
DoMovement(in) ==
  IF "jump" \in keys /\ MayJump(in)
  THEN [isJumping |-> TRUE, startJumping |-> TRUE]
  ELSE in

(* playerFilter, built anew by each draw(). *)
MutantFilterKept == filterWorld' = IF filterWorld = 0 THEN Len(udata) ELSE filterWorld
BuildFilter == filterWorld' = Len(udata)

(* doMovement, then ApplyForceToCenter when it (or KEY_K in the frame      *)
(* before) asked for a jump, then one frame time into the accumulator.     *)
Move ==
  /\ pc = "move"
  /\ LET in == DoMovement(input)
     IN  /\ input' = [in EXCEPT !.startJumping = FALSE]
         /\ force' = IF in.startJumping THEN force + 1 ELSE force
         /\ lifted' = IF in.startJumping THEN 0 ELSE lifted
  /\ BuildFilter
  /\ Accumulate
  /\ pc' = "steps" /\ ret' = "ui"
  /\ UNCHANGED <<state, keys, dt, jumpTimer, world, touching, simmed, carried,
                 frameResets, restarts, waited>>

-----------------------------------------------------------------------------
(* The physics loop: while (accumulator >= physTime) World::doStep(...)    *)

StepDue == accumulator >= physTime

BeginStep ==
  /\ pc = "steps" /\ StepDue
  /\ accumulator' = accumulator - physTime
  /\ simmed' = simmed + physTime
  /\ pc' = "collide"
  /\ UNCHANGED <<ret, state, keys, dt, input, jumpTimer, world, touching, force,
                 filterWorld, lifted, carried, frameResets, restarts, waited>>

EndSteps ==
  /\ pc = "steps" /\ ~StepDue
  /\ pc' = ret
  /\ UNCHANGED <<ret, state, keys, dt, accumulator, input, jumpTimer, world, touching,
                 force, filterWorld, history>>

(* What World::BeginContact finds behind the UserData pointer of body g:   *)
(* the current player's entity id if the cell holds a live UserData, which *)
(* is the current player's whoever put the pointer there.  A freed cell    *)
(* may still hold an id the new ECS world uses again, any other number, or *)
(* one the ECS refuses.                                                    *)
ReadUserData(g) ==
  IF udata[g] \in heap THEN {"player"} ELSE {"player", "none", "fault"}

Landed(in) == [in EXCEPT !.isJumping = FALSE]

(* World::BeginContact for a player's body and a static body.  The flag of *)
(* the entity found is cleared when the positions pass the height test.    *)
(* Both halves of a step report contacts: Collide, and SolveTOI.  That a   *)
(* contact begins and ends any number of times in one half is more than    *)
(* the engine does.                                                        *)
BeginContact(g, wall) ==
  /\ pc \in {"collide", "toi"} /\ <<g, wall>> \notin touching
  /\ touching' = touching \cup {<<g, wall>>}
  /\ \E entity \in ReadUserData(g), heightTest \in BOOLEAN :
       /\ pc' = IF entity = "fault" THEN "crashed" ELSE pc
       /\ input' = IF entity = "player" /\ heightTest THEN Landed(input) ELSE input
  /\ UNCHANGED <<ret, state, keys, dt, accumulator, jumpTimer, world, force,
                 filterWorld, history>>

(* World::BeginContact for the bodies of two players, one of whom was left *)
(* behind by a reset.  Both pointers are followed; no entity is an enemy   *)
(* or a fireball, so that the branches ask and change nothing.  Whether    *)
(* the two touch already is not kept: a second call would do the same.     *)
PlayersMeet(g, h) ==
  /\ pc \in {"collide", "toi"} /\ g # h
  /\ \E a \in ReadUserData(g), b \in ReadUserData(h) :
       pc' = IF "fault" \in {a, b} THEN "crashed" ELSE pc
  /\ UNCHANGED <<ret, state, keys, dt, accumulator, input, jumpTimer, world, touching,
                 force, filterWorld, history>>

(* World::EndContact does nothing; the engine forgets the contact. *)
EndContact(g, wall) ==
  /\ pc \in {"collide", "toi"} /\ <<g, wall>> \in touching
  /\ touching' = touching \ {<<g, wall>>}
  /\ UNCHANGED <<pc, ret, state, keys, dt, accumulator, input, jumpTimer, world, force,
                 filterWorld, history>>

(* b2World::Solve integrates the forces, after the contacts were updated. *)
Solve ==
  /\ pc = "collide" /\ pc' = "toi"
  /\ lifted' = IF force > 0 THEN lifted + 1 ELSE lifted
  /\ UNCHANGED <<ret, state, keys, dt, accumulator, input, jumpTimer, world, touching,
                 force, filterWorld, simmed, carried, frameResets, restarts, waited>>

(* b2World::ClearForces, at the end of every step. *)
MutantClearForcesSkipped == force' = force
ClearForces == force' = 0

EndStep ==
  /\ pc = "toi" /\ pc' = "steps"
  /\ ClearForces
  /\ UNCHANGED <<ret, state, keys, dt, accumulator, input, jumpTimer, world, touching,
                 filterWorld, history>>

-----------------------------------------------------------------------------
(* The rest of GameState::draw *)

(* drawUI: KEY_N resets the game in the middle of draw(). *)
DrawUI ==
  /\ pc = "ui"
  /\ IF "N" \in keys
     THEN ResetGame("keys") /\ restarts' = restarts + 1
     ELSE /\ pc' = "keys"
          /\ UNCHANGED <<ret, state, keys, dt, accumulator, input, jumpTimer, world,
                         touching, force, filterWorld, history>>

TimerFinished == jumpTimer >= jumpDuration

(* KEY_K held: jump when on the ground and the timer has run out. *)
KJump == "K" \in keys /\ MayJump(input) /\ TimerFinished

MutantTimerRestartedByKey(jumped) == IF "K" \in keys THEN 0 ELSE jumpTimer
RestartTimer(jumped) == IF jumped THEN 0 ELSE jumpTimer

HandleInput ==
  /\ pc = "keys" /\ pc' = "reap"
  /\ jumpTimer' = RestartTimer(KJump)
  /\ IF KJump
     THEN /\ input' = [isJumping |-> TRUE, startJumping |-> TRUE]
          /\ waited' = 0
     ELSE UNCHANGED <<input, waited>>
  /\ UNCHANGED <<ret, state, keys, dt, accumulator, world, touching, force, filterWorld,
                 lifted, simmed, carried, frameResets, restarts>>

(* End of draw().  Nothing here carries DeleteMe.  playerFilter, built on  *)
(* the ECS world of the frame's beginning, is destroyed; flecs then reads  *)
(* that world, which a reset during the frame has freed.                   *)
Reap ==
  /\ pc = "reap"
  /\ pc' \in IF filterWorld = Len(udata) THEN {"close"} ELSE {"close", "crashed"}
  /\ UNCHANGED <<ret, state, keys, dt, accumulator, input, jumpTimer, world, touching,
                 force, filterWorld, history>>

(* WindowShouldClose() -> State::setState(QUIT): the state object is kept  *)
(* and loaded again.                                                       *)
Close ==
  /\ pc = "close"
  /\ \/ pc' = "end" /\ UNCHANGED state
     \/ pc' = "load" /\ state' = "QUIT"
  /\ UNCHANGED <<ret, keys, dt, accumulator, input, jumpTimer, world, touching, force,
                 filterWorld, history>>

(* Lerp::updateLerps for the jump timer, after a frame of d ticks. *)
MutantUpdateLerpsTwice(d) == IF TimerFinished THEN jumpTimer ELSE jumpTimer + 2 * d
UpdateLerps(d) == IF TimerFinished THEN jumpTimer ELSE jumpTimer + d

AtMost(bound, n) == IF n > bound THEN bound ELSE n

(* EndDrawing times the frame and polls the input; the lerps advance; the  *)
(* loop goes on unless the state is QUIT.  IsKeyPressed(KEY_N) needs the   *)
(* key up in the poll before.  waited is counted up to jumpDuration.       *)
EndFrame ==
  /\ pc = "end"
  /\ pc' = IF state = "QUIT" THEN "halted" ELSE "move"
  /\ keys' \in SUBSET (IF "N" \in keys \/ Len(udata) >= MaxResets
                       THEN Keys \ {"N"} ELSE Keys)
  /\ \E d \in FrameTimes :
       /\ dt' = d
       /\ jumpTimer' = UpdateLerps(d)
       /\ waited' = AtMost(jumpDuration, waited + d)
  /\ simmed' = 0 /\ carried' = accumulator /\ frameResets' = 0
  /\ UNCHANGED <<ret, state, accumulator, input, world, touching, force, filterWorld,
                 lifted, restarts>>

(* The process is gone. *)
Terminated == Stopped /\ UNCHANGED vars

Contacts ==
  \/ \E g \in Players, wall \in Walls : BeginContact(g, wall) \/ EndContact(g, wall)
  \/ \E g, h \in Players : PlayersMeet(g, h)

Next ==
  \/ Load \/ Move \/ BeginStep \/ EndSteps \/ Contacts \/ Solve \/ EndStep
  \/ DrawUI \/ HandleInput \/ Reap \/ Close \/ EndFrame \/ Terminated

SafeSpec == Init /\ [][Next]_vars

(* The thread never waits: each part of the frame is eventually run.  Each *)
(* has its own condition, for contacts may come and go while the physics   *)
(* step is in one of its halves.  Nothing is assumed of keys and contacts. *)
Fairness ==
  /\ WF_vars(Load) /\ WF_vars(Move) /\ WF_vars(BeginStep) /\ WF_vars(EndSteps)
  /\ WF_vars(Solve) /\ WF_vars(EndStep) /\ WF_vars(DrawUI) /\ WF_vars(HandleInput)
  /\ WF_vars(Reap) /\ WF_vars(Close) /\ WF_vars(EndFrame)

Spec == SafeSpec /\ Fairness

-----------------------------------------------------------------------------
(* Properties *)

InStep == pc \in {"collide", "toi"}
InLoop == InStep \/ pc = "steps"

(* However key presses, short frames, resets and the order of draw()'s     *)
(* parts combine, never do two jump impulses add up in the body, and no    *)
(* impulse is integrated by two physics steps.                             *)
SingleImpulse == force <= 1 /\ (force > 0 => lifted <= 1)

(* A jump impulse is left over at the end of a frame only if that frame    *)
(* simulated nothing: the delay is that of the accumulator and no other.   *)
NoStaleForce ==
  ~InStep /\ pc # "crashed" /\ force > 0 => lifted = 0 /\ (~InLoop => simmed = 0)

(* No game time is lost and none is simulated twice: what a frame has      *)
(* simulated and what is left make up what it began with and what it was   *)
(* fed, its own length once, and once again for each reset in it.  What it *)
(* leaves is less than a step.                                             *)
Fed == (frameResets + (IF pc = "move" THEN 0 ELSE 1)) * dt

TimeConserved ==
  /\ pc # "halted" => simmed + accumulator = carried + Fed
  /\ ~InLoop /\ pc # "crashed" => accumulator < physTime

(* As long as the window is not closed, undefined behaviour ends the       *)
(* program only after KEY_N was pressed: the first player's body and the   *)
(* filters of the frame lead to live memory.  Closing the window loads the *)
(* game once more, a reset that needs no key.                              *)
FirstGameDefined == pc = "crashed" => restarts > 0 \/ state = "QUIT"

(* draw()'s playerFilter is stale, and may bring the program down when it  *)
(* is destroyed, in a frame in which KEY_N was pressed and in no other: as *)
(* far as filters go, a reset endangers no later frame.                    *)
StaleFilterOnlyOnReset == [][pc = "reap" /\ pc' = "crashed" => "N" \in keys]_vars

(* Jumps by KEY_K are jumpDuration apart, across jumps by other keys,      *)
(* landings and resets alike.                                              *)
KJumpSpacing ==
  [][pc = "keys" /\ ~input.startJumping /\ input'.startJumping
       => waited >= jumpDuration]_vars

(* World::BeginContact, "assuming they store pointers": the pointers that  *)
(* the physics callbacks may follow lead to live UserData.                 *)
UserDataStoresPointers == InStep => \A g \in Players : udata[g] \in heap

(* State::_setState, "case QUIT: //nothing": quitting sets up nothing, no  *)
(* player and no copy of the level, while the program is on its way out.   *)
QuitLoadsNothing == [][state = "QUIT" => UNCHANGED world]_vars

(* The jump as the player sees it. *)
JumpPhase ==
  IF Stopped THEN "over"
  ELSE IF input.startJumping THEN "asked"
  ELSE IF force > 0 /\ lifted = 0
       THEN IF input.isJumping THEN "pushed" ELSE "released"
       ELSE IF input.isJumping THEN "flying" ELSE "ready"

Contract == INSTANCE JumpContract WITH phase <- JumpPhase, life <- Len(udata)

(* No accepted jump is lost, doubled or repeated in the air, except as the *)
(* contract allows.                                                        *)
JumpSafety == Contract!SafeSpec

(* And an accepted jump is carried out: the request becomes a force, the   *)
(* force is integrated, whatever the frame times are.                      *)
JumpRefinement == Contract!Spec

(* Holding KEY_K, and nothing else, makes a player who can land jump again *)
(* and again: the timer that HandleInput restarts does run out.            *)
HeldKJumpsAgain ==
  (<>[](keys = {"K"}) /\ []<>~input.isJumping) => []<>input.startJumping \/ <>Stopped

-----------------------------------------------------------------------------
(* The inductive invariant behind the safety properties (GameProofs).      *)

(* Where the control can be.  ret = "move" marks the first load, before    *)
(* any time has passed; QUIT leads to one more load and out.               *)
ControlInv ==
  /\ udata = <<>> <=> pc = "load" /\ state = "GAME"
  /\ ret = "move" => /\ pc \in {"load", "steps", "move"} /\ state = "GAME"
                     /\ dt = 0 /\ accumulator = 0 /\ simmed = 0 /\ force = 0
  /\ pc = "load" /\ state = "GAME" => ret = "move" /\ input = Idle
  /\ pc \in {"ui", "keys", "reap"} => ret \in {"ui", "keys"}
  /\ ret = "end" => /\ pc \in {"steps", "collide", "toi", "end", "halted", "crashed"}
                    /\ state = "QUIT"
  /\ state = "QUIT" => pc # "move"

(* Who is told about a jump and when: a request only waits from            *)
(* handleInput to the next draw(), when no physics runs, and while an      *)
(* impulse waits for its step the player counts as jumping.                *)
JumpInv ==
  /\ input.startJumping =>
       input.isJumping /\ force = 0 /\ pc \in {"reap", "close", "load", "end", "move",
                                               "halted", "crashed"}
  /\ force <= 1
  /\ force > 0 /\ pc # "crashed" => lifted = IF pc = "toi" THEN 1 ELSE 0
  /\ force > 0 => lifted <= 1
  /\ force > 0 /\ ~InStep /\ pc # "crashed" => input.isJumping /\ simmed = 0

(* Game time; a frame has simulated nothing before draw(). *)
TimeInv == TimeConserved /\ (pc = "move" => simmed = 0)

(* Whose memory is alive, which resets there were, and which ECS world the *)
(* filter belongs to.                                                      *)
MemoryInv ==
  /\ udata # <<>> => heap = {udata[Len(udata)]}
  /\ state = "GAME" => Len(udata) <= restarts + 1
  /\ FirstGameDefined
  /\ pc \in {"steps", "collide", "toi", "ui", "keys", "reap"} /\ ret \in {"ui", "keys"}
       => filterWorld = Len(udata) \/ ("N" \in keys /\ restarts > 0)

(* jumpTimer runs no faster than time does. *)
TimerInv == waited >= jumpDuration \/ jumpTimer <= waited

IInv == TypeOK /\ ControlInv /\ JumpInv /\ TimeInv /\ MemoryInv /\ TimerInv
=============================================================================
