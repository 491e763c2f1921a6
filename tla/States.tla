------------------------------- MODULE States -------------------------------
(***************************************************************************)
(* State, the machine that owns the current BaseState, with IntroState and *)
(* the timer of its fade.  main() asks for GAME before its first frame, so *)
(* the intro is not shown as the program stands; the machine is the        *)
(* engine's, and any state's code may ask for any state.  What GameState   *)
(* itself does is in Game.                                                 *)
(*                                                                         *)
(* A change of state happens inside draw(), in code of the object that is  *)
(* being left; the object is neither deleted nor told to stop drawing.     *)
(***************************************************************************)
EXTENDS Integers

CONSTANTS
  FrameTimes,       \* what GetFrameTime() may return after a frame
  total_intro_time,
  intro_logo_time   \* duration of "firstLogoLerp"

ASSUME FrameTimeAssumption == FrameTimes \subseteq Nat \ {0}
ASSUME IntroAssumption     == total_intro_time \in Nat /\ intro_logo_time \in Nat

VARIABLES
  pc,       \* the part of main() that runs next
  dt,       \* GetFrameTime()
  machine,  \* State, the members of its state object, the texture memory, the timer
  \* history
  drew      \* what the last draw() did with the logo

vars == <<pc, dt, machine, drew>>

Names == {"INTRO", "GAME", "QUIT"}

NoTimer == -1  \* Lerp's list has no "firstLogoLerp"

MachineType ==
  [current  : Names, object : {"intro", "game"},
   isLoaded : BOOLEAN, gameTime : Nat,   \* of an IntroState
   textures : Nat,                       \* logos in video memory
   fade     : Nat \cup {NoTimer},        \* firstLogoLerp->time
   shows    : 0 .. 2]                    \* history: loads of an intro, two for more

TypeOK ==
  /\ pc \in {"main", "draw", "close", "end", "exit", "halted"}
  /\ dt \in Nat /\ machine \in MachineType
  /\ drew \in {"nothing", "logo", "unloaded logo"}

(* State::init: an IntroState, not loaded. *)
Init ==
  /\ pc = "main" /\ dt = 0 /\ drew = "nothing"
  /\ machine = [current |-> "INTRO", object |-> "intro", isLoaded |-> FALSE,
                gameTime |-> 0, textures |-> 0, fade |-> NoTimer, shows |-> 0]

-----------------------------------------------------------------------------
(* IntroState *)

AtMost(bound, n) == IF n > bound THEN bound ELSE n

(* load: Lerp::getLerp finds the timer by its name, and makes it at 0 the  *)
(* first time only.                                                        *)
IntroLoad(m) ==
  [m EXCEPT !.textures = @ + 1, !.isLoaded = TRUE,
            !.fade = IF @ = NoTimer THEN 0 ELSE @, !.shows = AtMost(2, @ + 1)]

(* unload, which a change of state calls once more. *)
MutantUnloadAgain(m) ==
  IF m.isLoaded
  THEN [m EXCEPT !.fade = 0, !.textures = @ - 1, !.gameTime = 0]
  ELSE m
IntroUnload(m) ==
  IF m.isLoaded
  THEN [m EXCEPT !.fade = 0, !.textures = @ - 1, !.gameTime = 0, !.isLoaded = FALSE]
  ELSE m

Load(m)   == IF m.object = "intro" THEN IntroLoad(m) ELSE m
Unload(m) == IF m.object = "intro" THEN IntroUnload(m) ELSE m

-----------------------------------------------------------------------------
(* State::_setState.  The new object's members have their initial values;  *)
(* QUIT has no object of its own, and the old one is loaded again.         *)
NewObject(m, name) ==
  IF name = "QUIT" THEN m
  ELSE [m EXCEPT !.object = IF name = "INTRO" THEN "intro" ELSE "game",
                 !.isLoaded = FALSE, !.gameTime = 0]

MutantReloadAlways(m, name) ==
  Load(NewObject([m EXCEPT !.current = name], name))
SetState(m, name) ==
  IF name = m.current THEN m
  ELSE Load(NewObject([Unload(m) EXCEPT !.current = name], name))

(* main(), up to its loop. *)
Start ==
  /\ pc = "main" /\ pc' = "draw"
  /\ \E name \in {"INTRO", "GAME"} : machine' = SetState(machine, name)
  /\ UNCHANGED <<dt, drew>>

(* IntroState::draw.  When its time is up it unloads itself, has the state *)
(* changed, and goes on to draw the logo.                                  *)
MutantTimed(m) == [m EXCEPT !.gameTime = dt]
Timed(m) == [m EXCEPT !.gameTime = @ + dt]

Ended(m) ==
  IF m.gameTime > total_intro_time THEN SetState(IntroUnload(m), "GAME") ELSE m

DrawIntro ==
  /\ pc = "draw" /\ pc' = "close" /\ machine.object = "intro"
  /\ machine' = Ended(Timed(IF machine.isLoaded THEN machine ELSE IntroLoad(machine)))
  /\ drew' = IF machine'.isLoaded THEN "logo" ELSE "unloaded logo"
  /\ UNCHANGED dt

(* GameState::draw, which may ask for a state. *)
DrawGame ==
  /\ pc = "draw" /\ pc' = "close" /\ machine.object = "game"
  /\ \E name \in Names : machine' = SetState(machine, name)
  /\ drew' = "nothing"
  /\ UNCHANGED dt

(* WindowShouldClose() *)
Close ==
  /\ pc = "close" /\ pc' = "end"
  /\ machine' \in {machine, SetState(machine, "QUIT")}
  /\ UNCHANGED <<dt, drew>>

(* EndDrawing, then Lerp::updateLerps: the timer runs whether its intro is *)
(* shown or not.                                                           *)
MutantUpdateLerpTwice(time, d) ==
  IF time = NoTimer \/ time >= intro_logo_time THEN time ELSE time + 2 * d
UpdateLerp(time, d) ==
  IF time = NoTimer \/ time >= intro_logo_time THEN time ELSE time + d

EndFrame ==
  /\ pc = "end" /\ pc' = IF machine.current = "QUIT" THEN "exit" ELSE "draw"
  /\ \E d \in FrameTimes :
       dt' = d /\ machine' = [machine EXCEPT !.fade = UpdateLerp(@, d)]
  /\ drew' = "nothing"

(* State::unload, at the end of main(). *)
Exit ==
  /\ pc = "exit" /\ pc' = "halted"
  /\ machine' = Unload(machine)
  /\ UNCHANGED <<dt, drew>>

Terminated == pc = "halted" /\ UNCHANGED vars

Next == Start \/ DrawIntro \/ DrawGame \/ Close \/ EndFrame \/ Exit \/ Terminated

(* The thread never waits. *)
Spec == Init /\ [][Next]_vars /\ WF_vars(Next)

-----------------------------------------------------------------------------
(* Properties *)

(* Whatever states are asked for, in whatever order, from inside a draw()  *)
(* or from main(): a loaded intro has one texture and no other is left in  *)
(* video memory, though unload is called twice in a row.  A logo that was  *)
(* unloaded is drawn in one frame only, the one that ends the intro.       *)
LogoOwned ==
  /\ machine.textures = IF machine.object = "intro" /\ machine.isLoaded THEN 1 ELSE 0
  /\ drew = "unloaded logo" => pc \in {"close", "end"} /\ machine.object = "game"
  /\ pc = "halted" => machine.textures = 0

(* The first time it is shown, the intro fades in from black: its timer is *)
(* never ahead of it.  (Later it is, for resetTime is called when an intro *)
(* ends, and the timer runs on until the next.)                            *)
FadeFromZero ==
  machine.shows = 1 /\ machine.object = "intro" /\ pc = "close"
    => machine.fade <= machine.gameTime

(* An intro ends, whatever the lengths of its frames. *)
IntroEnds == (pc = "draw" /\ machine.current = "INTRO") ~> machine.current # "INTRO"
=============================================================================
