---------------------------- MODULE StatesProofs ----------------------------
(***************************************************************************)
(* Type correctness of States, that the logo's texture is owned by the     *)
(* intro that is loaded, and that the first fade begins at zero: for every *)
(* set of frame times and every length of the intro and of its fade.       *)
(***************************************************************************)
EXTENDS States, TLAPS

-----------------------------------------------------------------------------
(* The invariant *)

(* The object is the one of the current state, or the one QUIT left.       *)
ObjectOf(m) ==
  /\ m.current = "INTRO" => m.object = "intro"
  /\ m.current = "GAME" => m.object = "game"

(* Nobody but a loaded intro has a texture. *)
Owned(m) ==
  /\ m.object = "game" => ~m.isLoaded
  /\ m.isLoaded => m.textures = 1
  /\ ~m.isLoaded => m.textures = 0

(* Before the first load there is no timer; during the first showing it is *)
(* at most what the intro has counted and will count at its next draw().   *)
Fading(m, d) ==
  /\ m.shows = 0 => m.fade = NoTimer /\ ~m.isLoaded
  /\ m.shows = 1 /\ m.isLoaded => m.fade <= m.gameTime + d

Good(m, d) == m \in MachineType /\ ObjectOf(m) /\ Owned(m) /\ Fading(m, d)

ToCount == IF pc \in {"draw", "exit"} THEN dt ELSE 0

ControlInv ==
  /\ pc = "draw" => machine.current # "QUIT"
  /\ pc \in {"close", "end"} /\ machine.object = "intro" => machine.isLoaded
  /\ drew = "unloaded logo" => pc \in {"close", "end"} /\ machine.object = "game"
  /\ pc = "halted" => machine.textures = 0

Inv == TypeOK /\ Good(machine, ToCount) /\ ControlInv

-----------------------------------------------------------------------------
(* More to count does no harm. *)
LEMMA GoodLater ==
  ASSUME NEW m, NEW d \in Nat, NEW e \in Nat, Good(m, d), d <= e
  PROVE  Good(m, e)
<1>1. m.shows = 1 /\ m.isLoaded => m.fade <= m.gameTime + e
  <2> SUFFICES ASSUME m.shows = 1 /\ m.isLoaded PROVE m.fade <= m.gameTime + e
    OBVIOUS
  <2>1. m.fade <= m.gameTime + d /\ m.gameTime \in Nat /\ m.fade \in Int
    BY DEF Good, Fading, MachineType, NoTimer
  <2> QED
    BY <2>1
<1> QED
  BY <1>1 DEF Good, Fading

(* What load and unload do, member by member. *)
LEMMA IntroLoadFacts ==
  ASSUME NEW m \in MachineType
  PROVE  /\ IntroLoad(m) \in MachineType
         /\ IntroLoad(m).current = m.current
         /\ IntroLoad(m).object = m.object
         /\ IntroLoad(m).gameTime = m.gameTime
         /\ IntroLoad(m).isLoaded = TRUE
         /\ IntroLoad(m).textures = m.textures + 1
         /\ IntroLoad(m).fade = IF m.fade = NoTimer THEN 0 ELSE m.fade
         /\ IntroLoad(m).shows = AtMost(2, m.shows + 1)
<1>1. /\ AtMost(2, m.shows + 1) \in 0 .. 2
      /\ (IF m.fade = NoTimer THEN 0 ELSE m.fade) \in Nat \cup {NoTimer}
      /\ m.textures + 1 \in Nat
  BY DEF MachineType, AtMost, NoTimer
<1>2. IntroLoad(m) \in MachineType
  BY <1>1 DEF IntroLoad, MachineType
<1>3. /\ IntroLoad(m).current = m.current
      /\ IntroLoad(m).object = m.object
      /\ IntroLoad(m).gameTime = m.gameTime
      /\ IntroLoad(m).isLoaded = TRUE
      /\ IntroLoad(m).textures = m.textures + 1
      /\ IntroLoad(m).fade = IF m.fade = NoTimer THEN 0 ELSE m.fade
      /\ IntroLoad(m).shows = AtMost(2, m.shows + 1)
  BY DEF IntroLoad, MachineType
<1> QED
  BY <1>2, <1>3

LEMMA UnloadedType ==
  ASSUME NEW m \in MachineType
  PROVE  [m EXCEPT !.fade = 0, !.textures = 0, !.gameTime = 0, !.isLoaded = FALSE]
           \in MachineType
BY DEF MachineType

LEMMA IntroUnloadFacts ==
  ASSUME NEW m \in MachineType, m.isLoaded, m.textures = 1
  PROVE  /\ IntroUnload(m) \in MachineType
         /\ IntroUnload(m).current = m.current
         /\ IntroUnload(m).object = m.object
         /\ IntroUnload(m).gameTime = 0
         /\ IntroUnload(m).fade = 0
         /\ IntroUnload(m).isLoaded = FALSE
         /\ IntroUnload(m).textures = 0
         /\ IntroUnload(m).shows = m.shows
<1>1. IntroUnload(m) = [m EXCEPT !.fade = 0, !.textures = @ - 1,
                                 !.gameTime = 0, !.isLoaded = FALSE]
  BY Zenon DEF IntroUnload
<1>2. IntroUnload(m) = [m EXCEPT !.fade = 0, !.textures = 0,
                                 !.gameTime = 0, !.isLoaded = FALSE]
  BY <1>1, 1 - 1 = 0
<1>3. IntroUnload(m) \in MachineType
  BY <1>2, UnloadedType
<1>4. /\ IntroUnload(m).current = m.current
      /\ IntroUnload(m).object = m.object
      /\ IntroUnload(m).gameTime = 0
      /\ IntroUnload(m).fade = 0
      /\ IntroUnload(m).isLoaded = FALSE
      /\ IntroUnload(m).textures = 0
      /\ IntroUnload(m).shows = m.shows
  BY <1>2 DEF MachineType
<1> QED
  BY <1>3, <1>4

(* Unloading an object keeps what was good, and leaves it unloaded. *)
LEMMA UnloadGood ==
  ASSUME NEW m, NEW d \in Nat, Good(m, d)
  PROVE  /\ Good(Unload(m), d)
         /\ Unload(m).current = m.current /\ Unload(m).object = m.object
         /\ ~Unload(m).isLoaded /\ Unload(m).textures = 0
         /\ Unload(m).shows = m.shows
<1>1. CASE m.object = "intro" /\ m.isLoaded
  <2>1. m.textures = 1 /\ m \in MachineType
    BY <1>1 DEF Good, Owned
  <2>2. Unload(m) = IntroUnload(m)
    BY <1>1 DEF Unload
  <2>3. m.shows # 0
    BY <1>1 DEF Good, Fading
  <2> QED
    BY <1>1, <2>1, <2>2, <2>3, IntroUnloadFacts
    DEF Good, ObjectOf, Owned, Fading
<1>2. CASE ~(m.object = "intro" /\ m.isLoaded)
  <2>1. Unload(m) = m
    BY <1>2 DEF Unload, IntroUnload
  <2>2. ~m.isLoaded
    BY <1>2 DEF Good, Owned, MachineType
  <2> QED
    BY <2>1, <2>2 DEF Good, Owned
<1> QED
  BY <1>1, <1>2

(* Loading an object that is not loaded keeps what was good. *)
LEMMA LoadGood ==
  ASSUME NEW m, NEW d \in Nat, Good(m, d), ~m.isLoaded
  PROVE  /\ Good(Load(m), d)
         /\ Load(m).current = m.current /\ Load(m).object = m.object
         /\ m.object = "intro" => Load(m).isLoaded
<1>1. CASE m.object = "intro"
  <2>1. m \in MachineType /\ m.textures = 0
    BY DEF Good, Owned
  <2>2. Load(m) = IntroLoad(m)
    BY <1>1 DEF Load
  <2>3. Owned(Load(m)) /\ ObjectOf(Load(m)) /\ Load(m) \in MachineType
    <3>1. /\ Load(m) \in MachineType
          /\ Load(m).object = "intro" /\ Load(m).current = m.current
          /\ Load(m).isLoaded = TRUE /\ Load(m).textures = 0 + 1
      BY <1>1, <2>1, <2>2, IntroLoadFacts
    <3> QED
      BY <1>1, <3>1 DEF Good, Owned, ObjectOf
  <2>4. Fading(Load(m), d)
    <3>1. /\ m.shows \in 0 .. 2 /\ m.gameTime \in Nat
          /\ m.shows = 0 => m.fade = NoTimer
      BY <2>1 DEF MachineType, Good, Fading
    <3>2. Load(m).shows = AtMost(2, m.shows + 1) /\ Load(m).gameTime = m.gameTime
          /\ Load(m).fade = IF m.fade = NoTimer THEN 0 ELSE m.fade
      BY <2>1, <2>2, IntroLoadFacts
    <3>3. CASE m.shows = 0
      BY <3>1, <3>2, <3>3 DEF Fading, AtMost
    <3>4. CASE m.shows # 0
      BY <3>1, <3>2, <3>4 DEF Fading, AtMost
    <3> QED
      BY <3>3, <3>4
  <2> QED
    BY <1>1, <2>1, <2>2, <2>3, <2>4, IntroLoadFacts DEF Good
<1>2. CASE m.object # "intro"
  BY <1>2 DEF Load
<1> QED
  BY <1>1, <1>2

(* The object of a state that is entered. *)
LEMMA NewObjectGood ==
  ASSUME NEW m, NEW d \in Nat, Good(m, d), ~m.isLoaded, m.textures = 0,
         NEW name \in Names
  PROVE  LET n == NewObject([m EXCEPT !.current = name], name) IN
         /\ Good(n, d) /\ ~n.isLoaded /\ n.current = name
         /\ name = "GAME" => n.object = "game"
<1> DEFINE n == NewObject([m EXCEPT !.current = name], name)
<1>1. m \in MachineType
  BY DEF Good
<1>2. CASE name = "QUIT"
  <2>1. n = [m EXCEPT !.current = name]
    BY <1>2 DEF NewObject
  <2>2. n \in MachineType
    BY <1>1, <2>1 DEF MachineType
  <2>3. /\ n.current = "QUIT" /\ n.object = m.object /\ n.isLoaded = m.isLoaded
        /\ n.gameTime = m.gameTime /\ n.textures = m.textures
        /\ n.fade = m.fade /\ n.shows = m.shows
    BY <1>1, <1>2, <2>1 DEF MachineType
  <2> QED
    BY <1>2, <2>2, <2>3 DEF Good, ObjectOf, Owned, Fading
<1>3. CASE name # "QUIT"
  <2>1. n = [m EXCEPT !.current = name,
                      !.object = IF name = "INTRO" THEN "intro" ELSE "game",
                      !.isLoaded = FALSE, !.gameTime = 0]
    BY <1>1, <1>3 DEF NewObject, MachineType
  <2>2. n \in MachineType
    BY <1>1, <2>1 DEF MachineType, Names
  <2>3. /\ n.current = name
        /\ n.object = IF name = "INTRO" THEN "intro" ELSE "game"
        /\ n.isLoaded = FALSE /\ n.gameTime = 0 /\ n.textures = m.textures
        /\ n.fade = m.fade /\ n.shows = m.shows
    BY <1>1, <2>1 DEF MachineType
  <2> QED
    BY <1>3, <2>2, <2>3 DEF Good, ObjectOf, Owned, Fading, Names
<1> QED
  BY <1>2, <1>3

(* A change of state, from whatever state to whatever state. *)
LEMMA SetStateGood ==
  ASSUME NEW m, NEW d \in Nat, Good(m, d), NEW name \in Names
  PROVE  /\ Good(SetState(m, name), d)
         /\ SetState(m, name).current = name
         /\ name # m.current /\ SetState(m, name).object = "intro"
              => SetState(m, name).isLoaded
         /\ name = "GAME" => SetState(m, name).object = "game"
<1>1. CASE name = m.current
  BY <1>1 DEF SetState, Good, ObjectOf
<1>2. CASE name # m.current
  <2> DEFINE n == NewObject([Unload(m) EXCEPT !.current = name], name)
  <2>1. Good(Unload(m), d) /\ ~Unload(m).isLoaded /\ Unload(m).textures = 0
    BY UnloadGood
  <2>2. /\ Good(n, d) /\ ~n.isLoaded /\ n.current = name
        /\ name = "GAME" => n.object = "game"
    BY <2>1, NewObjectGood
  <2>3. SetState(m, name) = Load(n)
    BY <1>2 DEF SetState
  <2> HIDE DEF n
  <2> QED
    BY <1>2, <2>2, <2>3, LoadGood
<1> QED
  BY <1>1, <1>2

(* QUIT leaves the object that is there. *)
LEMMA QuitKeepsObject ==
  ASSUME NEW m, NEW d \in Nat, Good(m, d)
  PROVE  SetState(m, "QUIT").object = m.object
<1>1. CASE m.current = "QUIT"
  BY <1>1 DEF SetState
<1>2. CASE m.current # "QUIT"
  <2> DEFINE n == [Unload(m) EXCEPT !.current = "QUIT"]
  <2>1. SetState(m, "QUIT") = Load(n)
    BY <1>2 DEF SetState, NewObject
  <2>2. Good(Unload(m), d) /\ ~Unload(m).isLoaded /\ Unload(m).textures = 0
        /\ Unload(m).object = m.object /\ "QUIT" \in Names
    BY UnloadGood DEF Names
  <2>3. n = NewObject([Unload(m) EXCEPT !.current = "QUIT"], "QUIT")
    BY DEF NewObject
  <2>4. n.object = Unload(m).object
    BY <2>2 DEF Good, MachineType
  <2> HIDE DEF n
  <2>5. Good(n, d) /\ ~n.isLoaded
    BY <2>2, <2>3, NewObjectGood
  <2> QED
    BY <2>1, <2>2, <2>4, <2>5, LoadGood
<1> QED
  BY <1>1, <1>2

(* The time that was still to be counted, counted. *)
LEMMA TimedGood ==
  ASSUME NEW m, Good(m, dt), dt \in Nat
  PROVE  /\ Good(Timed(m), 0) /\ Timed(m).isLoaded = m.isLoaded
         /\ Timed(m).object = m.object /\ Timed(m).current = m.current
<1>1. m \in MachineType /\ m.gameTime \in Nat
  BY DEF Good, MachineType
<1>2. m.gameTime + dt \in Nat /\ m.gameTime + dt + 0 = m.gameTime + dt
  BY <1>1
<1>3. Timed(m) \in MachineType
  BY <1>1, <1>2 DEF Timed, MachineType
<1>4. /\ Timed(m).current = m.current /\ Timed(m).object = m.object
      /\ Timed(m).isLoaded = m.isLoaded /\ Timed(m).textures = m.textures
      /\ Timed(m).gameTime = m.gameTime + dt
      /\ Timed(m).fade = m.fade /\ Timed(m).shows = m.shows
  BY <1>1 DEF Timed, MachineType
<1> QED
  BY <1>2, <1>3, <1>4 DEF Good, ObjectOf, Owned, Fading

-----------------------------------------------------------------------------
(* Init and the steps of the thread *)

LEMMA InitInv == Init => Inv
<1> SUFFICES ASSUME Init PROVE Inv
  OBVIOUS
<1>1. machine \in MachineType
  BY DEF Init, MachineType, Names, NoTimer
<1>2. /\ machine.current = "INTRO" /\ machine.object = "intro"
      /\ machine.isLoaded = FALSE /\ machine.textures = 0
      /\ machine.fade = NoTimer /\ machine.shows = 0
  BY DEF Init
<1> QED
  BY <1>1, <1>2 DEF Init, Inv, TypeOK, Good, ObjectOf, Owned, Fading, ControlInv

LEMMA StartInv == Inv /\ Start => Inv'
<1> SUFFICES ASSUME Inv, Start PROVE Inv'
  OBVIOUS
<1>1. PICK name \in {"INTRO", "GAME"} : machine' = SetState(machine, name)
  BY DEF Start
<1>2. Good(machine, 0) /\ name \in Names /\ pc = "main" /\ pc' = "draw"
      /\ dt' = dt /\ drew' = drew /\ dt \in Nat /\ 0 \in Nat
  BY DEF Inv, TypeOK, Start, ToCount, Names
<1>3. Good(machine', 0) /\ machine'.current = name
  BY <1>1, <1>2, SetStateGood
<1>4. Good(machine', dt)
  BY <1>2, <1>3, GoodLater
<1> QED
  BY <1>1, <1>2, <1>3, <1>4 DEF Inv, TypeOK, ControlInv, ToCount, Good

LEMMA DrawIntroInv == Inv /\ DrawIntro => Inv'
<1> SUFFICES ASSUME Inv, DrawIntro PROVE Inv'
  OBVIOUS
<1> DEFINE shown == IF machine.isLoaded THEN machine ELSE IntroLoad(machine)
           timed == Timed(shown)
<1>1. /\ Good(machine, dt) /\ machine.object = "intro" /\ dt \in Nat /\ dt' = dt
      /\ pc = "draw" /\ pc' = "close" /\ machine' = Ended(timed) /\ 0 \in Nat
  BY DEF Inv, TypeOK, DrawIntro, ToCount
<1>2. machine.current = "INTRO"
  BY <1>1 DEF Inv, ControlInv, Good, MachineType, Names, ObjectOf
<1>3. /\ Good(shown, dt) /\ shown.isLoaded
      /\ shown.object = "intro" /\ shown.current = "INTRO"
  <2>1. CASE machine.isLoaded
    BY <1>1, <1>2, <2>1
  <2>2. CASE ~machine.isLoaded
    <3>1. shown = Load(machine)
      BY <1>1, <2>2 DEF Load
    <3> HIDE DEF shown
    <3> QED
      BY <1>1, <1>2, <2>2, <3>1, LoadGood
  <2> QED
    BY <2>1, <2>2
<1> HIDE DEF shown
<1>4. /\ Good(timed, 0) /\ timed.isLoaded
      /\ timed.object = "intro" /\ timed.current = "INTRO"
  BY <1>1, <1>3, TimedGood
<1> HIDE DEF timed
<1>5. CASE timed.gameTime > total_intro_time
  <2>1. IntroUnload(timed) = Unload(timed)
    BY <1>4 DEF Unload
  <2>2. machine' = SetState(Unload(timed), "GAME")
    BY <1>1, <1>5, <2>1 DEF Ended
  <2>3. Good(machine', 0) /\ machine'.current = "GAME" /\ machine'.object = "game"
    BY <1>1, <1>4, <2>2, UnloadGood, SetStateGood DEF Names
  <2> QED
    BY <1>1, <2>3 DEF Inv, TypeOK, ControlInv, ToCount, Good, DrawIntro
<1>6. CASE ~(timed.gameTime > total_intro_time)
  <2>1. machine' = timed
    BY <1>1, <1>6 DEF Ended
  <2>2. drew' = "logo"
    BY <1>4, <2>1 DEF DrawIntro
  <2> QED
    BY <1>1, <1>4, <2>1, <2>2 DEF Inv, TypeOK, ControlInv, ToCount, Good
<1> QED
  BY <1>5, <1>6

LEMMA DrawGameInv == Inv /\ DrawGame => Inv'
<1> SUFFICES ASSUME Inv, DrawGame PROVE Inv'
  OBVIOUS
<1>1. PICK name \in Names : machine' = SetState(machine, name)
  BY DEF DrawGame
<1>2. /\ Good(machine, dt) /\ machine.object = "game" /\ dt \in Nat /\ dt' = dt
      /\ pc = "draw" /\ pc' = "close" /\ drew' = "nothing" /\ 0 \in Nat
  BY DEF Inv, TypeOK, DrawGame, ToCount
<1>3. Good(machine, 0)
  BY <1>2 DEF Good, Owned, Fading
<1>4. Good(machine', 0)
  BY <1>1, <1>2, <1>3, SetStateGood
<1>5. machine'.object = "intro" => machine'.isLoaded
  <2>1. CASE name = machine.current
    BY <1>1, <1>2, <2>1 DEF SetState
  <2>2. CASE name # machine.current
    BY <1>1, <1>2, <1>3, <2>2, SetStateGood
  <2> QED
    BY <2>1, <2>2
<1> QED
  BY <1>2, <1>4, <1>5 DEF Inv, TypeOK, ControlInv, ToCount, Good

LEMMA CloseInv == Inv /\ Close => Inv'
<1> SUFFICES ASSUME Inv, Close PROVE Inv'
  OBVIOUS
<1>1. /\ Good(machine, 0) /\ dt \in Nat /\ dt' = dt /\ drew' = drew
      /\ pc = "close" /\ pc' = "end" /\ 0 \in Nat /\ "QUIT" \in Names
      /\ machine.object = "intro" => machine.isLoaded
  BY DEF Inv, TypeOK, Close, ToCount, Names, ControlInv
<1>2. CASE machine' = machine
  BY <1>1, <1>2 DEF Inv, TypeOK, ControlInv, ToCount, Good
<1>3. CASE machine' = SetState(machine, "QUIT")
  <2>1. Good(machine', 0)
    BY <1>1, <1>3, SetStateGood
  <2>2. machine'.object = "intro" => machine'.isLoaded
    <3>1. CASE machine.current = "QUIT"
      BY <1>1, <1>3, <3>1 DEF SetState
    <3>2. CASE machine.current # "QUIT"
      BY <1>1, <1>3, <3>2, SetStateGood
    <3> QED
      BY <3>1, <3>2
  <2>3. machine.object = "game" => machine'.object = "game"
    BY <1>1, <1>3, QuitKeepsObject
  <2> QED
    BY <1>1, <2>1, <2>2, <2>3 DEF Inv, TypeOK, ControlInv, ToCount, Good
<1> QED
  BY <1>2, <1>3 DEF Close

LEMMA EndFrameInv == Inv /\ EndFrame => Inv'
<1> SUFFICES ASSUME Inv, EndFrame PROVE Inv'
  OBVIOUS
<1>1. PICK d \in FrameTimes :
        dt' = d /\ machine' = [machine EXCEPT !.fade = UpdateLerp(@, d)]
  BY DEF EndFrame
<1>2. /\ Good(machine, 0) /\ machine \in MachineType /\ d \in Nat
      /\ pc = "end" /\ drew' = "nothing"
      /\ pc' = IF machine.current = "QUIT" THEN "exit" ELSE "draw"
  BY FrameTimeAssumption DEF Inv, TypeOK, EndFrame, ToCount, Good
<1>3. /\ machine.fade \in Nat \cup {NoTimer} /\ machine.gameTime \in Nat
      /\ intro_logo_time \in Nat
  BY <1>2, IntroAssumption DEF MachineType
<1>4. /\ UpdateLerp(machine.fade, d) \in Nat \cup {NoTimer}
      /\ UpdateLerp(machine.fade, d) <= machine.fade + d
      /\ machine.fade = NoTimer => UpdateLerp(machine.fade, d) = NoTimer
  BY <1>2, <1>3 DEF UpdateLerp, NoTimer
<1>5. /\ machine' \in MachineType
      /\ machine'.fade = UpdateLerp(machine.fade, d)
  BY <1>1, <1>2, <1>4 DEF MachineType
<1>6. /\ machine'.current = machine.current /\ machine'.object = machine.object
      /\ machine'.isLoaded = machine.isLoaded
      /\ machine'.textures = machine.textures
      /\ machine'.gameTime = machine.gameTime /\ machine'.shows = machine.shows
  BY <1>1, <1>2 DEF MachineType
<1>7. machine.fade <= machine.gameTime + 0 => machine'.fade <= machine'.gameTime + d
  BY <1>2, <1>3, <1>4, <1>5, <1>6 DEF NoTimer
<1>8. Fading(machine', d)
  <2>1. machine'.shows = 0 => machine'.fade = NoTimer /\ ~machine'.isLoaded
    BY <1>2, <1>4, <1>5, <1>6 DEF Good, Fading
  <2>2. machine'.shows = 1 /\ machine'.isLoaded
          => machine'.fade <= machine'.gameTime + d
    BY <1>2, <1>6, <1>7 DEF Good, Fading
  <2> QED
    BY <2>1, <2>2 DEF Fading
<1>9. Good(machine', d)
  BY <1>2, <1>5, <1>6, <1>8 DEF Good, ObjectOf, Owned
<1> QED
  BY <1>1, <1>2, <1>6, <1>9 DEF Inv, TypeOK, ControlInv, ToCount, Good

LEMMA ExitInv == Inv /\ Exit => Inv'
<1> SUFFICES ASSUME Inv, Exit PROVE Inv'
  OBVIOUS
<1>1. /\ Good(machine, dt) /\ dt \in Nat /\ dt' = dt /\ drew' = drew
      /\ pc = "exit" /\ pc' = "halted" /\ machine' = Unload(machine)
  BY DEF Inv, TypeOK, Exit, ToCount
<1>2. Good(machine', dt) /\ ~machine'.isLoaded /\ machine'.textures = 0
  BY <1>1, UnloadGood
<1>3. Good(machine', 0)
  BY <1>2 DEF Good, Fading
<1> QED
  BY <1>1, <1>2, <1>3 DEF Inv, TypeOK, ControlInv, ToCount, Good

-----------------------------------------------------------------------------
(* Whatever states are asked for and whatever the frame times, the         *)
(* invariant holds.                                                        *)
THEOREM StatesInvariant == Spec => []Inv
<1>1. Init => Inv
  BY InitInv
<1>2. Inv /\ [Next]_vars => Inv'
  <2> SUFFICES ASSUME Inv, [Next]_vars PROVE Inv'
    OBVIOUS
  <2>1. CASE Start
    BY <2>1, StartInv
  <2>2. CASE DrawIntro
    BY <2>2, DrawIntroInv
  <2>3. CASE DrawGame
    BY <2>3, DrawGameInv
  <2>4. CASE Close
    BY <2>4, CloseInv
  <2>5. CASE EndFrame
    BY <2>5, EndFrameInv
  <2>6. CASE Exit
    BY <2>6, ExitInv
  <2>7. CASE UNCHANGED vars
    BY <2>7 DEF vars, Inv, TypeOK, Good, ObjectOf, Owned, Fading, ControlInv,
                ToCount
  <2> QED
    BY <2>1, <2>2, <2>3, <2>4, <2>5, <2>6, <2>7 DEF Next, Terminated
<1> QED
  BY <1>1, <1>2, PTL DEF Spec

(* The machine, the object's members and the timer have their types.       *)
THEOREM StatesTypeCorrect == Spec => []TypeOK
<1>1. Inv => TypeOK
  BY DEF Inv
<1> QED
  BY <1>1, StatesInvariant, PTL

(* A loaded intro owns one texture, and nobody else has any: state.h's     *)
(* unload after the intro's own frees nothing twice, and leaks nothing.    *)
THEOREM LogoAlwaysOwned == Spec => []LogoOwned
<1>1. Inv => LogoOwned
  BY DEF Inv, Good, Owned, MachineType, ControlInv, LogoOwned
<1> QED
  BY <1>1, StatesInvariant, PTL

(* The first fade of the intro is never ahead of what the intro counts,    *)
(* for every fade time and every sequence of frame times.                  *)
THEOREM FirstFadeFromZero == Spec => []FadeFromZero
<1>1. Inv => FadeFromZero
  <2> SUFFICES ASSUME Inv, machine.shows = 1, machine.object = "intro", pc = "close"
               PROVE  machine.fade <= machine.gameTime
    BY DEF FadeFromZero
  <2>1. machine.isLoaded /\ Good(machine, 0)
    BY DEF Inv, ControlInv, ToCount
  <2>2. machine.fade <= machine.gameTime + 0 /\ machine.gameTime \in Nat
    BY <2>1 DEF Good, Fading, MachineType
  <2> QED
    BY <2>2
<1> QED
  BY <1>1, StatesInvariant, PTL
=============================================================================
