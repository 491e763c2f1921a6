# Formal models of olc-codejam-2023

A small C++ platform game (`project/src`) on a small engine
(`libs/bixxy-engine`), on raylib, Box2D and flecs. This directory holds TLA+
models of its control logic, the TLC configurations that check them and TLAPS
proofs about them.

## The system

One thread runs everything. `main()` initialises the singletons, sets the state
to GAME and loops: music, input timings, `State::draw()`, a change of state if
the window is closing, `EndDrawing()` (which times the frame and polls the
input), the timers. There is no concurrency in the usual sense. What makes the
code hard is *order*: the parts of a frame communicate through flags and
pointers that outlive the part that set them, frames and physics steps have
different lengths, callbacks run in the middle of a physics step, and one key
replaces the whole ECS world in the middle of `draw()`.

| Component | State | Operations | Talks to | What must be right |
|---|---|---|---|---|
| Frame loop, `GameState` (main.cpp, game.cpp) | accumulator, camera, level data, jump timer | load, draw, drawUI, handleInput, resetGame | everything below, by calls | time fed to the physics is simulated once; a jump asked for is carried out; a reset leaves a playable game |
| Player input and jump (playerinput.h) | `isJumping`, `startJumping`, controllers | doMovement, doShoot | Input; set also by handleInput and cleared by contacts | one impulse per jump; no second jump in the air |
| Physics and contacts (world.cpp) | the Box2D world, the level's bodies | loadLevelPhysics, createBody, doStep, BeginContact | calls back into the ECS through raw pointers | the pointers lead to live memory |
| ECS (ecs.h, player.cpp) | one flecs world, replaced by reset | init, reset, removeEntity, CreatePlayerEntity | owns the `UserData` cells that bodies point to | a body and its cell die together |
| Lerp (lerp.cpp) | named timers | getLerp, resetTime, updateLerps | jump timer of GameState | a timer runs out, and no earlier than its duration |
| Input (inputhandler.cpp) | devices, `pressedTimings` | is, updateTimings | raylib | a held stick repeats, at its rate |
| Debug overlay (ui.cpp, loghandler, fonthandler, rtext.c) | log lines and widths, font cache, ring of text buffers | addLine, resetLog, getFont, TextFormat | everyone who logs | a pointer into the ring is read before it expires; the log stays small |
| State machine, intro (state.h, intro.cpp) | current state object, the logo's texture, the fade's timer | setState, draw, load, unload | GameState, Lerp, Audio | a texture is freed once and not lost; the fade starts at black; the intro ends |
| Settings (settingshandler.cpp) | options, settings.ini | init, setters, save | the file, the window, the audio device | what was saved is what is read |
| mINI (mini.h) | an ordered map of ordered maps, the lines of a file | get, set, remove, read, write | Settings, the player's editor | what is written is what is read back; the player's comments and order stay |
| QuadTree | tree of points | insert, query, reset | nobody | a query finds exactly the points in range |
| Fireballs, enemies | - | CreateFireballEntity, the contact branch for two entities | nobody | a hit counts once |
| Level loading, textures, audio, rendering, vectors | caches, files | | | |

`PROJECT.json` lists every component with its files, what is left out of each,
and every hazard at its line with the properties that cover it.

## The modules

### JumpContract

What the game promises about one player's jump: `ready`, `asked`, `pushed`,
`flying`, and `released`, the phase that the code makes necessary. A physics
step reports contacts before it integrates forces, so a landing can be
reported between the force of a jump and its effect; the player then counts as
landed although about to fly, and may jump again in the air. The contract
allows that. It says nothing of what a landing is, either: any contact that
passes the callback's height test counts, of an older body too, for which the
ECS may give the current player. What it excludes is a second jump without a
contact in between, a request that is lost except by a respawn or the end of the
program, and one that acts twice.

### Game

The core. `pc` is the part of the frame that runs next; each action is a part:

| Action | Code |
|---|---|
| `Load` | `State::_setState` calling `GameState::load` and `resetGame`, up to its physics loop |
| `Move` | `draw()` up to the physics loop: doMovement, ApplyForceToCenter, the accumulator |
| `BeginStep`, `Contacts`, `Solve`, `EndStep`, `EndSteps` | `while (accumulator >= physTime) World::doStep(...)`; one Box2D step is Collide (contacts), Solve (forces), SolveTOI (contacts), ClearForces |
| `DrawUI` | `drawUI`, where KEY_N calls `resetGame` and runs the physics loop a second time |
| `HandleInput` | `handleInput`: KEY_K |
| `Reap` | the end of `draw()`, where the filters are destroyed |
| `Close` | `WindowShouldClose` -> `setState(QUIT)` |
| `EndFrame` | `EndDrawing`, `Lerp::updateLerps` and the loop's condition |

`ret` says where the physics loop returns to, for it is reached from three
places. `udata[g]` is the raw pointer stored in the body of the g-th player,
`heap` the cells that hold a live `UserData`; resets empty the heap and keep the
bodies. A contact of an old body reads a freed cell: the outcomes are the
current player's entity (the cell was used again, or still holds an id that the
new world uses), nothing, or a fault (`crashed`). The same holds for the filter
destroyed after a reset. Where the new player's body meets an old one,
`BeginContact` follows both pointers (`PlayersMeet`); nothing else comes of it, for
there are no fireballs and no enemies. `lifted`, `simmed`, `carried`,
`frameResets`, `restarts` and `waited` are history variables that only the
properties read.

Time is in ticks. The keys matter as three: "jump" (ACCEPT, UP or SHOOT pressed
on any controller), K (held) and N (pressed, so never in two polls in a row).
Which contacts begin and end, and whether the height test passes, is left open:
the model allows more than the engine does, which is sound for safety.

### Overlay

`TextFormat`'s ring of static buffers, `Fonts::_getFont` (one buffer per call,
and the pointer kept as a key), `Log::_addLine`, and the kinds of call made by
`drawUI`, `UI::drawDebugInfo`, `handleInput` and `LevelManager::loadLevel`. A
text is represented by its width. `meant` is the log as its callers meant it.

### InputDevice

A gamepad as `doMovement` polls it. The stick has no edges of its own; its
cooldown is run down by frame times in `updateTimings` and tested for exactly
zero in `isButtonPressed`. Any movement of the axis, down as well, starts it.

### Settings

The engine's options, settings.ini, and what the setters do around each save. A
save is two actions, for mINI rewrites the file in place: `Write` opens it (which
empties it) or fails to, `Flush` is the close of the stream, which writes the
text, a part of it, or nothing. The program may end (`Exit`) before, between and
after; `Apply` is what the caller of the save does next. `disk` says whether the
file is absent, has its five numbers (`written`) or not (`torn`), and `saved` is
what they say. A text that is cut lacks a number, unless it ends inside the last
one, the volume of music: then there is a shorter number (`Cut`). `Start` reads the
file and fails if it is torn. Between two runs the player deletes the file, drops
a number or puts a text in its place (`SpoilFile`), or writes other values, also
into a torn file (`ChangeFile`). The raylib window is its mode, the size shown, and
the size its next toggle goes to, which a resize in fullscreen does not change.
`lost`, `spoiled`, `setNow`, `setSaved` and `resized` are history variables. The
game itself only calls `init`; the setters are the engine's interface, of which
every sequence of calls is checked.

Left out: a desktop without a monitor, on which raylib never enters fullscreen;
fractions and negative numbers in the file; more than three digits; and the cut of
a file in which the player has put another number last. A file that lacks a switch
but no number is taken to say false for it (`ChangeFile`), as it does where
vectors double their capacity.

### IniStore, IniMap, IniFile

`IniStore` is what an INI file promises: a store of values, a copy in memory,
and a save that makes the store what the copy is. `IniMap` has the operations of
mini.h's `INIMap`, a vector of entries and an index into it; an `INIStructure`
is such a map of such maps. `IniFile` is the rest of mini.h: `ReadLine` is one
turn of the reader's loop and `WriteLine` of the writer's, which goes through the
lines of the *old* file and decides of each whether it stays, changes or goes,
where new keys are put in, and what follows at the end. `Reading` and `Writing` are
the states of these loops after each of their turns, as recursive functions from
the number of turns.

A line is what `parseLine` makes of it: a header, a key with its value, a
comment, nothing, or unknown. The player may write any line anywhere, so that
keys stand above the first header, and keys and sections are given twice.
`Settings` models how a write fails or is cut short; here it is done.
`stored` is a history variable, the content of the file for the refinement, kept
so that it is computed once per write.

### QuadTree

utils/quadtree.h: `tree` maps each node, named by the path to it from the root, to
its boundary and its points. `insert` calls itself; each of its calls is a step:

| Action | Code |
|---|---|
| `Insert` | the call from outside |
| `PassOver` | a call for a node whose boundary does not have the point: false |
| `Store` | a call that stores the point: true, and so all its callers |
| `Descend` | a call that divides its node if it has no children (`Grown`) and calls insert for them |
| `Refuse` | the first call answers false |
| `Reset` | reset |

A call that answers false has its caller go on to the next child, and one that
answers true ends the insertion, so `todo`, the nodes that are still to be tried in
their order, stands for the whole stack of calls. A query changes nothing: `Query`
is the set of the slots (a node and a position in it) whose entities it pushes
onto its answer. `Round` is float arithmetic with `Significands` numbers for a
significand. `Reset` leaves `status` at "dangling" where the pointers to the
children are kept, and whatever follows them is "undefined". `placed` and `lost`
are history variables. Nothing calls the class yet; any sequence of its calls is
checked.

### States

`State::setState`, called from `main()` and from inside `draw()`, and IntroState.
`machine` holds the members of the state object, the textures in video memory and
the timer, which is Lerp's and outlives the object. `Game` models what GameState
does at its load; `main()` goes to GAME before the first frame, so that the
intro is the engine's promise to a program that would show it. `drew` and `shows`
are history variables.

## What is checked

| Run | Specification | Shows |
|---|---|---|
| `game_safety` | `SafeSpec` | type correctness; impulses (`SingleImpulse`, `NoStaleForce`); no time is lost or simulated twice (`TimeConserved`); undefined behaviour only after KEY_N or when the window is closed (`FirstGameDefined`), of a filter only in a frame with KEY_N (`StaleFilterOnlyOnReset`); KEY_K's rate (`KJumpSpacing`); the contract's safety (`JumpSafety`); and the inductive invariant of the proofs (`IInv`) |
| `game_liveness` | `Spec` | the contract with its fairness (`JumpRefinement`); KEY_K held jumps again and again (`HeldKJumpsAgain`) |
| `game_userdata` | `SafeSpec` | violated: after a reset a contact follows a pointer to freed memory |
| `game_quit` | `SafeSpec` | violated: quitting loads the game again |
| `overlay_log` | `Spec` | the log reads as meant, its widths are its lines', it stays small |
| `overlay_fonts` | `Spec` | violated: a font key's buffer holds another text |
| `input_stick` | `Spec` | a held stick repeats, no faster than its cooldown |
| `settings_file` | `Spec` | a restart gives back what was saved, within one per cent of volume; repeated restarts lose less than two, up to 100 per cent; the window follows the options; a start fails only where the last write was not completed or the player spoiled the file; `SInv` |
| `ini_merge` | `Spec` | the file is an `IniStore` (`StoreImplemented`); indices lead to their keys (`IndexSound`); comments and order are kept (`CommentsKept`, `OrderKept`); a second save changes nothing (`SaveIdempotent`) |
| `quadtree` | `Spec` | a point that was taken is in one node, inside all boundaries above it (`PlacedOnce`); a query finds every point inside and none outside (`RangeQuery`, `CircleQuery`); a point is refused only where a sum was rounded (`LostOnlyByRounding`) |
| `quadtree_refused` | `Spec` | violated: insert refuses a point inside the boundary |
| `state_changes` | `Spec` | the logo's texture is freed once and never lost (`LogoOwned`), the first fade begins at black (`FadeFromZero`), an intro ends (`IntroEnds`) |

**Bounds.** A physics step is 2 ticks and a frame 1 or 3, so a frame simulates
zero, one or two steps and leaves a remainder of zero or one; the jump timer
lasts 2 ticks, so it ends within one frame or after several. One floor tile is
enough: contacts only matter by being reported, and `Contacts` may report one
any number of times in a step. `MaxResets` = 2 lets KEY_N replace the first
player, and quitting adds a third (two old bodies, whose cells may coincide);
two cells let a cell be used again or not. They are interchangeable, hence the
symmetry; the liveness run uses one cell and no symmetry. In `Overlay`, a frame
adds up to `MaxLines` = 2 debug lines, with raylib's four buffers: the ring laps
within a frame. In `InputDevice`, frames of 1, 2 and 5 ticks divide the cooldown
of 4, do not divide its rest, and exceed it. In `Settings`, two of the three
volumes (the third is like the second), two resolutions, and volumes below,
above and inside the range, the last of which (53.5 %) is saved as a percentage
that single precision reads back too low. The inexact percentages were computed with IEEE floats: n / 100.f * 100 is below n
for 53 and 59 and for no other up to 100, and for 105 and 106, side by side; the
player may write 106. A process that ends takes its variables with it (`Exit`),
which keeps the states few.
The number of restarts and saves is not bounded.
In `IniFile`, files of up to four lines that the player wrote (a program's write
may make them longer), two sections, two keys and two values, and two changes
between opening and writing: enough for a header given twice, a section that goes
between two that stay, and a key added to one while another is removed; writes and
reopenings are not bounded. In `QuadTree`, a capacity of one (the code has 3, in
each node; only when a node divides depends on it), four insertions, which divide
the tree three times deep, significands below 1024, and two roots: one where all
sums are exact and one where x can only be a multiple of 32. In `States`, frames shorter
than the fade, longer than it, and longer than the whole intro; changes of state
are not bounded.

**Fairness.** Each part of a frame is weakly fair by itself: the thread never
waits for anything, and while a step's contacts come and go the step is still
to be continued, for which fairness of `Next` would not be enough. Nothing is
assumed of keys, of contacts or of the window. `HeldKJumpsAgain` takes "from
some time on only K is held" and "the player lands again and again" as premises.
Frame times are positive in the runs, as raylib's are. In `States` the thread's
next step is weakly fair as a whole: there is one at a time, and it stays enabled.

## What is proved

TLAPS checks, for every value of the constants that satisfies the assumptions
named in the modules:

- `GameProofs`: `SafeSpec => []IInv`, and from it type correctness, the
  impulse and time properties, `FirstGameDefined`, `StaleFilterOnlyOnReset`,
  `KJumpSpacing`, and `JumpImplementsContract`: Game implements the safety part of
  `JumpContract`.
- `OverlayProofs`: `ThreeBuffersSuffice`: with three text buffers or more,
  every line of the log is intact. Three is what the code needs, for
  `AddBoth` formats two texts and the font's key comes third. From the same
  assumption: type correctness, the widths are the lines', the log is bounded.
- `InputDeviceProofs`: the stick's type correctness, cooldown and repeat rate.
- `SettingsProofs`: type correctness, `SInv` and all four properties of Settings,
  for any set of volumes and resolutions, any arguments of the setters, any
  percentages of the player's, and any set of inexact percentages no two of which,
  up to 100, are neighbours.
- `StatesProofs`: type correctness, `LogoOwned` and `FadeFromZero`, for any
  positive frame times and any lengths of the intro and its fade.
- `IniMapProofs`: `Put` and `Remove` keep a map sound, for any keys and values,
  and change what they should and nothing else.
- `IniFileProofs`: `FileImplementsStore`: IniFile implements `IniStore`, whatever
  lines the player writes, for any names, values and comments, files and structures
  of any length (the bounds of the run are parameters here). With it
  type correctness, `IndexSound`, `SaveIdempotent` and `CommentsKept`. The only
  assumption is that `NoFile` is not a sequence of lines.
- `QuadTreeProofs`: type correctness, `PlacedOnce`, `RangeQuery`, `CircleQuery`
  and `LostOnlyByRounding`, for any capacity, any precision of the floats, and any
  boundaries, points, boxes and numbers of insertions.

None of Game's properties is inductive. `IInv` adds to `TypeOK`:
`ControlInv` (which parts of a frame go with which return points and states,
and that nothing has happened before the first frame), `JumpInv` (a request
only waits between `handleInput` and the next `draw()`, where no physics runs,
and while an impulse waits between steps the player counts as jumping, so
that no second one can be added), `TimeInv` (game time is conserved, and nothing
is simulated before `draw()`), `MemoryInv` (only the current player's cell lives;
while the game is on there is one player more than KEY_N made, at most; and the
filter is that of the current ECS world unless KEY_N has replaced it in this frame)
and `TimerInv` (the timer runs no faster than time, so it is finished only when
enough time has passed). The proofs have
a lemma per conjunct and in it one step per action. The contract's steps are
proved from `IInv` too: it excludes the phases in which an action would
break the mapping.

In Settings, `SInv` adds `VolumeInv` (a percentage is the volume that was set,
truncated, or one less; if it is one less, it is not inexact, and the next
restart will not lower it again: without this, a loss per restart would add
up), `ImageInv` (what is written is what is in effect, or what is in effect was
read from it), `LossInv` (a file without all its numbers is explained) and `DeviceInv` (how far the device is behind the options
while a save is under way).

In States, the invariant adds which object goes with which state, that only a
loaded intro has a texture, and how far the timer may be ahead of the intro's
count at each part of the frame (`Fading`): one frame time between the update of
the timers and the next `draw()`, and nothing after it.

In Overlay, `WidthInv` states the widths by membership and bound, without the
choice of a maximum, and `LengthInv` says how long the log may be at each part of
a frame.

In IniFile nearly all is in the two loops. tlapm cannot use the induction theorems
of its library, which take an operator; the proofs take the set of the turns after
which something holds instead, and show that it has 0 and with every number the
next (`EveryTurn`, from the least element of the rest, which the well-foundedness
of < gives). `Iterated` shows in the same way that a loop has states, without which
nothing could be said of a recursive function. Both loops then have an invariant:

- the reader's, `ReaderInv`: the lines kept so far *mean* the structure built so far
  (`Means`: its sections are those with a header; every line of a key has its
  key in the section it stands below; and every value is that of such a line);
- the writer's, `WriterInv`: everything written so far is *told* by the new
  structure, and what the lines so far have of it has been written: its headers,
  its keys, and, for each section that has ended, its new keys.

At its end the writer's output *says* the structure (`LazySays`), and lines that say
a structure are read as one that stands for the same store (`SaidIsRead`). So what
is written is read (`WrittenIsRead`), and the state invariant `IInv` needs only to
say that the structure in memory is sound and that `stored` is what a reader of the
file gets. For `SaveIdempotent`, over lines that say the structure, the writer
copies each (`WrittenAgain`); for `CommentsKept`, after every turn what went in and
what came out have the same comments.

In QuadTree, `IInv` adds to the types: `TreeInv` (above every node are all shorter
paths, children come by four, only full nodes are divided), `QuarterInv` (a child's
boundary is the quarter of its parent's), `PlaceInv` (no entity has two slots, each
has one, in a cell it is in, as it is in those above), `SearchInv` (all the nodes in
`todo` lie below cells that the point is in: why `Store` keeps `PlaceInv`) and
`LossInv` (where no boundary was rounded, one of the nodes in `todo` has the point
inside: `QuartersCover` shows it for a division, and an empty `todo` then cannot
be). `PlaceInv` is why a query finds what it should: a box and a cell that have a
point in common, off the border of the box, intersect (`MeetWherePointIs`), so no
cell above the point is skipped; the same for a circle, where nothing is rounded
(`MeetInCircle`). That `Ulp`, the distance of neighbouring floats, is
well defined is proved like the loops', halving instead of counting.

**Only model-checked**: the liveness properties (TLAPS reaches neither fairness
nor ENABLED), and IniFile's `OrderKept`, which needs the place of every line, not
only what the lines say.

## Where the code and its comments disagree

1. world.cpp:238 takes for granted that the bodies' user data are pointers that
   can be followed. After KEY_N the old player's body is still in the world and
   its pointer dangles (`game_userdata`).
2. state.h:73 says that nothing happens on QUIT; line 77 loads the old state
   again (`game_quit`).
3. rtext.c:1287 warns that a formatted string expires; fonthandler.cpp:12 keeps
   its address as a key (`overlay_fonts`). The visible effect is small, for one
   font is ever asked for: it is loaded up to four times.

4. quadtree.h:180 says of the last return in `insert` that it should never
   happen. It happens where the sums of a boundary are rounded
   (`quadtree_refused`), and only there (`LostOnlyByRounding`): the right border of
   a node is rounded once and that of its eastern quarter twice. With 32-bit floats
   a tree at left = 208.511002 of width 1495.78003 refuses x = 1704.29102, its own
   border, once the cells there are full; a tree at the origin with a screen's
   size, 1280 by 720, has exact sums.

mini.h:42-43 promises that "section and key order is preserved on read, write and
insert". `OrderKept` shows it for files that name each section once; it
would not hold for a file that names one twice, for new keys are then put below
the first of its blocks as well as below the second. What is read back has the
right values all the same (`StoreImplemented`).

Two properties of QuadTree are as narrow as the code is: a point on the border of
a queried box may be missed, for a cell that only touches the box is skipped; and
a query for a circle is claimed to miss nothing only where neither the boundaries
nor the sums of its tests are rounded (`ExactFor`).

## Not modelled

Geometry and floating-point arithmetic other than QuadTree's (camera, parallax,
velocities, vectors, easings), drawing, the cache of textures, JSON decoding: data
and layout, without control. Audio: no sound is ever loaded, every call runs over
empty lists. Fireballs, enemies and their contacts: nothing creates either, and a model would have to invent who does and in which order.
Code without callers (`clearObjects`, `removeObject`, `doShoot`'s results,
`_toggleVsync`). In mini.h: trimming, case, the escape of "=", pretty printing. The
physics engine is the nondeterministic choice of its contacts. Lines in
PROJECT.json name what is abstracted.

Nearly all of the repository is vendored (flecs, raylib, Box2D, nlohmann/json and
their examples: some 370 000 of 375 000 lines). Of it only what the game depends on
is modelled: the phases of a physics step, the ring of text buffers, the window's
mode. The program itself, project/src and bixxy-engine, is what the models cover.

## Plan

Done: `JumpContract`, `Game`, `Overlay`, `InputDevice`, `Settings`, `States`,
`IniStore`, `IniMap`, `IniFile` and `QuadTree`, with proofs. What would be worth adding:

1. Composition: `States` with `Game` in the place of its GAME state, and `Settings`
   with `IniFile` in the place of its file (the references that `_init` keeps into a
   growing vector).
2. A gamepad beside the keyboard in `Game`, by way of `InputDevice`: the jumps of a
   held stick against `JumpContract`.
3. `Combat`, when the game creates enemies.
4. A proof of `OrderKept`.
