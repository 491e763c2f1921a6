------------------------------ MODULE Settings ------------------------------
(***************************************************************************)
(* The engine's options and settings.ini: Settings::init, the setters and  *)
(* the save each of them makes, over any number of runs of the program.    *)
(* mINI rewrites the file in place: it is truncated when it is opened and  *)
(* written when the stream is closed.  Between the two the process may die *)
(* and the write may fail, or write a part of the text; no caller looks at *)
(* the result of a save.  Between two runs the player may edit the file.   *)
(*                                                                         *)
(* A volume in memory is counted in thousandths.  In the file it is a      *)
(* percentage: truncated when saved, divided by 100.f when read.  For some *)
(* percentages the quotient, in single precision, is below the hundredth,  *)
(* and would be truncated to one per cent less (53, 59, 105, 106 and       *)
(* others, for IEEE floats); it is represented by one thousandth less.     *)
(* The setters clamp a volume, _init does not: what the player writes may  *)
(* be more than 100 per cent.                                              *)
(***************************************************************************)
EXTENDS Integers

CONSTANTS
  Channels,     \* volumes: master, effects and music
  Master,       \* the one that is the audio device's
  Last,         \* the one that is saved last: music
  Sizes,        \* resolutions
  DefaultSize,  \* 1280 x 720
  Volumes,      \* arguments of the volume setters, in thousandths
  EditedPercents,  \* percentages the player may write into the file
  Inexact       \* percentages n with n / 100.f * 100 < n

Percents == 0 .. 999   \* bound: a percentage in the file has three digits
Levels   == 0 .. 9990

ASSUME MasterAssumption  == Master \in Channels /\ Last \in Channels
ASSUME SizesAssumption   == DefaultSize \in Sizes
ASSUME VolumesAssumption == Volumes \subseteq Int
ASSUME EditedAssumption  == EditedPercents \subseteq Percents
ASSUME InexactAssumption ==
  Inexact \subseteq Nat \ {0} /\ \A n \in Inexact : n <= 100 => n - 1 \notin Inexact

VARIABLES
  pc,        \* what the program does
  after,     \* what the caller does when the file is written
  options,   \* the members of Settings
  pending,   \* the INIStructure being written
  disk,      \* whether settings.ini exists, and has its five numbers
  saved,     \* its values, when it has them
  fullscreen, shown, screen,
             \* raylib's window: its mode, its size, the size toggles go to
  interval,  \* glfw's swap interval
  loudness,  \* the audio device's volume
  \* history
  lost,      \* the last write of the file has not been completed, nor has the
             \* player replaced what it left
  spoiled,   \* the player has left the file without one of its numbers
  setNow,    \* the volumes last asked for: by a setter, clamped, or in the file
  setSaved,  \* those behind the values in the file; a number that was cut, or
             \* that the player wrote, stands for itself
  resized    \* the last change of the resolution was made in fullscreen

window  == <<fullscreen, shown, screen>>
devices == <<window, interval, loudness>>
file    == <<disk, saved, setSaved>>
accidents == <<lost, spoiled>>
vars == <<pc, after, options, pending, file, devices, accidents, setNow, resized>>

Options == [vsync : BOOLEAN, fullscreen : BOOLEAN, size : Sizes,
            volume : [Channels -> Levels]]
Image   == [vsync : BOOLEAN, fullscreen : BOOLEAN, size : Sizes,
            percent : [Channels -> Percents]]

ProgramTypes ==
  /\ pc \in {"off", "failed", "running", "writing", "applying"}
  /\ after \in {"start", "size", "fullscreen", "none"}
  /\ options \in Options /\ pending \in Image
FileTypes ==
  /\ disk \in {"absent", "torn", "written"} /\ saved \in Image
  /\ lost \in BOOLEAN /\ spoiled \in BOOLEAN
  /\ setNow \in [Channels -> Levels] /\ setSaved \in [Channels -> Levels]
DeviceTypes ==
  /\ fullscreen \in BOOLEAN /\ shown \in Sizes /\ screen \in Sizes
  /\ interval \in 0 .. 1 /\ loudness \in Levels /\ resized \in BOOLEAN

TypeOK == ProgramTypes /\ FileTypes /\ DeviceTypes

-----------------------------------------------------------------------------
(* Conversions *)

MutantClampAbove(v) == IF v > 1000 THEN 1000 ELSE v
Clamp(v) == IF v < 0 THEN 0 ELSE IF v > 1000 THEN 1000 ELSE v

MutantPercentCastFirst(v) == (v \div 1000) * 100
Percent(v) == v \div 10

MutantQuotientBelow(n) == IF n = 0 THEN 0 ELSE 10 * n - 1
Quotient(n) == IF n \in Inexact THEN 10 * n - 1 ELSE 10 * n

(* Settings::_saveSettings: the structure that is written. *)
ImageOf(o) ==
  [vsync |-> o.vsync, fullscreen |-> o.fullscreen, size |-> o.size,
   percent |-> [c \in Channels |-> Percent(o.volume[c])]]

(* Settings::_init, when there is a file with all its keys. *)
OptionsOf(i) ==
  [vsync |-> i.vsync, fullscreen |-> i.fullscreen, size |-> i.size,
   volume |-> [c \in Channels |-> Quotient(i.percent[c])]]

(* The members' initial values. *)
DefaultOptions ==
  [vsync |-> TRUE, fullscreen |-> FALSE, size |-> DefaultSize,
   volume |-> [c \in Channels |-> 1000]]

(* Settings::_init, when there is no file.  It casts to int before it      *)
(* multiplies, which is right for the initial value 1.0f and no other.     *)
FirstImage ==
  [vsync |-> DefaultOptions.vsync, fullscreen |-> DefaultOptions.fullscreen,
   size |-> DefaultOptions.size,
   percent |-> [c \in Channels |-> (DefaultOptions.volume[c] \div 1000) * 100]]

Interval(o) == IF o.vsync THEN 1 ELSE 0

(* No file, no program. *)
Init ==
  /\ pc = "off" /\ after = "none"
  /\ options = DefaultOptions /\ pending = FirstImage
  /\ disk = "absent" /\ saved = FirstImage
  /\ fullscreen = FALSE /\ shown = DefaultSize /\ screen = DefaultSize
  /\ interval = 0 /\ loudness = 1000
  /\ lost = FALSE /\ spoiled = FALSE /\ resized = FALSE
  /\ setNow = DefaultOptions.volume /\ setSaved = DefaultOptions.volume

-----------------------------------------------------------------------------
(* INIFile::write(image), of which caller is the rest.  The stream opens,  *)
(* and the file exists and is empty; or it does not, the file is left as   *)
(* it was, and the caller goes on.                                         *)
Write(image, caller) ==
  /\ pending' = image /\ after' = caller
  /\ lost' = TRUE
  /\ \/ pc' = "writing"  /\ disk' = "torn"
     \/ pc' = "applying" /\ UNCHANGED disk
  /\ UNCHANGED <<saved, spoiled>>

(* The text mINI makes of a structure holds every key of it, be the file   *)
(* new (INIGenerator) or there already (INIWriter::getLazyOutput).         *)
MutantWrittenIfChanged == IF pending = saved THEN "torn" ELSE "written"
Written == "written"

(* What is left of a percentage that is cut short, if any digit is. *)
Cut(n) == {m \in {n \div 10, n \div 100} : m > 0}

(* The stream is closed: the text is in the file, or could not be written, *)
(* or only a part of it.  A part lacks a number, unless it ends inside the *)
(* last one, the volume of music: then it has all, and a shorter one.      *)
Flush ==
  /\ pc = "writing" /\ pc' = "applying"
  /\ \/ /\ disk' = Written /\ saved' = pending /\ setSaved' = setNow
        /\ lost' = FALSE
     \/ \E m \in Cut(pending.percent[Last]) :
          /\ disk' = "written" /\ saved' = [pending EXCEPT !.percent[Last] = m]
          /\ setSaved' = [setNow EXCEPT ![Last] = 10 * m]
          /\ UNCHANGED lost
     \/ UNCHANGED <<file, lost>>
  /\ UNCHANGED <<after, options, pending, devices, spoiled, setNow, resized>>

(* raylib's window: a resize in fullscreen shows, but does not change the   *)
(* size that the next toggle, in either direction, goes to.                *)
SetWindowSize(size) ==
  shown' = size /\ screen' = (IF fullscreen THEN screen ELSE size) /\ UNCHANGED fullscreen

MutantToggleEnters == fullscreen' = TRUE /\ shown' = screen /\ UNCHANGED screen
ToggleWindow == fullscreen' = ~fullscreen /\ shown' = screen /\ UNCHANGED screen

(* What the callers of a save do next. *)
Started ==
  /\ after = "start"
  /\ IF options.fullscreen THEN ToggleWindow ELSE UNCHANGED window
  /\ interval' = Interval(options)
  /\ resized' = FALSE

Resized ==
  /\ after = "size"
  /\ SetWindowSize(options.size)
  /\ resized' = fullscreen
  /\ UNCHANGED interval

Toggled ==
  /\ after = "fullscreen"
  /\ ToggleWindow
  /\ interval' = Interval(options)
  /\ UNCHANGED resized

VolumeSet == after = "none" /\ UNCHANGED <<window, interval, resized>>

Apply ==
  /\ pc = "applying" /\ pc' = "running"
  /\ Started \/ Resized \/ Toggled \/ VolumeSet
  /\ UNCHANGED <<after, options, pending, file, loudness, accidents, setNow>>

-----------------------------------------------------------------------------
(* Settings::_init, up to the write: a new window and the options from the *)
(* file, which is then written as it was read.  A file that lacks one of   *)
(* the numbers, or has a text in its place, ends the program: std::stoi    *)
(* and std::stof throw on it (a missing key is an empty text), if the      *)
(* references into the structure have not gone astray before.              *)
StartWith(o, image) ==
  /\ options' = o
  /\ fullscreen' = FALSE /\ shown' = o.size /\ screen' = o.size
  /\ interval' = 0 /\ loudness' = o.volume[Master]
  /\ UNCHANGED resized
  /\ Write(image, "start")

Start ==
  /\ pc \in {"off", "failed"}
  /\ \/ /\ disk = "absent"
        /\ StartWith(DefaultOptions, FirstImage)
        /\ setNow' = DefaultOptions.volume /\ UNCHANGED setSaved
     \/ /\ disk = "written"
        /\ StartWith(OptionsOf(saved), saved)
        /\ setNow' = setSaved /\ UNCHANGED setSaved
     \/ /\ disk = "torn" /\ pc' = "failed"
        /\ UNCHANGED <<after, options, pending, file, devices, accidents, setNow, resized>>

SetRes(size) ==
  /\ pc = "running"
  /\ options' = [options EXCEPT !.size = size]
  /\ Write(ImageOf(options'), "size")
  /\ UNCHANGED <<devices, setNow, setSaved, resized>>

(* Settings::toggleFullscreen, and Settings::toggleVsync, which calls the  *)
(* same _toggleFullscreen.                                                 *)
ToggleFullscreen ==
  /\ pc = "running"
  /\ options' = [options EXCEPT !.fullscreen = ~@]
  /\ Write(ImageOf(options'), "fullscreen")
  /\ UNCHANGED <<devices, setNow, setSaved, resized>>

(* _setMasterVolume tells the audio device before it saves; the others     *)
(* only save.                                                              *)
SetVolume(c, v) ==
  /\ pc = "running"
  /\ options' = [options EXCEPT !.volume[c] = Clamp(v)]
  /\ setNow' = [setNow EXCEPT ![c] = Clamp(v)]
  /\ loudness' = IF c = Master THEN Clamp(v) ELSE loudness
  /\ Write(ImageOf(options'), "none")
  /\ UNCHANGED <<setSaved, window, interval, resized>>

(* The program ends, at any moment.  Its members, its window and its sound *)
(* go with it; the next run begins with those of Init.                     *)
Exit ==
  /\ pc \in {"running", "writing", "applying"} /\ pc' = "off"
  /\ after' = "none" /\ options' = DefaultOptions /\ pending' = FirstImage
  /\ fullscreen' = FALSE /\ shown' = DefaultSize /\ screen' = DefaultSize
  /\ interval' = 0 /\ loudness' = 1000
  /\ setNow' = DefaultOptions.volume /\ resized' = FALSE
  /\ UNCHANGED <<file, accidents>>

(* The player deletes the file. *)
DeleteFile ==
  /\ disk' = "absent" /\ lost' = FALSE /\ spoiled' = FALSE
  /\ UNCHANGED <<saved, setSaved>>

(* The player drops a number from the file, or puts a text in its place. *)
SpoilFile ==
  /\ disk # "absent"
  /\ disk' = "torn" /\ spoiled' = TRUE
  /\ UNCHANGED <<saved, setSaved, lost>>

(* The player leaves the file with all its numbers, whatever was there,    *)
(* and another value, or the same.  A switch that is missing reads as      *)
(* FALSE.                                                                  *)
ChangeFile ==
  /\ disk # "absent"
  /\ disk' = "written" /\ lost' = FALSE /\ spoiled' = FALSE
  /\ \/ /\ \/ \E on \in BOOLEAN : saved' = [saved EXCEPT !.vsync = on]
           \/ \E on \in BOOLEAN : saved' = [saved EXCEPT !.fullscreen = on]
           \/ \E size \in Sizes : saved' = [saved EXCEPT !.size = size]
        /\ UNCHANGED setSaved
     \/ \E c \in Channels, n \in EditedPercents :
          /\ saved' = [saved EXCEPT !.percent[c] = n]
          /\ setSaved' = [setSaved EXCEPT ![c] = 10 * n]

Edit ==
  /\ pc \in {"off", "failed"} /\ pc' = "off"
  /\ DeleteFile \/ SpoilFile \/ ChangeFile
  /\ UNCHANGED <<after, options, pending, devices, setNow, resized>>

Next ==
  \/ Start \/ Flush \/ Apply \/ ToggleFullscreen \/ Exit \/ Edit
  \/ \E size \in Sizes : SetRes(size)
  \/ \E c \in Channels, v \in Volumes : SetVolume(c, v)

Spec == Init /\ [][Next]_vars

-----------------------------------------------------------------------------
(* Properties *)

(* While the program runs and its last save was completed, a restart gives *)
(* the options in effect back, a volume lower by one per cent at most.     *)
RestartFaithful ==
  pc = "running" /\ ~lost =>
    LET again == OptionsOf(saved)
    IN  /\ disk = "written"
        /\ again.vsync = options.vsync
        /\ again.fullscreen = options.fullscreen
        /\ again.size = options.size
        /\ \A c \in Channels :
             again.volume[c] <= options.volume[c] /\ options.volume[c] - again.volume[c] <= 10

(* However often the program is restarted and other options are saved, a   *)
(* volume that was set loses less than two per cent: the loss of one       *)
(* conversion does not feed the next.  This holds up to 100 per cent, the  *)
(* most that a setter sets; above there are inexact percentages side by    *)
(* side, through which a volume falls.                                     *)
DriftBounded ==
  disk = "written" =>
    \A c \in Channels : setSaved[c] <= 1000 =>
      /\ 10 * saved.percent[c] <= setSaved[c]
      /\ setSaved[c] - 10 * saved.percent[c] < 20

(* Toggling is relative and the file absolute: across starts, toggles,     *)
(* resizes and failed saves, the window and the audio device show the      *)
(* options in effect.  The resolution is the exception: one chosen in      *)
(* fullscreen is saved, but does not survive the next toggle.              *)
DeviceFollows ==
  pc = "running" =>
    /\ fullscreen = options.fullscreen
    /\ interval = Interval(options)
    /\ loudness = options.volume[Master]
    /\ ~resized => shown = options.size

(* The program can start from whatever it has written to the end: a start  *)
(* fails only where the last write was not completed, or the player left   *)
(* the file without one of its numbers.                                    *)
FailedStartExplained == pc = "failed" => lost \/ spoiled

-----------------------------------------------------------------------------
(* The inductive invariant behind these properties (SettingsProofs).       *)

Running == pc \in {"writing", "applying", "running"}

(* A percentage n stands for a volume s that was set: it is s truncated,   *)
(* or one less; if it is less, it is not inexact, and will stay.  Nothing  *)
(* is said of volumes that no setter sets.                                 *)
Fits(n, s) ==
  s <= 1000 =>
    10 * n <= s /\ (s - 10 * n < 10 \/ (s - 10 * n < 20 /\ n \notin Inexact))

(* A volume in memory is the one that was set, or was read from a file. *)
Derived(v, s) ==
  s <= 1000 => v = s \/ \E n \in Percents : v = Quotient(n) /\ Fits(n, s)

VolumeInv ==
  /\ Running => \A c \in Channels : /\ Derived(options.volume[c], setNow[c])
                                     /\ Fits(pending.percent[c], setNow[c])
  /\ \A c \in Channels : Fits(saved.percent[c], setSaved[c])

(* What is written is what is in effect, or what is in effect was read. *)
ImageInv ==
  /\ Running => pending = ImageOf(options) \/ options = OptionsOf(pending)
  /\ pc \in {"applying", "running"} /\ ~lost => disk = "written" /\ saved = pending

(* A write that was begun, or the player, explains a file without all its  *)
(* numbers, and a failed start.                                            *)
LossInv ==
  /\ disk = "torn" \/ pc = "failed" => lost \/ spoiled
  /\ pc = "writing" => lost

(* How far the device is from the options while the caller of a save has   *)
(* not been told that it is done.                                          *)
DeviceInv ==
  LET busy == pc # "running"
  IN  Running =>
        /\ loudness = options.volume[Master]
        /\ IF busy /\ after = "start"
           THEN fullscreen = FALSE /\ shown = options.size /\ screen = options.size
           ELSE /\ interval = Interval(options)
                /\ fullscreen = options.fullscreen <=> ~(busy /\ after = "fullscreen")
                /\ ~resized /\ ~(busy /\ after = "size") =>
                     screen = options.size /\ shown = options.size

SInv == TypeOK /\ VolumeInv /\ ImageInv /\ LossInv /\ DeviceInv
=============================================================================
