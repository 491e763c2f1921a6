--------------------------- MODULE SettingsProofs ---------------------------
(***************************************************************************)
(* The properties of Settings for any channels, resolutions, arguments of  *)
(* the setters, and any set of inexact percentages without neighbours up   *)
(* to 100.                                                                 *)
(***************************************************************************)
EXTENDS Settings, TLAPS

-----------------------------------------------------------------------------
(* The conversions *)

LEMMA ClampRange == \A v \in Int : Clamp(v) \in Levels /\ Clamp(v) <= 1000
BY DEF Clamp, Levels

LEMMA PercentRange == \A v \in Levels : Percent(v) \in Percents
BY DEF Percent, Levels, Percents

LEMMA QuotientRange == \A n \in Percents : Quotient(n) \in Levels
BY InexactAssumption DEF Quotient, Levels, Percents

(* What a restart makes of a volume is lower by one per cent at most. *)
LEMMA RoundTrip ==
  /\ \A v \in Levels : LET w == Quotient(Percent(v)) IN w <= v /\ v - w <= 10
  /\ \A n \in Percents : Quotient(n) <= 10 * n /\ 10 * n - Quotient(n) <= 1
BY InexactAssumption DEF Quotient, Percent, Levels, Percents

(* A volume that was set is saved as a percentage that stands for it. *)
LEMMA SetFits == \A s \in Levels : Fits(Percent(s), s)
BY DEF Fits, Percent, Levels

(* So is one that was read: at an inexact percentage one per cent is lost, *)
(* but the next lower percentage is not inexact.                           *)
LEMMA ReadFits ==
  ASSUME NEW s \in Levels, NEW n \in Percents, Fits(n, s)
  PROVE  Fits(Percent(Quotient(n)), s)
<1>1. CASE n \in Inexact
  <2>. SUFFICES ASSUME s <= 1000 PROVE Fits(Percent(Quotient(n)), s)
    BY DEF Fits
  <2>1. n \in 1 .. 100 /\ n - 1 \notin Inexact
    BY <1>1, InexactAssumption DEF Fits, Levels, Percents
  <2>2. Percent(Quotient(n)) = n - 1
    BY <1>1, <2>1 DEF Percent, Quotient
  <2>. QED  BY <1>1, <2>1, <2>2 DEF Fits, Levels
<1>2. CASE n \notin Inexact
  <2>1. Percent(Quotient(n)) = n
    BY <1>2 DEF Percent, Quotient, Percents
  <2>. QED  BY <2>1
<1>. QED  BY <1>1, <1>2

LEMMA DerivedFits ==
  ASSUME NEW s \in Levels, NEW v \in Levels, Derived(v, s)
  PROVE  Fits(Percent(v), s)
<1>. SUFFICES ASSUME s <= 1000 PROVE Fits(Percent(v), s)
  BY DEF Fits
<1>. QED  BY SetFits, ReadFits DEF Derived

(* A number in the file stands for itself; so does what is left of one. *)
LEMMA NumberFits ==
  /\ \A n \in Percents : 10 * n \in Levels /\ Fits(n, 10 * n)
  /\ \A n \in Percents : Cut(n) \subseteq Percents
<1>1. \A n \in Percents : 10 * n \in Levels /\ Fits(n, 10 * n)
  BY DEF Percents, Levels, Fits
<1>2. ASSUME NEW n \in Percents PROVE n \div 10 \in Percents /\ n \div 100 \in Percents
  BY DEF Percents
<1>. QED  BY <1>1, <1>2 DEF Cut

-----------------------------------------------------------------------------
(* Records of options and what is saved of them *)

LEMMA ImageType ==
  ASSUME NEW o \in Options
  PROVE  /\ ImageOf(o) \in Image
         /\ \A c \in Channels : ImageOf(o).percent[c] = Percent(o.volume[c])
<1>1. ImageOf(o).percent = [c \in Channels |-> Percent(o.volume[c])]
  BY DEF ImageOf
<1>2. \A c \in Channels : Percent(o.volume[c]) \in Percents
  BY PercentRange DEF Options
<1>3. ImageOf(o).percent \in [Channels -> Percents]
  BY <1>1, <1>2
<1>. QED  BY <1>1, <1>3 DEF Options, Image, ImageOf

LEMMA OptionsType ==
  ASSUME NEW i \in Image
  PROVE  /\ OptionsOf(i) \in Options
         /\ \A c \in Channels : OptionsOf(i).volume[c] = Quotient(i.percent[c])
<1>1. OptionsOf(i).volume = [c \in Channels |-> Quotient(i.percent[c])]
  BY DEF OptionsOf
<1>2. \A c \in Channels : Quotient(i.percent[c]) \in Levels
  BY QuotientRange DEF Image
<1>3. OptionsOf(i).volume \in [Channels -> Levels]
  BY <1>1, <1>2
<1>. QED  BY <1>1, <1>3 DEF Options, Image, OptionsOf

LEMMA FirstType ==
  /\ DefaultOptions \in Options
  /\ FirstImage = ImageOf(DefaultOptions) /\ FirstImage \in Image
  /\ \A c \in Channels : Fits(FirstImage.percent[c], DefaultOptions.volume[c])
<1>1. DefaultOptions \in Options
  <2>1. 1000 \in Levels
    BY DEF Levels
  <2>. QED  BY <2>1, SizesAssumption DEF DefaultOptions, Options
<1>2. /\ [c \in Channels |-> Percent(DefaultOptions.volume[c])] = [c \in Channels |-> 100]
      /\ [c \in Channels |-> (DefaultOptions.volume[c] \div 1000) * 100]
            = [c \in Channels |-> 100]
  <2>1. \A c \in Channels : DefaultOptions.volume[c] = 1000
    BY DEF DefaultOptions
  <2>2. 1000 \div 10 = 100 /\ (1000 \div 1000) * 100 = 100
    OBVIOUS
  <2>. QED  BY <2>1, <2>2 DEF Percent
<1>3. FirstImage = ImageOf(DefaultOptions)
  BY <1>2 DEF FirstImage, ImageOf
<1>4. \A c \in Channels : Fits(FirstImage.percent[c], DefaultOptions.volume[c])
  <2>1. \A c \in Channels : DefaultOptions.volume[c] \in Levels
    BY <1>1 DEF Options
  <2>2. \A c \in Channels : FirstImage.percent[c] = Percent(DefaultOptions.volume[c])
    BY <1>1, <1>3, ImageType
  <2>. QED  BY <2>1, <2>2, SetFits, Zenon
<1>5. FirstImage \in Image
  BY <1>1, <1>3, ImageType
<1>. QED  BY <1>1, <1>3, <1>4, <1>5

(* What can be written over one value of a file. *)
LEMMA EditType ==
  ASSUME NEW i \in Image
  PROVE  /\ \A on \in BOOLEAN : [i EXCEPT !.vsync = on] \in Image
         /\ \A on \in BOOLEAN : [i EXCEPT !.fullscreen = on] \in Image
         /\ \A size \in Sizes : [i EXCEPT !.size = size] \in Image
         /\ \A c \in Channels, n \in Percents : [i EXCEPT !.percent[c] = n] \in Image
<1>1. ASSUME NEW on \in BOOLEAN
      PROVE  [i EXCEPT !.vsync = on] \in Image /\ [i EXCEPT !.fullscreen = on] \in Image
  BY DEF Image
<1>2. ASSUME NEW size \in Sizes PROVE [i EXCEPT !.size = size] \in Image
  BY DEF Image
<1>3. ASSUME NEW c \in Channels, NEW n \in Percents
      PROVE  [i EXCEPT !.percent[c] = n] \in Image
  BY DEF Image
<1>. QED  BY <1>1, <1>2, <1>3

(* The three ways in which a setter changes the options. *)
LEMMA SetterTypes ==
  ASSUME NEW o \in Options
  PROVE  /\ [o EXCEPT !.fullscreen = ~@] \in Options
         /\ \A size \in Sizes : [o EXCEPT !.size = size] \in Options
         /\ \A c \in Channels, v \in Levels : [o EXCEPT !.volume[c] = v] \in Options
<1>1. ASSUME NEW b \in BOOLEAN PROVE [o EXCEPT !.fullscreen = b] \in Options
  BY DEF Options
<1>2. (~o.fullscreen) \in BOOLEAN
  BY DEF Options
<1>3. ASSUME NEW size \in Sizes PROVE [o EXCEPT !.size = size] \in Options
  BY DEF Options
<1>4. ASSUME NEW c \in Channels, NEW v \in Levels
      PROVE  [o EXCEPT !.volume[c] = v] \in Options
  BY DEF Options
<1>. QED  BY <1>1, <1>2, <1>3, <1>4

-----------------------------------------------------------------------------
(* Types *)

LEMMA TypeInit == Init => TypeOK
<1>. SUFFICES ASSUME Init PROVE TypeOK
  OBVIOUS
<1>1. ProgramTypes
  BY FirstType DEF Init, ProgramTypes
<1>2. FileTypes
  <2>1. setNow \in [Channels -> Levels] /\ setSaved \in [Channels -> Levels]
    BY FirstType DEF Init, Options
  <2>. QED  BY <2>1, FirstType DEF Init, FileTypes
<1>3. DeviceTypes
  <2>1. fullscreen \in BOOLEAN /\ resized \in BOOLEAN
    BY DEF Init
  <2>2. shown \in Sizes /\ screen \in Sizes /\ interval \in 0 .. 1 /\ loudness \in Levels
    BY SizesAssumption DEF Init, Levels
  <2>. QED  BY <2>1, <2>2 DEF DeviceTypes
<1>. QED  BY <1>1, <1>2, <1>3 DEF TypeOK

(* What a save changes. *)
LEMMA WriteType ==
  ASSUME TypeOK, NEW image \in Image,
         NEW caller \in {"start", "size", "fullscreen", "none"}, Write(image, caller),
         options' \in Options,
         setNow' \in [Channels -> Levels] /\ setSaved' = setSaved
  PROVE  ProgramTypes' /\ FileTypes'
<1>1. ProgramTypes'
  BY DEF Write, TypeOK, ProgramTypes
<1>2. FileTypes'
  BY DEF Write, TypeOK, FileTypes
<1>. QED  BY <1>1, <1>2

LEMMA TypeStep == TypeOK /\ [Next]_vars => TypeOK'
<1>. SUFFICES ASSUME TypeOK, [Next]_vars PROVE TypeOK'
  OBVIOUS
<1>1. CASE Start
  <2>1. CASE disk = "absent" /\ StartWith(DefaultOptions, FirstImage)
             /\ setNow' = DefaultOptions.volume /\ UNCHANGED setSaved
    <3>1. DefaultOptions.volume \in [Channels -> Levels] /\ DefaultOptions.size \in Sizes
      BY FirstType DEF Options
    <3>2. ProgramTypes' /\ FileTypes'
      BY <2>1, <3>1, FirstType, WriteType DEF StartWith
    <3>3. DeviceTypes'
      <4>1. fullscreen' \in BOOLEAN /\ resized' \in BOOLEAN
        BY <2>1 DEF StartWith, TypeOK, DeviceTypes
      <4>2. /\ shown' \in Sizes /\ screen' \in Sizes
            /\ interval' \in 0 .. 1 /\ loudness' \in Levels
        BY <2>1, <3>1, MasterAssumption DEF StartWith
      <4>. QED  BY <4>1, <4>2 DEF DeviceTypes
    <3>. QED  BY <3>2, <3>3 DEF TypeOK
  <2>2. CASE disk = "written" /\ StartWith(OptionsOf(saved), saved)
             /\ setNow' = setSaved /\ UNCHANGED setSaved
    <3>1. OptionsOf(saved) \in Options /\ saved \in Image
      BY OptionsType DEF TypeOK, FileTypes
    <3>2. OptionsOf(saved).size \in Sizes /\ OptionsOf(saved).volume[Master] \in Levels
      BY <3>1, MasterAssumption DEF Options
    <3>3. ProgramTypes' /\ FileTypes'
      BY <2>2, <3>1, WriteType DEF StartWith, TypeOK, FileTypes
    <3>4. DeviceTypes'
      <4>1. fullscreen' \in BOOLEAN /\ resized' \in BOOLEAN
        BY <2>2 DEF StartWith, TypeOK, DeviceTypes
      <4>2. /\ shown' \in Sizes /\ screen' \in Sizes
            /\ interval' \in 0 .. 1 /\ loudness' \in Levels
        BY <2>2, <3>2 DEF StartWith
      <4>. QED  BY <4>1, <4>2 DEF DeviceTypes
    <3>. QED  BY <3>3, <3>4 DEF TypeOK
  <2>3. CASE disk = "torn" /\ pc' = "failed"
             /\ UNCHANGED <<after, options, pending, file, devices, accidents, setNow, resized>>
    BY <2>3
    DEF TypeOK, ProgramTypes, FileTypes, DeviceTypes, file, devices, window, accidents
  <2>. QED  BY <1>1, <2>1, <2>2, <2>3 DEF Start
<1>2. CASE Flush
  <2>1. ProgramTypes'
    BY <1>2 DEF Flush, TypeOK, ProgramTypes
  <2>2. FileTypes'
    <3>1. lost' \in BOOLEAN /\ spoiled' \in BOOLEAN /\ setNow' \in [Channels -> Levels]
      BY <1>2 DEF Flush, TypeOK, FileTypes
    <3>2. CASE disk' = Written /\ saved' = pending /\ setSaved' = setNow
      BY <3>1, <3>2 DEF Written, TypeOK, ProgramTypes, FileTypes
    <3>3. ASSUME NEW m \in Cut(pending.percent[Last]), disk' = "written",
                 saved' = [pending EXCEPT !.percent[Last] = m],
                 setSaved' = [setNow EXCEPT ![Last] = 10 * m]
          PROVE  FileTypes'
      <4>1. m \in Percents /\ 10 * m \in Levels
        <5>1. pending.percent[Last] \in Percents
          BY MasterAssumption DEF TypeOK, ProgramTypes, Image
        <5>. QED  BY <5>1, NumberFits
      <4>2. saved' \in Image
        BY <3>3, <4>1, MasterAssumption, EditType DEF TypeOK, ProgramTypes
      <4>3. setSaved' \in [Channels -> Levels]
        BY <3>3, <4>1 DEF TypeOK, FileTypes
      <4>. QED  BY <3>1, <3>3, <4>2, <4>3 DEF FileTypes
    <3>4. CASE UNCHANGED <<file, lost>>
      BY <3>1, <3>4 DEF TypeOK, FileTypes, file
    <3>. QED  BY <1>2, <3>2, <3>3, <3>4 DEF Flush
  <2>3. DeviceTypes'
    BY <1>2 DEF Flush, TypeOK, DeviceTypes, devices, window
  <2>. QED  BY <2>1, <2>2, <2>3 DEF TypeOK
<1>3. CASE Apply
  <2>1. Interval(options) \in 0 .. 1 /\ options.size \in Sizes
    BY DEF Interval, TypeOK, ProgramTypes, Options
  <2>2. fullscreen' \in BOOLEAN /\ resized' \in BOOLEAN
    BY <1>3 DEF Apply, Started, Resized, Toggled, VolumeSet, SetWindowSize, ToggleWindow,
                TypeOK, DeviceTypes, window
  <2>3. shown' \in Sizes /\ screen' \in Sizes
    BY <1>3, <2>1
    DEF Apply, Started, Resized, Toggled, VolumeSet, SetWindowSize, ToggleWindow,
        TypeOK, DeviceTypes, window
  <2>4. interval' \in 0 .. 1 /\ loudness' \in Levels
    BY <1>3, <2>1 DEF Apply, Started, Resized, Toggled, VolumeSet, TypeOK, DeviceTypes
  <2>5. DeviceTypes'
    BY <2>2, <2>3, <2>4 DEF DeviceTypes
  <2>6. ProgramTypes' /\ FileTypes'
    BY <1>3 DEF Apply, TypeOK, ProgramTypes, FileTypes, file, accidents
  <2>. QED  BY <2>5, <2>6 DEF TypeOK
<1>4. CASE ToggleFullscreen
  <2>1. options' \in Options
    BY <1>4, SetterTypes DEF ToggleFullscreen, TypeOK, ProgramTypes
  <2>2. ProgramTypes' /\ FileTypes'
    BY <1>4, <2>1, ImageType, WriteType DEF ToggleFullscreen, TypeOK, FileTypes
  <2>3. DeviceTypes'
    BY <1>4 DEF ToggleFullscreen, TypeOK, DeviceTypes, devices, window
  <2>. QED  BY <2>2, <2>3 DEF TypeOK
<1>5. CASE Exit
  <2>1. ProgramTypes'
    BY <1>5, FirstType DEF Exit, ProgramTypes
  <2>2. FileTypes'
    <3>1. setNow' \in [Channels -> Levels]
      BY <1>5, FirstType DEF Exit, Options
    <3>. QED  BY <1>5, <3>1 DEF Exit, TypeOK, FileTypes, file, accidents
  <2>3. DeviceTypes'
    <3>1. fullscreen' \in BOOLEAN /\ resized' \in BOOLEAN
      BY <1>5 DEF Exit
    <3>2. /\ shown' \in Sizes /\ screen' \in Sizes
          /\ interval' \in 0 .. 1 /\ loudness' \in Levels
      BY <1>5, SizesAssumption DEF Exit, Levels
    <3>. QED  BY <3>1, <3>2 DEF DeviceTypes
  <2>. QED  BY <2>1, <2>2, <2>3 DEF TypeOK
<1>6. CASE Edit
  <2>1. /\ disk' \in {"absent", "torn", "written"} /\ lost' \in BOOLEAN
        /\ spoiled' \in BOOLEAN
    BY <1>6 DEF Edit, DeleteFile, SpoilFile, ChangeFile, TypeOK, FileTypes
  <2>2. saved \in Image /\ setSaved \in [Channels -> Levels]
    BY DEF TypeOK, FileTypes
  <2>3. saved' \in Image /\ setSaved' \in [Channels -> Levels]
    <3>1. CASE UNCHANGED <<saved, setSaved>>
      BY <2>2, <3>1
    <3>2. ASSUME NEW on \in BOOLEAN, UNCHANGED setSaved,
                 saved' = [saved EXCEPT !.vsync = on] \/ saved' = [saved EXCEPT !.fullscreen = on]
          PROVE  saved' \in Image /\ setSaved' \in [Channels -> Levels]
      BY <2>2, <3>2, EditType
    <3>3. ASSUME NEW size \in Sizes, UNCHANGED setSaved, saved' = [saved EXCEPT !.size = size]
          PROVE  saved' \in Image /\ setSaved' \in [Channels -> Levels]
      BY <2>2, <3>3, EditType
    <3>4. ASSUME NEW c \in Channels, NEW n \in EditedPercents,
                 saved' = [saved EXCEPT !.percent[c] = n],
                 setSaved' = [setSaved EXCEPT ![c] = 10 * n]
          PROVE  saved' \in Image /\ setSaved' \in [Channels -> Levels]
      <4>1. n \in Percents /\ 10 * n \in Levels
        BY EditedAssumption, NumberFits
      <4>. QED  BY <2>2, <3>4, <4>1, EditType
    <3>. QED
      BY <1>6, <3>1, <3>2, <3>3, <3>4 DEF Edit, DeleteFile, SpoilFile, ChangeFile
  <2>4. ProgramTypes' /\ FileTypes'
    BY <1>6, <2>1, <2>3 DEF Edit, TypeOK, ProgramTypes, FileTypes
  <2>5. DeviceTypes'
    BY <1>6 DEF Edit, TypeOK, DeviceTypes, devices, window
  <2>. QED  BY <2>4, <2>5 DEF TypeOK
<1>7. ASSUME NEW size \in Sizes, SetRes(size) PROVE TypeOK'
  <2>1. options' \in Options
    BY <1>7, SetterTypes DEF SetRes, TypeOK, ProgramTypes
  <2>2. ProgramTypes' /\ FileTypes'
    BY <1>7, <2>1, ImageType, WriteType DEF SetRes, TypeOK, FileTypes
  <2>3. DeviceTypes'
    BY <1>7 DEF SetRes, TypeOK, DeviceTypes, devices, window
  <2>. QED  BY <2>2, <2>3 DEF TypeOK
<1>8. ASSUME NEW c \in Channels, NEW v \in Volumes, SetVolume(c, v) PROVE TypeOK'
  <2>1. Clamp(v) \in Levels
    BY VolumesAssumption, ClampRange
  <2>2. options' \in Options
    BY <1>8, <2>1, SetterTypes DEF SetVolume, TypeOK, ProgramTypes
  <2>3. setNow' \in [Channels -> Levels] /\ loudness' \in Levels
    BY <1>8, <2>1 DEF SetVolume, TypeOK, FileTypes, DeviceTypes
  <2>4. ProgramTypes' /\ FileTypes'
    BY <1>8, <2>2, <2>3, ImageType, WriteType DEF SetVolume
  <2>5. DeviceTypes'
    BY <1>8, <2>3 DEF SetVolume, TypeOK, DeviceTypes, window
  <2>. QED  BY <2>4, <2>5 DEF TypeOK
<1>9. CASE UNCHANGED vars
  <2>1. ProgramTypes' /\ FileTypes'
    BY <1>9 DEF vars, TypeOK, ProgramTypes, FileTypes, file, accidents
  <2>2. DeviceTypes'
    BY <1>9 DEF vars, TypeOK, DeviceTypes, devices, window
  <2>. QED  BY <2>1, <2>2 DEF TypeOK
<1>. QED  BY <1>1, <1>2, <1>3, <1>4, <1>5, <1>6, <1>7, <1>8, <1>9 DEF Next

(* Every variable keeps its type, from any set of arguments of the setters. *)
THEOREM SettingsTypeCorrect == Spec => []TypeOK
BY TypeInit, TypeStep, PTL DEF Spec

-----------------------------------------------------------------------------
(* Accidents *)

LEMMA LossStep == LossInv /\ [Next]_vars => LossInv'
<1>. SUFFICES ASSUME LossInv, [Next]_vars PROVE LossInv'
  OBVIOUS
<1>. USE DEF accidents
<1>1. CASE Start
  BY <1>1 DEF Start, StartWith, Write, LossInv, file
<1>2. CASE Flush
  BY <1>2 DEF Flush, Written, LossInv, file
<1>3. CASE Apply
  BY <1>3 DEF Apply, LossInv, file
<1>4. CASE ToggleFullscreen
  BY <1>4 DEF ToggleFullscreen, Write, LossInv
<1>5. CASE Exit
  BY <1>5 DEF Exit, LossInv, file
<1>6. CASE Edit
  BY <1>6 DEF Edit, DeleteFile, SpoilFile, ChangeFile, LossInv
<1>7. ASSUME NEW size \in Sizes, SetRes(size) PROVE LossInv'
  BY <1>7 DEF SetRes, Write, LossInv
<1>8. ASSUME NEW c \in Channels, NEW v \in Volumes, SetVolume(c, v) PROVE LossInv'
  BY <1>8 DEF SetVolume, Write, LossInv
<1>9. CASE UNCHANGED vars
  BY <1>9 DEF vars, LossInv, file
<1>. QED  BY <1>1, <1>2, <1>3, <1>4, <1>5, <1>6, <1>7, <1>8, <1>9 DEF Next

(* The program can start from whatever it has written to the end, if the   *)
(* player leaves every number in it: for any number of runs, saves,        *)
(* failures, deaths of the program and edits of the file.                  *)
THEOREM SettingsFailedStartExplained == Spec => []FailedStartExplained
<1>1. Init => LossInv
  BY DEF Init, LossInv
<1>2. LossInv => FailedStartExplained
  BY DEF LossInv, FailedStartExplained
<1>. QED  BY <1>1, <1>2, LossStep, PTL DEF Spec

-----------------------------------------------------------------------------
(* Volumes *)

(* A save keeps the invariant, if what it writes stands for what was set. *)
LEMMA WriteVolumes ==
  ASSUME VolumeInv, NEW image, NEW caller, Write(image, caller), setSaved' = setSaved,
         \A c \in Channels : /\ Derived(options'.volume[c], setNow'[c])
                             /\ Fits(image.percent[c], setNow'[c])
  PROVE  VolumeInv'
<1>1. pending' = image /\ saved' = saved
  BY DEF Write
<1>. QED  BY <1>1 DEF VolumeInv

(* What a setter saves stands for what was set. *)
LEMMA SaveVolumes ==
  ASSUME NEW o \in Options, NEW set \in [Channels -> Levels],
         \A c \in Channels : Derived(o.volume[c], set[c])
  PROVE  \A c \in Channels : Fits(ImageOf(o).percent[c], set[c])
<1>. SUFFICES ASSUME NEW c \in Channels PROVE Fits(ImageOf(o).percent[c], set[c])
  OBVIOUS
<1>1. set[c] \in Levels /\ o.volume[c] \in Levels
  BY DEF Options
<1>2. Fits(Percent(o.volume[c]), set[c])
  BY <1>1, DerivedFits
<1>. QED  BY <1>2, ImageType

LEMMA VolumeStep == TypeOK /\ TypeOK' /\ VolumeInv /\ [Next]_vars => VolumeInv'
<1>. SUFFICES ASSUME TypeOK, TypeOK', VolumeInv, [Next]_vars PROVE VolumeInv'
  OBVIOUS
<1>1. CASE Start
  <2>1. CASE disk = "absent" /\ StartWith(DefaultOptions, FirstImage)
             /\ setNow' = DefaultOptions.volume /\ UNCHANGED setSaved
    <3>1. \A c \in Channels : Derived(options'.volume[c], setNow'[c])
      BY <2>1 DEF StartWith, Derived
    <3>2. \A c \in Channels : Fits(FirstImage.percent[c], setNow'[c])
      BY <2>1, FirstType
    <3>. QED  BY <2>1, <3>1, <3>2, WriteVolumes DEF StartWith
  <2>2. CASE disk = "written" /\ StartWith(OptionsOf(saved), saved)
             /\ setNow' = setSaved /\ UNCHANGED setSaved
    <3>1. saved \in Image /\ setNow' = setSaved /\ options' = OptionsOf(saved)
      BY <2>2 DEF StartWith, TypeOK, FileTypes
    <3>2. \A c \in Channels : Fits(saved.percent[c], setNow'[c])
      BY <2>2, <3>1 DEF VolumeInv
    <3>3. \A c \in Channels : Derived(options'.volume[c], setNow'[c])
      <4>1. \A c \in Channels : saved.percent[c] \in Percents
        BY <3>1 DEF Image
      <4>2. \A c \in Channels : options'.volume[c] = Quotient(saved.percent[c])
        BY <3>1, OptionsType
      <4>. QED  BY <3>2, <4>1, <4>2 DEF Derived
    <3>. QED  BY <2>2, <3>2, <3>3, WriteVolumes DEF StartWith
  <2>3. CASE disk = "torn" /\ pc' = "failed"
             /\ UNCHANGED <<after, options, pending, file, devices, accidents, setNow, resized>>
    BY <2>3 DEF VolumeInv, Running, file
  <2>. QED  BY <1>1, <2>1, <2>2, <2>3 DEF Start
<1>2. CASE Flush
  <2>1. UNCHANGED <<options, pending, setNow>> /\ Running /\ Running'
    BY <1>2 DEF Flush, Running
  <2>2. CASE saved' = pending /\ setSaved' = setNow
    BY <2>1, <2>2 DEF VolumeInv
  <2>3. ASSUME NEW m \in Cut(pending.percent[Last]),
               saved' = [pending EXCEPT !.percent[Last] = m],
               setSaved' = [setNow EXCEPT ![Last] = 10 * m]
        PROVE  VolumeInv'
    <3>1. m \in Percents
      <4>1. pending.percent[Last] \in Percents
        BY MasterAssumption DEF TypeOK, ProgramTypes, Image
      <4>. QED  BY <4>1, NumberFits
    <3>2. ASSUME NEW c \in Channels PROVE Fits(saved'.percent[c], setSaved'[c])
      <4>1. saved'.percent[c] = IF c = Last THEN m ELSE pending.percent[c]
        BY <2>3 DEF TypeOK, ProgramTypes, Image
      <4>2. setSaved'[c] = IF c = Last THEN 10 * m ELSE setNow[c]
        BY <2>3 DEF TypeOK, FileTypes
      <4>3. Fits(m, 10 * m) /\ Fits(pending.percent[c], setNow[c])
        BY <2>1, <3>1, NumberFits DEF VolumeInv
      <4>. QED  BY <4>1, <4>2, <4>3
    <3>. QED  BY <2>1, <3>2 DEF VolumeInv
  <2>4. CASE UNCHANGED file
    BY <2>1, <2>4 DEF VolumeInv, file
  <2>. QED  BY <1>2, <2>2, <2>3, <2>4 DEF Flush
<1>3. CASE Apply
  BY <1>3 DEF Apply, VolumeInv, Running, file
<1>4. CASE ToggleFullscreen
  <2>1. options'.volume = options.volume /\ setNow' = setNow
    BY <1>4 DEF ToggleFullscreen, TypeOK, ProgramTypes, Options
  <2>2. \A c \in Channels : Derived(options'.volume[c], setNow'[c])
    BY <1>4, <2>1 DEF ToggleFullscreen, VolumeInv, Running
  <2>3. options' \in Options /\ setNow' \in [Channels -> Levels]
    BY DEF TypeOK, ProgramTypes, FileTypes
  <2>4. \A c \in Channels : Fits(ImageOf(options').percent[c], setNow'[c])
    BY <2>2, <2>3, SaveVolumes
  <2>. QED  BY <1>4, <2>2, <2>4, WriteVolumes DEF ToggleFullscreen
<1>5. CASE Exit
  BY <1>5 DEF Exit, VolumeInv, Running, file
<1>6. CASE Edit
  <2>1. ~Running'
    BY <1>6 DEF Edit, Running
  <2>2. CASE saved'.percent = saved.percent /\ setSaved' = setSaved
    BY <2>1, <2>2 DEF VolumeInv
  <2>3. ASSUME NEW c \in Channels, NEW n \in EditedPercents,
               saved' = [saved EXCEPT !.percent[c] = n],
               setSaved' = [setSaved EXCEPT ![c] = 10 * n]
        PROVE  VolumeInv'
    <3>1. ASSUME NEW d \in Channels PROVE Fits(saved'.percent[d], setSaved'[d])
      <4>1. saved'.percent[d] = IF d = c THEN n ELSE saved.percent[d]
        BY <2>3 DEF TypeOK, FileTypes, Image
      <4>2. setSaved'[d] = IF d = c THEN 10 * n ELSE setSaved[d]
        BY <2>3 DEF TypeOK, FileTypes
      <4>3. Fits(n, 10 * n) /\ Fits(saved.percent[d], setSaved[d])
        BY EditedAssumption, NumberFits DEF VolumeInv
      <4>. QED  BY <4>1, <4>2, <4>3
    <3>. QED  BY <2>1, <3>1 DEF VolumeInv
  <2>4. CASE DeleteFile \/ SpoilFile
    BY <2>2, <2>4 DEF DeleteFile, SpoilFile
  <2>5. CASE ChangeFile
    BY <2>2, <2>3, <2>5 DEF ChangeFile, TypeOK, FileTypes, Image
  <2>. QED  BY <1>6, <2>4, <2>5 DEF Edit
<1>7. ASSUME NEW size \in Sizes, SetRes(size) PROVE VolumeInv'
  <2>1. options'.volume = options.volume /\ setNow' = setNow
    BY <1>7 DEF SetRes, TypeOK, ProgramTypes, Options
  <2>2. \A c \in Channels : Derived(options'.volume[c], setNow'[c])
    BY <1>7, <2>1 DEF SetRes, VolumeInv, Running
  <2>3. options' \in Options /\ setNow' \in [Channels -> Levels]
    BY DEF TypeOK, ProgramTypes, FileTypes
  <2>4. \A c \in Channels : Fits(ImageOf(options').percent[c], setNow'[c])
    BY <2>2, <2>3, SaveVolumes
  <2>. QED  BY <1>7, <2>2, <2>4, WriteVolumes DEF SetRes
<1>8. ASSUME NEW c \in Channels, NEW v \in Volumes, SetVolume(c, v) PROVE VolumeInv'
  <2>1. \A d \in Channels \ {c} : options'.volume[d] = options.volume[d]
                                  /\ setNow'[d] = setNow[d]
    BY <1>8 DEF SetVolume, TypeOK, ProgramTypes, FileTypes, Options
  <2>2. options'.volume[c] = Clamp(v) /\ setNow'[c] = Clamp(v)
    BY <1>8 DEF SetVolume, TypeOK, ProgramTypes, FileTypes, Options
  <2>3. \A d \in Channels : Derived(options'.volume[d], setNow'[d])
    <3>1. Derived(options'.volume[c], setNow'[c])
      BY <2>2 DEF Derived
    <3>2. \A d \in Channels \ {c} : Derived(options'.volume[d], setNow'[d])
      BY <1>8, <2>1 DEF SetVolume, VolumeInv, Running
    <3>. QED  BY <3>1, <3>2
  <2>4. options' \in Options /\ setNow' \in [Channels -> Levels]
    BY DEF TypeOK, ProgramTypes, FileTypes
  <2>5. \A d \in Channels : Fits(ImageOf(options').percent[d], setNow'[d])
    BY <2>3, <2>4, SaveVolumes
  <2>. QED  BY <1>8, <2>3, <2>5, WriteVolumes DEF SetVolume
<1>9. CASE UNCHANGED vars
  BY <1>9 DEF vars, VolumeInv, Running, file
<1>. QED  BY <1>1, <1>2, <1>3, <1>4, <1>5, <1>6, <1>7, <1>8, <1>9 DEF Next

(* However often the program is restarted and other options are saved, a   *)
(* volume of at most 100 per cent loses less than two.                     *)
THEOREM SettingsDriftBounded == Spec => []DriftBounded
<1>1. Init => VolumeInv
  BY FirstType DEF Init, VolumeInv, Running
<1>2. TypeOK /\ VolumeInv => DriftBounded
  <2>. SUFFICES ASSUME TypeOK, VolumeInv, NEW c \in Channels, setSaved[c] <= 1000
                PROVE  /\ 10 * saved.percent[c] <= setSaved[c]
                       /\ setSaved[c] - 10 * saved.percent[c] < 20
    BY DEF DriftBounded
  <2>1. Fits(saved.percent[c], setSaved[c])
    BY DEF VolumeInv
  <2>2. saved.percent[c] \in Percents /\ setSaved[c] \in Levels
    BY DEF TypeOK, FileTypes, Image
  <2>3. ASSUME NEW n \in Percents, NEW s \in Levels, Fits(n, s), s <= 1000
        PROVE  10 * n <= s /\ s - 10 * n < 20
    BY <2>3 DEF Fits, Percents, Levels
  <2>. QED  BY <2>1, <2>2, <2>3
<1>. QED  BY <1>1, <1>2, SettingsTypeCorrect, VolumeStep, PTL DEF Spec

-----------------------------------------------------------------------------
(* Restarts *)

LEMMA ImageStep == LossInv /\ ImageInv /\ [Next]_vars => ImageInv'
<1>. SUFFICES ASSUME LossInv, ImageInv, [Next]_vars PROVE ImageInv'
  OBVIOUS
<1>1. CASE Start
  <2>1. CASE disk = "absent" /\ StartWith(DefaultOptions, FirstImage)
             /\ setNow' = DefaultOptions.volume /\ UNCHANGED setSaved
    BY <2>1, FirstType DEF StartWith, Write, ImageInv
  <2>2. CASE disk = "written" /\ StartWith(OptionsOf(saved), saved)
             /\ setNow' = setSaved /\ UNCHANGED setSaved
    BY <2>2 DEF StartWith, Write, ImageInv
  <2>3. CASE disk = "torn" /\ pc' = "failed"
             /\ UNCHANGED <<after, options, pending, file, devices, accidents, setNow, resized>>
    BY <2>3 DEF ImageInv, Running
  <2>. QED  BY <1>1, <2>1, <2>2, <2>3 DEF Start
<1>2. CASE Flush
  <2>1. Running /\ UNCHANGED <<options, pending>>
    BY <1>2 DEF Flush, Running
  <2>2. CASE disk' = Written /\ saved' = pending
    BY <2>1, <2>2 DEF Written, ImageInv
  <2>3. CASE UNCHANGED lost
    BY <1>2, <2>1, <2>3 DEF Flush, LossInv, ImageInv
  <2>. QED  BY <1>2, <2>2, <2>3 DEF Flush
<1>3. CASE Apply
  BY <1>3 DEF Apply, ImageInv, Running, file, accidents
<1>4. CASE ToggleFullscreen
  BY <1>4 DEF ToggleFullscreen, Write, ImageInv
<1>5. CASE Exit
  BY <1>5 DEF Exit, ImageInv, Running
<1>6. CASE Edit
  BY <1>6 DEF Edit, ImageInv, Running
<1>7. ASSUME NEW size \in Sizes, SetRes(size) PROVE ImageInv'
  BY <1>7 DEF SetRes, Write, ImageInv
<1>8. ASSUME NEW c \in Channels, NEW v \in Volumes, SetVolume(c, v) PROVE ImageInv'
  BY <1>8 DEF SetVolume, Write, ImageInv
<1>9. CASE UNCHANGED vars
  BY <1>9 DEF vars, ImageInv, Running, file, accidents
<1>. QED  BY <1>1, <1>2, <1>3, <1>4, <1>5, <1>6, <1>7, <1>8, <1>9 DEF Next

(* While the program runs and its last save was completed, a restart gives *)
(* the options in effect back, a volume lower by one per cent at most.     *)
THEOREM SettingsRestartFaithful == Spec => []RestartFaithful
<1>1. Init => LossInv /\ ImageInv
  BY DEF Init, LossInv, ImageInv, Running
<1>2. TypeOK /\ ImageInv => RestartFaithful
  <2>. SUFFICES ASSUME TypeOK, ImageInv, pc = "running", ~lost PROVE RestartFaithful
    BY DEF RestartFaithful
  <2>. DEFINE again == OptionsOf(saved)
  <2>1. disk = "written" /\ saved = pending
    BY DEF ImageInv
  <2>2. options \in Options /\ saved \in Image
    BY DEF TypeOK, ProgramTypes, FileTypes
  <2>3. \A c \in Channels : again.volume[c] = Quotient(saved.percent[c])
    BY <2>2, OptionsType
  <2>4. \A c \in Channels : options.volume[c] \in Levels
    BY <2>2 DEF Options
  <2>5. CASE pending = ImageOf(options)
    <3>1. \A c \in Channels : again.volume[c] = Quotient(Percent(options.volume[c]))
      BY <2>1, <2>2, <2>3, <2>5, ImageType
    <3>2. \A c \in Channels : /\ again.volume[c] <= options.volume[c]
                              /\ options.volume[c] - again.volume[c] <= 10
      BY <2>4, <3>1, RoundTrip
    <3>3. /\ again.vsync = options.vsync
          /\ again.fullscreen = options.fullscreen
          /\ again.size = options.size
      BY <2>1, <2>5 DEF OptionsOf, ImageOf
    <3>. QED  BY <2>1, <3>2, <3>3 DEF RestartFaithful
  <2>6. CASE options = OptionsOf(pending)
    <3>1. again = options
      BY <2>1, <2>6
    <3>2. \A v \in Levels : v <= v /\ v - v <= 10
      BY DEF Levels
    <3>. QED  BY <2>1, <2>4, <3>1, <3>2 DEF RestartFaithful
  <2>. QED  BY <2>5, <2>6 DEF ImageInv, Running
<1>. QED  BY <1>1, <1>2, SettingsTypeCorrect, LossStep, ImageStep, PTL DEF Spec

-----------------------------------------------------------------------------
(* The device *)

LEMMA DeviceStep == TypeOK /\ DeviceInv /\ [Next]_vars => DeviceInv'
<1>. SUFFICES ASSUME TypeOK, DeviceInv, [Next]_vars PROVE DeviceInv'
  OBVIOUS
<1>1. CASE Start
  <2>1. ASSUME NEW o, NEW image, StartWith(o, image) PROVE DeviceInv'
    <3>1. pc' \in {"writing", "applying"} /\ after' = "start"
      BY <2>1 DEF StartWith, Write
    <3>2. /\ options' = o /\ loudness' = o.volume[Master]
          /\ fullscreen' = FALSE /\ shown' = o.size /\ screen' = o.size
      BY <2>1 DEF StartWith
    <3>. QED  BY <3>1, <3>2 DEF DeviceInv
  <2>2. CASE pc' = "failed"
    BY <2>2 DEF DeviceInv, Running
  <2>. QED  BY <1>1, <2>1, <2>2 DEF Start
<1>2. CASE Flush
  BY <1>2 DEF Flush, DeviceInv, Running, devices, window
<1>3. CASE Apply
  <2>1. options' = options /\ loudness' = loudness /\ pc = "applying" /\ pc' = "running"
    BY <1>3 DEF Apply
  <2>2. loudness' = options'.volume[Master]
    BY <2>1 DEF DeviceInv, Running
  <2>3. SUFFICES /\ interval' = Interval(options)
                 /\ fullscreen' = options.fullscreen
                 /\ ~resized' => screen' = options.size /\ shown' = options.size
    BY <2>1, <2>2 DEF DeviceInv, Interval
  <2>4. CASE Started
    <3>1. /\ fullscreen = FALSE /\ shown = options.size /\ screen = options.size
          /\ interval' = Interval(options)
      BY <2>1, <2>4 DEF Started, DeviceInv, Running
    <3>2. CASE options.fullscreen
      <4>1. fullscreen' = ~fullscreen /\ shown' = screen /\ screen' = screen
        BY <2>4, <3>2 DEF Started, ToggleWindow
      <4>2. options.fullscreen = TRUE
        BY <3>2 DEF TypeOK, ProgramTypes, Options
      <4>. QED  BY <3>1, <4>1, <4>2
    <3>3. CASE ~options.fullscreen
      <4>1. fullscreen' = fullscreen /\ shown' = shown /\ screen' = screen
        BY <2>4, <3>3 DEF Started, window
      <4>2. options.fullscreen = FALSE
        BY <3>3 DEF TypeOK, ProgramTypes, Options
      <4>. QED  BY <3>1, <4>1, <4>2
    <3>. QED  BY <3>2, <3>3
  <2>5. CASE Resized
    BY <2>1, <2>5 DEF Resized, SetWindowSize, DeviceInv, Running
  <2>6. CASE Toggled
    BY <2>1, <2>6 DEF Toggled, ToggleWindow, DeviceInv, Running, TypeOK, ProgramTypes,
                      DeviceTypes, Options
  <2>7. CASE VolumeSet
    BY <2>1, <2>7 DEF VolumeSet, DeviceInv, Running, window
  <2>. QED  BY <1>3, <2>4, <2>5, <2>6, <2>7 DEF Apply
<1>4. CASE ToggleFullscreen
  <2>1. /\ options'.volume = options.volume /\ options'.vsync = options.vsync
        /\ options'.size = options.size /\ options'.fullscreen = ~options.fullscreen
    BY <1>4 DEF ToggleFullscreen, TypeOK, ProgramTypes, Options
  <2>2. pc = "running" /\ pc' \in {"writing", "applying"} /\ after' = "fullscreen"
    BY <1>4 DEF ToggleFullscreen, Write
  <2>3. UNCHANGED <<fullscreen, shown, screen, interval, loudness, resized>>
    BY <1>4 DEF ToggleFullscreen, devices, window
  <2>. QED  BY <2>1, <2>2, <2>3 DEF DeviceInv, Running, Interval
<1>5. CASE Exit
  BY <1>5 DEF Exit, DeviceInv, Running
<1>6. CASE Edit
  BY <1>6 DEF Edit, DeviceInv, Running
<1>7. ASSUME NEW size \in Sizes, SetRes(size) PROVE DeviceInv'
  <2>1. /\ options'.volume = options.volume /\ options'.vsync = options.vsync
        /\ options'.fullscreen = options.fullscreen
    BY <1>7 DEF SetRes, TypeOK, ProgramTypes, Options
  <2>2. pc = "running" /\ pc' \in {"writing", "applying"} /\ after' = "size"
    BY <1>7 DEF SetRes, Write
  <2>3. UNCHANGED <<fullscreen, shown, screen, interval, loudness, resized>>
    BY <1>7 DEF SetRes, devices, window
  <2>. QED  BY <2>1, <2>2, <2>3 DEF DeviceInv, Running, Interval
<1>8. ASSUME NEW c \in Channels, NEW v \in Volumes, SetVolume(c, v) PROVE DeviceInv'
  <2>1. /\ options'.vsync = options.vsync /\ options'.size = options.size
        /\ options'.fullscreen = options.fullscreen
    BY <1>8 DEF SetVolume, TypeOK, ProgramTypes, Options
  <2>2. pc = "running" /\ pc' \in {"writing", "applying"} /\ after' = "none"
    BY <1>8 DEF SetVolume, Write
  <2>3. UNCHANGED <<fullscreen, shown, screen, interval, resized>>
    BY <1>8 DEF SetVolume, window
  <2>4. loudness' = options'.volume[Master]
    <3>1. loudness = options.volume[Master]
      BY <2>2 DEF DeviceInv, Running
    <3>2. options'.volume[Master] = IF c = Master THEN Clamp(v) ELSE options.volume[Master]
      BY <1>8, MasterAssumption DEF SetVolume, TypeOK, ProgramTypes, Options
    <3>. QED  BY <1>8, <3>1, <3>2 DEF SetVolume
  <2>. QED  BY <2>1, <2>2, <2>3, <2>4 DEF DeviceInv, Running, Interval
<1>9. CASE UNCHANGED vars
  BY <1>9 DEF vars, DeviceInv, Running, Interval, devices, window
<1>. QED  BY <1>1, <1>2, <1>3, <1>4, <1>5, <1>6, <1>7, <1>8, <1>9 DEF Next

(* Across starts, toggles, resizes and failed saves, the window and the    *)
(* audio device show the options in effect, except for a resolution that   *)
(* was chosen in fullscreen.                                               *)
THEOREM SettingsDeviceFollows == Spec => []DeviceFollows
<1>1. Init => DeviceInv
  BY DEF Init, DeviceInv, Running
<1>2. DeviceInv => DeviceFollows
  BY DEF DeviceInv, DeviceFollows, Running
<1>. QED  BY <1>1, <1>2, SettingsTypeCorrect, DeviceStep, PTL DEF Spec

-----------------------------------------------------------------------------
(* All the parts of the invariant hold together, for every sequence of     *)
(* saves, failures, ends of the program and restarts.                      *)
THEOREM SettingsInvariant == Spec => []SInv
<1>1. Init => VolumeInv /\ LossInv /\ ImageInv /\ DeviceInv
  BY FirstType DEF Init, VolumeInv, LossInv, ImageInv, DeviceInv, Running
<1>2. TypeOK /\ VolumeInv /\ ImageInv /\ LossInv /\ DeviceInv => SInv
  BY DEF SInv
<1>. QED
  BY <1>1, <1>2, SettingsTypeCorrect, VolumeStep, LossStep, ImageStep, DeviceStep, PTL
  DEF Spec
=============================================================================
