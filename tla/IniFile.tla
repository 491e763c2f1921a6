------------------------------- MODULE IniFile -------------------------------
(***************************************************************************)
(* mINI, with which Settings reads and writes settings.ini: INIReader,     *)
(* INIGenerator and the "lazy" INIWriter, which rewrites the lines of the  *)
(* old file and keeps what it does not understand to be the program's.     *)
(*                                                                         *)
(* A line is what INIParser::parseLine makes of it: its spacing, the case  *)
(* of its names and the escape of = are left out, and a line of spaces is  *)
(* a comment without text.  A crash in the middle of a write is the        *)
(* subject of Settings; here a write is done.                              *)
(***************************************************************************)
EXTENDS IniMap

CONSTANTS
  Sections, Keys, Values,  \* names and values as they come back from a file
  Comments,                \* texts of comment lines
  NoFile,                  \* there is no file
  MaxLines,                \* bound: the player's files are no longer
  MaxEdits                 \* bound: changes between opening and writing

ASSUME BoundAssumption == MaxLines \in Nat /\ MaxEdits \in Nat

VARIABLES
  pc,     \* "off", or the program holds a structure: "open"
  file,   \* the lines of the file, or NoFile
  ini,    \* the INIStructure
  edits,  \* changes made to it
  \* history
  stored  \* the values that a reader of the file gets

vars == <<pc, file, ini, edits, stored>>

Header(s)     == [kind |-> "section", name |-> s]
KeyLine(k, v) == [kind |-> "keyvalue", key |-> k, value |-> v]
Comment(c)    == [kind |-> "comment", text |-> c]
Blank         == [kind |-> "none"]
Unknown       == [kind |-> "unknown"]

Lines == {Header(s) : s \in Sections}
         \cup {KeyLine(k, v) : k \in Keys, v \in Values}
         \cup {Comment(c) : c \in Comments} \cup {Blank, Unknown}

ASSUME NoFileAssumption == NoFile \notin Seq(Lines)

(* The text of a single empty line is that of no line at all. *)
Text(lines) == IF lines = <<Blank>> THEN <<>> ELSE lines

(* The elements of a sequence that are in S: SelectSeq by a set. *)
Filter(seq, S) ==
  LET kept[i \in 0 .. Len(seq)] ==
        IF i = 0 THEN <<>>
        ELSE IF seq[i] \in S THEN Append(kept[i - 1], seq[i]) ELSE kept[i - 1]
  IN  kept[Len(seq)]

-----------------------------------------------------------------------------
(* INIReader: operator>> *)

(* T& operator[](key) on a structure: an unknown section comes into being. *)
Touch(m, s) == IF Has(m, s) THEN m ELSE Insert(m, s, EmptyMap)

SetValue(m, s, k, v) == Put(m, s, Put(Get(Touch(m, s), s), k, v))

(* One line read.  Keys above the first header belong to no section; they  *)
(* and lines of no known kind are not kept for the writer either.          *)
MutantInNoSection(st) == TRUE
InSection(st) == st.inSection

ReadLine(st, line) ==
  CASE line.kind = "section" ->
         [st EXCEPT !.data = Touch(@, line.name), !.section = line.name,
                    !.inSection = TRUE, !.lines = Append(@, line)]
    [] line.kind = "keyvalue" /\ InSection(st) ->
         [st EXCEPT !.data = SetValue(@, st.section, line.key, line.value),
                    !.lines = Append(@, line)]
    [] line.kind \in {"comment", "none"} -> [st EXCEPT !.lines = Append(@, line)]
    [] OTHER -> st

NothingRead ==
  [data |-> EmptyMap, section |-> "", inSection |-> FALSE, lines |-> <<>>]

(* The reader after i lines. *)
Reading(lines) ==
  LET after[i \in 0 .. Len(lines)] ==
        IF i = 0 THEN NothingRead ELSE ReadLine(after[i - 1], lines[i])
  IN  after
Read(lines) == Reading(lines)[Len(lines)]

(* The structure a program gets that reads the file. *)
LinesOf(f) == IF f = NoFile THEN <<>> ELSE f
Parse(f)   == Read(LinesOf(f)).data

-----------------------------------------------------------------------------
(* INIWriter::getLazyOutput *)

KeyLines(m) == [i \in DOMAIN m.data |-> KeyLine(m.data[i].key, m.data[i].value)]

(* The keys of a section that the file does not have yet, in order. *)
MutantAllKeys(s, data, original) ==
  IF Has(data, s) /\ Has(original, s) THEN KeyLines(Get(data, s)) ELSE <<>>
NewKeys(s, data, original) ==
  IF Has(data, s) /\ Has(original, s)
  THEN Filter(KeyLines(Get(data, s)),
              {KeyLine(k, v) : k \in Keys \ DOMAIN Get(original, s).index, v \in Values})
  ELSE <<>>

(* They go below the last key of the section they belong to. *)
MutantOverwrite(st, data, original) ==
  LET new == NewKeys(st.section, data, original)
  IN  [st EXCEPT !.out = SubSeq(@, 1, st.lastKey) \o new
                         \o SubSeq(@, st.lastKey + 1 + Len(new), Len(@))]
AddNewKeys(st, data, original) ==
  [st EXCEPT !.out = SubSeq(@, 1, st.lastKey)
                     \o NewKeys(st.section, data, original)
                     \o SubSeq(@, st.lastKey + 1, Len(@))]

(* A header ends the section above it, which gets its new keys first.  A   *)
(* section the structure has not goes, with its keys and the first empty   *)
(* line after it.                                                          *)
MutantKeepSkipping(st, line, data) ==
  IF Has(data, line.name)
  THEN [st EXCEPT !.out = Append(@, line), !.section = line.name,
                  !.parsing = TRUE, !.discard = FALSE, !.lastKey = Len(st.out) + 1]
  ELSE [st EXCEPT !.section = line.name, !.parsing = FALSE, !.skipping = TRUE,
                  !.discard = TRUE]
WriteHeader(st, line, data) ==
  IF Has(data, line.name)
  THEN [st EXCEPT !.out = Append(@, line), !.section = line.name,
                  !.parsing = TRUE, !.skipping = FALSE, !.discard = FALSE,
                  !.lastKey = Len(st.out) + 1]
  ELSE [st EXCEPT !.section = line.name, !.parsing = FALSE, !.skipping = TRUE,
                  !.discard = TRUE]

Kept(st, line, data) ==
  ~st.skipping /\ Has(data, st.section) /\ Has(Get(data, st.section), line.key)

ValueIn(st, key, data) == Get(Get(data, st.section), key)

MutantWriteKey(st, line, data) ==
  IF Kept(st, line, data)
  THEN [st EXCEPT !.out = Append(@, KeyLine(line.key, ValueIn(st, line.key, data)))]
  ELSE st
WriteKey(st, line, data) ==
  IF Kept(st, line, data)
  THEN [st EXCEPT !.out = Append(@, KeyLine(line.key, ValueIn(st, line.key, data))),
                  !.lastKey = Len(st.out) + 1]
  ELSE st

WriteLine(st, line, data, original) ==
  CASE line.kind = "section" ->
         WriteHeader(IF st.parsing THEN AddNewKeys(st, data, original) ELSE st,
                     line, data)
    [] line.kind = "keyvalue" -> WriteKey(st, line, data)
    [] line.kind = "none" /\ st.discard -> [st EXCEPT !.discard = FALSE]
    [] OTHER -> [st EXCEPT !.out = Append(@, line)]

(* The sections that a file does not have, each with all its keys. *)
NewSections(data, original) ==
  LET out[i \in 0 .. Len(data.data)] ==
        IF i = 0 THEN <<>>
        ELSE IF Has(original, data.data[i].key) THEN out[i - 1]
        ELSE out[i - 1] \o <<Header(data.data[i].key)>> \o KeyLines(data.data[i].value)
  IN  out[Len(data.data)]

NothingWritten ==
  [out |-> <<>>, section |-> "", parsing |-> FALSE, skipping |-> FALSE,
   discard |-> FALSE, lastKey |-> 0]

(* The writer after i of the old lines. *)
Writing(lines, data, original) ==
  LET after[i \in 0 .. Len(lines)] ==
        IF i = 0 THEN NothingWritten
        ELSE WriteLine(after[i - 1], lines[i], data, original)
  IN  after

(* The last line ends its section too.  When the loop leaves that line by  *)
(* "continue", the section is not in the structure and has no new keys.    *)
LazyOutput(lines, data, original) ==
  AddNewKeys(Writing(lines, data, original)[Len(lines)], data, original).out
  \o NewSections(data, original)

(* INIWriter << data.  With no file, INIGenerator writes what getLazyOutput *)
(* makes of an empty one: every section with its keys.                     *)
Written(f, data) ==
  Text(LazyOutput(Read(LinesOf(f)).lines, data, Parse(f)))

-----------------------------------------------------------------------------
(* A structure as what it stands for. *)
AsStore(m) == [s \in DOMAIN m.index |-> AsFunction(Get(m, s))]

Becomes(f) == file' = f /\ stored' = AsStore(Parse(f))

Init ==
  /\ pc = "off" /\ file = NoFile /\ ini = EmptyMap /\ edits = 0
  /\ stored = AsStore(EmptyMap)

(* The player deletes the file, or writes one line of it more. *)
Player ==
  /\ pc = "off"
  /\ \/ Becomes(NoFile)
     \/ /\ Len(LinesOf(file)) < MaxLines
        /\ \E line \in Lines, i \in 1 .. Len(LinesOf(file)) + 1 :
             Becomes(Text(Seqs!InsertAt(LinesOf(file), i, line)))
  /\ UNCHANGED <<pc, ini, edits>>

(* A structure is read from the file, as in Settings::_init, or is new, as *)
(* in _saveSettings.                                                       *)
Open ==
  /\ pc = "off" /\ pc' = "open"
  /\ Len(LinesOf(file)) <= MaxLines
  /\ ini' \in {Parse(file), EmptyMap}
  /\ edits' = 0
  /\ UNCHANGED <<file, stored>>

Change(m) ==
  /\ pc = "open" /\ edits < MaxEdits
  /\ ini' = m /\ edits' = edits + 1
  /\ UNCHANGED <<pc, file, stored>>

(* ini[s][k] = v *)
Set(s, k, v) == Change(SetValue(ini, s, k, v))

RemoveKey(s, k) == Has(ini, s) /\ Change(Put(ini, s, Remove(Get(ini, s), k)))

RemoveSection(s) == Change(Remove(ini, s))

(* INIFile::write(ini) *)
Write ==
  /\ pc = "open" /\ pc' = "off"
  /\ Becomes(Written(file, ini))
  /\ ini' = EmptyMap /\ edits' = 0

Next ==
  \/ Player \/ Open \/ Write
  \/ \E s \in Sections :
       \/ RemoveSection(s)
       \/ \E k \in Keys : RemoveKey(s, k) \/ \E v \in Values : Set(s, k, v)

Spec == Init /\ [][Next]_vars

-----------------------------------------------------------------------------
(* Properties *)

StructureType(m) ==
  /\ DOMAIN m.index \subseteq Sections
  /\ \A i \in DOMAIN m.data :
       LET keys == m.data[i].value IN
       /\ DOMAIN keys.index \subseteq Keys
       /\ \A j \in DOMAIN keys.data : keys.data[j].value \in Values

TypeOK ==
  /\ pc \in {"off", "open"} /\ edits \in 0 .. MaxEdits
  /\ file = NoFile \/ \A i \in DOMAIN file : file[i] \in Lines
  /\ StructureType(ini)

(* However keys and sections are set and removed, every index leads to the *)
(* entry of its key: what a reader asks for is what was last assigned.     *)
IndexSound ==
  Sound(ini) /\ \A i \in DOMAIN ini.data : Sound(ini.data[i].value)

(* The file is a store: what a program writes is what the next one reads,  *)
(* whatever lines the file had, headers and keys given twice included.     *)
Store == INSTANCE IniStore WITH
  held <- AsStore(ini), open <- pc = "open"

StoreImplemented == Store!Spec

(* "preserves custom formatting and comments": every comment of the file   *)
(* is still there after a write, in its order, those of sections that were *)
(* removed included.                                                       *)
CommentsIn(f) == Filter(LinesOf(f), {Comment(c) : c \in Comments})

CommentsKept == [][Write => CommentsIn(file') = CommentsIn(file)]_vars

(* "Section and key order is preserved on read, write and insert": a       *)
(* structure that came from the file and was changed or added to is read   *)
(* back in its own order, unless the file names a section twice.           *)
HeadersOf(f) == SelectSeq(LinesOf(f), LAMBDA l : l.kind = "section")
SectionsOnce(f) ==
  \A i, j \in DOMAIN HeadersOf(f) : HeadersOf(f)[i] = HeadersOf(f)[j] => i = j

Extends(m, old) ==
  /\ Seqs!IsPrefix(KeysOf(old), KeysOf(m))
  /\ \A s \in DOMAIN old.index : Seqs!IsPrefix(KeysOf(Get(old, s)), KeysOf(Get(m, s)))

OrderKept ==
  [][Write /\ SectionsOnce(file) /\ Extends(ini, Parse(file)) => Parse(file') = ini]_vars

(* A second save of the same structure leaves the file as it is.           *)
SaveIdempotent == [][Write => Written(file', ini) = file']_vars
=============================================================================
