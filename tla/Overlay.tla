------------------------------- MODULE Overlay -------------------------------
(***************************************************************************)
(* The debug overlay and what it is built on: raylib's TextFormat with its *)
(* ring of static buffers, the font cache, the log and the lines that      *)
(* GameState::drawUI, UI::drawDebugInfo and GameState::handleInput add to  *)
(* it in every frame.  All of it is one thread; the hazard is the lifetime *)
(* of the pointers TextFormat returns across the calls made before they    *)
(* are read.                                                               *)
(*                                                                         *)
(* A text is represented by its measured width, a pointer to a text by     *)
(* <<"literal", text>> or <<"buffer", slot>>.  Only one font, of one size, *)
(* is ever asked for, so a cache entry is its key.                         *)
(***************************************************************************)
EXTENDS Naturals, Sequences

CONSTANTS
  Texts,     \* widths of the texts lines are made of
  FontText,  \* the text Fonts::_getFont formats: file name and size
  PathText,  \* the text LevelManager::loadLevel formats first: the file name
  Buffers,   \* MAX_TEXTFORMAT_BUFFERS
  MaxLines   \* bound: lines drawUI and drawDebugInfo add in one frame

ASSUME BuffersAssumption == Buffers \in Nat \ {0}
ASSUME LinesAssumption   == MaxLines \in Nat
ASSUME TextsAssumption   == Texts \cup {FontText, PathText} \subseteq Nat
ASSUME FontAssumption    == {FontText, PathText} \cap Texts = {} /\ FontText # PathText

VARIABLES
  pc,                \* the part of the frame that runs next
  ring,              \* TextFormat's static buffers and the index of the next one
  fontKeys,          \* the pointers Fonts::_fonts is keyed by (slots of the ring)
  filename,          \* LevelData::filename, a pointer into the ring
  lines,             \* Log::lines
  headerWidth, longestLineWidth,
  shown,             \* Configuration::showGameStats, toggled by F11
  meant,             \* history: the lines as the callers meant them
  drawn              \* lines added since the frame began

log  == <<lines, headerWidth, longestLineWidth, meant>>
vars == <<pc, ring, fontKeys, filename, log, shown, drawn>>

Slots == 0 .. Buffers - 1
Larger(m, n) == IF m > n THEN m ELSE n

TypeOK ==
  /\ pc \in {"load", "ui", "reset", "keys"}
  /\ ring \in [buffer : [Slots -> Nat], next : Slots]
  /\ fontKeys \subseteq Slots /\ filename \in Slots
  /\ lines \in Seq(Nat \X Nat) /\ meant \in Seq(Nat \X Nat)
  /\ headerWidth \in Nat /\ longestLineWidth \in Nat /\ drawn \in Nat
  /\ shown \in BOOLEAN

Init ==
  /\ pc = "load"
  /\ ring = [buffer |-> [s \in Slots |-> 0], next |-> 0]
  /\ fontKeys = {} /\ filename = 0
  /\ lines = <<>> /\ headerWidth = 0 /\ longestLineWidth = 0
  /\ shown = FALSE /\ meant = <<>> /\ drawn = 0

-----------------------------------------------------------------------------
(* TextFormat: the result is written to the next buffer, and a pointer to  *)
(* that buffer returned.                                                   *)

MutantNextSlotOfTwo(s) == (s + 1) % 2
MutantNextSlotLate(s) == IF s + 1 > Buffers THEN 0 ELSE s + 1
NextSlot(s) == IF s + 1 >= Buffers THEN 0 ELSE s + 1

TextFormat(r, text) ==
  [buffer |-> [r.buffer EXCEPT ![r.next] = text], next |-> NextSlot(r.next)]

(* What a pointer refers to when it is read. *)
Deref(r, p) == IF p[1] = "buffer" THEN r.buffer[p[2]] ELSE p[2]

(* Fonts::_getFont: the key is formatted, the pointer to it looked up, and *)
(* the font loaded under that pointer when it is not there.                *)
GetFont(r) == TextFormat(r, FontText)
FontKey(r) == r.next

(* Log::_addLine, called with pointers h and v after the arguments were    *)
(* formatted (r): the font is fetched first, then both texts are measured  *)
(* and copied.                                                             *)
AddLine(r, h, v) ==
  LET after  == GetFont(r)
      header == Deref(after, h)
      line   == Deref(after, v)
  IN  /\ ring' = after
      /\ fontKeys' = fontKeys \cup {FontKey(r)}
      /\ lines' = Append(lines, <<header, line>>)
      /\ headerWidth' = Larger(header, headerWidth)
      /\ longestLineWidth' = Larger(line, longestLineWidth)

(* The kinds of call the code makes.  Arguments are formatted before the   *)
(* call, in an order the language leaves open.                             *)
AddText(h, v) ==
  AddLine(ring, <<"literal", h>>, <<"literal", v>>)

AddValue(h, v) ==
  AddLine(TextFormat(ring, v), <<"literal", h>>, <<"buffer", ring.next>>)

AddBoth(h, v) ==
  LET second == NextSlot(ring.next)
  IN  \/ AddLine(TextFormat(TextFormat(ring, h), v),
                 <<"buffer", ring.next>>, <<"buffer", second>>)
      \/ AddLine(TextFormat(TextFormat(ring, v), h),
                 <<"buffer", second>>, <<"buffer", ring.next>>)

(* A vector's str() formats two numbers and copies them into a string of   *)
(* its own, which lives until the line has been added.                     *)
AddVector(h, v) ==
  AddLine(TextFormat(TextFormat(ring, v), v), <<"literal", h>>, <<"literal", v>>)

-----------------------------------------------------------------------------
(* LevelManager::loadLevel: the path, then four messages for the trace log *)
(* (loading, size, floor, decor); the pointer to the path is kept.         *)
Trace(r, message) == TextFormat(TextFormat(r, message), message)

LoadLevel(r) ==
  /\ filename' = r.next
  /\ \E message \in Texts :
       ring' = Trace(Trace(TextFormat(r, PathText), message), message)

(* GameState::load: the font, then resetGame, which loads the level. *)
Load ==
  /\ pc = "load" /\ pc' = "ui"
  /\ fontKeys' = fontKeys \cup {FontKey(ring)}
  /\ LoadLevel(GetFont(ring))
  /\ UNCHANGED <<log, shown, drawn>>

(* drawUI and UI::drawDebugInfo while the statistics are shown: lines of   *)
(* every kind.  drawDebugInfo also fetches the font it draws with.         *)
DebugLine ==
  /\ pc = "ui" /\ shown /\ drawn < MaxLines
  /\ \E h, v \in Texts :
       /\ AddText(h, v) \/ AddValue(h, v) \/ AddBoth(h, v) \/ AddVector(h, v)
       /\ meant' = Append(meant, <<h, v>>)
  /\ drawn' = drawn + 1
  /\ UNCHANGED <<pc, filename, shown>>

DebugFont ==
  /\ pc = "ui" /\ shown
  /\ ring' = GetFont(ring) /\ fontKeys' = fontKeys \cup {FontKey(ring)}
  /\ UNCHANGED <<pc, filename, log, shown, drawn>>

DebugDone ==
  /\ pc = "ui" /\ pc' = "reset"
  /\ UNCHANGED <<ring, fontKeys, filename, log, shown, drawn>>

(* Log::resetLog, called by drawUI in every frame, shown or not. *)
MutantResetKeepsWidths ==
  lines' = <<>> /\ meant' = <<>> /\ UNCHANGED <<headerWidth, longestLineWidth>>
MutantResetWhenShown ==
  IF shown THEN lines' = <<>> /\ meant' = <<>> /\ headerWidth' = 0 /\ longestLineWidth' = 0
           ELSE UNCHANGED log
ResetLog ==
  lines' = <<>> /\ meant' = <<>> /\ headerWidth' = 0 /\ longestLineWidth' = 0

(* The end of drawUI: the log is reset; KEY_N loads the level again. *)
Reset ==
  /\ pc = "reset" /\ pc' = "keys"
  /\ ResetLog
  /\ LoadLevel(ring) \/ UNCHANGED <<ring, filename>>
  /\ UNCHANGED <<fontKeys, shown, drawn>>

(* handleInput adds the camera's line, after the reset: it is drawn in the *)
(* next frame.  Then F11 may toggle the overlay and the frame ends.        *)
HandleInput ==
  /\ pc = "keys" /\ pc' = "ui"
  /\ \E h, v \in Texts : AddVector(h, v) /\ meant' = Append(meant, <<h, v>>)
  /\ shown' \in BOOLEAN
  /\ drawn' = 0
  /\ UNCHANGED filename

Next == Load \/ DebugLine \/ DebugFont \/ DebugDone \/ Reset \/ HandleInput

Spec == Init /\ [][Next]_vars

-----------------------------------------------------------------------------
(* Properties *)

(* Every line of the log reads as its caller meant it: no buffer is used   *)
(* again between the formatting of an argument and its copy into the log,  *)
(* in spite of the buffer that Log::_addLine itself takes for the font.    *)
LinesIntact == lines = meant

(* The two widths that size the overlay's background are those of the      *)
(* lines that are in the log, never of lines that are gone.                *)
WidthsOfLines ==
  LET widest(column) == LET w == {lines[i][column] : i \in DOMAIN lines} \cup {0}
                        IN  CHOOSE m \in w : \A n \in w : n <= m
  IN  headerWidth = widest(1) /\ longestLineWidth = widest(2)

(* The log does not grow while the overlay is hidden: it never holds more  *)
(* than one frame's lines and the camera's line of the frame before.       *)
LogBounded == Len(lines) <= MaxLines + 1

(* rtext.c, "String returned will expire after this function is called     *)
(* MAX_TEXTFORMAT_BUFFERS times": a pointer that is still in use as a key  *)
(* of the font cache refers to the text it was made for.                   *)
FontKeysUnexpired == \A key \in fontKeys : ring.buffer[key] = FontText
=============================================================================
