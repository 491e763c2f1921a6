---------------------------- MODULE OverlayProofs ----------------------------
(***************************************************************************)
(* Three buffers are enough for the overlay: with at least three, every    *)
(* line of the log reads as it was meant, whatever the texts, the number   *)
(* of lines and the order in which arguments are formatted.  The widths    *)
(* are those of the lines, and the log is bounded by a frame's lines.      *)
(***************************************************************************)
EXTENDS Overlay, TLAPS

Rings == [buffer : [Slots -> Nat], next : Slots]

(* Formatting keeps the ring a ring, writes the text where the returned    *)
(* pointer points, and leaves every other buffer alone.                    *)
LEMMA TextFormatFacts ==
  ASSUME NEW r \in Rings, NEW text \in Nat
  PROVE  /\ TextFormat(r, text) \in Rings
         /\ TextFormat(r, text).next = NextSlot(r.next)
         /\ TextFormat(r, text).buffer[r.next] = text
         /\ \A s \in Slots \ {r.next} : TextFormat(r, text).buffer[s] = r.buffer[s]
<1>1. NextSlot(r.next) \in Slots
  BY BuffersAssumption DEF Rings, Slots, NextSlot
<1>. QED  BY <1>1 DEF TextFormat, Rings

LEMMA OtherSlotsKept ==
  ASSUME NEW r \in Rings, NEW text \in Nat, NEW s \in Slots, s # r.next
  PROVE  TextFormat(r, text).buffer[s] = r.buffer[s]
BY TextFormatFacts

LEMMA TextsAreNat == Texts \subseteq Nat /\ FontText \in Nat /\ PathText \in Nat
BY TextsAssumption

(* What one call of Log::_addLine appends, given that the two pointers     *)
(* will read as h and v once the font's key has been formatted.            *)
LEMMA AddLineFacts ==
  ASSUME NEW r \in Rings, NEW p, NEW q, NEW h \in Nat, NEW v \in Nat,
         Deref(GetFont(r), p) = h, Deref(GetFont(r), q) = v,
         AddLine(r, p, q), TypeOK
  PROVE  /\ lines' = Append(lines, <<h, v>>) /\ ring' \in Rings
         /\ fontKeys' \subseteq Slots
         /\ headerWidth' = Larger(h, headerWidth)
         /\ longestLineWidth' = Larger(v, longestLineWidth)
<1>1. GetFont(r) \in Rings /\ FontKey(r) \in Slots
  BY TextFormatFacts, TextsAreNat DEF GetFont, FontKey, Rings
<1>. QED  BY <1>1 DEF AddLine, TypeOK

(* Every kind of call logs the line it means to. *)
LEMMA CallFacts ==
  ASSUME Buffers >= 3, TypeOK, NEW h \in Nat, NEW v \in Nat,
         AddText(h, v) \/ AddValue(h, v) \/ AddBoth(h, v) \/ AddVector(h, v)
  PROVE  /\ lines' = Append(lines, <<h, v>>) /\ ring' \in Rings
         /\ fontKeys' \subseteq Slots
         /\ headerWidth' = Larger(h, headerWidth)
         /\ longestLineWidth' = Larger(v, longestLineWidth)
<1>. DEFINE Result == /\ lines' = Append(lines, <<h, v>>) /\ ring' \in Rings
                      /\ fontKeys' \subseteq Slots
                      /\ headerWidth' = Larger(h, headerWidth)
                      /\ longestLineWidth' = Larger(v, longestLineWidth)
            first  == ring.next
            second == NextSlot(first)
            third  == NextSlot(second)
<1>1. ring \in Rings /\ first \in Slots
  BY DEF TypeOK, Rings
<1>2. second \in Slots /\ first # second /\ third \notin {first, second}
  BY <1>1, BuffersAssumption DEF Slots, NextSlot
<1>3. CASE AddText(h, v)
  <2>1. Deref(GetFont(ring), <<"literal", h>>) = h
        /\ Deref(GetFont(ring), <<"literal", v>>) = v
    BY DEF Deref
  <2>. QED  BY <1>1, <1>3, <2>1, AddLineFacts DEF AddText
<1>4. CASE AddValue(h, v)
  <2>. DEFINE r == TextFormat(ring, v)
  <2>1. r \in Rings /\ r.next = second /\ r.buffer[first] = v
    BY <1>1, TextFormatFacts
  <2>2. GetFont(r).buffer[first] = v
    <3>. HIDE DEF r
    <3>1. TextFormat(r, FontText).buffer[first] = r.buffer[first]
      BY <1>1, <1>2, <2>1, OtherSlotsKept, TextsAreNat
    <3>. QED  BY <2>1, <3>1 DEF GetFont
  <2>3. Deref(GetFont(r), <<"literal", h>>) = h /\ Deref(GetFont(r), <<"buffer", first>>) = v
    BY <2>2 DEF Deref
  <2>4. AddLine(r, <<"literal", h>>, <<"buffer", first>>)
    BY <1>4 DEF AddValue
  <2>. HIDE DEF r
  <2>. QED  BY <2>1, <2>3, <2>4, AddLineFacts
<1>5. ASSUME NEW a \in Nat, NEW b \in Nat
      PROVE  LET r == TextFormat(TextFormat(ring, a), b)
             IN  /\ r \in Rings
                 /\ Deref(GetFont(r), <<"buffer", first>>) = a
                 /\ Deref(GetFont(r), <<"buffer", second>>) = b
  <2>. DEFINE r1 == TextFormat(ring, a)
              r == TextFormat(r1, b)
  <2>1. r1 \in Rings /\ r1.next = second /\ r1.buffer[first] = a
    BY <1>1, TextFormatFacts
  <2>. HIDE DEF r1
  <2>2. r \in Rings /\ r.next = third /\ r.buffer[second] = b /\ r.buffer[first] = a
    <3>1. r \in Rings /\ r.next = third /\ r.buffer[second] = b
      BY <2>1, TextFormatFacts
    <3>2. r.buffer[first] = r1.buffer[first]
      BY <1>1, <1>2, <2>1, OtherSlotsKept
    <3>. QED  BY <2>1, <3>1, <3>2
  <2>. HIDE DEF r
  <2>3. GetFont(r).buffer[first] = a /\ GetFont(r).buffer[second] = b
    <3>1. TextFormat(r, FontText).buffer[first] = r.buffer[first]
      BY <1>1, <1>2, <2>2, OtherSlotsKept, TextsAreNat
    <3>2. TextFormat(r, FontText).buffer[second] = r.buffer[second]
      BY <1>1, <1>2, <2>2, OtherSlotsKept, TextsAreNat
    <3>. QED  BY <2>2, <3>1, <3>2 DEF GetFont
  <2>4. Deref(GetFont(r), <<"buffer", first>>) = a /\ Deref(GetFont(r), <<"buffer", second>>) = b
    BY <2>3 DEF Deref
  <2>. QED  BY <2>2, <2>4 DEF r, r1
<1>6. CASE AddBoth(h, v)
  <2>1. CASE AddLine(TextFormat(TextFormat(ring, h), v), <<"buffer", first>>, <<"buffer", second>>)
    BY <1>5, <2>1, AddLineFacts
  <2>2. CASE AddLine(TextFormat(TextFormat(ring, v), h), <<"buffer", second>>, <<"buffer", first>>)
    BY <1>5, <2>2, AddLineFacts
  <2>. QED  BY <1>6, <2>1, <2>2 DEF AddBoth
<1>7. CASE AddVector(h, v)
  <2>. DEFINE r == TextFormat(TextFormat(ring, v), v)
  <2>1. r \in Rings
    BY <1>5
  <2>2. Deref(GetFont(r), <<"literal", h>>) = h /\ Deref(GetFont(r), <<"literal", v>>) = v
    BY DEF Deref
  <2>3. AddLine(r, <<"literal", h>>, <<"literal", v>>)
    BY <1>7 DEF AddVector
  <2>. HIDE DEF r
  <2>. QED  BY <2>1, <2>2, <2>3, AddLineFacts
<1>. QED  BY <1>3, <1>4, <1>6, <1>7

LEMMA LoadLevelFacts ==
  ASSUME NEW r \in Rings, LoadLevel(r)
  PROVE  ring' \in Rings /\ filename' \in Slots
<1>1. PICK m \in Texts : ring' = Trace(Trace(TextFormat(r, PathText), m), m)
  BY DEF LoadLevel
<1>2. m \in Nat
  BY TextsAreNat
<1>3. \A q \in Rings : Trace(q, m) \in Rings
  BY <1>2, TextFormatFacts DEF Trace
<1>4. TextFormat(r, PathText) \in Rings
  BY TextFormatFacts, TextsAreNat
<1>. QED  BY <1>1, <1>3, <1>4 DEF LoadLevel, Rings

(* The overlay's state keeps its type and the log its lines. *)
Inv == TypeOK /\ LinesIntact

LEMMA InvStep ==
  ASSUME Buffers >= 3, Inv, [Next]_vars
  PROVE  Inv'
<1>. USE DEF Inv, LinesIntact
<1>0. ring \in Rings
  BY DEF TypeOK, Rings
<1>1. CASE Load
  <2>1. GetFont(ring) \in Rings /\ FontKey(ring) \in Slots
    BY <1>0, TextFormatFacts, TextsAreNat DEF GetFont, FontKey, Rings
  <2>. QED  BY <1>1, <2>1, LoadLevelFacts DEF Load, TypeOK, Rings, log
<1>2. CASE DebugLine
  <2>1. PICK h \in Texts, v \in Texts :
           /\ AddText(h, v) \/ AddValue(h, v) \/ AddBoth(h, v) \/ AddVector(h, v)
           /\ meant' = Append(meant, <<h, v>>)
    BY <1>2 DEF DebugLine
  <2>2. h \in Nat /\ v \in Nat
    BY TextsAreNat
  <2>3. /\ lines' = Append(lines, <<h, v>>) /\ ring' \in Rings
        /\ fontKeys' \subseteq Slots
        /\ headerWidth' = Larger(h, headerWidth)
        /\ longestLineWidth' = Larger(v, longestLineWidth)
    BY <2>1, <2>2, CallFacts
  <2>. QED  BY <1>2, <2>1, <2>2, <2>3 DEF DebugLine, TypeOK, Rings, Larger
<1>3. CASE DebugFont
  <2>1. GetFont(ring) \in Rings /\ FontKey(ring) \in Slots
    BY <1>0, TextFormatFacts, TextsAreNat DEF GetFont, FontKey, Rings
  <2>. QED  BY <1>3, <2>1 DEF DebugFont, TypeOK, Rings, log
<1>4. CASE DebugDone
  BY <1>4 DEF DebugDone, TypeOK, log
<1>5. CASE Reset
  <2>1. ring' \in Rings /\ filename' \in Slots
    BY <1>0, <1>5, LoadLevelFacts DEF Reset, TypeOK
  <2>. QED  BY <1>5, <2>1 DEF Reset, ResetLog, TypeOK, Rings
<1>6. CASE HandleInput
  <2>1. PICK h \in Texts, v \in Texts :
           AddVector(h, v) /\ meant' = Append(meant, <<h, v>>)
    BY <1>6 DEF HandleInput
  <2>2. h \in Nat /\ v \in Nat
    BY TextsAreNat
  <2>3. /\ lines' = Append(lines, <<h, v>>) /\ ring' \in Rings
        /\ fontKeys' \subseteq Slots
        /\ headerWidth' = Larger(h, headerWidth)
        /\ longestLineWidth' = Larger(v, longestLineWidth)
    BY <2>1, <2>2, CallFacts
  <2>. QED  BY <1>6, <2>1, <2>2, <2>3 DEF HandleInput, TypeOK, Rings, Larger
<1>7. CASE UNCHANGED vars
  BY <1>7 DEF vars, log, TypeOK
<1>. QED  BY <1>1, <1>2, <1>3, <1>4, <1>5, <1>6, <1>7 DEF Next

(* Init and the steps, for the theorems. *)
LEMMA InvAlways ==
  ASSUME Buffers >= 3
  PROVE  Spec => []Inv
<1>1. Init => Inv
  BY BuffersAssumption DEF Init, Inv, TypeOK, LinesIntact, Slots
<1>2. Inv /\ [Next]_vars => Inv'
  BY InvStep
<1>. QED  BY <1>1, <1>2, PTL DEF Spec

(* With three buffers or more, the log shows what was logged: raylib's     *)
(* four leave one to spare.                                                *)
THEOREM ThreeBuffersSuffice ==
  ASSUME Buffers >= 3
  PROVE  Spec => []LinesIntact
<1>1. Inv => LinesIntact
  BY DEF Inv
<1>. QED  BY <1>1, InvAlways, PTL

(* The ring, the cache of fonts and the log have their types.              *)
THEOREM OverlayTypeCorrect ==
  ASSUME Buffers >= 3
  PROVE  Spec => []TypeOK
<1>1. Inv => TypeOK
  BY DEF Inv
<1>. QED  BY <1>1, InvAlways, PTL

-----------------------------------------------------------------------------
(* Widths *)

Column(ls, c) == {ls[i][c] : i \in DOMAIN ls} \cup {0}

IsWidest(m, widths) == m \in widths /\ \A n \in widths : n <= m

WidthInv ==
  /\ IsWidest(headerWidth, Column(lines, 1))
  /\ IsWidest(longestLineWidth, Column(lines, 2))

(* A line more. *)
LEMMA ColumnGrows ==
  ASSUME NEW ls \in Seq(Nat \X Nat), NEW h \in Nat, NEW v \in Nat, NEW c \in {1, 2}
  PROVE  Column(Append(ls, <<h, v>>), c)
           = Column(ls, c) \cup {IF c = 1 THEN h ELSE v}
<1> DEFINE more == Append(ls, <<h, v>>)
<1>1. /\ DOMAIN ls = 1 .. Len(ls) /\ Len(ls) \in Nat
      /\ DOMAIN more = 1 .. Len(ls) + 1
      /\ \A i \in 1 .. Len(ls) : more[i] = ls[i]
      /\ more[Len(ls) + 1] = <<h, v>>
  OBVIOUS
<1>2. <<h, v>>[c] = IF c = 1 THEN h ELSE v
  OBVIOUS
<1> HIDE DEF more
<1>3. \A i \in 1 .. Len(ls) + 1 : i \in 1 .. Len(ls) \/ i = Len(ls) + 1
  BY <1>1
<1>4. 1 .. Len(ls) \subseteq 1 .. Len(ls) + 1 /\ Len(ls) + 1 \in 1 .. Len(ls) + 1
  BY <1>1
<1>5. Column(more, c) = Column(ls, c) \cup {<<h, v>>[c]}
  <2>1. ASSUME NEW n \in Column(more, c)
        PROVE  n \in Column(ls, c) \cup {<<h, v>>[c]}
    <3>1. CASE n = 0
      BY <3>1 DEF Column
    <3>2. CASE n # 0
      <4>1. PICK i \in 1 .. Len(ls) + 1 : n = more[i][c]
        BY <1>1, <2>1, <3>2 DEF Column
      <4>2. CASE i \in 1 .. Len(ls)
        <5>1. n = ls[i][c]
          BY <1>1, <4>1, <4>2
        <5> QED
          BY <1>1, <4>2, <5>1 DEF Column
      <4>3. CASE i = Len(ls) + 1
        BY <1>1, <4>1, <4>3
      <4> QED
        BY <1>3, <4>2, <4>3
    <3> QED
      BY <3>1, <3>2
  <2>2. ASSUME NEW n \in Column(ls, c)
        PROVE  n \in Column(more, c)
    <3>1. CASE n = 0
      BY <3>1 DEF Column
    <3>2. CASE n # 0
      <4>1. PICK i \in 1 .. Len(ls) : n = ls[i][c]
        BY <1>1, <2>2, <3>2 DEF Column
      <4>2. n = more[i][c] /\ i \in DOMAIN more
        BY <1>1, <1>4, <4>1
      <4> QED
        BY <4>2 DEF Column
    <3> QED
      BY <3>1, <3>2
  <2>3. <<h, v>>[c] \in Column(more, c)
    <3>1. more[Len(ls) + 1][c] = <<h, v>>[c] /\ Len(ls) + 1 \in DOMAIN more
      BY <1>1, <1>4
    <3> QED
      BY <3>1 DEF Column
  <2> QED
    BY <2>1, <2>2, <2>3
<1> QED
  BY <1>2, <1>5 DEF more

LEMMA WidestGrows ==
  ASSUME NEW widths \in SUBSET Nat, NEW m, IsWidest(m, widths), NEW n \in Nat
  PROVE  IsWidest(Larger(n, m), widths \cup {n})
BY DEF IsWidest, Larger

(* What a line does to the widths. *)
LEMMA WidthsGrow ==
  ASSUME TypeOK, WidthInv, NEW h \in Nat, NEW v \in Nat,
         lines' = Append(lines, <<h, v>>),
         headerWidth' = Larger(h, headerWidth),
         longestLineWidth' = Larger(v, longestLineWidth)
  PROVE  WidthInv'
<1>1. lines \in Seq(Nat \X Nat)
  BY DEF TypeOK
<1>2. Column(lines, 1) \subseteq Nat /\ Column(lines, 2) \subseteq Nat
  BY <1>1 DEF Column
<1>3. Column(lines', 1) = Column(lines, 1) \cup {h}
  BY <1>1, ColumnGrows
<1>4. Column(lines', 2) = Column(lines, 2) \cup {v}
  BY <1>1, ColumnGrows
<1>5. IsWidest(headerWidth', Column(lines', 1))
  BY <1>2, <1>3, WidestGrows DEF WidthInv
<1>6. IsWidest(longestLineWidth', Column(lines', 2))
  BY <1>2, <1>4, WidestGrows DEF WidthInv
<1> QED
  BY <1>5, <1>6 DEF WidthInv

(* How many lines there are at each part of the frame. *)
LengthInv ==
  /\ drawn <= MaxLines
  /\ pc \in {"load", "keys"} => Len(lines) = 0
  /\ pc = "ui" => Len(lines) <= drawn + 1
  /\ pc = "reset" => Len(lines) <= MaxLines + 1

LEMMA EmptyLog ==
  ASSUME lines = <<>>, headerWidth = 0, longestLineWidth = 0
  PROVE  WidthInv
<1>1. DOMAIN <<>> = {}
  OBVIOUS
<1>2. Column(<<>>, 1) = {0} /\ Column(<<>>, 2) = {0}
  BY <1>1 DEF Column
<1> QED
  BY <1>2 DEF WidthInv, IsWidest

LEMMA LogStep ==
  ASSUME Buffers >= 3, Inv, WidthInv, LengthInv, [Next]_vars
  PROVE  WidthInv' /\ LengthInv'
<1> USE DEF Inv
<1>0. /\ Len(lines) \in Nat /\ drawn \in Nat /\ MaxLines \in Nat
      /\ pc \in {"load", "ui", "reset", "keys"}
  BY LinesAssumption DEF TypeOK
<1>1. CASE Load \/ DebugFont \/ DebugDone \/ UNCHANGED vars
  <2>1. UNCHANGED <<lines, headerWidth, longestLineWidth, drawn>>
    BY <1>1 DEF log, vars, Load, DebugFont, DebugDone
  <2>2. WidthInv'
    BY <2>1 DEF WidthInv
  <2>3. pc' = pc \/ (pc = "load" /\ pc' = "ui") \/ (pc = "ui" /\ pc' = "reset")
    BY <1>1 DEF vars, Load, DebugFont, DebugDone
  <2>4. LengthInv'
    BY <1>0, <2>1, <2>3 DEF LengthInv
  <2> QED
    BY <2>2, <2>4
<1>2. CASE DebugLine
  <2>1. PICK h \in Texts, v \in Texts :
           AddText(h, v) \/ AddValue(h, v) \/ AddBoth(h, v) \/ AddVector(h, v)
    BY <1>2 DEF DebugLine
  <2>2. h \in Nat /\ v \in Nat
    BY TextsAreNat
  <2>3. /\ lines' = Append(lines, <<h, v>>)
        /\ headerWidth' = Larger(h, headerWidth)
        /\ longestLineWidth' = Larger(v, longestLineWidth)
    BY <2>1, <2>2, CallFacts
  <2>4. Len(lines') = Len(lines) + 1
    BY <2>3 DEF TypeOK
  <2>5. LengthInv'
    BY <1>0, <1>2, <2>4 DEF DebugLine, LengthInv
  <2> QED
    BY <2>2, <2>3, <2>5, WidthsGrow
<1>3. CASE Reset
  <2>1. lines' = <<>> /\ headerWidth' = 0 /\ longestLineWidth' = 0
    BY <1>3 DEF Reset, ResetLog
  <2>2. Len(lines') = 0
    BY <2>1
  <2>3. LengthInv'
    BY <1>0, <1>3, <2>2 DEF Reset, LengthInv
  <2>4. DOMAIN lines' = {}
    BY <2>1
  <2>5. Column(lines', 1) = {0} /\ Column(lines', 2) = {0}
    BY <2>4 DEF Column
  <2> QED
    BY <2>1, <2>3, <2>5 DEF WidthInv, IsWidest
<1>4. CASE HandleInput
  <2>1. PICK h \in Texts, v \in Texts : AddVector(h, v)
    BY <1>4 DEF HandleInput
  <2>2. h \in Nat /\ v \in Nat
    BY TextsAreNat
  <2>3. /\ lines' = Append(lines, <<h, v>>)
        /\ headerWidth' = Larger(h, headerWidth)
        /\ longestLineWidth' = Larger(v, longestLineWidth)
    BY <2>1, <2>2, CallFacts
  <2>4. Len(lines') = Len(lines) + 1
    BY <2>3 DEF TypeOK
  <2>5. LengthInv'
    BY <1>0, <1>4, <2>4 DEF HandleInput, LengthInv
  <2> QED
    BY <2>2, <2>3, <2>5, WidthsGrow
<1> QED
  BY <1>1, <1>2, <1>3, <1>4 DEF Next

LEMMA LogAlways ==
  ASSUME Buffers >= 3
  PROVE  Spec => [](Inv /\ WidthInv /\ LengthInv)
<1>1. Init => WidthInv
  BY EmptyLog DEF Init
<1>2. Init => LengthInv
  BY LinesAssumption DEF Init, LengthInv
<1>3. Inv /\ WidthInv /\ LengthInv /\ [Next]_vars => WidthInv' /\ LengthInv'
  BY LogStep
<1> QED
  BY <1>1, <1>2, <1>3, InvAlways, PTL DEF Spec

(* The widths that size the overlay's background are the widest of the     *)
(* lines that are in the log.                                              *)
THEOREM WidthsAreOfLines ==
  ASSUME Buffers >= 3
  PROVE  Spec => []WidthsOfLines
<1>1. ASSUME NEW m, NEW widths \in SUBSET Nat, IsWidest(m, widths)
      PROVE  m = CHOOSE w \in widths : \A n \in widths : n <= w
  <2>1. \E w \in widths : \A n \in widths : n <= w
    BY <1>1 DEF IsWidest
  <2> DEFINE chosen == CHOOSE w \in widths : \A n \in widths : n <= w
  <2>2. chosen \in widths /\ \A n \in widths : n <= chosen
    BY <2>1
  <2> HIDE DEF chosen
  <2>3. m <= chosen /\ chosen <= m /\ m \in Nat /\ chosen \in Nat
    BY <1>1, <2>2 DEF IsWidest
  <2>4. m = chosen
    BY <2>3
  <2> QED
    BY <2>4 DEF chosen
<1>2. Inv /\ WidthInv => WidthsOfLines
  <2> SUFFICES ASSUME Inv, WidthInv PROVE WidthsOfLines
    OBVIOUS
  <2>1. Column(lines, 1) \subseteq Nat /\ Column(lines, 2) \subseteq Nat
    BY DEF Inv, TypeOK, Column
  <2>2. headerWidth = CHOOSE w \in Column(lines, 1) : \A n \in Column(lines, 1) : n <= w
    BY <1>1, <2>1 DEF WidthInv
  <2>3. longestLineWidth =
          CHOOSE w \in Column(lines, 2) : \A n \in Column(lines, 2) : n <= w
    BY <1>1, <2>1 DEF WidthInv
  <2> QED
    BY <2>2, <2>3 DEF WidthsOfLines, Column
<1> QED
  BY <1>2, LogAlways, PTL

(* The log never holds more than a frame's lines and the camera's line of  *)
(* the frame before, whether the overlay is shown or hidden.               *)
THEOREM LogStaysBounded ==
  ASSUME Buffers >= 3
  PROVE  Spec => []LogBounded
<1>1. Inv /\ LengthInv => LogBounded
  <2> SUFFICES ASSUME Inv, LengthInv PROVE Len(lines) <= MaxLines + 1
    BY DEF LogBounded
  <2>1. /\ Len(lines) \in Nat /\ drawn \in Nat /\ MaxLines \in Nat
        /\ pc \in {"load", "ui", "reset", "keys"}
    BY LinesAssumption DEF Inv, TypeOK
  <2> QED
    BY <2>1 DEF LengthInv
<1> QED
  BY <1>1, LogAlways, PTL
=============================================================================
