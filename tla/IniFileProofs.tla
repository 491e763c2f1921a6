---------------------------- MODULE IniFileProofs ----------------------------
(***************************************************************************)
(* IniFile implements IniStore, for every set of names, values and lines:  *)
(* whatever lines a file has, what a program writes over them is what the  *)
(* next one reads.                                                         *)
(*                                                                         *)
(* The reader and the writer are loops over lines.  What such a loop does  *)
(* is proved of a set of numbers, those of the turns after which something *)
(* holds: it has 0, and with every number the next one.                    *)
(***************************************************************************)
EXTENDS IniFile, IniMapProofs, WellFoundedInduction

-----------------------------------------------------------------------------
(* Loops *)

(* Every set of naturals that is not empty has a least element. *)
LEMMA Least ==
  ASSUME NEW S, S \subseteq Nat, S # {}
  PROVE  \E m \in S : \A k \in S : m <= k
<1> DEFINE less == {pair \in Nat \X Nat : pair[1] < pair[2]}
<1>1. IsWellFoundedOn(less, Nat)
  BY NatLessThanWellFounded DEF OpToRel
<1> HIDE DEF less
<1>2. PICK m \in S : \A k \in S : ~(<<k, m>> \in less)
  BY <1>1, WFMin
<1>3. \A k \in S : k < m => <<k, m>> \in less
  BY DEF less
<1>4. \A k \in S : ~(k < m)
  BY <1>2, <1>3
<1>5. \A k \in S : k \in Nat
  OBVIOUS
<1> QED
  BY <1>4, <1>5

(* Induction over the turns of a loop. *)
LEMMA EveryTurn ==
  ASSUME NEW n \in Nat, NEW T, 0 \in T, \A i \in 1 .. n : i - 1 \in T => i \in T
  PROVE  \A i \in 0 .. n : i \in T
<1> DEFINE Rest == (0 .. n) \ T
<1> SUFFICES ASSUME Rest # {} PROVE FALSE
  OBVIOUS
<1>0. Rest \subseteq Nat
  OBVIOUS
<1> HIDE DEF Rest
<1>1. PICK m \in Rest : \A k \in Rest : m <= k
  BY <1>0, Least
<1> USE DEF Rest
<1>2. m \in 1 .. n /\ m - 1 \in 0 .. n /\ ~(m <= m - 1)
  BY <1>1
<1>3. m - 1 \in T
  BY <1>1, <1>2
<1> QED
  BY <1>1, <1>2, <1>3

(* A loop has states: there is a function from its turns to them. *)
Steps(step, n, S) == \A x \in S, i \in 1 .. n : step[<<x, i>>] \in S

LEMMA Iterated ==
  ASSUME NEW n \in Nat, NEW S, NEW base \in S, NEW step, Steps(step, n, S)
  PROVE  \E f \in [0 .. n -> S] :
           f[0] = base /\ \A i \in 1 .. n : f[i] = step[<<f[i - 1], i>>]
<1> DEFINE Upto(m, f) ==
             f[0] = base /\ \A i \in 1 .. m : f[i] = step[<<f[i - 1], i>>]
           T == {m \in 0 .. n : \E f \in [0 .. m -> S] : Upto(m, f)}
<1>1. 0 \in T
  <2> DEFINE f == [i \in 0 .. 0 |-> base]
  <2>1. f \in [0 .. 0 -> S] /\ Upto(0, f)
    OBVIOUS
  <2> HIDE DEF f
  <2>2. \E g \in [0 .. 0 -> S] : Upto(0, g)
    BY <2>1
  <2> HIDE DEF Upto
  <2> QED
    BY <2>2
<1>2. ASSUME NEW m \in 1 .. n, m - 1 \in T
      PROVE  m \in T
  <2>1. PICK f \in [0 .. m - 1 -> S] : Upto(m - 1, f)
    BY <1>2
  <2> DEFINE g == [i \in 0 .. m |-> IF i = m THEN step[<<f[m - 1], m>>] ELSE f[i]]
  <2>2. g \in [0 .. m -> S]
    <3>1. f[m - 1] \in S /\ m \in 1 .. n
      BY <2>1
    <3> QED
      BY <2>1, <3>1 DEF Steps
  <2>3. \A i \in 1 .. m : g[i] = step[<<g[i - 1], i>>]
    <3>1. ASSUME NEW i \in 1 .. m - 1 PROVE g[i] = step[<<g[i - 1], i>>]
      <4>1. g[i] = f[i] /\ g[i - 1] = f[i - 1]
        BY DEF g
      <4> QED
        BY <2>1, <4>1
    <3>2. g[m] = step[<<g[m - 1], m>>]
      BY DEF g
    <3>3. \A i \in 1 .. m : i \in 1 .. m - 1 \/ i = m
      OBVIOUS
    <3> HIDE DEF g
    <3> QED
      BY <3>1, <3>2, <3>3
  <2>4. g[0] = base
    BY <2>1
  <2> HIDE DEF g
  <2>5. \E h \in [0 .. m -> S] : Upto(m, h)
    BY <2>2, <2>3, <2>4
  <2> HIDE DEF Upto
  <2> QED
    BY <2>5
<1>3. n \in T
  <2> HIDE DEF T
  <2>1. \A i \in 0 .. n : i \in T
    BY <1>1, <1>2, EveryTurn
  <2> QED
    BY <2>1
<1> QED
  BY <1>3
-----------------------------------------------------------------------------
(* Structures *)

KeyMaps      == SoundMaps(Keys, Values)
Structure(m) == SoundMap(m, Sections, KeyMaps)

(* A structure has the section, and the section the key. *)
HasKey(m, s, k) == Has(m, s) /\ Has(Get(m, s), k)
ValueOf(m, s, k) == Get(Get(m, s), k)

LEMMA EmptyStructure == Structure(EmptyMap) /\ DOMAIN EmptyMap.index = {}
BY EmptyMapSound DEF Structure, EmptyMap

LEMMA SectionTyped ==
  ASSUME NEW m, Structure(m), NEW s, Has(m, s)
  PROVE  s \in Sections /\ SoundMap(Get(m, s), Keys, Values)
BY GetTyped, SoundMapsMembers DEF Structure, KeyMaps, Has

LEMMA ValueTyped ==
  ASSUME NEW m, Structure(m), NEW s, NEW k, HasKey(m, s, k)
  PROVE  s \in Sections /\ k \in Keys /\ ValueOf(m, s, k) \in Values
BY SectionTyped, GetTyped DEF HasKey, ValueOf, Has

(* A section that is put in, or replaced. *)
LEMMA PutSection ==
  ASSUME NEW m, Structure(m), NEW s \in Sections, NEW keys,
         SoundMap(keys, Keys, Values)
  PROVE  /\ Structure(Put(m, s, keys))
         /\ \A t : Has(Put(m, s, keys), t) <=> Has(m, t) \/ t = s
         /\ Get(Put(m, s, keys), s) = keys
         /\ \A t : Has(m, t) /\ t # s => Get(Put(m, s, keys), t) = Get(m, t)
<1>1. keys \in KeyMaps
  BY SoundMapsMembers DEF KeyMaps
<1> QED
  BY <1>1, PutKeepsSound DEF Structure, Has

LEMMA TouchSound ==
  ASSUME NEW m, Structure(m), NEW s \in Sections
  PROVE  /\ Structure(Touch(m, s))
         /\ \A t : Has(Touch(m, s), t) <=> Has(m, t) \/ t = s
         /\ \A t : Has(m, t) => Get(Touch(m, s), t) = Get(m, t)
         /\ ~Has(m, s) => Get(Touch(m, s), s) = EmptyMap
<1>1. CASE Has(m, s)
  BY <1>1 DEF Touch
<1>2. CASE ~Has(m, s)
  <2>1. Touch(m, s) = Put(m, s, EmptyMap)
    BY <1>2 DEF Touch, Put
  <2> QED
    BY <1>2, <2>1, PutSection, EmptyMapSound
<1> QED
  BY <1>1, <1>2

(* ini[s][k] = v *)
LEMMA SetValueSound ==
  ASSUME NEW m, Structure(m), NEW s \in Sections, NEW k \in Keys, NEW v \in Values
  PROVE  /\ Structure(SetValue(m, s, k, v))
         /\ \A t : Has(SetValue(m, s, k, v), t) <=> Has(m, t) \/ t = s
         /\ \A t, q : HasKey(SetValue(m, s, k, v), t, q) <=>
                       HasKey(m, t, q) \/ (t = s /\ q = k)
         /\ ValueOf(SetValue(m, s, k, v), s, k) = v
         /\ \A t, q : HasKey(m, t, q) /\ ~(t = s /\ q = k) =>
                       ValueOf(SetValue(m, s, k, v), t, q) = ValueOf(m, t, q)
<1> DEFINE n    == SetValue(m, s, k, v)
           old  == Get(Touch(m, s), s)
           keys == Put(old, k, v)
<1>1. SoundMap(old, Keys, Values)
  BY TouchSound, SectionTyped
<1>2. /\ SoundMap(keys, Keys, Values) /\ Get(keys, k) = v
      /\ \A q : Has(keys, q) <=> Has(old, q) \/ q = k
      /\ \A q : Has(old, q) /\ q # k => Get(keys, q) = Get(old, q)
  BY <1>1, PutKeepsSound DEF Has
<1>3. /\ \A q : Has(old, q) <=> HasKey(m, s, q)
      /\ Has(m, s) => old = Get(m, s)
  <2>1. CASE Has(m, s)
    BY <2>1, TouchSound DEF HasKey
  <2>2. CASE ~Has(m, s)
    BY <2>2, TouchSound, EmptyStructure DEF HasKey, Has
  <2> QED
    BY <2>1, <2>2
<1>4. n = Put(m, s, keys)
  BY DEF SetValue
<1> HIDE DEF n, keys, old
<1>5. /\ Structure(n) /\ Get(n, s) = keys
      /\ \A t : Has(n, t) <=> Has(m, t) \/ t = s
      /\ \A t : Has(m, t) /\ t # s => Get(n, t) = Get(m, t)
  BY <1>2, <1>4, PutSection
<1>6. \A t, q : HasKey(n, t, q) <=> HasKey(m, t, q) \/ (t = s /\ q = k)
  <2> SUFFICES ASSUME NEW t, NEW q
               PROVE  HasKey(n, t, q) <=> HasKey(m, t, q) \/ (t = s /\ q = k)
    OBVIOUS
  <2>1. CASE t = s
    BY <1>2, <1>3, <1>5, <2>1 DEF HasKey
  <2>2. CASE t # s
    BY <1>5, <2>2 DEF HasKey
  <2> QED
    BY <2>1, <2>2
<1>7. ValueOf(n, s, k) = v
  BY <1>2, <1>5 DEF ValueOf
<1>8. \A t, q : HasKey(m, t, q) /\ ~(t = s /\ q = k) => ValueOf(n, t, q) = ValueOf(m, t, q)
  BY <1>2, <1>3, <1>5 DEF HasKey, ValueOf
<1> QED
  BY <1>5, <1>6, <1>7, <1>8 DEF n

-----------------------------------------------------------------------------
(* Lines *)

LEMMA LineForms ==
  /\ \A l \in Lines :
       \/ l.kind = "section" /\ l.name \in Sections /\ l = Header(l.name)
       \/ /\ l.kind = "keyvalue" /\ l.key \in Keys /\ l.value \in Values
          /\ l = KeyLine(l.key, l.value)
       \/ l.kind = "comment" /\ l.text \in Comments /\ l = Comment(l.text)
       \/ l.kind = "none" /\ l = Blank
       \/ l.kind = "unknown" /\ l = Unknown
  /\ \A s \in Sections : Header(s) \in Lines
  /\ \A k \in Keys, v \in Values : KeyLine(k, v) \in Lines
  /\ \A s : Header(s).kind = "section" /\ Header(s).name = s
  /\ \A k, v : /\ KeyLine(k, v).kind = "keyvalue" /\ KeyLine(k, v).key = k
               /\ KeyLine(k, v).value = v
  /\ \A c : Comment(c).kind = "comment"
  /\ Blank.kind = "none" /\ Unknown.kind = "unknown" /\ Blank \in Lines
<1>1. /\ \A s : Header(s).kind = "section" /\ Header(s).name = s
      /\ \A k, v : /\ KeyLine(k, v).kind = "keyvalue" /\ KeyLine(k, v).key = k
                   /\ KeyLine(k, v).value = v
      /\ \A c : Comment(c).kind = "comment" /\ Comment(c).text = c
      /\ Blank.kind = "none" /\ Unknown.kind = "unknown"
  BY DEF Header, KeyLine, Comment, Blank, Unknown
<1>2. ASSUME NEW l \in Lines
      PROVE  \/ \E s \in Sections : l = Header(s)
             \/ \E k \in Keys, v \in Values : l = KeyLine(k, v)
             \/ \E c \in Comments : l = Comment(c)
             \/ l = Blank \/ l = Unknown
  BY DEF Lines
<1>3. /\ \A s \in Sections : Header(s) \in Lines
      /\ \A k \in Keys, v \in Values : KeyLine(k, v) \in Lines
      /\ Blank \in Lines
  BY DEF Lines
<1> QED
  BY <1>1, <1>2, <1>3

(* The j-th line, or a line below it, belongs to section s.                *)
Under(L, j, s) ==
  \E h \in 1 .. j : L[h] = Header(s) /\ \A x \in h + 1 .. j : L[x].kind # "section"

LEMMA UnderOne ==
  ASSUME NEW L, NEW j \in Nat, NEW s, NEW t, Under(L, j, s), Under(L, j, t)
  PROVE  s = t
<1>1. PICK h \in 1 .. j : L[h] = Header(s) /\ \A x \in h + 1 .. j : L[x].kind # "section"
  BY DEF Under
<1>2. PICK i \in 1 .. j : L[i] = Header(t) /\ \A x \in i + 1 .. j : L[x].kind # "section"
  BY DEF Under
<1>3. L[h].kind = "section" /\ L[i].kind = "section"
  BY <1>1, <1>2, LineForms
<1>4. ~(h < i) /\ ~(i < h)
  BY <1>1, <1>2, <1>3
<1>5. h = i
  BY <1>4
<1> QED
  BY <1>1, <1>2, <1>5, LineForms

(* What is above a line decides. *)
LEMMA UnderSame ==
  ASSUME NEW L, NEW M, NEW j \in Nat, \A x \in 1 .. j : M[x] = L[x], NEW s
  PROVE  Under(M, j, s) <=> Under(L, j, s)
<1>1. \A h \in 1 .. j : \A x \in h + 1 .. j : M[x] = L[x]
  OBVIOUS
<1> QED
  BY <1>1 DEF Under

LEMMA UnderNext ==
  ASSUME NEW L, NEW j \in Nat, NEW s
  PROVE  /\ L[j + 1].kind # "section" => (Under(L, j + 1, s) <=> Under(L, j, s))
         /\ L[j + 1] = Header(s) => Under(L, j + 1, s)
         /\ \A t : L[j + 1] = Header(t) /\ Under(L, j + 1, s) => s = t
<1>1. ASSUME L[j + 1].kind # "section", Under(L, j + 1, s) PROVE Under(L, j, s)
  <2>1. PICK h \in 1 .. j + 1 :
          L[h] = Header(s) /\ \A x \in h + 1 .. j + 1 : L[x].kind # "section"
    BY <1>1 DEF Under
  <2>2. h # j + 1
    BY <1>1, <2>1, LineForms
  <2> QED
    BY <2>1, <2>2 DEF Under
<1>2. ASSUME L[j + 1].kind # "section", Under(L, j, s) PROVE Under(L, j + 1, s)
  <2>1. PICK h \in 1 .. j :
          L[h] = Header(s) /\ \A x \in h + 1 .. j : L[x].kind # "section"
    BY <1>2 DEF Under
  <2>2. \A x \in h + 1 .. j + 1 : x \in h + 1 .. j \/ x = j + 1
    OBVIOUS
  <2>3. h \in 1 .. j + 1 /\ \A x \in h + 1 .. j + 1 : L[x].kind # "section"
    BY <1>2, <2>1, <2>2
  <2> QED
    BY <2>1, <2>3 DEF Under
<1>3. ASSUME L[j + 1] = Header(s) PROVE Under(L, j + 1, s)
  BY <1>3 DEF Under
<1>4. ASSUME NEW t, L[j + 1] = Header(t), Under(L, j + 1, s) PROVE s = t
  <2>1. Under(L, j + 1, t)
    BY <1>4 DEF Under
  <2> QED
    BY <1>4, <2>1, UnderOne
<1> QED
  BY <1>1, <1>2, <1>3, <1>4

(* What a structure has to do with the lines it was read from. *)
HeadersMatch(L, m) ==
  \A s : Has(m, s) <=> s \in Sections /\ \E j \in 1 .. Len(L) : L[j] = Header(s)
KeysKnown(L, m) ==
  \A j \in 1 .. Len(L) : L[j].kind = "keyvalue" =>
    \E s : Under(L, j, s) /\ HasKey(m, s, L[j].key)
KeysFound(L, m) ==
  \A s, k : HasKey(m, s, k) =>
    \E j \in 1 .. Len(L) : L[j] = KeyLine(k, ValueOf(m, s, k)) /\ Under(L, j, s)
Means(L, m) == HeadersMatch(L, m) /\ KeysKnown(L, m) /\ KeysFound(L, m)

Known(L) == L \in Seq(Lines) /\ \A j \in 1 .. Len(L) : L[j].kind # "unknown"

-----------------------------------------------------------------------------
(* Reading *)

LEMMA TouchKeys ==
  ASSUME NEW m, Structure(m), NEW s \in Sections
  PROVE  \A t, k : /\ HasKey(Touch(m, s), t, k) <=> HasKey(m, t, k)
                   /\ HasKey(m, t, k) => ValueOf(Touch(m, s), t, k) = ValueOf(m, t, k)
<1> SUFFICES ASSUME NEW t, NEW k
             PROVE  /\ HasKey(Touch(m, s), t, k) <=> HasKey(m, t, k)
                    /\ HasKey(m, t, k) => ValueOf(Touch(m, s), t, k) = ValueOf(m, t, k)
  OBVIOUS
<1>1. CASE Has(m, t)
  BY <1>1, TouchSound DEF HasKey, ValueOf
<1>2. CASE ~Has(m, t)
  <2>1. ~HasKey(m, t, k)
    BY <1>2 DEF HasKey
  <2>2. ~Has(EmptyMap, k)
    BY EmptyStructure DEF Has
  <2>3. ~HasKey(Touch(m, s), t, k)
    BY <1>2, <2>2, TouchSound DEF HasKey
  <2> QED
    BY <2>1, <2>3
<1> QED
  BY <1>1, <1>2

LEMMA AppendLine ==
  ASSUME NEW L \in Seq(Lines), NEW line \in Lines
  PROVE  /\ Append(L, line) \in Seq(Lines) /\ Len(Append(L, line)) = Len(L) + 1
         /\ Len(L) \in Nat
         /\ Append(L, line)[Len(L) + 1] = line
         /\ \A x \in 1 .. Len(L) : Append(L, line)[x] = L[x]
         /\ \A j \in 1 .. Len(L) : \A s : Under(Append(L, line), j, s) <=> Under(L, j, s)
         /\ \A s : Under(L, Len(L), s) /\ line.kind # "section"
                     => Under(Append(L, line), Len(L) + 1, s)
<1> DEFINE M == Append(L, line)
<1>1. /\ M \in Seq(Lines) /\ Len(M) = Len(L) + 1 /\ Len(L) \in Nat
      /\ M[Len(L) + 1] = line
      /\ \A x \in 1 .. Len(L) : M[x] = L[x]
  OBVIOUS
<1> HIDE DEF M
<1>2. \A j \in 0 .. Len(L) : \A s : Under(M, j, s) <=> Under(L, j, s)
  <2> TAKE j \in 0 .. Len(L)
  <2> TAKE s
  <2>1. j \in Nat /\ \A x \in 1 .. j : M[x] = L[x]
    BY <1>1
  <2> QED
    BY <2>1, UnderSame
<1>3. \A s : Under(L, Len(L), s) /\ line.kind # "section" => Under(M, Len(L) + 1, s)
  BY <1>1, <1>2, UnderNext
<1> QED
  BY <1>1, <1>2, <1>3 DEF M

(* The reader, its structure and the lines it keeps for the writer.        *)
ReaderInv(st) ==
  /\ Known(st.lines) /\ Means(st.lines, st.data)
  /\ st.inSection => /\ Has(st.data, st.section)
                     /\ Under(st.lines, Len(st.lines), st.section)
  /\ ~st.inSection => \A j \in 1 .. Len(st.lines) : st.lines[j].kind # "section"

Readers == [data : SoundMaps(Sections, KeyMaps), section : Sections \cup {""},
            inSection : BOOLEAN, lines : Seq(Lines)]

LEMMA ReaderBegins == NothingRead \in Readers /\ ReaderInv(NothingRead)
<1>1. NothingRead \in Readers
  BY EmptyStructure, SoundMapsMembers DEF Readers, NothingRead, Structure
<1>2. Known(<<>>)
  BY DEF Known
<1>3. Means(<<>>, EmptyMap)
  BY EmptyStructure DEF Means, HeadersMatch, KeysKnown, KeysFound, HasKey, Has
<1>4. /\ NothingRead.lines = <<>> /\ NothingRead.data = EmptyMap
      /\ ~NothingRead.inSection /\ Len(<<>>) = 0
  BY DEF NothingRead
<1> QED
  BY <1>1, <1>2, <1>3, <1>4 DEF ReaderInv

LEMMA KnownAppend ==
  ASSUME NEW L, Known(L), NEW line \in Lines, line.kind # "unknown"
  PROVE  Known(Append(L, line))
<1>1. L \in Seq(Lines)
  BY DEF Known
<1>2. \A x \in 1 .. Len(L) + 1 : x \in 1 .. Len(L) \/ x = Len(L) + 1
  BY <1>1
<1> QED
  BY <1>1, <1>2, AppendLine DEF Known

LEMMA ReadsHeader ==
  ASSUME NEW st \in Readers, ReaderInv(st), NEW s \in Sections
  PROVE  ReadLine(st, Header(s)) \in Readers /\ ReaderInv(ReadLine(st, Header(s)))
<1> DEFINE L == st.lines  m == st.data  line == Header(s)
           M == Append(L, line)  n == Touch(m, s)
<1>1. /\ Structure(m) /\ L \in Seq(Lines) /\ line \in Lines
      /\ line.kind = "section" /\ line.name = s
      /\ Known(L) /\ HeadersMatch(L, m) /\ KeysKnown(L, m) /\ KeysFound(L, m)
  BY LineForms, SoundMapsMembers DEF Readers, ReaderInv, Structure, Means
<1>2. ReadLine(st, line) = [data |-> n, section |-> s, inSection |-> TRUE, lines |-> M]
  BY <1>1 DEF ReadLine, Readers
<1> HIDE DEF line, M, n, L, m
<1>3. /\ M \in Seq(Lines) /\ Len(M) = Len(L) + 1 /\ Len(L) \in Nat
      /\ M[Len(L) + 1] = line /\ \A x \in 1 .. Len(L) : M[x] = L[x]
      /\ \A j \in 1 .. Len(L) : \A t : Under(M, j, t) <=> Under(L, j, t)
  BY <1>1, AppendLine DEF M
<1>4. Structure(n) /\ (\A t : Has(n, t) <=> Has(m, t) \/ t = s)
  BY <1>1, TouchSound DEF n
<1>5. \A t, k : /\ HasKey(n, t, k) <=> HasKey(m, t, k)
                /\ HasKey(m, t, k) => ValueOf(n, t, k) = ValueOf(m, t, k)
  BY <1>1, TouchKeys DEF n
<1>6. \A x \in 1 .. Len(L) + 1 : x \in 1 .. Len(L) \/ x = Len(L) + 1
  BY <1>3
<1>7. HeadersMatch(M, n)
  <2>1. ASSUME NEW t PROVE Has(n, t) <=> t \in Sections /\ \E j \in 1 .. Len(M) : M[j] = Header(t)
    <3>1. CASE t = s
      BY <1>3, <1>4, <3>1 DEF line
    <3>2. CASE t # s
      <4>1. M[Len(L) + 1] # Header(t)
        BY <1>1, <1>3, <3>2, LineForms
      <4> QED
        BY <1>1, <1>3, <1>4, <1>6, <3>2, <4>1 DEF HeadersMatch
    <3> QED
      BY <3>1, <3>2
  <2> QED
    BY <2>1 DEF HeadersMatch
<1>8. KeysKnown(M, n)
  BY <1>1, <1>3, <1>5, <1>6 DEF KeysKnown
<1>9. KeysFound(M, n)
  BY <1>1, <1>3, <1>5, <1>6 DEF KeysFound
<1>10. Under(M, Len(M), s)
  BY <1>3, UnderNext DEF line
<1>11. Known(M)
  BY <1>1, KnownAppend DEF M
<1>12. ReadLine(st, line) \in Readers
  <2>1. n \in SoundMaps(Sections, KeyMaps)
    BY <1>4, SoundMapsMembers DEF Structure
  <2>2. s \in Sections \cup {""} /\ TRUE \in BOOLEAN /\ M \in Seq(Lines)
    BY <1>3
  <2>3. [data |-> n, section |-> s, inSection |-> TRUE, lines |-> M] \in Readers
    BY <2>1, <2>2 DEF Readers
  <2> QED
    BY <1>2, <2>3
<1> QED
  BY <1>2, <1>4, <1>7, <1>8, <1>9, <1>10, <1>11, <1>12 DEF ReaderInv, Means, line

LEMMA ReadsKey ==
  ASSUME NEW st \in Readers, ReaderInv(st), st.inSection,
         NEW k \in Keys, NEW v \in Values
  PROVE  ReadLine(st, KeyLine(k, v)) \in Readers /\ ReaderInv(ReadLine(st, KeyLine(k, v)))
<1> DEFINE L == st.lines  m == st.data  line == KeyLine(k, v)  s == st.section
           M == Append(L, line)  n == SetValue(m, s, k, v)
<1>1. /\ Structure(m) /\ L \in Seq(Lines) /\ line \in Lines /\ s \in Sections
      /\ line.kind = "keyvalue" /\ line.key = k /\ line.value = v
      /\ Known(L) /\ HeadersMatch(L, m) /\ KeysKnown(L, m) /\ KeysFound(L, m)
      /\ Has(m, s) /\ Under(L, Len(L), s)
  <2>1. Structure(m) /\ L \in Seq(Lines)
    BY SoundMapsMembers DEF Readers, Structure
  <2>2. /\ Known(L) /\ HeadersMatch(L, m) /\ KeysKnown(L, m) /\ KeysFound(L, m)
        /\ Has(m, s) /\ Under(L, Len(L), s)
    BY DEF ReaderInv, Means
  <2>3. s \in Sections
    BY <2>1, <2>2, SectionTyped
  <2> QED
    BY <2>1, <2>2, <2>3, LineForms
<1>2. ReadLine(st, line) = [data |-> n, section |-> s, inSection |-> TRUE, lines |-> M]
  BY <1>1 DEF ReadLine, Readers, InSection
<1> HIDE DEF line, M, n, L, m, s
<1>3. /\ M \in Seq(Lines) /\ Len(M) = Len(L) + 1 /\ Len(L) \in Nat
      /\ M[Len(L) + 1] = line /\ \A x \in 1 .. Len(L) : M[x] = L[x]
      /\ \A j \in 1 .. Len(L) : \A t : Under(M, j, t) <=> Under(L, j, t)
      /\ Under(M, Len(L) + 1, s)
  BY <1>1, AppendLine DEF M
<1>4. Structure(n) /\ (\A t : Has(n, t) <=> Has(m, t) \/ t = s)
  BY <1>1, SetValueSound DEF n
<1>5. /\ \A t, q : HasKey(n, t, q) <=> HasKey(m, t, q) \/ (t = s /\ q = k)
      /\ ValueOf(n, s, k) = v
      /\ \A t, q : HasKey(m, t, q) /\ ~(t = s /\ q = k) => ValueOf(n, t, q) = ValueOf(m, t, q)
  BY <1>1, SetValueSound DEF n
<1>6. \A x \in 1 .. Len(L) + 1 : x \in 1 .. Len(L) \/ x = Len(L) + 1
  BY <1>3
<1>7. HeadersMatch(M, n)
  <2>1. \A t : M[Len(L) + 1] # Header(t)
    BY <1>1, <1>3, LineForms
  <2> QED
    BY <1>1, <1>3, <1>4, <1>6, <2>1 DEF HeadersMatch
<1>8. KeysKnown(M, n)
  BY <1>1, <1>3, <1>5, <1>6 DEF KeysKnown
<1>9. KeysFound(M, n)
  <2>1. ASSUME NEW t, NEW q, HasKey(n, t, q)
        PROVE  \E j \in 1 .. Len(M) : M[j] = KeyLine(q, ValueOf(n, t, q)) /\ Under(M, j, t)
    <3>1. CASE t = s /\ q = k
      BY <1>3, <1>5, <3>1 DEF line
    <3>2. CASE ~(t = s /\ q = k)
      BY <1>1, <1>3, <1>5, <2>1, <3>2 DEF KeysFound
    <3> QED
      BY <3>1, <3>2
  <2> QED
    BY <2>1 DEF KeysFound
<1>10. Known(M)
  BY <1>1, KnownAppend DEF M
<1>11. ReadLine(st, line) \in Readers
  <2>1. n \in SoundMaps(Sections, KeyMaps)
    BY <1>4, SoundMapsMembers DEF Structure
  <2>2. s \in Sections \cup {""} /\ TRUE \in BOOLEAN /\ M \in Seq(Lines)
    BY <1>1, <1>3
  <2>3. [data |-> n, section |-> s, inSection |-> TRUE, lines |-> M] \in Readers
    BY <2>1, <2>2 DEF Readers
  <2> QED
    BY <1>2, <2>3
<1> QED
  BY <1>1, <1>2, <1>3, <1>4, <1>7, <1>8, <1>9, <1>10, <1>11 DEF ReaderInv, Means, line

(* A line that says nothing. *)
LEMMA ReadsComment ==
  ASSUME NEW st \in Readers, ReaderInv(st), NEW line \in Lines,
         line.kind \in {"comment", "none"}
  PROVE  ReadLine(st, line) \in Readers /\ ReaderInv(ReadLine(st, line))
<1> DEFINE L == st.lines  m == st.data  M == Append(L, line)
<1>0. /\ st.inSection \in BOOLEAN /\ m \in SoundMaps(Sections, KeyMaps)
      /\ st.section \in Sections \cup {""}
  BY DEF Readers
<1>1. /\ L \in Seq(Lines) /\ Known(L)
      /\ HeadersMatch(L, m) /\ KeysKnown(L, m) /\ KeysFound(L, m)
      /\ st.inSection => Has(m, st.section) /\ Under(L, Len(L), st.section)
      /\ ~st.inSection => \A j \in 1 .. Len(L) : L[j].kind # "section"
  BY DEF Readers, ReaderInv, Means
<1>2. ReadLine(st, line) =
        [data |-> m, section |-> st.section, inSection |-> st.inSection, lines |-> M]
  BY DEF ReadLine, Readers
<1> HIDE DEF M, L, m
<1>3. /\ M \in Seq(Lines) /\ Len(M) = Len(L) + 1 /\ Len(L) \in Nat
      /\ M[Len(L) + 1] = line /\ \A x \in 1 .. Len(L) : M[x] = L[x]
      /\ \A j \in 1 .. Len(L) : \A t : Under(M, j, t) <=> Under(L, j, t)
      /\ \A t : Under(L, Len(L), t) => Under(M, Len(L) + 1, t)
  BY <1>1, AppendLine DEF M
<1>4. \A x \in 1 .. Len(L) + 1 : x \in 1 .. Len(L) \/ x = Len(L) + 1
  BY <1>3
<1>5. HeadersMatch(M, m)
  <2>1. \A t : line # Header(t)
    BY LineForms
  <2>2. ASSUME NEW t
        PROVE  (\E j \in 1 .. Len(M) : M[j] = Header(t)) <=>
               (\E j \in 1 .. Len(L) : L[j] = Header(t))
    BY <1>3, <1>4, <2>1
  <2>3. HeadersMatch(L, m)
    BY <1>1
  <2> QED
    BY <2>2, <2>3 DEF HeadersMatch
<1>6. KeysKnown(M, m)
  BY <1>1, <1>3, <1>4 DEF KeysKnown
<1>7. KeysFound(M, m)
  <2>1. KeysFound(L, m)
    BY <1>1
  <2> QED
    BY <1>3, <2>1 DEF KeysFound
<1>8. Known(M)
  BY <1>1, KnownAppend DEF M
<1>9. ReadLine(st, line) \in Readers
  <2>1. [data |-> m, section |-> st.section, inSection |-> st.inSection, lines |-> M]
          \in Readers
    BY <1>0, <1>3 DEF Readers
  <2> QED
    BY <1>2, <2>1
<1>10. /\ st.inSection => Has(m, st.section) /\ Under(M, Len(M), st.section)
       /\ ~st.inSection => \A j \in 1 .. Len(M) : M[j].kind # "section"
  BY <1>1, <1>3, <1>4
<1> QED
  BY <1>2, <1>5, <1>6, <1>7, <1>8, <1>9, <1>10 DEF ReaderInv, Means

LEMMA ReaderGoesOn ==
  ASSUME NEW st \in Readers, ReaderInv(st), NEW line \in Lines
  PROVE  ReadLine(st, line) \in Readers /\ ReaderInv(ReadLine(st, line))
<1>1. CASE line.kind = "section"
  BY <1>1, LineForms, ReadsHeader
<1>2. CASE line.kind = "keyvalue" /\ st.inSection
  <2>1. line.key \in Keys /\ line.value \in Values /\ line = KeyLine(line.key, line.value)
    BY <1>2, LineForms
  <2> QED
    BY <1>2, <2>1, ReadsKey
<1>3. CASE line.kind \in {"comment", "none"}
  BY <1>3, ReadsComment
<1>4. CASE (line.kind = "keyvalue" /\ ~st.inSection) \/ line.kind = "unknown"
  <2>1. ReadLine(st, line) = st
    BY <1>4 DEF ReadLine, InSection
  <2> QED
    BY <2>1
<1>5. line.kind \in {"section", "keyvalue", "comment", "none", "unknown"}
  BY LineForms
<1> QED
  BY <1>1, <1>2, <1>3, <1>4, <1>5

(* Reading is the function it is defined to be. *)
LEMMA ReadingTurns ==
  ASSUME NEW lines \in Seq(Lines)
  PROVE  /\ Len(lines) \in Nat
         /\ Reading(lines)[0] = NothingRead
         /\ \A i \in 1 .. Len(lines) :
              Reading(lines)[i] = ReadLine(Reading(lines)[i - 1], lines[i])
         /\ \A i \in 0 .. Len(lines) :
              Reading(lines)[i] \in Readers /\ ReaderInv(Reading(lines)[i])
<1> DEFINE n == Len(lines)
           S == {st \in Readers : ReaderInv(st)}
           step == [turn \in S \X (1 .. n) |-> ReadLine(turn[1], lines[turn[2]])]
           Turn(f) == [i \in 0 .. n |-> IF i = 0 THEN NothingRead
                                        ELSE ReadLine(f[i - 1], lines[i])]
<1>1. n \in Nat /\ \A i \in 1 .. n : lines[i] \in Lines
  OBVIOUS
<1>2. /\ \A st \in S, i \in 1 .. n : step[<<st, i>>] = ReadLine(st, lines[i])
      /\ \A st \in S, i \in 1 .. n : step[<<st, i>>] \in S
  BY <1>1, ReaderGoesOn
<1>3. NothingRead \in S
  BY ReaderBegins
<1>4. \E f \in [0 .. n -> S] : f = Turn(f)
  <2> HIDE DEF S, step, n, Turn
  <2>1. PICK f \in [0 .. n -> S] :
          f[0] = NothingRead /\ \A i \in 1 .. n : f[i] = step[<<f[i - 1], i>>]
    <3>1. Steps(step, n, S)
      BY <1>2 DEF Steps
    <3>2. n \in Nat
      BY <1>1
    <3>3. PICK base \in S : base = NothingRead
      BY <1>3
    <3>4. \E f \in [0 .. n -> S] :
            f[0] = base /\ \A i \in 1 .. n : f[i] = step[<<f[i - 1], i>>]
      BY <3>1, <3>2, Iterated, SMTT(30)
    <3> QED
      BY <3>3, <3>4
  <2>2. \A i \in 1 .. n : f[i] = ReadLine(f[i - 1], lines[i])
    <3>1. \A i \in 1 .. n : f[i - 1] \in S
      BY <1>1, <2>1
    <3> QED
      BY <1>2, <2>1, <3>1
  <2>3. \A i \in 0 .. n : f[i] = IF i = 0 THEN NothingRead ELSE ReadLine(f[i - 1], lines[i])
    BY <1>1, <2>1, <2>2
  <2>4. f = Turn(f)
    BY <2>1, <2>3 DEF Turn
  <2> QED
    BY <2>1, <2>4
<1>5. Reading(lines) = Turn(Reading(lines))
  <2>1. Reading(lines) = CHOOSE f : f = Turn(f)
    BY DEF Reading
  <2> HIDE DEF Turn
  <2> QED
    BY <1>4, <2>1
<1> HIDE DEF S
<1>6. /\ Reading(lines)[0] = NothingRead
      /\ \A i \in 1 .. n : Reading(lines)[i] = ReadLine(Reading(lines)[i - 1], lines[i])
  BY <1>1, <1>5
<1> DEFINE T == {i \in 0 .. n : Reading(lines)[i] \in S}
<1>7. 0 \in T
  BY <1>1, <1>3, <1>6
<1>8. \A i \in 1 .. n : i - 1 \in T => i \in T
  BY <1>1, <1>6, ReaderGoesOn DEF S
<1>9. \A i \in 0 .. n : i \in T
  <2> HIDE DEF T
  <2> QED
    BY <1>1, <1>7, <1>8, EveryTurn
<1> QED
  BY <1>1, <1>6, <1>9 DEF S

(* Which lines the reader keeps for the writer. *)
LEMMA KeptForWriter ==
  ASSUME NEW st \in Readers, NEW line \in Lines
  PROVE  ReadLine(st, line).lines =
           IF line.kind \in {"section", "comment", "none"}
              \/ (line.kind = "keyvalue" /\ st.inSection)
           THEN Append(st.lines, line) ELSE st.lines
<1>1. line.kind \in {"section", "keyvalue", "comment", "none", "unknown"}
  BY LineForms
<1>2. CASE line.kind = "section"
  BY <1>2 DEF ReadLine, Readers
<1>3. CASE line.kind = "keyvalue"
  BY <1>3 DEF ReadLine, Readers, InSection
<1>4. CASE line.kind \in {"comment", "none"}
  BY <1>4 DEF ReadLine, Readers
<1>5. CASE line.kind = "unknown"
  BY <1>5 DEF ReadLine, InSection
<1> QED
  BY <1>1, <1>2, <1>3, <1>4, <1>5

(* Lines that give every section a header, and of the keys their values    *)
(* and nothing else.                                                       *)
KeysTrue(L, m) ==
  \A j \in 1 .. Len(L) : L[j].kind = "keyvalue" =>
    \E s : /\ Under(L, j, s) /\ HasKey(m, s, L[j].key)
           /\ L[j] = KeyLine(L[j].key, ValueOf(m, s, L[j].key))
Says(L, m) == Known(L) /\ HeadersMatch(L, m) /\ KeysTrue(L, m) /\ KeysFound(L, m)

(* The reader drops none of them. *)
LEMMA ReadsAll ==
  ASSUME NEW L, NEW m, Says(L, m)
  PROVE  Read(L).lines = L
<1>1. /\ L \in Seq(Lines) /\ Len(L) \in Nat
      /\ \A i \in 1 .. Len(L) : L[i] \in Lines /\ L[i].kind # "unknown"
  BY DEF Says, Known
<1>2. /\ Reading(L)[0] = NothingRead
      /\ \A i \in 1 .. Len(L) : Reading(L)[i] = ReadLine(Reading(L)[i - 1], L[i])
      /\ \A i \in 0 .. Len(L) : Reading(L)[i] \in Readers /\ ReaderInv(Reading(L)[i])
  BY <1>1, ReadingTurns
<1> DEFINE T == {i \in 0 .. Len(L) : Reading(L)[i].lines = SubSeq(L, 1, i)}
<1>3. 0 \in T
  <2>1. NothingRead.lines = <<>>
    BY DEF NothingRead
  <2>2. SubSeq(L, 1, 0) = <<>> /\ 0 \in 0 .. Len(L)
    BY <1>1
  <2>3. Reading(L)[0].lines = SubSeq(L, 1, 0)
    BY <1>2, <2>1, <2>2
  <2> QED
    BY <2>2, <2>3
<1>4. ASSUME NEW i \in 1 .. Len(L), i - 1 \in T
      PROVE  i \in T
  <2> DEFINE st == Reading(L)[i - 1]
  <2>1. /\ st \in Readers /\ ReaderInv(st) /\ st.lines = SubSeq(L, 1, i - 1)
        /\ L[i] \in Lines /\ L[i].kind # "unknown"
    BY <1>1, <1>2, <1>4
  <2>2. L[i].kind = "keyvalue" => st.inSection
    <3> SUFFICES ASSUME L[i].kind = "keyvalue", ~st.inSection PROVE FALSE
      OBVIOUS
    <3>1. PICK s : Under(L, i, s)
      BY DEF Says, KeysTrue
    <3>2. PICK h \in 1 .. i : L[h] = Header(s)
      BY <3>1 DEF Under
    <3>3. h \in 1 .. i - 1 /\ L[h].kind = "section"
      BY <3>2, LineForms
    <3>4. Len(st.lines) = i - 1 /\ st.lines[h] = L[h]
      BY <1>1, <2>1, <3>3
    <3> QED
      BY <2>1, <3>3, <3>4 DEF ReaderInv
  <2>3. Reading(L)[i].lines = Append(SubSeq(L, 1, i - 1), L[i])
    <3>1. L[i].kind \in {"section", "keyvalue", "comment", "none"}
      BY <2>1, LineForms
    <3>2. Reading(L)[i] = ReadLine(st, L[i])
      BY <1>2
    <3> HIDE DEF st
    <3>3. ReadLine(st, L[i]).lines = Append(st.lines, L[i])
      BY <2>1, <2>2, <3>1, KeptForWriter
    <3> QED
      BY <2>1, <3>2, <3>3
  <2>4. Append(SubSeq(L, 1, i - 1), L[i]) = SubSeq(L, 1, i)
    BY <1>1
  <2> QED
    BY <2>3, <2>4
<1>5. Len(L) \in T
  <2> HIDE DEF T
  <2>1. \A i \in 0 .. Len(L) : i \in T
    BY <1>1, <1>3, <1>4, EveryTurn
  <2> QED
    BY <1>1, <2>1
<1>6. SubSeq(L, 1, Len(L)) = L
  BY <1>1
<1> QED
  BY <1>5, <1>6 DEF Read

(* What is read of any lines. *)
THEOREM ReadMeans ==
  ASSUME NEW lines \in Seq(Lines)
  PROVE  /\ Structure(Read(lines).data)
         /\ Known(Read(lines).lines)
         /\ Means(Read(lines).lines, Read(lines).data)
<1>1. Read(lines) \in Readers /\ ReaderInv(Read(lines))
  BY ReadingTurns DEF Read
<1> QED
  BY <1>1, SoundMapsMembers DEF ReaderInv, Readers, Structure

SameStore(m, n) ==
  /\ \A s : Has(m, s) <=> Has(n, s)
  /\ \A s, k : HasKey(m, s, k) <=> HasKey(n, s, k)
  /\ \A s, k : HasKey(n, s, k) => ValueOf(m, s, k) = ValueOf(n, s, k)

LEMMA SameAsStore ==
  ASSUME NEW m, NEW n, SameStore(m, n)
  PROVE  AsStore(m) = AsStore(n)
<1>1. DOMAIN m.index = DOMAIN n.index
  BY DEF SameStore, Has
<1>2. ASSUME NEW s \in DOMAIN n.index
      PROVE  AsFunction(Get(m, s)) = AsFunction(Get(n, s))
  <2>1. DOMAIN Get(m, s).index = DOMAIN Get(n, s).index
    BY <1>1 DEF SameStore, HasKey, Has
  <2>2. \A k \in DOMAIN Get(n, s).index : Get(Get(m, s), k) = Get(Get(n, s), k)
    BY DEF SameStore, HasKey, Has, ValueOf
  <2> QED
    BY <2>1, <2>2 DEF AsFunction
<1> QED
  BY <1>1, <1>2 DEF AsStore

(* What lines say is what is read of them. *)
THEOREM SaidIsRead ==
  ASSUME NEW L, NEW m, Says(L, m)
  PROVE  Read(L).lines = L /\ SameStore(Read(L).data, m)
<1> DEFINE n == Read(L).data
<1>1. L \in Seq(Lines) /\ Len(L) \in Nat
  BY DEF Says, Known
<1>2. Means(L, n) /\ Read(L).lines = L
  BY <1>1, ReadsAll, ReadMeans
<1> HIDE DEF n
<1>3. \A s : Has(n, s) <=> Has(m, s)
  BY <1>2 DEF Says, Means, HeadersMatch
<1>4. ASSUME NEW s, NEW k, HasKey(n, s, k)
      PROVE  HasKey(m, s, k) /\ ValueOf(n, s, k) = ValueOf(m, s, k)
  <2>1. PICK j \in 1 .. Len(L) : L[j] = KeyLine(k, ValueOf(n, s, k)) /\ Under(L, j, s)
    BY <1>2, <1>4 DEF Means, KeysFound
  <2>2. L[j].kind = "keyvalue" /\ L[j].key = k /\ L[j].value = ValueOf(n, s, k)
    BY <2>1, LineForms
  <2>3. PICK t : /\ Under(L, j, t) /\ HasKey(m, t, k)
                 /\ L[j] = KeyLine(k, ValueOf(m, t, k))
    BY <2>2 DEF Says, KeysTrue
  <2>4. s = t
    BY <1>1, <2>1, <2>3, UnderOne
  <2>5. L[j].value = ValueOf(m, s, k)
    BY <2>3, <2>4, LineForms
  <2> QED
    BY <2>2, <2>3, <2>4, <2>5
<1>5. ASSUME NEW s, NEW k, HasKey(m, s, k)
      PROVE  HasKey(n, s, k)
  <2>1. PICK j \in 1 .. Len(L) : L[j] = KeyLine(k, ValueOf(m, s, k)) /\ Under(L, j, s)
    BY <1>5 DEF Says, KeysFound
  <2>2. L[j].kind = "keyvalue" /\ L[j].key = k
    BY <2>1, LineForms
  <2>3. PICK t : Under(L, j, t) /\ HasKey(n, t, k)
    BY <1>2, <2>2 DEF Means, KeysKnown
  <2> QED
    BY <1>1, <2>1, <2>3, UnderOne
<1> QED
  BY <1>2, <1>3, <1>4, <1>5 DEF SameStore, n

-----------------------------------------------------------------------------
(* Filters *)

FilterTurn(f, seq, S) ==
  [i \in 0 .. Len(seq) |->
     IF i = 0 THEN <<>>
     ELSE IF seq[i] \in S THEN Append(f[i - 1], seq[i]) ELSE f[i - 1]]

Filters(f, seq, S) ==
  /\ f[0] = <<>>
  /\ \A i \in 1 .. Len(seq) :
       f[i] = IF seq[i] \in S THEN Append(f[i - 1], seq[i]) ELSE f[i - 1]

LEMMA FilterTurns ==
  ASSUME NEW E, NEW seq \in Seq(E), NEW S
  PROVE  \E f \in [0 .. Len(seq) -> Seq(E \cap S)] :
           Filter(seq, S) = f[Len(seq)] /\ Filters(f, seq, S)
<1> DEFINE n == Len(seq)
           R == Seq(E \cap S)
           step == [turn \in R \X (1 .. n) |->
                      IF seq[turn[2]] \in S THEN Append(turn[1], seq[turn[2]]) ELSE turn[1]]
<1>1. n \in Nat /\ (\A i \in 1 .. n : seq[i] \in E) /\ <<>> \in R
  OBVIOUS
<1>2. /\ \A x \in R, i \in 1 .. n :
           step[<<x, i>>] = IF seq[i] \in S THEN Append(x, seq[i]) ELSE x
      /\ \A x \in R, i \in 1 .. n : step[<<x, i>>] \in R
  BY <1>1
<1> HIDE DEF R, step
<1>3. PICK f \in [0 .. n -> R] : f[0] = <<>> /\ \A i \in 1 .. n : f[i] = step[<<f[i - 1], i>>]
  <2>1. Steps(step, n, R)
    BY <1>2 DEF Steps
  <2> HIDE DEF n
  <2> QED
    BY <1>1, <2>1, Iterated
<1>4. \A i \in 1 .. n : f[i] = IF seq[i] \in S THEN Append(f[i - 1], seq[i]) ELSE f[i - 1]
  <2>1. \A i \in 1 .. n : f[i - 1] \in R
    BY <1>1, <1>3
  <2> QED
    BY <1>2, <1>3, <2>1
<1>5. f = FilterTurn(f, seq, S)
  <2>1. ASSUME NEW i \in 0 .. n
        PROVE  f[i] = IF i = 0 THEN <<>>
                      ELSE IF seq[i] \in S THEN Append(f[i - 1], seq[i]) ELSE f[i - 1]
    <3>1. i = 0 \/ i \in 1 .. n
      BY <1>1
    <3> QED
      BY <1>3, <1>4, <3>1
  <2> QED
    BY <1>3, <2>1 DEF FilterTurn
<1> DEFINE g == CHOOSE h : h = FilterTurn(h, seq, S)
<1>6. g = FilterTurn(g, seq, S)
  BY <1>5
<1>7. Filter(seq, S) = g[n]
  BY DEF Filter, FilterTurn
<1> HIDE DEF g
<1>8. /\ g[0] = <<>>
      /\ \A i \in 1 .. n : g[i] = IF seq[i] \in S THEN Append(g[i - 1], seq[i]) ELSE g[i - 1]
  <2>1. \A i \in 0 .. n :
          g[i] = IF i = 0 THEN <<>>
                 ELSE IF seq[i] \in S THEN Append(g[i - 1], seq[i]) ELSE g[i - 1]
    BY <1>6 DEF FilterTurn
  <2>2. 0 \in 0 .. n /\ \A i \in 1 .. n : i \in 0 .. n /\ i # 0
    BY <1>1
  <2> QED
    BY <2>1, <2>2
<1> DEFINE T == {i \in 0 .. n : g[i] = f[i]}
<1>9. \A i \in 0 .. n : i \in T
  <2>1. 0 \in T
    BY <1>1, <1>3, <1>8
  <2>2. ASSUME NEW i \in 1 .. n, i - 1 \in T PROVE i \in T
    <3>1. g[i - 1] = f[i - 1] /\ i \in 0 .. n
      BY <1>1, <2>2
    <3> QED
      BY <1>4, <1>8, <3>1
  <2> HIDE DEF T, n
  <2> QED
    BY <1>1, <2>1, <2>2, EveryTurn
<1>10. n \in 0 .. n
  BY <1>1
<1>11. Filters(f, seq, S) /\ Filter(seq, S) = f[n]
  BY <1>3, <1>4, <1>7, <1>9, <1>10 DEF Filters
<1> QED
  BY <1>3, <1>11 DEF R

(* Only one function is the filter's. *)
LEMMA FilterIs ==
  ASSUME NEW E, NEW seq \in Seq(E), NEW S, NEW f, Filters(f, seq, S)
  PROVE  Filter(seq, S) = f[Len(seq)]
<1>1. PICK g \in [0 .. Len(seq) -> Seq(E \cap S)] :
        Filter(seq, S) = g[Len(seq)] /\ Filters(g, seq, S)
  BY FilterTurns
<1> DEFINE n == Len(seq)
           T == {i \in 0 .. n : g[i] = f[i]}
<1>2. n \in Nat /\ n \in 0 .. n
  OBVIOUS
<1>3. 0 \in T
  BY <1>1, <1>2 DEF Filters
<1>4. ASSUME NEW i \in 1 .. n, i - 1 \in T PROVE i \in T
  <2>1. g[i - 1] = f[i - 1] /\ i \in 0 .. n
    BY <1>2, <1>4
  <2> QED
    BY <1>1, <2>1 DEF Filters
<1>5. \A i \in 0 .. n : i \in T
  <2> HIDE DEF T, n
  <2> QED
    BY <1>2, <1>3, <1>4, EveryTurn
<1> QED
  BY <1>1, <1>2, <1>5

LEMMA FilterEmpty ==
  ASSUME NEW S
  PROVE  Filter(<<>>, S) = <<>>
<1>1. <<>> \in Seq({}) /\ Len(<<>>) = 0
  OBVIOUS
<1>2. PICK f \in [0 .. Len(<<>>) -> Seq({} \cap S)] :
        Filter(<<>>, S) = f[Len(<<>>)] /\ Filters(f, <<>>, S)
  BY <1>1, FilterTurns
<1> QED
  BY <1>1, <1>2 DEF Filters

LEMMA FilterAppend ==
  ASSUME NEW E, NEW seq \in Seq(E), NEW x \in E, NEW S
  PROVE  Filter(Append(seq, x), S) =
           IF x \in S THEN Append(Filter(seq, S), x) ELSE Filter(seq, S)
<1> DEFINE more == Append(seq, x)  n == Len(seq)
<1>1. /\ more \in Seq(E) /\ Len(more) = n + 1 /\ n \in Nat
      /\ more[n + 1] = x /\ \A i \in 1 .. n : more[i] = seq[i]
  OBVIOUS
<1> HIDE DEF more
<1>2. PICK f \in [0 .. Len(more) -> Seq(E \cap S)] :
        Filter(more, S) = f[Len(more)] /\ Filters(f, more, S)
  BY <1>1, FilterTurns
<1>3. Filters(f, seq, S)
  BY <1>1, <1>2 DEF Filters
<1>4. Filter(seq, S) = f[n]
  BY <1>2, <1>3, FilterIs
<1>5. n + 1 \in 1 .. Len(more) /\ n + 1 - 1 = n
  BY <1>1
<1> QED
  BY <1>1, <1>2, <1>4, <1>5 DEF more, Filters

LEMMA Filtered ==
  ASSUME NEW E, NEW seq \in Seq(E), NEW S
  PROVE  Filter(seq, S) \in Seq(E \cap S)
<1>1. PICK f \in [0 .. Len(seq) -> Seq(E \cap S)] :
        Filter(seq, S) = f[Len(seq)] /\ Filters(f, seq, S)
  BY FilterTurns
<1>2. Len(seq) \in 0 .. Len(seq)
  OBVIOUS
<1> QED
  BY <1>1, <1>2

LEMMA FilterKeeps ==
  ASSUME NEW E, NEW seq \in Seq(E), NEW S, NEW at \in 1 .. Len(seq), seq[at] \in S
  PROVE  \E i \in 1 .. Len(Filter(seq, S)) : Filter(seq, S)[i] = seq[at]
<1>1. PICK f \in [0 .. Len(seq) -> Seq(E \cap S)] :
        Filter(seq, S) = f[Len(seq)] /\ Filters(f, seq, S)
  BY FilterTurns
<1> DEFINE n == Len(seq)
           Has1(i, j) == \E x \in 1 .. Len(f[i]) : f[i][x] = seq[j]
           T == {i \in 0 .. n : \A j \in 1 .. i : seq[j] \in S => Has1(i, j)}
<1>2. n \in Nat /\ n \in 0 .. n
  OBVIOUS
<1>3. 0 \in T
  BY <1>2
<1>4. ASSUME NEW i \in 1 .. n, i - 1 \in T
      PROVE  i \in T
  <2>1. f[i - 1] \in Seq(E \cap S) /\ seq[i] \in E
    <3>1. i - 1 \in 0 .. n
      OBVIOUS
    <3> QED
      BY <1>1, <3>1
  <2>2. ASSUME NEW j \in 1 .. i, seq[j] \in S PROVE Has1(i, j)
    <3>1. CASE j = i
      <4>1. f[i] = Append(f[i - 1], seq[i])
        BY <1>1, <2>2, <3>1 DEF Filters
      <4>2. Len(f[i]) = Len(f[i - 1]) + 1 /\ f[i][Len(f[i])] = seq[i] /\ Len(f[i - 1]) \in Nat
        BY <2>1, <2>2, <3>1, <4>1
      <4>3. Len(f[i]) \in 1 .. Len(f[i])
        BY <4>2
      <4> QED
        BY <3>1, <4>2, <4>3
    <3>2. CASE j # i
      <4>1. j \in 1 .. i - 1
        BY <3>2
      <4>2. PICK x \in 1 .. Len(f[i - 1]) : f[i - 1][x] = seq[j]
        BY <1>4, <2>2, <4>1
      <4>3. f[i] = Append(f[i - 1], seq[i]) \/ f[i] = f[i - 1]
        BY <1>1 DEF Filters
      <4>4. x \in 1 .. Len(f[i]) /\ f[i][x] = seq[j]
        BY <2>1, <2>2, <4>2, <4>3
      <4> QED
        BY <4>4
    <3> QED
      BY <3>1, <3>2
  <2> HIDE DEF Has1
  <2> QED
    BY <2>2
<1>5. \A i \in 0 .. n : i \in T
  <2> HIDE DEF T, n
  <2> QED
    BY <1>2, <1>3, <1>4, EveryTurn
<1>6. f[n] \in Seq(E \cap S) /\ f[n] = Filter(seq, S)
  BY <1>1, <1>2
<1>7. Has1(n, at)
  BY <1>2, <1>5
<1> QED
  BY <1>6, <1>7

(* Nothing is in it that was not there. *)
LEMMA FilteredFrom ==
  ASSUME NEW E, NEW seq \in Seq(E), NEW S
  PROVE  \A i \in 1 .. Len(Filter(seq, S)) : \E j \in 1 .. Len(seq) : Filter(seq, S)[i] = seq[j]
<1> DEFINE F == {seq[j] : j \in 1 .. Len(seq)}
<1>1. seq \in Seq(F)
  OBVIOUS
<1> HIDE DEF F
<1>2. Filter(seq, S) \in Seq(F \cap S)
  BY <1>1, Filtered
<1>3. \A i \in 1 .. Len(Filter(seq, S)) : Filter(seq, S)[i] \in F
  BY <1>2
<1> QED
  BY <1>3 DEF F

-----------------------------------------------------------------------------
(* Writing: the parts of the output *)

LEMMA KeyLinesOf ==
  ASSUME NEW m, SoundMap(m, Keys, Values)
  PROVE  /\ KeyLines(m) \in Seq(Lines)
         /\ \A i \in 1 .. Len(KeyLines(m)) :
              \E k : Has(m, k) /\ k \in Keys /\ KeyLines(m)[i] = KeyLine(k, Get(m, k))
         /\ \A k : Has(m, k) =>
              \E i \in 1 .. Len(KeyLines(m)) : KeyLines(m)[i] = KeyLine(k, Get(m, k))
<1> DEFINE n == Len(m.data)
<1>1. /\ m.data \in Seq(Entries(Keys, Values)) /\ n \in Nat /\ DOMAIN m.data = 1 .. n
      /\ \A i \in 1 .. n : m.data[i].key \in Keys /\ m.data[i].value \in Values
  <2>1. m.data \in Seq(Entries(Keys, Values))
    BY DEF SoundMap, IsMap
  <2>2. \A i \in 1 .. n : m.data[i] \in Entries(Keys, Values)
    BY <2>1
  <2> QED
    BY <2>1, <2>2 DEF Entries
<1>2. /\ \A k \in DOMAIN m.index : m.index[k] \in 1 .. n /\ m.data[m.index[k]].key = k
      /\ \A i \in 1 .. n : m.data[i].key \in DOMAIN m.index /\ m.index[m.data[i].key] = i
  BY <1>1 DEF SoundMap, Sound
<1>3. KeyLines(m) = [i \in 1 .. n |-> KeyLine(m.data[i].key, m.data[i].value)]
  BY <1>1 DEF KeyLines
<1>4. \A i \in 1 .. n : KeyLine(m.data[i].key, m.data[i].value) \in Lines
  BY <1>1, LineForms
<1>5. KeyLines(m) \in Seq(Lines) /\ Len(KeyLines(m)) = n
  <2>1. KeyLines(m) \in [1 .. n -> Lines]
    BY <1>3, <1>4
  <2> QED
    BY <1>1, <2>1
<1>6. \A i \in 1 .. n : m.data[i].value = Get(m, m.data[i].key)
  BY <1>2 DEF Get
<1> HIDE DEF n
<1>7. ASSUME NEW i \in 1 .. n
      PROVE  \E k : Has(m, k) /\ k \in Keys /\ KeyLines(m)[i] = KeyLine(k, Get(m, k))
  <2>1. PICK k : k = m.data[i].key
    OBVIOUS
  <2>2. k \in Keys /\ Has(m, k)
    BY <1>1, <1>2, <2>1 DEF Has
  <2>3. KeyLines(m)[i] = KeyLine(k, Get(m, k))
    BY <1>3, <1>6, <2>1
  <2> QED
    BY <2>2, <2>3
<1>8. ASSUME NEW k, Has(m, k)
      PROVE  \E i \in 1 .. n : KeyLines(m)[i] = KeyLine(k, Get(m, k))
  BY <1>2, <1>3, <1>6, <1>8 DEF Has
<1> QED
  BY <1>5, <1>7, <1>8

LEMMA NewKeysOf ==
  ASSUME NEW data, Structure(data), NEW original, Structure(original), NEW s
  PROVE  /\ NewKeys(s, data, original) \in Seq(Lines)
         /\ \A i \in 1 .. Len(NewKeys(s, data, original)) :
              \E k : /\ HasKey(data, s, k)
                     /\ NewKeys(s, data, original)[i] = KeyLine(k, ValueOf(data, s, k))
         /\ Has(original, s) =>
              \A k : HasKey(data, s, k) /\ ~HasKey(original, s, k) =>
                \E i \in 1 .. Len(NewKeys(s, data, original)) :
                  NewKeys(s, data, original)[i] = KeyLine(k, ValueOf(data, s, k))
         /\ ~(Has(data, s) /\ Has(original, s)) => NewKeys(s, data, original) = <<>>
<1>1. CASE ~(Has(data, s) /\ Has(original, s))
  BY <1>1 DEF NewKeys, HasKey
<1>2. CASE Has(data, s) /\ Has(original, s)
  <2> DEFINE all == KeyLines(Get(data, s))
             S   == {KeyLine(k, v) : k \in Keys \ DOMAIN Get(original, s).index, v \in Values}
             new == Filter(all, S)
  <2>1. SoundMap(Get(data, s), Keys, Values)
    BY <1>2, SectionTyped
  <2>2. /\ all \in Seq(Lines)
        /\ \A i \in 1 .. Len(all) :
             \E k : HasKey(data, s, k) /\ k \in Keys /\ all[i] = KeyLine(k, ValueOf(data, s, k))
        /\ \A k : HasKey(data, s, k) =>
             \E i \in 1 .. Len(all) : all[i] = KeyLine(k, ValueOf(data, s, k))
    BY <1>2, <2>1, KeyLinesOf DEF HasKey, ValueOf
  <2>3. NewKeys(s, data, original) = new
    BY <1>2 DEF NewKeys
  <2> HIDE DEF all, S, new
  <2>4. /\ new \in Seq(Lines \cap S)
        /\ \A j \in 1 .. Len(all) : all[j] \in S => \E i \in 1 .. Len(new) : new[i] = all[j]
        /\ \A i \in 1 .. Len(new) : \E j \in 1 .. Len(all) : new[i] = all[j]
    <3>1. all \in Seq(Lines)
      BY <2>2
    <3>2. new = Filter(all, S)
      BY DEF new
    <3>3. Filter(all, S) \in Seq(Lines \cap S)
      BY <3>1, Filtered
    <3>4. ASSUME NEW j \in 1 .. Len(all), all[j] \in S
          PROVE  \E i \in 1 .. Len(Filter(all, S)) : Filter(all, S)[i] = all[j]
      BY <3>1, <3>4, FilterKeeps
    <3>5. \A i \in 1 .. Len(Filter(all, S)) : \E j \in 1 .. Len(all) : Filter(all, S)[i] = all[j]
      BY <3>1, FilteredFrom
    <3> QED
      BY <3>2, <3>3, <3>4, <3>5
  <2>5. \A k : HasKey(data, s, k) /\ ~HasKey(original, s, k) => KeyLine(k, ValueOf(data, s, k)) \in S
    BY <1>2, ValueTyped DEF S, HasKey, Has
  <2>6. ASSUME NEW k, HasKey(data, s, k), ~HasKey(original, s, k)
        PROVE  \E i \in 1 .. Len(new) : new[i] = KeyLine(k, ValueOf(data, s, k))
    <3>1. PICK j \in 1 .. Len(all) : all[j] = KeyLine(k, ValueOf(data, s, k))
      BY <2>2, <2>6
    <3>2. all[j] \in S
      BY <2>5, <2>6, <3>1
    <3>3. PICK i \in 1 .. Len(new) : new[i] = all[j]
      BY <2>4, <3>2
    <3> QED
      BY <3>1, <3>3
  <2>7. new \in Seq(Lines)
    BY <2>4
  <2>8. ASSUME NEW i \in 1 .. Len(new)
        PROVE  \E k : HasKey(data, s, k) /\ new[i] = KeyLine(k, ValueOf(data, s, k))
    <3>1. PICK j \in 1 .. Len(all) : new[i] = all[j]
      BY <2>4
    <3>2. PICK k : HasKey(data, s, k) /\ all[j] = KeyLine(k, ValueOf(data, s, k))
      BY <2>2
    <3> QED
      BY <3>1, <3>2
  <2> QED
    BY <1>2, <2>3, <2>6, <2>7, <2>8
<1> QED
  BY <1>1, <1>2

(* A sequence put into another one, below its first p elements. *)
Spread(L, p, new) == SubSeq(L, 1, p) \o new \o SubSeq(L, p + 1, Len(L))

LEMMA SpreadPlaces ==
  ASSUME NEW E, NEW L \in Seq(E), NEW new \in Seq(E), NEW p \in 0 .. Len(L)
  PROVE  /\ Spread(L, p, new) \in Seq(E)
         /\ Len(Spread(L, p, new)) = Len(L) + Len(new)
         /\ \A x \in 1 .. p : Spread(L, p, new)[x] = L[x]
         /\ \A x \in 1 .. Len(new) : Spread(L, p, new)[p + x] = new[x]
         /\ \A x \in p + 1 .. Len(L) : Spread(L, p, new)[x + Len(new)] = L[x]
<1> DEFINE a == SubSeq(L, 1, p)  b == SubSeq(L, p + 1, Len(L))  ab == a \o new
           M == ab \o b
<1>1. /\ a \in Seq(E) /\ Len(a) = p /\ \A x \in 1 .. p : a[x] = L[x]
      /\ Len(L) \in Nat /\ Len(new) \in Nat /\ p \in Nat /\ p <= Len(L)
  OBVIOUS
<1>2. b \in Seq(E) /\ Len(b) = Len(L) - p /\ \A x \in 1 .. Len(L) - p : b[x] = L[x + p]
  OBVIOUS
<1>3. Spread(L, p, new) = M
  BY DEF Spread
<1> HIDE DEF a, b
<1>4. /\ ab \in Seq(E) /\ Len(ab) = p + Len(new)
      /\ \A j \in 1 .. p + Len(new) : ab[j] = IF j <= p THEN a[j] ELSE new[j - p]
  BY <1>1, Concatenated
<1> HIDE DEF ab
<1>5. /\ M \in Seq(E) /\ Len(M) = Len(ab) + Len(b)
      /\ \A j \in 1 .. Len(ab) + Len(b) :
           M[j] = IF j <= Len(ab) THEN ab[j] ELSE b[j - Len(ab)]
  BY <1>2, <1>4, Concatenated
<1> HIDE DEF M
<1>6. Len(M) = Len(L) + Len(new)
  BY <1>1, <1>2, <1>4, <1>5
<1>7. ASSUME NEW x \in 1 .. p PROVE M[x] = L[x]
  <2>1. x \in 1 .. p + Len(new) /\ x <= p
    BY <1>1
  <2>2. x \in 1 .. Len(ab) + Len(b) /\ x <= Len(ab)
    BY <1>1, <1>2, <1>4
  <2>3. M[x] = ab[x] /\ ab[x] = a[x]
    BY <1>4, <1>5, <2>1, <2>2
  <2> QED
    BY <1>1, <2>3
<1>8. ASSUME NEW x \in 1 .. Len(new) PROVE M[p + x] = new[x]
  <2>1. p + x \in 1 .. p + Len(new) /\ ~(p + x <= p) /\ p + x - p = x
    BY <1>1
  <2>2. p + x \in 1 .. Len(ab) + Len(b) /\ p + x <= Len(ab)
    BY <1>1, <1>2, <1>4, <2>1
  <2>3. M[p + x] = ab[p + x] /\ ab[p + x] = new[x]
    BY <1>4, <1>5, <2>1, <2>2
  <2> QED
    BY <2>3
<1>9. ASSUME NEW x \in p + 1 .. Len(L) PROVE M[x + Len(new)] = L[x]
  <2> DEFINE y == x + Len(new)
  <2>1. /\ y \in 1 .. Len(ab) + Len(b) /\ ~(y <= Len(ab)) /\ y - Len(ab) = x - p
        /\ x - p \in 1 .. Len(L) - p /\ x - p + p = x
    BY <1>1, <1>2, <1>4
  <2> HIDE DEF y
  <2>2. M[y] = b[x - p]
    BY <1>5, <2>1
  <2> QED
    BY <1>2, <2>1, <2>2 DEF y
<1> QED
  BY <1>3, <1>5, <1>6, <1>7, <1>8, <1>9

LEMMA SpreadNothing ==
  ASSUME NEW E, NEW L \in Seq(E), NEW p \in 0 .. Len(L)
  PROVE  Spread(L, p, <<>>) = L
<1>1. PICK none \in Seq(E) : none = <<>> /\ Len(none) = 0
  <2>1. <<>> \in Seq(E) /\ Len(<<>>) = 0
    OBVIOUS
  <2> QED
    BY <2>1
<1>2. Len(L) \in Nat /\ Len(L) + 0 = Len(L) /\ p \in Nat /\ p <= Len(L)
  OBVIOUS
<1> DEFINE M == Spread(L, p, none)
<1>3. /\ M \in Seq(E) /\ Len(M) = Len(L) + Len(none)
      /\ \A x \in 1 .. p : M[x] = L[x]
      /\ \A x \in p + 1 .. Len(L) : M[x + Len(none)] = L[x]
  BY SpreadPlaces, SMTT(15)
<1> HIDE DEF M
<1>4. ASSUME NEW x \in 1 .. Len(L) PROVE M[x] = L[x]
  <2>1. x + Len(none) = x /\ (x \in 1 .. p \/ x \in p + 1 .. Len(L))
    BY <1>1, <1>2
  <2> QED
    BY <1>3, <2>1
<1> QED
  BY <1>1, <1>2, <1>3, <1>4 DEF M

LEMMA Associative ==
  ASSUME NEW E, NEW a \in Seq(E), NEW b \in Seq(E), NEW c \in Seq(E)
  PROVE  a \o (b \o c) = (a \o b) \o c
<1> DEFINE left == a \o (b \o c)  right == (a \o b) \o c
<1>1. /\ b \o c \in Seq(E) /\ Len(b \o c) = Len(b) + Len(c)
      /\ \A j \in 1 .. Len(b) + Len(c) :
           (b \o c)[j] = IF j <= Len(b) THEN b[j] ELSE c[j - Len(b)]
  BY Concatenated
<1>2. /\ a \o b \in Seq(E) /\ Len(a \o b) = Len(a) + Len(b)
      /\ \A j \in 1 .. Len(a) + Len(b) :
           (a \o b)[j] = IF j <= Len(a) THEN a[j] ELSE b[j - Len(a)]
  BY Concatenated
<1> DEFINE n == Len(a) + Len(b) + Len(c)
<1>3. /\ Len(a) \in Nat /\ Len(b) \in Nat /\ Len(c) \in Nat
      /\ Len(a) + (Len(b) + Len(c)) = n
  OBVIOUS
<1>4. /\ left \in Seq(E) /\ Len(left) = n
      /\ \A j \in 1 .. n : left[j] = IF j <= Len(a) THEN a[j] ELSE (b \o c)[j - Len(a)]
  <2>1. PICK bc \in Seq(E) : bc = b \o c
    BY <1>1
  <2>2. /\ a \o bc \in Seq(E) /\ Len(a \o bc) = Len(a) + Len(bc)
        /\ \A j \in 1 .. Len(a) + Len(bc) :
             (a \o bc)[j] = IF j <= Len(a) THEN a[j] ELSE bc[j - Len(a)]
    BY Concatenated
  <2>3. Len(bc) = Len(b) + Len(c)
    BY <1>1, <2>1
  <2>4. left = a \o bc
    BY <2>1
  <2> HIDE DEF left
  <2> QED
    BY <1>3, <2>1, <2>2, <2>3, <2>4
<1>5. /\ right \in Seq(E) /\ Len(right) = n
      /\ \A j \in 1 .. n : right[j] = IF j <= Len(a) + Len(b) THEN (a \o b)[j]
                                      ELSE c[j - (Len(a) + Len(b))]
  <2>1. PICK ab \in Seq(E) : ab = a \o b
    BY <1>2
  <2>2. /\ ab \o c \in Seq(E) /\ Len(ab \o c) = Len(ab) + Len(c)
        /\ \A j \in 1 .. Len(ab) + Len(c) :
             (ab \o c)[j] = IF j <= Len(ab) THEN ab[j] ELSE c[j - Len(ab)]
    BY Concatenated
  <2>3. Len(ab) = Len(a) + Len(b)
    BY <1>2, <2>1
  <2>4. right = ab \o c
    BY <2>1
  <2> HIDE DEF right
  <2> QED
    BY <1>3, <2>1, <2>2, <2>3, <2>4
<1> HIDE DEF left, right
<1>6. ASSUME NEW j \in 1 .. n PROVE left[j] = right[j]
  <2>1. CASE j <= Len(a)
    <3>1. j \in 1 .. Len(a) + Len(b) /\ j <= Len(a) + Len(b)
      BY <1>3, <2>1
    <3> QED
      BY <1>2, <1>4, <1>5, <2>1, <3>1
  <2>2. CASE ~(j <= Len(a)) /\ j <= Len(a) + Len(b)
    <3>1. /\ j \in 1 .. Len(a) + Len(b)
          /\ j - Len(a) \in 1 .. Len(b) + Len(c) /\ j - Len(a) <= Len(b)
      BY <1>3, <2>2
    <3>2. left[j] = (b \o c)[j - Len(a)] /\ (b \o c)[j - Len(a)] = b[j - Len(a)]
      BY <1>1, <1>4, <2>2, <3>1
    <3>3. right[j] = (a \o b)[j] /\ (a \o b)[j] = b[j - Len(a)]
      BY <1>2, <1>5, <2>2, <3>1
    <3> QED
      BY <3>2, <3>3
  <2>3. CASE ~(j <= Len(a) + Len(b))
    <3>1. /\ ~(j <= Len(a)) /\ j - Len(a) \in 1 .. Len(b) + Len(c)
          /\ ~(j - Len(a) <= Len(b)) /\ j - Len(a) - Len(b) = j - (Len(a) + Len(b))
      BY <1>3, <2>3
    <3>2. left[j] = (b \o c)[j - Len(a)]
      BY <1>4, <3>1
    <3>3. (b \o c)[j - Len(a)] = c[j - Len(a) - Len(b)]
      BY <1>1, <3>1
    <3> QED
      BY <1>5, <2>3, <3>1, <3>2, <3>3
  <2> QED
    BY <2>1, <2>2, <2>3
<1> QED
  BY <1>4, <1>5, <1>6 DEF left, right

(* What the lines written so far say is true of the structure ...          *)
HeadersTrue(L, m) == \A j \in 1 .. Len(L) : \A s : L[j] = Header(s) => Has(m, s)
Told(L, m) == Known(L) /\ HeadersTrue(L, m) /\ KeysTrue(L, m)

(* ... and this they say of it. *)
Heads(L, s)    == \E x \in 1 .. Len(L) : L[x] = Header(s)
Wrote(L, s, k) == \E x \in 1 .. Len(L) :
                    L[x].kind = "keyvalue" /\ L[x].key = k /\ Under(L, x, s)
Grown(L, M) == /\ \A s : Heads(L, s) => Heads(M, s)
               /\ \A s, k : Wrote(L, s, k) => Wrote(M, s, k)

(* From the p-th line on, all lines are the section's. *)
OpenAt(L, p, s) ==
  /\ p \in 1 .. Len(L) /\ Under(L, p, s)
  /\ \A x \in p + 1 .. Len(L) : L[x].kind # "section"

LEMMA OpenThroughout ==
  ASSUME NEW L \in Seq(Lines), NEW p, NEW s, OpenAt(L, p, s)
  PROVE  \A x \in p .. Len(L) : Under(L, x, s)
<1>1. p \in 1 .. Len(L) /\ Len(L) \in Nat
  BY DEF OpenAt
<1>2. PICK h \in 1 .. p : L[h] = Header(s) /\ \A x \in h + 1 .. p : L[x].kind # "section"
  BY DEF OpenAt, Under
<1>3. ASSUME NEW y \in p .. Len(L) PROVE Under(L, y, s)
  <2>1. h \in 1 .. y
    BY <1>1, <1>2
  <2>2. ASSUME NEW x \in h + 1 .. y PROVE L[x].kind # "section"
    <3>1. x \in h + 1 .. p \/ x \in p + 1 .. Len(L)
      BY <1>1, <1>2
    <3> QED
      BY <1>2, <3>1 DEF OpenAt
  <2> QED
    BY <1>2, <2>1, <2>2 DEF Under
<1> QED
  BY <1>3

(* A line more. *)
LEMMA AppendTold ==
  ASSUME NEW L, NEW m, Told(L, m), NEW line \in Lines, line.kind # "unknown",
         line.kind = "section" => Has(m, line.name),
         line.kind = "keyvalue" =>
           \E s : /\ Under(L, Len(L), s) /\ HasKey(m, s, line.key)
                  /\ line = KeyLine(line.key, ValueOf(m, s, line.key))
  PROVE  /\ Told(Append(L, line), m) /\ Grown(L, Append(L, line))
         /\ \A s : line = Header(s) => Heads(Append(L, line), s)
                                       /\ OpenAt(Append(L, line), Len(L) + 1, s)
         /\ \A s : line.kind = "keyvalue" /\ Under(L, Len(L), s) =>
                     /\ Wrote(Append(L, line), s, line.key)
                     /\ OpenAt(Append(L, line), Len(L) + 1, s)
         /\ \A p, s : OpenAt(L, p, s) /\ line.kind # "section" =>
                        OpenAt(Append(L, line), p, s)
<1> DEFINE M == Append(L, line)
<1>1. L \in Seq(Lines) /\ Known(L) /\ HeadersTrue(L, m) /\ KeysTrue(L, m)
  BY DEF Told, Known
<1>2. /\ M \in Seq(Lines) /\ Len(M) = Len(L) + 1 /\ Len(L) \in Nat
      /\ M[Len(L) + 1] = line /\ \A x \in 1 .. Len(L) : M[x] = L[x]
      /\ \A j \in 1 .. Len(L) : \A s : Under(M, j, s) <=> Under(L, j, s)
      /\ \A s : Under(L, Len(L), s) /\ line.kind # "section" => Under(M, Len(L) + 1, s)
  BY <1>1, AppendLine
<1>3. Known(M)
  BY <1>1, KnownAppend DEF Told
<1> HIDE DEF M
<1>4. \A x \in 1 .. Len(M) : x \in 1 .. Len(L) \/ x = Len(L) + 1
  BY <1>2
<1>5. HeadersTrue(M, m)
  <2> SUFFICES ASSUME NEW j \in 1 .. Len(M), NEW s, M[j] = Header(s) PROVE Has(m, s)
    BY DEF HeadersTrue
  <2>1. CASE j \in 1 .. Len(L)
    BY <1>1, <1>2, <2>1 DEF HeadersTrue
  <2>2. CASE j = Len(L) + 1
    <3>1. line = Header(s)
      BY <1>2, <2>2
    <3>2. line.kind = "section" /\ line.name = s
      BY <3>1, LineForms
    <3> QED
      BY <3>2
  <2> QED
    BY <1>4, <2>1, <2>2
<1>6. KeysTrue(M, m)
  <2> SUFFICES ASSUME NEW j \in 1 .. Len(M), M[j].kind = "keyvalue"
               PROVE  \E s : /\ Under(M, j, s) /\ HasKey(m, s, M[j].key)
                             /\ M[j] = KeyLine(M[j].key, ValueOf(m, s, M[j].key))
    BY DEF KeysTrue
  <2>1. CASE j \in 1 .. Len(L)
    BY <1>1, <1>2, <2>1 DEF KeysTrue
  <2>2. CASE j = Len(L) + 1
    <3>1. M[j] = line /\ line.kind = "keyvalue" /\ line.kind # "section"
      BY <1>2, <2>2
    <3>2. PICK s : /\ Under(L, Len(L), s) /\ HasKey(m, s, line.key)
                   /\ line = KeyLine(line.key, ValueOf(m, s, line.key))
      BY <3>1
    <3>3. Under(M, j, s)
      BY <1>2, <2>2, <3>1, <3>2
    <3> QED
      BY <3>1, <3>2, <3>3
  <2> QED
    BY <1>4, <2>1, <2>2
<1>7. Grown(L, M)
  <2>1. \A s : Heads(L, s) => Heads(M, s)
    BY <1>2 DEF Heads
  <2>2. \A s, k : Wrote(L, s, k) => Wrote(M, s, k)
    BY <1>2 DEF Wrote
  <2> QED
    BY <2>1, <2>2 DEF Grown
<1>8. Len(L) + 1 \in 1 .. Len(M) /\ (\A x \in Len(L) + 1 + 1 .. Len(M) : FALSE)
  BY <1>2
<1>9. ASSUME NEW s, line = Header(s)
      PROVE  Heads(M, s) /\ OpenAt(M, Len(L) + 1, s)
  <2>1. Under(M, Len(L) + 1, s)
    BY <1>2, <1>9, UnderNext
  <2> QED
    BY <1>2, <1>8, <1>9, <2>1 DEF Heads, OpenAt
<1>10. ASSUME NEW s, line.kind = "keyvalue", Under(L, Len(L), s)
       PROVE  Wrote(M, s, line.key) /\ OpenAt(M, Len(L) + 1, s)
  <2>1. Under(M, Len(L) + 1, s)
    BY <1>2, <1>10
  <2> QED
    BY <1>2, <1>8, <1>10, <2>1 DEF Wrote, OpenAt
<1>11. ASSUME NEW p, NEW s, OpenAt(L, p, s), line.kind # "section"
       PROVE  OpenAt(M, p, s)
  <2>1. p \in 1 .. Len(L) /\ Under(L, p, s) /\ \A x \in p + 1 .. Len(L) : L[x].kind # "section"
    BY <1>11 DEF OpenAt
  <2>2. p \in 1 .. Len(M) /\ Under(M, p, s)
    BY <1>2, <2>1
  <2>3. ASSUME NEW x \in p + 1 .. Len(M) PROVE M[x].kind # "section"
    <3>1. x = Len(L) + 1 \/ (x \in p + 1 .. Len(L) /\ x \in 1 .. Len(L))
      BY <1>2, <2>1
    <3> QED
      BY <1>2, <1>11, <2>1, <3>1
  <2> QED
    BY <2>2, <2>3 DEF OpenAt
<1> QED
  BY <1>3, <1>5, <1>6, <1>7, <1>9, <1>10, <1>11 DEF Told, M

(* New keys, put below a line of their section, which is the last one. *)
KeysOfSection(new, m, s) ==
  \A i \in 1 .. Len(new) :
    \E k : HasKey(m, s, k) /\ new[i] = KeyLine(k, ValueOf(m, s, k))

LEMMA SpreadTold ==
  ASSUME NEW L, NEW m, Told(L, m), NEW p, NEW s, OpenAt(L, p, s),
         NEW new \in Seq(Lines), KeysOfSection(new, m, s)
  PROVE  /\ Told(Spread(L, p, new), m) /\ Grown(L, Spread(L, p, new))
         /\ OpenAt(Spread(L, p, new), p, s)
         /\ \A i \in 1 .. Len(new) : \A k, v :
              new[i] = KeyLine(k, v) => Wrote(Spread(L, p, new), s, k)
<1> DEFINE M == Spread(L, p, new)  n == Len(new)
<1>1. /\ L \in Seq(Lines) /\ Known(L) /\ HeadersTrue(L, m) /\ KeysTrue(L, m)
      /\ Len(L) \in Nat /\ n \in Nat /\ p \in 1 .. Len(L) /\ p \in 0 .. Len(L)
      /\ \A x \in 1 .. Len(L) : L[x].kind # "unknown"
      /\ \A x \in p + 1 .. Len(L) : L[x].kind # "section"
  BY DEF Told, Known, OpenAt
<1>2. /\ M \in Seq(Lines) /\ Len(M) = Len(L) + n
      /\ \A x \in 1 .. p : M[x] = L[x]
      /\ \A x \in 1 .. n : M[p + x] = new[x]
      /\ \A x \in p + 1 .. Len(L) : M[x + n] = L[x]
  <2>0. PICK K \in Seq(Lines) : K = L
    BY <1>1
  <2>1. PICK q \in 0 .. Len(K) : q = p
    BY <1>1, <2>0
  <2>2. /\ Spread(K, q, new) \in Seq(Lines)
        /\ Len(Spread(K, q, new)) = Len(K) + Len(new)
        /\ \A x \in 1 .. q : Spread(K, q, new)[x] = K[x]
        /\ \A x \in 1 .. Len(new) : Spread(K, q, new)[q + x] = new[x]
        /\ \A x \in q + 1 .. Len(K) : Spread(K, q, new)[x + Len(new)] = K[x]
    BY SpreadPlaces
  <2> QED
    BY <2>0, <2>1, <2>2
<1>3. ASSUME NEW i \in 1 .. n
      PROVE  \E k : /\ HasKey(m, s, k) /\ new[i] = KeyLine(k, ValueOf(m, s, k))
                    /\ new[i].kind = "keyvalue" /\ new[i].key = k
  BY <1>3, LineForms DEF KeysOfSection
<1> HIDE DEF M, n
<1>4. ASSUME NEW y \in 1 .. Len(M)
      PROVE  \/ y \in 1 .. p
             \/ y - p \in 1 .. n /\ y = p + (y - p) /\ y \in p + 1 .. Len(M)
             \/ y - n \in p + 1 .. Len(L) /\ y = (y - n) + n /\ y \in p + 1 .. Len(M)
  BY <1>1, <1>2
<1>5. \A x \in p + 1 .. Len(M) : M[x].kind # "section"
  <2> TAKE x \in p + 1 .. Len(M)
  <2>1. CASE x - p \in 1 .. n
    <3>1. M[p + (x - p)] = new[x - p] /\ new[x - p].kind = "keyvalue" /\ x = p + (x - p)
      BY <1>1, <1>2, <1>3, <2>1
    <3> QED
      BY <3>1
  <2>2. CASE x - n \in p + 1 .. Len(L)
    <3>1. M[(x - n) + n] = L[x - n] /\ L[x - n].kind # "section" /\ x = (x - n) + n
      BY <1>1, <1>2, <2>2
    <3> QED
      BY <3>1
  <2>3. x - p \in 1 .. n \/ x - n \in p + 1 .. Len(L)
    BY <1>1, <1>2
  <2> QED
    BY <2>1, <2>2, <2>3
<1>6. \A x \in 1 .. p : \A t : Under(M, x, t) <=> Under(L, x, t)
  <2> TAKE x \in 1 .. p
  <2> TAKE t
  <2>1. x \in Nat /\ \A y \in 1 .. x : M[y] = L[y]
    BY <1>1, <1>2
  <2> QED
    BY <2>1, UnderSame
<1>7. OpenAt(M, p, s)
  <2>1. p \in 1 .. p /\ p \in 1 .. Len(M)
    BY <1>1, <1>2
  <2> QED
    BY <1>5, <1>6, <2>1 DEF OpenAt
<1>8. /\ \A x \in p .. Len(M) : Under(M, x, s)
      /\ \A x \in p .. Len(L) : Under(L, x, s)
  BY <1>1, <1>2, <1>7, OpenThroughout
<1>9. \A y \in p + 1 .. Len(M) : Under(M, y, s)
  <2>1. \A y \in p + 1 .. Len(M) : y \in p .. Len(M)
    BY <1>1, <1>2
  <2> QED
    BY <1>8, <2>1
<1>10. Known(M)
  <2>1. ASSUME NEW y \in 1 .. Len(M) PROVE M[y].kind # "unknown"
    <3>1. CASE y \in 1 .. p
      <4>1. y \in 1 .. Len(L)
        BY <1>1, <3>1
      <4> QED
        BY <1>1, <1>2, <3>1, <4>1
    <3>2. CASE y - p \in 1 .. n /\ y = p + (y - p)
      <4>1. M[y] = new[y - p]
        BY <1>2, <3>2
      <4> QED
        BY <1>3, <3>2, <4>1
    <3>3. CASE y - n \in p + 1 .. Len(L) /\ y = (y - n) + n
      <4>1. M[y] = L[y - n] /\ y - n \in 1 .. Len(L)
        BY <1>1, <1>2, <3>3
      <4> QED
        BY <1>1, <4>1
    <3> QED
      BY <1>4, <3>1, <3>2, <3>3
  <2> QED
    BY <1>2, <2>1 DEF Known
<1>11. HeadersTrue(M, m)
  <2> SUFFICES ASSUME NEW y \in 1 .. Len(M), NEW t, M[y] = Header(t) PROVE Has(m, t)
    BY DEF HeadersTrue
  <2>1. y \notin p + 1 .. Len(M)
    BY <1>5, LineForms
  <2>2. y \in 1 .. p /\ y \in 1 .. Len(L)
    BY <1>1, <1>4, <2>1
  <2> QED
    BY <1>1, <1>2, <2>2 DEF HeadersTrue
<1>12. KeysTrue(M, m)
  <2> SUFFICES ASSUME NEW y \in 1 .. Len(M), M[y].kind = "keyvalue"
               PROVE  \E t : /\ Under(M, y, t) /\ HasKey(m, t, M[y].key)
                             /\ M[y] = KeyLine(M[y].key, ValueOf(m, t, M[y].key))
    BY DEF KeysTrue
  <2>1. CASE y \in 1 .. p
    <3>1. y \in 1 .. Len(L) /\ M[y] = L[y]
      BY <1>1, <1>2, <2>1
    <3> QED
      BY <1>1, <1>6, <2>1, <3>1 DEF KeysTrue
  <2>2. CASE y - p \in 1 .. n /\ y = p + (y - p) /\ y \in p + 1 .. Len(M)
    <3>1. M[y] = new[y - p]
      BY <1>2, <2>2
    <3>2. HasKey(m, s, M[y].key) /\ M[y] = KeyLine(M[y].key, ValueOf(m, s, M[y].key))
      BY <1>3, <2>2, <3>1
    <3> QED
      BY <1>9, <2>2, <3>2
  <2>3. CASE y - n \in p + 1 .. Len(L) /\ y = (y - n) + n /\ y \in p + 1 .. Len(M)
    <3>1. /\ M[y] = L[y - n] /\ y - n \in 1 .. Len(L) /\ y - n \in Nat
          /\ y - n \in p .. Len(L)
      BY <1>1, <1>2, <2>3
    <3>2. PICK t : /\ Under(L, y - n, t) /\ HasKey(m, t, M[y].key)
                   /\ M[y] = KeyLine(M[y].key, ValueOf(m, t, M[y].key))
      BY <1>1, <3>1 DEF KeysTrue
    <3>3. t = s
      BY <1>8, <3>1, <3>2, UnderOne
    <3> QED
      BY <1>9, <2>3, <3>2, <3>3
  <2> QED
    BY <1>4, <2>1, <2>2, <2>3
<1>13. Grown(L, M)
  <2>1. ASSUME NEW t, Heads(L, t) PROVE Heads(M, t)
    <3>1. PICK x \in 1 .. Len(L) : L[x] = Header(t)
      BY <2>1 DEF Heads
    <3>2. L[x].kind = "section"
      BY <3>1, LineForms
    <3>3. x \notin p + 1 .. Len(L)
      BY <1>1, <3>2
    <3>4. x \in 1 .. p /\ x \in 1 .. Len(M)
      BY <1>1, <1>2, <3>3
    <3> QED
      BY <1>2, <3>1, <3>4 DEF Heads
  <2>2. ASSUME NEW t, NEW k, Wrote(L, t, k) PROVE Wrote(M, t, k)
    <3>1. PICK x \in 1 .. Len(L) : L[x].kind = "keyvalue" /\ L[x].key = k /\ Under(L, x, t)
      BY <2>2 DEF Wrote
    <3>2. CASE x \in 1 .. p
      <4>1. x \in 1 .. Len(M) /\ M[x] = L[x] /\ Under(M, x, t)
        BY <1>1, <1>2, <1>6, <3>1, <3>2
      <4> QED
        BY <3>1, <4>1 DEF Wrote
    <3>3. CASE x \in p + 1 .. Len(L)
      <4>1. /\ M[x + n] = L[x] /\ x + n \in 1 .. Len(M) /\ x + n \in p + 1 .. Len(M)
            /\ x \in p .. Len(L) /\ x \in Nat
        BY <1>1, <1>2, <3>3
      <4>2. t = s
        BY <1>8, <3>1, <4>1, UnderOne
      <4>3. Under(M, x + n, t)
        BY <1>9, <4>1, <4>2
      <4> QED
        BY <3>1, <4>1, <4>3 DEF Wrote
    <3> QED
      BY <1>1, <3>2, <3>3
  <2> QED
    BY <2>1, <2>2 DEF Grown
<1>14. ASSUME NEW i \in 1 .. n, NEW k, NEW v, new[i] = KeyLine(k, v)
       PROVE  Wrote(M, s, k)
  <2>1. M[p + i] = new[i] /\ p + i \in 1 .. Len(M) /\ p + i \in p + 1 .. Len(M)
    BY <1>1, <1>2
  <2>2. M[p + i].kind = "keyvalue" /\ M[p + i].key = k /\ Under(M, p + i, s)
    BY <1>9, <1>14, <2>1, LineForms
  <2> QED
    BY <2>1, <2>2 DEF Wrote
<1> QED
  BY <1>7, <1>10, <1>11, <1>12, <1>13, <1>14 DEF Told, M, n

-----------------------------------------------------------------------------
(* Writing: the old lines *)

Writers == [out : Seq(Lines), section : Sections \cup {""}, parsing : BOOLEAN,
            skipping : BOOLEAN, discard : BOOLEAN, lastKey : Nat]

(* Where the writer is, after i of the old lines L. *)
AtSection(L, i, st, m) ==
  \/ /\ \A x \in 1 .. i : L[x].kind # "section"
     /\ ~st.parsing /\ ~st.skipping
  \/ /\ Under(L, i, st.section)
     /\ st.parsing <=> Has(m, st.section)
     /\ st.skipping <=> ~Has(m, st.section)

(* What it has written of what these lines ask for. *)
HeadersDone(L, i, out, m) ==
  \A x \in 1 .. i : \A s : L[x] = Header(s) /\ Has(m, s) => Heads(out, s)
KeysDone(L, i, out, m) ==
  \A x \in 1 .. i : \A s :
    L[x].kind = "keyvalue" /\ Under(L, x, s) /\ HasKey(m, s, L[x].key) =>
      Wrote(out, s, L[x].key)

(* Of the sections it has left, except the one it is in, it has written    *)
(* the keys that the file did not have.                                    *)
NewDone(L, i, out, m, original, except) ==
  \A x \in 1 .. i : \A s, k :
    L[x] = Header(s) /\ s \notin except /\ HasKey(m, s, k) /\ ~HasKey(original, s, k) =>
      Wrote(out, s, k)

Current(st) == IF st.parsing THEN {st.section} ELSE {}

WriterInv(L, i, st, m, original) ==
  /\ Told(st.out, m) /\ st.lastKey <= Len(st.out)
  /\ AtSection(L, i, st, m)
  /\ st.parsing => OpenAt(st.out, st.lastKey, st.section)
  /\ HeadersDone(L, i, st.out, m) /\ KeysDone(L, i, st.out, m)
  /\ NewDone(L, i, st.out, m, original, Current(st))

LEMMA WriterBegins ==
  ASSUME NEW L, NEW m, NEW original
  PROVE  NothingWritten \in Writers /\ WriterInv(L, 0, NothingWritten, m, original)
<1> DEFINE st == NothingWritten
<1>1. /\ st.out = <<>> /\ st.parsing = FALSE /\ st.skipping = FALSE
      /\ st.lastKey = 0 /\ Len(<<>>) = 0 /\ <<>> \in Seq(Lines)
  BY DEF NothingWritten
<1>2. st \in Writers
  BY DEF Writers, NothingWritten
<1>3. Told(<<>>, m)
  BY <1>1 DEF Told, Known, HeadersTrue, KeysTrue
<1>4. \A x \in 1 .. 0 : FALSE
  OBVIOUS
<1> HIDE DEF st
<1>5. HeadersDone(L, 0, st.out, m) /\ KeysDone(L, 0, st.out, m)
  BY <1>4 DEF HeadersDone, KeysDone
<1>6. NewDone(L, 0, st.out, m, original, Current(st))
  BY <1>4 DEF NewDone
<1>7. AtSection(L, 0, st, m)
  BY <1>1, <1>4 DEF AtSection
<1> QED
  BY <1>1, <1>2, <1>3, <1>5, <1>6, <1>7 DEF WriterInv, st

(* More output loses nothing of what was written. *)
LEMMA StillDone ==
  ASSUME NEW L, NEW i, NEW out, NEW more, Grown(out, more), NEW m, NEW original, NEW except
  PROVE  /\ HeadersDone(L, i, out, m) => HeadersDone(L, i, more, m)
         /\ KeysDone(L, i, out, m) => KeysDone(L, i, more, m)
         /\ NewDone(L, i, out, m, original, except) => NewDone(L, i, more, m, original, except)
BY DEF Grown, HeadersDone, KeysDone, NewDone

LEMMA GrownTwice ==
  ASSUME NEW a, NEW b, NEW c, Grown(a, b), Grown(b, c)
  PROVE  Grown(a, c)
BY DEF Grown

(* A section is left, for another or at the end of the file. *)
LEMMA AddsNewKeys ==
  ASSUME NEW L, NEW i \in 0 .. Len(L), NEW st \in Writers, NEW m, NEW original,
         Structure(m), Structure(original), Known(L), HeadersMatch(L, original),
         WriterInv(L, i, st, m, original), st.parsing \/ i = Len(L)
  PROVE  LET out == AddNewKeys(st, m, original).out IN
         /\ AddNewKeys(st, m, original) = [st EXCEPT !.out = out]
         /\ AddNewKeys(st, m, original) \in Writers
         /\ Told(out, m) /\ st.lastKey <= Len(out)
         /\ HeadersDone(L, i, out, m) /\ KeysDone(L, i, out, m)
         /\ NewDone(L, i, out, m, original, {})
<1> DEFINE new == NewKeys(st.section, m, original)
           out == Spread(st.out, st.lastKey, new)
           s   == st.section
           p   == st.lastKey
<1>1. /\ st.out \in Seq(Lines) /\ p \in 0 .. Len(st.out) /\ p \in Nat
      /\ Told(st.out, m) /\ AtSection(L, i, st, m) /\ st.parsing \in BOOLEAN
      /\ HeadersDone(L, i, st.out, m) /\ KeysDone(L, i, st.out, m)
      /\ NewDone(L, i, st.out, m, original, Current(st))
  <2>1. st.out \in Seq(Lines) /\ p \in Nat /\ st.parsing \in BOOLEAN
    BY DEF Writers
  <2>2. /\ Told(st.out, m) /\ AtSection(L, i, st, m) /\ p <= Len(st.out)
        /\ HeadersDone(L, i, st.out, m) /\ KeysDone(L, i, st.out, m)
        /\ NewDone(L, i, st.out, m, original, Current(st))
    BY DEF WriterInv
  <2>3. p \in 0 .. Len(st.out)
    BY <2>1, <2>2
  <2> QED
    BY <2>1, <2>2, <2>3
<1>2. /\ new \in Seq(Lines) /\ KeysOfSection(new, m, s)
      /\ Has(original, s) =>
           \A k : HasKey(m, s, k) /\ ~HasKey(original, s, k) =>
             \E j \in 1 .. Len(new) : new[j] = KeyLine(k, ValueOf(m, s, k))
      /\ ~(Has(m, s) /\ Has(original, s)) => new = <<>>
  BY NewKeysOf DEF KeysOfSection
<1>3. AddNewKeys(st, m, original) = [st EXCEPT !.out = out]
  BY DEF AddNewKeys, Spread
<1>4. \A o \in Seq(Lines) : [st EXCEPT !.out = o].out = o /\ [st EXCEPT !.out = o] \in Writers
  BY DEF Writers
<1> HIDE DEF new, s, p
<1>5. /\ Told(out, m) /\ p <= Len(out) /\ out \in Seq(Lines) /\ Grown(st.out, out)
      /\ NewDone(L, i, out, m, original, {})
  <2>1. CASE st.parsing
    <3>1. OpenAt(st.out, p, s)
      BY <2>1 DEF WriterInv, p, s
    <3>2. /\ Told(out, m) /\ Grown(st.out, out) /\ OpenAt(out, p, s)
          /\ \A j \in 1 .. Len(new) : \A k, v : new[j] = KeyLine(k, v) => Wrote(out, s, k)
      <4>1. out = Spread(st.out, p, new)
        BY DEF p
      <4> HIDE DEF out
      <4>2. PICK keys \in Seq(Lines) : keys = new
        BY <1>2
      <4>3. Told(st.out, m) /\ OpenAt(st.out, p, s) /\ KeysOfSection(keys, m, s)
        BY <1>1, <1>2, <3>1, <4>2
      <4>4. /\ Told(Spread(st.out, p, keys), m) /\ Grown(st.out, Spread(st.out, p, keys))
            /\ OpenAt(Spread(st.out, p, keys), p, s)
            /\ \A j \in 1 .. Len(keys) : \A k, v :
                 keys[j] = KeyLine(k, v) => Wrote(Spread(st.out, p, keys), s, k)
        BY <4>3, SpreadTold
      <4> QED
        BY <4>1, <4>2, <4>4
    <3> HIDE DEF out
    <3>3. out \in Seq(Lines) /\ p <= Len(out)
      BY <3>2 DEF Told, Known, OpenAt
    <3>4. Under(L, i, s)
      BY <1>1, <2>1 DEF AtSection, s
    <3>5. Has(original, s)
      <4>1. PICK h \in 1 .. i : L[h] = Header(s)
        BY <3>4 DEF Under
      <4>2. h \in 1 .. Len(L) /\ L[h] \in Lines
        BY <4>1 DEF Known
      <4>3. s \in Sections
        BY <4>1, <4>2, LineForms
      <4> QED
        BY <4>1, <4>2, <4>3 DEF HeadersMatch
    <3>6. NewDone(L, i, out, m, original, {s})
      BY <1>1, <2>1, <3>2, StillDone DEF Current, s
    <3>7. \A k : HasKey(m, s, k) /\ ~HasKey(original, s, k) => Wrote(out, s, k)
      BY <1>2, <3>2, <3>5
    <3>8. NewDone(L, i, out, m, original, {})
      BY <3>6, <3>7 DEF NewDone
    <3> QED
      BY <3>2, <3>3, <3>8
  <2>2. CASE ~st.parsing
    <3>1. i = Len(L)
      BY <2>2
    <3>2. ~(Has(m, s) /\ Has(original, s))
      <4>1. CASE \A x \in 1 .. i : L[x].kind # "section"
        <5>1. \A x \in 1 .. Len(L) : L[x] # Header(s)
          BY <3>1, <4>1, LineForms
        <5> QED
          BY <5>1 DEF HeadersMatch
      <4>2. CASE st.parsing <=> Has(m, st.section)
        BY <2>2, <4>2 DEF s
      <4> QED
        BY <1>1, <4>1, <4>2 DEF AtSection
    <3>3. out = st.out
      BY <1>1, <1>2, <3>2, SpreadNothing DEF p
    <3>4. Current(st) = {}
      BY <2>2 DEF Current
    <3>5. Grown(st.out, st.out)
      BY DEF Grown
    <3> QED
      BY <1>1, <3>3, <3>4, <3>5
  <2> QED
    BY <2>1, <2>2
<1>6. HeadersDone(L, i, out, m) /\ KeysDone(L, i, out, m)
  BY <1>1, <1>5, StillDone
<1> HIDE DEF out
<1> QED
  BY <1>3, <1>4, <1>5, <1>6 DEF p

(* The lines read so far, and the next one. *)
LEMMA NextLine ==
  ASSUME NEW L \in Seq(Lines), NEW i \in 1 .. Len(L)
  PROVE  /\ L[i] \in Lines /\ i - 1 \in Nat /\ (i - 1) + 1 = i
         /\ \A x \in 1 .. i : x \in 1 .. i - 1 \/ x = i
         /\ \A x \in 1 .. i - 1 : x \in 1 .. i /\ x \in 1 .. Len(L) /\ x \in Nat
OBVIOUS

(* WriteHeader, below a section that has its new keys. *)
LEMMA WritesHeader ==
  ASSUME NEW L, NEW i \in 1 .. Len(L), NEW st \in Writers, NEW m, NEW original,
         Known(L), L[i].kind = "section",
         Told(st.out, m), st.lastKey <= Len(st.out),
         HeadersDone(L, i - 1, st.out, m), KeysDone(L, i - 1, st.out, m),
         NewDone(L, i - 1, st.out, m, original, {})
  PROVE  /\ WriteHeader(st, L[i], m) \in Writers
         /\ WriterInv(L, i, WriteHeader(st, L[i], m), m, original)
<1> DEFINE line == L[i]  s == line.name  next == WriteHeader(st, line, m)
<1>1. /\ L \in Seq(Lines) /\ line \in Lines /\ s \in Sections /\ line = Header(s)
      /\ line.kind = "section" /\ line.kind # "unknown" /\ line.kind # "keyvalue"
  <2>1. L \in Seq(Lines) /\ line \in Lines
    BY DEF Known
  <2> QED
    BY <2>1, LineForms
<1>2. /\ i - 1 \in Nat /\ (i - 1) + 1 = i
      /\ \A x \in 1 .. i : x \in 1 .. i - 1 \/ x = i
  BY <1>1, NextLine
<1>3. Under(L, i, s)
  BY <1>1, <1>2, UnderNext
<1> HIDE DEF line, next
<1>4. ASSUME NEW out, Grown(st.out, out), Has(m, s) => Heads(out, s)
      PROVE  HeadersDone(L, i, out, m) /\ KeysDone(L, i, out, m)
  <2>1. HeadersDone(L, i - 1, out, m) /\ KeysDone(L, i - 1, out, m)
    BY <1>4, StillDone
  <2>2. \A t : L[i] = Header(t) => t = s
    BY <1>1, LineForms DEF line
  <2>3. HeadersDone(L, i, out, m)
    BY <1>2, <1>4, <2>1, <2>2 DEF HeadersDone
  <2>4. L[i].kind # "keyvalue"
    BY <1>1 DEF line
  <2>5. KeysDone(L, i, out, m)
    BY <1>2, <2>1, <2>4 DEF KeysDone
  <2> QED
    BY <2>3, <2>5
<1>5. ASSUME NEW out, Grown(st.out, out) PROVE NewDone(L, i, out, m, original, {s})
  <2>1. NewDone(L, i - 1, out, m, original, {})
    BY <1>5, StillDone
  <2>2. \A t : L[i] = Header(t) => t = s
    BY <1>1, LineForms DEF line
  <2> QED
    BY <1>2, <2>1, <2>2 DEF NewDone
<1>6. CASE Has(m, s)
  <2> DEFINE out == Append(st.out, line)
  <2>1. next = [out |-> out, section |-> s, parsing |-> TRUE, skipping |-> FALSE,
                discard |-> FALSE, lastKey |-> Len(st.out) + 1]
    BY <1>6 DEF next, WriteHeader, Writers
  <2>2. /\ Told(out, m) /\ Grown(st.out, out) /\ Heads(out, s)
        /\ OpenAt(out, Len(st.out) + 1, s)
    BY <1>1, <1>6, AppendTold
  <2> HIDE DEF out
  <2>3. Len(st.out) + 1 \in Nat /\ out \in Seq(Lines) /\ Len(st.out) + 1 <= Len(out)
    <3>1. st.out \in Seq(Lines) /\ out \in Seq(Lines)
      BY <2>2 DEF Told, Known
    <3> QED
      BY <2>2, <3>1 DEF OpenAt
  <2>4. next \in Writers
    <3>1. [out |-> out, section |-> s, parsing |-> TRUE, skipping |-> FALSE,
           discard |-> FALSE, lastKey |-> Len(st.out) + 1] \in Writers
      BY <1>1, <2>3 DEF Writers
    <3> QED
      BY <2>1, <3>1
  <2>5. /\ next.out = out /\ next.section = s /\ next.parsing = TRUE
        /\ next.skipping = FALSE /\ next.lastKey = Len(st.out) + 1
    BY <2>1
  <2>6. HeadersDone(L, i, out, m) /\ KeysDone(L, i, out, m)
    BY <1>4, <2>2
  <2>7. NewDone(L, i, out, m, original, Current(next))
    BY <1>5, <2>2, <2>5 DEF Current
  <2>8. AtSection(L, i, next, m)
    BY <1>3, <1>6, <2>5 DEF AtSection
  <2> QED
    BY <2>2, <2>3, <2>4, <2>5, <2>6, <2>7, <2>8 DEF WriterInv, next, line
<1>7. CASE ~Has(m, s)
  <2>1. next = [out |-> st.out, section |-> s, parsing |-> FALSE, skipping |-> TRUE,
                discard |-> TRUE, lastKey |-> st.lastKey]
    BY <1>7 DEF next, WriteHeader, Writers
  <2>2. next \in Writers
    <3>1. [out |-> st.out, section |-> s, parsing |-> FALSE, skipping |-> TRUE,
           discard |-> TRUE, lastKey |-> st.lastKey] \in Writers
      BY <1>1 DEF Writers
    <3> QED
      BY <2>1, <3>1
  <2>3. /\ next.out = st.out /\ next.section = s /\ next.parsing = FALSE
        /\ next.skipping = TRUE /\ next.lastKey = st.lastKey
    BY <2>1
  <2>4. Grown(st.out, st.out)
    BY DEF Grown
  <2>5. HeadersDone(L, i, st.out, m) /\ KeysDone(L, i, st.out, m)
    BY <1>4, <1>7, <2>4
  <2>6. NewDone(L, i, st.out, m, original, Current(next))
    <3>1. NewDone(L, i, st.out, m, original, {s})
      BY <1>5, <2>4
    <3>2. \A k : ~HasKey(m, s, k)
      BY <1>7 DEF HasKey
    <3> QED
      BY <3>1, <3>2 DEF NewDone
  <2>7. AtSection(L, i, next, m)
    BY <1>3, <1>7, <2>3 DEF AtSection
  <2> QED
    BY <2>2, <2>3, <2>5, <2>6, <2>7 DEF WriterInv, next, line
<1> QED
  BY <1>6, <1>7

(* A line that is no header leaves the writer in its section. *)
LEMMA SameSection ==
  ASSUME NEW L \in Seq(Lines), NEW i \in 1 .. Len(L), L[i].kind # "section",
         NEW st, NEW next, NEW m, AtSection(L, i - 1, st, m),
         next.section = st.section, next.parsing = st.parsing, next.skipping = st.skipping
  PROVE  AtSection(L, i, next, m)
<1>1. /\ i - 1 \in Nat /\ (i - 1) + 1 = i
      /\ \A x \in 1 .. i : x \in 1 .. i - 1 \/ x = i
  BY NextLine
<1>2. \A s : Under(L, i, s) <=> Under(L, i - 1, s)
  BY <1>1, UnderNext
<1> QED
  BY <1>1, <1>2 DEF AtSection

LEMMA WritesKey ==
  ASSUME NEW L, NEW i \in 1 .. Len(L), NEW st \in Writers, NEW m, NEW original,
         Known(L), KeysKnown(L, original), L[i].kind = "keyvalue", Structure(m),
         WriterInv(L, i - 1, st, m, original)
  PROVE  /\ WriteKey(st, L[i], m) \in Writers
         /\ WriterInv(L, i, WriteKey(st, L[i], m), m, original)
<1> DEFINE line == L[i]  s == st.section  next == WriteKey(st, line, m)
<1>0. st.lastKey \in Nat /\ Len(st.out) \in Nat /\ st.lastKey <= Len(st.out)
  <2>1. st.out \in Seq(Lines) /\ st.lastKey \in Nat
    BY DEF Writers
  <2>2. Len(st.out) \in Nat
    BY <2>1
  <2> QED
    BY <2>1, <2>2 DEF WriterInv
<1>1. L \in Seq(Lines) /\ line \in Lines
  BY DEF Known
<1>2. /\ i - 1 \in Nat /\ (i - 1) + 1 = i
      /\ \A x \in 1 .. i : x \in 1 .. i - 1 \/ x = i
  BY <1>1, NextLine
<1>3. /\ line.kind = "keyvalue" /\ line.kind # "section"
      /\ \A t : line # Header(t)
  BY <1>1, LineForms
<1>4. /\ st.out \in Seq(Lines) /\ s \in Sections \cup {""} /\ st.parsing \in BOOLEAN
      /\ st.skipping \in BOOLEAN /\ st.discard \in BOOLEAN /\ st.lastKey \in Nat
  BY DEF Writers
<1>5. /\ Told(st.out, m) /\ st.lastKey <= Len(st.out)
      /\ AtSection(L, i - 1, st, m)
      /\ st.parsing => OpenAt(st.out, st.lastKey, s)
      /\ HeadersDone(L, i - 1, st.out, m) /\ KeysDone(L, i - 1, st.out, m)
      /\ NewDone(L, i - 1, st.out, m, original, Current(st))
  BY DEF WriterInv
<1>6. /\ Under(L, i - 1, s) /\ Under(L, i, s)
      /\ st.parsing <=> Has(m, s)
      /\ st.skipping <=> ~Has(m, s)
  <2>1. PICK t : Under(L, i, t)
    BY <1>3 DEF KeysKnown
  <2>2. PICK h \in 1 .. i : L[h] = Header(t)
    BY <2>1 DEF Under
  <2>3. h \in 1 .. i - 1 /\ L[h].kind = "section"
    BY <1>2, <1>3, <2>2, LineForms
  <2>4. /\ Under(L, i - 1, s)
        /\ st.parsing <=> Has(m, s)
        /\ st.skipping <=> ~Has(m, s)
    BY <1>5, <2>3 DEF AtSection
  <2>5. Under(L, i, s)
    BY <1>2, <1>3, <2>4, UnderNext
  <2> QED
    BY <2>4, <2>5
<1>7. Kept(st, line, m) <=> HasKey(m, s, line.key)
  BY <1>6 DEF Kept, HasKey
<1> HIDE DEF line, next, s
<1>8. ASSUME NEW out, Grown(st.out, out),
             HasKey(m, s, line.key) => Wrote(out, s, line.key)
      PROVE  /\ HeadersDone(L, i, out, m) /\ KeysDone(L, i, out, m)
             /\ NewDone(L, i, out, m, original, Current(st))
  <2>1. /\ HeadersDone(L, i - 1, out, m) /\ KeysDone(L, i - 1, out, m)
        /\ NewDone(L, i - 1, out, m, original, Current(st))
    BY <1>5, <1>8, StillDone
  <2>2. \A t : L[i] # Header(t)
    BY <1>3 DEF line
  <2>3. HeadersDone(L, i, out, m)
    BY <1>2, <2>1, <2>2 DEF HeadersDone
  <2>4. NewDone(L, i, out, m, original, Current(st))
    BY <1>2, <2>1, <2>2 DEF NewDone
  <2>5. \A t : Under(L, i, t) => t = s
    <3>1. i \in Nat
      BY <1>2
    <3> QED
      BY <1>6, <3>1, UnderOne
  <2>6. KeysDone(L, i, out, m)
    BY <1>2, <1>8, <2>1, <2>5 DEF KeysDone, line
  <2> QED
    BY <2>3, <2>4, <2>6
<1>9. CASE HasKey(m, s, line.key)
  <2> DEFINE written == KeyLine(line.key, ValueOf(m, s, line.key))
             out     == Append(st.out, written)
  <2>1. next = [out |-> out, section |-> s, parsing |-> st.parsing,
                skipping |-> st.skipping, discard |-> st.discard,
                lastKey |-> Len(st.out) + 1]
    BY <1>7, <1>9 DEF next, WriteKey, ValueIn, ValueOf, Writers, s
  <2>2. /\ written \in Lines /\ written.kind = "keyvalue" /\ written.key = line.key
        /\ written.kind # "unknown" /\ written.kind # "section"
        /\ written = KeyLine(written.key, ValueOf(m, s, written.key))
    <3>1. line.key \in Keys /\ ValueOf(m, s, line.key) \in Values
      BY <1>9, ValueTyped
    <3> QED
      BY <3>1, LineForms
  <2>3. st.parsing /\ OpenAt(st.out, st.lastKey, s)
    BY <1>5, <1>6, <1>9 DEF HasKey
  <2>4. Under(st.out, Len(st.out), s)
    <3>1. Len(st.out) \in st.lastKey .. Len(st.out)
      BY <1>0
    <3> QED
      BY <1>4, <2>3, <3>1, OpenThroughout
  <2> HIDE DEF written
  <2>5. /\ Told(out, m) /\ Grown(st.out, out) /\ Wrote(out, s, line.key)
        /\ OpenAt(out, Len(st.out) + 1, s)
    BY <1>5, <1>9, <2>2, <2>4, AppendTold
  <2> HIDE DEF out
  <2>6. Len(st.out) + 1 \in Nat /\ out \in Seq(Lines) /\ Len(st.out) + 1 <= Len(out)
    <3>1. out \in Seq(Lines)
      BY <2>5 DEF Told, Known
    <3> QED
      BY <1>0, <2>5, <3>1 DEF OpenAt
  <2>7. next \in Writers
    <3>1. [out |-> out, section |-> s, parsing |-> st.parsing,
           skipping |-> st.skipping, discard |-> st.discard,
           lastKey |-> Len(st.out) + 1] \in Writers
      BY <1>4, <2>6 DEF Writers, s
    <3> QED
      BY <2>1, <3>1
  <2>8. /\ next.out = out /\ next.section = s /\ next.parsing = st.parsing
        /\ next.skipping = st.skipping /\ next.lastKey = Len(st.out) + 1
        /\ Current(next) = Current(st)
    BY <2>1 DEF Current, s
  <2>9. AtSection(L, i, next, m)
    BY <1>1, <1>3, <1>5, <2>8, SameSection DEF s, line
  <2>10. /\ HeadersDone(L, i, out, m) /\ KeysDone(L, i, out, m)
         /\ NewDone(L, i, out, m, original, Current(next))
    BY <1>8, <2>5, <2>8
  <2> QED
    BY <2>5, <2>6, <2>7, <2>8, <2>9, <2>10 DEF WriterInv, next, line
<1>10. CASE ~HasKey(m, s, line.key)
  <2>1. next = st
    BY <1>7, <1>10 DEF next, WriteKey
  <2>2. Grown(st.out, st.out)
    BY DEF Grown
  <2>3. /\ HeadersDone(L, i, st.out, m) /\ KeysDone(L, i, st.out, m)
        /\ NewDone(L, i, st.out, m, original, Current(st))
    BY <1>8, <1>10, <2>2
  <2>4. AtSection(L, i, st, m)
    BY <1>1, <1>3, <1>5, SameSection DEF line
  <2> QED
    BY <1>5, <2>1, <2>3, <2>4 DEF WriterInv, next, line, s
<1> QED
  BY <1>9, <1>10

(* A line that says nothing is kept, or it is the empty line below a       *)
(* section that has gone.                                                  *)
LEMMA WritesOther ==
  ASSUME NEW L, NEW i \in 1 .. Len(L), NEW st \in Writers, NEW m, NEW original,
         Known(L), L[i].kind \in {"comment", "none"},
         WriterInv(L, i - 1, st, m, original)
  PROVE  /\ WriteLine(st, L[i], m, original) \in Writers
         /\ WriterInv(L, i, WriteLine(st, L[i], m, original), m, original)
<1> DEFINE line == L[i]  next == WriteLine(st, line, m, original)
           out == IF line.kind = "none" /\ st.discard THEN st.out ELSE Append(st.out, line)
           discard == IF line.kind = "none" /\ st.discard THEN FALSE ELSE st.discard
<1>0. st.lastKey \in Nat /\ Len(st.out) \in Nat /\ st.lastKey <= Len(st.out)
  <2>1. st.out \in Seq(Lines) /\ st.lastKey \in Nat
    BY DEF Writers
  <2>2. Len(st.out) \in Nat
    BY <2>1
  <2> QED
    BY <2>1, <2>2 DEF WriterInv
<1>1. L \in Seq(Lines) /\ line \in Lines
  BY DEF Known
<1>2. /\ i - 1 \in Nat /\ (i - 1) + 1 = i
      /\ \A x \in 1 .. i : x \in 1 .. i - 1 \/ x = i
  BY <1>1, NextLine
<1>3. /\ line.kind # "section" /\ line.kind # "keyvalue" /\ line.kind # "unknown"
      /\ \A t : line # Header(t)
  BY <1>1, LineForms
<1>4. /\ st.out \in Seq(Lines) /\ st.section \in Sections \cup {""} /\ st.parsing \in BOOLEAN
      /\ st.skipping \in BOOLEAN /\ st.discard \in BOOLEAN /\ st.lastKey \in Nat
  BY DEF Writers
<1>5. /\ Told(st.out, m) /\ st.lastKey <= Len(st.out)
      /\ AtSection(L, i - 1, st, m)
      /\ st.parsing => OpenAt(st.out, st.lastKey, st.section)
      /\ HeadersDone(L, i - 1, st.out, m) /\ KeysDone(L, i - 1, st.out, m)
      /\ NewDone(L, i - 1, st.out, m, original, Current(st))
  BY DEF WriterInv
<1>6. next = [out |-> out, section |-> st.section, parsing |-> st.parsing,
              skipping |-> st.skipping, discard |-> discard, lastKey |-> st.lastKey]
  <2>1. CASE line.kind = "none" /\ st.discard
    BY <2>1 DEF WriteLine, Writers
  <2>2. CASE ~(line.kind = "none" /\ st.discard)
    BY <1>3, <2>2 DEF WriteLine, Writers
  <2> QED
    BY <2>1, <2>2
<1>7. /\ Told(out, m) /\ Grown(st.out, out) /\ st.lastKey <= Len(out)
      /\ st.parsing => OpenAt(out, st.lastKey, st.section)
  <2>1. CASE out = st.out
    <3>1. Grown(st.out, st.out)
      BY DEF Grown
    <3> HIDE DEF out
    <3> QED
      BY <1>5, <2>1, <3>1
  <2>2. CASE out = Append(st.out, line)
    <3> HIDE DEF out, line
    <3>1. /\ Told(out, m) /\ Grown(st.out, out)
          /\ \A p, s : OpenAt(st.out, p, s) => OpenAt(out, p, s)
      BY <1>1, <1>3, <1>5, <2>2, AppendTold
    <3>2. Len(out) = Len(st.out) + 1 /\ Len(st.out) \in Nat
      <4>1. st.out \in Seq(Lines)
        BY <1>4
      <4> QED
        BY <1>0, <2>2, <4>1
    <3>3. st.lastKey <= Len(out)
      BY <1>0, <3>2
    <3> QED
      BY <1>5, <3>1, <3>3
  <2> QED
    BY <2>1, <2>2
<1> HIDE DEF line, next, out
<1>8. /\ HeadersDone(L, i, out, m) /\ KeysDone(L, i, out, m)
      /\ NewDone(L, i, out, m, original, Current(st))
  <2>1. /\ HeadersDone(L, i - 1, out, m) /\ KeysDone(L, i - 1, out, m)
        /\ NewDone(L, i - 1, out, m, original, Current(st))
    BY <1>5, <1>7, StillDone
  <2>2. (\A t : L[i] # Header(t)) /\ L[i].kind # "keyvalue"
    BY <1>3 DEF line
  <2>3. HeadersDone(L, i, out, m)
    BY <1>2, <2>1, <2>2 DEF HeadersDone
  <2>4. NewDone(L, i, out, m, original, Current(st))
    BY <1>2, <2>1, <2>2 DEF NewDone
  <2>5. KeysDone(L, i, out, m)
    BY <1>2, <2>1, <2>2 DEF KeysDone
  <2> QED
    BY <2>3, <2>4, <2>5
<1>9. discard \in BOOLEAN /\ out \in Seq(Lines)
  BY <1>4, <1>7 DEF Told, Known
<1> HIDE DEF discard
<1>10. next \in Writers
  <2>1. [out |-> out, section |-> st.section, parsing |-> st.parsing,
         skipping |-> st.skipping, discard |-> discard, lastKey |-> st.lastKey] \in Writers
    BY <1>4, <1>9 DEF Writers
  <2> QED
    BY <1>6, <2>1
<1>11. /\ next.out = out /\ next.section = st.section /\ next.parsing = st.parsing
       /\ next.skipping = st.skipping /\ next.lastKey = st.lastKey
       /\ Current(next) = Current(st)
  BY <1>6 DEF Current
<1>12. AtSection(L, i, next, m)
  BY <1>1, <1>3, <1>5, <1>11, SameSection DEF line
<1> QED
  BY <1>7, <1>8, <1>10, <1>11, <1>12 DEF WriterInv, next, line

(* What the writer is given: the lines of a file, and what is read of them. *)
Given(L, m, original) ==
  Known(L) /\ Means(L, original) /\ Structure(m) /\ Structure(original)

LEMMA WriterGoesOn ==
  ASSUME NEW L, NEW m, NEW original, Given(L, m, original),
         NEW i \in 1 .. Len(L), NEW st \in Writers, WriterInv(L, i - 1, st, m, original)
  PROVE  /\ WriteLine(st, L[i], m, original) \in Writers
         /\ WriterInv(L, i, WriteLine(st, L[i], m, original), m, original)
<1>1. /\ Known(L) /\ HeadersMatch(L, original) /\ KeysKnown(L, original)
      /\ Structure(m) /\ Structure(original)
      /\ L[i] \in Lines /\ L[i].kind # "unknown"
  BY DEF Given, Means, Known
<1>2. CASE L[i].kind = "section"
  <2> DEFINE left == IF st.parsing THEN AddNewKeys(st, m, original) ELSE st
  <2>1. WriteLine(st, L[i], m, original) = WriteHeader(left, L[i], m)
    BY <1>2 DEF WriteLine
  <2>2. /\ left \in Writers /\ Told(left.out, m) /\ left.lastKey <= Len(left.out)
        /\ HeadersDone(L, i - 1, left.out, m) /\ KeysDone(L, i - 1, left.out, m)
        /\ NewDone(L, i - 1, left.out, m, original, {})
    <3>1. CASE st.parsing
      <4> DEFINE out == AddNewKeys(st, m, original).out
      <4>0. i - 1 \in 0 .. Len(L)
        OBVIOUS
      <4>1. /\ AddNewKeys(st, m, original) = [st EXCEPT !.out = out]
            /\ AddNewKeys(st, m, original) \in Writers
            /\ Told(out, m) /\ st.lastKey <= Len(out)
            /\ HeadersDone(L, i - 1, out, m) /\ KeysDone(L, i - 1, out, m)
            /\ NewDone(L, i - 1, out, m, original, {})
        BY <1>1, <3>1, <4>0, AddsNewKeys
      <4>2. left = AddNewKeys(st, m, original)
        BY <3>1
      <4> HIDE DEF left, out
      <4>3. left.out = out /\ left.lastKey = st.lastKey
        BY <4>1, <4>2 DEF Writers, out
      <4> QED
        BY <4>1, <4>2, <4>3
    <3>2. CASE ~st.parsing
      <4>1. left = st /\ Current(st) = {}
        BY <3>2 DEF Current
      <4>2. /\ Told(st.out, m) /\ st.lastKey <= Len(st.out)
            /\ HeadersDone(L, i - 1, st.out, m) /\ KeysDone(L, i - 1, st.out, m)
            /\ NewDone(L, i - 1, st.out, m, original, Current(st))
        BY DEF WriterInv
      <4> HIDE DEF left
      <4> QED
        BY <4>1, <4>2
    <3> QED
      BY <3>1, <3>2
  <2> HIDE DEF left
  <2> QED
    BY <1>1, <1>2, <2>1, <2>2, WritesHeader
<1>3. CASE L[i].kind = "keyvalue"
  <2>1. WriteLine(st, L[i], m, original) = WriteKey(st, L[i], m)
    BY <1>3 DEF WriteLine
  <2> QED
    BY <1>1, <1>3, <2>1, WritesKey
<1>4. CASE L[i].kind \in {"comment", "none"}
  BY <1>1, <1>4, WritesOther
<1>5. L[i].kind \in {"section", "keyvalue", "comment", "none", "unknown"}
  BY <1>1, LineForms
<1> QED
  BY <1>1, <1>2, <1>3, <1>4, <1>5

(* The writer keeps its invariant, and Writing is the function it is       *)
(* defined to be: a property of both, S, is carried from turn to turn.     *)
LEMMA WritingTurns ==
  ASSUME NEW L, NEW m, NEW original, Given(L, m, original)
  PROVE  /\ Len(L) \in Nat
         /\ Writing(L, m, original)[0] = NothingWritten
         /\ \A i \in 1 .. Len(L) :
              Writing(L, m, original)[i] =
                WriteLine(Writing(L, m, original)[i - 1], L[i], m, original)
         /\ \A i \in 0 .. Len(L) :
              /\ Writing(L, m, original)[i] \in Writers
              /\ WriterInv(L, i, Writing(L, m, original)[i], m, original)
<1> DEFINE n == Len(L)
           S == UNION {{<<st, i>> : st \in {w \in Writers : WriterInv(L, i, w, m, original)}}
                        : i \in 0 .. n}
           step == [turn \in S \X (1 .. n) |->
                      IF turn[1][2] = turn[2] - 1
                      THEN <<WriteLine(turn[1][1], L[turn[2]], m, original), turn[2]>>
                      ELSE turn[1]]
           Turn(f) == [i \in 0 .. n |-> IF i = 0 THEN NothingWritten
                                        ELSE WriteLine(f[i - 1], L[i], m, original)]
<1>1. n \in Nat /\ \A i \in 1 .. n : L[i] \in Lines /\ i - 1 \in 0 .. n
  BY DEF Given, Known
<1> HIDE DEF n
<1>2. \A st, i : <<st, i>> \in S <=>
        i \in 0 .. n /\ st \in Writers /\ WriterInv(L, i, st, m, original)
  OBVIOUS
<1>3. \A t \in S : t = <<t[1], t[2]>>
  OBVIOUS
<1> HIDE DEF S
<1>4. ASSUME NEW st, NEW i \in 1 .. n, <<st, i - 1>> \in S
      PROVE  <<WriteLine(st, L[i], m, original), i>> \in S
  <2>1. st \in Writers /\ WriterInv(L, i - 1, st, m, original) /\ i \in 1 .. Len(L)
    BY <1>2, <1>4 DEF n
  <2>2. i \in 0 .. n
    BY <1>1
  <2> QED
    BY <1>2, <2>1, <2>2, WriterGoesOn
<1>5. Steps(step, n, S)
  <2> SUFFICES ASSUME NEW t \in S, NEW i \in 1 .. n PROVE step[<<t, i>>] \in S
    BY DEF Steps
  <2>1. CASE t[2] = i - 1
    <3>1. step[<<t, i>>] = <<WriteLine(t[1], L[i], m, original), i>>
      BY <2>1
    <3>2. <<t[1], i - 1>> \in S
      BY <1>3, <2>1
    <3> HIDE DEF step
    <3> QED
      BY <1>4, <3>1, <3>2
  <2>2. CASE t[2] # i - 1
    BY <2>2
  <2> QED
    BY <2>1, <2>2
<1>6. <<NothingWritten, 0>> \in S
  <2>1. 0 \in 0 .. n
    BY <1>1
  <2> QED
    BY <1>2, <2>1, WriterBegins
<1>7. \E f : f = Turn(f)
  <2>0. \A t \in S, i \in 1 .. n : t[2] = i - 1 =>
          step[<<t, i>>] = <<WriteLine(t[1], L[i], m, original), i>>
    OBVIOUS
  <2> HIDE DEF step
  <2>1. PICK g \in [0 .. n -> S] :
          g[0] = <<NothingWritten, 0>> /\ \A i \in 1 .. n : g[i] = step[<<g[i - 1], i>>]
    <3>1. n \in Nat
      BY <1>1
    <3>2. PICK base \in S : base = <<NothingWritten, 0>>
      BY <1>6
    <3>3. \E g \in [0 .. n -> S] :
            g[0] = base /\ \A i \in 1 .. n : g[i] = step[<<g[i - 1], i>>]
      BY <1>5, <3>1, Iterated
    <3> QED
      BY <3>2, <3>3
  <2> DEFINE T == {i \in 0 .. n : g[i][2] = i}
  <2>2. 0 \in T
    BY <1>1, <2>1
  <2>3. ASSUME NEW i \in 1 .. n, i - 1 \in T PROVE i \in T
    <3>1. g[i - 1] \in S /\ g[i - 1][2] = i - 1
      BY <1>1, <2>1, <2>3
    <3>2. g[i] = <<WriteLine(g[i - 1][1], L[i], m, original), i>>
      BY <2>0, <2>1, <3>1
    <3>3. i \in 0 .. n
      BY <1>1
    <3> QED
      BY <3>2, <3>3
  <2>4. \A i \in 0 .. n : i \in T
    <3> HIDE DEF T
    <3> QED
      BY <1>1, <2>2, <2>3, EveryTurn
  <2> DEFINE f == [i \in 0 .. n |-> g[i][1]]
  <2>5. \A i \in 1 .. n : g[i] = <<WriteLine(g[i - 1][1], L[i], m, original), i>>
    BY <1>1, <2>0, <2>1, <2>4
  <2>6. f[0] = NothingWritten
    BY <1>1, <2>1
  <2>7. \A i \in 1 .. n : f[i] = WriteLine(f[i - 1], L[i], m, original)
    BY <1>1, <2>5
  <2>8. f = [i \in 0 .. n |-> f[i]]
    OBVIOUS
  <2> HIDE DEF f
  <2>9. \A i \in 0 .. n : f[i] = IF i = 0 THEN NothingWritten
                                 ELSE WriteLine(f[i - 1], L[i], m, original)
    BY <1>1, <2>6, <2>7
  <2>10. f = Turn(f)
    BY <2>8, <2>9
  <2> HIDE DEF Turn
  <2> QED
    BY <2>10
<1> DEFINE W == Writing(L, m, original)
<1>8. W = Turn(W)
  <2>1. W = CHOOSE f : f = Turn(f)
    BY DEF Writing, n
  <2> HIDE DEF Turn, W
  <2> QED
    BY <1>7, <2>1
<1> HIDE DEF W
<1>9. /\ W[0] = NothingWritten
      /\ \A i \in 1 .. n : W[i] = WriteLine(W[i - 1], L[i], m, original)
  BY <1>1, <1>8
<1> HIDE DEF step, Turn
<1> DEFINE T == {i \in 0 .. n : <<W[i], i>> \in S}
<1>10. 0 \in T
  BY <1>1, <1>6, <1>9
<1>11. \A i \in 1 .. n : i - 1 \in T => i \in T
  BY <1>1, <1>4, <1>9
<1>12. \A i \in 0 .. n : i \in T
  <2> HIDE DEF T
  <2> QED
    BY <1>1, <1>10, <1>11, EveryTurn
<1> QED
  BY <1>1, <1>2, <1>9, <1>12 DEF n, W

-----------------------------------------------------------------------------
(* Writing: the sections that the file did not have *)

LEMMA SpreadAtEnd ==
  ASSUME NEW L \in Seq(Lines), NEW new \in Seq(Lines)
  PROVE  Spread(L, Len(L), new) = L \o new
<1>1. Len(L) \in Nat /\ SubSeq(L, 1, Len(L)) = L
  OBVIOUS
<1>2. SubSeq(L, Len(L) + 1, Len(L)) = <<>>
  OBVIOUS
<1>3. L \o new \in Seq(Lines)
  OBVIOUS
<1>4. \A M \in Seq(Lines) : M \o <<>> = M
  OBVIOUS
<1> QED
  BY <1>1, <1>2, <1>3, <1>4 DEF Spread

LEMMA AssociativeLines ==
  ASSUME NEW a \in Seq(Lines), NEW b \in Seq(Lines), NEW c \in Seq(Lines)
  PROVE  a \o (b \o c) = (a \o b) \o c
BY Associative

LEMMA WritesSection ==
  ASSUME NEW M, NEW m, Structure(m), Told(M, m), NEW s, Has(m, s)
  PROVE  LET N == (M \o <<Header(s)>>) \o KeyLines(Get(m, s)) IN
         /\ Told(N, m) /\ Grown(M, N) /\ Heads(N, s)
         /\ \A k : HasKey(m, s, k) => Wrote(N, s, k)
<1> DEFINE A == Append(M, Header(s))  keys == KeyLines(Get(m, s))
           N == (M \o <<Header(s)>>) \o keys
<1>1. M \in Seq(Lines) /\ Len(M) \in Nat /\ s \in Sections /\ SoundMap(Get(m, s), Keys, Values)
  BY SectionTyped DEF Told, Known
<1>2. /\ Header(s) \in Lines /\ Header(s).kind = "section" /\ Header(s).name = s
      /\ Header(s).kind # "unknown" /\ Header(s).kind # "keyvalue"
  BY <1>1, LineForms
<1>3. A = M \o <<Header(s)>>
  BY <1>1, <1>2
<1>4. Told(A, m) /\ Grown(M, A) /\ Heads(A, s) /\ OpenAt(A, Len(M) + 1, s)
  BY <1>2, AppendTold
<1>5. A \in Seq(Lines) /\ Len(A) = Len(M) + 1
  BY <1>1, <1>2
<1>6. /\ keys \in Seq(Lines)
      /\ \A i \in 1 .. Len(keys) :
           \E k : Has(Get(m, s), k) /\ k \in Keys /\ keys[i] = KeyLine(k, Get(Get(m, s), k))
      /\ \A k : Has(Get(m, s), k) =>
           \E i \in 1 .. Len(keys) : keys[i] = KeyLine(k, Get(Get(m, s), k))
  BY <1>1, KeyLinesOf
<1>7. KeysOfSection(keys, m, s)
  BY <1>6 DEF KeysOfSection, HasKey, ValueOf
<1>8. N = A \o keys
  BY <1>3
<1> HIDE DEF A, keys, N
<1>9. N = Spread(A, Len(M) + 1, keys)
  <2>1. Spread(A, Len(A), keys) = A \o keys
    BY <1>5, <1>6, SpreadAtEnd
  <2> QED
    BY <1>5, <1>8, <2>1
<1>10. /\ Told(N, m) /\ Grown(A, N)
       /\ \A i \in 1 .. Len(keys) : \A k, v : keys[i] = KeyLine(k, v) => Wrote(N, s, k)
  <2>1. PICK new \in Seq(Lines) : new = keys
    BY <1>6
  <2>2. KeysOfSection(new, m, s)
    BY <1>7, <2>1
  <2>3. /\ Told(Spread(A, Len(M) + 1, new), m) /\ Grown(A, Spread(A, Len(M) + 1, new))
        /\ \A i \in 1 .. Len(new) : \A k, v :
             new[i] = KeyLine(k, v) => Wrote(Spread(A, Len(M) + 1, new), s, k)
    BY <1>4, <2>2, SpreadTold
  <2> QED
    BY <1>9, <2>1, <2>3
<1>11. Grown(M, N) /\ Heads(N, s)
  BY <1>4, <1>10, GrownTwice DEF Grown
<1>12. \A k : HasKey(m, s, k) => Wrote(N, s, k)
  BY <1>6, <1>10 DEF HasKey
<1> QED
  BY <1>10, <1>11, <1>12 DEF N, keys

SectionLines(m, original, f, i) ==
  IF Has(original, m.data[i].key) THEN f
  ELSE f \o <<Header(m.data[i].key)>> \o KeyLines(m.data[i].value)

SectionTurns(f, m, original) ==
  /\ NewSections(m, original) = f[Len(m.data)] /\ f[0] = <<>>
  /\ \A i \in 1 .. Len(m.data) : f[i] = SectionLines(m, original, f[i - 1], i)

LEMMA NewSectionsTurns ==
  ASSUME NEW m, Structure(m), NEW original
  PROVE  /\ Len(m.data) \in Nat
         /\ \A i \in 1 .. Len(m.data) :
              Has(m, m.data[i].key) /\ m.data[i].value = Get(m, m.data[i].key)
         /\ \A s : Has(m, s) => \E i \in 1 .. Len(m.data) : m.data[i].key = s
         /\ \E f \in [0 .. Len(m.data) -> Seq(Lines)] : SectionTurns(f, m, original)
<1> DEFINE n == Len(m.data)
           S == Seq(Lines)
           step == [turn \in S \X (1 .. n) |-> SectionLines(m, original, turn[1], turn[2])]
           Turn(f) == [i \in 0 .. n |->
                         IF i = 0 THEN <<>>
                         ELSE IF Has(original, m.data[i].key) THEN f[i - 1]
                         ELSE f[i - 1] \o <<Header(m.data[i].key)>>
                                       \o KeyLines(m.data[i].value)]
<1>1. n \in Nat /\ DOMAIN m.data = 1 .. n
  BY DEF Structure, SoundMap, IsMap
<1>2. /\ \A s \in DOMAIN m.index : m.index[s] \in 1 .. n /\ m.data[m.index[s]].key = s
      /\ \A i \in 1 .. n : m.data[i].key \in DOMAIN m.index /\ m.index[m.data[i].key] = i
  BY <1>1 DEF Structure, SoundMap, Sound
<1> HIDE DEF n
<1>3. /\ \A i \in 1 .. n : Has(m, m.data[i].key) /\ m.data[i].value = Get(m, m.data[i].key)
      /\ \A s : Has(m, s) => \E i \in 1 .. n : m.data[i].key = s
  BY <1>2 DEF Has, Get
<1>4. \A i \in 1 .. n : Header(m.data[i].key) \in Lines /\ KeyLines(m.data[i].value) \in S
  <2> TAKE i \in 1 .. n
  <2>1. m.data[i].key \in Sections /\ SoundMap(m.data[i].value, Keys, Values)
    BY <1>3, SectionTyped
  <2> QED
    BY <2>1, LineForms, KeyLinesOf
<1>5. \A f \in S, h \in Lines, k \in S : f \o <<h>> \o k \in S
  OBVIOUS
<1>6. \A f \in S, i \in 1 .. n : SectionLines(m, original, f, i) \in S
  BY <1>4, <1>5 DEF SectionLines
<1>7. Steps(step, n, S) /\ \A f \in S, i \in 1 .. n : step[<<f, i>>] = SectionLines(m, original, f, i)
  BY <1>6 DEF Steps
<1>8. <<>> \in S
  OBVIOUS
<1> HIDE DEF step, S
<1>9. PICK f \in [0 .. n -> S] :
        f[0] = <<>> /\ \A i \in 1 .. n : f[i] = step[<<f[i - 1], i>>]
  <2>1. PICK base \in S : base = <<>>
    BY <1>8
  <2>2. n \in Nat
    BY <1>1
  <2>3. Steps(step, n, S)
    BY <1>7
  <2>4. \E f \in [0 .. n -> S] :
          f[0] = base /\ \A i \in 1 .. n : f[i] = step[<<f[i - 1], i>>]
    BY <2>2, <2>3, Iterated
  <2> QED
    BY <2>1, <2>4
<1>10. ASSUME NEW i \in 1 .. n PROVE f[i] = SectionLines(m, original, f[i - 1], i)
  <2>1. f[i - 1] \in S
    BY <1>1, <1>9
  <2> QED
    BY <1>7, <1>9, <2>1
<1> DEFINE Again(h) == [i \in 0 .. n |-> IF i = 0 THEN <<>>
                                         ELSE SectionLines(m, original, h[i - 1], i)]
<1>a. \A h : Turn(h) = Again(h)
  BY DEF SectionLines
<1>b. f = Again(f)
  <2>1. \A i \in 0 .. n : f[i] = IF i = 0 THEN <<>>
                                 ELSE SectionLines(m, original, f[i - 1], i)
    BY <1>1, <1>9, <1>10
  <2> QED
    BY <1>9, <2>1
<1>11. f = Turn(f)
  <2> HIDE DEF Turn, Again
  <2> QED
    BY <1>a, <1>b
<1>12. PICK g : g = Turn(g) /\ NewSections(m, original) = g[n]
  <2> DEFINE g == CHOOSE h : h = Turn(h)
  <2>1. NewSections(m, original) = g[n]
    BY DEF NewSections, n
  <2>2. g = Turn(g)
    <3> HIDE DEF Turn
    <3> QED
      BY <1>11
  <2> HIDE DEF g, Turn
  <2> QED
    BY <2>1, <2>2
<1>13. /\ g[0] = <<>>
       /\ \A i \in 1 .. n : g[i] = SectionLines(m, original, g[i - 1], i)
  <2>1. g = Again(g)
    <3> HIDE DEF Turn, Again
    <3> QED
      BY <1>a, <1>12
  <2> QED
    BY <1>1, <2>1
<1> HIDE DEF Turn, Again
<1> DEFINE T == {i \in 0 .. n : g[i] = f[i]}
<1>14. \A i \in 0 .. n : i \in T
  <2>1. 0 \in T
    BY <1>1, <1>9, <1>13
  <2>2. \A i \in 1 .. n : i - 1 \in T => i \in T
    BY <1>1, <1>10, <1>13
  <2> HIDE DEF T
  <2> QED
    BY <1>1, <2>1, <2>2, EveryTurn
<1>15. NewSections(m, original) = f[n]
  BY <1>1, <1>12, <1>14
<1>16. SectionTurns(f, m, original)
  BY <1>9, <1>10, <1>15 DEF SectionTurns, n
<1> QED
  BY <1>1, <1>3, <1>9, <1>16 DEF n, S

(* After the sections the file had, those it did not have. *)
LEMMA SectionsAdded ==
  ASSUME NEW m, Structure(m), NEW original, NEW M, Told(M, m)
  PROVE  LET N == M \o NewSections(m, original) IN
         /\ Told(N, m) /\ Grown(M, N)
         /\ \A s : Has(m, s) /\ ~Has(original, s) =>
              Heads(N, s) /\ \A k : HasKey(m, s, k) => Wrote(N, s, k)
<1> DEFINE n == Len(m.data)
           name(i) == m.data[i].key
           Added(N, s) == Heads(N, s) /\ \A k : HasKey(m, s, k) => Wrote(N, s, k)
           Good(N, i) == /\ Told(N, m) /\ Grown(M, N)
                         /\ \A j \in 1 .. i : ~Has(original, name(j)) => Added(N, name(j))
<1>1. /\ n \in Nat
      /\ \A i \in 1 .. n : Has(m, name(i)) /\ m.data[i].value = Get(m, name(i))
      /\ \A s : Has(m, s) => \E i \in 1 .. n : name(i) = s
  BY NewSectionsTurns
<1>0. PICK f \in [0 .. n -> Seq(Lines)] : SectionTurns(f, m, original)
  BY NewSectionsTurns
<1>2. /\ NewSections(m, original) = f[n] /\ f[0] = <<>>
      /\ \A i \in 1 .. n : f[i] = SectionLines(m, original, f[i - 1], i)
  BY <1>0 DEF SectionTurns
<1>3. M \in Seq(Lines)
  BY DEF Told, Known
<1> HIDE DEF n
<1> DEFINE T == {i \in 0 .. n : Good(M \o f[i], i)}
<1>4. 0 \in T
  <2>1. M \o f[0] = M
    BY <1>2, <1>3
  <2>2. Good(M, 0)
    <3>1. \A j \in 1 .. 0 : FALSE
      OBVIOUS
    <3>2. Grown(M, M)
      BY DEF Grown
    <3> QED
      BY <3>1, <3>2
  <2>3. Good(M \o f[0], 0)
    BY <2>1, <2>2
  <2> HIDE DEF Good
  <2> QED
    BY <1>1, <2>3
<1>5. ASSUME NEW i \in 1 .. n, i - 1 \in T
      PROVE  i \in T
  <2> DEFINE before == M \o f[i - 1]  s == name(i)
             block == (before \o <<Header(s)>>) \o KeyLines(Get(m, s))
  <2>1. /\ i - 1 \in 0 .. n /\ i \in 0 .. n /\ f[i - 1] \in Seq(Lines)
        /\ \A j \in 1 .. i : j \in 1 .. i - 1 \/ j = i
    BY <1>1, <1>2
  <2>2. Good(before, i - 1)
    BY <1>5
  <2>3. Has(m, s) /\ m.data[i].value = Get(m, s)
    BY <1>1
  <2> HIDE DEF Good
  <2>4. CASE Has(original, s)
    <3>1. f[i] = f[i - 1]
      BY <1>2, <2>4 DEF SectionLines
    <3>2. Good(before, i)
      BY <2>1, <2>2, <2>4 DEF Good
    <3> QED
      BY <2>1, <3>1, <3>2
  <2>5. CASE ~Has(original, s)
    <3>1. f[i] = f[i - 1] \o <<Header(s)>> \o KeyLines(Get(m, s))
      BY <1>2, <2>3, <2>5 DEF SectionLines
    <3>2. M \o f[i] = block
      <4>1. Header(s) \in Lines /\ KeyLines(Get(m, s)) \in Seq(Lines)
        BY <2>3, SectionTyped, LineForms, KeyLinesOf
      <4>2. PICK a \in Seq(Lines) : a = f[i - 1]
        BY <2>1
      <4>3. PICK h \in Seq(Lines) : h = <<Header(s)>>
        <5>1. <<Header(s)>> \in Seq(Lines)
          BY <4>1
        <5> QED
          BY <5>1
      <4>4. PICK k \in Seq(Lines) : k = KeyLines(Get(m, s))
        BY <4>1
      <4>5. PICK b \in Seq(Lines) : b = M
        BY <1>3
      <4>6. b \o (a \o h) = (b \o a) \o h
        BY AssociativeLines
      <4>7. PICK ah \in Seq(Lines) : ah = a \o h
        <5>1. a \o h \in Seq(Lines)
          OBVIOUS
        <5> QED
          BY <5>1
      <4>8. b \o (ah \o k) = (b \o ah) \o k
        BY AssociativeLines, SMTT(30)
      <4>9. f[i] = ah \o k
        BY <3>1, <4>2, <4>3, <4>4, <4>7
      <4>10. M \o f[i] = ((b \o a) \o h) \o k
        BY <4>5, <4>6, <4>7, <4>8, <4>9
      <4> QED
        BY <4>2, <4>3, <4>4, <4>5, <4>10
    <3> HIDE DEF before
    <3>3. Told(before, m) /\ Grown(M, before)
          /\ \A j \in 1 .. i - 1 : ~Has(original, name(j)) => Added(before, name(j))
      BY <2>2 DEF Good
    <3>4. /\ Told(block, m) /\ Grown(before, block) /\ Heads(block, s)
          /\ \A k : HasKey(m, s, k) => Wrote(block, s, k)
      BY <2>3, <3>3, WritesSection
    <3> HIDE DEF block
    <3>5. Grown(M, block)
      BY <3>3, <3>4, GrownTwice
    <3>6. ASSUME NEW j \in 1 .. i, ~Has(original, name(j)) PROVE Added(block, name(j))
      <4>1. CASE j = i
        BY <3>4, <4>1
      <4>2. CASE j \in 1 .. i - 1
        <5>1. Added(before, name(j))
          BY <3>3, <3>6, <4>2
        <5> QED
          BY <3>4, <5>1 DEF Grown
      <4> QED
        BY <2>1, <4>1, <4>2
    <3>7. Good(block, i)
      BY <3>4, <3>5, <3>6 DEF Good
    <3> QED
      BY <2>1, <3>2, <3>7
  <2> QED
    BY <2>4, <2>5
<1>6. n \in T
  <2> HIDE DEF T
  <2>1. \A i \in 0 .. n : i \in T
    BY <1>1, <1>4, <1>5, EveryTurn
  <2> QED
    BY <1>1, <2>1
<1>7. Good(M \o NewSections(m, original), n)
  BY <1>2, <1>6
<1> QED
  BY <1>1, <1>7

(* The whole output. *)
LEMMA LazySays ==
  ASSUME NEW L, NEW m, NEW original, Given(L, m, original)
  PROVE  Says(LazyOutput(L, m, original), m)
<1> DEFINE n   == Len(L)
           st  == Writing(L, m, original)[n]
           out == AddNewKeys(st, m, original).out
           N   == out \o NewSections(m, original)
<1>1. /\ n \in Nat /\ Known(L) /\ Structure(m) /\ Structure(original)
      /\ HeadersMatch(L, original) /\ KeysFound(L, original)
      /\ \A x \in 1 .. n : L[x] \in Lines
  BY DEF Given, Known, Means
<1>2. st \in Writers /\ WriterInv(L, n, st, m, original)
  <2>1. n \in 0 .. n
    BY <1>1
  <2> QED
    BY <2>1, WritingTurns
<1> HIDE DEF st
<1>3. /\ Told(out, m) /\ HeadersDone(L, n, out, m) /\ KeysDone(L, n, out, m)
      /\ NewDone(L, n, out, m, original, {})
  <2>1. n \in 0 .. Len(L)
    BY <1>1
  <2> QED
    BY <1>1, <1>2, <2>1, AddsNewKeys
<1> HIDE DEF out
<1>4. /\ Told(N, m) /\ Grown(out, N)
      /\ \A s : Has(m, s) /\ ~Has(original, s) =>
           Heads(N, s) /\ \A k : HasKey(m, s, k) => Wrote(N, s, k)
  BY <1>1, <1>3, SectionsAdded
<1>5. LazyOutput(L, m, original) = N
  BY DEF LazyOutput, st, out
<1> HIDE DEF N
<1>6. HeadersDone(L, n, N, m) /\ KeysDone(L, n, N, m) /\ NewDone(L, n, N, m, original, {})
  BY <1>3, <1>4, StillDone
<1>7. \A s : Has(original, s) => \E x \in 1 .. n : L[x] = Header(s)
  BY <1>1 DEF HeadersMatch
<1>8. ASSUME NEW s, Has(m, s) PROVE Heads(N, s)
  <2>1. CASE Has(original, s)
    BY <1>6, <1>7, <1>8, <2>1 DEF HeadersDone
  <2>2. CASE ~Has(original, s)
    BY <1>4, <1>8, <2>2
  <2> QED
    BY <2>1, <2>2
<1>9. ASSUME NEW s, NEW k, HasKey(m, s, k) PROVE Wrote(N, s, k)
  <2>0. Has(m, s)
    BY <1>9 DEF HasKey
  <2>1. CASE HasKey(original, s, k)
    <3>1. PICK j \in 1 .. n : L[j] = KeyLine(k, ValueOf(original, s, k)) /\ Under(L, j, s)
      BY <1>1, <2>1 DEF KeysFound
    <3>2. L[j].kind = "keyvalue" /\ L[j].key = k
      BY <3>1, LineForms
    <3> QED
      BY <1>6, <1>9, <3>1, <3>2 DEF KeysDone
  <2>2. CASE ~HasKey(original, s, k) /\ Has(original, s)
    <3>1. PICK x \in 1 .. n : L[x] = Header(s)
      BY <1>7, <2>2
    <3> QED
      BY <1>6, <1>9, <2>2, <3>1 DEF NewDone
  <2>3. CASE ~Has(original, s)
    BY <1>4, <1>9, <2>0, <2>3
  <2> QED
    BY <2>1, <2>2, <2>3
<1>10. Known(N) /\ KeysTrue(N, m) /\ HeadersTrue(N, m) /\ Len(N) \in Nat
  BY <1>4 DEF Told, Known
<1>11. HeadersMatch(N, m)
  <2>1. ASSUME NEW s, Has(m, s)
        PROVE  s \in Sections /\ \E j \in 1 .. Len(N) : N[j] = Header(s)
    BY <1>1, <1>8, <2>1, SectionTyped DEF Heads
  <2>2. ASSUME NEW s, NEW j \in 1 .. Len(N), N[j] = Header(s) PROVE Has(m, s)
    BY <1>10, <2>2 DEF HeadersTrue
  <2> QED
    BY <2>1, <2>2 DEF HeadersMatch
<1>12. KeysFound(N, m)
  <2> SUFFICES ASSUME NEW s, NEW k, HasKey(m, s, k)
               PROVE  \E j \in 1 .. Len(N) : N[j] = KeyLine(k, ValueOf(m, s, k)) /\ Under(N, j, s)
    BY DEF KeysFound
  <2>1. PICK x \in 1 .. Len(N) : N[x].kind = "keyvalue" /\ N[x].key = k /\ Under(N, x, s)
    BY <1>9 DEF Wrote
  <2>2. PICK t : Under(N, x, t) /\ N[x] = KeyLine(k, ValueOf(m, t, k))
    BY <1>10, <2>1 DEF KeysTrue
  <2>3. x \in Nat
    BY <1>10
  <2>4. s = t
    BY <2>1, <2>2, <2>3, UnderOne
  <2> QED
    BY <2>1, <2>2, <2>4
<1> QED
  BY <1>5, <1>10, <1>11, <1>12 DEF Says

-----------------------------------------------------------------------------
(* A file, written and read *)

LEMMA TextSays ==
  ASSUME NEW L, NEW m, Says(L, m)
  PROVE  Says(Text(L), m)
<1>1. CASE L # <<Blank>>
  BY <1>1 DEF Text
<1>2. CASE L = <<Blank>>
  <2>1. Text(L) = <<>> /\ Len(<<>>) = 0 /\ <<>> \in Seq(Lines)
    BY <1>2 DEF Text
  <2>2. Len(L) = 1 /\ L[1] = Blank
    BY <1>2
  <2>3. \A j \in 1 .. Len(L) : L[j].kind = "none"
    BY <2>2, LineForms
  <2>4. \A s : ~Has(m, s)
    <3> SUFFICES ASSUME NEW s, Has(m, s) PROVE FALSE
      OBVIOUS
    <3>1. PICK j \in 1 .. Len(L) : L[j] = Header(s)
      BY DEF Says, HeadersMatch
    <3> QED
      BY <2>3, <3>1, LineForms
  <2>5. \A s, k : ~HasKey(m, s, k)
    BY <2>4 DEF HasKey
  <2>6. Known(<<>>) /\ HeadersMatch(<<>>, m) /\ KeysTrue(<<>>, m) /\ KeysFound(<<>>, m)
    BY <2>1, <2>4, <2>5 DEF Known, HeadersMatch, KeysTrue, KeysFound
  <2> QED
    BY <2>1, <2>6 DEF Says
<1> QED
  BY <1>1, <1>2

Files == Seq(Lines) \cup {NoFile}

LEMMA LinesOfFile ==
  /\ \A f \in Files : LinesOf(f) \in Seq(Lines)
  /\ \A f \in Seq(Lines) : LinesOf(f) = f
  /\ LinesOf(NoFile) = <<>>
<1>1. <<>> \in Seq(Lines)
  OBVIOUS
<1> QED
  BY <1>1, NoFileAssumption DEF LinesOf, Files

LEMMA ParseTyped ==
  ASSUME NEW f \in Files
  PROVE  Structure(Parse(f))
BY LinesOfFile, ReadMeans DEF Parse

(* What is written over any file says what the structure does, and that is *)
(* what the next program reads.                                            *)
THEOREM WrittenIsRead ==
  ASSUME NEW f \in Files, NEW m, Structure(m)
  PROVE  /\ Written(f, m) \in Seq(Lines) /\ Says(Written(f, m), m)
         /\ Read(Written(f, m)).lines = Written(f, m)
         /\ SameStore(Parse(Written(f, m)), m)
         /\ AsStore(Parse(Written(f, m))) = AsStore(m)
<1> DEFINE L == Read(LinesOf(f)).lines  W == Written(f, m)
<1>1. Given(L, m, Parse(f))
  BY LinesOfFile, ReadMeans DEF Given, Parse
<1>2. Says(W, m)
  BY <1>1, LazySays, TextSays DEF Written
<1> HIDE DEF W, L
<1>3. W \in Seq(Lines)
  BY <1>2 DEF Says, Known
<1>4. Read(W).lines = W /\ SameStore(Read(W).data, m)
  BY <1>2, SaidIsRead
<1>5. Parse(W) = Read(W).data
  BY <1>3, LinesOfFile DEF Parse
<1> QED
  BY <1>2, <1>3, <1>4, <1>5, SameAsStore DEF W

-----------------------------------------------------------------------------
(* The refinement *)

LEMMA AsStoreTyped ==
  ASSUME NEW m, Structure(m)
  PROVE  AsStore(m) \in Store!Stores
<1>1. DOMAIN m.index \in SUBSET Sections
  BY DEF Structure, SoundMap, IsMap
<1>2. ASSUME NEW s \in DOMAIN m.index
      PROVE  AsFunction(Get(m, s)) \in Store!Maps(Keys, Values)
  <2>1. SoundMap(Get(m, s), Keys, Values)
    BY SectionTyped DEF Has
  <2>2. DOMAIN Get(m, s).index \in SUBSET Keys
    BY <2>1 DEF SoundMap, IsMap
  <2>3. \A k \in DOMAIN Get(m, s).index : Get(Get(m, s), k) \in Values
    BY <2>1, GetTyped
  <2>4. AsFunction(Get(m, s)) \in [DOMAIN Get(m, s).index -> Values]
    BY <2>3 DEF AsFunction
  <2> QED
    BY <2>2, <2>4 DEF Store!Maps
<1>3. AsStore(m) \in [DOMAIN m.index -> Store!Maps(Keys, Values)]
  BY <1>2 DEF AsStore
<1> QED
  BY <1>1, <1>3 DEF Store!Stores, Store!Maps

LEMMA AsStoreOf ==
  ASSUME NEW m
  PROVE  /\ DOMAIN AsStore(m) = {s \in DOMAIN m.index : TRUE}
         /\ \A s : s \in DOMAIN AsStore(m) <=> Has(m, s)
         /\ \A s : Has(m, s) => AsStore(m)[s] = AsFunction(Get(m, s))
         /\ AsStore(m) = [s \in DOMAIN AsStore(m) |-> AsStore(m)[s]]
BY DEF AsStore, Has

LEMMA AsFunctionOf ==
  ASSUME NEW m
  PROVE  /\ \A k : k \in DOMAIN AsFunction(m) <=> Has(m, k)
         /\ \A k : Has(m, k) => AsFunction(m)[k] = Get(m, k)
         /\ AsFunction(m) = [k \in DOMAIN AsFunction(m) |-> AsFunction(m)[k]]
BY DEF AsFunction, Has

LEMMA SetIsSet ==
  ASSUME Structure(ini), NEW s \in Sections, NEW k \in Keys, NEW v \in Values
  PROVE  /\ Structure(SetValue(ini, s, k, v))
         /\ AsStore(SetValue(ini, s, k, v)) =
              Store!Change(s, [q \in DOMAIN Store!KeysIn(s) \cup {k} |->
                                 IF q = k THEN v ELSE Store!KeysIn(s)[q]])
<1> DEFINE n == SetValue(ini, s, k, v)
           keys == [q \in DOMAIN Store!KeysIn(s) \cup {k} |->
                      IF q = k THEN v ELSE Store!KeysIn(s)[q]]
<1>1. /\ Structure(n)
      /\ \A t : Has(n, t) <=> Has(ini, t) \/ t = s
      /\ \A t, q : HasKey(n, t, q) <=> HasKey(ini, t, q) \/ (t = s /\ q = k)
      /\ ValueOf(n, s, k) = v
      /\ \A t, q : HasKey(ini, t, q) /\ ~(t = s /\ q = k) => ValueOf(n, t, q) = ValueOf(ini, t, q)
  BY SetValueSound
<1> HIDE DEF n
<1>2. /\ \A q : q \in DOMAIN Store!KeysIn(s) <=> HasKey(ini, s, q)
      /\ \A q : HasKey(ini, s, q) => Store!KeysIn(s)[q] = ValueOf(ini, s, q)
  <2>1. CASE Has(ini, s)
    <3>1. Store!KeysIn(s) = AsFunction(Get(ini, s))
      BY <2>1, AsStoreOf DEF Store!KeysIn
    <3> QED
      BY <2>1, <3>1, AsFunctionOf DEF HasKey, ValueOf
  <2>2. CASE ~Has(ini, s)
    <3>1. Store!KeysIn(s) = Store!Nothing
      BY <2>2, AsStoreOf DEF Store!KeysIn
    <3> QED
      BY <2>2, <3>1 DEF Store!Nothing, HasKey
  <2> QED
    BY <2>1, <2>2
<1>3. AsFunction(Get(n, s)) = keys
  <2>1. \A q : q \in DOMAIN AsFunction(Get(n, s)) <=> HasKey(ini, s, q) \/ q = k
    BY <1>1, AsFunctionOf DEF HasKey
  <2>2. \A q : q \in DOMAIN keys <=> HasKey(ini, s, q) \/ q = k
    BY <1>2
  <2>3. DOMAIN AsFunction(Get(n, s)) = DOMAIN keys
    BY <2>1, <2>2
  <2>4. ASSUME NEW q \in DOMAIN keys PROVE AsFunction(Get(n, s))[q] = keys[q]
    <3>1. HasKey(n, s, q) /\ Has(Get(n, s), q)
      BY <1>1, <2>2, <2>4 DEF HasKey
    <3>2. AsFunction(Get(n, s))[q] = ValueOf(n, s, q)
      BY <3>1, AsFunctionOf DEF ValueOf
    <3>3. CASE q = k
      BY <1>1, <2>4, <3>2, <3>3
    <3>4. CASE q # k
      <4>1. HasKey(ini, s, q)
        BY <2>2, <2>4, <3>4
      <4>2. keys[q] = ValueOf(ini, s, q)
        BY <1>2, <2>4, <3>4, <4>1
      <4> QED
        BY <1>1, <3>2, <3>4, <4>1, <4>2
    <3> QED
      BY <3>3, <3>4
  <2>5. keys = [q \in DOMAIN keys |-> keys[q]]
    OBVIOUS
  <2> HIDE DEF keys
  <2> QED
    BY <2>3, <2>4, <2>5, AsFunctionOf
<1>4. ASSUME NEW t, Has(ini, t), t # s
      PROVE  AsFunction(Get(n, t)) = AsFunction(Get(ini, t))
  <2>1. DOMAIN AsFunction(Get(n, t)) = DOMAIN AsFunction(Get(ini, t))
    <3>1. \A q : Has(Get(n, t), q) <=> Has(Get(ini, t), q)
      BY <1>1, <1>4 DEF HasKey
    <3> QED
      BY <3>1, AsFunctionOf
  <2>2. ASSUME NEW q \in DOMAIN AsFunction(Get(ini, t))
        PROVE  AsFunction(Get(n, t))[q] = AsFunction(Get(ini, t))[q]
    <3>1. Has(Get(ini, t), q) /\ HasKey(ini, t, q) /\ HasKey(n, t, q) /\ Has(Get(n, t), q)
      BY <1>1, <1>4, <2>2, AsFunctionOf DEF HasKey
    <3>2. ValueOf(n, t, q) = ValueOf(ini, t, q)
      BY <1>1, <1>4, <3>1
    <3> QED
      BY <3>1, <3>2, AsFunctionOf DEF ValueOf
  <2> QED
    BY <2>1, <2>2, AsFunctionOf
<1> HIDE DEF keys
<1>5. AsStore(n) = Store!Change(s, keys)
  <2> DEFINE new == Store!Change(s, keys)
  <2>1. /\ new = [t \in DOMAIN AsStore(ini) \cup {s} |->
                    IF t = s THEN keys ELSE AsStore(ini)[t]]
    BY DEF Store!Change
  <2> HIDE DEF new
  <2>2. DOMAIN new = DOMAIN AsStore(ini) \cup {s} /\ new = [t \in DOMAIN new |-> new[t]]
    BY <2>1
  <2>3. DOMAIN AsStore(n) = DOMAIN new
    BY <1>1, <2>2, AsStoreOf
  <2>4. ASSUME NEW t \in DOMAIN new PROVE AsStore(n)[t] = new[t]
    <3>1. Has(n, t) /\ (t # s => Has(ini, t))
      BY <1>1, <2>2, <2>4, AsStoreOf
    <3>2. AsStore(n)[t] = AsFunction(Get(n, t))
      BY <3>1, AsStoreOf
    <3>3. new[t] = IF t = s THEN keys ELSE AsStore(ini)[t]
      BY <2>1, <2>2, <2>4
    <3>4. CASE t = s
      BY <1>3, <3>2, <3>3, <3>4
    <3>5. CASE t # s
      BY <1>4, <3>1, <3>2, <3>3, <3>5, AsStoreOf
    <3> QED
      BY <3>4, <3>5
  <2> QED
    BY <2>2, <2>3, <2>4, AsStoreOf DEF new
<1> QED
  BY <1>1, <1>5 DEF n, keys

(* ini[s].remove(k) *)
LEMMA RemoveKeyIsRemoveKey ==
  ASSUME Structure(ini), NEW s \in Sections, NEW k \in Keys, Has(ini, s)
  PROVE  /\ Structure(Put(ini, s, Remove(Get(ini, s), k)))
         /\ AsStore(Put(ini, s, Remove(Get(ini, s), k))) =
              Store!Change(s, [q \in DOMAIN AsStore(ini)[s] \ {k} |-> AsStore(ini)[s][q]])
<1> DEFINE old  == Get(ini, s)
           left == Remove(old, k)
           n    == Put(ini, s, left)
           keys == [q \in DOMAIN AsStore(ini)[s] \ {k} |-> AsStore(ini)[s][q]]
<1>1. SoundMap(old, Keys, Values)
  BY SectionTyped
<1>2. /\ SoundMap(left, Keys, Values) /\ DOMAIN left.index = DOMAIN old.index \ {k}
      /\ \A q \in DOMAIN old.index \ {k} : Get(left, q) = Get(old, q)
  BY <1>1, RemoveKeepsSound
<1>3. AsFunction(left) = [q \in DOMAIN AsFunction(old) \ {k} |-> AsFunction(old)[q]]
  <2>1. DOMAIN AsFunction(old) = DOMAIN old.index
    BY DEF AsFunction
  <2>2. \A q \in DOMAIN old.index : AsFunction(old)[q] = Get(old, q)
    BY DEF AsFunction
  <2>3. AsFunction(left) = [q \in DOMAIN left.index |-> Get(left, q)]
    BY DEF AsFunction
  <2> HIDE DEF left, old
  <2> QED
    BY <1>2, <2>1, <2>2, <2>3
<1>4. AsStore(ini)[s] = AsFunction(old)
  BY AsStoreOf
<1> HIDE DEF left, n
<1>5. /\ Structure(n) /\ Get(n, s) = left
      /\ \A t : Has(n, t) <=> Has(ini, t) \/ t = s
      /\ \A t : Has(ini, t) /\ t # s => Get(n, t) = Get(ini, t)
  BY <1>2, PutSection DEF n
<1>6. AsFunction(left) = keys
  BY <1>3, <1>4
<1> HIDE DEF keys, old
<1>7. AsStore(n) = Store!Change(s, keys)
  <2> DEFINE new == Store!Change(s, keys)
  <2>1. new = [t \in DOMAIN AsStore(ini) \cup {s} |->
                 IF t = s THEN keys ELSE AsStore(ini)[t]]
    BY DEF Store!Change
  <2> HIDE DEF new
  <2>2. DOMAIN new = DOMAIN AsStore(ini) \cup {s} /\ new = [t \in DOMAIN new |-> new[t]]
    BY <2>1
  <2>3. DOMAIN AsStore(n) = DOMAIN new
    BY <1>5, <2>2, AsStoreOf
  <2>4. ASSUME NEW t \in DOMAIN new PROVE AsStore(n)[t] = new[t]
    <3>1. Has(n, t) /\ (t # s => Has(ini, t))
      BY <1>5, <2>2, <2>4, AsStoreOf
    <3>2. AsStore(n)[t] = AsFunction(Get(n, t))
      BY <3>1, AsStoreOf
    <3>3. new[t] = IF t = s THEN keys ELSE AsStore(ini)[t]
      BY <2>1, <2>2, <2>4
    <3>4. CASE t = s
      BY <1>5, <1>6, <3>2, <3>3, <3>4
    <3>5. CASE t # s
      <4>1. Get(n, t) = Get(ini, t)
        BY <1>5, <3>1, <3>5
      <4>2. AsStore(ini)[t] = AsFunction(Get(ini, t))
        BY <3>1, <3>5, AsStoreOf
      <4> QED
        BY <3>2, <3>3, <3>5, <4>1, <4>2
    <3> QED
      BY <3>4, <3>5
  <2> QED
    BY <2>2, <2>3, <2>4, AsStoreOf DEF new
<1> QED
  BY <1>5, <1>7 DEF n, left, keys, old

(* ini.remove(s) *)
LEMMA RemoveSectionIsRemoveSection ==
  ASSUME Structure(ini), NEW s \in Sections
  PROVE  /\ Structure(Remove(ini, s))
         /\ AsStore(Remove(ini, s)) = [t \in DOMAIN AsStore(ini) \ {s} |-> AsStore(ini)[t]]
<1> DEFINE n == Remove(ini, s)
<1>1. /\ Structure(n) /\ DOMAIN n.index = DOMAIN ini.index \ {s}
      /\ \A t \in DOMAIN ini.index \ {s} : Get(n, t) = Get(ini, t)
  BY RemoveKeepsSound DEF Structure
<1> HIDE DEF n
<1>2. DOMAIN AsStore(ini) = DOMAIN ini.index
  BY DEF AsStore
<1>3. \A t \in DOMAIN ini.index : AsStore(ini)[t] = AsFunction(Get(ini, t))
  BY DEF AsStore
<1>4. AsStore(n) = [t \in DOMAIN n.index |-> AsFunction(Get(n, t))]
  BY DEF AsStore
<1>5. AsStore(n) = [t \in DOMAIN AsStore(ini) \ {s} |-> AsStore(ini)[t]]
  BY <1>1, <1>2, <1>3, <1>4
<1> QED
  BY <1>1, <1>5 DEF n

(* The inductive invariant: the structure in memory is sound on both       *)
(* levels, and what a reader of the file gets is what was last stored.     *)
IInv ==
  /\ pc \in {"off", "open"} /\ edits \in 0 .. MaxEdits
  /\ file \in Files /\ Structure(ini)
  /\ stored = AsStore(Parse(file))

LEMMA PlayersLine ==
  ASSUME NEW f \in Files, NEW line \in Lines, NEW i \in 1 .. Len(LinesOf(f)) + 1
  PROVE  Text(Seqs!InsertAt(LinesOf(f), i, line)) \in Seq(Lines)
<1> DEFINE L == LinesOf(f)
<1>1. L \in Seq(Lines)
  BY LinesOfFile
<1> HIDE DEF L
<1>2. /\ SubSeq(L, 1, i - 1) \in Seq(Lines) /\ SubSeq(L, i, Len(L)) \in Seq(Lines)
      /\ <<line>> \in Seq(Lines) /\ <<>> \in Seq(Lines)
  BY <1>1 DEF L
<1>3. Seqs!InsertAt(L, i, line) \in Seq(Lines)
  BY <1>2 DEF Seqs!InsertAt
<1> QED
  BY <1>2, <1>3 DEF Text, L

(* Every action, with what it does to the file and the structure. *)
LEMMA EveryAction ==
  ASSUME IInv, Next
  PROVE  IInv' /\ Store!Next
<1> USE DEF IInv
<1>1. CASE Player
  <2>1. PICK f \in Files : Becomes(f)
    <3>1. CASE Becomes(NoFile)
      BY <3>1 DEF Files
    <3>2. CASE \E line \in Lines, i \in 1 .. Len(LinesOf(file)) + 1 :
                 Becomes(Text(Seqs!InsertAt(LinesOf(file), i, line)))
      BY <3>2, PlayersLine DEF Files
    <3> QED
      BY <1>1, <3>1, <3>2 DEF Player
  <2>2. /\ file' \in Files /\ stored' = AsStore(Parse(file')) /\ pc = "off"
        /\ UNCHANGED <<pc, ini, edits>>
    BY <1>1, <2>1 DEF Becomes, Player
  <2>3. stored' \in Store!Stores
    BY <2>2, ParseTyped, AsStoreTyped
  <2>4. Store!Edit
    BY <2>2, <2>3 DEF Store!Edit
  <2> QED
    BY <2>2, <2>4 DEF Store!Next
<1>2. CASE Open
  <2>1. /\ pc = "off" /\ pc' = "open" /\ edits' = 0 /\ UNCHANGED <<file, stored>>
        /\ ini' \in {Parse(file), EmptyMap}
    BY <1>2 DEF Open
  <2>2. Structure(ini')
    BY <2>1, ParseTyped, EmptyStructure
  <2>3. AsStore(ini') \in {stored, Store!Nothing}
    <3>1. AsStore(EmptyMap) = Store!Nothing
      BY EmptyStructure DEF AsStore, Store!Nothing
    <3> QED
      BY <2>1, <3>1
  <2>4. Store!Begin
    BY <2>1, <2>3 DEF Store!Begin
  <2>5. 0 \in 0 .. MaxEdits
    BY BoundAssumption
  <2> QED
    BY <2>1, <2>2, <2>4, <2>5 DEF Store!Next
<1>3. CASE Write
  <2>1. /\ pc = "open" /\ pc' = "off" /\ edits' = 0 /\ ini' = EmptyMap
        /\ file' = Written(file, ini) /\ stored' = AsStore(Parse(file'))
    BY <1>3 DEF Write, Becomes
  <2>2. Structure(ini') /\ AsStore(ini') = Store!Nothing
    BY <2>1, EmptyStructure DEF AsStore, Store!Nothing
  <2>3. file' \in Files /\ stored' = AsStore(ini)
    BY <2>1, WrittenIsRead DEF Files
  <2>4. Store!Save
    BY <2>1, <2>2, <2>3 DEF Store!Save
  <2>5. 0 \in 0 .. MaxEdits
    BY BoundAssumption
  <2> QED
    BY <2>1, <2>2, <2>3, <2>4, <2>5 DEF Store!Next
<1>4. ASSUME NEW s \in Sections, RemoveSection(s)
      PROVE  IInv' /\ Store!Next
  <2>1. /\ pc = "open" /\ ini' = Remove(ini, s) /\ edits' = edits + 1 /\ edits < MaxEdits
        /\ UNCHANGED <<pc, file, stored>>
    BY <1>4 DEF RemoveSection, Change
  <2>2. Structure(ini')
    BY <2>1, RemoveSectionIsRemoveSection
  <2>3. Store!RemoveSection(s)
    BY <2>1, RemoveSectionIsRemoveSection DEF Store!RemoveSection
  <2> QED
    BY <2>1, <2>2, <2>3, BoundAssumption DEF Store!Next
<1>5. ASSUME NEW s \in Sections, NEW k \in Keys, RemoveKey(s, k)
      PROVE  IInv' /\ Store!Next
  <2>1. /\ pc = "open" /\ Has(ini, s) /\ ini' = Put(ini, s, Remove(Get(ini, s), k))
        /\ edits' = edits + 1 /\ edits < MaxEdits /\ UNCHANGED <<pc, file, stored>>
    BY <1>5 DEF RemoveKey, Change
  <2>2. Structure(ini')
    BY <2>1, RemoveKeyIsRemoveKey
  <2>3. Store!RemoveKey(s, k)
    BY <2>1, RemoveKeyIsRemoveKey, AsStoreOf DEF Store!RemoveKey
  <2> QED
    BY <2>1, <2>2, <2>3, BoundAssumption DEF Store!Next
<1>6. ASSUME NEW s \in Sections, NEW k \in Keys, NEW v \in Values, Set(s, k, v)
      PROVE  IInv' /\ Store!Next
  <2>1. /\ pc = "open" /\ ini' = SetValue(ini, s, k, v)
        /\ edits' = edits + 1 /\ edits < MaxEdits /\ UNCHANGED <<pc, file, stored>>
    BY <1>6 DEF Set, Change
  <2>2. Structure(ini')
    BY <2>1, SetIsSet
  <2>3. Store!Set(s, k, v)
    BY <2>1, SetIsSet DEF Store!Set
  <2> QED
    BY <2>1, <2>2, <2>3, BoundAssumption DEF Store!Next
<1> QED
  BY <1>1, <1>2, <1>3, <1>4, <1>5, <1>6 DEF Next

THEOREM InductiveInvariant == Spec => []IInv
<1>1. Init => IInv
  <2> SUFFICES ASSUME Init PROVE IInv
    OBVIOUS
  <2>1. Parse(NoFile) = EmptyMap
    <3>1. <<>> \in Seq(Lines) /\ Len(<<>>) = 0
      OBVIOUS
    <3>2. Reading(<<>>)[0] = NothingRead
      BY <3>1, ReadingTurns
    <3>3. Parse(NoFile) = Reading(<<>>)[0].data
      BY <3>1, LinesOfFile DEF Parse, Read
    <3> QED
      <4>1. NothingRead.data = EmptyMap
        BY DEF NothingRead
      <4> QED
        BY <3>2, <3>3, <4>1
  <2> QED
    BY <2>1, EmptyStructure, BoundAssumption DEF Init, IInv, Files
<1>2. IInv /\ UNCHANGED vars => IInv'
  BY DEF vars, IInv
<1>3. IInv /\ [Next]_vars => IInv'
  BY <1>2, EveryAction
<1> QED
  BY <1>1, <1>3, PTL DEF Spec

-----------------------------------------------------------------------------
(* What the invariant says, and what it is for *)

LEMMA StructureSound ==
  ASSUME NEW m, Structure(m)
  PROVE  /\ StructureType(m)
         /\ Sound(m) /\ \A i \in DOMAIN m.data : Sound(m.data[i].value)
<1>1. Sound(m) /\ DOMAIN m.index \subseteq Sections
  BY DEF Structure, SoundMap, IsMap
<1>2. ASSUME NEW i \in DOMAIN m.data PROVE SoundMap(m.data[i].value, Keys, Values)
  <2>1. m.data \in Seq(Entries(Sections, KeyMaps))
    BY DEF Structure, SoundMap, IsMap
  <2>2. m.data[i] \in Entries(Sections, KeyMaps)
    BY <2>1
  <2> QED
    BY <2>2, SoundMapsMembers DEF Entries, KeyMaps
<1>3. ASSUME NEW i \in DOMAIN m.data
      PROVE  LET keys == m.data[i].value IN
             /\ DOMAIN keys.index \subseteq Keys
             /\ \A j \in DOMAIN keys.data : keys.data[j].value \in Values
  <2> DEFINE keys == m.data[i].value
  <2>1. DOMAIN keys.index \subseteq Keys /\ keys.data \in Seq(Entries(Keys, Values))
    BY <1>2 DEF SoundMap, IsMap
  <2> HIDE DEF keys
  <2>2. \A j \in DOMAIN keys.data : keys.data[j] \in Entries(Keys, Values)
    BY <2>1
  <2>3. \A j \in DOMAIN keys.data : keys.data[j].value \in Values
    BY <2>2 DEF Entries
  <2> QED
    BY <2>1, <2>3 DEF keys
<1> QED
  BY <1>1, <1>2, <1>3 DEF StructureType, SoundMap

(* The variables have their types: the file is made of lines, and what the *)
(* program holds of sections, keys and values.                             *)
THEOREM TypeCorrect == Spec => []TypeOK
<1>1. IInv => TypeOK
  <2> SUFFICES ASSUME IInv PROVE TypeOK
    OBVIOUS
  <2>1. file = NoFile \/ file \in Seq(Lines)
    BY DEF IInv, Files
  <2>2. file = NoFile \/ \A i \in DOMAIN file : file[i] \in Lines
    BY <2>1
  <2> QED
    BY <2>2, StructureSound DEF IInv, TypeOK
<1> QED
  BY <1>1, InductiveInvariant, PTL

(* However keys and sections are read, set and removed, the index of the   *)
(* structure and of every section leads to the entry of each key.          *)
THEOREM IndexesAreSound == Spec => []IndexSound
<1>1. IInv => IndexSound
  BY StructureSound DEF IInv, IndexSound
<1> QED
  BY <1>1, InductiveInvariant, PTL

(* The lines of the file implement the store: what a program writes over   *)
(* any file is what the next one reads, all of it and nothing else.        *)
THEOREM FileImplementsStore == Spec => StoreImplemented
<1>1. Init => Store!Init
  <2>1. AsStore(EmptyMap) = Store!Nothing
    BY EmptyStructure DEF AsStore, Store!Nothing
  <2> QED
    BY <2>1 DEF Init, Store!Init
<1>2. UNCHANGED vars => UNCHANGED Store!vars
  BY DEF vars, Store!vars
<1>3. IInv /\ [Next]_vars => [Store!Next]_(Store!vars)
  BY <1>2, EveryAction
<1> QED
  BY <1>1, <1>3, InductiveInvariant, PTL DEF Spec, StoreImplemented, Store!Spec

-----------------------------------------------------------------------------
(* A second save *)

LEMMA NoneLeft ==
  ASSUME NEW E, NEW seq \in Seq(E), NEW S, \A j \in 1 .. Len(seq) : seq[j] \notin S
  PROVE  Filter(seq, S) = <<>>
<1> DEFINE F == Filter(seq, S)
<1>1. F \in Seq(E \cap S)
  BY Filtered
<1>2. \A i \in 1 .. Len(F) : \E j \in 1 .. Len(seq) : F[i] = seq[j]
  BY FilteredFrom
<1> HIDE DEF F
<1>3. \A i \in 1 .. Len(F) : F[i] \in S
  BY <1>1
<1>4. Len(F) = 0
  <2>1. Len(F) \in Nat
    BY <1>1
  <2> SUFFICES ASSUME Len(F) # 0 PROVE FALSE
    OBVIOUS
  <2>2. 1 \in 1 .. Len(F)
    BY <2>1
  <2>3. PICK j \in 1 .. Len(seq) : F[1] = seq[j]
    BY <1>2, <2>2
  <2>4. F[1] \in S
    BY <1>3, <2>2
  <2> QED
    BY <2>3, <2>4
<1>5. F = <<>>
  BY <1>1, <1>4
<1> QED
  BY <1>5 DEF F

(* A file that has all keys gets no new ones. *)
LEMMA NothingNew ==
  ASSUME NEW m, Structure(m), NEW original, SameStore(original, m), NEW s
  PROVE  NewKeys(s, m, original) = <<>>
<1>1. CASE ~(Has(m, s) /\ Has(original, s))
  BY <1>1 DEF NewKeys
<1>2. CASE Has(m, s) /\ Has(original, s)
  <2> DEFINE all == KeyLines(Get(m, s))
             S == {KeyLine(k, v) : k \in Keys \ DOMAIN Get(original, s).index, v \in Values}
  <2>1. SoundMap(Get(m, s), Keys, Values)
    BY <1>2, SectionTyped
  <2>2. all \in Seq(Lines)
    BY <2>1, KeyLinesOf
  <2>3. ASSUME NEW j \in 1 .. Len(all), all[j] \in S PROVE FALSE
    <3>1. PICK k : Has(Get(m, s), k) /\ all[j] = KeyLine(k, Get(Get(m, s), k))
      BY <2>1, KeyLinesOf
    <3>2. Has(Get(original, s), k)
      BY <1>2, <3>1 DEF SameStore, HasKey
    <3>3. PICK q \in Keys \ DOMAIN Get(original, s).index, v \in Values : all[j] = KeyLine(q, v)
      BY <2>3
    <3>4. k = q
      <4>1. all[j].key = k
        BY <3>1, LineForms
      <4>2. all[j].key = q
        BY <3>3, LineForms
      <4> QED
        BY <4>1, <4>2
    <3> QED
      BY <3>2, <3>3, <3>4 DEF Has
  <2>4. NewKeys(s, m, original) = Filter(all, S)
    BY <1>2 DEF NewKeys
  <2> HIDE DEF all, S
  <2>5. \A j \in 1 .. Len(all) : all[j] \notin S
    BY <2>3
  <2> QED
    BY <2>2, <2>4, <2>5, NoneLeft
<1> QED
  BY <1>1, <1>2

LEMMA NoNewKeysAdded ==
  ASSUME NEW st \in Writers, st.lastKey <= Len(st.out), NEW m, NEW original,
         NewKeys(st.section, m, original) = <<>>
  PROVE  AddNewKeys(st, m, original) = st
<1>1. st.out \in Seq(Lines) /\ st.lastKey \in Nat
  BY DEF Writers
<1>2. st.lastKey \in 0 .. Len(st.out)
  BY <1>1
<1>3. Spread(st.out, st.lastKey, <<>>) = st.out
  BY <1>1, <1>2, SpreadNothing
<1>4. AddNewKeys(st, m, original) = [st EXCEPT !.out = st.out]
  BY <1>3 DEF AddNewKeys, Spread
<1>5. \A w \in Writers : [w EXCEPT !.out = w.out] = w
  BY DEF Writers
<1> QED
  BY <1>4, <1>5

LEMMA NoNewSections ==
  ASSUME NEW m, Structure(m), NEW original, SameStore(original, m)
  PROVE  NewSections(m, original) = <<>>
<1> DEFINE n == Len(m.data)
<1>1. n \in Nat /\ \A i \in 1 .. n : Has(m, m.data[i].key)
  BY NewSectionsTurns
<1>2. PICK f \in [0 .. n -> Seq(Lines)] : SectionTurns(f, m, original)
  BY NewSectionsTurns
<1>3. /\ NewSections(m, original) = f[n] /\ f[0] = <<>>
      /\ \A i \in 1 .. n : f[i] = f[i - 1]
  BY <1>1, <1>2 DEF SectionTurns, SectionLines, SameStore
<1> HIDE DEF n
<1> DEFINE T == {i \in 0 .. n : f[i] = <<>>}
<1>4. 0 \in T /\ \A i \in 1 .. n : i - 1 \in T => i \in T
  BY <1>1, <1>3
<1>5. \A i \in 0 .. n : i \in T
  <2> HIDE DEF T
  <2> QED
    BY <1>1, <1>4, EveryTurn
<1> QED
  BY <1>1, <1>3, <1>5

(* Lines that say what the structure does are written as they are. *)
LEMMA WrittenAgain ==
  ASSUME NEW L, NEW m, NEW original,
         Given(L, m, original), Says(L, m), SameStore(original, m)
  PROVE  LazyOutput(L, m, original) = L
<1> DEFINE n == Len(L)  W == Writing(L, m, original)
<1>1. /\ n \in Nat /\ L \in Seq(Lines) /\ Structure(m)
      /\ HeadersMatch(L, m) /\ KeysTrue(L, m)
      /\ \A i \in 1 .. n : L[i] \in Lines /\ L[i].kind # "unknown"
  BY DEF Given, Says, Known
<1>9. SameStore(original, m)
  OBVIOUS
<1>2. /\ W[0] = NothingWritten
      /\ \A i \in 1 .. n : W[i] = WriteLine(W[i - 1], L[i], m, original)
      /\ \A i \in 0 .. n : W[i] \in Writers /\ WriterInv(L, i, W[i], m, original)
  BY WritingTurns
<1> HIDE DEF W, n
<1> DEFINE T == {i \in 0 .. n : W[i].out = SubSeq(L, 1, i) /\ W[i].discard = FALSE}
<1>3. 0 \in T
  <2>1. NothingWritten.out = <<>> /\ NothingWritten.discard = FALSE
    BY DEF NothingWritten
  <2>2. SubSeq(L, 1, 0) = <<>> /\ 0 \in 0 .. n
    BY <1>1
  <2> QED
    BY <1>2, <2>1, <2>2
<1>4. ASSUME NEW i \in 1 .. n, i - 1 \in T
      PROVE  i \in T
  <2> DEFINE st == W[i - 1]  line == L[i]
  <2>1. /\ i - 1 \in 0 .. n /\ i \in 0 .. n /\ i - 1 \in Nat /\ i \in Nat /\ i \in 1 .. Len(L)
        /\ line \in Lines /\ line.kind # "unknown"
    BY <1>1 DEF n
  <2>2. /\ st \in Writers /\ WriterInv(L, i - 1, st, m, original)
        /\ st.out = SubSeq(L, 1, i - 1) /\ st.discard = FALSE
        /\ W[i] = WriteLine(st, line, m, original)
    BY <1>2, <1>4, <2>1
  <2>3. AddNewKeys(st, m, original) = st
    <3>1. NewKeys(st.section, m, original) = <<>>
      BY <1>1, <1>9, NothingNew
    <3>2. st.lastKey <= Len(st.out)
      BY <2>2 DEF WriterInv
    <3> HIDE DEF st
    <3> QED
      BY <2>2, <3>1, <3>2, NoNewKeysAdded
  <2>4. Append(SubSeq(L, 1, i - 1), line) = SubSeq(L, 1, i)
    BY <1>1 DEF n
  <2> HIDE DEF st
  <2>5. W[i].out = Append(st.out, line) /\ W[i].discard = FALSE
    <3>1. CASE line.kind = "section"
      <4>1. line.name \in Sections /\ line = Header(line.name)
        BY <2>1, <3>1, LineForms
      <4>2. Has(m, line.name)
        BY <1>1, <2>1, <4>1 DEF HeadersMatch
      <4>3. W[i] = WriteHeader(st, line, m)
        BY <2>2, <2>3, <3>1 DEF WriteLine
      <4> QED
        BY <2>2, <4>2, <4>3 DEF WriteHeader, Writers
    <3>2. CASE line.kind = "keyvalue"
      <4>1. PICK s : /\ Under(L, i, s) /\ HasKey(m, s, line.key)
                     /\ line = KeyLine(line.key, ValueOf(m, s, line.key))
        BY <1>1, <2>1, <3>2 DEF KeysTrue
      <4>2. Under(L, i - 1, s)
        <5>1. (i - 1) + 1 = i /\ L[i].kind # "section"
          BY <3>2
        <5> QED
          BY <2>1, <4>1, <5>1, UnderNext
      <4>3. /\ Under(L, i - 1, st.section)
            /\ st.skipping <=> ~Has(m, st.section)
        <5>1. PICK h \in 1 .. i - 1 : L[h] = Header(s)
          BY <4>2 DEF Under
        <5>2. L[h].kind = "section"
          BY <5>1, LineForms
        <5>3. AtSection(L, i - 1, st, m)
          BY <2>2 DEF WriterInv
        <5> QED
          BY <5>1, <5>2, <5>3 DEF AtSection
      <4>4. st.section = s
        BY <2>1, <4>2, <4>3, UnderOne
      <4>5. Kept(st, line, m) /\ line = KeyLine(line.key, ValueIn(st, line.key, m))
        BY <4>1, <4>3, <4>4 DEF Kept, ValueIn, ValueOf, HasKey
      <4>6. W[i] = WriteKey(st, line, m)
        BY <2>2, <3>2 DEF WriteLine
      <4>7. PICK written : written = KeyLine(line.key, ValueIn(st, line.key, m))
        OBVIOUS
      <4>8. W[i] = [st EXCEPT !.out = Append(@, written), !.lastKey = Len(st.out) + 1]
        BY <4>5, <4>6, <4>7 DEF WriteKey
      <4>9. written = line
        BY <4>5, <4>7
      <4> QED
        BY <2>2, <4>8, <4>9 DEF Writers
    <3>3. CASE line.kind \in {"comment", "none"}
      BY <2>2, <3>3 DEF WriteLine, Writers
    <3>4. line.kind \in {"section", "keyvalue", "comment", "none", "unknown"}
      BY <2>1, LineForms
    <3> QED
      BY <2>1, <3>1, <3>2, <3>3, <3>4
  <2> QED
    BY <2>1, <2>2, <2>4, <2>5
<1>5. W[n].out = L /\ W[n] \in Writers /\ WriterInv(L, n, W[n], m, original)
  <2>1. \A i \in 0 .. n : i \in T
    <3> HIDE DEF T
    <3> QED
      BY <1>1, <1>3, <1>4, EveryTurn
  <2>2. n \in 0 .. n /\ SubSeq(L, 1, n) = L
    BY <1>1 DEF n
  <2> QED
    BY <1>2, <2>1, <2>2
<1>6. AddNewKeys(W[n], m, original) = W[n]
  BY <1>1, <1>5, NothingNew, NoNewKeysAdded DEF WriterInv
<1>7. LazyOutput(L, m, original) = L \o <<>>
  BY <1>1, <1>5, <1>6, NoNewSections DEF LazyOutput, W, n
<1> QED
  BY <1>1, <1>7

LEMMA TextOnce == \A L : Text(Text(L)) = Text(L)
<1>1. <<>> # <<Blank>>
  OBVIOUS
<1> QED
  BY <1>1 DEF Text

(* A second save of the same structure leaves the file as it is: what was  *)
(* new in the first is found, key by key, and written where it stands.     *)
THEOREM SecondSave == Spec => SaveIdempotent
<1>1. ASSUME IInv, Write
      PROVE  Written(file', ini) = file'
  <2> DEFINE W == Written(file, ini)
  <2>1. file \in Files /\ Structure(ini)
    BY <1>1 DEF IInv
  <2>2. file' = W
    BY <1>1 DEF Write, Becomes
  <2>3. /\ W \in Seq(Lines) /\ Says(W, ini) /\ Read(W).lines = W
        /\ SameStore(Parse(W), ini)
    BY <2>1, WrittenIsRead
  <2>4. Text(W) = W
    BY TextOnce DEF Written
  <2> HIDE DEF W
  <2>5. LinesOf(W) = W /\ W \in Files
    BY <2>3, LinesOfFile DEF Files
  <2>6. Given(W, ini, Parse(W))
    <3>1. Parse(W) = Read(W).data
      BY <2>5 DEF Parse
    <3>2. Means(W, Parse(W)) /\ Known(W) /\ Structure(Parse(W))
      BY <2>3, <3>1, ReadMeans
    <3> QED
      BY <2>1, <3>2 DEF Given
  <2>7. LazyOutput(W, ini, Parse(W)) = W
    BY <2>3, <2>6, WrittenAgain
  <2>8. Written(W, ini) = W
    BY <2>3, <2>4, <2>5, <2>7 DEF Written
  <2> QED
    BY <2>2, <2>8
<1>2. IInv /\ [Next]_vars => [Write => Written(file', ini) = file']_vars
  BY <1>1
<1> QED
  BY <1>2, InductiveInvariant, PTL DEF Spec, SaveIdempotent

-----------------------------------------------------------------------------
(* The comments *)

Joined(u, v, x) == Append(u \o v, x) = u \o Append(v, x)

LEMMA AppendJoined ==
  ASSUME NEW E, NEW u \in Seq(E), NEW v \in Seq(E), NEW x \in E
  PROVE  Joined(u, v, x)
BY DEF Joined

LEMMA FilterJoined ==
  ASSUME NEW E, NEW a \in Seq(E), NEW b \in Seq(E), NEW S
  PROVE  Filter(a \o b, S) = Filter(a, S) \o Filter(b, S)
<1> DEFINE n == Len(b)  part(j) == SubSeq(b, 1, j)
           T == {j \in 0 .. n : Filter(a \o part(j), S) = Filter(a, S) \o Filter(part(j), S)}
<1>1. n \in Nat /\ part(0) = <<>> /\ part(n) = b
  OBVIOUS
<1>2. \A j \in 1 .. n : /\ part(j - 1) \in Seq(E) /\ b[j] \in E
                        /\ part(j) = Append(part(j - 1), b[j])
                        /\ a \o part(j - 1) \in Seq(E)
                        /\ a \o part(j) = Append(a \o part(j - 1), b[j])
  <2> TAKE j \in 1 .. n
  <2>1. /\ part(j - 1) \in Seq(E) /\ b[j] \in E
        /\ part(j) = Append(part(j - 1), b[j])
    OBVIOUS
  <2> HIDE DEF part
  <2>2. PICK front \in Seq(E) : front = part(j - 1)
    BY <2>1
  <2>3. PICK x \in E : x = b[j]
    BY <2>1
  <2>4. a \o front \in Seq(E) /\ a \o Append(front, x) = Append(a \o front, x)
    OBVIOUS
  <2> QED
    BY <2>1, <2>2, <2>3, <2>4
<1>3. Filter(a, S) \in Seq(E \cap S)
  BY Filtered
<1>4. 0 \in T
  <2>1. a \o part(0) = a
    BY <1>1
  <2>2. Filter(part(0), S) = <<>>
    BY <1>1, FilterEmpty
  <2>3. Filter(a, S) \o <<>> = Filter(a, S)
    BY <1>3
  <2>4. Filter(a \o part(0), S) = Filter(a, S) \o Filter(part(0), S)
    <3> HIDE DEF part
    <3> QED
      BY <2>1, <2>2, <2>3
  <2>5. 0 \in 0 .. n
    BY <1>1
  <2> QED
    BY <2>4, <2>5
<1> HIDE DEF part
<1>5. ASSUME NEW j \in 1 .. n, j - 1 \in T
      PROVE  j \in T
  <2>1. PICK front \in Seq(E) : front = part(j - 1)
    BY <1>2
  <2>2. PICK x \in E : x = b[j]
    BY <1>2
  <2>3. PICK both \in Seq(E) : both = a \o part(j - 1)
    BY <1>2
  <2>4. /\ Filter(Append(front, x), S) =
             IF x \in S THEN Append(Filter(front, S), x) ELSE Filter(front, S)
        /\ Filter(Append(both, x), S) =
             IF x \in S THEN Append(Filter(both, S), x) ELSE Filter(both, S)
    BY FilterAppend
  <2>5. Filter(both, S) = Filter(a, S) \o Filter(front, S)
    BY <1>5, <2>1, <2>3
  <2>6. /\ part(j) = Append(front, x) /\ a \o part(j) = Append(both, x)
        /\ j \in 0 .. n
    <3>1. /\ part(j) = Append(part(j - 1), b[j])
          /\ a \o part(j) = Append(a \o part(j - 1), b[j])
      BY <1>2
    <3>2. j \in 0 .. n
      BY <1>1
    <3> HIDE DEF n
    <3> QED
      BY <2>1, <2>2, <2>3, <3>1, <3>2
  <2>7. Filter(front, S) \in Seq(E \cap S)
    BY Filtered
  <2>8. x \in S => Append(Filter(a, S) \o Filter(front, S), x)
                     = Filter(a, S) \o Append(Filter(front, S), x)
    <3>0. PICK D : D = E \cap S
      OBVIOUS
    <3>1. PICK u \in Seq(D) : u = Filter(a, S)
      BY <1>3, <3>0
    <3>2. PICK v \in Seq(D) : v = Filter(front, S)
      BY <2>7, <3>0
    <3>3. ASSUME x \in S PROVE Append(u \o v, x) = u \o Append(v, x)
      <4>1. PICK y \in D : y = x
        BY <3>0, <3>3
      <4>2. Joined(u, v, y)
        BY AppendJoined
      <4> QED
        BY <4>1, <4>2 DEF Joined
    <3> QED
      BY <3>1, <3>2, <3>3
  <2>9. Filter(a \o part(j), S) = Filter(a, S) \o Filter(part(j), S)
    BY <2>4, <2>5, <2>6, <2>8
  <2> QED
    BY <2>6, <2>9
<1>6. \A j \in 0 .. n : j \in T
  <2> HIDE DEF T, n
  <2> QED
    BY <1>1, <1>4, <1>5, EveryTurn
<1>7. n \in 0 .. n
  BY <1>1
<1> QED
  BY <1>1, <1>6, <1>7

(* What the lines have of the comments of the file. *)
Remarks == {Comment(c) : c \in Comments}

LEMMA WhichAreRemarks == \A line \in Lines : line \in Remarks <=> line.kind = "comment"
BY LineForms DEF Remarks

LEMMA RemarksJoined ==
  ASSUME NEW a \in Seq(Lines), NEW b \in Seq(Lines)
  PROVE  Filter(a \o b, Remarks) = Filter(a, Remarks) \o Filter(b, Remarks)
BY FilterJoined

(* New lines of a section do not disturb the comments. *)
LEMMA SpreadKeepsComments ==
  ASSUME NEW L \in Seq(Lines), NEW new \in Seq(Lines), NEW p \in 0 .. Len(L),
         Filter(new, Remarks) = <<>>
  PROVE  Filter(Spread(L, p, new), Remarks) = Filter(L, Remarks)
<1>1. PICK a \in Seq(Lines) : a = SubSeq(L, 1, p)
  <2>1. SubSeq(L, 1, p) \in Seq(Lines)
    OBVIOUS
  <2> QED
    BY <2>1
<1>2. PICK b \in Seq(Lines) : b = SubSeq(L, p + 1, Len(L))
  <2>1. SubSeq(L, p + 1, Len(L)) \in Seq(Lines)
    OBVIOUS
  <2> QED
    BY <2>1
<1>3. PICK an \in Seq(Lines) : an = a \o new
  <2>1. a \o new \in Seq(Lines)
    OBVIOUS
  <2> QED
    BY <2>1
<1>4. a \o b = L
  <2>1. Spread(L, p, <<>>) = L
    BY SpreadNothing
  <2>2. a \o <<>> = a
    OBVIOUS
  <2> QED
    BY <1>1, <1>2, <2>1, <2>2 DEF Spread
<1>5. /\ Filter(a \o new, Remarks) = Filter(a, Remarks) \o Filter(new, Remarks)
      /\ Filter(an \o b, Remarks) = Filter(an, Remarks) \o Filter(b, Remarks)
      /\ Filter(a \o b, Remarks) = Filter(a, Remarks) \o Filter(b, Remarks)
  BY RemarksJoined
<1>6. Filter(a, Remarks) \o <<>> = Filter(a, Remarks)
  <2>1. Filter(a, Remarks) \in Seq(Lines \cap Remarks)
    BY Filtered
  <2> QED
    BY <2>1
<1>7. Spread(L, p, new) = an \o b
  BY <1>1, <1>2, <1>3 DEF Spread
<1> QED
  BY <1>3, <1>4, <1>5, <1>6, <1>7

LEMMA NewKeysAreNoComments ==
  ASSUME NEW m, Structure(m), NEW original, Structure(original), NEW s
  PROVE  Filter(NewKeys(s, m, original), Remarks) = <<>>
<1> DEFINE new == NewKeys(s, m, original)
<1>1. new \in Seq(Lines) /\ \A i \in 1 .. Len(new) : \E k, v : new[i] = KeyLine(k, v)
  BY NewKeysOf
<1> HIDE DEF new
<1>2. \A i \in 1 .. Len(new) : new[i] \notin Remarks
  <2> TAKE i \in 1 .. Len(new)
  <2>1. new[i] \in Lines /\ new[i].kind = "keyvalue"
    BY <1>1, LineForms
  <2> QED
    BY <2>1, WhichAreRemarks
<1>3. Filter(new, Remarks) = <<>>
  BY <1>1, <1>2, NoneLeft
<1> QED
  BY <1>3 DEF new

LEMMA NewSectionsAreNoComments ==
  ASSUME NEW m, Structure(m), NEW original
  PROVE  /\ NewSections(m, original) \in Seq(Lines)
         /\ Filter(NewSections(m, original), Remarks) = <<>>
<1> DEFINE n == Len(m.data)
<1>1. n \in Nat /\ \A i \in 1 .. n : Has(m, m.data[i].key) /\ m.data[i].value = Get(m, m.data[i].key)
  BY NewSectionsTurns
<1>2. PICK f \in [0 .. n -> Seq(Lines)] : SectionTurns(f, m, original)
  BY NewSectionsTurns
<1>3. /\ NewSections(m, original) = f[n] /\ f[0] = <<>>
      /\ \A i \in 1 .. n : f[i] = SectionLines(m, original, f[i - 1], i)
  BY <1>2 DEF SectionTurns
<1> HIDE DEF n
<1> DEFINE T == {i \in 0 .. n : Filter(f[i], Remarks) = <<>>}
<1>4. 0 \in T
  BY <1>1, <1>3, FilterEmpty
<1>5. ASSUME NEW i \in 1 .. n, i - 1 \in T
      PROVE  i \in T
  <2> DEFINE s == m.data[i].key
  <2>0. i - 1 \in 0 .. n /\ i \in 0 .. n
    BY <1>1
  <2>1. CASE Has(original, s)
    BY <1>3, <1>5, <2>0, <2>1 DEF SectionLines
  <2>2. CASE ~Has(original, s)
    <3>1. PICK a \in Seq(Lines) : a = f[i - 1]
      BY <1>2, <2>0
    <3>2. SoundMap(Get(m, s), Keys, Values) /\ s \in Sections
      BY <1>1, SectionTyped
    <3>3. PICK h \in Seq(Lines) : h = <<Header(s)>>
      <4>1. Header(s) \in Lines
        BY <3>2, LineForms
      <4>2. <<Header(s)>> \in Seq(Lines)
        BY <4>1
      <4> QED
        BY <4>2
    <3>4. PICK k \in Seq(Lines) : k = KeyLines(Get(m, s))
      BY <3>2, KeyLinesOf
    <3>5. Filter(h, Remarks) = <<>>
      <4>1. \A j \in 1 .. Len(h) : h[j] = Header(s) /\ h[j] \in Lines
        BY <3>3
      <4>2. Header(s) \notin Remarks
        BY <3>2, LineForms, WhichAreRemarks
      <4> QED
        BY <4>1, <4>2, NoneLeft
    <3>6. Filter(k, Remarks) = <<>>
      <4>1. \A j \in 1 .. Len(k) : \E q, v : k[j] = KeyLine(q, v)
        BY <3>2, <3>4, KeyLinesOf
      <4>2. \A j \in 1 .. Len(k) : k[j] \in Lines
        OBVIOUS
      <4>3. \A j \in 1 .. Len(k) : k[j].kind = "keyvalue"
        BY <4>1, LineForms
      <4>4. \A j \in 1 .. Len(k) : k[j] \notin Remarks
        BY <4>2, <4>3, WhichAreRemarks
      <4> QED
        BY <4>4, NoneLeft
    <3>7. PICK ah \in Seq(Lines) : ah = a \o h
      <4>1. a \o h \in Seq(Lines)
        OBVIOUS
      <4> QED
        BY <4>1
    <3>8. /\ Filter(a \o h, Remarks) = Filter(a, Remarks) \o Filter(h, Remarks)
          /\ Filter(ah \o k, Remarks) = Filter(ah, Remarks) \o Filter(k, Remarks)
      BY RemarksJoined
    <3>9. <<>> \o <<>> = <<>>
      OBVIOUS
    <3>10. f[i] = ah \o k
      BY <1>1, <1>3, <2>2, <3>1, <3>3, <3>4, <3>7 DEF SectionLines
    <3>11. Filter(a, Remarks) = <<>>
      BY <1>5, <3>1
    <3> QED
      BY <2>0, <3>5, <3>6, <3>7, <3>8, <3>9, <3>10, <3>11
  <2> QED
    BY <2>1, <2>2
<1>6. \A i \in 0 .. n : i \in T
  <2> HIDE DEF T
  <2> QED
    BY <1>1, <1>4, <1>5, EveryTurn
<1>7. n \in 0 .. n
  BY <1>1
<1> QED
  BY <1>2, <1>3, <1>6, <1>7

(* The lines the reader keeps have every comment. *)
LEMMA ReaderKeepsComments ==
  ASSUME NEW lines \in Seq(Lines)
  PROVE  Filter(Read(lines).lines, Remarks) = Filter(lines, Remarks)
<1> DEFINE n == Len(lines)  R == Reading(lines)  front(i) == SubSeq(lines, 1, i)
           T == {i \in 0 .. n : Filter(R[i].lines, Remarks) = Filter(front(i), Remarks)}
<1>1. /\ n \in Nat /\ front(0) = <<>> /\ front(n) = lines
      /\ \A i \in 1 .. n : /\ front(i - 1) \in Seq(Lines) /\ lines[i] \in Lines
                           /\ front(i) = Append(front(i - 1), lines[i])
  OBVIOUS
<1>2. /\ R[0] = NothingRead
      /\ \A i \in 1 .. n : R[i] = ReadLine(R[i - 1], lines[i])
      /\ \A i \in 0 .. n : R[i] \in Readers
  BY ReadingTurns
<1> HIDE DEF n, R, front
<1>3. 0 \in T
  <2>1. NothingRead.lines = <<>>
    BY DEF NothingRead
  <2> QED
    BY <1>1, <1>2, <2>1
<1>4. ASSUME NEW i \in 1 .. n, i - 1 \in T
      PROVE  i \in T
  <2> DEFINE st == R[i - 1]
  <2>1. i \in 0 .. n /\ i - 1 \in 0 .. n
    BY <1>1
  <2>2. /\ st \in Readers /\ R[i] = ReadLine(st, lines[i]) /\ lines[i] \in Lines
        /\ front(i - 1) \in Seq(Lines) /\ front(i) = Append(front(i - 1), lines[i])
        /\ Filter(st.lines, Remarks) = Filter(front(i - 1), Remarks)
    BY <1>1, <1>2, <1>4, <2>1
  <2>3. st.lines \in Seq(Lines)
    BY <2>2 DEF Readers
  <2> HIDE DEF st
  <2> DEFINE More(L) == IF lines[i] \in Remarks THEN Append(Filter(L, Remarks), lines[i])
                        ELSE Filter(L, Remarks)
  <2>4. ASSUME NEW L \in Seq(Lines) PROVE Filter(Append(L, lines[i]), Remarks) = More(L)
    <3>1. PICK line \in Lines : line = lines[i]
      BY <2>2
    <3>2. Filter(Append(L, line), Remarks) =
            IF line \in Remarks THEN Append(Filter(L, Remarks), line) ELSE Filter(L, Remarks)
      BY FilterAppend
    <3> QED
      BY <3>1, <3>2
  <2>5. /\ Filter(front(i), Remarks) = More(front(i - 1))
        /\ Filter(Append(st.lines, lines[i]), Remarks) = More(st.lines)
    <3> HIDE DEF More
    <3> QED
      BY <2>2, <2>3, <2>4
  <2>6. \/ R[i].lines = Append(st.lines, lines[i])
        \/ R[i].lines = st.lines /\ lines[i] \notin Remarks
    <3>1. lines[i] \in Remarks <=> lines[i].kind = "comment"
      BY <2>2, WhichAreRemarks
    <3>2. R[i].lines = IF lines[i].kind \in {"section", "comment", "none"}
                          \/ (lines[i].kind = "keyvalue" /\ st.inSection)
                       THEN Append(st.lines, lines[i]) ELSE st.lines
      BY <2>2, KeptForWriter
    <3> QED
      BY <3>1, <3>2
  <2>7. Filter(R[i].lines, Remarks) = Filter(front(i), Remarks)
    <3>1. More(st.lines) = More(front(i - 1))
      BY <2>2
    <3>2. CASE R[i].lines = Append(st.lines, lines[i])
      <4> HIDE DEF More
      <4> QED
        BY <2>5, <3>1, <3>2
    <3>3. CASE R[i].lines = st.lines /\ lines[i] \notin Remarks
      <4>1. More(st.lines) = Filter(st.lines, Remarks)
        BY <3>3
      <4> HIDE DEF More
      <4> QED
        BY <2>5, <3>1, <3>3, <4>1
    <3> QED
      BY <2>6, <3>2, <3>3
  <2> QED
    BY <2>1, <2>7
<1>5. \A i \in 0 .. n : i \in T
  <2> HIDE DEF T
  <2> QED
    BY <1>1, <1>3, <1>4, EveryTurn
<1>6. n \in 0 .. n
  BY <1>1
<1> QED
  BY <1>1, <1>5, <1>6 DEF Read, R, n

(* And so have the lines that are written of them. *)
LEMMA WriterKeepsComments ==
  ASSUME NEW L, NEW m, NEW original, Given(L, m, original)
  PROVE  Filter(LazyOutput(L, m, original), Remarks) = Filter(L, Remarks)
<1> DEFINE n == Len(L)  W == Writing(L, m, original)  front(i) == SubSeq(L, 1, i)
           T == {i \in 0 .. n : Filter(W[i].out, Remarks) = Filter(front(i), Remarks)}
<1>1. L \in Seq(Lines) /\ Structure(m) /\ Structure(original)
  BY DEF Given, Known
<1>2. /\ n \in Nat /\ front(0) = <<>> /\ front(n) = L
      /\ \A i \in 1 .. n : /\ front(i - 1) \in Seq(Lines) /\ L[i] \in Lines
                           /\ front(i) = Append(front(i - 1), L[i])
  BY <1>1
<1>3. /\ W[0] = NothingWritten
      /\ \A i \in 1 .. n : W[i] = WriteLine(W[i - 1], L[i], m, original)
      /\ \A i \in 0 .. n : W[i] \in Writers /\ WriterInv(L, i, W[i], m, original)
  BY WritingTurns
<1>4. ASSUME NEW st \in Writers, st.lastKey <= Len(st.out)
      PROVE  /\ AddNewKeys(st, m, original) \in Writers
             /\ Filter(AddNewKeys(st, m, original).out, Remarks) = Filter(st.out, Remarks)
  <2>1. st.out \in Seq(Lines) /\ st.lastKey \in Nat
    BY DEF Writers
  <2>2. PICK out \in Seq(Lines) : out = st.out
    BY <2>1
  <2>3. PICK p \in 0 .. Len(out) : p = st.lastKey
    BY <1>4, <2>1, <2>2
  <2>4. PICK new \in Seq(Lines) : new = NewKeys(st.section, m, original)
    BY <1>1, NewKeysOf
  <2>5. Filter(new, Remarks) = <<>>
    BY <1>1, <2>4, NewKeysAreNoComments
  <2>6. Filter(Spread(out, p, new), Remarks) = Filter(out, Remarks)
    BY <2>5, SpreadKeepsComments
  <2>7. Spread(out, p, new) \in Seq(Lines)
    BY SpreadPlaces
  <2>8. AddNewKeys(st, m, original) = [st EXCEPT !.out = Spread(out, p, new)]
    BY <2>2, <2>3, <2>4 DEF AddNewKeys, Spread
  <2>9. \A o \in Seq(Lines) : [st EXCEPT !.out = o].out = o /\ [st EXCEPT !.out = o] \in Writers
    BY DEF Writers
  <2> QED
    BY <2>2, <2>6, <2>7, <2>8, <2>9
<1> HIDE DEF n, W, front
<1>5. 0 \in T
  <2>1. NothingWritten.out = <<>>
    BY DEF NothingWritten
  <2> QED
    BY <1>2, <1>3, <2>1
<1>6. ASSUME NEW i \in 1 .. n, i - 1 \in T
      PROVE  i \in T
  <2> DEFINE st == W[i - 1]  line == L[i]
  <2>1. i \in 0 .. n /\ i - 1 \in 0 .. n
    BY <1>2
  <2>2. /\ st \in Writers /\ st.lastKey <= Len(st.out)
        /\ W[i] = WriteLine(st, line, m, original) /\ line \in Lines
        /\ front(i - 1) \in Seq(Lines) /\ front(i) = Append(front(i - 1), line)
        /\ Filter(st.out, Remarks) = Filter(front(i - 1), Remarks)
    BY <1>2, <1>3, <1>6, <2>1 DEF WriterInv
  <2> HIDE DEF st, line
  <2>3. \A o \in Seq(Lines) :
          Filter(Append(o, line), Remarks) =
            IF line \in Remarks THEN Append(Filter(o, Remarks), line) ELSE Filter(o, Remarks)
    <3> TAKE o \in Seq(Lines)
    <3> QED
      BY <2>2, FilterAppend
  <2>4. Filter(front(i), Remarks) =
          IF line \in Remarks THEN Append(Filter(st.out, Remarks), line)
          ELSE Filter(st.out, Remarks)
    BY <2>2, <2>3
  <2>5. Filter(W[i].out, Remarks) = Filter(front(i), Remarks)
    <3>1. CASE line.kind = "section"
      <4> DEFINE left == IF st.parsing THEN AddNewKeys(st, m, original) ELSE st
      <4>1. left \in Writers /\ Filter(left.out, Remarks) = Filter(st.out, Remarks)
        BY <1>4, <2>2
      <4>2. W[i] = WriteHeader(left, line, m)
        BY <2>2, <3>1 DEF WriteLine
      <4> HIDE DEF left
      <4>3. left.out \in Seq(Lines)
        BY <4>1 DEF Writers
      <4>4. W[i].out = left.out \/ W[i].out = Append(left.out, line)
        BY <4>1, <4>2 DEF WriteHeader, Writers
      <4>5. line \notin Remarks
        BY <2>2, <3>1, WhichAreRemarks
      <4> QED
        BY <2>3, <2>4, <4>1, <4>3, <4>4, <4>5
    <3>2. CASE line.kind = "keyvalue"
      <4> DEFINE written == KeyLine(line.key, ValueIn(st, line.key, m))
      <4>1. W[i] = WriteKey(st, line, m)
        BY <2>2, <3>2 DEF WriteLine
      <4>2. line \notin Remarks
        BY <2>2, <3>2, WhichAreRemarks
      <4>3. CASE ~Kept(st, line, m)
        BY <2>4, <4>1, <4>2, <4>3 DEF WriteKey
      <4>4. CASE Kept(st, line, m)
        <5>1. W[i].out = Append(st.out, written)
          BY <2>2, <4>1, <4>4 DEF WriteKey, Writers
        <5>2. HasKey(m, st.section, line.key)
          BY <4>4 DEF Kept, HasKey
        <5>3. written \in Lines /\ written.kind = "keyvalue"
          BY <1>1, <5>2, ValueTyped, LineForms DEF ValueIn, ValueOf
        <5> HIDE DEF written
        <5>4. written \notin Remarks
          BY <5>3, WhichAreRemarks
        <5>5. st.out \in Seq(Lines)
          BY <2>2 DEF Writers
        <5>6. Filter(Append(st.out, written), Remarks) =
                IF written \in Remarks THEN Append(Filter(st.out, Remarks), written)
                ELSE Filter(st.out, Remarks)
          BY <5>3, <5>5, FilterAppend
        <5> QED
          BY <2>4, <4>2, <5>1, <5>4, <5>6
      <4> QED
        BY <4>3, <4>4
    <3>3. CASE line.kind \notin {"section", "keyvalue"}
      <4>1. \/ W[i].out = Append(st.out, line)
            \/ W[i].out = st.out /\ line.kind = "none"
        BY <2>2, <3>3 DEF WriteLine, Writers
      <4>2. line.kind = "none" => line \notin Remarks
        BY <2>2, WhichAreRemarks
      <4>3. st.out \in Seq(Lines)
        BY <2>2 DEF Writers
      <4> QED
        BY <2>3, <2>4, <4>1, <4>2, <4>3
    <3> QED
      BY <3>1, <3>2, <3>3
  <2> QED
    BY <2>1, <2>5
<1>7. \A i \in 0 .. n : i \in T
  <2> HIDE DEF T
  <2> QED
    BY <1>2, <1>5, <1>6, EveryTurn
<1>8. n \in 0 .. n
  BY <1>2
<1>9. /\ W[n] \in Writers /\ W[n].lastKey <= Len(W[n].out)
      /\ Filter(W[n].out, Remarks) = Filter(L, Remarks)
  BY <1>2, <1>3, <1>7, <1>8 DEF WriterInv
<1>10. PICK last \in Writers : last = AddNewKeys(W[n], m, original)
  BY <1>4, <1>9
<1>11. PICK out \in Seq(Lines) : out = last.out
  <2>1. last.out \in Seq(Lines)
    BY DEF Writers
  <2> QED
    BY <2>1
<1>12. PICK new \in Seq(Lines) : new = NewSections(m, original)
  BY <1>1, NewSectionsAreNoComments
<1>13. Filter(out \o new, Remarks) = Filter(out, Remarks) \o Filter(new, Remarks)
  BY RemarksJoined
<1>14. Filter(new, Remarks) = <<>>
  BY <1>1, <1>12, NewSectionsAreNoComments
<1>15. Filter(out, Remarks) = Filter(L, Remarks)
  BY <1>4, <1>9, <1>10, <1>11
<1>16. Filter(L, Remarks) \o <<>> = Filter(L, Remarks)
  <2>1. Filter(L, Remarks) \in Seq(Lines \cap Remarks)
    BY <1>1, Filtered
  <2> QED
    BY <2>1
<1>17. LazyOutput(L, m, original) = out \o new
  BY <1>10, <1>11, <1>12 DEF LazyOutput, W, n
<1> QED
  BY <1>13, <1>14, <1>15, <1>16, <1>17

(* Whatever is written, and whichever sections go, the file has the        *)
(* comments that it had, in their order.                                   *)
THEOREM CommentsSurvive == Spec => CommentsKept
<1>1. ASSUME NEW f \in Files, NEW m, Structure(m)
      PROVE  CommentsIn(Written(f, m)) = CommentsIn(f)
  <2> DEFINE L == Read(LinesOf(f)).lines  out == LazyOutput(L, m, Parse(f))
  <2>5. Written(f, m) \in Seq(Lines)
    <3> HIDE DEF L, out
    <3> QED
      BY <1>1, WrittenIsRead
  <2>1. Given(L, m, Parse(f))
    <3>1. LinesOf(f) \in Seq(Lines)
      BY LinesOfFile
    <3>2. Structure(Parse(f)) /\ Known(L) /\ Means(L, Parse(f))
      BY <3>1, ReadMeans DEF Parse
    <3> HIDE DEF L, out
    <3> QED
      BY <1>1, <3>2 DEF Given
  <2>2. Filter(L, Remarks) = Filter(LinesOf(f), Remarks)
    BY LinesOfFile, ReaderKeepsComments
  <2>3. Filter(out, Remarks) = Filter(L, Remarks)
    BY <2>1, WriterKeepsComments
  <2>4. Written(f, m) = Text(out)
    BY DEF Written
  <2> HIDE DEF L, out
  <2>6. Filter(Text(out), Remarks) = Filter(out, Remarks)
    <3>1. CASE out = <<Blank>>
      <4>1. Filter(<<>>, Remarks) = <<>>
        BY FilterEmpty
      <4>2. PICK one \in Seq(Lines) : one = <<Blank>>
        <5>1. <<Blank>> \in Seq(Lines)
          BY LineForms
        <5> QED
          BY <5>1
      <4>3. \A j \in 1 .. Len(one) : one[j] \in Lines /\ one[j].kind = "none"
        BY <4>2, LineForms
      <4>4. \A j \in 1 .. Len(one) : one[j] \notin Remarks
        BY <4>3, WhichAreRemarks
      <4>5. Filter(one, Remarks) = <<>>
        BY <4>4, NoneLeft
      <4> QED
        BY <3>1, <4>1, <4>2, <4>5 DEF Text
    <3>2. CASE out # <<Blank>>
      BY <3>2 DEF Text
    <3> QED
      BY <3>1, <3>2
  <2>7. LinesOf(Written(f, m)) = Written(f, m)
    BY <2>5, LinesOfFile
  <2> QED
    BY <2>2, <2>3, <2>4, <2>6, <2>7 DEF CommentsIn, Remarks
<1>2. IInv /\ [Next]_vars => [Write => CommentsIn(file') = CommentsIn(file)]_vars
  <2> SUFFICES ASSUME IInv, Write PROVE CommentsIn(file') = CommentsIn(file)
    OBVIOUS
  <2>1. file \in Files /\ Structure(ini) /\ file' = Written(file, ini)
    BY DEF IInv, Write, Becomes
  <2> QED
    BY <1>1, <2>1
<1> QED
  BY <1>2, InductiveInvariant, PTL DEF Spec, CommentsKept
=============================================================================
