---------------------------- MODULE IniMapProofs ----------------------------
(***************************************************************************)
(* The operations of IniMap keep a map sound, for every set of keys and    *)
(* every set of values.  An INIStructure is such a map whose values are    *)
(* such maps: the theorems hold of both levels.                            *)
(***************************************************************************)
EXTENDS IniMap, TLAPS

Entries(K, V) == [key : K, value : V]

IsMap(m, K, V) ==
  /\ m = [index |-> m.index, data |-> m.data]
  /\ m.index = [k \in DOMAIN m.index |-> m.index[k]]
  /\ DOMAIN m.index \subseteq K
  /\ m.data \in Seq(Entries(K, V))

SoundMap(m, K, V) == IsMap(m, K, V) /\ Sound(m)

(* The same as a set, for maps whose values are maps. *)
SoundMaps(K, V) ==
  {m \in [index : UNION {[S -> Nat] : S \in SUBSET K}, data : Seq(Entries(K, V))] :
     Sound(m)}

-----------------------------------------------------------------------------
(* The map that has nothing is sound. *)
THEOREM EmptyMapSound ==
  ASSUME NEW K, NEW V
  PROVE  SoundMap(EmptyMap, K, V)
BY DEF SoundMap, IsMap, Sound, EmptyMap

LEMMA SoundMapsMembers ==
  ASSUME NEW K, NEW V, NEW m
  PROVE  m \in SoundMaps(K, V) <=> SoundMap(m, K, V)
<1>1. ASSUME m \in SoundMaps(K, V) PROVE SoundMap(m, K, V)
  <2>1. PICK S \in SUBSET K : m.index \in [S -> Nat]
    BY <1>1 DEF SoundMaps
  <2> QED
    BY <1>1, <2>1 DEF SoundMaps, SoundMap, IsMap
<1>2. ASSUME SoundMap(m, K, V) PROVE m \in SoundMaps(K, V)
  <2>1. DOMAIN m.index \in SUBSET K /\ DOMAIN m.data = 1 .. Len(m.data)
    BY <1>2 DEF SoundMap, IsMap
  <2>2. m.index \in [DOMAIN m.index -> Nat]
    BY <1>2, <2>1 DEF SoundMap, IsMap, Sound
  <2>3. m.index \in UNION {[S -> Nat] : S \in SUBSET K}
    BY <2>1, <2>2
  <2> QED
    BY <1>2, <2>3 DEF SoundMaps, SoundMap, IsMap
<1> QED
  BY <1>1, <1>2

(* get of a key that is there. *)
LEMMA GetTyped ==
  ASSUME NEW K, NEW V, NEW m, SoundMap(m, K, V), NEW key \in DOMAIN m.index
  PROVE  Get(m, key) \in V /\ key \in K
<1>1. m.index[key] \in DOMAIN m.data /\ m.data \in Seq(Entries(K, V))
  BY DEF SoundMap, IsMap, Sound
<1>2. m.data[m.index[key]] \in Entries(K, V)
  BY <1>1
<1> QED
  BY <1>2 DEF Get, Entries, SoundMap, IsMap

(* Two sequences, one after the other. *)
LEMMA Concatenated ==
  ASSUME NEW E, NEW a \in Seq(E), NEW b \in Seq(E)
  PROVE  /\ a \o b \in Seq(E) /\ Len(a \o b) = Len(a) + Len(b)
         /\ \A j \in 1 .. Len(a) + Len(b) :
              (a \o b)[j] = IF j <= Len(a) THEN a[j] ELSE b[j - Len(a)]
OBVIOUS

(* What RemoveAt leaves. *)
LEMMA RemoveAtEntries ==
  ASSUME NEW E, NEW s \in Seq(E), NEW i \in 1 .. Len(s)
  PROVE  /\ Seqs!RemoveAt(s, i) \in Seq(E)
         /\ Len(Seqs!RemoveAt(s, i)) = Len(s) - 1
         /\ \A j \in 1 .. Len(s) - 1 :
              Seqs!RemoveAt(s, i)[j] = IF j < i THEN s[j] ELSE s[j + 1]
<1> DEFINE front == SubSeq(s, 1, i - 1)
           back  == SubSeq(s, i + 1, Len(s))
<1>1. /\ front \in Seq(E) /\ Len(front) = i - 1
      /\ \A j \in 1 .. i - 1 : front[j] = s[j]
  OBVIOUS
<1>2. /\ back \in Seq(E) /\ Len(back) = Len(s) - i
      /\ \A j \in 1 .. Len(s) - i : back[j] = s[j + i]
  OBVIOUS
<1>3. Seqs!RemoveAt(s, i) = front \o back
  BY DEF Seqs!RemoveAt
<1> HIDE DEF front, back
<1>4. Len(s) \in Nat /\ i \in Nat /\ 1 <= i /\ i <= Len(s)
  OBVIOUS
<1>5. /\ front \o back \in Seq(E)
      /\ Len(front \o back) = Len(s) - 1
      /\ \A j \in 1 .. Len(s) - 1 :
           (front \o back)[j] = IF j <= i - 1 THEN front[j] ELSE back[j - (i - 1)]
  <2>1. Len(front) + Len(back) = Len(s) - 1
    BY <1>1, <1>2, <1>4
  <2>0. front \in Seq(E) /\ back \in Seq(E)
    BY <1>1, <1>2
  <2>2. front \o back \in Seq(E) /\ Len(front \o back) = Len(front) + Len(back)
    BY <2>0, Concatenated
  <2>3. \A j \in 1 .. Len(front) + Len(back) :
          (front \o back)[j] = IF j <= Len(front) THEN front[j]
                                ELSE back[j - Len(front)]
    BY <2>0, Concatenated
  <2> QED
    BY <1>1, <2>1, <2>2, <2>3
<1>6. ASSUME NEW j \in 1 .. Len(s) - 1
      PROVE  (front \o back)[j] = IF j < i THEN s[j] ELSE s[j + 1]
  <2>1. CASE j < i
    BY <1>1, <1>4, <1>5, <2>1
  <2>2. CASE ~(j < i)
    <3>1. j - (i - 1) \in 1 .. Len(s) - i /\ j - (i - 1) + i = j + 1
      BY <1>4, <2>2
    <3> QED
      BY <1>2, <1>4, <1>5, <2>2, <3>1
  <2> QED
    BY <2>1, <2>2
<1> QED
  BY <1>3, <1>5, <1>6

-----------------------------------------------------------------------------
(* set and operator[] of a new key. *)
LEMMA InsertSound ==
  ASSUME NEW K, NEW V, NEW m, SoundMap(m, K, V),
         NEW key \in K, NEW v \in V, ~Has(m, key)
  PROVE  /\ SoundMap(Insert(m, key, v), K, V)
         /\ DOMAIN Insert(m, key, v).index = DOMAIN m.index \cup {key}
         /\ Get(Insert(m, key, v), key) = v
         /\ \A k \in DOMAIN m.index : Get(Insert(m, key, v), k) = Get(m, k)
         /\ KeysOf(Insert(m, key, v)) = Append(KeysOf(m), key)
<1> DEFINE n == Insert(m, key, v)
           e == [key |-> key, value |-> v]
<1>1. /\ m.data \in Seq(Entries(K, V)) /\ DOMAIN m.index \subseteq K
      /\ e \in Entries(K, V) /\ key \notin DOMAIN m.index
      /\ Len(m.data) \in Nat /\ DOMAIN m.data = 1 .. Len(m.data)
  BY DEF SoundMap, IsMap, Has, Entries
<1>2. /\ n.data = Append(m.data, e)
      /\ DOMAIN n.index = DOMAIN m.index \cup {key}
      /\ \A k \in DOMAIN m.index \cup {key} :
           n.index[k] = IF k = key THEN Len(m.data) + 1 ELSE m.index[k]
      /\ n = [index |-> n.index, data |-> n.data]
      /\ n.index = [k \in DOMAIN n.index |-> n.index[k]]
  BY DEF Insert
<1>3. /\ n.data \in Seq(Entries(K, V)) /\ Len(n.data) = Len(m.data) + 1
      /\ DOMAIN n.data = 1 .. Len(m.data) + 1
      /\ n.data[Len(m.data) + 1] = e
      /\ \A i \in 1 .. Len(m.data) : n.data[i] = m.data[i]
  BY <1>1, <1>2
<1>4. /\ \A k \in DOMAIN m.index :
           m.index[k] \in 1 .. Len(m.data) /\ m.data[m.index[k]].key = k
      /\ \A i \in 1 .. Len(m.data) :
           m.data[i].key \in DOMAIN m.index /\ m.index[m.data[i].key] = i
  BY <1>1 DEF SoundMap, Sound
<1> HIDE DEF n
<1>5. IsMap(n, K, V)
  BY <1>1, <1>2, <1>3 DEF IsMap
<1>6. \A k \in DOMAIN n.index :
        n.index[k] \in DOMAIN n.data /\ n.data[n.index[k]].key = k
  BY <1>1, <1>2, <1>3, <1>4, SMTT(15)
<1>7. \A i \in DOMAIN n.data :
        n.data[i].key \in DOMAIN n.index /\ n.index[n.data[i].key] = i
  BY <1>1, <1>2, <1>3, <1>4
<1>8. Get(n, key) = v /\ \A k \in DOMAIN m.index : Get(n, k) = Get(m, k)
  BY <1>1, <1>2, <1>3, <1>4 DEF Get
<1>9. KeysOf(n) = Append(KeysOf(m), key)
  BY <1>1, <1>3 DEF KeysOf
<1> QED
  BY <1>2, <1>5, <1>6, <1>7, <1>8, <1>9 DEF SoundMap, Sound, n

LEMMA WithData ==
  ASSUME NEW m, m = [index |-> m.index, data |-> m.data], NEW d
  PROVE  [m EXCEPT !.data = d] = [index |-> m.index, data |-> d]
<1>1. [[index |-> m.index, data |-> m.data] EXCEPT !.data = d]
        = [index |-> m.index, data |-> d]
  OBVIOUS
<1> QED
  BY <1>1

(* set and operator[] of a key that is there. *)
LEMMA ReplaceSound ==
  ASSUME NEW K, NEW V, NEW m, SoundMap(m, K, V),
         NEW key \in K, NEW v \in V, Has(m, key)
  PROVE  /\ SoundMap(Replace(m, key, v), K, V)
         /\ DOMAIN Replace(m, key, v).index = DOMAIN m.index
         /\ Get(Replace(m, key, v), key) = v
         /\ \A k \in DOMAIN m.index \ {key} : Get(Replace(m, key, v), k) = Get(m, k)
         /\ KeysOf(Replace(m, key, v)) = KeysOf(m)
<1> DEFINE n == Replace(m, key, v)
           e == [key |-> key, value |-> v]
           at == m.index[key]
<1>1. /\ m.data \in Seq(Entries(K, V)) /\ DOMAIN m.index \subseteq K
      /\ e \in Entries(K, V) /\ key \in DOMAIN m.index
      /\ Len(m.data) \in Nat /\ DOMAIN m.data = 1 .. Len(m.data)
      /\ m = [index |-> m.index, data |-> m.data]
      /\ m.index = [k \in DOMAIN m.index |-> m.index[k]]
  BY DEF SoundMap, IsMap, Has, Entries
<1>2. /\ \A k \in DOMAIN m.index :
           m.index[k] \in 1 .. Len(m.data) /\ m.data[m.index[k]].key = k
      /\ \A i \in 1 .. Len(m.data) :
           m.data[i].key \in DOMAIN m.index /\ m.index[m.data[i].key] = i
  BY <1>1 DEF SoundMap, Sound
<1>3. /\ n.data = [m.data EXCEPT ![at] = e] /\ n.index = m.index
      /\ n = [index |-> n.index, data |-> n.data]
  <2> DEFINE d == [m.data EXCEPT ![at] = e]
  <2>1. n = [m EXCEPT !.data = d]
    BY DEF Replace
  <2> HIDE DEF d, n
  <2>2. n = [index |-> m.index, data |-> d]
    BY <1>1, <2>1, WithData
  <2> QED
    BY <2>2 DEF d
<1>4. /\ n.data \in Seq(Entries(K, V)) /\ Len(n.data) = Len(m.data)
      /\ DOMAIN n.data = 1 .. Len(m.data)
      /\ n.data[at] = e
      /\ \A i \in 1 .. Len(m.data) : i # at => n.data[i] = m.data[i]
  BY <1>1, <1>2, <1>3
<1>5. \A i \in 1 .. Len(m.data) : n.data[i].key = m.data[i].key
  BY <1>1, <1>2, <1>4, SMTT(15)
<1> HIDE DEF n
<1>6. IsMap(n, K, V)
  BY <1>1, <1>3, <1>4 DEF IsMap
<1>7. Sound(n)
  BY <1>1, <1>2, <1>3, <1>4, <1>5 DEF Sound
<1>8. Get(n, key) = v /\ \A k \in DOMAIN m.index \ {key} : Get(n, k) = Get(m, k)
  BY <1>1, <1>2, <1>3, <1>4, SMTT(15) DEF Get
<1>9. KeysOf(n) = KeysOf(m)
  BY <1>1, <1>4, <1>5 DEF KeysOf
<1> QED
  BY <1>3, <1>6, <1>7, <1>8, <1>9 DEF SoundMap, n

(* INIMap::set: the map stays sound; the key has the value; every other    *)
(* key has the one it had; and the keys stay in order, a new one last.     *)
THEOREM PutKeepsSound ==
  ASSUME NEW K, NEW V, NEW m, SoundMap(m, K, V), NEW key \in K, NEW v \in V
  PROVE  /\ SoundMap(Put(m, key, v), K, V)
         /\ DOMAIN Put(m, key, v).index = DOMAIN m.index \cup {key}
         /\ Get(Put(m, key, v), key) = v
         /\ \A k \in DOMAIN m.index \ {key} : Get(Put(m, key, v), k) = Get(m, k)
         /\ KeysOf(Put(m, key, v)) =
              IF Has(m, key) THEN KeysOf(m) ELSE Append(KeysOf(m), key)
<1>1. CASE Has(m, key)
  <2>1. Put(m, key, v) = Replace(m, key, v) /\ key \in DOMAIN m.index
    BY <1>1 DEF Put, Has
  <2> QED
    BY <1>1, <2>1, ReplaceSound
<1>2. CASE ~Has(m, key)
  <2>1. Put(m, key, v) = Insert(m, key, v)
    BY <1>2 DEF Put
  <2> QED
    BY <1>2, <2>1, InsertSound
<1> QED
  BY <1>1, <1>2

(* INIMap::remove: the map stays sound, though the entries behind the one  *)
(* that goes move up; the key is gone, and every other has its value.      *)
THEOREM RemoveKeepsSound ==
  ASSUME NEW K, NEW V, NEW m, SoundMap(m, K, V), NEW key \in K
  PROVE  /\ SoundMap(Remove(m, key), K, V)
         /\ DOMAIN Remove(m, key).index = DOMAIN m.index \ {key}
         /\ \A k \in DOMAIN m.index \ {key} : Get(Remove(m, key), k) = Get(m, k)
<1>1. CASE ~Has(m, key)
  BY <1>1 DEF Remove, Has
<1>2. CASE Has(m, key)
  <2> DEFINE n == Remove(m, key)
             at == m.index[key]
  <2>1. /\ m.data \in Seq(Entries(K, V)) /\ DOMAIN m.index \subseteq K
        /\ key \in DOMAIN m.index
        /\ Len(m.data) \in Nat /\ DOMAIN m.data = 1 .. Len(m.data)
    BY <1>2 DEF SoundMap, IsMap, Has
  <2>2. /\ \A k \in DOMAIN m.index :
             m.index[k] \in 1 .. Len(m.data) /\ m.data[m.index[k]].key = k
        /\ \A i \in 1 .. Len(m.data) :
             m.data[i].key \in DOMAIN m.index /\ m.index[m.data[i].key] = i
    BY <2>1 DEF SoundMap, Sound
  <2>3. /\ n.data = Seqs!RemoveAt(m.data, at)
        /\ DOMAIN n.index = DOMAIN m.index \ {key}
        /\ \A k \in DOMAIN m.index \ {key} : n.index[k] = Shifted(m.index[k], at)
        /\ n = [index |-> n.index, data |-> n.data]
        /\ n.index = [k \in DOMAIN n.index |-> n.index[k]]
    BY <1>2 DEF Remove
  <2>4. at \in 1 .. Len(m.data) /\ at \in Nat
    BY <2>1, <2>2
  <2>5. /\ n.data \in Seq(Entries(K, V)) /\ Len(n.data) = Len(m.data) - 1
        /\ DOMAIN n.data = 1 .. Len(m.data) - 1
        /\ \A j \in 1 .. Len(m.data) - 1 :
             n.data[j] = IF j < at THEN m.data[j] ELSE m.data[j + 1]
    BY <2>1, <2>3, <2>4, RemoveAtEntries, SMTT(15)
  <2> HIDE DEF n
  <2>6. IsMap(n, K, V)
    BY <2>1, <2>3, <2>5 DEF IsMap
  <2>7. ASSUME NEW k \in DOMAIN m.index \ {key}
        PROVE  /\ n.index[k] \in 1 .. Len(m.data) - 1
               /\ n.data[n.index[k]] = m.data[m.index[k]]
    <3>1. m.index[k] \in 1 .. Len(m.data) /\ m.index[k] # at
      BY <2>1, <2>2
    <3>2. CASE m.index[k] > at
      <4>1. n.index[k] = m.index[k] - 1
        BY <2>3, <3>2 DEF Shifted
      <4>2. /\ m.index[k] - 1 \in 1 .. Len(m.data) - 1
            /\ ~(m.index[k] - 1 < at) /\ m.index[k] - 1 + 1 = m.index[k]
        BY <2>1, <2>4, <3>1, <3>2
      <4> QED
        BY <2>5, <4>1, <4>2
    <3>3. CASE ~(m.index[k] > at)
      BY <2>1, <2>3, <2>4, <2>5, <3>1, <3>3 DEF Shifted
    <3> QED
      BY <3>2, <3>3
  <2>8. ASSUME NEW j \in 1 .. Len(m.data) - 1
        PROVE  n.data[j].key \in DOMAIN n.index /\ n.index[n.data[j].key] = j
    <3>1. CASE j < at
      <4>0. n.data[j] = m.data[j] /\ j \in 1 .. Len(m.data) /\ j # at
        BY <2>1, <2>4, <2>5, <3>1
      <4>1. n.data[j].key \in DOMAIN m.index \ {key} /\ m.index[n.data[j].key] = j
        BY <2>2, <4>0
      <4> QED
        BY <2>3, <2>4, <3>1, <4>1 DEF Shifted
    <3>2. CASE ~(j < at)
      <4>1. j + 1 \in 1 .. Len(m.data) /\ j + 1 > at /\ j + 1 - 1 = j
        BY <2>1, <2>4, <3>2
      <4>2. n.data[j].key \in DOMAIN m.index \ {key} /\ m.index[n.data[j].key] = j + 1
        <5>1. n.data[j] = m.data[j + 1] /\ j + 1 # at
          BY <2>4, <2>5, <3>2, <4>1
        <5> QED
          BY <2>2, <4>1, <5>1
      <4> QED
        BY <2>3, <2>4, <4>1, <4>2 DEF Shifted
    <3> QED
      BY <3>1, <3>2
  <2>9. Sound(n)
    BY <2>1, <2>2, <2>3, <2>5, <2>7, <2>8 DEF Sound
  <2> QED
    BY <2>3, <2>6, <2>7, <2>9 DEF SoundMap, Get, n
<1> QED
  BY <1>1, <1>2
=============================================================================
