------------------------------- MODULE IniMap -------------------------------
(***************************************************************************)
(* mINI::INIMap: the entries in the order in which their keys were first   *)
(* inserted, and an index from each key to the position of its entry.  An  *)
(* INIStructure is such a map from sections to maps from keys to values.   *)
(* Keys are compared trimmed and in lower case: a name here stands for all *)
(* its spellings.                                                          *)
(***************************************************************************)
EXTENDS Integers, Sequences

Seqs == INSTANCE SequencesExt

EmptyMap == [index |-> [k \in {} |-> 0], data |-> <<>>]

Has(m, key) == key \in DOMAIN m.index

(* INIMap::get, of a key the map has. *)
Get(m, key) == m.data[m.index[key]].value

(* INIMap::set, and assignment through operator[]: the value of a key that *)
(* is there is replaced, a new key goes to the end.                        *)
Insert(m, key, v) ==
  [index |-> [k \in DOMAIN m.index \cup {key} |->
                IF k = key THEN Len(m.data) + 1 ELSE m.index[k]],
   data  |-> Append(m.data, [key |-> key, value |-> v])]

Replace(m, key, v) ==
  [m EXCEPT !.data = [@ EXCEPT ![m.index[key]] = [key |-> key, value |-> v]]]

Put(m, key, v) == IF Has(m, key) THEN Replace(m, key, v) ELSE Insert(m, key, v)

(* INIMap::remove: the entries behind the one that is erased move up, and  *)
(* the index follows.                                                      *)
MutantShiftedFrom(j, i) == IF j > i + 1 THEN j - 1 ELSE j
Shifted(j, i) == IF j > i THEN j - 1 ELSE j

Remove(m, key) ==
  IF ~Has(m, key) THEN m
  ELSE [index |-> [k \in DOMAIN m.index \ {key} |-> Shifted(m.index[k], m.index[key])],
        data  |-> Seqs!RemoveAt(m.data, m.index[key])]

KeysOf(m) == [i \in DOMAIN m.data |-> m.data[i].key]

(* The map as what it stands for, a function from its keys. *)
AsFunction(m) == [k \in DOMAIN m.index |-> Get(m, k)]

(* Every key has one entry, and the index leads to it. *)
Sound(m) ==
  /\ \A k \in DOMAIN m.index :
       m.index[k] \in DOMAIN m.data /\ m.data[m.index[k]].key = k
  /\ \A i \in DOMAIN m.data :
       m.data[i].key \in DOMAIN m.index /\ m.index[m.data[i].key] = i
=============================================================================
