------------------------------ MODULE IniStore ------------------------------
(***************************************************************************)
(* What an INI file promises the program: a store of values under a        *)
(* section and a key, a copy of it in memory that the program changes, and *)
(* a save that makes the store what the copy is, all of it and nothing     *)
(* else.  Lines, their order and comments are the detail of IniFile, which *)
(* implements this store (IniFile!StoreImplemented).                       *)
(***************************************************************************)
CONSTANTS Sections, Keys, Values

VARIABLES
  stored,  \* what a reader of the file would get
  held,    \* the copy in memory
  open     \* the program is at work on its copy

vars == <<stored, held, open>>

Maps(D, R) == UNION {[S -> R] : S \in SUBSET D}
Stores     == Maps(Sections, Maps(Keys, Values))
Nothing    == [s \in {} |-> 0]

Init == stored = Nothing /\ held = Nothing /\ open = FALSE

(* The player has the file to himself while the program does not run. *)
Edit == ~open /\ stored' \in Stores /\ UNCHANGED <<held, open>>

(* The program begins with what is stored, or with nothing. *)
Begin == ~open /\ open' /\ held' \in {stored, Nothing} /\ UNCHANGED stored

Change(s, keys) ==
  [t \in DOMAIN held \cup {s} |-> IF t = s THEN keys ELSE held[t]]

KeysIn(s) == IF s \in DOMAIN held THEN held[s] ELSE Nothing

Set(s, k, v) ==
  /\ open
  /\ held' = Change(s, [q \in DOMAIN KeysIn(s) \cup {k} |->
                          IF q = k THEN v ELSE KeysIn(s)[q]])
  /\ UNCHANGED <<stored, open>>

RemoveKey(s, k) ==
  /\ open /\ s \in DOMAIN held
  /\ held' = Change(s, [q \in DOMAIN held[s] \ {k} |-> held[s][q]])
  /\ UNCHANGED <<stored, open>>

RemoveSection(s) ==
  /\ open
  /\ held' = [t \in DOMAIN held \ {s} |-> held[t]]
  /\ UNCHANGED <<stored, open>>

Save == open /\ ~open' /\ stored' = held /\ held' = Nothing

Next ==
  \/ Edit \/ Begin \/ Save
  \/ \E s \in Sections :
       \/ RemoveSection(s)
       \/ \E k \in Keys : RemoveKey(s, k) \/ \E v \in Values : Set(s, k, v)

Spec == Init /\ [][Next]_vars
=============================================================================
