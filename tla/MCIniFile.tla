------------------------------ MODULE MCIniFile ------------------------------
(* Two sections and two keys, so that a header, a key or a whole section   *)
(* can be given twice, be new or be missing.                               *)
EXTENDS IniFile, TLC

MCSymmetry == Permutations(Sections) \cup Permutations(Keys) \cup Permutations(Values)
=============================================================================
