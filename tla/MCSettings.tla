----------------------------- MODULE MCSettings -----------------------------
(* Two of the three volumes, one of them the device's; volumes below and   *)
(* above the range, and one that is saved as an inexact percentage; the    *)
(* player may write another one, above what the setters set, next to which *)
(* there is a third.                                                       *)
EXTENDS Settings

MCVolumes == {-5, 535, 1005}
MCEditedPercents == {106}
MCInexact == {53, 59, 105, 106}
=============================================================================
