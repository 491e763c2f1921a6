---------------------------- MODULE JumpContract ----------------------------
(***************************************************************************)
(* What the game promises about one player's jump, without frames, keys,   *)
(* physics steps or memory.  Game implements it (Game!JumpRefinement).     *)
(*                                                                         *)
(*   ready    no jump is under way: the next request will be accepted      *)
(*   asked    a request was accepted, its force is not applied yet         *)
(*   pushed   the force sits on the body and waits for a physics step      *)
(*   released a landing was reported while the force was still waiting     *)
(*   flying   the force acted, no landing has been reported since          *)
(*   over     the program has stopped                                      *)
(*                                                                         *)
(* "released" is the uncomfortable part of the promise.  The collision     *)
(* pass of a physics step comes before the pass that integrates forces, so *)
(* a player who runs onto the next floor tile in the very step that starts *)
(* the jump is declared landed before taking off, and may jump again in    *)
(* mid-air.  What counts as a landing is not the contract's: any contact   *)
(* that passes the callback's height test is one, in the air as well.      *)
(* Without a landing there is no second jump.                              *)
(***************************************************************************)
EXTENDS Naturals

VARIABLES
  phase,  \* of the current player's jump
  life    \* how many players have been created so far

vars == <<phase, life>>

Phases == {"ready", "asked", "pushed", "released", "flying", "over"}

TypeOK == phase \in Phases /\ life \in Nat

Init == phase = "ready" /\ life = 0

(* A change of phase in the life of one player. *)
Becomes(from, to) == phase \in from /\ phase' = to /\ UNCHANGED life

Request == Becomes({"ready"}, "asked")
Push    == Becomes({"ready", "asked"}, "pushed")
Release == Becomes({"pushed"}, "released")
TakeOff == Becomes({"pushed"}, "flying") \/ Becomes({"released"}, "ready")
Land    == Becomes({"flying"}, "ready")
Stop    == Becomes(Phases \ {"over"}, "over")

(* A new player replaces the old one; an unfinished jump is forgotten. *)
Respawn == phase # "over" /\ phase' = "ready" /\ life' = life + 1

Next ==
  \/ Request \/ Push \/ Release \/ TakeOff \/ Land \/ Respawn \/ Stop

SafeSpec == Init /\ [][Next]_vars

(* An accepted request is carried out, and a force that was applied acts,  *)
(* unless the player is replaced or the program stops first.               *)
Fairness ==
  /\ WF_vars(phase = "asked" /\ Push)
  /\ WF_vars(TakeOff)

Spec == SafeSpec /\ Fairness
=============================================================================
