---------------------------- MODULE MCConference -----------------------------
(*************************************************************************)
(* Instances of Conference for TLC.                                      *)
(*************************************************************************)
EXTENDS Conference

(* Two are merged and one of them is dropped; where REFER comes first,   *)
(* which has fewer steps that interleave, a third may be merged or added *)
(* instead.                                                              *)
TwoOrThree == [f \in Flows |-> IF f = "refer_first" THEN 3 ELSE 2]
=============================================================================
