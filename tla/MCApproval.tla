------------------------------ MODULE MCApproval ------------------------------
(* The permissions of the calls of an instance of Approval. *)
EXTENDS Approval

(* Two calls that need the same place, one of them an escalated one as well. *)
TwoNeeds == [c \in Calls |-> IF c = "first" THEN {"place"} ELSE {"place", "outside"}]
=============================================================================
