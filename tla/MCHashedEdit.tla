---- MODULE MCHashedEdit ----
(* The instance of HashedEdit that TLC checks: texts are interchangeable. *)
EXTENDS HashedEdit, TLC
TextSymmetry == Permutations(Texts)
====
