----------------------------- MODULE MCTurnLoop -----------------------------
(* The agent loop on small instances, for TLC.                             *)
EXTENDS TurnLoop

CONSTANTS read, edit          \* a read-only call and a file-mutating one

MCKeys == {read, edit}
MCMutators == {edit}

(* One call that is issued over and over. *)
OneKey == {read}
NoKeys == {}
=============================================================================
