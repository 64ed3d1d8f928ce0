--------------------------------- MODULE Job ---------------------------------
(***************************************************************************)
(* What orchestrate promises its caller: a job advances through numbered   *)
(* boundaries, one at a time and each durable; a run of it may stop        *)
(* anywhere, a later run goes on from the last boundary or returns to an   *)
(* earlier one; a run that nobody stops ends, and how it says it ended is  *)
(* what happened.                                                          *)
(***************************************************************************)
EXTENDS Naturals

CONSTANTS
    MaxRounds   \* rounds of a job

VARIABLES
    boundary,   \* the last boundary reached: 1 planned, 2 brainstormed, then rounds
    running,    \* a run of the job is under way
    status,     \* how the last run ended, "none" when it was stopped
    checked,    \* the job has a verifier command
    good        \* ... which the files, as they are, pass

jobVars == <<boundary, running, status, checked, good>>

Planned == 1
Brainstormed == 2
LastBoundary == Brainstormed + MaxRounds

JobInit ==
    /\ boundary = 0 /\ ~running
    /\ status = "none"
    /\ checked \in BOOLEAN /\ good \in BOOLEAN

Run ==
    /\ ~running
    /\ running' /\ status' = "none"
    /\ UNCHANGED <<boundary, checked, good>>

Reach ==
    /\ running /\ boundary < LastBoundary
    /\ boundary' = boundary + 1
    /\ UNCHANGED <<running, status, checked, good>>

Return ==
    /\ running
    /\ boundary' \in 1..(boundary - 1)
    /\ UNCHANGED <<running, status, checked, good>>

(* Workers, and what a return puts back, decide what the files are. *)
Work ==
    /\ running
    /\ good' \in BOOLEAN
    /\ UNCHANGED <<boundary, running, status, checked>>

Stop ==
    /\ running /\ ~running'
    /\ UNCHANGED <<boundary, status, checked, good>>

End ==
    /\ running /\ ~running'
    /\ boundary >= Brainstormed
    /\ \/ status' = "done" /\ checked /\ good
       \/ status' = "done_unverified" /\ ~checked
       \/ status' = "stalled"
       \/ status' = "rounds_exhausted" /\ boundary = LastBoundary
    /\ UNCHANGED <<boundary, checked, good>>

JobNext == Run \/ Reach \/ Return \/ Work \/ Stop \/ End

JobSpec ==
    /\ JobInit /\ [][JobNext]_jobVars
    /\ []<>~running
=============================================================================
