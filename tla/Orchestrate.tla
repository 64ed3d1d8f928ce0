----------------------------- MODULE Orchestrate -----------------------------
(***************************************************************************)
(* The orchestrate loop, plan -> brainstorm -> [manage -> execute ->       *)
(* verify] x N (privibe/core/orchestrate/), over a ledger of checkpoints   *)
(* (ledger.py) from which a later call of the tool goes on                 *)
(* (tools/builtins/orchestrate.py).                                        *)
(*                                                                         *)
(* The run can be stopped (Esc, the end of the process) at every await and *)
(* between any two writes whose order can matter.                          *)
(***************************************************************************)
EXTENDS Naturals, FiniteSets

CONSTANTS
    Keys,       \* task texts, up to _task_key; numbered as the lists number them
    Trees,      \* what the listed files may be
    Fresh,      \* ... as they were when the job started
    Passing,    \* ... of which the verifier command passes
    MaxRounds   \* job.max_rounds

ASSUME OrchestrateAssumption ==
    /\ Keys \subseteq Nat /\ Keys # {} /\ IsFiniteSet(Keys)
    /\ Fresh \in Trees /\ Passing \subseteq Trees \ {Fresh}
    /\ MaxRounds \in Nat \ {0}

-----------------------------------------------------------------------------
None == 0
ASSUME NoneAssumption == None \notin Keys

Verdicts == {"none", "pass", "fail"}
Statuses == {"none", "done", "done_unverified", "rounds_exhausted", "stalled"}

(* A task list: which tasks it has, and which of them are marked done.      *)
TaskList == [has : SUBSET Keys, done : SUBSET Keys]
NoTasks == [has |-> {}, done |-> {}]

(* _Run, and what a checkpoint keeps of it. *)
RunState ==
    [rounds : 0..MaxRounds, verifier : Verdicts,
     lastKey : Keys \union {None}, doneKeys : SUBSET Keys, tasks : TaskList, at : Nat]
NewRun == [rounds |-> 0, verifier |-> "none", lastKey |-> None,
           doneKeys |-> {}, tasks |-> NoTasks, at |-> 0]

VARIABLES
    pc,        \* where the run stands; "closed": no run
    checked,   \* the job has a done_command
    run,       \* _Run
    reason,    \* the status _finalize was called with
    status,    \* how the last run ended
    tree,      \* the listed files on disk
    cps,       \* state/NNN.json
    notes,     \* notes.md: 0 none, 1 of the brainstorm, n + 1 of round n
    inflight   \* inflight.json: the round and the task, or none

vars == <<pc, checked, run, reason, status, tree, cps, notes, inflight>>
ledger == <<cps, notes, inflight>>

Idle == [round |-> 0, key |-> None]

TypeOK ==
    /\ pc \in {"closed", "plan", "save_plan", "storm", "save_storm", "manage",
               "verify_done", "execute", "verify", "clear", "save_round",
               "finalize", "verify_final", "unmark", "put_back", "drop"}
    /\ checked \in BOOLEAN
    /\ run \in RunState
    /\ reason \in Statuses /\ status \in Statuses
    /\ tree \in Trees
    /\ DOMAIN cps \subseteq 1..(MaxRounds + 2)
    /\ notes \in 0..(MaxRounds + 1)
    /\ inflight \in [round : 0..MaxRounds, key : Keys \union {None}]

Init ==
    /\ pc = "closed"
    /\ checked \in BOOLEAN
    /\ run = NewRun
    /\ reason = "none" /\ status = "none"
    /\ tree = Fresh
    /\ cps = <<>>
    /\ notes = 0 /\ inflight = Idle

-----------------------------------------------------------------------------
(* The ledger's checkpoints. *)

Highest(S) == CHOOSE n \in S : \A m \in S : m <= n
Lowest(S) == CHOOSE n \in S : \A m \in S : n <= m

(* latest_checkpoint, 0 when there is none. *)
Latest == IF DOMAIN cps = {} THEN 0 ELSE Highest(DOMAIN cps)

\* fault: checkpoints are counted, not numbered
CountOfCheckpoints == Cardinality(DOMAIN cps) + 1

(* next_checkpoint_number *)
NextNumber == Latest + 1

PhaseOf(n) == CASE n = 1 -> "planned" [] n = 2 -> "brainstormed" [] OTHER -> "round_end"

(* _Run.checkpoint *)
Save(phase) ==
    LET n == NextNumber
        cp == [phase |-> phase, rounds |-> run.rounds,  verifier |-> run.verifier, lastKey |-> run.lastKey,
               doneKeys |-> run.doneKeys, tasks |-> run.tasks,
               notes |-> notes, files |-> tree]
    IN  /\ cps' = [m \in DOMAIN cps \union {n} |-> IF m = n THEN cp ELSE cps[m]]
        /\ run' = [run EXCEPT !.at = n]

\* fault: the tasks already run are not restored
RestoredKeysLost(cp) == {}

RestoredKeys(cp) == cp.doneKeys

(* _Run.restore, in memory. *)
RestoredRun(n) ==
    LET cp == cps[n]
    IN  [rounds |-> cp.rounds, verifier |-> cp.verifier,
         lastKey |-> cp.lastKey, doneKeys |-> RestoredKeys(cp), tasks |-> cp.tasks, at |-> n]

-----------------------------------------------------------------------------
(* Role calls. A call that fails is made once more and then answers         *)
(* nothing; an answer that cannot be parsed is asked for once more and then *)
(* replaced. What is left of the retries is the answer they end with.       *)

(* Whatever tasks and marks a list may come back with; DONE may come with   *)
(* none.                                                                    *)
Lists == {tasks \in TaskList : tasks.done \subseteq tasks.has}
Open(tasks) == tasks.has \ tasks.done

(* The plan's tasks, or the whole job as one.                               *)
PlanAnswered ==
    /\ pc = "plan"
    /\ \E tasks \in Lists \ {NoTasks} : run' = [run EXCEPT !.tasks = tasks]
    /\ pc' = "save_plan"
    /\ UNCHANGED <<checked, reason, status, tree, ledger>>

SavePlan ==
    /\ pc = "save_plan"
    /\ Save("planned")
    /\ pc' = "storm"
    /\ UNCHANGED <<checked, reason, status, tree, notes, inflight>>

BrainstormAnswered ==
    /\ pc = "storm"
    /\ notes' = 1
    /\ pc' = "save_storm"
    /\ UNCHANGED <<run, checked, reason, status, tree, cps, inflight>>

SaveBrainstorm ==
    /\ pc = "save_storm"
    /\ Save("brainstormed")
    /\ pc' = "manage"
    /\ UNCHANGED <<checked, reason, status, tree, notes, inflight>>

-----------------------------------------------------------------------------
(* A round: the manager's decision.                                        *)

EndWith(outcome) ==
    /\ pc' = "closed"
    /\ status' = outcome

(* _finalize up to its worker: the verifier's last word may end the run.    *)
BeginFinalize(r, outcome) ==
    /\ run' = r
    /\ IF r.verifier = "pass"
       THEN EndWith("done") /\ UNCHANGED reason
       ELSE pc' = "finalize" /\ reason' = outcome /\ UNCHANGED status
    /\ UNCHANGED <<checked, tree, ledger>>

(* _advance: the tasks that were run count as done. *)
Advanced(r) == [r EXCEPT !.tasks.done = (@ \union r.doneKeys) \intersect r.tasks.has]

\* fault: the marks of the manager's list say what was run
RepeatsByMarks(r, key) == key \in r.tasks.done

(* The task is the one the last worker ran. *)
Repeats(r, key) == key = r.lastKey

(* _stall_reason, then the worker. *)
BeginTask(r, key) ==
    IF key = None \/ Repeats(r, key)
    THEN BeginFinalize(r, "stalled")
    ELSE /\ run' = [r EXCEPT !.lastKey = key, !.doneKeys = @ \union {key}]
         /\ inflight' = [round |-> r.rounds, key |-> key]
         /\ pc' = "execute"
         /\ UNCHANGED <<checked, reason, status, tree, cps, notes>>

FirstOpen(tasks) == IF Open(tasks) = {} THEN None ELSE Lowest(Open(tasks))

\* fault: a DONE is taken for done once the verifier has run
DoneOnceVerified(r) ==
    IF checked THEN IF r.verifier # "none" THEN "done" ELSE "none"
    ELSE IF r.lastKey = None /\ tree = Fresh THEN "none" ELSE "done_unverified"

(* _done_outcome *)
DoneOutcome(r) ==
    IF checked THEN IF r.verifier = "pass" THEN "done" ELSE "none"
    ELSE IF r.lastKey = None /\ tree = Fresh THEN "none" ELSE "done_unverified"

(* _resolve_done after its verifier: the DONE stands, or the next open task *)
(* is run instead.                                                          *)
ResolveDone(r) ==
    IF DoneOutcome(r) # "none"
    THEN /\ EndWith(DoneOutcome(r))
         /\ run' = r
         /\ UNCHANGED <<checked, reason, tree, ledger>>
    ELSE BeginTask(Advanced(r), FirstOpen(Advanced(r).tasks))

\* fault: one round too many
RoundsLeftLate == run.rounds <= MaxRounds

RoundsLeft == run.rounds < MaxRounds

(* manage(), and what the answer says: a task, DONE, or nothing parseable,  *)
(* which takes the first open task of the old list.                         *)
Manage ==
    /\ pc = "manage" /\ RoundsLeft
    /\ LET r == [run EXCEPT !.rounds = @ + 1]
       IN  \/ \E tasks \in Lists : \E key \in Open(tasks) :
                 BeginTask([r EXCEPT !.tasks = tasks], key)
           \/ \E tasks \in Lists :
                 IF checked /\ r.verifier = "none"
                 THEN /\ run' = [r EXCEPT !.tasks = tasks]
                      /\ pc' = "verify_done"
                      /\ UNCHANGED <<checked, reason, status, tree, ledger>>
                 ELSE ResolveDone([r EXCEPT !.tasks = tasks])
           \/ IF Open(Advanced(r).tasks) = {}
              THEN BeginFinalize(r, "stalled")
              ELSE BeginTask(Advanced(r), FirstOpen(Advanced(r).tasks))

RoundsSpent ==
    /\ pc = "manage" /\ ~RoundsLeft
    /\ BeginFinalize(run, "rounds_exhausted")

(* run_verifier: a timeout fails whatever the files are. *)
VerifierSays(verdict) == verdict = "fail" \/ (verdict = "pass" /\ tree \in Passing)

VerifyDone(verdict) ==
    /\ pc = "verify_done"
    /\ VerifierSays(verdict)
    /\ ResolveDone([run EXCEPT !.verifier = verdict])

-----------------------------------------------------------------------------
(* A round: the worker, the verifier, the checkpoint.                      *)

(* A worker's edits, in the files and elsewhere, also of a call that fails. *)
WorkerEdits ==
    /\ pc \in {"execute", "finalize"}
    /\ \E t \in Trees \ {tree} : tree' = t
    /\ UNCHANGED <<pc, checked, run, reason, status, ledger>>

WorkerReports(withNotes) ==
    /\ pc = "execute"
    /\ notes' = IF withNotes THEN run.rounds + 1 ELSE notes
    /\ pc' = IF checked THEN "verify" ELSE "clear"
    /\ UNCHANGED <<run, checked, reason, status, tree, cps, inflight>>

Verify(verdict) ==
    /\ pc = "verify"
    /\ VerifierSays(verdict)
    /\ run' = [run EXCEPT !.verifier = verdict]
    /\ IF verdict = "pass"
       THEN EndWith("done") /\ inflight' = Idle
       ELSE pc' = "clear" /\ UNCHANGED <<status, inflight>>
    /\ UNCHANGED <<checked, reason, tree, cps, notes>>

\* fault: the marker is left for the next round to replace
MarkerKept == inflight

(* clear_inflight *)
MarkerCleared == Idle

ClearInflight ==
    /\ pc = "clear"
    /\ inflight' = MarkerCleared
    /\ pc' = "save_round"
    /\ UNCHANGED <<checked, run, reason, status, tree, cps, notes>>

SaveRound ==
    /\ pc = "save_round"
    /\ Save("round_end")
    /\ pc' = "manage"
    /\ UNCHANGED <<checked, reason, status, tree, notes, inflight>>

FinalizerReports ==
    /\ pc = "finalize"
    /\ IF checked THEN pc' = "verify_final" /\ UNCHANGED status ELSE EndWith(reason)
    /\ UNCHANGED <<run, checked, reason, tree, ledger>>

VerifyFinal(verdict) ==
    /\ pc = "verify_final"
    /\ VerifierSays(verdict)
    /\ run' = [run EXCEPT !.verifier = verdict]
    /\ EndWith(IF verdict = "pass" THEN "done" ELSE reason)
    /\ UNCHANGED <<checked, reason, tree, ledger>>

-----------------------------------------------------------------------------
(* Runs begin, stop, and begin again.                                      *)

(* A new job; without a checkpoint a ledger cannot be resumed, so a job     *)
(* stopped before its first one starts over, in a ledger of its own.        *)
OpenFresh ==
    /\ pc = "closed" /\ DOMAIN cps = {} /\ tree = Fresh
    /\ pc' = "plan"
    /\ run' = NewRun
    /\ notes' = 0 /\ status' = "none"
    /\ UNCHANGED <<checked, reason, tree, cps, inflight>>

(* resume_ledger, with any checkpoint on disk: memory and the notes first.  *)
Resume(n) ==
    /\ pc = "closed"
    /\ n \in DOMAIN cps
    /\ run' = RestoredRun(n)
    /\ notes' = cps[n].notes
    /\ status' = "none" /\ reason' = "none"
    /\ pc' = "unmark"
    /\ UNCHANGED <<checked, tree, cps, inflight>>

(* Every phase the boundary covers is skipped. *)
PhaseAfter(n) == IF cps[n].phase = "planned" THEN "storm" ELSE "manage"

UnmarkOnResume ==
    /\ pc = "unmark"
    /\ inflight' = Idle
    /\ pc' = IF run.at = Latest THEN PhaseAfter(run.at) ELSE "put_back"
    /\ UNCHANGED <<checked, run, reason, status, tree, cps, notes>>

(* Bundle.restore *)
PutBack ==
    /\ pc = "put_back"
    /\ tree' = cps[run.at].files
    /\ pc' = "drop"
    /\ UNCHANGED <<checked, run, reason, status, ledger>>

(* drop_checkpoints_after, one unlink at a time, lowest first. *)
Drop ==
    /\ pc = "drop"
    /\ LET later == {n \in DOMAIN cps : n > run.at}
       IN  /\ cps' = [n \in DOMAIN cps \ {Lowest(later)} |-> cps[n]]
           /\ pc' = IF Cardinality(later) = 1 THEN PhaseAfter(run.at) ELSE "drop"
    /\ UNCHANGED <<checked, run, reason, status, tree, notes, inflight>>

(* Esc, an error out of the ledger's files, or the end of the process.      *)
Stop ==
    /\ pc # "closed"
    /\ pc' = "closed"
    /\ run' = NewRun
    /\ UNCHANGED <<checked, reason, status, tree, ledger>>

-----------------------------------------------------------------------------
LoopStep ==
    \/ PlanAnswered \/ SavePlan \/ BrainstormAnswered \/ SaveBrainstorm
    \/ Manage \/ RoundsSpent
    \/ \E withNotes \in BOOLEAN : WorkerReports(withNotes)
    \/ \E verdict \in Verdicts : VerifyDone(verdict) \/ Verify(verdict) \/ VerifyFinal(verdict)
    \/ ClearInflight \/ SaveRound \/ FinalizerReports
    \/ UnmarkOnResume \/ PutBack \/ Drop

Next ==
    \/ LoopStep \/ WorkerEdits
    \/ OpenFresh \/ \E n \in 1..(MaxRounds + 2) : Resume(n)
    \/ Stop

(* The harness goes on; role calls and the verifier end (each has a         *)
(* timeout), stopped or not.                                                *)
Spec == Init /\ [][Next]_vars /\ WF_vars(LoopStep)

-----------------------------------------------------------------------------
(* Safety and liveness.                                                    *)

(* A checkpoint's number tells the phase and the rounds it covers, also     *)
(* after a run was stopped while it was going back and left a gap: the      *)
(* budget of rounds is the job's, however often it is resumed.              *)
CheckpointsNumberRounds ==
    \A n \in DOMAIN cps : cps[n].phase = PhaseOf(n) /\ n = cps[n].rounds + IF n = 1 THEN 1 ELSE 2

(* "complete enough to continue from": a round begins with the run exactly  *)
(* as the last boundary on disk has it, in memory and in notes.md, whether  *)
(* it was just reached, resumed, or gone back to.                           *)
BeginsAtBoundary ==
    pc = "manage" =>
       /\ run.at = Latest
       /\ run = RestoredRun(Latest)
       /\ notes = cps[Latest].notes

(* "a file left behind means the run stopped mid-worker": the marker names  *)
(* the round after the last boundary, never one that has its checkpoint.    *)
MarkerIsOfOpenRound == inflight # Idle => inflight.round + 2 = Latest + 1

(* No task is handed out twice in a row: not by a manager that repeats      *)
(* itself, not by the list when a DONE is overruled or an answer is         *)
(* unreadable, and not by a resume once the round has its checkpoint.       *)
NeverTwiceInARow ==
    [][(pc # "execute" /\ pc' = "execute") => run'.lastKey # cps[Latest].lastKey]_vars

(* The loop does what orchestrate promises: see Job. *)
J == INSTANCE Job WITH
        boundary <- Latest, running <- (pc # "closed"), good <- (tree \in Passing)
JobSpec == J!JobSpec
=============================================================================
