-------------------------- MODULE OrchestrateProofs --------------------------
(* Theorems about the orchestrate loop, for every set of tasks, every set  *)
(* of file states and every number of rounds.                              *)
EXTENDS Orchestrate, FiniteSetTheorems, WellFoundedInduction, TLAPS

-----------------------------------------------------------------------------
(* Least and greatest numbers of a set of checkpoint numbers.              *)

LEMMA LowestIs ==
    ASSUME NEW S \in SUBSET Nat, S # {}
    PROVE  Lowest(S) \in S /\ \A m \in S : Lowest(S) <= m
<1> DEFINE F == {0..m : m \in S}
<1>1. F \subseteq FiniteSubsetsOf(Nat) /\ F # {}
  <2>1. \A m \in S : IsFiniteSet(0..m) /\ 0..m \subseteq Nat
    BY FS_Interval
  <2>. QED  BY <2>1 DEF FiniteSubsetsOf
<1>2. PICK i \in F : \A j \in F : <<j, i>> \notin StrictSubsetOrdering(Nat)
  <2>. HIDE DEF F
  <2>. QED  BY <1>1, WFMin, FS_StrictSubsetOrderingWellFounded
<1>3. PICK n \in S : i = 0..n
  OBVIOUS
<1>4. ASSUME NEW m \in S PROVE n <= m
  <2>1. SUFFICES ASSUME m < n PROVE FALSE
    OBVIOUS
  <2>2. 0..m \subseteq 0..n /\ n \in 0..n /\ n \notin 0..m
    BY <2>1
  <2>3. <<0..m, 0..n>> \in StrictSubsetOrdering(Nat)
    BY <2>2 DEF StrictSubsetOrdering
  <2>. QED  BY <1>2, <1>3, <2>3
<1>. QED  BY <1>4 DEF Lowest

LEMMA HighestIs ==
    ASSUME NEW k \in Nat, NEW S \in SUBSET (0..k), S # {}
    PROVE  Highest(S) \in S /\ \A m \in S : m <= Highest(S)
<1> DEFINE T == {k - s : s \in S}
<1>1. T \in SUBSET Nat /\ T # {}
  <2>1. \A s \in S : k - s \in Nat
    OBVIOUS
  <2>. QED  BY <2>1
<1>2. PICK t \in T : \A u \in T : t <= u
  <2>. HIDE DEF T
  <2>. QED  BY <1>1, LowestIs
<1>3. PICK n \in S : t = k - n
  OBVIOUS
<1>4. \A m \in S : m <= n
  <2>1. ASSUME NEW m \in S PROVE m <= n
    <3>1. k - m \in T
      OBVIOUS
    <3>2. k - n <= k - m
      BY <1>2, <1>3, <3>1
    <3>. QED  BY <3>2
  <2>. QED  BY <2>1
<1>. QED  BY <1>4 DEF Highest

(* Latest, of the numbers on disk. *)
Top(D) == IF D = {} THEN 0 ELSE Highest(D)

LEMMA TopIs ==
    ASSUME NEW k \in Nat, NEW D \in SUBSET (1..k)
    PROVE  /\ Top(D) \in 0..k
           /\ D = {} <=> Top(D) = 0
           /\ \A m \in D : m <= Top(D)
           /\ D # {} => Top(D) \in D
<1>1. CASE D = {}
  BY <1>1 DEF Top
<1>2. CASE D # {}
  <2>1. Highest(D) \in D /\ \A m \in D : m <= Highest(D)
    BY <1>2, HighestIs
  <2>2. Highest(D) \in 1..k
    BY <2>1
  <2>3. Top(D) = Highest(D)
    BY <1>2 DEF Top
  <2>. QED  BY <1>2, <2>1, <2>2, <2>3
<1>. QED  BY <1>1, <1>2

LEMMA TopUnique ==
    ASSUME NEW k \in Nat, NEW D \in SUBSET (1..k), NEW n \in D, \A m \in D : m <= n
    PROVE  Top(D) = n
<1>1. Top(D) \in D /\ n <= Top(D)
  BY TopIs
<1>2. \A m \in D : m \in Nat
  OBVIOUS
<1>3. \A m \in D : m <= n
  OBVIOUS
<1>4. Top(D) <= n
  BY <1>1, <1>3
<1>5. Top(D) \in Nat /\ n \in Nat
  BY <1>1, <1>2
<1>. QED  BY <1>1, <1>4, <1>5

(* A new checkpoint is the latest. *)
LEMMA TopOfMore ==
    ASSUME NEW k \in Nat, NEW D \in SUBSET (1..k)
    PROVE  Top(D \union {Top(D) + 1}) = Top(D) + 1
<1> DEFINE n == Top(D) + 1
<1>1. n \in Nat /\ \A m \in D : m <= n
  BY TopIs
<1>2. D \union {n} \in SUBSET (1..(k + 1)) /\ k + 1 \in Nat /\ n \in D \union {n}
  <2>1. n \in 1..(k + 1)
    BY TopIs
  <2>2. \A m \in D : m \in 1..(k + 1)
    OBVIOUS
  <2>. HIDE DEF n
  <2>. QED  BY <2>1, <2>2
<1>3. \A m \in D \union {n} : m <= n
  BY <1>1
<1>. HIDE DEF n
<1>4. Top(D \union {n}) = n
  BY <1>2, <1>3, TopUnique
<1>. QED  BY <1>4 DEF n

(* Dropping the lowest of the later checkpoints leaves the latest where it  *)
(* is, until it is the last of them.                                        *)
LEMMA TopOfFewer ==
    ASSUME NEW k \in Nat, NEW D \in SUBSET (1..k), NEW a \in D, a # Top(D)
    PROVE  LET later == {n \in D : n > a}
           IN  /\ Lowest(later) \in later
               /\ Cardinality(later) = 1 => Top(D \ {Lowest(later)}) = a
               /\ Cardinality(later) # 1 => Top(D \ {Lowest(later)}) = Top(D)
<1> DEFINE later == {n \in D : n > a}
           x == Lowest(later)
           rest == D \ {x}
<1>1. Top(D) \in later
  BY TopIs
<1>2. later \in SUBSET Nat /\ later # {}
  <2>1. D \subseteq Nat
    OBVIOUS
  <2>. QED  BY <1>1, <2>1
<1>3. x \in later /\ \A m \in later : x <= m
  <2>. HIDE DEF later
  <2>. QED  BY <1>2, LowestIs
<1>4. rest \in SUBSET (1..k) /\ a \in rest
  <2>1. x \in {n \in D : n > a}
    BY <1>3
  <2>2. a # x
    <3>. HIDE DEF x
    <3>. QED  BY <2>1
  <2>. HIDE DEF x
  <2>. QED  BY <2>2
<1>5. IsFiniteSet(later)
  <2>1. IsFiniteSet(1..k)
    BY FS_Interval
  <2>2. later \subseteq 1..k
    OBVIOUS
  <2>. HIDE DEF later
  <2>. QED  BY <2>1, <2>2, FS_Subset
<1>6. ASSUME Cardinality(later) = 1 PROVE Top(rest) = a
  <2>1. PICK y : later = {y}
    <3>. HIDE DEF later
    <3>. QED  BY <1>5, <1>6, FS_Singleton
  <2>2. later = {x}
    BY <1>3, <2>1
  <2>3. \A m \in rest : m <= a
    BY <2>2
  <2>. HIDE DEF rest
  <2>. QED  BY <1>4, <2>3, TopUnique
<1>7. ASSUME Cardinality(later) # 1 PROVE Top(rest) = Top(D)
  <2>1. Top(D) # x
    <3>1. SUFFICES ASSUME Top(D) = x PROVE FALSE
      OBVIOUS
    <3>2. \A m \in later : m = x
      <4>1. ASSUME NEW m \in later PROVE m = x
        <5>1. m <= Top(D)
          BY TopIs
        <5>2. x <= m
          BY <1>3
        <5>3. m \in Nat /\ x \in Nat
          BY <1>2, <1>3
        <5>. HIDE DEF x, later
        <5>. QED  BY <3>1, <5>1, <5>2, <5>3
      <4>. QED  BY <4>1
    <3>3. later = {x}
      BY <3>2, <1>3
    <3>. HIDE DEF later, x
    <3>. QED  BY <3>3, <1>7, FS_Singleton
  <2>2. Top(D) \in rest /\ \A m \in rest : m <= Top(D)
    BY <2>1, TopIs
  <2>. HIDE DEF rest
  <2>. QED  BY <1>4, <2>2, TopUnique
<1>. QED  BY <1>3, <1>6, <1>7

-----------------------------------------------------------------------------
(* The inductive invariant.                                                *)

LastNumber == MaxRounds + 2

(* What a checkpoint holds; a verifier that passes ends the run, so none    *)
(* has its "pass".                                                          *)
Saved == [phase : {"planned", "brainstormed", "round_end"}, rounds : 0..MaxRounds,
          verifier : {"none", "fail"}, lastKey : Keys \union {None}, doneKeys : SUBSET Keys,
          tasks : TaskList, notes : 0..(MaxRounds + 1), files : Trees]

CpsOK == \A n \in DOMAIN cps : cps[n] \in Saved

(* Before the plan is on disk nothing is; before the brainstorm is, only    *)
(* the plan.                                                                *)
Opening ==
    /\ pc \in {"plan", "save_plan"} => DOMAIN cps = {}
    /\ pc \in {"storm", "save_storm"} => Latest = 1
    /\ pc \in {"plan", "save_plan", "storm", "save_storm"} =>
          run.rounds = 0 /\ run.verifier # "pass"

(* A round stands between the last boundary and the one it works for.       *)
InRound ==
    /\ pc \in {"verify_done", "execute", "verify", "clear", "save_round"} =>
          Latest >= 2 /\ Latest = run.rounds + 1
    /\ pc \in {"execute", "verify", "clear", "save_round"} => run.verifier # "pass"
    /\ pc = "verify_done" => run.lastKey = cps[Latest].lastKey
    /\ pc \in {"verify_done", "verify", "verify_final"} => checked

(* A run that ends was past the brainstorm; its rounds are spent if it says *)
(* so.                                                                      *)
Ending ==
    pc \in {"finalize", "verify_final"} =>
        /\ Latest >= 2 /\ reason \in {"stalled", "rounds_exhausted"}
        /\ reason = "rounds_exhausted" => Latest = LastNumber

(* A run that goes back is already what its checkpoint holds.               *)
GoingBack ==
    /\ pc \in {"unmark", "put_back", "drop"} =>
          run.at \in DOMAIN cps /\ run = RestoredRun(run.at) /\ notes = cps[run.at].notes
    /\ pc \in {"put_back", "drop"} => run.at # Latest

(* Nothing is in flight when a checkpoint comes or goes. *)
Unmarked ==
    pc \in {"plan", "save_plan", "storm", "save_storm", "save_round", "put_back", "drop"} =>
        inflight = Idle

AtManage ==
    /\ pc = "manage" => Latest >= 2
    /\ BeginsAtBoundary

IInv ==
    /\ TypeOK /\ CpsOK /\ CheckpointsNumberRounds /\ MarkerIsOfOpenRound
    /\ Opening /\ InRound /\ Ending /\ GoingBack /\ Unmarked /\ AtManage

(* What a step must do: keep the invariant, be a step of the job or leave   *)
(* it alone, and never hand out the last task again.                        *)
NewTask == pc # "execute" /\ pc' = "execute" => run'.lastKey # cps[Latest].lastKey
GoodStep == IInv' /\ [J!JobNext]_(J!jobVars) /\ NewTask

USE OrchestrateAssumption DEF LastNumber

-----------------------------------------------------------------------------
(* Facts the steps share.                                                  *)

LEMMA LatestIs ==
    ASSUME TypeOK
    PROVE  /\ Latest = Top(DOMAIN cps) /\ DOMAIN cps \in SUBSET (1..LastNumber)
           /\ Latest \in 0..LastNumber
           /\ DOMAIN cps = {} <=> Latest = 0
           /\ \A m \in DOMAIN cps : m <= Latest
           /\ DOMAIN cps # {} => Latest \in DOMAIN cps
<1>1. DOMAIN cps \in SUBSET (1..LastNumber) /\ LastNumber \in Nat
  BY DEF TypeOK
<1>2. Latest = Top(DOMAIN cps)
  BY DEF Latest, Top
<1>. QED  BY <1>1, <1>2, TopIs

(* A step that leaves the checkpoints alone leaves what is known of them.   *)
LEMMA SameCheckpoints ==
    ASSUME cps' = cps, CpsOK, CheckpointsNumberRounds
    PROVE  Latest' = Latest /\ CpsOK' /\ CheckpointsNumberRounds'
BY DEF Latest, CpsOK, CheckpointsNumberRounds

LEMMA JobRests ==
    ASSUME cps' = cps, pc # "closed", pc' # "closed",
           status' = status, checked' = checked, tree' = tree
    PROVE  [J!JobNext]_(J!jobVars)
<1>1. Latest' = Latest
  BY DEF Latest
<1>. QED  BY <1>1 DEF J!jobVars

LEMMA AdvancedIs ==
    ASSUME NEW r \in RunState
    PROVE  /\ Advanced(r) \in RunState
           /\ Advanced(r).rounds = r.rounds /\ Advanced(r).verifier = r.verifier
           /\ Advanced(r).lastKey = r.lastKey
BY DEF Advanced, RunState, TaskList

LEMMA FirstOpenIs ==
    ASSUME NEW tasks \in TaskList
    PROVE  FirstOpen(tasks) \in Keys \union {None}
<1>1. Open(tasks) \in SUBSET Nat /\ Open(tasks) \subseteq Keys
  BY DEF Open, TaskList
<1>2. CASE Open(tasks) = {}
  BY <1>2 DEF FirstOpen
<1>3. CASE Open(tasks) # {}
  <2>1. Lowest(Open(tasks)) \in Open(tasks)
    BY <1>1, <1>3, LowestIs
  <2>. QED  BY <1>1, <1>3, <2>1 DEF FirstOpen
<1>. QED  BY <1>2, <1>3

(* Where the manager is asked, the run is what the last boundary holds.     *)
LEMMA ManageIs ==
    ASSUME IInv, pc = "manage"
    PROVE  /\ Latest \in 2..LastNumber /\ Latest = run.rounds + 2
           /\ run.verifier # "pass" /\ run.lastKey = cps[Latest].lastKey
<1>1. Latest >= 2 /\ run = RestoredRun(Latest) /\ Latest \in 0..LastNumber /\ Latest \in DOMAIN cps
  <2>1. Latest >= 2 /\ run = RestoredRun(Latest)
    BY DEF IInv, AtManage, BeginsAtBoundary
  <2>2. Latest \in 0..LastNumber /\ (DOMAIN cps = {} <=> Latest = 0)
        /\ (DOMAIN cps # {} => Latest \in DOMAIN cps)
    BY LatestIs DEF IInv
  <2>3. Latest # 0
    BY <2>1
  <2>. QED  BY <2>1, <2>2, <2>3
<1>2. cps[Latest] \in Saved /\ Latest = cps[Latest].rounds + 2
  BY <1>1 DEF IInv, CpsOK, CheckpointsNumberRounds
<1>3. run.rounds = cps[Latest].rounds /\ run.verifier = cps[Latest].verifier
      /\ run.lastKey = cps[Latest].lastKey
  BY <1>1 DEF RestoredRun
<1>. QED  BY <1>1, <1>2, <1>3 DEF Saved

-----------------------------------------------------------------------------
(* What a manager's answer leads to.                                       *)

LEMMA EndWithSteps ==
    ASSUME IInv, pc # "closed", NEW outcome \in Statuses, EndWith(outcome),
           run' \in RunState, UNCHANGED <<checked, reason, tree, cps, notes>>,
           inflight' = inflight \/ inflight' = Idle, Latest >= 2,
           \/ outcome = "done" /\ checked /\ tree \in Passing
           \/ outcome = "done_unverified" /\ ~checked
           \/ outcome = "stalled"
           \/ outcome = "rounds_exhausted" /\ Latest = LastNumber
    PROVE  GoodStep
<1>1. Latest' = Latest /\ CpsOK' /\ CheckpointsNumberRounds'
  BY SameCheckpoints DEF IInv
<1>2. TypeOK'
  BY DEF IInv, TypeOK, EndWith, Idle, Statuses
<1>3. MarkerIsOfOpenRound'
  BY <1>1 DEF IInv, MarkerIsOfOpenRound
<1>4. (Opening /\ InRound /\ Ending /\ GoingBack /\ Unmarked /\ AtManage)'
  BY DEF EndWith, Opening, InRound, Ending, GoingBack, Unmarked, AtManage, BeginsAtBoundary
<1>5. J!End
  BY <1>1 DEF J!End, EndWith, J!Brainstormed, J!LastBoundary
<1>6. NewTask
  BY DEF NewTask, EndWith
<1>. QED  BY <1>1, <1>2, <1>3, <1>4, <1>5, <1>6 DEF GoodStep, IInv, J!JobNext

LEMMA BeginFinalizeSteps ==
    ASSUME IInv, pc \in {"manage", "verify_done"},
           NEW r \in RunState, r.verifier # "pass", Latest >= 2,
           NEW outcome \in {"stalled", "rounds_exhausted"},
           outcome = "rounds_exhausted" => Latest = LastNumber,
           BeginFinalize(r, outcome)
    PROVE  GoodStep
<1>. /\ run' = r /\ pc' = "finalize" /\ reason' = outcome
     /\ UNCHANGED <<status, checked, tree, cps, notes, inflight>>
  BY DEF BeginFinalize, ledger
<1>1. Latest' = Latest /\ CpsOK' /\ CheckpointsNumberRounds'
  BY SameCheckpoints DEF IInv
<1>2. TypeOK'
  BY DEF IInv, TypeOK, Statuses
<1>3. MarkerIsOfOpenRound'
  BY <1>1 DEF IInv, MarkerIsOfOpenRound
<1>4. Ending'
  BY <1>1 DEF Ending
<1>5. (Opening /\ InRound /\ GoingBack /\ Unmarked /\ AtManage)'
  BY DEF Opening, InRound, GoingBack, Unmarked, AtManage, BeginsAtBoundary
<1>6. [J!JobNext]_(J!jobVars)
  BY JobRests
<1>. QED  BY <1>1, <1>2, <1>3, <1>4, <1>5, <1>6 DEF GoodStep, IInv, NewTask

LEMMA BeginTaskSteps ==
    ASSUME IInv, pc \in {"manage", "verify_done"},
           NEW r \in RunState, r.verifier # "pass", Latest >= 2,
           Latest = r.rounds + 1, r.lastKey = cps[Latest].lastKey,
           NEW key \in Keys \union {None}, BeginTask(r, key)
    PROVE  GoodStep
<1>1. CASE key = None \/ Repeats(r, key)
  BY <1>1, BeginFinalizeSteps DEF BeginTask
<1>2. CASE ~(key = None \/ Repeats(r, key))
  <2>. /\ run' = [r EXCEPT !.lastKey = key, !.doneKeys = @ \union {key}]
       /\ inflight' = [round |-> r.rounds, key |-> key] /\ pc' = "execute"
       /\ UNCHANGED <<checked, reason, status, tree, cps, notes>>
       /\ key \in Keys /\ key # r.lastKey
    BY <1>2 DEF BeginTask, Repeats
  <2>1. Latest' = Latest /\ CpsOK' /\ CheckpointsNumberRounds'
    BY SameCheckpoints DEF IInv
  <2>2. run' \in RunState /\ run'.rounds = r.rounds /\ run'.lastKey = key /\ run'.verifier = r.verifier
    BY DEF RunState
  <2>3. TypeOK'
    BY <2>2 DEF IInv, TypeOK, RunState
  <2>4. MarkerIsOfOpenRound' /\ InRound'
    <3>1. r.rounds \in Nat
      BY DEF RunState
    <3>. QED  BY <2>1, <2>2, <3>1 DEF MarkerIsOfOpenRound, InRound
  <2>5. (Opening /\ Ending /\ GoingBack /\ Unmarked /\ AtManage)'
    BY DEF Opening, Ending, GoingBack, Unmarked, AtManage, BeginsAtBoundary
  <2>6. [J!JobNext]_(J!jobVars)
    BY JobRests
  <2>. QED  BY <2>1, <2>2, <2>3, <2>4, <2>5, <2>6 DEF GoodStep, IInv, NewTask
<1>. QED  BY <1>1, <1>2

LEMMA ResolveDoneSteps ==
    ASSUME IInv, pc \in {"manage", "verify_done"},
           NEW r \in RunState, r.verifier = "pass" => checked /\ tree \in Passing, Latest >= 2,
           Latest = r.rounds + 1, r.lastKey = cps[Latest].lastKey, ResolveDone(r)
    PROVE  GoodStep
<1>1. CASE DoneOutcome(r) # "none"
  <2>1. /\ DoneOutcome(r) \in Statuses
        /\ \/ DoneOutcome(r) = "done" /\ checked /\ tree \in Passing
           \/ DoneOutcome(r) = "done_unverified" /\ ~checked
    BY <1>1 DEF DoneOutcome, Statuses
  <2>2. EndWith(DoneOutcome(r)) /\ run' = r /\ UNCHANGED <<checked, reason, tree, cps, notes, inflight>>
    BY <1>1 DEF ResolveDone, ledger
  <2>. QED  BY <2>1, <2>2, EndWithSteps
<1>2. CASE DoneOutcome(r) = "none"
  <2>1. r.verifier # "pass"
    BY <1>2 DEF DoneOutcome
  <2>2. /\ Advanced(r) \in RunState /\ Advanced(r).rounds = r.rounds
        /\ Advanced(r).verifier = r.verifier /\ Advanced(r).lastKey = r.lastKey
    BY AdvancedIs
  <2>3. FirstOpen(Advanced(r).tasks) \in Keys \union {None}
    BY <2>2, FirstOpenIs DEF RunState
  <2>4. BeginTask(Advanced(r), FirstOpen(Advanced(r).tasks))
    BY <1>2 DEF ResolveDone
  <2>. QED  BY <2>1, <2>2, <2>3, <2>4, BeginTaskSteps
<1>. QED  BY <1>1, <1>2

-----------------------------------------------------------------------------
(* One lemma per part of the loop.                                         *)

(* Phases and rounds that change no checkpoint.                            *)
LEMMA PhaseSteps ==
    ASSUME IInv,
           \/ PlanAnswered \/ BrainstormAnswered \/ WorkerEdits
           \/ \E withNotes \in BOOLEAN : WorkerReports(withNotes)
           \/ ClearInflight
    PROVE  GoodStep
<1>1. cps' = cps
  BY DEF PlanAnswered, BrainstormAnswered, WorkerEdits, WorkerReports, ClearInflight, ledger
<1>2. Latest' = Latest /\ CpsOK' /\ CheckpointsNumberRounds'
  BY <1>1, SameCheckpoints DEF IInv
<1>3. CASE PlanAnswered
  <2>1. PICK tasks \in TaskList : run' = [run EXCEPT !.tasks = tasks]
    BY <1>3 DEF PlanAnswered, Lists
  <2>2. run' \in RunState /\ run'.rounds = run.rounds /\ run'.verifier = run.verifier
    BY <2>1 DEF IInv, TypeOK, RunState
  <2>3. TypeOK'
    BY <1>1, <1>3, <2>2 DEF IInv, TypeOK, PlanAnswered, ledger
  <2>4. (Opening /\ Unmarked)'
    BY <1>1, <1>3, <2>2 DEF IInv, Opening, Unmarked, PlanAnswered, ledger
  <2>5. (MarkerIsOfOpenRound /\ InRound /\ Ending /\ GoingBack /\ AtManage)'
    BY <1>2, <1>3 DEF IInv, MarkerIsOfOpenRound, InRound, Ending, GoingBack, AtManage,
       BeginsAtBoundary, PlanAnswered, ledger
  <2>6. [J!JobNext]_(J!jobVars)
    BY <1>1, <1>3, JobRests DEF PlanAnswered
  <2>. QED  BY <1>2, <1>3, <2>3, <2>4, <2>5, <2>6 DEF GoodStep, IInv, NewTask, PlanAnswered
<1>4. CASE BrainstormAnswered
  <2>1. TypeOK'
    BY <1>4 DEF IInv, TypeOK, BrainstormAnswered
  <2>2. (Opening /\ Unmarked)'
    BY <1>2, <1>4 DEF IInv, Opening, Unmarked, BrainstormAnswered
  <2>3. (MarkerIsOfOpenRound /\ InRound /\ Ending /\ GoingBack /\ AtManage)'
    BY <1>2, <1>4 DEF IInv, MarkerIsOfOpenRound, InRound, Ending, GoingBack, AtManage,
       BeginsAtBoundary, BrainstormAnswered
  <2>4. [J!JobNext]_(J!jobVars)
    BY <1>1, <1>4, JobRests DEF BrainstormAnswered
  <2>. QED  BY <1>2, <1>4, <2>1, <2>2, <2>3, <2>4 DEF GoodStep, IInv, NewTask, BrainstormAnswered
<1>5. CASE WorkerEdits
  <2>1. TypeOK'
    BY <1>1, <1>5 DEF IInv, TypeOK, WorkerEdits, ledger
  <2>2. (MarkerIsOfOpenRound /\ Opening /\ InRound /\ Ending /\ GoingBack /\ Unmarked /\ AtManage)'
    BY <1>1, <1>2, <1>5 DEF IInv, MarkerIsOfOpenRound, Opening, InRound, Ending, GoingBack,
       Unmarked, AtManage, BeginsAtBoundary, WorkerEdits, ledger
  <2>3. J!Work
    BY <1>2, <1>5 DEF WorkerEdits, J!Work
  <2>. QED  BY <1>2, <1>5, <2>1, <2>2, <2>3 DEF GoodStep, IInv, NewTask, J!JobNext, WorkerEdits
<1>6. ASSUME NEW withNotes \in BOOLEAN, WorkerReports(withNotes) PROVE GoodStep
  <2>1. TypeOK'
    BY <1>1, <1>6 DEF IInv, TypeOK, RunState, WorkerReports
  <2>2. (MarkerIsOfOpenRound /\ Opening /\ InRound /\ Ending /\ GoingBack /\ Unmarked /\ AtManage)'
    BY <1>1, <1>2, <1>6 DEF IInv, TypeOK, MarkerIsOfOpenRound, Opening, InRound, Ending, GoingBack,
       Unmarked, AtManage, BeginsAtBoundary, WorkerReports
  <2>3. [J!JobNext]_(J!jobVars)
    BY <1>1, <1>6, JobRests DEF WorkerReports
  <2>. QED  BY <1>2, <1>6, <2>1, <2>2, <2>3 DEF GoodStep, IInv, NewTask, WorkerReports
<1>7. CASE ClearInflight
  <2>1. TypeOK'
    BY <1>1, <1>7 DEF IInv, TypeOK, ClearInflight, MarkerCleared, Idle
  <2>2. (MarkerIsOfOpenRound /\ Opening /\ InRound /\ Ending /\ GoingBack /\ Unmarked /\ AtManage)'
    BY <1>1, <1>2, <1>7 DEF IInv, MarkerIsOfOpenRound, Opening, InRound, Ending, GoingBack,
       Unmarked, AtManage, BeginsAtBoundary, ClearInflight, MarkerCleared
  <2>3. [J!JobNext]_(J!jobVars)
    BY <1>1, <1>7, JobRests DEF ClearInflight
  <2>. QED  BY <1>2, <1>7, <2>1, <2>2, <2>3 DEF GoodStep, IInv, NewTask, ClearInflight
<1>. QED  BY <1>3, <1>4, <1>5, <1>6, <1>7

(* A boundary is reached: its checkpoint comes behind all others.          *)
LEMMA SaveSteps ==
    ASSUME IInv, SavePlan \/ SaveBrainstorm \/ SaveRound
    PROVE  GoodStep
<1>0. PICK n \in Nat : n = Latest + 1 /\ Latest \in Nat
  BY LatestIs DEF IInv
<1> DEFINE phase == PhaseOf(n)
<1>1. /\ Save(phase) /\ inflight = Idle /\ run.verifier # "pass"
      /\ n \in 1..LastNumber /\ n = run.rounds + (IF n = 1 THEN 1 ELSE 2)
      /\ pc' = IF n = 1 THEN "storm" ELSE "manage"
      /\ pc \notin {"closed", "execute"} /\ UNCHANGED <<checked, reason, status, tree, notes, inflight>>
  <2>1. Latest \in 0..LastNumber /\ run.rounds \in 0..MaxRounds /\ (DOMAIN cps = {} <=> Latest = 0)
    BY <1>0, LatestIs DEF IInv, TypeOK, RunState
  <2>2. CASE SavePlan
    BY <1>0, <2>1, <2>2 DEF SavePlan, IInv, Opening, Unmarked, PhaseOf
  <2>3. CASE SaveBrainstorm
    BY <1>0, <2>1, <2>3 DEF SaveBrainstorm, IInv, Opening, Unmarked, PhaseOf
  <2>4. CASE SaveRound
    BY <1>0, <2>1, <2>4 DEF SaveRound, IInv, InRound, Unmarked, PhaseOf
  <2>. QED  BY <2>2, <2>3, <2>4
<1>2. /\ DOMAIN cps' = DOMAIN cps \union {n} /\ \A m \in DOMAIN cps : cps'[m] = cps[m]
      /\ run' = [run EXCEPT !.at = n]
      /\ cps'[n] = [phase |-> phase, rounds |-> run.rounds,  verifier |-> run.verifier,
                    lastKey |-> run.lastKey, doneKeys |-> run.doneKeys, tasks |-> run.tasks,
                    notes |-> notes, files |-> tree]
  <2>1. n \notin DOMAIN cps
    BY <1>0, LatestIs DEF IInv
  <2>. QED  BY <1>0, <1>1, <2>1 DEF Save, NextNumber
<1>. HIDE DEF phase
<1>3. Latest' = n
  <2>1. Latest' = Top(DOMAIN cps')
    BY DEF Latest, Top
  <2>. QED  BY <1>0, <1>2, <2>1, LatestIs, TopOfMore DEF IInv
<1>4. TypeOK' /\ CpsOK' /\ CheckpointsNumberRounds'
  <2>1. run' \in RunState
    BY <1>1, <1>2 DEF IInv, TypeOK, RunState
  <2>2. phase \in {"planned", "brainstormed", "round_end"}
    BY DEF phase, PhaseOf
  <2>3. cps'[n] \in Saved
    BY <1>1, <1>2, <2>2 DEF IInv, TypeOK, RunState, Saved, Verdicts
  <2>4. TypeOK'
    BY <1>1, <1>2, <2>1 DEF IInv, TypeOK
  <2>5. CpsOK'
    BY <1>2, <2>3 DEF IInv, CpsOK
  <2>6. CheckpointsNumberRounds'
    BY <1>1, <1>2 DEF IInv, CheckpointsNumberRounds, phase
  <2>. QED  BY <2>4, <2>5, <2>6
<1>5. MarkerIsOfOpenRound' /\ Unmarked'
  BY <1>1 DEF MarkerIsOfOpenRound, Unmarked
<1>6. (Opening /\ InRound /\ Ending /\ GoingBack)'
  BY <1>1, <1>2, <1>3 DEF IInv, TypeOK, RunState, Opening, InRound, Ending, GoingBack
<1>7. AtManage'
  <2>1. run' = RestoredRun(n)'
    BY <1>1, <1>2 DEF IInv, TypeOK, RunState, RestoredRun, RestoredKeys
  <2>2. n = 1 \/ n >= 2
    BY <1>1
  <2>. QED  BY <1>1, <1>2, <1>3, <2>1, <2>2 DEF AtManage, BeginsAtBoundary
<1>8. J!Reach
  <2>1. Latest < J!LastBoundary
    BY <1>0, <1>1 DEF J!LastBoundary, J!Brainstormed
  <2>2. UNCHANGED <<pc # "closed", status, checked, tree \in Passing>>
    <3>1. pc # "closed" /\ pc' # "closed"
      BY <1>1
    <3>. QED  BY <1>1, <3>1
  <2>. QED  BY <1>0, <1>1, <1>3, <2>1, <2>2 DEF J!Reach
<1>. QED  BY <1>1, <1>4, <1>5, <1>6, <1>7, <1>8 DEF GoodStep, IInv, J!JobNext, NewTask

(* The manager's answer, and the end of the rounds.                        *)
LEMMA ManageSteps ==
    ASSUME IInv, Manage \/ RoundsSpent
    PROVE  GoodStep
<1>1. /\ pc = "manage" /\ run \in RunState /\ Latest \in 2..LastNumber /\ Latest = run.rounds + 2
      /\ run.verifier # "pass" /\ run.lastKey = cps[Latest].lastKey
  BY ManageIs DEF Manage, RoundsSpent, IInv, TypeOK
<1>2. CASE RoundsSpent
  <2>1. BeginFinalize(run, "rounds_exhausted") /\ ~RoundsLeft
    BY <1>2 DEF RoundsSpent
  <2>2. Latest = LastNumber
    BY <1>1, <2>1 DEF RoundsLeft, RunState
  <2>. QED  BY <1>1, <2>1, <2>2, BeginFinalizeSteps
<1>3. CASE Manage
  <2> DEFINE r == [run EXCEPT !.rounds = @ + 1]
             s(tasks) == [r EXCEPT !.tasks = tasks]
  <2>1. /\ r \in RunState /\ r.rounds = run.rounds + 1 /\ r.verifier = run.verifier
        /\ r.lastKey = run.lastKey /\ Latest = r.rounds + 1
    <3>1. run.rounds < MaxRounds
      BY <1>3 DEF Manage, RoundsLeft
    <3>2. r.rounds = run.rounds + 1 /\ r.verifier = run.verifier /\ r.lastKey = run.lastKey
      BY <1>1 DEF RunState
    <3>3. r \in RunState
      BY <1>1, <3>1 DEF RunState
    <3>4. Latest = r.rounds + 1
      BY <1>1, <3>2 DEF RunState
    <3>. QED  BY <3>2, <3>3, <3>4
  <2>. HIDE DEF r
  <2>2. \A tasks \in Lists : /\ s(tasks) \in RunState /\ s(tasks).rounds = r.rounds
                             /\ s(tasks).verifier = r.verifier /\ s(tasks).lastKey = r.lastKey
                             /\ s(tasks).tasks = tasks
    BY <2>1 DEF RunState, Lists
  <2>. HIDE DEF s
  <2>3. ASSUME NEW tasks \in Lists, NEW key \in Open(tasks), BeginTask(s(tasks), key)
        PROVE  GoodStep
    <3>1. key \in Keys
      BY DEF Lists, Open, TaskList
    <3>. QED  BY <1>1, <2>1, <2>2, <2>3, <3>1, BeginTaskSteps
  <2>4. ASSUME NEW tasks \in Lists, ResolveDone(s(tasks))
        PROVE  GoodStep
    BY <1>1, <2>1, <2>2, <2>4, ResolveDoneSteps
  <2>5. ASSUME NEW tasks \in Lists, checked, run' = s(tasks), pc' = "verify_done",
               UNCHANGED <<checked, reason, status, tree, ledger>>
        PROVE  GoodStep
    <3>. UNCHANGED <<cps, notes, inflight>>
      BY <2>5 DEF ledger
    <3>1. Latest' = Latest /\ CpsOK' /\ CheckpointsNumberRounds'
      BY SameCheckpoints DEF IInv
    <3>2. TypeOK'
      BY <2>2, <2>5 DEF IInv, TypeOK
    <3>3. InRound' /\ MarkerIsOfOpenRound'
      BY <1>1, <2>1, <2>2, <2>5, <3>1 DEF IInv, InRound, MarkerIsOfOpenRound
    <3>4. (Opening /\ Ending /\ GoingBack /\ Unmarked /\ AtManage)'
      BY <2>5 DEF Opening, Ending, GoingBack, Unmarked, AtManage, BeginsAtBoundary
    <3>5. [J!JobNext]_(J!jobVars)
      BY <1>1, <2>5, JobRests
    <3>. QED  BY <2>5, <3>1, <3>2, <3>3, <3>4, <3>5 DEF GoodStep, IInv, NewTask
  <2>6. ASSUME Open(Advanced(r).tasks) = {}, BeginFinalize(r, "stalled")
        PROVE  GoodStep
    BY <1>1, <2>1, <2>6, BeginFinalizeSteps
  <2>7. ASSUME BeginTask(Advanced(r), FirstOpen(Advanced(r).tasks))
        PROVE  GoodStep
    <3>1. /\ Advanced(r) \in RunState /\ Advanced(r).rounds = r.rounds
          /\ Advanced(r).verifier = r.verifier /\ Advanced(r).lastKey = r.lastKey
      BY <2>1, AdvancedIs
    <3>2. FirstOpen(Advanced(r).tasks) \in Keys \union {None}
      BY <3>1, FirstOpenIs DEF RunState
    <3>3. /\ Advanced(r).verifier # "pass" /\ Advanced(r).lastKey = cps[Latest].lastKey
          /\ Latest = Advanced(r).rounds + 1 /\ Latest >= 2 /\ pc = "manage"
      BY <1>1, <2>1, <3>1
    <3>. QED  BY <2>7, <3>1, <3>2, <3>3, BeginTaskSteps
  <2>8. \/ \E tasks \in Lists : \E key \in Open(tasks) : BeginTask(s(tasks), key)
        \/ \E tasks \in Lists : ResolveDone(s(tasks))
        \/ \E tasks \in Lists : /\ checked /\ run' = s(tasks) /\ pc' = "verify_done"
                                /\ UNCHANGED <<checked, reason, status, tree, ledger>>
        \/ Open(Advanced(r).tasks) = {} /\ BeginFinalize(r, "stalled")
        \/ BeginTask(Advanced(r), FirstOpen(Advanced(r).tasks))
    BY <1>3 DEF Manage, r, s
  <2>. QED  BY <2>3, <2>4, <2>5, <2>6, <2>7, <2>8
<1>. QED  BY <1>2, <1>3

(* The verifier, and the worker of the end.                                *)
LEMMA VerdictSteps ==
    ASSUME IInv, NEW verdict \in Verdicts,
           VerifyDone(verdict) \/ Verify(verdict) \/ VerifyFinal(verdict) \/ FinalizerReports
    PROVE  GoodStep
<1> DEFINE r == [run EXCEPT !.verifier = verdict]
<1>1. /\ run \in RunState /\ r \in RunState /\ r.verifier = verdict
      /\ r.rounds = run.rounds /\ r.lastKey = run.lastKey
  BY DEF IInv, TypeOK, RunState
<1>. HIDE DEF r
<1>2. VerifierSays(verdict) => (verdict = "pass" => tree \in Passing)
  BY DEF VerifierSays
<1>3. CASE VerifyDone(verdict)
  <2>1. pc = "verify_done" /\ VerifierSays(verdict) /\ ResolveDone(r)
    BY <1>3 DEF VerifyDone, r
  <2>2. Latest >= 2 /\ Latest = run.rounds + 1 /\ run.lastKey = cps[Latest].lastKey /\ checked
    BY <2>1 DEF IInv, InRound
  <2>. QED  BY <1>1, <1>2, <2>1, <2>2, ResolveDoneSteps
<1>4. CASE Verify(verdict)
  <2>1. /\ pc = "verify" /\ VerifierSays(verdict) /\ run' = r
        /\ UNCHANGED <<checked, reason, tree, cps, notes>>
    BY <1>4 DEF Verify, r
  <2>2. Latest >= 2 /\ Latest = run.rounds + 1 /\ checked
    BY <2>1 DEF IInv, InRound
  <2>3. CASE verdict = "pass"
    <3>1. EndWith("done") /\ inflight' = Idle
      BY <1>4, <2>3 DEF Verify
    <3>. QED  BY <1>1, <1>2, <2>1, <2>2, <2>3, <3>1, EndWithSteps DEF Statuses
  <2>4. CASE verdict # "pass"
    <3>1. pc' = "clear" /\ UNCHANGED <<status, inflight>>
      BY <1>4, <2>4 DEF Verify
    <3>2. Latest' = Latest /\ CpsOK' /\ CheckpointsNumberRounds'
      BY <2>1, SameCheckpoints DEF IInv
    <3>3. TypeOK'
      BY <1>1, <2>1, <3>1 DEF IInv, TypeOK
    <3>4. InRound' /\ MarkerIsOfOpenRound'
      BY <1>1, <2>1, <2>2, <2>4, <3>1, <3>2 DEF IInv, InRound, MarkerIsOfOpenRound
    <3>5. (Opening /\ Ending /\ GoingBack /\ Unmarked /\ AtManage)'
      BY <3>1 DEF Opening, Ending, GoingBack, Unmarked, AtManage, BeginsAtBoundary
    <3>6. [J!JobNext]_(J!jobVars)
      BY <2>1, <3>1, JobRests
    <3>. QED  BY <3>1, <3>2, <3>3, <3>4, <3>5, <3>6 DEF GoodStep, IInv, NewTask
  <2>. QED  BY <2>3, <2>4
<1>5. CASE VerifyFinal(verdict)
  <2>1. /\ pc = "verify_final" /\ VerifierSays(verdict) /\ run' = r
        /\ EndWith(IF verdict = "pass" THEN "done" ELSE reason)
        /\ UNCHANGED <<checked, reason, tree, cps, notes, inflight>>
    BY <1>5 DEF VerifyFinal, ledger, r
  <2>2. /\ Latest >= 2 /\ checked /\ reason \in {"stalled", "rounds_exhausted"}
        /\ reason = "rounds_exhausted" => Latest = LastNumber
    BY <2>1 DEF IInv, InRound, Ending
  <2>3. (IF verdict = "pass" THEN "done" ELSE reason) \in Statuses
    BY <2>2 DEF Statuses
  <2>. QED  BY <1>1, <1>2, <2>1, <2>2, <2>3, EndWithSteps
<1>6. CASE FinalizerReports
  <2>1. /\ pc = "finalize"
        /\ UNCHANGED <<run, checked, reason, tree, cps, notes, inflight>>
    BY <1>6 DEF FinalizerReports, ledger
  <2>2. /\ Latest >= 2 /\ reason \in {"stalled", "rounds_exhausted"}
        /\ reason = "rounds_exhausted" => Latest = LastNumber
    BY <2>1 DEF IInv, Ending
  <2>3. CASE checked
    <3>1. pc' = "verify_final" /\ UNCHANGED status
      BY <1>6, <2>3 DEF FinalizerReports
    <3>2. Latest' = Latest /\ CpsOK' /\ CheckpointsNumberRounds'
      BY <2>1, SameCheckpoints DEF IInv
    <3>3. TypeOK' /\ MarkerIsOfOpenRound'
      BY <2>1, <3>1, <3>2 DEF IInv, TypeOK, MarkerIsOfOpenRound
    <3>4. (InRound /\ Ending)'
      BY <2>1, <2>2, <2>3, <3>1, <3>2 DEF InRound, Ending
    <3>5. (Opening /\ GoingBack /\ Unmarked /\ AtManage)'
      BY <3>1 DEF Opening, GoingBack, Unmarked, AtManage, BeginsAtBoundary
    <3>6. [J!JobNext]_(J!jobVars)
      BY <2>1, <3>1, JobRests
    <3>. QED  BY <3>1, <3>2, <3>3, <3>4, <3>5, <3>6 DEF GoodStep, IInv, NewTask
  <2>4. CASE ~checked
    <3>1. EndWith(reason)
      BY <1>6, <2>4 DEF FinalizerReports
    <3>. QED  BY <1>1, <2>1, <2>2, <3>1, EndWithSteps DEF Statuses
  <2>. QED  BY <2>3, <2>4
<1>. QED  BY <1>3, <1>4, <1>5, <1>6

(* A run begins, from nothing or from a checkpoint, or is stopped.         *)
LEMMA RunSteps ==
    ASSUME IInv, OpenFresh \/ Stop \/ \E n \in 1..LastNumber : Resume(n)
    PROVE  GoodStep
<1>1. cps' = cps
  BY DEF OpenFresh, Stop, Resume, ledger
<1>2. Latest' = Latest /\ CpsOK' /\ CheckpointsNumberRounds'
  BY <1>1, SameCheckpoints DEF IInv
<1>3. NewRun \in RunState /\ NewRun.rounds = 0 /\ NewRun.verifier = "none"
  BY DEF NewRun, RunState, NoTasks, TaskList, Verdicts
<1>4. CASE OpenFresh
  <2>1. Latest = 0
    BY <1>4, LatestIs DEF IInv, OpenFresh
  <2>2. inflight = Idle
    <3>1. inflight.round \in Nat
      BY DEF IInv, TypeOK
    <3>. QED  BY <2>1, <3>1 DEF IInv, MarkerIsOfOpenRound
  <2>3. TypeOK'
    BY <1>3, <1>4 DEF IInv, TypeOK, OpenFresh, Statuses
  <2>4. MarkerIsOfOpenRound' /\ Opening' /\ Unmarked'
    BY <1>1, <1>3, <1>4, <2>2 DEF MarkerIsOfOpenRound, Opening, Unmarked, OpenFresh
  <2>5. (InRound /\ Ending /\ GoingBack /\ AtManage)'
    BY <1>4 DEF InRound, Ending, GoingBack, AtManage, BeginsAtBoundary, OpenFresh
  <2>6. J!Run
    BY <1>2, <1>4 DEF J!Run, OpenFresh
  <2>. QED  BY <1>2, <1>4, <2>3, <2>4, <2>5, <2>6 DEF GoodStep, IInv, NewTask, J!JobNext, OpenFresh
<1>5. CASE Stop
  <2>1. TypeOK' /\ MarkerIsOfOpenRound'
    BY <1>2, <1>3, <1>5 DEF IInv, TypeOK, MarkerIsOfOpenRound, Stop, ledger
  <2>2. (Opening /\ InRound /\ Ending /\ GoingBack /\ Unmarked /\ AtManage)'
    BY <1>5 DEF Opening, InRound, Ending, GoingBack, Unmarked, AtManage, BeginsAtBoundary, Stop
  <2>3. J!Stop
    BY <1>2, <1>5 DEF J!Stop, Stop
  <2>. QED  BY <1>2, <1>5, <2>1, <2>2, <2>3 DEF GoodStep, IInv, NewTask, J!JobNext, Stop
<1>6. ASSUME NEW n \in 1..LastNumber, Resume(n) PROVE GoodStep
  <2>1. n \in DOMAIN cps /\ cps[n] \in Saved
    BY <1>6 DEF Resume, IInv, CpsOK
  <2>2. RestoredRun(n) \in RunState /\ RestoredRun(n).at = n
    BY <2>1 DEF RestoredRun, RestoredKeys, RunState, Saved, Verdicts
  <2>3. TypeOK' /\ MarkerIsOfOpenRound'
    BY <1>2, <1>6, <2>1, <2>2 DEF IInv, TypeOK, MarkerIsOfOpenRound, Resume, Saved, Statuses
  <2>4. RestoredRun(n)' = RestoredRun(n)
    BY <1>1 DEF RestoredRun, RestoredKeys
  <2>5. GoingBack'
    BY <1>1, <1>6, <2>1, <2>2, <2>4 DEF GoingBack, Resume
  <2>6. (Opening /\ InRound /\ Ending /\ Unmarked /\ AtManage)'
    BY <1>6 DEF Opening, InRound, Ending, Unmarked, AtManage, BeginsAtBoundary, Resume
  <2>7. J!Run
    BY <1>2, <1>6 DEF J!Run, Resume
  <2>. QED  BY <1>2, <1>6, <2>3, <2>5, <2>6, <2>7 DEF GoodStep, IInv, NewTask, J!JobNext, Resume
<1>. QED  BY <1>4, <1>5, <1>6

(* The phase a checkpoint leads to, and what the run knows there.          *)
LEMMA AfterBoundary ==
    ASSUME IInv, pc \in {"unmark", "put_back", "drop"}
    PROVE  /\ run.at \in DOMAIN cps /\ run.at \in 1..LastNumber /\ run.at <= Latest
           /\ run = RestoredRun(run.at) /\ notes = cps[run.at].notes
           /\ \/ PhaseAfter(run.at) = "storm" /\ run.at = 1 /\ run.rounds = 0
              \/ PhaseAfter(run.at) = "manage" /\ run.at >= 2
           /\ run.verifier # "pass"
<1>1. run.at \in DOMAIN cps /\ run = RestoredRun(run.at) /\ notes = cps[run.at].notes
  BY DEF IInv, GoingBack
<1>2. run.at \in 1..LastNumber /\ run.at <= Latest
  BY <1>1, LatestIs DEF IInv
<1>3. /\ cps[run.at] \in Saved /\ cps[run.at].phase = PhaseOf(run.at)
      /\ run.at = cps[run.at].rounds + (IF run.at = 1 THEN 1 ELSE 2)
  BY <1>1 DEF IInv, CpsOK, CheckpointsNumberRounds
<1>4. run.rounds = cps[run.at].rounds /\ run.verifier = cps[run.at].verifier
  BY <1>1 DEF RestoredRun
<1>5. CASE run.at = 1
  BY <1>1, <1>2, <1>3, <1>4, <1>5 DEF PhaseAfter, PhaseOf, Saved
<1>6. CASE run.at # 1
  BY <1>1, <1>2, <1>3, <1>4, <1>6 DEF PhaseAfter, PhaseOf, Saved
<1>. QED  BY <1>5, <1>6

(* Going on from a checkpoint: the marker goes, then the files come back,   *)
(* then the later checkpoints go.                                           *)
LEMMA ReturnSteps ==
    ASSUME IInv, UnmarkOnResume \/ PutBack \/ Drop
    PROVE  GoodStep
<1>1. /\ run.at \in DOMAIN cps /\ run.at \in 1..LastNumber /\ run.at <= Latest
      /\ run = RestoredRun(run.at) /\ notes = cps[run.at].notes
      /\ \/ PhaseAfter(run.at) = "storm" /\ run.at = 1 /\ run.rounds = 0
         \/ PhaseAfter(run.at) = "manage" /\ run.at >= 2
      /\ run.verifier # "pass" /\ Latest \in 1..LastNumber
  <2>1. pc \in {"unmark", "put_back", "drop"}
    BY DEF UnmarkOnResume, PutBack, Drop
  <2>. QED  BY <2>1, AfterBoundary, LatestIs DEF IInv
<1>2. CASE UnmarkOnResume
  <2>1. /\ inflight' = Idle /\ pc # "closed" /\ pc' # "closed" /\ pc' # "execute"
        /\ UNCHANGED <<checked, run, reason, status, tree, cps, notes>>
        /\ \/ run.at = Latest /\ pc' = PhaseAfter(run.at)
           \/ run.at # Latest /\ pc' = "put_back"
    BY <1>1, <1>2 DEF UnmarkOnResume
  <2>2. Latest' = Latest /\ CpsOK' /\ CheckpointsNumberRounds'
    BY <2>1, SameCheckpoints DEF IInv
  <2>3. TypeOK'
    BY <1>1, <2>1 DEF IInv, TypeOK, Idle
  <2>4. (MarkerIsOfOpenRound /\ Opening /\ InRound /\ Ending /\ Unmarked)'
    BY <1>1, <2>1, <2>2 DEF MarkerIsOfOpenRound, Opening, InRound, Ending, Unmarked
  <2>5. RestoredRun(run.at)' = RestoredRun(run.at)
    BY <2>1 DEF RestoredRun, RestoredKeys
  <2>6. GoingBack'
    BY <1>1, <2>1, <2>2, <2>5 DEF GoingBack
  <2>7. AtManage'
    <3>1. SUFFICES ASSUME pc' = "manage" PROVE AtManage'
      BY DEF AtManage, BeginsAtBoundary
    <3>2. Latest' = run.at /\ run' = run
      BY <1>1, <2>1, <2>2, <3>1
    <3>3. RestoredRun(Latest)' = RestoredRun(run.at)
      BY <2>1, <3>2 DEF RestoredRun, RestoredKeys
    <3>. QED  BY <1>1, <2>1, <3>1, <3>2, <3>3 DEF AtManage, BeginsAtBoundary
  <2>8. [J!JobNext]_(J!jobVars)
    BY <2>1, JobRests
  <2>. QED  BY <2>1, <2>2, <2>3, <2>4, <2>6, <2>7, <2>8 DEF GoodStep, IInv, NewTask
<1>3. CASE PutBack
  <2>1. /\ pc = "put_back" /\ pc' = "drop" /\ tree' = cps[run.at].files /\ run.at # Latest
        /\ UNCHANGED <<checked, run, reason, status, cps, notes, inflight>>
    BY <1>3 DEF PutBack, ledger, IInv, GoingBack
  <2>2. Latest' = Latest /\ CpsOK' /\ CheckpointsNumberRounds'
    BY <2>1, SameCheckpoints DEF IInv
  <2>3. TypeOK'
    <3>1. cps[run.at].files \in Trees
      BY <1>1 DEF IInv, CpsOK, Saved
    <3>. QED  BY <2>1, <3>1 DEF IInv, TypeOK
  <2>4. (MarkerIsOfOpenRound /\ Opening /\ InRound /\ Ending /\ Unmarked /\ AtManage)'
    BY <2>1, <2>2 DEF IInv, MarkerIsOfOpenRound, Opening, InRound, Ending, Unmarked,
       AtManage, BeginsAtBoundary
  <2>5. RestoredRun(run.at)' = RestoredRun(run.at)
    BY <2>1 DEF RestoredRun, RestoredKeys
  <2>6. GoingBack'
    BY <1>1, <2>1, <2>2, <2>5 DEF GoingBack
  <2>7. J!Work
    BY <2>1, <2>2 DEF J!Work
  <2>. QED  BY <2>1, <2>2, <2>3, <2>4, <2>6, <2>7 DEF GoodStep, IInv, NewTask, J!JobNext
<1>4. CASE Drop
  <2> DEFINE later == {n \in DOMAIN cps : n > run.at}
             x == Lowest(later)
  <2>1. /\ pc = "drop" /\ run.at # Latest /\ inflight = Idle
        /\ cps' = [n \in DOMAIN cps \ {x} |-> cps[n]]
        /\ pc' = IF Cardinality(later) = 1 THEN PhaseAfter(run.at) ELSE "drop"
        /\ UNCHANGED <<checked, run, reason, status, tree, notes, inflight>>
    BY <1>4 DEF Drop, IInv, GoingBack, Unmarked
  <2>2. /\ x \in later
        /\ Cardinality(later) = 1 => Top(DOMAIN cps \ {x}) = run.at
        /\ Cardinality(later) # 1 => Top(DOMAIN cps \ {x}) = Top(DOMAIN cps)
    <3>1. /\ run.at \in DOMAIN cps /\ run.at # Top(DOMAIN cps)
          /\ DOMAIN cps \in SUBSET (1..LastNumber) /\ LastNumber \in Nat
      BY <1>1, <2>1, LatestIs DEF IInv
    <3>. HIDE DEF LastNumber
    <3>. QED  BY <3>1, TopOfFewer
  <2>3. x # run.at
    BY <1>1, <2>2
  <2>. HIDE DEF later, x
  <2>4. DOMAIN cps' = DOMAIN cps \ {x} /\ \A n \in DOMAIN cps' : cps'[n] = cps[n]
    BY <2>1
  <2>5. /\ Cardinality(later) = 1 => Latest' = run.at
        /\ Cardinality(later) # 1 => Latest' = Latest
    <3>1. Latest' = Top(DOMAIN cps') /\ Latest = Top(DOMAIN cps)
      BY DEF Latest, Top
    <3>. QED  BY <2>2, <2>4, <3>1
  <2>6. TypeOK'
    <3>1. pc' \in {"drop", "storm", "manage"}
      BY <1>1, <2>1
    <3>. QED  BY <2>1, <2>4, <3>1 DEF IInv, TypeOK
  <2>7. CpsOK' /\ CheckpointsNumberRounds'
    BY <2>4 DEF IInv, CpsOK, CheckpointsNumberRounds
  <2>8. MarkerIsOfOpenRound' /\ Unmarked'
    BY <2>1 DEF MarkerIsOfOpenRound, Unmarked
  <2>9. run.at \in DOMAIN cps' /\ cps'[run.at] = cps[run.at] /\ run' = run
    BY <1>1, <2>1, <2>3, <2>4
  <2>10. CASE Cardinality(later) = 1
    <3>1. pc' = PhaseAfter(run.at) /\ Latest' = run.at
      BY <2>1, <2>5, <2>10
    <3>2. (Opening /\ InRound /\ Ending /\ GoingBack)'
      BY <1>1, <2>1, <3>1 DEF Opening, InRound, Ending, GoingBack
    <3>3. RestoredRun(Latest)' = RestoredRun(run.at)
      BY <2>9, <3>1 DEF RestoredRun, RestoredKeys
    <3>4. AtManage'
      BY <1>1, <2>1, <2>9, <3>1, <3>3 DEF AtManage, BeginsAtBoundary
    <3>5. J!Return
      <4>1. Latest' \in 1..(Latest - 1)
        BY <1>1, <2>1, <3>1
      <4>. QED  BY <1>1, <2>1, <3>1, <4>1 DEF J!Return
    <3>. QED  BY <1>1, <2>6, <2>7, <2>8, <3>1, <3>2, <3>4, <3>5 DEF GoodStep, IInv, NewTask, J!JobNext
  <2>11. CASE Cardinality(later) # 1
    <3>1. pc' = "drop" /\ Latest' = Latest
      BY <2>1, <2>5, <2>11
    <3>2. (Opening /\ InRound /\ Ending /\ AtManage)'
      BY <3>1 DEF Opening, InRound, Ending, AtManage, BeginsAtBoundary
    <3>3. RestoredRun(run.at)' = RestoredRun(run.at)
      BY <2>9 DEF RestoredRun, RestoredKeys
    <3>4. GoingBack'
      BY <1>1, <2>1, <2>9, <3>1, <3>3 DEF GoingBack
    <3>5. UNCHANGED J!jobVars
      BY <2>1, <3>1 DEF J!jobVars
    <3>. QED  BY <2>6, <2>7, <2>8, <3>1, <3>2, <3>4, <3>5 DEF GoodStep, IInv, NewTask
  <2>. QED  BY <2>10, <2>11
<1>. QED  BY <1>2, <1>3, <1>4

-----------------------------------------------------------------------------
(* The theorems.                                                           *)

LEMMA EveryStep == IInv /\ [Next]_vars => GoodStep
<1>1. ASSUME IInv, Next PROVE GoodStep
  <2>1. CASE LoopStep
    <3>1. CASE \E verdict \in Verdicts : VerifyDone(verdict) \/ Verify(verdict) \/ VerifyFinal(verdict)
      BY <1>1, <3>1, VerdictSteps
    <3>2. CASE FinalizerReports
      <4>1. "none" \in Verdicts
        BY DEF Verdicts
      <4>. QED  BY <1>1, <3>2, <4>1, VerdictSteps
    <3>3. CASE SavePlan \/ SaveBrainstorm \/ SaveRound
      BY <1>1, <3>3, SaveSteps
    <3>4. CASE Manage \/ RoundsSpent
      BY <1>1, <3>4, ManageSteps
    <3>5. CASE UnmarkOnResume \/ PutBack \/ Drop
      BY <1>1, <3>5, ReturnSteps
    <3>6. CASE PlanAnswered \/ BrainstormAnswered \/ ClearInflight
               \/ \E withNotes \in BOOLEAN : WorkerReports(withNotes)
      BY <1>1, <3>6, PhaseSteps
    <3>. QED  BY <2>1, <3>1, <3>2, <3>3, <3>4, <3>5, <3>6 DEF LoopStep
  <2>2. CASE ~LoopStep
    BY <1>1, <2>2, PhaseSteps, RunSteps DEF Next
  <2>. QED  BY <2>1, <2>2
<1>2. ASSUME IInv, UNCHANGED vars PROVE GoodStep
  <2>. UNCHANGED <<pc, checked, run, reason, status, tree, cps, notes, inflight>>
    BY <1>2 DEF vars
  <2>1. Latest' = Latest /\ CpsOK' /\ CheckpointsNumberRounds'
    BY <1>2, SameCheckpoints DEF IInv
  <2>2. TypeOK' /\ MarkerIsOfOpenRound' /\ Ending' /\ Unmarked'
    BY <1>2, <2>1 DEF IInv, TypeOK, MarkerIsOfOpenRound, Ending, Unmarked
  <2>3. (Opening /\ InRound /\ GoingBack /\ AtManage)'
    BY <1>2, <2>1 DEF IInv, Opening, InRound, GoingBack, AtManage, BeginsAtBoundary,
       RestoredRun, RestoredKeys
  <2>4. UNCHANGED J!jobVars
    BY <2>1 DEF J!jobVars
  <2>. QED  BY <2>1, <2>2, <2>3, <2>4 DEF GoodStep, IInv, NewTask
<1>. QED  BY <1>1, <1>2

LEMMA Start == Init => IInv /\ J!JobInit
<1>1. SUFFICES ASSUME Init PROVE IInv /\ J!JobInit
  OBVIOUS
<1>2. DOMAIN cps = {}
  BY <1>1 DEF Init
<1>3. Latest = 0
  BY <1>2 DEF Latest
<1>4. TypeOK
  BY <1>1, <1>2 DEF Init, TypeOK, NewRun, RunState, NoTasks, TaskList, Verdicts, Statuses, Idle
<1>5. CpsOK /\ CheckpointsNumberRounds /\ MarkerIsOfOpenRound
  BY <1>1, <1>2 DEF Init, CpsOK, CheckpointsNumberRounds, MarkerIsOfOpenRound
<1>6. Opening /\ InRound /\ Ending /\ GoingBack /\ Unmarked /\ AtManage
  BY <1>1 DEF Init, Opening, InRound, Ending, GoingBack, Unmarked, AtManage, BeginsAtBoundary
<1>7. J!JobInit
  BY <1>1, <1>3 DEF Init, J!JobInit
<1>. QED  BY <1>4, <1>5, <1>6, <1>7 DEF IInv

(* The invariant holds in every reachable state. *)
THEOREM Invariance == Spec => []IInv
<1>1. IInv /\ [Next]_vars => IInv'
  BY EveryStep DEF GoodStep
<1>. QED  BY <1>1, Start, PTL DEF Spec

(* Every reachable state of an orchestrate run and its ledger is typed.    *)
THEOREM TypeCorrect == Spec => []TypeOK
<1>1. IInv => TypeOK
  BY DEF IInv
<1>. QED  BY <1>1, Invariance, PTL

(* However often a job is stopped, resumed or taken back, a checkpoint's    *)
(* number tells its phase and how many rounds of the job's budget it has    *)
(* spent.                                                                   *)
THEOREM NumbersTellRounds == Spec => []CheckpointsNumberRounds
<1>1. IInv => CheckpointsNumberRounds
  BY DEF IInv
<1>. QED  BY <1>1, Invariance, PTL

(* A round always begins with memory and notes.md as the last checkpoint on *)
(* disk has them.                                                           *)
THEOREM RoundsBeginAtBoundary == Spec => []BeginsAtBoundary
<1>1. IInv => BeginsAtBoundary
  BY DEF IInv, AtManage
<1>. QED  BY <1>1, Invariance, PTL

(* inflight.json never names a round that already has its checkpoint.      *)
THEOREM MarkerTellsOpenRound == Spec => []MarkerIsOfOpenRound
<1>1. IInv => MarkerIsOfOpenRound
  BY DEF IInv
<1>. QED  BY <1>1, Invariance, PTL

(* No task is handed to a worker twice in a row, resumes included.         *)
THEOREM NoTaskTwice == Spec => NeverTwiceInARow
<1>1. IInv /\ [Next]_vars => [(pc # "execute" /\ pc' = "execute")
                                 => run'.lastKey # cps[Latest].lastKey]_vars
  BY EveryStep DEF GoodStep, NewTask
<1>. QED  BY <1>1, Invariance, PTL DEF Spec, NeverTwiceInARow

(* Every step of the loop is a step of what orchestrate promises, or none   *)
(* of it: boundaries one at a time, an end that says what happened.         *)
THEOREM LoopIsJob == Spec => J!JobInit /\ [][J!JobNext]_(J!jobVars)
<1>1. IInv /\ [Next]_vars => [J!JobNext]_(J!jobVars)
  BY EveryStep DEF GoodStep
<1>. QED  BY <1>1, Start, Invariance, PTL DEF Spec
=============================================================================
