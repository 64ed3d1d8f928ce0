------------------------------ MODULE ScreenProofs ------------------------------
(***************************************************************************)
(* With one message queued at a time and nothing typed in the gaps where   *)
(* flags and tasks disagree, no message is lost, Esc reaches whatever      *)
(* runs, and a prompt can always be answered: for any number of messages,  *)
(* compactions, panels and rewinds.                                        *)
(***************************************************************************)
EXTENDS Screen, SequenceTheorems, FiniteSetTheorems, TLAPS

-----------------------------------------------------------------------------
(* The inductive invariant. *)

(* No turn runs, is to begin, or is being stopped. *)
Quiet == ~busy /\ ~asked /\ escs = {}

AllOver == \A t \in Tasks : at[t] = "none"

OneTask == \A t, u \in Tasks : (at[t] # "none" /\ at[u] # "none") => t = u

(* What the flags say of a task, at each place it can stand. *)
Flags ==
    \A t \in Tasks :
        /\ at[t] = "created" => task = t /\ Quiet
        /\ InFlight(t) => task = t /\ busy /\ (asked <=> t \in cancelled)
        /\ at[t] = "ending" => ~busy /\ ~asked
        /\ at[t] \in {"draining", "mounting"} => Quiet /\ Len(rest[t]) = 1
        /\ t # Compaction /\ at[t] \notin {"draining", "mounting"} => rest[t] = <<>>
        /\ t = Compaction => at[t] \in {"none", "created", "running"}

(* One worker at most, and on the one task; with its task over, the flags  *)
(* an early stop left standing are the worker's to take down.              *)
Workers ==
    /\ \A w, v \in escs : w = v
    /\ \A w \in escs :
        /\ w.at = "cancelling" =>
              w.on \in Tasks /\ \A t \in Tasks : at[t] # "none" => t = w.on /\ t \in cancelled
        /\ w.at # "cancelling" => AllOver
        /\ w.at = "clearing" => ~busy
    /\ \A t \in cancelled : at[t] # "none"
    /\ cancelled # {} => escs # {}
    /\ asked => escs # {}
    /\ busy => asked \/ \E t \in Tasks : InFlight(t)

(* A message or a /compact whose bubble is being mounted finds nothing     *)
(* under way.                                                              *)
Mounting ==
    /\ pump.does \in {"message", "compact"} => Quiet /\ AllOver
    /\ pump.does = "message" => pump.msg \in Messages

(* The panel with the keyboard is there, and only a live turn asks. *)
Bottoms ==
    /\ current = "input" <=> panels = {}
    /\ current # "input" => current \in panels
    /\ pending # "none" => \E t \in Messages : at[t] = "running" /\ t \notin cancelled

OneQueued == Len(queue) <= 1

IInv == TypeOK /\ OneQueued /\ NothingLost /\ OneTask /\ Flags /\ Workers /\ Mounting /\ Bottoms

(* What is in a queue after an append. *)
LEMMA AppendSet ==
    ASSUME NEW S, NEW q \in Seq(S), NEW x \in S
    PROVE  ToSet(Append(q, x)) = ToSet(q) \union {x}
<1>1. /\ Len(q) \in Nat /\ DOMAIN q = 1..Len(q) /\ DOMAIN Append(q, x) = 1..(Len(q) + 1)
      /\ \A i \in 1..Len(q) : Append(q, x)[i] = q[i]
      /\ Append(q, x)[Len(q) + 1] = x
  OBVIOUS
<1>2. \A i \in 1..(Len(q) + 1) : i \in 1..Len(q) \/ i = Len(q) + 1
  BY <1>1
<1>3. Len(q) + 1 \in 1..(Len(q) + 1) /\ \A i \in 1..Len(q) : i \in 1..(Len(q) + 1)
  BY <1>1
<1> QED
  BY <1>1, <1>2, <1>3 DEF ToSet

(* A queue of one holds its head, and nothing is left without it. *)
LEMMA OneInQueue ==
    ASSUME NEW S, NEW q \in Seq(S), Len(q) = 1
    PROVE  ToSet(q) = {Head(q)} /\ Head(q) \in S /\ Tail(q) = <<>>
<1>1. DOMAIN q = 1..1 /\ Head(q) = q[1] /\ q[1] \in S
  OBVIOUS
<1>2. ToSet(q) = {q[1]}
  BY <1>1 DEF ToSet
<1>3. Tail(q) = <<>>
  <2>1. Tail(q) \in Seq(S) /\ Len(Tail(q)) = 0
    OBVIOUS
  <2> QED
    BY <2>1, EmptySeq
<1> QED
  BY <1>1, <1>2, <1>3

(* The arithmetic of a queue that is not empty. *)
LEMMA OneLeft == ASSUME NEW n \in Nat, n # 0, n <= 1 PROVE n = 1
  OBVIOUS

(* A turn is a task of its own. *)
LEMMA TaskNames ==
    /\ Compaction \in Tasks /\ Compaction # NoTask
    /\ \A m \in Messages : m \in Tasks /\ m # Compaction /\ m # NoTask /\ m \in 0..MaxTyped
    /\ 0 \in 0..MaxTyped
  BY ScreenAssumption DEF ScreenAssumption, Messages, Compaction, Tasks, NoTask

(* What holds of the tasks stays when no task moves. *)
LEMMA AgentAside ==
    ASSUME IInv, UNCHANGED agentVars
    PROVE  OneTask' /\ Flags' /\ Workers'
  BY DEF IInv, OneTask, Flags, Workers, InFlight, Quiet, AllOver, agentVars

-----------------------------------------------------------------------------
(* Every step keeps the invariant. *)

(* A message joins the queue of a running turn. *)
LEMMA QueueStep ==
    ASSUME Races = {}, IInv, Queue
    PROVE  IInv'
<1>1. TypeOK'
  <2>1. typed' = typed + 1 /\ typed' \in Messages /\ typed' \in 0..MaxTyped
    BY ScreenAssumption DEF IInv, TypeOK, ScreenAssumption, Queue, Messages
  <2>2. queue' \in Seq(Messages) /\ ToSet(queue') = ToSet(queue) \union {typed'}
    <3>1. queue \in Seq(Messages) /\ queue' = Append(queue, typed')
      BY DEF IInv, TypeOK, Queue
    <3> QED
      BY <2>1, <3>1, AppendSet
  <2>3. /\ place' = [place EXCEPT ![typed'] = "queue"]
        /\ UNCHANGED <<pump, steer, agentVars, panelVars, others>>
    BY DEF Queue
  <2>4. place' \in
          [Messages -> {"none", "mounting", "queue", "turn", "given", "stopped", "dropped"}]
    BY <2>1, <2>3 DEF IInv, TypeOK
  <2>5. ASSUME NEW m \in Messages, place'[m] = "queue"
        PROVE  m \in ToSet(queue') \/ \E u \in Messages : m \in ToSet(rest'[u])
    BY <2>1, <2>2, <2>3, <2>5 DEF IInv, TypeOK, agentVars
  <2> QED
    BY <2>1, <2>2, <2>3, <2>4, <2>5 DEF IInv, TypeOK, agentVars, panelVars
<1>2. OneQueued' /\ NothingLost'
  BY DEF IInv, OneQueued, NothingLost, Queue, Count, NoGap, Settled, InputShown, agentVars,
     panelVars
<1>3. OneTask' /\ Flags' /\ Workers'
  BY AgentAside DEF Queue
<1>4. Mounting'
  BY DEF IInv, Mounting, Quiet, AllOver, Queue, Count, NoGap, Settled, InputShown, agentVars,
     panelVars
<1>5. Bottoms'
  BY DEF IInv, Bottoms, Queue, Count, NoGap, Settled, InputShown, agentVars, panelVars
<1> QED
  BY <1>1, <1>2, <1>3, <1>4, <1>5 DEF IInv

(* A message typed when nothing is under way. *)
LEMMA SubmitStep ==
    ASSUME Races = {}, IInv, Submit
    PROVE  IInv'
<1>1. TypeOK'
  <2>1. typed' = typed + 1 /\ typed' \in Messages /\ typed' \in 0..MaxTyped
    BY ScreenAssumption DEF IInv, TypeOK, ScreenAssumption, Submit, Messages
  <2>2. /\ place' = [place EXCEPT ![typed'] = "mounting"]
        /\ pump' = [does |-> "message", msg |-> typed']
        /\ steer' = FALSE /\ UNCHANGED <<queue, agentVars, panelVars, others>>
    BY DEF Submit
  <2>3. place' \in
          [Messages -> {"none", "mounting", "queue", "turn", "given", "stopped", "dropped"}]
    BY <2>1, <2>2 DEF IInv, TypeOK
  <2>4. ASSUME NEW m \in Messages, place'[m] = "queue"
        PROVE  m \in ToSet(queue') \/ \E u \in Messages : m \in ToSet(rest'[u])
    BY <2>1, <2>2, <2>4 DEF IInv, TypeOK, agentVars
  <2> QED
    BY <2>1, <2>2, <2>3, <2>4 DEF IInv, TypeOK, agentVars, panelVars
<1>2. OneQueued' /\ NothingLost'
  BY DEF IInv, OneQueued, NothingLost, Submit, NoGap, Settled, InputShown, agentVars, panelVars
<1>3. OneTask' /\ Flags' /\ Workers'
  BY AgentAside DEF Submit
<1>4. Mounting'
  BY ScreenAssumption DEF IInv, Mounting, Quiet, AllOver, Idle, TypeOK, Flags, Workers, InFlight,
     Messages, Tasks, ScreenAssumption, Submit, NoGap, Settled, InputShown, agentVars, panelVars
<1>5. Bottoms'
  BY DEF IInv, Bottoms, Submit, NoGap, Settled, InputShown, agentVars, panelVars
<1> QED
  BY <1>1, <1>2, <1>3, <1>4, <1>5 DEF IInv

(* Its bubble is there: nothing has begun meanwhile, so its turn is created. *)
LEMMA SubmitMountedStep ==
    ASSUME IInv, SubmitMounted
    PROVE  IInv'
<1>1. TypeOK'
  <2>1. pump.msg \in Messages /\ pump.msg \in Tasks
    BY DEF IInv, Mounting, SubmitMounted, Tasks
  <2>2. /\ place' \in
             [Messages -> {"none", "mounting", "queue", "turn", "given", "stopped", "dropped"}]
        /\ \A m \in Messages : place'[m] = "queue" => place[m] = "queue"
    BY <2>1 DEF IInv, TypeOK, SubmitMounted, StartTurn
  <2>3. task' \in Tasks \union {NoTask}
    BY <2>1 DEF IInv, TypeOK, SubmitMounted, StartTurn
  <2>4. at' \in
          [Tasks -> {"none", "created", "starting", "running", "ending", "draining", "mounting"}]
    BY <2>1 DEF IInv, TypeOK, SubmitMounted
  <2>5. pump' \in [does : {"nothing", "message", "compact", "panel", "rewind"}, msg : 0..MaxTyped]
    BY ScreenAssumption DEF SubmitMounted, Idle, ScreenAssumption
  <2>6. UNCHANGED <<typed, queue, steer, busy, asked, rest, cancelled, escs, panelVars, others>>
    BY DEF SubmitMounted
  <2> QED
    BY <2>2, <2>3, <2>4, <2>5, <2>6 DEF IInv, TypeOK, panelVars
<1>2. OneQueued' /\ NothingLost'
  BY TaskNames DEF IInv, OneQueued, NothingLost, TypeOK, Mounting, Quiet, SubmitMounted,
     StartTurn, panelVars
<1>3. OneTask'
  BY TaskNames DEF IInv, OneTask, TypeOK, Mounting, AllOver, SubmitMounted, StartTurn, panelVars
<1>4. Flags'
  BY TaskNames DEF IInv, OneTask, Flags, InFlight, Quiet, TypeOK, Mounting, AllOver,
     SubmitMounted, StartTurn, panelVars
<1>5. Workers'
  BY TaskNames DEF IInv, Workers, OneTask, Flags, AllOver, InFlight, Quiet, TypeOK, Mounting,
     SubmitMounted, StartTurn, panelVars
<1>6. Mounting'
  BY DEF IInv, Mounting, Quiet, AllOver, Idle, SubmitMounted, StartTurn, panelVars
<1>7. Bottoms'
  BY TaskNames DEF IInv, Bottoms, Prompts, TypeOK, Flags, OneTask, InFlight, SubmitMounted,
     StartTurn, panelVars
<1> QED
  BY <1>1, <1>2, <1>3, <1>4, <1>5, <1>6, <1>7 DEF IInv

(* The flags rise with the task. *)
LEMMA TurnStartsStep ==
    ASSUME IInv, NEW t \in Tasks, TurnStarts(t)
    PROVE  IInv'
<1>1. TypeOK'
  BY DEF IInv, TypeOK, TurnStarts, inputVars, panelVars
<1>2. OneQueued' /\ NothingLost'
  BY DEF IInv, OneQueued, NothingLost, TurnStarts, inputVars
<1>3. OneTask'
  BY DEF IInv, OneTask, TurnStarts, inputVars, panelVars
<1>4. Flags'
  BY TaskNames DEF IInv, OneTask, Flags, InFlight, Quiet, TypeOK, TurnStarts, inputVars, panelVars
<1>5. Workers'
  BY TaskNames DEF IInv, Workers, OneTask, AllOver, InFlight, TypeOK, TurnStarts, inputVars,
     panelVars
<1>6. Mounting'
  BY DEF IInv, Mounting, Quiet, AllOver, TurnStarts, inputVars, panelVars
<1>7. Bottoms'
  BY DEF IInv, Bottoms, TurnStarts, inputVars, panelVars
<1> QED
  BY <1>1, <1>2, <1>3, <1>4, <1>5, <1>6, <1>7 DEF IInv

(* act() takes the prompt. *)
LEMMA TurnActsStep ==
    ASSUME IInv, NEW t \in Messages, TurnActs(t)
    PROVE  IInv'
<1>1. TypeOK'
  BY DEF IInv, TypeOK, TurnActs, panelVars
<1>2. OneQueued' /\ NothingLost'
  BY DEF IInv, OneQueued, NothingLost, TurnActs, panelVars
<1>3. OneTask'
  BY DEF IInv, OneTask, TurnActs, panelVars
<1>4. Flags'
  BY DEF IInv, Flags, InFlight, Quiet, TurnActs, panelVars
<1>5. Workers'
  BY DEF IInv, Workers, AllOver, InFlight, TurnActs, panelVars
<1>6. Mounting'
  BY DEF IInv, Mounting, Quiet, AllOver, TurnActs, panelVars
<1>7. Bottoms'
  BY DEF IInv, Bottoms, TurnActs, panelVars
<1> QED
  BY <1>1, <1>2, <1>3, <1>4, <1>5, <1>6, <1>7 DEF IInv

(* A closed batch takes the queue. *)
LEMMA BatchEndsStep ==
    ASSUME IInv, NEW t \in Messages, BatchEnds(t)
    PROVE  IInv'
<1>1. TypeOK'
  BY DEF IInv, TypeOK, BatchEnds, GiveQueued, agentVars, panelVars
<1>2. OneQueued' /\ NothingLost'
  BY DEF IInv, OneQueued, NothingLost, BatchEnds, GiveQueued, agentVars, panelVars
<1>3. OneTask' /\ Flags' /\ Workers'
  BY AgentAside DEF BatchEnds
<1>4. Mounting'
  BY DEF IInv, Mounting, Quiet, AllOver, BatchEnds, GiveQueued, agentVars, panelVars
<1>5. Bottoms'
  BY DEF IInv, Bottoms, BatchEnds, GiveQueued, agentVars, panelVars
<1> QED
  BY <1>1, <1>2, <1>3, <1>4, <1>5 DEF IInv

(* The flags fall before the task is over. *)
LEMMA TurnEndsStep ==
    ASSUME IInv, NEW t \in Messages, TurnEnds(t)
    PROVE  IInv'
<1>1. TypeOK'
  BY DEF IInv, TypeOK, TurnEnds, FlagsFall, inputVars, panelVars
<1>2. OneQueued' /\ NothingLost'
  BY DEF IInv, OneQueued, NothingLost, TurnEnds, inputVars
<1>3. OneTask'
  BY DEF IInv, OneTask, TurnEnds, FlagsFall, inputVars, panelVars
<1>4. Flags'
  BY TaskNames DEF IInv, OneTask, Flags, InFlight, Quiet, TypeOK, TurnEnds, FlagsFall, inputVars,
     panelVars
<1>5. Workers'
  BY DEF IInv, Workers, AllOver, InFlight, TurnEnds, FlagsFall, inputVars, panelVars
<1>6. Mounting'
  BY DEF IInv, Mounting, Quiet, AllOver, TurnEnds, FlagsFall, inputVars, panelVars
<1>7. Bottoms'
  BY DEF IInv, Bottoms, TurnEnds, FlagsFall, inputVars, panelVars
<1> QED
  BY <1>1, <1>2, <1>3, <1>4, <1>5, <1>6, <1>7 DEF IInv

(* A task cancelled before its try block leaves the flags to the worker. *)
LEMMA StoppedEarlyStep ==
    ASSUME IInv, NEW t \in Tasks, StoppedEarly(t)
    PROVE  IInv'
<1>1. TypeOK'
  BY DEF IInv, TypeOK, StoppedEarly, panelVars
<1>2. OneQueued' /\ NothingLost'
  BY DEF IInv, OneQueued, NothingLost, StoppedEarly, panelVars
<1>3. OneTask'
  BY DEF IInv, OneTask, StoppedEarly, panelVars
<1>4. Flags'
  BY TaskNames DEF IInv, OneTask, Flags, InFlight, Quiet, TypeOK, StoppedEarly, panelVars
<1>5. Workers'
  <2>1. /\ t \in cancelled /\ at[t] # "none" /\ at' = [at EXCEPT ![t] = "none"]
        /\ cancelled' = cancelled \ {t}
        /\ UNCHANGED <<busy, asked, task, escs>>
    BY DEF StoppedEarly
  <2>2. \A u \in Tasks : at'[u] = "none"
    BY <2>1 DEF IInv, OneTask, TypeOK
  <2>3. cancelled' = {}
    BY <2>1 DEF IInv, Workers, OneTask, TypeOK
  <2>4. asked
    <3>1. escs # {} /\ at[t] \in {"created", "starting"}
      BY <2>1 DEF IInv, Workers, StoppedEarly
    <3>2. InFlight(t)
      BY <3>1 DEF IInv, Flags, Quiet, InFlight
    <3>3. PICK w \in escs : TRUE
      BY <3>1
    <3> QED
      BY <2>1, <3>1, <3>2, <3>3 DEF IInv, Workers, Flags
  <2> QED
    BY <2>1, <2>2, <2>3, <2>4 DEF IInv, Workers, AllOver
<1>6. Mounting'
  BY DEF IInv, Mounting, Quiet, AllOver, StoppedEarly, panelVars
<1>7. Bottoms'
  BY DEF IInv, Bottoms, StoppedEarly, panelVars
<1> QED
  BY <1>1, <1>2, <1>3, <1>4, <1>5, <1>6, <1>7 DEF IInv

(* What it does. *)
LEMMA TurnOverDoes ==
    ASSUME IInv, NEW t \in Messages, TurnOver(t)
    PROVE  /\ t \in Tasks /\ t # Compaction /\ at[t] = "ending"
           /\ \A u \in Tasks : u # t => at[u] = "none" /\ at'[u] = "none"
           /\ \/ /\ at' = [at EXCEPT ![t] = "none"] /\ cancelled' = cancelled \ {t}
                 /\ UNCHANGED <<queue, rest>>
              \/ /\ at' = [at EXCEPT ![t] = "draining"] /\ rest' = [rest EXCEPT ![t] = queue]
                 /\ queue' = <<>>
                 /\ cancelled' = cancelled /\ t \notin cancelled /\ queue # <<>>
           /\ UNCHANGED <<typed, place, pump, steer, busy, asked, task, escs, panelVars, others>>
<1>1. t \in Tasks /\ t # Compaction /\ at[t] = "ending"
  BY ScreenAssumption DEF TurnOver, Tasks, Messages, Compaction, ScreenAssumption
<1>2. \/ /\ at' = [at EXCEPT ![t] = "none"] /\ cancelled' = cancelled \ {t}
         /\ UNCHANGED <<queue, rest>>
      \/ /\ at' = [at EXCEPT ![t] = "draining"] /\ rest' = [rest EXCEPT ![t] = queue]
         /\ queue' = <<>>
         /\ cancelled' = cancelled /\ t \notin cancelled /\ queue # <<>>
  BY DEF TurnOver, Drained
<1>3. UNCHANGED <<typed, place, pump, steer, busy, asked, task, escs, panelVars, others>>
  BY DEF TurnOver
<1>4. \A u \in Tasks : u # t => at[u] = "none"
  BY <1>1 DEF IInv, OneTask
<1>5. \A u \in Tasks : u # t => at'[u] = "none"
  BY <1>1, <1>2, <1>4 DEF IInv, TypeOK
<1> QED
  BY <1>1, <1>2, <1>3, <1>4, <1>5

(* A turn that was not cancelled takes what is queued along. *)
LEMMA TurnOverStep ==
    ASSUME IInv, NEW t \in Messages, TurnOver(t)
    PROVE  IInv'
<1>1. /\ t \in Tasks /\ t # Compaction /\ at[t] = "ending"
      /\ \A u \in Tasks : u # t => at[u] = "none" /\ at'[u] = "none"
  BY TurnOverDoes
<1>2. \/ /\ at' = [at EXCEPT ![t] = "none"] /\ cancelled' = cancelled \ {t}
         /\ UNCHANGED <<queue, rest>>
      \/ /\ at' = [at EXCEPT ![t] = "draining"] /\ rest' = [rest EXCEPT ![t] = queue]
         /\ queue' = <<>>
         /\ cancelled' = cancelled /\ t \notin cancelled /\ queue # <<>>
  BY TurnOverDoes
<1>3. UNCHANGED <<typed, place, pump, steer, busy, asked, task, escs, panelVars, others>>
  BY TurnOverDoes
<1>4. TypeOK'
  <2>1. queue \in Seq(Messages) /\ rest \in [Messages -> Seq(Messages)] /\ cancelled \subseteq Tasks
    BY DEF IInv, TypeOK
  <2>2. queue' \in Seq(Messages)
    BY <1>2, <2>1, EmptySeq
  <2>3. at' \in
          [Tasks -> {"none", "created", "starting", "running", "ending", "draining", "mounting"}]
    BY <1>1, <1>2 DEF IInv, TypeOK
  <2>4. rest' \in [Messages -> Seq(Messages)]
    BY <1>2, <2>1
  <2>5. cancelled' \subseteq Tasks
    BY <1>2, <2>1
  <2>6. ASSUME NEW m \in Messages, place'[m] = "queue"
        PROVE  m \in ToSet(queue') \/ \E u \in Messages : m \in ToSet(rest'[u])
    <3>1. rest[t] = <<>> /\ ToSet(<<>>) = {}
      BY <1>1 DEF IInv, Flags, ToSet
    <3>2. m \in ToSet(queue) \/ \E u \in Messages : m \in ToSet(rest[u])
      BY <1>3, <2>6 DEF IInv, TypeOK
    <3>3. CASE \E u \in Messages : m \in ToSet(rest[u])
      <4>1. PICK u \in Messages : m \in ToSet(rest[u])
        BY <3>3
      <4>2. u # t /\ rest'[u] = rest[u]
        BY <1>2, <2>1, <3>1, <4>1
      <4> QED
        BY <4>1, <4>2
    <3>4. CASE m \in ToSet(queue)
      BY <1>2, <2>1, <3>4
    <3> QED
      BY <3>2, <3>3, <3>4
  <2> QED
    BY <1>3, <2>2, <2>3, <2>4, <2>5, <2>6 DEF IInv, TypeOK, panelVars
<1>5. OneQueued' /\ NothingLost'
  BY <1>2, <1>3 DEF IInv, OneQueued, NothingLost
<1>6. OneTask'
  BY <1>1 DEF OneTask
<1>7. Flags'
  <2>1. \A u \in Tasks : u # t /\ u # Compaction => u \in Messages /\ rest[u] = <<>>
    BY <1>1 DEF IInv, Flags, Tasks
  <2>2. rest \in [Messages -> Seq(Messages)] /\ at = [u \in Tasks |-> at[u]]
    BY DEF IInv, TypeOK
  <2>3. CASE at'[t] = "none"
    <3>1. \A u \in Tasks : at'[u] = "none"
      BY <1>1, <2>3
    <3>2. rest' = rest
      BY <1>1, <1>2, <2>2, <2>3
    <3>3. \A u \in Tasks : u # Compaction => rest[u] = <<>>
      BY <1>1, <2>1 DEF IInv, Flags
    <3> QED
      BY <3>1, <3>2, <3>3 DEF Flags, InFlight
  <2>4. CASE at'[t] = "draining"
    <3>1. rest' = [rest EXCEPT ![t] = queue] /\ t \notin cancelled /\ queue # <<>>
      BY <1>1, <1>2, <2>2, <2>4
    <3>2. rest'[t] = queue /\ Len(queue) = 1
      <4>1. Len(queue) \in Nat /\ Len(queue) # 0
        BY <3>1, EmptySeq DEF IInv, TypeOK
      <4>2. Len(queue) <= 1
        BY DEF IInv, OneQueued
      <4>3. rest'[t] = queue
        BY <2>2, <3>1
      <4> QED
        BY <4>1, <4>2, <4>3, OneLeft
    <3>3. Quiet'
      <4>1. ~busy /\ ~asked
        BY <1>1 DEF IInv, Flags
      <4>2. escs = {}
        <5>1. \A w \in escs : w.at = "cancelling" => t \in cancelled
          BY <1>1 DEF IInv, Workers
        <5>2. \A w \in escs : w.at = "cancelling"
          BY <1>1 DEF IInv, Workers, AllOver
        <5> QED
          BY <3>1, <5>1, <5>2
      <4> QED
        BY <1>3, <4>1, <4>2 DEF Quiet
    <3>4. \A u \in Tasks : u # t /\ u # Compaction => rest'[u] = <<>>
      BY <2>1, <2>2, <3>1
    <3> QED
      BY <1>1, <2>4, <3>2, <3>3, <3>4 DEF Flags, InFlight
  <2> QED
    BY <1>1, <1>2, <2>2, <2>3, <2>4
<1>8. Workers'
  <2>1. \A w \in escs : w.at = "cancelling" /\ t \in cancelled
    BY <1>1 DEF IInv, Workers, AllOver
  <2>2. ~busy /\ ~asked
    BY <1>1 DEF IInv, Flags
  <2>3. \A u \in cancelled' : at'[u] # "none"
    BY <1>1, <1>2 DEF IInv, Workers, TypeOK
  <2>4. cancelled' \subseteq cancelled /\ (at'[t] # "none" => cancelled' = cancelled)
    BY <1>1, <1>2 DEF IInv, TypeOK
  <2>5. \A w \in escs :
           w.on \in Tasks /\ \A u \in Tasks : at'[u] # "none" => u = w.on /\ u \in cancelled'
    BY <1>1, <2>1, <2>4 DEF IInv, Workers
  <2> QED
    BY <1>3, <2>1, <2>2, <2>3, <2>4, <2>5 DEF IInv, Workers
<1>9. Mounting'
  <2>1. pump.does \notin {"message", "compact"}
    BY <1>1 DEF IInv, Mounting, AllOver
  <2> QED
    BY <1>3, <2>1 DEF Mounting
<1>10. Bottoms'
  <2>1. pending = "none"
    BY <1>1 DEF IInv, Bottoms, Tasks
  <2> QED
    BY <1>3, <2>1 DEF IInv, Bottoms, panelVars
<1> QED
  BY <1>4, <1>5, <1>6, <1>7, <1>8, <1>9, <1>10 DEF IInv

(* The drained message is shown. *)
LEMMA SubmitDrainedStep ==
    ASSUME IInv, NEW t \in Messages, SubmitDrained(t)
    PROVE  IInv'
<1>1. TypeOK'
  BY DEF IInv, TypeOK, SubmitDrained, panelVars
<1>2. OneQueued' /\ NothingLost'
  BY DEF IInv, OneQueued, NothingLost, SubmitDrained, panelVars
<1>3. OneTask'
  BY DEF IInv, OneTask, SubmitDrained, panelVars
<1>4. Flags'
  BY DEF IInv, Flags, InFlight, Quiet, SubmitDrained, panelVars
<1>5. Workers'
  BY DEF IInv, Workers, AllOver, InFlight, SubmitDrained, panelVars
<1>6. Mounting'
  BY DEF IInv, Mounting, Quiet, AllOver, SubmitDrained, panelVars
<1>7. Bottoms'
  BY DEF IInv, Bottoms, SubmitDrained, panelVars
<1> QED
  BY <1>1, <1>2, <1>3, <1>4, <1>5, <1>6, <1>7 DEF IInv

(* What it does: the one drained message has its turn, and this task ends. *)
LEMMA DrainedMountedDoes ==
    ASSUME IInv, NEW t \in Messages, DrainedMounted(t)
    PROVE  /\ t \in Tasks /\ t # Compaction /\ at[t] = "mounting" /\ Quiet
           /\ \A u \in Tasks : u # t => at[u] = "none"
           /\ rest[t] = <<Head(rest[t])>> /\ Head(rest[t]) \in Messages
           /\ ToSet(rest[t]) = {Head(rest[t])}
           /\ place' = [place EXCEPT ![Head(rest[t])] = "turn"] /\ task' = Head(rest[t])
           /\ rest' = [rest EXCEPT ![t] = <<>>]
           /\ at' \in [Tasks -> {"none", "created"}]
           /\ \A u \in Tasks : at'[u] # "none" => u = Head(rest[t])
           /\ UNCHANGED <<typed, queue, pump, steer, busy, asked, cancelled, escs,
                          panelVars, others>>
<1> DEFINE m == Head(rest[t])
<1>1. /\ t \in Tasks /\ t # Compaction /\ at[t] = "mounting" /\ Quiet
      /\ \A u \in Tasks : u # t => at[u] = "none"
      /\ rest \in [Messages -> Seq(Messages)]
  <2>1. t \in Tasks /\ t # Compaction /\ at[t] = "mounting"
    BY ScreenAssumption DEF DrainedMounted, Tasks, Messages, Compaction, ScreenAssumption
  <2>2. Quiet /\ rest \in [Messages -> Seq(Messages)]
    BY <2>1 DEF IInv, Flags, TypeOK
  <2> QED
    BY <2>1, <2>2 DEF IInv, OneTask
<1>2. Len(rest[t]) = 1 /\ rest[t] \in Seq(Messages)
  BY <1>1 DEF IInv, Flags
<1>3. m \in Messages /\ ToSet(rest[t]) = {m} /\ Tail(rest[t]) = <<>>
  BY <1>2, OneInQueue
<1>4. rest[t] = <<m>>
  BY <1>2
<1> HIDE DEF m
<1>5. /\ StartTurn(m) /\ rest' = [rest EXCEPT ![t] = Tail(@)]
      /\ at' = [u \in Tasks |-> CASE u = t -> IF Len(rest[t]) = 1 THEN "none" ELSE "draining"
                                  [] u = m /\ ~busy -> "created"
                                  [] OTHER -> at[u]]
      /\ UNCHANGED <<typed, queue, pump, steer, busy, asked, cancelled, escs, panelVars, others>>
  BY DEF DrainedMounted, m
<1>6. ~busy
  BY <1>1 DEF Quiet
<1>7. place' = [place EXCEPT ![m] = "turn"] /\ task' = m
  BY <1>5, <1>6 DEF StartTurn
<1>8. rest' = [rest EXCEPT ![t] = <<>>]
  BY <1>1, <1>3, <1>5
<1>9. \A u \in Tasks : at'[u] \in {"none", "created"} /\ (at'[u] # "none" => u = m)
  BY <1>1, <1>2, <1>5, <1>6
<1>10. at' = [u \in Tasks |-> at'[u]]
  BY <1>5
<1> QED
  BY <1>1, <1>3, <1>4, <1>5, <1>7, <1>8, <1>9, <1>10 DEF m

(* Nothing runs meanwhile: the drained message gets the next turn. *)
LEMMA DrainedMountedStep ==
    ASSUME IInv, NEW t \in Messages, DrainedMounted(t)
    PROVE  IInv'
<1> DEFINE m == Head(rest[t])
<1>1. /\ t \in Tasks /\ at[t] = "mounting" /\ Quiet /\ m \in Messages
      /\ \A u \in Tasks : u # t => at[u] = "none"
      /\ ToSet(rest[t]) = {m}
      /\ place' = [place EXCEPT ![m] = "turn"] /\ task' = m
      /\ rest' = [rest EXCEPT ![t] = <<>>]
      /\ at' \in [Tasks -> {"none", "created"}]
      /\ \A u \in Tasks : at'[u] # "none" => u = m
  BY DrainedMountedDoes
<1>2. UNCHANGED <<typed, queue, pump, steer, busy, asked, cancelled, escs, panelVars, others>>
  BY DrainedMountedDoes
<1> HIDE DEF m
<1>3. TypeOK'
  <2>1. /\ \A x \in Messages : place'[x] = "queue" => place[x] = "queue" /\ x # m
        /\ place' \in
             [Messages -> {"none", "mounting", "queue", "turn", "given", "stopped", "dropped"}]
    BY <1>1 DEF IInv, TypeOK
  <2>2. rest \in [Messages -> Seq(Messages)]
    BY DEF IInv, TypeOK
  <2>3. rest' \in [Messages -> Seq(Messages)] /\ task' \in Tasks
    BY <1>1, <2>2, EmptySeq DEF Tasks
  <2>4. ASSUME NEW x \in Messages, place'[x] = "queue"
        PROVE  x \in ToSet(queue') \/ \E u \in Messages : x \in ToSet(rest'[u])
    <3>1. x \in ToSet(queue) \/ \E u \in Messages : x \in ToSet(rest[u])
      BY <2>1, <2>4 DEF IInv, TypeOK
    <3>2. ASSUME NEW u \in Messages, x \in ToSet(rest[u]) PROVE u # t /\ rest'[u] = rest[u]
      BY <1>1, <2>1, <2>2, <2>4, <3>2
    <3> QED
      BY <1>2, <3>1, <3>2
  <2>5. at' \in
          [Tasks -> {"none", "created", "starting", "running", "ending", "draining", "mounting"}]
    BY <1>1
  <2> QED
    BY <1>2, <2>1, <2>3, <2>4, <2>5 DEF IInv, TypeOK, panelVars
<1>4. OneQueued' /\ NothingLost'
  BY <1>1, <1>2 DEF IInv, OneQueued, NothingLost, TypeOK
<1>5. OneTask'
  BY <1>1 DEF OneTask
<1>6. Flags'
  <2>1. Quiet'
    BY <1>1, <1>2 DEF Quiet
  <2>2. ASSUME NEW u \in Tasks, u # Compaction PROVE rest'[u] = <<>>
    <3>1. u \in Messages
      BY <2>2 DEF Tasks
    <3>2. u # t => rest[u] = <<>>
      BY <1>1, <2>2 DEF IInv, Flags
    <3>3. rest \in [Messages -> Seq(Messages)]
      BY DEF IInv, TypeOK
    <3> QED
      BY <1>1, <3>1, <3>2, <3>3
  <2>3. \A u \in Tasks : at'[u] = "created" => task' = u
    BY <1>1
  <2>4. \A u \in Tasks : at'[u] \in {"none", "created"}
    BY <1>1
  <2> QED
    BY <2>1, <2>2, <2>3, <2>4 DEF Flags, InFlight
<1>7. Workers'
  <2>1. t \notin cancelled /\ cancelled = {}
    BY <1>1 DEF IInv, Workers, Quiet
  <2> QED
    BY <1>1, <1>2, <2>1 DEF Workers, Quiet
<1>8. Mounting'
  <2>1. pump.does \notin {"message", "compact"}
    BY <1>1 DEF IInv, Mounting, AllOver
  <2> QED
    BY <1>2, <2>1 DEF Mounting
<1>9. Bottoms'
  <2>1. pending = "none"
    BY <1>1 DEF IInv, Bottoms, Tasks
  <2> QED
    BY <1>2, <2>1 DEF IInv, Bottoms, panelVars
<1> QED
  BY <1>3, <1>4, <1>5, <1>6, <1>7, <1>8, <1>9 DEF IInv

(* /compact. *)
LEMMA CompactStep ==
    ASSUME Races = {}, IInv, Compact
    PROVE  IInv'
<1>1. TypeOK'
  BY ScreenAssumption DEF IInv, TypeOK, ScreenAssumption, Idle, Bottom, Compact, Count, agentVars,
     panelVars
<1>2. OneQueued' /\ NothingLost'
  BY DEF IInv, OneQueued, NothingLost, Compact, inputVars
<1>3. OneTask' /\ Flags' /\ Workers'
  BY AgentAside DEF Compact
<1>4. Mounting'
  BY TaskNames DEF IInv, Mounting, Quiet, AllOver, Idle, TypeOK, Flags, Workers, InFlight, Tasks,
     Compact, Count, MayCompact, NoGap, Settled, InputShown, agentVars, panelVars
<1>5. Bottoms'
  BY DEF IInv, Bottoms, Compact, Count, MayCompact, NoGap, Settled, InputShown, agentVars, panelVars
<1> QED
  BY <1>1, <1>2, <1>3, <1>4, <1>5 DEF IInv

(* Nothing has begun while its bubble was mounted. *)
LEMMA CompactMountedStep ==
    ASSUME IInv, CompactMounted
    PROVE  IInv'
<1>1. TypeOK'
  BY TaskNames DEF IInv, TypeOK, Idle, Bottom, Prompts, CompactMounted, panelVars
<1>2. OneQueued' /\ NothingLost'
  BY DEF IInv, OneQueued, NothingLost, CompactMounted, inputVars
<1>3. OneTask'
  BY TaskNames DEF IInv, OneTask, TypeOK, Mounting, AllOver, CompactMounted, panelVars
<1>4. Flags'
  BY TaskNames DEF IInv, OneTask, Flags, InFlight, Quiet, TypeOK, Mounting, AllOver,
     CompactMounted, panelVars
<1>5. Workers'
  BY TaskNames DEF IInv, Workers, OneTask, Flags, AllOver, InFlight, Quiet, TypeOK, Mounting,
     CompactMounted, panelVars
<1>6. Mounting'
  BY DEF IInv, Mounting, Quiet, AllOver, Idle, CompactMounted, panelVars
<1>7. Bottoms'
  BY DEF IInv, Bottoms, CompactMounted, panelVars
<1> QED
  BY <1>1, <1>2, <1>3, <1>4, <1>5, <1>6, <1>7 DEF IInv

(* A compaction is over with its flags. *)
LEMMA CompactEndsStep ==
    ASSUME IInv, CompactEnds
    PROVE  IInv'
<1>1. TypeOK'
  BY DEF IInv, TypeOK, CompactEnds, inputVars, panelVars
<1>2. OneQueued' /\ NothingLost'
  BY DEF IInv, OneQueued, NothingLost, CompactEnds, inputVars
<1>3. OneTask'
  BY DEF IInv, OneTask, CompactEnds, inputVars, panelVars
<1>4. Flags'
  BY TaskNames DEF IInv, OneTask, Flags, InFlight, Quiet, TypeOK, CompactEnds, inputVars, panelVars
<1>5. Workers'
  BY TaskNames DEF IInv, Workers, OneTask, AllOver, InFlight, TypeOK, CompactEnds, inputVars,
     panelVars
<1>6. Mounting'
  BY DEF IInv, Mounting, Quiet, AllOver, CompactEnds, inputVars, panelVars
<1>7. Bottoms'
  BY TaskNames DEF IInv, Bottoms, Prompts, TypeOK, Flags, OneTask, InFlight, CompactEnds,
     inputVars, panelVars
<1> QED
  BY <1>1, <1>2, <1>3, <1>4, <1>5, <1>6, <1>7 DEF IInv

(* Esc finds the one task, and no other worker. *)
LEMMA InterruptStep ==
    ASSUME IInv, Interrupt
    PROVE  IInv'
<1>1. TypeOK'
  <2>1. \/ /\ task \in Tasks
           /\ cancelled' = cancelled \union {task}
           /\ escs' = escs \union {[at |-> "cancelling", on |-> task]}
        \/ /\ escs' = escs \union {[at |-> "settling", on |-> NoTask]}
           /\ cancelled' = cancelled
    BY DEF IInv, TypeOK, Interrupt
  <2>2. escs' \subseteq [at : {"cancelling", "settling", "clearing"}, on : Tasks \union {NoTask}]
    <3>1. escs \subseteq [at : {"cancelling", "settling", "clearing"}, on : Tasks \union {NoTask}]
      BY DEF IInv, TypeOK
    <3> QED
      BY <2>1, <3>1
  <2>3. cancelled' \subseteq Tasks
    BY <2>1 DEF IInv, TypeOK
  <2>4. /\ asked' = TRUE /\ pending' = "none" /\ panels' = {} /\ current' = current
        /\ UNCHANGED <<inputVars, busy, task, at, rest, others>>
    BY DEF Interrupt
  <2> QED
    BY <2>2, <2>3, <2>4 DEF IInv, TypeOK, inputVars
<1>2. OneQueued' /\ NothingLost'
  BY DEF IInv, OneQueued, NothingLost, Interrupt, inputVars
<1>3. OneTask'
  BY DEF IInv, OneTask, Interrupt, inputVars
<1>4. Flags'
  BY TaskNames DEF IInv, OneTask, Flags, Workers, InFlight, Tasks, NoTask, TypeOK, Interrupt,
     inputVars
<1>5. Workers'
  <2>1. PICK t \in Tasks : InFlight(t) /\ task = t /\ at[t] # "none" /\ t # NoTask
    <3>1. PICK t \in Tasks : InFlight(t)
      BY DEF IInv, Workers, Interrupt
    <3>2. task = t /\ at[t] # "none"
      BY <3>1 DEF IInv, Flags, InFlight
    <3>3. t # NoTask
      BY ScreenAssumption DEF NoTask, Tasks, Messages, Compaction, ScreenAssumption
    <3> QED
      BY <3>1, <3>2, <3>3
  <2>2. escs = {}
    <3>1. \A w \in escs : w.at # "cancelling" => FALSE
      BY <2>1 DEF IInv, Workers, AllOver
    <3>2. \A w \in escs : w.at = "cancelling" => t \in cancelled
      BY <2>1 DEF IInv, Workers
    <3>3. t \notin cancelled
      BY <2>1 DEF IInv, Flags, Interrupt
    <3> QED
      BY <3>1, <3>2, <3>3
  <2> DEFINE worker == [at |-> "cancelling", on |-> t]
  <2>3. /\ asked' = TRUE /\ cancelled' = cancelled \union {t} /\ escs' = {worker}
        /\ UNCHANGED <<busy, task, at>>
    BY <2>1, <2>2 DEF Interrupt
  <2>4. worker.at = "cancelling" /\ worker.on = t
    OBVIOUS
  <2> HIDE DEF worker
  <2>5. \A u \in Tasks : at[u] # "none" => u = t
    BY <2>1 DEF IInv, OneTask
  <2>6. \A u \in cancelled' : at'[u] # "none"
    BY <2>1, <2>3 DEF IInv, Workers
  <2> QED
    BY <2>3, <2>4, <2>5, <2>6 DEF Workers
<1>6. Mounting'
  BY DEF IInv, Mounting, Quiet, AllOver, Interrupt, inputVars
<1>7. Bottoms'
  BY DEF IInv, Bottoms, Interrupt, inputVars
<1> QED
  BY <1>1, <1>2, <1>3, <1>4, <1>5, <1>6, <1>7 DEF IInv

(* The cancelled task is over. *)
LEMMA TaskOverStep ==
    ASSUME IInv, NEW w \in escs, TaskOver(w)
    PROVE  IInv'
<1>1. TypeOK'
  BY DEF IInv, TypeOK, TaskOver, inputVars, panelVars
<1>2. OneQueued' /\ NothingLost'
  BY DEF IInv, OneQueued, NothingLost, TaskOver, inputVars
<1>3. OneTask'
  BY DEF IInv, OneTask, TaskOver, inputVars, panelVars
<1>4. Flags'
  BY DEF IInv, Flags, InFlight, Quiet, TaskOver, inputVars, panelVars
<1>5. Workers'
  <2>1. \A v \in escs : v = w
    BY DEF IInv, Workers
  <2> DEFINE next == [at |-> "settling", on |-> NoTask]
  <2>2. /\ w.at = "cancelling" /\ at[w.on] = "none"
        /\ escs' = {next} /\ UNCHANGED <<busy, asked, task, at, cancelled>>
    BY <2>1 DEF TaskOver
  <2>3. next.at = "settling"
    OBVIOUS
  <2> HIDE DEF next
  <2>4. AllOver
    BY <2>2 DEF IInv, Workers, AllOver
  <2> QED
    BY <2>2, <2>3, <2>4 DEF IInv, Workers, AllOver, InFlight
<1>6. Mounting'
  BY DEF IInv, Mounting, Quiet, AllOver, TaskOver, inputVars, panelVars
<1>7. Bottoms'
  BY DEF IInv, Bottoms, TaskOver, inputVars, panelVars
<1> QED
  BY <1>1, <1>2, <1>3, <1>4, <1>5, <1>6, <1>7 DEF IInv

(* The worker takes the flag down. *)
LEMMA InterruptSettlesStep ==
    ASSUME IInv, NEW w \in escs, InterruptSettles(w)
    PROVE  IInv'
<1>1. TypeOK'
  BY DEF IInv, TypeOK, InterruptSettles, inputVars, panelVars
<1>2. OneQueued' /\ NothingLost'
  BY DEF IInv, OneQueued, NothingLost, InterruptSettles, inputVars
<1>3. OneTask'
  BY DEF IInv, OneTask, InterruptSettles, inputVars, panelVars
<1>4. Flags'
  BY TaskNames DEF IInv, OneTask, Flags, Workers, InFlight, Quiet, TypeOK, Mounting, AllOver,
     InterruptSettles, inputVars, panelVars
<1>5. Workers'
  <2>1. \A v \in escs : v = w
    BY DEF IInv, Workers
  <2> DEFINE next == [w EXCEPT !.at = "clearing"]
  <2>2. /\ w.at = "settling" /\ busy' = FALSE
        /\ escs' = {next} /\ UNCHANGED <<asked, task, at, cancelled>>
    BY <2>1 DEF InterruptSettles
  <2>3. next.at = "clearing"
    BY DEF IInv, TypeOK
  <2> HIDE DEF next
  <2>4. AllOver
    BY <2>2 DEF IInv, Workers
  <2> QED
    BY <2>2, <2>3, <2>4 DEF IInv, Workers, AllOver
<1>6. Mounting'
  BY DEF IInv, Mounting, Quiet, AllOver, InterruptSettles, inputVars, panelVars
<1>7. Bottoms'
  BY DEF IInv, Bottoms, InterruptSettles, inputVars, panelVars
<1> QED
  BY <1>1, <1>2, <1>3, <1>4, <1>5, <1>6, <1>7 DEF IInv

(* Esc is listened to again. *)
LEMMA InterruptOverStep ==
    ASSUME IInv, NEW w \in escs, InterruptOver(w)
    PROVE  IInv'
<1>1. TypeOK'
  BY DEF IInv, TypeOK, InterruptOver, inputVars, panelVars
<1>2. OneQueued' /\ NothingLost'
  BY DEF IInv, OneQueued, NothingLost, InterruptOver, inputVars
<1>3. OneTask'
  BY DEF IInv, OneTask, InterruptOver, inputVars, panelVars
<1>4. Flags'
  BY TaskNames DEF IInv, OneTask, Flags, Workers, InFlight, Quiet, TypeOK, Mounting, AllOver,
     InterruptOver, inputVars, panelVars
<1>5. Workers'
  <2>1. \A v \in escs : v = w
    BY DEF IInv, Workers
  <2>2. /\ w.at = "clearing" /\ asked' = FALSE /\ escs' = {}
        /\ UNCHANGED <<busy, task, at, cancelled>>
    BY <2>1 DEF InterruptOver
  <2>3. AllOver /\ ~busy
    BY <2>2 DEF IInv, Workers
  <2>4. cancelled = {}
    BY <2>3 DEF IInv, Workers, AllOver, TypeOK
  <2> QED
    BY <2>2, <2>3, <2>4 DEF Workers
<1>6. Mounting'
  BY DEF IInv, Mounting, Quiet, AllOver, InterruptOver, inputVars, panelVars
<1>7. Bottoms'
  BY DEF IInv, Bottoms, InterruptOver, inputVars, panelVars
<1> QED
  BY <1>1, <1>2, <1>3, <1>4, <1>5, <1>6, <1>7 DEF IInv

(* A tool asks. *)
LEMMA AskPromptStep ==
    ASSUME IInv, NEW t \in Messages, NEW kind \in Prompts, AskPrompt(t, kind)
    PROVE  IInv'
<1>1. TypeOK'
  BY TaskNames DEF IInv, TypeOK, Idle, Bottom, Prompts, AskPrompt, Show, agentVars, inputVars
<1>2. OneQueued' /\ NothingLost'
  BY DEF IInv, OneQueued, NothingLost, AskPrompt, inputVars
<1>3. OneTask' /\ Flags' /\ Workers'
  BY AgentAside DEF AskPrompt
<1>4. Mounting'
  BY DEF IInv, Mounting, Quiet, AllOver, AskPrompt, Show, agentVars, inputVars
<1>5. Bottoms'
  BY TaskNames DEF IInv, Bottoms, Prompts, TypeOK, Flags, OneTask, InFlight, AskPrompt, Show,
     agentVars, inputVars
<1> QED
  BY <1>1, <1>2, <1>3, <1>4, <1>5 DEF IInv

(* The person answers. *)
LEMMA AnswerStep ==
    ASSUME IInv, Answer
    PROVE  IInv'
<1>1. TypeOK'
  BY TaskNames DEF IInv, TypeOK, Idle, Bottom, Prompts, Answer, ShowInput, agentVars, inputVars
<1>2. OneQueued' /\ NothingLost'
  BY DEF IInv, OneQueued, NothingLost, Answer, inputVars
<1>3. OneTask' /\ Flags' /\ Workers'
  BY AgentAside DEF Answer
<1>4. Mounting'
  BY DEF IInv, Mounting, Quiet, AllOver, Answer, ShowInput, agentVars, inputVars
<1>5. Bottoms'
  BY DEF IInv, Bottoms, Answer, ShowInput, agentVars, inputVars
<1> QED
  BY <1>1, <1>2, <1>3, <1>4, <1>5 DEF IInv

(* A panel is asked for. *)
LEMMA OpenSettingsStep ==
    ASSUME IInv, OpenSettings
    PROVE  IInv'
<1>1. TypeOK'
  BY ScreenAssumption DEF IInv, TypeOK, ScreenAssumption, Idle, Bottom, OpenSettings, Count,
     InputShown, agentVars, panelVars
<1>2. OneQueued' /\ NothingLost'
  BY DEF IInv, OneQueued, NothingLost, OpenSettings, inputVars
<1>3. OneTask' /\ Flags' /\ Workers'
  BY AgentAside DEF OpenSettings
<1>4. Mounting'
  BY DEF IInv, Mounting, Quiet, AllOver, OpenSettings, Count, InputShown, agentVars, panelVars
<1>5. Bottoms'
  BY DEF IInv, Bottoms, OpenSettings, Count, InputShown, agentVars, panelVars
<1> QED
  BY <1>1, <1>2, <1>3, <1>4, <1>5 DEF IInv

(* And mounted. *)
LEMMA SettingsMountedStep ==
    ASSUME IInv, SettingsMounted
    PROVE  IInv'
<1>1. TypeOK'
  BY TaskNames DEF IInv, TypeOK, Idle, Bottom, Prompts, SettingsMounted, Show, agentVars
<1>2. OneQueued' /\ NothingLost'
  BY DEF IInv, OneQueued, NothingLost, SettingsMounted, inputVars
<1>3. OneTask' /\ Flags' /\ Workers'
  BY AgentAside DEF SettingsMounted
<1>4. Mounting'
  BY DEF IInv, Mounting, Quiet, AllOver, Idle, SettingsMounted, Show, agentVars
<1>5. Bottoms'
  BY DEF IInv, Bottoms, SettingsMounted, Show, agentVars
<1> QED
  BY <1>1, <1>2, <1>3, <1>4, <1>5 DEF IInv

(* The input comes back, also over a prompt. *)
LEMMA CloseSettingsStep ==
    ASSUME IInv, CloseSettings
    PROVE  IInv'
<1>1. TypeOK'
  BY TaskNames DEF IInv, TypeOK, Idle, Bottom, Prompts, CloseSettings, ShowInput, agentVars,
     inputVars
<1>2. OneQueued' /\ NothingLost'
  BY DEF IInv, OneQueued, NothingLost, CloseSettings, inputVars
<1>3. OneTask' /\ Flags' /\ Workers'
  BY AgentAside DEF CloseSettings
<1>4. Mounting'
  BY DEF IInv, Mounting, Quiet, AllOver, CloseSettings, ShowInput, agentVars, inputVars
<1>5. Bottoms'
  BY DEF IInv, Bottoms, CloseSettings, ShowInput, agentVars, inputVars
<1> QED
  BY <1>1, <1>2, <1>3, <1>4, <1>5 DEF IInv

(* The rewind panel is opened. *)
LEMMA OpenRewindStep ==
    ASSUME Races = {}, IInv, OpenRewind
    PROVE  IInv'
<1>1. TypeOK'
  BY ScreenAssumption DEF IInv, TypeOK, ScreenAssumption, Idle, Bottom, OpenRewind, Count, Show,
     NoGap, Settled, agentVars, inputVars
<1>2. OneQueued' /\ NothingLost'
  BY DEF IInv, OneQueued, NothingLost, OpenRewind, inputVars
<1>3. OneTask' /\ Flags' /\ Workers'
  BY AgentAside DEF OpenRewind
<1>4. Mounting'
  BY DEF IInv, Mounting, Quiet, AllOver, OpenRewind, Count, Show, NoGap, Settled, agentVars,
     inputVars
<1>5. Bottoms'
  BY DEF IInv, Bottoms, OpenRewind, Count, Show, NoGap, Settled, agentVars, inputVars
<1> QED
  BY <1>1, <1>2, <1>3, <1>4, <1>5 DEF IInv

(* It is closed. *)
LEMMA ExitRewindStep ==
    ASSUME IInv, ExitRewind
    PROVE  IInv'
<1>1. TypeOK'
  BY TaskNames DEF IInv, TypeOK, Idle, Bottom, Prompts, ExitRewind, ShowInput, agentVars, inputVars
<1>2. OneQueued' /\ NothingLost'
  BY DEF IInv, OneQueued, NothingLost, ExitRewind, inputVars
<1>3. OneTask' /\ Flags' /\ Workers'
  BY AgentAside DEF ExitRewind
<1>4. Mounting'
  BY DEF IInv, Mounting, Quiet, AllOver, ExitRewind, ShowInput, agentVars, inputVars
<1>5. Bottoms'
  BY DEF IInv, Bottoms, ExitRewind, ShowInput, agentVars, inputVars
<1> QED
  BY <1>1, <1>2, <1>3, <1>4, <1>5 DEF IInv

(* A rewind is chosen. *)
LEMMA ExecuteRewindStep ==
    ASSUME IInv, ExecuteRewind
    PROVE  IInv'
<1>1. TypeOK'
  BY DEF IInv, TypeOK, ExecuteRewind, agentVars, panelVars
<1>2. OneQueued' /\ NothingLost'
  BY DEF IInv, OneQueued, NothingLost, ExecuteRewind, inputVars
<1>3. OneTask' /\ Flags' /\ Workers'
  BY AgentAside DEF ExecuteRewind
<1>4. Mounting'
  BY DEF IInv, Mounting, Quiet, AllOver, ExecuteRewind, agentVars, panelVars
<1>5. Bottoms'
  BY DEF IInv, Bottoms, ExecuteRewind, agentVars, panelVars
<1> QED
  BY <1>1, <1>2, <1>3, <1>4, <1>5 DEF IInv

(* It is done. *)
LEMMA RewindDoneStep ==
    ASSUME IInv, NEW steering \in BOOLEAN, RewindDone(steering)
    PROVE  IInv'
<1>1. TypeOK'
  BY TaskNames DEF IInv, TypeOK, Idle, Bottom, Prompts, RewindDone, ShowInput, agentVars
<1>2. OneQueued' /\ NothingLost'
  BY DEF IInv, OneQueued, NothingLost, RewindDone, inputVars
<1>3. OneTask' /\ Flags' /\ Workers'
  BY AgentAside DEF RewindDone
<1>4. Mounting'
  BY DEF IInv, Mounting, Quiet, AllOver, Idle, RewindDone, ShowInput, agentVars
<1>5. Bottoms'
  BY DEF IInv, Bottoms, RewindDone, ShowInput, agentVars
<1> QED
  BY <1>1, <1>2, <1>3, <1>4, <1>5 DEF IInv

(* Or not. *)
LEMMA RewindRefusedStep ==
    ASSUME IInv, RewindRefused
    PROVE  IInv'
<1>1. TypeOK'
  BY TaskNames DEF IInv, TypeOK, Idle, Bottom, Prompts, RewindRefused, agentVars, panelVars
<1>2. OneQueued' /\ NothingLost'
  BY DEF IInv, OneQueued, NothingLost, RewindRefused, inputVars
<1>3. OneTask' /\ Flags' /\ Workers'
  BY AgentAside DEF RewindRefused
<1>4. Mounting'
  BY DEF IInv, Mounting, Quiet, AllOver, Idle, RewindRefused, agentVars, panelVars
<1>5. Bottoms'
  BY DEF IInv, Bottoms, RewindRefused, agentVars, panelVars
<1> QED
  BY <1>1, <1>2, <1>3, <1>4, <1>5 DEF IInv

-----------------------------------------------------------------------------
(* The theorems. *)

(* An app that was just started. *)
LEMMA ScreenInit == Init => IInv
<1> SUFFICES ASSUME Init PROVE IInv
  OBVIOUS
<1>1. TypeOK
  <2>1. <<>> \in Seq(Messages) /\ 0 \in 0..MaxTyped /\ 0 \in 0..MaxOther
    BY ScreenAssumption, EmptySeq DEF ScreenAssumption
  <2>2. rest \in [Messages -> Seq(Messages)] /\ queue \in Seq(Messages)
    BY <2>1 DEF Init
  <2>3. \A m \in Messages : place[m] # "queue"
    BY DEF Init
  <2> QED
    BY <2>1, <2>2, <2>3 DEF Init, TypeOK, Idle, Bottom
<1>2. OneQueued /\ NothingLost
  BY DEF Init, OneQueued, NothingLost
<1>3. OneTask /\ Flags /\ Workers
  BY DEF Init, OneTask, Flags, Workers, InFlight, Tasks, Compaction
<1>4. Mounting /\ Bottoms
  BY DEF Init, Mounting, Bottoms, Idle
<1> QED
  BY <1>1, <1>2, <1>3, <1>4 DEF IInv

(* Every step keeps the invariant. *)
LEMMA ScreenStep ==
    ASSUME Races = {}, IInv, [Next]_vars
    PROVE  IInv'
<1>1. CASE TaskStep
  <2>1. \A m \in Messages : m \in Tasks
    BY DEF Tasks
  <2> QED
    BY <1>1, <2>1, TurnStartsStep, StoppedEarlyStep, TurnActsStep, TurnEndsStep, TurnOverStep,
       SubmitDrainedStep, DrainedMountedStep, CompactEndsStep DEF TaskStep
<1>2. CASE EscStep
  BY <1>2, TaskOverStep, InterruptSettlesStep, InterruptOverStep DEF EscStep
<1>3. CASE PumpStep
  BY <1>3, SubmitMountedStep, CompactMountedStep, SettingsMountedStep, RewindRefusedStep,
     RewindDoneStep DEF PumpStep
<1>4. CASE PersonStep
  BY <1>4, QueueStep, SubmitStep, CompactStep, InterruptStep, AnswerStep, OpenSettingsStep,
     CloseSettingsStep, OpenRewindStep, ExitRewindStep, ExecuteRewindStep DEF PersonStep
<1>5. CASE AgentStep
  BY <1>5, BatchEndsStep, AskPromptStep DEF AgentStep
<1>6. CASE UNCHANGED vars
  BY <1>6 DEF vars, inputVars, agentVars, panelVars, IInv, TypeOK, OneQueued, NothingLost, OneTask,
     Flags, Workers, Mounting, Bottoms, InFlight, Quiet, AllOver
<1> QED
  BY <1>1, <1>2, <1>3, <1>4, <1>5, <1>6 DEF Next

(* The invariant holds of every behaviour. *)
LEMMA ScreenAlways ==
    ASSUME Races = {}
    PROVE  Spec => []IInv
<1>1. Init => IInv
  BY ScreenInit
<1>2. IInv /\ [Next]_vars => IInv'
  BY ScreenStep
<1> QED
  BY <1>1, <1>2, PTL DEF Spec

(* The variables keep their types; among it, a message that counts as      *)
(* queued is in the queue or among those a turn took along.                *)
THEOREM TypeCorrect ==
    ASSUME Races = {}
    PROVE  Spec => []TypeOK
<1>1. IInv => TypeOK
  BY DEF IInv
<1> QED
  BY <1>1, ScreenAlways, PTL

(* However messages, turns, Esc, compactions and rewinds interleave: what  *)
(* was typed is never dropped, as nothing can begin between the mounting   *)
(* of a bubble and the turn it is for.                                     *)
THEOREM NoMessageLost ==
    ASSUME Races = {}
    PROVE  Spec => []NothingLost
<1>1. IInv => NothingLost
  BY DEF IInv
<1> QED
  BY <1>1, ScreenAlways, PTL

(* Whatever runs is the one task Esc would cancel, and Esc is listened to  *)
(* unless that task has been cancelled already.                            *)
THEOREM EscReaches ==
    ASSUME Races = {}
    PROVE  Spec => []EscReachesTask
<1>1. IInv => EscReachesTask
  BY DEF IInv, Flags, EscReachesTask
<1> QED
  BY <1>1, ScreenAlways, PTL

(* A tool that waits for the person is on screen, or Esc gets rid of what  *)
(* covers it or of the turn.                                               *)
THEOREM PromptsAnswerable ==
    ASSUME Races = {}
    PROVE  Spec => []PromptAnswerable
<1>1. IInv => PromptAnswerable
  <2> SUFFICES ASSUME IInv, pending # "none", current = "input" PROVE busy /\ ~asked
    BY DEF IInv, Bottoms, PromptAnswerable
  <2>1. PICK t \in Messages : at[t] = "running" /\ t \notin cancelled
    BY DEF IInv, Bottoms
  <2> QED
    BY <2>1 DEF IInv, Flags, InFlight, Tasks
<1> QED
  BY <1>1, ScreenAlways, PTL

=============================================================================
