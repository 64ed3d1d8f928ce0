--------------------------- MODULE TurnLoopProofs ---------------------------
(***************************************************************************)
(* Theorems about the agent loop, for every value of its constants. The    *)
(* first part is about the loop and its middleware. The second is about    *)
(* the transcript: what goes to the model is well formed, for any calls,   *)
(* bounds, interrupts, compactions and restarts, and a write-up request is *)
(* only followed by its reply.                                             *)
(***************************************************************************)
EXTENDS TurnLoop, SequenceTheorems, FiniteSetTheorems, WellFoundedInduction, TLAPS

-----------------------------------------------------------------------------
(* What the helpers on conversations return.                               *)

(* Each constructor makes a message. *)
LEMMA MessageForms ==
    /\ \A kind \in Kinds : Says(kind) \in Message
    /\ \A kind \in Kinds, plan \in {"none", "on", "off"} : Injects(kind, plan) \in Message
    /\ \A calls \in FiniteCalls : Asks(calls) \in Message
    /\ \A c \in CallId : Answers(c) \in Message
<1>1. {} \in FiniteCalls
  BY FS_EmptySet DEF FiniteCalls
<1>2. \A c \in CallId : {c} \in FiniteCalls
  BY FS_Singleton DEF FiniteCalls
<1>. QED  BY <1>1, <1>2 DEF Says, Injects, Asks, Answers, Message, Kinds

(* The values of a function on a finite set are finitely many.             *)
LEMMA FiniteValues ==
    ASSUME NEW I, IsFiniteSet(I), NEW f, f = [i \in I |-> f[i]]
    PROVE  IsFiniteSet({f[i] : i \in I})
<1> DEFINE T == {f[i] : i \in I}
<1>1. f \in [I -> T]
  OBVIOUS
<1>2. \A t \in T : \E i \in I : f[i] = t
  OBVIOUS
<1>3. f \in Surjection(I, T)
  BY <1>1, <1>2 DEF Surjection
<1>. QED  BY <1>3, FS_Surjection

(* The calls found dangling are finitely many calls of the conversation.   *)
LEMMA DanglingType ==
    ASSUME NEW ms \in Seq(Message)
    PROVE  Dangling(ms) \in FiniteCalls
<1> DEFINE Open(i) == ms[i].calls \ AnsweredAfter(ms, i)
           I == {j \in 1..Len(ms) : MakesCalls(ms[j]) /\ OnlyToolsAfter(ms, j)}
           open == [i \in I |-> Open(i)]
           Opens == {Open(i) : i \in I}
<1>1. \A i \in I : ms[i].calls \in FiniteCalls
  <2>1. ASSUME NEW i \in I PROVE ms[i] \in Message
    BY ElementOfSeq
  <2>2. \A m \in Message : m.calls \in FiniteCalls
    BY DEF Message
  <2>. QED  BY <2>1, <2>2
<1>2. \A i \in I : Open(i) \subseteq CallId /\ IsFiniteSet(Open(i))
  BY <1>1, FS_Subset DEF FiniteCalls
<1>3. IsFiniteSet(Opens)
  <2>1. Len(ms) \in Nat
    BY LenProperties
  <2>2. IsFiniteSet(I)
    <3>1. IsFiniteSet(1..Len(ms))
      BY <2>1, FS_Interval
    <3>2. I \subseteq 1..Len(ms)
      OBVIOUS
    <3>. HIDE DEF I
    <3>. QED  BY <3>1, <3>2, FS_Subset
  <2>3. open = [i \in I |-> open[i]]
    OBVIOUS
  <2>4. Opens = {open[i] : i \in I}
    OBVIOUS
  <2>. HIDE DEF I, open, Opens
  <2>. QED  BY <2>2, <2>3, <2>4, FiniteValues
<1>4. IsFiniteSet(UNION Opens)
  <2>. HIDE DEF Open, I
  <2>. QED  BY <1>2, <1>3, FS_UNION
<1>5. UNION Opens \subseteq CallId
  BY <1>2
<1>6. Dangling(ms) = UNION Opens
  BY DEF Dangling
<1>. QED  BY <1>4, <1>5, <1>6 DEF FiniteCalls

(* The responses to finitely many calls make a conversation.               *)
LEMMA AnswerSeqsType ==
    ASSUME NEW calls \in FiniteCalls, NEW s \in AnswerSeqs(calls)
    PROVE  s \in Seq(Message)
<1>1. Cardinality(calls) \in Nat
  BY FS_CardinalityType DEF FiniteCalls
<1>2. {Answers(c) : c \in calls} \subseteq Message
  BY MessageForms DEF FiniteCalls
<1>3. s \in [1..Cardinality(calls) -> Message]
  BY <1>2 DEF AnswerSeqs
<1>. QED  BY <1>1, <1>3

(* Dropping a tail message leaves a conversation.                          *)
LEMMA TailRepairType ==
    ASSUME NEW ms \in Seq(Message)
    PROVE  /\ WithoutLastWarning(ms) \in Seq(Message)
           /\ WithoutLastRefresh(ms) \in Seq(Message)
<1>1. CASE ms = <<>>
  BY <1>1 DEF WithoutLastWarning, WithoutLastRefresh
<1>2. CASE ms # <<>>
  <2>1. /\ Len(ms) \in Nat /\ Len(ms) - 1 \in Nat
        /\ \A i \in 1..(Len(ms) - 1) : ms[i] \in Message
    BY <1>2, EmptySeq, ElementOfSeq
  <2>2. SubSeq(ms, 1, Len(ms) - 1) \in Seq(Message)
    BY <2>1, SubSeqProperties
  <2>. QED  BY <2>2 DEF WithoutLastWarning, WithoutLastRefresh
<1>. QED  BY <1>1, <1>2

(* A whole flush of the steering queue is a run of messages. *)
LEMMA FlushType ==
    ASSUME queue \in Nat
    PROVE  FlushedQueue \in Seq(Message)
  BY MessageForms DEF FlushedQueue, Kinds

(* The calls of one reply are finitely many. *)
LEMMA ReplyCalls ==
    ASSUME NEW keys \in SUBSET Keys, replies \in Nat
    PROVE  {<<replies + 1, k>> : k \in keys} \in FiniteCalls
<1> DEFINE call == [k \in keys |-> <<replies + 1, k>>]
<1>1. IsFiniteSet(keys)
  BY ConstantsAssumption, FS_Subset DEF ConstantsAssumption
<1>2. {<<replies + 1, k>> : k \in keys} = {call[k] : k \in keys}
  OBVIOUS
<1>3. {<<replies + 1, k>> : k \in keys} \subseteq CallId
  BY DEF CallId
<1>4. IsFiniteSet({call[k] : k \in keys})
  BY <1>1, FiniteValues
<1>. QED  BY <1>2, <1>3, <1>4 DEF FiniteCalls

-----------------------------------------------------------------------------
(* Type correctness. *)

(* The system message's place is never emptied: what the tail repairs drop *)
(* is put back longer, and a compaction keeps the head.                    *)
NeverEmpty == msgs # <<>>

(* What one step that only closes a turn does to the types: it is shared   *)
(* by every way a turn can end.                                            *)
LEMMA EndTurnType ==
    ASSUME TypeOK, NEW cancelled \in BOOLEAN, EndTurn(cancelled)
    PROVE  pc' \in Places /\ drainDue' \in BOOLEAN /\ userCancel' \in BOOLEAN
  BY DEF TypeOK, EndTurn, Places

(* The step budget's counters stay counters. *)
LEMMA CountedBudgetType ==
    ASSUME TypeOK
    PROVE  CountedBudget \in [turn : Nat, calls : Nat, asked : BOOLEAN]
  BY DEF TypeOK, CountedBudget

(* The middleware pipeline keeps the types.                                *)
LEMMA PipelineType ==
    ASSUME TypeOK, Pipeline
    PROVE  TypeOK'
<1>1. CASE StopByLimit
  BY <1>1, EndTurnType DEF TypeOK, StopByLimit, modes, middleware, counts
<1>2. CASE BeginAutoCompact
  BY <1>2, MessageForms
     DEF TypeOK, BeginAutoCompact, Places, Kinds, batch, modes, steering, middleware, counts
<1>3. CASE StopRepeating
  BY <1>3, EndTurnType DEF TypeOK, StopRepeating, modes, middleware, counts
<1>4. CASE StopSpent
  BY <1>4, EndTurnType, CountedBudgetType DEF TypeOK, StopSpent, modes, counts
<1>5. CASE BeginLLMCall
  <2>1. Injects(IF OverBudget THEN "warn" ELSE "inject", PlanNotice) \in Message
    <3>1. PlanNotice \in {"none", "on", "off"}
      BY DEF PlanNotice
    <3>2. (IF OverBudget THEN "warn" ELSE "inject") \in Kinds
      BY DEF Kinds
    <3>. QED  BY <3>1, <3>2, MessageForms
  <2>2. msgs' \in Seq(Message)
    BY <1>5, <2>1 DEF TypeOK, BeginLLMCall
  <2>3. budget' \in [turn : Nat, calls : Nat, asked : BOOLEAN]
    BY <1>5, CountedBudgetType DEF BeginLLMCall, OverBudget
  <2>4. suspended' \in BOOLEAN
    BY <1>5 DEF TypeOK, BeginLLMCall, OverBudget
  <2>. QED  BY <1>5, <2>2, <2>3, <2>4 DEF TypeOK, BeginLLMCall, Places, batch, steering
<1>. QED  BY <1>1, <1>2, <1>3, <1>4, <1>5 DEF Pipeline

(* A request to the model, answered or failed, keeps the types.            *)
LEMMA RequestType ==
    ASSUME TypeOK, Request
    PROVE  TypeOK'
<1>1. CASE RequestFails
  BY <1>1, EndTurnType DEF TypeOK, RequestFails, modes, middleware, counts
<1>2. ASSUME NEW keys \in SUBSET Keys, Reply(keys) PROVE TypeOK'
  <2> DEFINE calls == {<<replies + 1, k>> : k \in keys}
  <2>1. calls \in FiniteCalls
    BY ReplyCalls DEF TypeOK
  <2>2. Asks(calls) \in Message
    BY <2>1, MessageForms
  <2>3. SizeOutcomes \subseteq BOOLEAN
    BY DEF SizeOutcomes
  <2>4. todo' = calls /\ msgs' = Append(msgs, Asks(calls))
    BY <1>2 DEF Reply
  <2>. HIDE DEF calls
  <2>5. todo' \subseteq CallId /\ msgs' \in Seq(Message)
    BY <2>1, <2>2, <2>4 DEF TypeOK, FiniteCalls
  <2>6. pc' \in Places /\ ctxFull' \in BOOLEAN
    BY <1>2, <2>3 DEF Reply, Places
  <2>7. /\ replies' = replies + 1
        /\ suspended' \in BOOLEAN
        /\ UNCHANGED <<inTurn, running, late, userCancel, answerOnly, steering, budget,
                       nudges, wasActive, profile, turn, llmCalls, compactions, upsets,
                       noticeLost>>
    BY <1>2 DEF Reply
  <2>. QED  BY <2>5, <2>6, <2>7 DEF TypeOK, steering
<1>. QED  BY <1>1, <1>2 DEF Request

(* A step inside a batch of tool calls keeps the types.                    *)
LEMMA RunBatchType ==
    ASSUME TypeOK, RunBatch
    PROVE  TypeOK'
<1>. todo \subseteq CallId /\ running \subseteq CallId
  BY DEF TypeOK
<1>1. ASSUME NEW c \in todo, RefuseCall(c) PROVE TypeOK'
  BY <1>1, MessageForms DEF TypeOK, RefuseCall, modes, steering, middleware, counts
<1>2. ASSUME NEW c \in todo, SkipRepeat(c) PROVE TypeOK'
  BY <1>2, MessageForms DEF TypeOK, SkipRepeat, modes, steering, middleware, counts
<1>3. ASSUME NEW c \in todo, StartTool(c) PROVE TypeOK'
  BY <1>3 DEF TypeOK, StartTool, modes, steering, middleware, counts
<1>4. ASSUME NEW c \in todo, NEW backedOut \in BOOLEAN, SkipCall(c, backedOut)
      PROVE  TypeOK'
  BY <1>4, MessageForms DEF TypeOK, SkipCall, modes, steering, middleware, counts
<1>5. ASSUME NEW c \in running, NEW backedOut \in BOOLEAN, FinishTool(c, backedOut)
      PROVE  TypeOK'
  BY <1>5, MessageForms DEF TypeOK, FinishTool, modes, steering, middleware, counts
<1>. QED  BY <1>1, <1>2, <1>3, <1>4, <1>5 DEF RunBatch

(* The end of a round of the loop keeps the types.                         *)
LEMMA EndRoundType ==
    ASSUME TypeOK, EndRound
    PROVE  TypeOK'
<1>1. CASE StopOnBackOut
  BY <1>1, EndTurnType DEF TypeOK, StopOnBackOut, modes, middleware, counts
<1>2. CASE NextRound
  <2>1. FlushedQueue \in Seq(Message)
    BY FlushType DEF TypeOK
  <2>2. msgs' \in Seq(Message)
    BY <1>2, <2>1, ConcatProperties DEF TypeOK, NextRound
  <2>. QED  BY <1>2, <2>2 DEF TypeOK, NextRound, QueueAfterFlush, Places, batch,
                              modes, middleware, counts
<1>3. CASE Nudge
  <2>1. Says("nudge") \in Message
    BY MessageForms DEF Kinds
  <2>. QED  BY <1>3, <2>1 DEF TypeOK, Nudge, Places, batch, modes, steering, counts
<1>4. CASE Finish
  BY <1>4, EndTurnType DEF TypeOK, Finish, modes, middleware, counts
<1>. QED  BY <1>1, <1>2, <1>3, <1>4 DEF EndRound

(* The way out of an interrupted batch keeps the types.                    *)
LEMMA UnwindType ==
    ASSUME TypeOK, Unwind
    PROVE  TypeOK'
<1>1. CASE Unwound
  BY <1>1, EndTurnType DEF TypeOK, Unwound, modes, middleware, counts
<1>2. ASSUME NEW c \in running, UnwindTool(c) PROVE TypeOK'
  <2>. c \in CallId
    BY DEF TypeOK
  <2>. QED  BY <1>2, MessageForms DEF TypeOK, UnwindTool, modes, steering, middleware, counts
<1>. QED  BY <1>1, <1>2 DEF Unwind

(* compact() keeps the types; it needs message 0 to be there.              *)
LEMMA CompactionType ==
    ASSUME TypeOK, NeverEmpty, Compaction
    PROVE  TypeOK'
<1>1. CASE SummaryArrives
  <2>1. msgs[1] \in Message
    BY EmptySeq, ElementOfSeq DEF TypeOK, NeverEmpty
  <2>2. Says("summary") \in Message
    BY MessageForms DEF Kinds
  <2>3. msgs' \in Seq(Message)
    BY <1>1, <2>1, <2>2 DEF SummaryArrives
  <2>. QED  BY <1>1, <2>3 DEF TypeOK, SummaryArrives, Places, batch, modes, steering, middleware
<1>2. CASE EndCompact
  <2>1. pc' \in Places
    BY <1>2 DEF EndCompact, Places
  <2>2. llmCalls' \in Nat /\ compactions' \in Nat
    BY <1>2 DEF TypeOK, EndCompact
  <2>3. ctxFull' \in BOOLEAN /\ wasActive' \in BOOLEAN /\ noticeLost' \in BOOLEAN
    BY <1>2 DEF EndCompact, SizeOutcomes, NoticeAfterReset
  <2>4. UNCHANGED <<msgs, inTurn, batch, modes, steering, budget, nudges, profile, turn,
                    replies, upsets>>
    BY <1>2 DEF EndCompact
  <2>. QED  BY <2>1, <2>2, <2>3, <2>4 DEF TypeOK, batch, modes, steering
<1>3. CASE CompactFails
  BY <1>3, EndTurnType DEF TypeOK, CompactFails, modes, middleware, counts
<1>. QED  BY <1>1, <1>2, <1>3 DEF Compaction

(* Esc keeps the types, wherever it lands.                                 *)
LEMMA InterruptType ==
    ASSUME TypeOK, Interrupt
    PROVE  TypeOK'
<1>1. CASE InterruptInTool
  BY <1>1 DEF TypeOK, InterruptInTool, Places, modes, steering, middleware, counts
<1>2. CASE InterruptElsewhere
  BY <1>2, EndTurnType DEF TypeOK, InterruptElsewhere, modes, middleware, counts
<1>. QED  BY <1>1, <1>2 DEF Interrupt

(* act() keeps the types, tail repairs included.                           *)
LEMMA ActType ==
    ASSUME TypeOK, NeverEmpty, NEW isAnswerOnly \in BOOLEAN, Act(isAnswerOnly)
    PROVE  TypeOK'
<1>1. PICK shims \in AnswerSeqs(Dangling(WithoutLastWarning(msgs))) :
         msgs' = Append(WithoutLastWarning(msgs) \o shims, Says("prompt"))
  BY DEF Act
<1>2. WithoutLastWarning(msgs) \in Seq(Message)
  BY TailRepairType DEF TypeOK
<1>3. shims \in Seq(Message)
  BY <1>1, <1>2, DanglingType, AnswerSeqsType
<1>4. Says("prompt") \in Message
  BY MessageForms DEF Kinds
<1>5. msgs' \in Seq(Message)
  BY <1>1, <1>2, <1>3, <1>4, ConcatProperties, AppendProperties
<1>6. noticeLost' \in BOOLEAN
  BY DEF TypeOK, Act
<1>7. /\ pc' = "before" /\ inTurn' \in BOOLEAN
      /\ answerOnly' \in BOOLEAN /\ suspended' \in BOOLEAN /\ userCancel' \in BOOLEAN
      /\ nudges' = 0 /\ turn' = turn + 1 /\ llmCalls' = 0 /\ compactions' = 0
      /\ UNCHANGED <<todo, running, late, steering, budget, wasActive, ctxFull,
                     profile, replies, upsets>>
  BY DEF Act
<1>. QED  BY <1>5, <1>6, <1>7 DEF TypeOK, Places, steering

(* Whatever the person does keeps the types.                               *)
LEMMA PersonType ==
    ASSUME TypeOK, NeverEmpty, Person
    PROVE  TypeOK'
<1>1. ASSUME NEW isAnswerOnly \in BOOLEAN, Act(isAnswerOnly) PROVE TypeOK'
  BY <1>1, ActType
<1>2. CASE BeginCompact
  <2>1. Says("ask") \in Message
    BY MessageForms DEF Kinds
  <2>2. inTurn' \in BOOLEAN /\ pc' \in Places
    BY <1>2 DEF BeginCompact, Places
  <2>3. msgs' \in Seq(Message) /\ upsets' \in Nat
    BY <1>2, <2>1, AppendProperties DEF TypeOK, BeginCompact
  <2>4. UNCHANGED <<batch, modes, steering, middleware, profile, turn, replies, llmCalls,
                    compactions, noticeLost>>
    BY <1>2 DEF BeginCompact
  <2>. QED  BY <2>2, <2>3, <2>4 DEF TypeOK, batch, modes, steering, middleware
<1>3. CASE QueueSteering
  BY <1>3 DEF TypeOK, QueueSteering, conversation, batch, modes, middleware, counts
<1>4. CASE DrainSteering
  BY <1>4 DEF TypeOK, DrainSteering, conversation, batch, modes, middleware, counts
<1>5. CASE SwitchAgent
  BY <1>5 DEF TypeOK, SwitchAgent, conversation, batch, modes, steering, middleware, counts
<1>6. CASE Interrupt
  BY <1>6, InterruptType
<1>. QED  BY <1>1, <1>2, <1>3, <1>4, <1>5, <1>6 DEF Person

(* A resumed conversation is a typed one with a refresh at its end. *)
LEMMA RestoredForm ==
    ASSUME TypeOK, NeverEmpty, Restart
    PROVE  \E ms \in Seq(Message) : msgs' = Append(ms, Says("refresh"))
<1>1. PICK shims \in ShimSeqsOnRestore(msgs) :
         msgs' = Refreshed(WithoutLastWarning(msgs \o shims))
  BY DEF Restart
<1>2. shims \in Seq(Message)
  <2>1. CASE MakesCalls(Last(msgs))
    <3>1. Last(msgs) \in Message
      BY EmptySeq, ElementOfSeq, LenProperties DEF TypeOK, NeverEmpty, Last
    <3>2. Last(msgs).calls \in FiniteCalls
      BY <3>1 DEF Message
    <3>. QED  BY <1>1, <2>1, <3>2, AnswerSeqsType DEF ShimSeqsOnRestore, NeverEmpty
  <2>2. CASE ~MakesCalls(Last(msgs))
    BY <1>1, <2>2 DEF ShimSeqsOnRestore
  <2>. QED  BY <2>1, <2>2
<1>3. msgs \o shims \in Seq(Message)
  BY <1>2, ConcatProperties DEF TypeOK
<1>4. WithoutLastRefresh(WithoutLastWarning(msgs \o shims)) \in Seq(Message)
  BY <1>3, TailRepairType
<1>. QED  BY <1>1, <1>4 DEF Refreshed

(* Resuming a session after the process ended keeps the types.             *)
LEMMA RestartType ==
    ASSUME TypeOK, NeverEmpty, Restart
    PROVE  TypeOK'
<1>5. Says("refresh") \in Message
  BY MessageForms DEF Kinds
<1>6. msgs' \in Seq(Message)
  BY RestoredForm, <1>5, AppendProperties
<1>7. /\ inTurn' \in BOOLEAN /\ userCancel' \in BOOLEAN /\ suspended' \in BOOLEAN
      /\ answerOnly' \in BOOLEAN /\ drainDue' \in BOOLEAN /\ wasActive' \in BOOLEAN
      /\ ctxFull' \in BOOLEAN /\ noticeLost' \in BOOLEAN
  BY DEF Restart
<1>8. budget' \in [turn : Nat, calls : Nat, asked : BOOLEAN]
  BY DEF Restart
<1>9. /\ pc' \in Places
      /\ todo' = {} /\ running' = {} /\ late' = {}
      /\ queue' = 0 /\ nudges' = 0 /\ upsets' = upsets + 1
      /\ UNCHANGED <<profile, turn, replies, llmCalls, compactions>>
  BY DEF Restart, Places
<1>. QED  BY <1>6, <1>7, <1>8, <1>9 DEF TypeOK

(* The late response of an orphaned tool keeps the types.                  *)
LEMMA LateReplyType ==
    ASSUME TypeOK, NEW c \in late, LateReply(c)
    PROVE  TypeOK'
<1>1. c \in CallId
  BY DEF TypeOK
<1>2. Answers(c) \in Message
  BY <1>1, MessageForms
<1>. QED  BY <1>2 DEF TypeOK, LateReply, modes, steering, middleware, counts

(* No step empties the conversation: message 0 stays.                      *)
LEMMA NeverEmptyStep ==
    ASSUME TypeOK, TypeOK', NeverEmpty, Next
    PROVE  NeverEmpty'
<1>1. ASSUME NEW ms \in Seq(Message), NEW m PROVE Append(ms, m) # <<>>
  <2>1. ms \in Seq(Message \union {m})
    BY SeqDef
  <2>. QED  BY <2>1, AppendProperties, EmptySeq
<1>2. ASSUME msgs' = msgs PROVE NeverEmpty'
  BY <1>2 DEF NeverEmpty
<1>3. ASSUME NEW m, msgs' = Append(msgs, m) PROVE NeverEmpty'
  BY <1>1, <1>3 DEF NeverEmpty, TypeOK
<1>4. CASE Pipeline
  BY <1>2, <1>3, <1>4
     DEF Pipeline, StopByLimit, BeginAutoCompact, StopRepeating, StopSpent, BeginLLMCall
<1>5. CASE Request
  BY <1>2, <1>3, <1>5 DEF Request, RequestFails, Reply
<1>6. CASE RunBatch
  BY <1>2, <1>3, <1>6 DEF RunBatch, RefuseCall, SkipRepeat, StartTool, SkipCall, FinishTool
<1>7. CASE EndRound
  <2>1. CASE NextRound
    <3>1. FlushedQueue \in Seq(Message)
      BY FlushType DEF TypeOK
    <3>2. Len(msgs') = Len(msgs) + Len(FlushedQueue) /\ Len(msgs) # 0
      BY <2>1, <3>1, ConcatProperties, EmptySeq DEF NextRound, TypeOK, NeverEmpty
    <3>. QED  BY <3>1, <3>2, LenProperties, EmptySeq DEF TypeOK, NeverEmpty
  <2>. QED  BY <1>2, <1>3, <1>7, <2>1 DEF EndRound, StopOnBackOut, Nudge, Finish
<1>8. CASE Unwind
  BY <1>2, <1>3, <1>8 DEF Unwind, Unwound, UnwindTool
<1>9. CASE Compaction
  <2>1. CASE SummaryArrives
    BY <2>1 DEF SummaryArrives, NeverEmpty
  <2>2. CASE EndCompact \/ CompactFails
    BY <1>2, <2>2 DEF EndCompact, CompactFails
  <2>. QED  BY <1>9, <2>1, <2>2 DEF Compaction
<1>10. CASE Person
  <2>1. ASSUME NEW isAnswerOnly \in BOOLEAN, Act(isAnswerOnly) PROVE NeverEmpty'
    <3>1. PICK shims \in AnswerSeqs(Dangling(WithoutLastWarning(msgs))) :
             msgs' = Append(WithoutLastWarning(msgs) \o shims, Says("prompt"))
      BY <2>1 DEF Act
    <3>2. WithoutLastWarning(msgs) \o shims \in Seq(Message)
      BY TailRepairType, DanglingType, AnswerSeqsType, ConcatProperties DEF TypeOK
    <3>. QED  BY <1>1, <3>1, <3>2 DEF NeverEmpty
  <2>. QED  BY <1>2, <1>3, <1>10, <2>1
            DEF Person, BeginCompact, QueueSteering, DrainSteering, SwitchAgent, Interrupt,
                InterruptInTool, InterruptElsewhere, conversation
<1>11. ASSUME NEW c \in late, LateReply(c) PROVE NeverEmpty'
  BY <1>3, <1>11 DEF LateReply
<1>12. CASE Restart
  BY <1>1, <1>12, RestoredForm DEF NeverEmpty
<1>. QED  BY <1>4, <1>5, <1>6, <1>7, <1>8, <1>9, <1>10, <1>11, <1>12 DEF Next, LoopStep

(* The types and message 0 are kept by every step.                         *)
LEMMA TypeStep ==
    ASSUME TypeOK, NeverEmpty, [Next]_vars
    PROVE  TypeOK' /\ NeverEmpty'
<1>1. ASSUME Next PROVE TypeOK' /\ NeverEmpty'
  <2>1. TypeOK'
    BY <1>1, PipelineType, RequestType, RunBatchType, EndRoundType, UnwindType,
       CompactionType, PersonType, LateReplyType, RestartType DEF Next, LoopStep
  <2>. QED  BY <1>1, <2>1, NeverEmptyStep
<1>2. ASSUME UNCHANGED vars PROVE TypeOK' /\ NeverEmpty'
  BY <1>2 DEF vars, conversation, batch, modes, steering, middleware, counts, TypeOK, NeverEmpty
<1>. QED  BY <1>1, <1>2

(* Every variable keeps its type, on every path the loop, the person and   *)
(* the surroundings can take: what TLC finds on the small instances holds  *)
(* for any number of keys, turns, replies and budgets.                     *)
THEOREM TypeCorrect == Spec => [](TypeOK /\ NeverEmpty)
<1>1. Init => TypeOK /\ NeverEmpty
  <2>1. Says("system") \in Message
    BY MessageForms DEF Kinds
  <2>2. ASSUME Init PROVE msgs \in Seq(Message) /\ NeverEmpty
    BY <2>1, <2>2 DEF Init, NeverEmpty
  <2>3. ASSUME Init
        PROVE  /\ inTurn \in BOOLEAN /\ userCancel \in BOOLEAN /\ suspended \in BOOLEAN
               /\ answerOnly \in BOOLEAN /\ drainDue \in BOOLEAN /\ wasActive \in BOOLEAN
               /\ ctxFull \in BOOLEAN /\ noticeLost \in BOOLEAN
               /\ budget \in [turn : Nat, calls : Nat, asked : BOOLEAN]
    BY <2>3 DEF Init
  <2>4. ASSUME Init
        PROVE  /\ pc \in Places /\ profile \in {"plan", "other"}
               /\ todo = {} /\ running = {} /\ late = {}
               /\ queue = 0 /\ nudges = 0 /\ turn = 0 /\ replies = 0
               /\ llmCalls = 0 /\ compactions = 0 /\ upsets = 0
    BY <2>4 DEF Init, Places
  <2>. QED  BY <2>2, <2>3, <2>4 DEF TypeOK
<1>2. (TypeOK /\ NeverEmpty) /\ [Next]_vars => (TypeOK /\ NeverEmpty)'
  BY TypeStep
<1>. QED  BY <1>1, <1>2, PTL DEF Spec

-----------------------------------------------------------------------------
(* The step budget. *)

(* Why the cap holds. The budget's record is of this turn or of an earlier *)
(* one. Before the pipeline first reaches the budget in a turn, the only   *)
(* requests are those of automatic compactions. From then on every other   *)
(* request is in the record, which stays within the cap until the write-up *)
(* is asked for; once it is, the record is over the cap for good, and the  *)
(* next request the budget is asked about stops the turn.                  *)
BudgetLedger ==
    /\ budget.turn <= turn
    /\ (MaxLLMCalls > 0 /\ inTurn) =>
         /\ budget.turn # turn => llmCalls <= compactions
         /\ (budget.turn = turn /\ ~budget.asked) =>
               /\ llmCalls <= compactions + budget.calls
               /\ budget.calls <= MaxLLMCalls
         /\ (budget.turn = turn /\ budget.asked) =>
               /\ llmCalls <= compactions + MaxLLMCalls + 1
               /\ budget.calls > MaxLLMCalls

(* Only these steps write what the ledger reads. *)
LEMMA LedgerUntouched ==
    ASSUME Next, ~BeginLLMCall, ~StopSpent, ~EndCompact, ~BeginCompact, ~Restart,
           \A isAnswerOnly \in BOOLEAN : ~Act(isAnswerOnly)
    PROVE  UNCHANGED <<budget, turn, inTurn, llmCalls, compactions>>
<1>1. CASE Pipeline
  BY <1>1 DEF Pipeline, StopByLimit, BeginAutoCompact, StopRepeating, middleware, counts
<1>2. CASE Request
  BY <1>2 DEF Request, RequestFails, Reply, middleware, counts
<1>3. CASE RunBatch
  BY <1>3 DEF RunBatch, RefuseCall, SkipRepeat, StartTool, SkipCall, FinishTool, middleware, counts
<1>4. CASE EndRound
  BY <1>4 DEF EndRound, StopOnBackOut, NextRound, Nudge, Finish, middleware, counts
<1>5. CASE Unwind
  BY <1>5 DEF Unwind, Unwound, UnwindTool, middleware, counts
<1>6. CASE Compaction
  BY <1>6 DEF Compaction, SummaryArrives, CompactFails, middleware, counts
<1>7. CASE Person
  BY <1>7 DEF Person, QueueSteering, DrainSteering, SwitchAgent, Interrupt, InterruptInTool,
              InterruptElsewhere, conversation, middleware, counts
<1>8. ASSUME NEW c \in late, LateReply(c)
      PROVE  UNCHANGED <<budget, turn, inTurn, llmCalls, compactions>>
  BY <1>8 DEF LateReply, middleware, counts
<1>. QED  BY <1>1, <1>2, <1>3, <1>4, <1>5, <1>6, <1>7, <1>8 DEF Next, LoopStep

(* A counted request keeps the ledger.                                     *)
LEMMA LedgerBeginLLMCall ==
    ASSUME TypeOK, BudgetLedger, BeginLLMCall
    PROVE  BudgetLedger'
<1>1. /\ budget \in [turn : Nat, calls : Nat, asked : BOOLEAN]
      /\ turn \in Nat /\ llmCalls \in Nat /\ compactions \in Nat /\ MaxLLMCalls \in Nat
  BY ConstantsAssumption DEF TypeOK, ConstantsAssumption
<1>2. /\ llmCalls' = llmCalls + 1
      /\ turn' = turn /\ compactions' = compactions /\ inTurn' = inTurn
      /\ ~(OverBudget /\ CountedBudget.asked)
      /\ budget' = [CountedBudget EXCEPT !.asked = OverBudget \/ @]
  BY DEF BeginLLMCall
<1>3. CASE MaxLLMCalls = 0
  BY <1>1, <1>2, <1>3 DEF CountedBudget, OverBudget, BudgetLedger
<1>4. CASE MaxLLMCalls > 0 /\ budget.turn # turn
  <2>1. CountedBudget = [turn |-> turn, calls |-> 1, asked |-> FALSE]
    BY <1>1, <1>4 DEF CountedBudget
  <2>2. ~OverBudget
    BY <1>1, <1>4, <2>1 DEF OverBudget
  <2>3. budget'.turn = turn /\ budget'.calls = 1 /\ ~budget'.asked
    BY <1>2, <2>1, <2>2
  <2>. QED  BY <1>1, <1>2, <1>4, <2>3 DEF BudgetLedger
<1>5. CASE MaxLLMCalls > 0 /\ budget.turn = turn
  <2>1. /\ CountedBudget.turn = turn
        /\ CountedBudget.calls = budget.calls + 1
        /\ CountedBudget.asked = budget.asked
        /\ CountedBudget \in [turn : Nat, calls : Nat, asked : BOOLEAN]
    BY <1>1, <1>5 DEF CountedBudget
  <2>2. /\ budget'.turn = turn /\ budget'.calls = budget.calls + 1
        /\ budget'.asked <=> (OverBudget \/ budget.asked)
    BY <1>2, <2>1
  <2>3. OverBudget <=> budget.calls + 1 > MaxLLMCalls
    BY <1>5, <2>1 DEF OverBudget
  <2>4. ASSUME inTurn, budget.asked PROVE FALSE
    BY <1>1, <1>2, <1>5, <2>1, <2>3, <2>4 DEF BudgetLedger
  <2>5. CASE ~inTurn
    BY <1>1, <1>2, <2>2, <2>5 DEF BudgetLedger
  <2>6. CASE inTurn /\ ~OverBudget
    BY <1>1, <1>2, <1>5, <2>2, <2>3, <2>4, <2>6 DEF BudgetLedger
  <2>7. CASE inTurn /\ OverBudget
    BY <1>1, <1>2, <1>5, <2>2, <2>3, <2>4, <2>7 DEF BudgetLedger
  <2>. QED  BY <2>5, <2>6, <2>7
<1>. QED  BY <1>1, <1>3, <1>4, <1>5

(* A turn stopped on a spent budget keeps the ledger.                      *)
LEMMA LedgerStopSpent ==
    ASSUME TypeOK, BudgetLedger, StopSpent
    PROVE  BudgetLedger'
<1>1. /\ budget \in [turn : Nat, calls : Nat, asked : BOOLEAN]
      /\ turn \in Nat /\ llmCalls \in Nat /\ compactions \in Nat /\ MaxLLMCalls \in Nat
  BY ConstantsAssumption DEF TypeOK, ConstantsAssumption
<1>2. /\ MaxLLMCalls > 0 /\ CountedBudget.asked /\ budget' = CountedBudget
      /\ turn' = turn /\ llmCalls' = llmCalls /\ compactions' = compactions /\ inTurn' = inTurn
  BY DEF StopSpent, OverBudget, counts
<1>3. budget.turn = turn
  BY <1>1, <1>2 DEF CountedBudget
<1>4. budget' = [budget EXCEPT !.calls = @ + 1]
  BY <1>1, <1>2, <1>3 DEF CountedBudget
<1>5. budget'.turn = turn /\ budget'.calls = budget.calls + 1
  BY <1>1, <1>3, <1>4
<1>6. budget'.asked
  BY <1>2
<1>7. budget'.asked = budget.asked
  BY <1>1, <1>4
<1>. QED  BY <1>1, <1>2, <1>3, <1>5, <1>6, <1>7 DEF BudgetLedger

(* The ledger is inductive.                                                *)
LEMMA LedgerStep ==
    ASSUME TypeOK, BudgetLedger, [Next]_vars
    PROVE  BudgetLedger'
<1>1. /\ budget \in [turn : Nat, calls : Nat, asked : BOOLEAN]
      /\ turn \in Nat /\ llmCalls \in Nat /\ compactions \in Nat /\ MaxLLMCalls \in Nat
  BY ConstantsAssumption DEF TypeOK, ConstantsAssumption
<1>2. ASSUME UNCHANGED <<budget, turn, inTurn, llmCalls, compactions>> PROVE BudgetLedger'
  BY <1>2 DEF BudgetLedger
<1>3. ASSUME NEW isAnswerOnly \in BOOLEAN, Act(isAnswerOnly) PROVE BudgetLedger'
  <2>1. turn' = turn + 1 /\ llmCalls' = 0 /\ compactions' = 0 /\ budget' = budget
    BY <1>3 DEF Act
  <2>2. budget.turn < turn'
    BY <1>1, <2>1 DEF BudgetLedger
  <2>. QED  BY <1>1, <2>1, <2>2 DEF BudgetLedger
<1>4. CASE EndCompact
  <2>1. budget' = budget /\ turn' = turn /\ inTurn' = inTurn
    BY <1>4 DEF EndCompact
  <2>2. inTurn => llmCalls' = llmCalls + 1 /\ compactions' = compactions + 1
    BY <1>4 DEF EndCompact
  <2>. QED  BY <1>1, <2>1, <2>2 DEF BudgetLedger
<1>5. CASE BeginCompact
  BY <1>5 DEF BeginCompact, BudgetLedger, middleware
<1>6. CASE Restart
  <2>1. inTurn' = FALSE /\ budget'.turn = 0 /\ turn' = turn
    BY <1>6 DEF Restart
  <2>. QED  BY <1>1, <2>1 DEF BudgetLedger
<1>7. CASE UNCHANGED vars
  BY <1>2, <1>7 DEF vars, conversation, middleware, counts
<1>. QED  BY <1>2, <1>3, <1>4, <1>5, <1>6, <1>7, LedgerUntouched, LedgerBeginLLMCall,
             LedgerStopSpent

(* However often the loop goes round, is interrupted, compacted, resumed   *)
(* or steered, one user message never causes more requests than the        *)
(* configured cap, the write-up, and one for each automatic compaction.    *)
THEOREM BudgetHolds == Spec => []BudgetCapsCounted
<1>1. Init => BudgetLedger
  BY DEF Init, BudgetLedger
<1>2. TypeOK /\ BudgetLedger /\ [Next]_vars => BudgetLedger'
  BY LedgerStep
<1>3. TypeOK /\ BudgetLedger => BudgetCapsCounted
  <2>1. ASSUME TypeOK PROVE /\ budget \in [turn : Nat, calls : Nat, asked : BOOLEAN]
                            /\ turn \in Nat /\ llmCalls \in Nat /\ compactions \in Nat
                            /\ MaxLLMCalls \in Nat
    BY <2>1, ConstantsAssumption DEF TypeOK, ConstantsAssumption
  <2>. QED  BY <2>1 DEF BudgetLedger, BudgetCapsCounted
<1>. QED  BY <1>1, <1>2, <1>3, TypeCorrect, PTL DEF Spec

-----------------------------------------------------------------------------
(* Who runs beside whom. *)

(* A new batch can only come in when nothing of the last one runs any      *)
(* more: every way out of a batch waits for its tools or drops them.       *)
BatchInv ==
    /\ MutatorsRunAlone
    /\ pc \notin {"batch", "unwind"} => running = {}

(* A step that starts no tool and takes in no new batch, and leaves the    *)
(* batch only when it is empty.                                            *)
LEMMA BatchShrinks ==
    ASSUME BatchInv, running' \subseteq running, todo' \subseteq todo,
           pc' \notin {"batch", "unwind"} => running' = {}
    PROVE  BatchInv'
<1>1. ASSUME NEW c \in running', Mutates(c)'
      PROVE  running' = {c} /\ \A d \in todo' : Mutates(d)'
  <2>1. c \in running /\ Mutates(c)
    BY <1>1 DEF Mutates
  <2>2. running = {c} /\ \A d \in todo : Mutates(d)
    BY <2>1 DEF BatchInv, MutatorsRunAlone
  <2>. QED  BY <2>2 DEF Mutates
<1>. QED  BY <1>1 DEF BatchInv, MutatorsRunAlone

(* Starting a tool keeps the batch invariant.                              *)
LEMMA BatchStartTool ==
    ASSUME BatchInv, NEW c \in todo, StartTool(c)
    PROVE  BatchInv'
<1>1. /\ Ready(c) /\ \A d \in running : ~Mutates(d)
      /\ running' = running \union {c} /\ todo' = todo \ {c} /\ pc' = pc /\ pc = "batch"
  BY DEF StartTool
<1>2. CASE Mutates(c)
  <2>1. running' = {c} /\ \A d \in todo' : Mutates(d)
    BY <1>1, <1>2 DEF Ready
  <2>. QED  BY <1>1, <2>1 DEF BatchInv, MutatorsRunAlone, Mutates
<1>3. CASE ~Mutates(c)
  <2>1. \A d \in running' : ~Mutates(d)
    BY <1>1, <1>3
  <2>. QED  BY <1>1, <2>1 DEF BatchInv, MutatorsRunAlone, Mutates
<1>. QED  BY <1>2, <1>3

(* The batch invariant is inductive.                                       *)
LEMMA BatchStep ==
    ASSUME BatchInv, [Next]_vars
    PROVE  BatchInv'
<1>1. CASE Pipeline
  BY <1>1, BatchShrinks DEF Pipeline, StopByLimit, BeginAutoCompact, StopRepeating, StopSpent,
     BeginLLMCall, EndTurn, BatchInv, batch
<1>2. CASE Request
  <2>1. CASE RequestFails
    BY <2>1, BatchShrinks DEF RequestFails, EndTurn, BatchInv
  <2>2. ASSUME NEW keys \in SUBSET Keys, Reply(keys) PROVE BatchInv'
    <3>1. running = {} /\ running' = running
      BY <2>2 DEF Reply, BatchInv
    <3>. QED  BY <3>1 DEF BatchInv, MutatorsRunAlone
  <2>. QED  BY <1>2, <2>1, <2>2 DEF Request
<1>3. CASE RunBatch
  <2>1. ASSUME NEW c \in todo, StartTool(c) PROVE BatchInv'
    BY <2>1, BatchStartTool
  <2>2. ASSUME NEW c \in todo, RefuseCall(c) \/ SkipRepeat(c) PROVE BatchInv'
    BY <2>2, BatchShrinks DEF RefuseCall, SkipRepeat, BatchInv
  <2>3. ASSUME NEW c \in todo, NEW backedOut \in BOOLEAN, SkipCall(c, backedOut)
        PROVE  BatchInv'
    BY <2>3, BatchShrinks DEF SkipCall, BatchInv
  <2>4. ASSUME NEW c \in running, NEW backedOut \in BOOLEAN, FinishTool(c, backedOut)
        PROVE  BatchInv'
    BY <2>4, BatchShrinks DEF FinishTool, BatchInv
  <2>. QED  BY <1>3, <2>1, <2>2, <2>3, <2>4 DEF RunBatch
<1>4. CASE EndRound
  BY <1>4, BatchShrinks DEF EndRound, StopOnBackOut, NextRound, Nudge, Finish, RoundOver,
     EndTurn, BatchInv, batch
<1>5. CASE Unwind
  BY <1>5, BatchShrinks DEF Unwind, Unwound, UnwindTool, EndTurn, BatchInv
<1>6. CASE Compaction
  BY <1>6, BatchShrinks DEF Compaction, SummaryArrives, EndCompact, CompactFails, EndTurn,
     BatchInv, batch
<1>7. CASE Person
  <2>1. ASSUME NEW isAnswerOnly \in BOOLEAN, Act(isAnswerOnly) PROVE BatchInv'
    BY <2>1, BatchShrinks DEF Act, BatchInv
  <2>2. CASE BeginCompact \/ QueueSteering \/ DrainSteering \/ SwitchAgent
    BY <2>2, BatchShrinks DEF BeginCompact, QueueSteering, DrainSteering, SwitchAgent,
       conversation, BatchInv, batch
  <2>3. CASE Interrupt
    BY <2>3, BatchShrinks DEF Interrupt, InterruptInTool, InterruptElsewhere, EndTurn, BatchInv
  <2>. QED  BY <1>7, <2>1, <2>2, <2>3 DEF Person
<1>8. ASSUME NEW c \in late, LateReply(c) PROVE BatchInv'
  BY <1>8, BatchShrinks DEF LateReply, BatchInv
<1>9. CASE Restart
  BY <1>9, BatchShrinks DEF Restart, BatchInv
<1>10. CASE UNCHANGED vars
  BY <1>10, BatchShrinks DEF vars, conversation, batch, BatchInv
<1>. QED  BY <1>1, <1>2, <1>3, <1>4, <1>5, <1>6, <1>7, <1>8, <1>9, <1>10 DEF Next, LoopStep

(* Whatever the batch, and whenever the turn is interrupted: a tool that   *)
(* changes files has the workspace to itself, and every read-only call of  *)
(* its batch was taken up before it.                                       *)
THEOREM MutatorsAlone == Spec => []MutatorsRunAlone
<1>1. Init => BatchInv
  BY DEF Init, BatchInv, MutatorsRunAlone
<1>2. BatchInv /\ [Next]_vars => BatchInv'
  BY BatchStep
<1>3. BatchInv => MutatorsRunAlone
  BY DEF BatchInv
<1>. QED  BY <1>1, <1>2, <1>3, PTL DEF Spec

-----------------------------------------------------------------------------
(* The calls of a conversation. *)

(* No call is of two replies. *)
CallsApart(ms) ==
    \A i, j \in 1..Len(ms) : (i # j /\ MakesCalls(ms[i]) /\ MakesCalls(ms[j])) =>
        ms[i].calls \intersect ms[j].calls = {}

(* The calls are of replies up to number r, so that the next one's are new. *)
Issued(ms, r) ==
    \A i \in 1..Len(ms) : MakesCalls(ms[i]) => \A c \in ms[i].calls : c[1] <= r

(* Messages that are no replies. *)
Others(ext) == \A n \in 1..Len(ext) : ext[n].kind # "assistant"


(* What is where after a concatenation. *)
LEMMA Joined ==
    ASSUME NEW ms \in Seq(Message), NEW ext \in Seq(Message)
    PROVE  /\ ms \o ext \in Seq(Message)
           /\ Len(ms) \in Nat /\ Len(ext) \in Nat /\ Len(ms \o ext) = Len(ms) + Len(ext)
           /\ \A i \in 1..Len(ms) : (ms \o ext)[i] = ms[i]
           /\ \A n \in 1..Len(ext) : (ms \o ext)[Len(ms) + n] = ext[n]
<1>1. Len(ms) \in Nat /\ Len(ext) \in Nat /\ Len(ms \o ext) = Len(ms) + Len(ext)
  OBVIOUS
<1>2. ms \o ext \in Seq(Message)
  OBVIOUS
<1>3. \A i \in 1..Len(ms) : (ms \o ext)[i] = ms[i]
  BY <1>1, ConcatProperties
<1>4. \A n \in 1..Len(ext) : (ms \o ext)[Len(ms) + n] = ext[n]
  BY <1>1, ConcatProperties
<1> QED
  BY <1>1, <1>2, <1>3, <1>4

(* An append is the concatenation of one message, which is then last. *)
LEMMA OneMore ==
    ASSUME NEW ms \in Seq(Message), NEW m \in Message
    PROVE  /\ Append(ms, m) = ms \o <<m>> /\ <<m>> \in Seq(Message)
           /\ Len(<<m>>) = 1 /\ <<m>>[1] = m /\ <<m>> # <<>>
           /\ Append(ms, m) # <<>> /\ Last(Append(ms, m)) = m
<1>1. <<m>> \in Seq(Message) /\ Len(<<m>>) = 1 /\ <<m>>[1] = m /\ <<m>> # <<>>
  OBVIOUS
<1>2. Append(ms, m) = ms \o <<m>>
  BY AppendIsConcat
<1>3. Append(ms, m) # <<>> /\ Last(Append(ms, m)) = m
  <2>1. Len(ms) \in Nat /\ Len(Append(ms, m)) = Len(ms) + 1 /\ Append(ms, m)[Len(ms) + 1] = m
    OBVIOUS
  <2> QED
    BY <2>1 DEF Last
<1> QED
  BY <1>1, <1>2, <1>3

(* Messages that are no replies leave those of the turn, or, when one of   *)
(* them is the user's, end their run.                                      *)
LEMMA RepliesAfter ==
    ASSUME NEW ms \in Seq(Message), NEW ext \in Seq(Message),
           Others(ext)
    PROVE  /\ (\A n \in 1..Len(ext) : ~SpokenByUser(ext[n])) =>
                 AssistantsThisTurn(ms \o ext) = AssistantsThisTurn(ms)
           /\ (\E n \in 1..Len(ext) : SpokenByUser(ext[n])) =>
                 AssistantsThisTurn(ms \o ext) = {}
<1> DEFINE new == ms \o ext
           L == Len(ms)
<1>1. /\ L \in Nat /\ Len(ext) \in Nat /\ Len(new) = L + Len(ext)
      /\ \A i \in 1..L : new[i] = ms[i]
      /\ \A n \in 1..Len(ext) : new[L + n] = ext[n]
  BY Joined
<1> HIDE DEF new
<1>2. ASSUME NEW i \in 1..Len(new), i \notin 1..L
      PROVE  i - L \in 1..Len(ext) /\ new[i] = ext[i - L]
  <2>1. i - L \in 1..Len(ext) /\ L + (i - L) = i
    BY <1>1, <1>2
  <2> QED
    BY <1>1, <2>1
<1>3. \A i \in AssistantsThisTurn(new) : i \in 1..L /\ new[i] = ms[i] /\ ms[i].kind = "assistant"
  <2>1. \A i \in AssistantsThisTurn(new) : i \in 1..Len(new) /\ new[i].kind = "assistant"
    BY DEF AssistantsThisTurn
  <2> QED
    BY <1>1, <1>2, <2>1 DEF Others
<1>4. ASSUME \A n \in 1..Len(ext) : ~SpokenByUser(ext[n])
      PROVE  AssistantsThisTurn(new) = AssistantsThisTurn(ms)
  <2>1. ASSUME NEW i \in AssistantsThisTurn(new) PROVE i \in AssistantsThisTurn(ms)
    <3>1. i \in 1..L /\ ms[i].kind = "assistant"
      BY <1>3
    <3>2. ASSUME NEW j \in (i+1)..L PROVE ~SpokenByUser(ms[j])
      <4>1. j \in (i+1)..Len(new) /\ j \in 1..L
        BY <1>1, <3>1
      <4> QED
        BY <1>1, <4>1 DEF AssistantsThisTurn
    <3> QED
      BY <3>1, <3>2 DEF AssistantsThisTurn
  <2>2. ASSUME NEW i \in AssistantsThisTurn(ms) PROVE i \in AssistantsThisTurn(new)
    <3>1. i \in 1..L /\ i \in 1..Len(new) /\ new[i].kind = "assistant"
      BY <1>1 DEF AssistantsThisTurn
    <3>2. ASSUME NEW j \in (i+1)..Len(new) PROVE ~SpokenByUser(new[j])
      <4>1. CASE j \in 1..L
        <5>1. j \in (i+1)..L
          BY <4>1
        <5> QED
          BY <1>1, <4>1, <5>1 DEF AssistantsThisTurn
      <4>2. CASE j \notin 1..L
        <5>1. j \in 1..Len(new)
          BY <3>1
        <5> QED
          BY <1>2, <1>4, <4>2, <5>1
      <4> QED
        BY <4>1, <4>2
    <3> QED
      BY <3>1, <3>2 DEF AssistantsThisTurn
  <2> QED
    BY <2>1, <2>2
<1>5. ASSUME NEW n \in 1..Len(ext), SpokenByUser(ext[n])
      PROVE  AssistantsThisTurn(new) = {}
  <2> SUFFICES ASSUME NEW i \in AssistantsThisTurn(new) PROVE FALSE
    OBVIOUS
  <2>1. L + n \in (i+1)..Len(new) /\ new[L + n] = ext[n]
    BY <1>1, <1>3
  <2> QED
    BY <1>5, <2>1 DEF AssistantsThisTurn
<1> QED
  BY <1>4, <1>5 DEF new

(* Whether a call repeats depends on the replies of the turn only. *)
LEMMA SameRepeats ==
    ASSUME NEW ms, NEW new, NEW n, AssistantsThisTurn(new) = AssistantsThisTurn(ms),
           \A i \in AssistantsThisTurn(ms) : new[i] = ms[i]
    PROVE  RepeatedInAll(new, n) <=> RepeatedInAll(ms, n)
<1>1. NewestAssistants(new, n) = NewestAssistants(ms, n)
  BY DEF NewestAssistants
<1>2. \A i \in NewestAssistants(ms, n) : KeysAt(new, i) = KeysAt(ms, i)
  BY DEF NewestAssistants, KeysAt
<1> QED
  BY <1>1, <1>2 DEF RepeatedInAll

(* Where no reply is, none repeats. *)
LEMMA NoRepliesNoRepeats ==
    ASSUME NEW ms, NEW n, AssistantsThisTurn(ms) = {}
    PROVE  ~RepeatedInAll(ms, n)
  BY DEF NewestAssistants, RepeatedInAll

(* Messages that are no replies make no call repeat. *)
LEMMA OthersRepeatNothing ==
    ASSUME NEW ms \in Seq(Message), NEW ext \in Seq(Message), NEW n,
           Others(ext)
    PROVE  /\ RepeatedInAll(ms \o ext, n) => RepeatedInAll(ms, n)
           /\ (\A k \in 1..Len(ext) : ~SpokenByUser(ext[k])) =>
                 (RepeatedInAll(ms, n) => RepeatedInAll(ms \o ext, n))
<1>1. \A i \in AssistantsThisTurn(ms) : (ms \o ext)[i] = ms[i]
  BY Joined DEF AssistantsThisTurn
<1>2. CASE \A k \in 1..Len(ext) : ~SpokenByUser(ext[k])
  <2>1. AssistantsThisTurn(ms \o ext) = AssistantsThisTurn(ms)
    BY <1>2, RepliesAfter
  <2> QED
    BY <1>1, <2>1, SameRepeats
<1>3. CASE \E k \in 1..Len(ext) : SpokenByUser(ext[k])
  <2>1. AssistantsThisTurn(ms \o ext) = {}
    BY <1>3, RepliesAfter
  <2> QED
    BY <1>3, <2>1, NoRepliesNoRepeats
<1> QED
  BY <1>2, <1>3

(* The replies of a turn are finitely many positions. *)
LEMMA RepliesFinite ==
    ASSUME NEW ms \in Seq(Message)
    PROVE  /\ AssistantsThisTurn(ms) \subseteq 1..Len(ms)
           /\ \A T \in SUBSET AssistantsThisTurn(ms) : IsFiniteSet(T) /\ Cardinality(T) \in Nat
<1>1. AssistantsThisTurn(ms) \subseteq 1..Len(ms) /\ Len(ms) \in Nat
  BY DEF AssistantsThisTurn
<1>2. IsFiniteSet(1..Len(ms))
  BY <1>1, FS_Interval
<1>3. \A T \in SUBSET AssistantsThisTurn(ms) : IsFiniteSet(T)
  BY <1>1, <1>2, FS_Subset
<1> QED
  BY <1>1, <1>3, FS_CardinalityType

(* A new reply is the newest of its turn, and the others move one back. *)
LEMMA NewestOfLonger ==
    ASSUME NEW ms \in Seq(Message), NEW m \in Message, m.kind = "assistant",
           NEW n \in Nat, NewestAssistants(Append(ms, m), n + 1) # {}
    PROVE  /\ NewestAssistants(Append(ms, m), n + 1) = NewestAssistants(ms, n) \union {Len(ms) + 1}
           /\ n # 0 => NewestAssistants(ms, n) # {}
<1> DEFINE new == Append(ms, m)
           L == Len(ms)
           A == AssistantsThisTurn(ms)
           B == AssistantsThisTurn(new)
           Newer(i) == {j \in A : j > i}
           near == {i \in A : Cardinality(Newer(i)) < n}
           near2 == {i \in B : Cardinality({j \in B : j > i}) < n + 1}
<1>1. /\ L \in Nat /\ Len(new) = L + 1 /\ new[L + 1] = m
      /\ \A i \in 1..L : new[i] = ms[i]
  BY AppendProperties
<1>2. ~SpokenByUser(m)
  BY DEF SpokenByUser
<1> HIDE DEF new
<1>3. B = A \union {L + 1}
  <2>1. L + 1 \in B
    BY <1>1 DEF AssistantsThisTurn
  <2>2. ASSUME NEW i \in 1..L PROVE i \in B <=> i \in A
    <3>1. \A j \in (i+1)..(L+1) : (j \in 1..L /\ j \in (i+1)..L) \/ j = L + 1
      BY <1>1
    <3>2. \A j \in (i+1)..L : j \in (i+1)..(L+1) /\ j \in 1..L
      BY <1>1
    <3>3. i \in 1..(L + 1)
      BY <1>1
    <3> QED
      BY <1>1, <1>2, <3>1, <3>2, <3>3 DEF AssistantsThisTurn
  <2>3. B \subseteq 1..(L + 1) /\ A \subseteq 1..L
    BY <1>1 DEF AssistantsThisTurn
  <2> QED
    BY <1>1, <2>1, <2>2, <2>3
<1>4. A \subseteq 1..L /\ \A T \in SUBSET A : IsFiniteSet(T) /\ Cardinality(T) \in Nat
  BY RepliesFinite
<1> HIDE DEF A, B
<1>5. ASSUME NEW i \in A
      PROVE  Cardinality({j \in B : j > i}) = Cardinality(Newer(i)) + 1
  <2>1. {j \in B : j > i} = Newer(i) \union {L + 1}
    BY <1>1, <1>3, <1>4
  <2>2. L + 1 \notin Newer(i) /\ Newer(i) \in SUBSET A
    BY <1>1, <1>4
  <2> HIDE DEF Newer
  <2>3. IsFiniteSet(Newer(i))
    BY <1>4, <2>2
  <2> QED
    BY <2>1, <2>2, <2>3, FS_AddElement
<1>6. Cardinality({j \in B : j > L + 1}) = 0
  <2>1. ASSUME NEW j \in B, j > L + 1 PROVE FALSE
    <3>1. j = L + 1 \/ j \in 1..L
      BY <1>3, <1>4
    <3> QED
      BY <1>1, <2>1, <3>1
  <2>2. {j \in B : j > L + 1} = {}
    BY <2>1
  <2> QED
    BY <2>2, FS_EmptySet
<1>7. near2 = near \union {L + 1}
  <2>1. \A i \in A : Cardinality(Newer(i)) \in Nat
    BY <1>4
  <2>2. ASSUME NEW i \in B PROVE i \in near2 <=> i \in near \union {L + 1}
    <3>1. CASE i = L + 1
      BY <1>6, <3>1
    <3>2. CASE i \in A /\ i # L + 1
      BY <1>5, <2>1, <3>2
    <3> QED
      BY <1>3, <3>1, <3>2
  <2>3. near2 \subseteq B /\ near \union {L + 1} \subseteq B
    BY <1>3
  <2> QED
    BY <2>2, <2>3
<1>8. L + 1 \notin near /\ near \in SUBSET A
  BY <1>1, <1>4
<1>9. IsFiniteSet(near) /\ Cardinality(near) \in Nat
  BY <1>4, <1>8
<1>10. NewestAssistants(ms, n) = IF Cardinality(near) = n THEN near ELSE {}
  BY DEF NewestAssistants, A
<1>11. NewestAssistants(new, n + 1) = IF Cardinality(near2) = n + 1 THEN near2 ELSE {}
  BY DEF NewestAssistants, B
<1> HIDE DEF near, near2
<1>12. Cardinality(near2) = Cardinality(near) + 1
  BY <1>7, <1>8, <1>9, FS_AddElement
<1>13. Cardinality(near) = n
  BY <1>9, <1>11, <1>12 DEF new
<1>14. n # 0 => near # {}
  BY <1>9, <1>13, FS_EmptySet
<1> QED
  BY <1>7, <1>10, <1>11, <1>12, <1>13, <1>14 DEF new

(* A call that is in all of the n + 1 newest replies was in the n before. *)
LEMMA RepeatsGrowByOne ==
    ASSUME NEW ms \in Seq(Message), NEW m \in Message, m.kind = "assistant",
           NEW n \in Nat \ {0}, RepeatedInAll(Append(ms, m), n + 1)
    PROVE  RepeatedInAll(ms, n)
<1>1. /\ NewestAssistants(Append(ms, m), n + 1) = NewestAssistants(ms, n) \union {Len(ms) + 1}
      /\ NewestAssistants(ms, n) # {}
  BY NewestOfLonger DEF RepeatedInAll
<1>2. \A i \in NewestAssistants(ms, n) : i \in 1..Len(ms) /\ Append(ms, m)[i] = ms[i]
  BY AppendProperties DEF NewestAssistants, AssistantsThisTurn
<1>3. PICK k \in Keys : \A i \in NewestAssistants(Append(ms, m), n + 1) : k \in KeysAt(Append(ms, m), i)
  BY DEF RepeatedInAll
<1>4. \A i \in NewestAssistants(ms, n) : k \in KeysAt(ms, i)
  BY <1>1, <1>2, <1>3 DEF KeysAt
<1> QED
  BY <1>1, <1>4 DEF RepeatedInAll

(* No step but a reply adds calls: messages that are none keep what is     *)
(* true of the calls, and so does taking them away again.                  *)
LEMMA OthersCallNothing ==
    ASSUME NEW ms \in Seq(Message), NEW ext \in Seq(Message), Others(ext), NEW r
    PROVE  (CallsApart(ms) /\ Issued(ms, r)) <=> (CallsApart(ms \o ext) /\ Issued(ms \o ext, r))
<1> DEFINE new == ms \o ext
           L == Len(ms)
<1>1. /\ L \in Nat /\ Len(ext) \in Nat /\ Len(new) = L + Len(ext)
      /\ \A i \in 1..L : new[i] = ms[i]
      /\ \A n \in 1..Len(ext) : new[L + n] = ext[n]
  BY Joined
<1> HIDE DEF new
<1>2. ASSUME NEW i \in 1..Len(new), MakesCalls(new[i])
      PROVE  i \in 1..L
  <2> SUFFICES ASSUME i \notin 1..L PROVE FALSE
    OBVIOUS
  <2>1. i - L \in 1..Len(ext) /\ L + (i - L) = i
    BY <1>1
  <2>2. new[i].kind # "assistant"
    BY <1>1, <2>1 DEF Others
  <2> QED
    BY <1>2, <2>2 DEF MakesCalls
<1>3. 1..L \subseteq 1..Len(new)
  BY <1>1
<1>4. CallsApart(ms) <=> CallsApart(new)
  BY <1>1, <1>2, <1>3 DEF CallsApart
<1>5. Issued(ms, r) <=> Issued(new, r)
  BY <1>1, <1>2, <1>3 DEF Issued
<1> QED
  BY <1>4, <1>5 DEF new

-----------------------------------------------------------------------------
(* How a step changes the conversation and the batch. *)

(* A step that asks for nothing new of the model's answers: no reply comes *)
(* in, the batch only shrinks, and at most one message is added.           *)
Aside ==
    /\ UNCHANGED <<replies, wasActive, noticeLost, answerOnly, suspended>>
    /\ todo' \subseteq todo
    /\ \/ msgs' = msgs /\ (pc' = pc \/ pc' \in {"idle", "unwind"})
       \/ pc' = pc /\ \E c \in CallId : msgs' = Append(msgs, Answers(c))
       \/ pc' = "asking" /\ msgs' = Append(msgs, Says("ask"))
       \/ pc' = "nudged" /\ msgs' = Append(msgs, Says("nudge"))

(* Every step but these is such a step. *)
LEMMA Moves ==
    ASSUME TypeOK, [Next]_vars, ~BeginLLMCall, ~NextRound, ~SummaryArrives, ~EndCompact,
           ~Restart, \A isAnswerOnly \in BOOLEAN : ~Act(isAnswerOnly),
           \A keys \in SUBSET Keys : ~Reply(keys)
    PROVE  Aside
<1> USE DEF Aside, modes, middleware, counts
<1>. todo \subseteq CallId /\ running \subseteq CallId /\ late \subseteq CallId
  BY DEF TypeOK
<1>1. CASE Pipeline
  BY <1>1 DEF Pipeline, StopByLimit, BeginAutoCompact, StopRepeating, StopSpent, EndTurn, batch
<1>2. CASE Request
  BY <1>2 DEF Request, RequestFails, EndTurn
<1>3. CASE RunBatch
  <2>1. ASSUME NEW c \in todo, RefuseCall(c) \/ SkipRepeat(c) \/ StartTool(c) PROVE Aside
    BY <2>1 DEF RefuseCall, SkipRepeat, StartTool
  <2>2. ASSUME NEW c \in todo, NEW backedOut \in BOOLEAN, SkipCall(c, backedOut) PROVE Aside
    BY <2>2 DEF SkipCall
  <2>3. ASSUME NEW c \in running, NEW backedOut \in BOOLEAN, FinishTool(c, backedOut) PROVE Aside
    BY <2>3 DEF FinishTool
  <2> QED
    BY <1>3, <2>1, <2>2, <2>3 DEF RunBatch
<1>4. CASE EndRound
  BY <1>4 DEF EndRound, StopOnBackOut, Nudge, Finish, EndTurn, batch
<1>5. CASE Unwind
  BY <1>5 DEF Unwind, Unwound, UnwindTool, EndTurn
<1>6. CASE Compaction
  BY <1>6 DEF Compaction, CompactFails, EndTurn
<1>7. CASE Person
  BY <1>7 DEF Person, BeginCompact, QueueSteering, DrainSteering, SwitchAgent, Interrupt,
              InterruptInTool, InterruptElsewhere, EndTurn, conversation, batch
<1>8. ASSUME NEW c \in late, LateReply(c) PROVE Aside
  BY <1>8 DEF LateReply
<1>9. CASE UNCHANGED vars
  BY <1>9 DEF vars, conversation, batch
<1> QED
  BY <1>1, <1>2, <1>3, <1>4, <1>5, <1>6, <1>7, <1>8, <1>9 DEF Next, LoopStep

(* The arithmetic of the next lemma. *)
LEMMA LessOne ==
    ASSUME NEW n \in Nat, n # 0, n # 1
    PROVE  1 <= n - 1 /\ (n - 1) - 1 + 1 = n - 1
  OBVIOUS

(* Dropping the last message is the other way round of appending it. *)
LEMMA LastTakenOff ==
    ASSUME NEW ms \in Seq(Message), ms # <<>>
    PROVE  LET cut == SubSeq(ms, 1, Len(ms) - 1)
           IN  cut \in Seq(Message) /\ Last(ms) \in Message /\ ms = cut \o <<Last(ms)>>
<1> DEFINE L == Len(ms)
           cut == SubSeq(ms, 1, L - 1)
<1>1. L \in Nat /\ L # 0 /\ L - 1 \in Nat /\ \A i \in 1..L : ms[i] \in Message
  BY EmptySeq, ElementOfSeq, LenProperties
<1>2. /\ cut \in Seq(Message) /\ Len(cut) = L - 1
      /\ \A i \in 1..(L - 1) : cut[i] = ms[i]
  <2>1. \A i \in 1..(L - 1) : ms[i] \in Message
    BY <1>1
  <2>2. 1 \in Int /\ L - 1 \in Int
    BY <1>1
  <2>3. /\ cut \in Seq(Message)
        /\ Len(cut) = IF 1 <= L - 1 THEN (L - 1) - 1 + 1 ELSE 0
        /\ \A i \in 1..((L - 1) - 1 + 1) : cut[i] = ms[1 + i - 1]
    BY <2>1, <2>2, SubSeqProperties
  <2> HIDE DEF cut
  <2>4. Len(cut) = L - 1
    <3>1. CASE L = 1
      BY <2>3, <3>1
    <3>2. CASE L # 1
      <4>1. 1 <= L - 1 /\ (L - 1) - 1 + 1 = L - 1
        BY <1>1, <3>2, LessOne
      <4> QED
        BY <2>3, <4>1
    <3> QED
      BY <3>1, <3>2
  <2>5. ASSUME NEW i \in 1..(L - 1) PROVE cut[i] = ms[i]
    <3>1. i \in 1..((L - 1) - 1 + 1) /\ 1 + i - 1 = i
      BY <1>1
    <3>2. cut[i] = ms[1 + i - 1]
      BY <2>3, <3>1
    <3> QED
      BY <3>1, <3>2
  <2> QED
    BY <2>3, <2>4, <2>5
<1>3. Last(ms) \in Message
  BY <1>1 DEF Last
<1> DEFINE again == Append(cut, Last(ms))
<1>4. /\ again \in Seq(Message) /\ Len(again) = L /\ again[L] = ms[L]
      /\ \A i \in 1..(L - 1) : again[i] = ms[i]
  BY <1>1, <1>2, <1>3, AppendProperties DEF Last
<1>5. \A i \in 1..L : again[i] = ms[i]
  BY <1>1, <1>4
<1>6. again = ms
  BY <1>1, <1>4, <1>5, SeqEqual
<1>7. again = cut \o <<Last(ms)>>
  BY <1>2, <1>3, OneMore
<1> QED
  BY <1>2, <1>3, <1>6, <1>7

-----------------------------------------------------------------------------
(* Loops are cut, and only wanted tools run. *)

(* A conversation in which no call is in more than Streak replies in a row. *)
Bounded(ms, r) ==
    ~RepeatedInAll(ms, Streak + 1) /\ CallsApart(ms) /\ Issued(ms, r)

(* The calls are of a reply that only responses follow, and that answers   *)
(* no write-up request.                                                    *)
Takes(ms, calls) ==
    \E i \in 2..Len(ms) :
        /\ MakesCalls(ms[i]) /\ calls \subseteq ms[i].calls
        /\ OnlyToolsAfter(ms, i) /\ ms[i-1].kind # "warn"

(* Why both hold. A request goes out only once the repeat breaker has seen *)
(* the conversation, or right after a compaction has emptied the turn of   *)
(* replies; it goes out with a write-up request last only when the calls   *)
(* of its reply are to be refused; and what a batch takes up is of the     *)
(* newest reply.                                                           *)
CallsInv ==
    /\ Bounded(msgs, replies)
    /\ pc = "llm" => ~RepeatedInAll(msgs, Streak)
    /\ pc = "counting" => AssistantsThisTurn(msgs) = {}
    /\ pc = "batch" => ~answerOnly /\ Takes(msgs, todo)
    /\ (pc = "llm" /\ Last(msgs).kind = "warn") => suspended
    /\ pc \in {"before", "nudged", "counting"} => Last(msgs).kind # "warn"

(* Messages that are no replies keep a conversation bounded.               *)
LEMMA OthersKeepBounds ==
    ASSUME NEW ms \in Seq(Message), NEW ext \in Seq(Message), Others(ext), NEW r, Bounded(ms, r)
    PROVE  ms \o ext \in Seq(Message) /\ Bounded(ms \o ext, r)
  BY Joined, OthersRepeatNothing, OthersCallNothing DEF Bounded

(* So does taking an injected message off its end.                         *)
LEMMA TakenOffKeepsBounds ==
    ASSUME NEW ms \in Seq(Message), NEW r, Bounded(ms, r)
    PROVE  /\ WithoutLastWarning(ms) \in Seq(Message) /\ Bounded(WithoutLastWarning(ms), r)
           /\ WithoutLastRefresh(ms) \in Seq(Message) /\ Bounded(WithoutLastRefresh(ms), r)
<1> DEFINE cut == SubSeq(ms, 1, Len(ms) - 1)
<1>1. ASSUME ms # <<>>, Last(ms).kind \in {"warn", "refresh"}
      PROVE  Bounded(cut, r)
  <2>1. cut \in Seq(Message) /\ Last(ms) \in Message /\ ms = cut \o <<Last(ms)>>
    BY <1>1, LastTakenOff
  <2> HIDE DEF cut
  <2>2. <<Last(ms)>> \in Seq(Message) /\ Len(<<Last(ms)>>) = 1 /\ <<Last(ms)>>[1] = Last(ms)
    BY <2>1, OneMore
  <2>3. Others(<<Last(ms)>>) /\ \A n \in 1..Len(<<Last(ms)>>) : ~SpokenByUser(<<Last(ms)>>[n])
    BY <1>1, <2>2 DEF Others, SpokenByUser
  <2>4. RepeatedInAll(cut, Streak + 1) => RepeatedInAll(cut \o <<Last(ms)>>, Streak + 1)
    BY <2>1, <2>2, <2>3, OthersRepeatNothing
  <2>5. CallsApart(cut) /\ Issued(cut, r)
    BY <2>1, <2>2, <2>3, OthersCallNothing DEF Bounded
  <2> QED
    BY <2>1, <2>4, <2>5 DEF Bounded
<1> QED
  BY <1>1, TailRepairType DEF WithoutLastWarning, WithoutLastRefresh

(* A message that is no reply leaves the conversation bounded, whatever is *)
(* asked of it.                                                            *)
LEMMA OneOther ==
    ASSUME NEW ms \in Seq(Message), NEW m \in Message, m.kind # "assistant", NEW r
    PROVE  /\ Bounded(ms, r) => Bounded(Append(ms, m), r)
           /\ \A n : RepeatedInAll(Append(ms, m), n) => RepeatedInAll(ms, n)
           /\ AssistantsThisTurn(ms) = {} => AssistantsThisTurn(Append(ms, m)) = {}
           /\ Last(Append(ms, m)) = m
<1>1. /\ Append(ms, m) = ms \o <<m>> /\ <<m>> \in Seq(Message)
      /\ Len(<<m>>) = 1 /\ <<m>>[1] = m /\ Last(Append(ms, m)) = m
  BY OneMore
<1>2. Others(<<m>>)
  BY <1>1 DEF Others
<1>3. Bounded(ms, r) => Bounded(Append(ms, m), r)
  BY <1>1, <1>2, OthersKeepBounds
<1>4. \A n : RepeatedInAll(Append(ms, m), n) => RepeatedInAll(ms, n)
  BY <1>1, <1>2, OthersRepeatNothing
<1>5. AssistantsThisTurn(ms) = {} => AssistantsThisTurn(Append(ms, m)) = {}
  BY <1>1, <1>2, RepliesAfter
<1> QED
  BY <1>1, <1>3, <1>4, <1>5

(* The responses of a repair are no replies. *)
LEMMA ShimsAreOthers ==
    ASSUME NEW calls \in FiniteCalls, NEW s \in AnswerSeqs(calls)
    PROVE  s \in Seq(Message) /\ Others(s)
<1>1. Cardinality(calls) \in Nat /\ s \in Seq(Message)
  BY AnswerSeqsType, FS_CardinalityType DEF FiniteCalls
<1>2. s \in [1..Cardinality(calls) -> {Answers(c) : c \in calls}]
  BY DEF AnswerSeqs
<1>3. Len(s) = Cardinality(calls)
  BY <1>1, <1>2, LenProperties
<1> QED
  BY <1>1, <1>2, <1>3 DEF Others, Answers

(* A batch keeps what it takes when it shrinks or gets a response.         *)
LEMMA TakesOn ==
    ASSUME NEW ms \in Seq(Message), NEW calls, NEW fewer \in SUBSET calls, Takes(ms, calls)
    PROVE  /\ Takes(ms, fewer)
           /\ \A c \in CallId : Takes(Append(ms, Answers(c)), fewer)
<1>1. PICK i \in 2..Len(ms) :
         /\ MakesCalls(ms[i]) /\ calls \subseteq ms[i].calls
         /\ OnlyToolsAfter(ms, i) /\ ms[i-1].kind # "warn"
  BY DEF Takes
<1>2. ASSUME NEW c \in CallId PROVE Takes(Append(ms, Answers(c)), fewer)
  <2> DEFINE new == Append(ms, Answers(c))
             L == Len(ms)
  <2>1. /\ L \in Nat /\ Len(new) = L + 1 /\ new[L + 1] = Answers(c)
        /\ \A n \in 1..L : new[n] = ms[n]
    BY MessageForms, AppendProperties
  <2> HIDE DEF new
  <2>2. i \in 2..Len(new) /\ i \in 1..L /\ i - 1 \in 1..L
    BY <2>1
  <2>3. ASSUME NEW j \in (i+1)..Len(new) PROVE new[j].kind = "tool"
    <3>1. CASE j = L + 1
      BY <2>1, <3>1 DEF Answers
    <3>2. CASE j # L + 1
      <4>1. j \in (i+1)..L /\ j \in 1..L
        BY <2>1, <2>2, <3>2
      <4> QED
        BY <1>1, <2>1, <4>1 DEF OnlyToolsAfter
    <3> QED
      BY <3>1, <3>2
  <2>4. new[i] = ms[i] /\ new[i-1] = ms[i-1]
    BY <2>1, <2>2
  <2>5. Takes(new, fewer)
    BY <1>1, <2>2, <2>3, <2>4 DEF Takes, OnlyToolsAfter
  <2> QED
    BY <2>5 DEF new
<1> QED
  BY <1>1, <1>2 DEF Takes

(* The pipeline lets a request through: no loop, and a write-up request    *)
(* only with the tools suspended.                                          *)
LEMMA CallsBegin ==
    ASSUME TypeOK, CallsInv, BeginLLMCall
    PROVE  CallsInv'
<1> DEFINE m == Injects(IF OverBudget THEN "warn" ELSE "inject", PlanNotice)
<1>1. /\ pc = "before" /\ pc' = "llm" /\ replies' = replies /\ ~RepeatedInAll(msgs, Streak)
      /\ suspended' = (OverBudget \/ suspended)
      /\ msgs' = IF OverBudget \/ PlanNotice # "none" THEN Append(msgs, m) ELSE msgs
  BY DEF BeginLLMCall, Looping
<1>2. m \in Message /\ m.kind = IF OverBudget THEN "warn" ELSE "inject"
  <2>1. PlanNotice \in {"none", "on", "off"} /\ (IF OverBudget THEN "warn" ELSE "inject") \in Kinds
    BY DEF PlanNotice, Kinds
  <2> QED
    BY <2>1, MessageForms DEF Injects
<1>3. /\ msgs \in Seq(Message) /\ Bounded(msgs, replies) /\ Last(msgs).kind # "warn"
  BY <1>1 DEF TypeOK, CallsInv
<1>4. CASE msgs' = msgs
  BY <1>1, <1>3, <1>4 DEF CallsInv
<1>5. CASE msgs' = Append(msgs, m)
  <2> HIDE DEF m
  <2>1. m.kind # "assistant"
    BY <1>2
  <2>2. Bounded(msgs', replies') /\ ~RepeatedInAll(msgs', Streak) /\ Last(msgs') = m
    BY <1>1, <1>2, <1>3, <1>5, <2>1, OneOther
  <2>3. Last(msgs').kind = "warn" => suspended'
    BY <1>1, <1>2, <2>2
  <2> QED
    BY <1>1, <2>2, <2>3 DEF CallsInv
<1> QED
  BY <1>1, <1>4, <1>5

(* The calls of a message are calls. *)
LEMMA CallsAreIds ==
    ASSUME NEW ms \in Seq(Message), NEW i \in 1..Len(ms)
    PROVE  ms[i].calls \subseteq CallId
<1>1. ms[i] \in Message
  BY ElementOfSeq
<1>2. ms[i].calls \in FiniteCalls
  BY <1>1 DEF Message
<1> QED
  BY <1>2 DEF FiniteCalls

(* A reply comes in: its calls are new, and a batch begins only when they  *)
(* may run.                                                                *)
LEMMA CallsReply ==
    ASSUME TypeOK, NeverEmpty, CallsInv, NEW keys \in SUBSET Keys, Reply(keys)
    PROVE  CallsInv'
<1> DEFINE calls == {<<replies + 1, k>> : k \in keys}
           m == Asks(calls)
           L == Len(msgs)
<1>1. /\ pc = "llm" /\ msgs' = Append(msgs, m) /\ replies' = replies + 1 /\ todo' = calls
      /\ pc' = IF keys = {} THEN "text" ELSE IF suspended \/ answerOnly THEN "refuse" ELSE "batch"
      /\ answerOnly' = answerOnly /\ replies \in Nat /\ msgs \in Seq(Message)
  BY DEF Reply, TypeOK
<1>2. /\ m \in Message /\ m.kind = "assistant" /\ m.calls = calls
      /\ \A c \in calls : c[1] = replies + 1
  <2>1. calls \in FiniteCalls
    BY <1>1, ReplyCalls
  <2>2. \A c \in calls : c[1] = replies + 1
    OBVIOUS
  <2> HIDE DEF calls
  <2>3. m \in Message /\ m.kind = "assistant" /\ m.calls = calls
    BY <2>1, MessageForms DEF Asks
  <2> QED
    BY <2>2, <2>3
<1>3. /\ L \in Nat /\ Len(msgs') = L + 1 /\ msgs'[L + 1] = m
      /\ \A i \in 1..L : msgs'[i] = msgs[i]
  BY <1>1, <1>2, AppendProperties
<1>4. L >= 1
  BY <1>1, <1>3, EmptySeq DEF NeverEmpty
<1>5. Streak \in Nat \ {0} /\ ~RepeatedInAll(msgs, Streak) /\ CallsApart(msgs) /\ Issued(msgs, replies)
  BY <1>1, ConstantsAssumption DEF CallsInv, Bounded, ConstantsAssumption
<1> HIDE DEF m
<1>6. ~RepeatedInAll(msgs', Streak + 1)
  BY <1>1, <1>2, <1>5, RepeatsGrowByOne
<1>7. \A i \in 1..Len(msgs') : (i \in 1..L /\ msgs'[i] = msgs[i]) \/ i = L + 1
  BY <1>3
<1>8. Issued(msgs', replies')
  <2>1. ASSUME NEW i \in 1..L, MakesCalls(msgs[i]), NEW c \in msgs[i].calls PROVE c[1] <= replies + 1
    <3>1. c \in CallId
      BY <1>1, CallsAreIds
    <3>2. c[1] \in Nat /\ c[1] <= replies
      BY <1>5, <2>1, <3>1 DEF Issued, CallId
    <3> QED
      BY <1>1, <3>2
  <2>2. \A c \in m.calls : c[1] <= replies + 1
    BY <1>1, <1>2
  <2> QED
    BY <1>1, <1>3, <1>7, <2>1, <2>2 DEF Issued
<1>9. CallsApart(msgs')
  <2>1. ASSUME NEW i \in 1..L, MakesCalls(msgs[i]), NEW c \in msgs[i].calls PROVE c \notin m.calls
    <3>1. c \in CallId
      BY <1>1, CallsAreIds
    <3>2. c[1] \in Nat /\ c[1] <= replies
      BY <1>5, <2>1, <3>1 DEF Issued, CallId
    <3> QED
      BY <1>1, <1>2, <3>2
  <2> QED
    BY <1>3, <1>5, <1>7, <2>1 DEF CallsApart
<1>10. ASSUME pc' = "batch" PROVE ~answerOnly' /\ Takes(msgs', todo')
  <2>1. keys # {} /\ ~suspended /\ ~answerOnly
    BY <1>1, <1>10
  <2>2. calls # {} /\ MakesCalls(m)
    BY <1>2, <2>1 DEF MakesCalls
  <2>3. msgs'[L].kind # "warn" /\ L + 1 - 1 = L /\ L \in 1..L
    BY <1>1, <1>3, <1>4, <2>1 DEF CallsInv, Last
  <2>4. L + 1 \in 2..Len(msgs') /\ OnlyToolsAfter(msgs', L + 1)
    BY <1>3, <1>4 DEF OnlyToolsAfter
  <2> QED
    BY <1>1, <1>2, <1>3, <2>1, <2>2, <2>3, <2>4 DEF Takes
<1>11. pc' \in {"text", "refuse", "batch"}
  BY <1>1
<1> QED
  BY <1>6, <1>8, <1>9, <1>10, <1>11 DEF CallsInv, Bounded

(* A compaction empties the turn of replies. *)
LEMMA CallsSummary ==
    ASSUME TypeOK, NeverEmpty, CallsInv, SummaryArrives
    PROVE  CallsInv'
<1> DEFINE s == Says("summary")
<1>1. /\ msgs' = <<msgs[1], s>> /\ pc' = "counting" /\ replies' = replies
      /\ Len(msgs') = 2 /\ msgs'[1] = msgs[1] /\ msgs'[2] = s /\ 1..2 = {1, 2}
  BY DEF SummaryArrives
<1>2. s.kind = "summary" /\ SpokenByUser(s) /\ ~MakesCalls(s)
  BY DEF Says, SpokenByUser, MakesCalls
<1> HIDE DEF s
<1>3. AssistantsThisTurn(msgs') = {}
  <2>1. 2 \in (1+1)..2
    OBVIOUS
  <2> QED
    BY <1>1, <1>2, <2>1 DEF AssistantsThisTurn
<1>4. Len(msgs) \in Nat /\ 1 \in 1..Len(msgs)
  BY EmptySeq, LenProperties DEF TypeOK, NeverEmpty
<1>5. CallsApart(msgs') /\ Issued(msgs', replies')
  <2>1. ASSUME NEW i \in 1..2, MakesCalls(msgs'[i]) PROVE i = 1 /\ msgs'[i] = msgs[1]
    BY <1>1, <1>2, <2>1
  <2>2. CallsApart(msgs')
    BY <1>1, <2>1 DEF CallsApart
  <2>3. Issued(msgs', replies')
    BY <1>1, <1>4, <2>1 DEF CallsInv, Bounded, Issued
  <2> QED
    BY <2>2, <2>3
<1>6. Last(msgs').kind # "warn"
  BY <1>1, <1>2 DEF Last
<1> QED
  BY <1>1, <1>3, <1>5, <1>6, NoRepliesNoRepeats DEF CallsInv, Bounded

(* act() repairs the tail and adds the prompt: no reply comes in.          *)
LEMMA CallsAct ==
    ASSUME TypeOK, CallsInv, NEW isAnswerOnly, Act(isAnswerOnly)
    PROVE  CallsInv'
<1> DEFINE kept == WithoutLastWarning(msgs)
           m == Says("prompt")
<1>1. pc' = "before" /\ replies' = replies
  BY DEF Act
<1>2. PICK shims \in AnswerSeqs(Dangling(kept)) : msgs' = Append(kept \o shims, m)
  BY DEF Act
<1>3. kept \in Seq(Message) /\ Bounded(kept, replies)
  BY TakenOffKeepsBounds DEF TypeOK, CallsInv
<1>4. m \in Message /\ m.kind = "prompt"
  BY MessageForms DEF Kinds, Says
<1> HIDE DEF kept, m
<1>5. shims \in Seq(Message) /\ Others(shims)
  BY <1>2, <1>3, DanglingType, ShimsAreOthers
<1>6. kept \o shims \in Seq(Message) /\ Bounded(kept \o shims, replies)
  BY <1>3, <1>5, OthersKeepBounds
<1>7. Bounded(msgs', replies) /\ Last(msgs') = m
  BY <1>2, <1>4, <1>6, OneOther
<1> QED
  BY <1>1, <1>4, <1>7 DEF CallsInv

(* So does resuming a session, with a refresh. *)
LEMMA CallsRestart ==
    ASSUME TypeOK, NeverEmpty, CallsInv, Restart
    PROVE  CallsInv'
<1> DEFINE m == Says("refresh")
<1>1. pc' = "idle" /\ replies' = replies
  BY DEF Restart
<1>2. PICK shims \in ShimSeqsOnRestore(msgs) :
         msgs' = Append(WithoutLastRefresh(WithoutLastWarning(msgs \o shims)), m)
  BY DEF Restart, Refreshed
<1>3. shims \in Seq(Message) /\ Others(shims)
  <2>1. CASE MakesCalls(Last(msgs))
    <3>1. Last(msgs) \in Message
      BY EmptySeq, ElementOfSeq, LenProperties DEF TypeOK, NeverEmpty, Last
    <3>2. Last(msgs).calls \in FiniteCalls
      BY <3>1 DEF Message
    <3> QED
      BY <1>2, <2>1, <3>2, ShimsAreOthers DEF ShimSeqsOnRestore, NeverEmpty
  <2>2. CASE ~MakesCalls(Last(msgs))
    BY <1>2, <2>2 DEF ShimSeqsOnRestore, Others
  <2> QED
    BY <2>1, <2>2
<1>4. m \in Message /\ m.kind = "refresh"
  BY MessageForms DEF Kinds, Says
<1> HIDE DEF m
<1> DEFINE whole == msgs \o shims
           cut == WithoutLastWarning(whole)
           bare == WithoutLastRefresh(cut)
<1>5. whole \in Seq(Message) /\ Bounded(whole, replies)
  BY <1>3, OthersKeepBounds DEF TypeOK, CallsInv
<1> HIDE DEF whole
<1>6. cut \in Seq(Message) /\ Bounded(cut, replies)
  BY <1>5, TakenOffKeepsBounds
<1> HIDE DEF cut
<1>7. bare \in Seq(Message) /\ Bounded(bare, replies)
  BY <1>6, TakenOffKeepsBounds
<1> HIDE DEF bare
<1>8. msgs' = Append(bare, m)
  BY <1>2 DEF bare, cut, whole
<1>9. Bounded(msgs', replies)
  BY <1>4, <1>7, <1>8, OneOther
<1> QED
  BY <1>1, <1>9 DEF CallsInv

(* A flush of the steering queue adds no reply. *)
LEMMA FlushIsOthers ==
    ASSUME queue \in Nat
    PROVE  /\ FlushedQueue \in Seq(Message) /\ Len(FlushedQueue) = queue /\ Others(FlushedQueue)
           /\ \A n \in 1..queue : FlushedQueue[n] = Says("steer")
<1>1. /\ FlushedQueue \in Seq(Message) /\ Len(FlushedQueue) = queue
      /\ \A n \in 1..queue : FlushedQueue[n] = Says("steer")
  BY FlushType, LenProperties DEF FlushedQueue
<1> QED
  BY <1>1 DEF Others, Says

(* The next round begins with the queue flushed. *)
LEMMA CallsNextRound ==
    ASSUME TypeOK, NeverEmpty, CallsInv, NextRound
    PROVE  CallsInv'
<1> DEFINE L == Len(msgs)
<1>1. /\ Last(msgs).kind # "warn" /\ msgs' = msgs \o FlushedQueue /\ pc' = "before"
      /\ replies' = replies /\ msgs \in Seq(Message) /\ queue \in Nat
  BY DEF NextRound, CallsInv, TypeOK, counts
<1>2. /\ FlushedQueue \in Seq(Message) /\ Len(FlushedQueue) = queue /\ Others(FlushedQueue)
      /\ \A n \in 1..queue : FlushedQueue[n] = Says("steer")
  BY <1>1, FlushIsOthers
<1>3. Bounded(msgs', replies')
  BY <1>1, <1>2, OthersKeepBounds DEF CallsInv
<1>4. /\ L \in Nat /\ Len(msgs') = L + queue
      /\ \A i \in 1..L : msgs'[i] = msgs[i]
      /\ \A n \in 1..queue : msgs'[L + n] = FlushedQueue[n]
  BY <1>1, <1>2, Joined
<1>5. Last(msgs').kind # "warn"
  <2>1. CASE queue = 0
    <3>1. L \in 1..L
      BY <1>1, <1>4, EmptySeq DEF NeverEmpty
    <3> QED
      BY <1>1, <1>4, <2>1, <3>1 DEF Last
  <2>2. CASE queue # 0
    <3>1. queue \in 1..queue
      BY <1>1, <2>2
    <3> QED
      BY <1>2, <1>4, <3>1 DEF Last, Says
  <2> QED
    BY <2>1, <2>2
<1> QED
  BY <1>1, <1>3, <1>5 DEF CallsInv

(* Any other step adds at most one message, which is no reply.             *)
LEMMA CallsAside ==
    ASSUME TypeOK, CallsInv, Aside
    PROVE  CallsInv'
<1>1. /\ msgs \in Seq(Message) /\ replies' = replies /\ todo' \in SUBSET todo
      /\ answerOnly' = answerOnly /\ suspended' = suspended /\ Bounded(msgs, replies)
  BY DEF TypeOK, CallsInv, Aside
<1>2. CASE msgs' = msgs /\ (pc' = pc \/ pc' \in {"idle", "unwind"})
  BY <1>1, <1>2, TakesOn DEF CallsInv
<1>3. ASSUME NEW c \in CallId, msgs' = Append(msgs, Answers(c)), pc' = pc PROVE CallsInv'
  <2>1. Answers(c) \in Message /\ Answers(c).kind = "tool"
    BY MessageForms DEF Answers
  <2>2. /\ Bounded(msgs', replies') /\ Last(msgs').kind = "tool"
        /\ RepeatedInAll(msgs', Streak) => RepeatedInAll(msgs, Streak)
        /\ AssistantsThisTurn(msgs) = {} => AssistantsThisTurn(msgs') = {}
    BY <1>1, <1>3, <2>1, OneOther
  <2>3. Takes(msgs, todo) => Takes(msgs', todo')
    BY <1>1, <1>3, TakesOn
  <2> QED
    BY <1>1, <1>3, <2>2, <2>3 DEF CallsInv
<1>4. ASSUME NEW kind \in {"ask", "nudge"}, msgs' = Append(msgs, Says(kind)),
             pc' \in {"asking", "nudged"}
      PROVE  CallsInv'
  <2>1. Says(kind) \in Message /\ Says(kind).kind = kind
    BY MessageForms DEF Says, Kinds
  <2>2. Bounded(msgs', replies') /\ Last(msgs').kind # "warn"
    BY <1>1, <1>4, <2>1, OneOther
  <2> QED
    BY <1>4, <2>2 DEF CallsInv
<1> QED
  BY <1>2, <1>3, <1>4 DEF Aside

(* The invariant is inductive, whatever the surroundings do. *)
LEMMA CallsStep ==
    ASSUME TypeOK, NeverEmpty, CallsInv, [Next]_vars
    PROVE  CallsInv'
<1>1. CASE EndCompact
  <2>1. /\ pc = "counting" /\ msgs' = msgs /\ replies' = replies /\ pc' \in {"llm", "idle"}
    BY <1>1 DEF EndCompact
  <2>2. ~RepeatedInAll(msgs, Streak) /\ Last(msgs).kind # "warn"
    BY <2>1, NoRepliesNoRepeats DEF CallsInv
  <2> QED
    BY <2>1, <2>2 DEF CallsInv
<1> QED
  BY <1>1, Moves, CallsBegin, CallsReply, CallsSummary, CallsAct, CallsRestart,
     CallsNextRound, CallsAside

(* It holds at the start. *)
LEMMA CallsInit == Init => CallsInv
<1> SUFFICES ASSUME Init PROVE CallsInv
  OBVIOUS
<1>1. /\ msgs = <<Says("system")>> /\ Len(msgs) = 1 /\ msgs[1] = Says("system")
      /\ pc = "idle" /\ 1..1 = {1}
  BY DEF Init
<1>2. \A i \in 1..Len(msgs) : msgs[i].kind = "system"
  BY <1>1 DEF Says
<1>3. AssistantsThisTurn(msgs) = {}
  BY <1>2 DEF AssistantsThisTurn
<1>4. CallsApart(msgs) /\ Issued(msgs, replies)
  BY <1>2 DEF CallsApart, Issued, MakesCalls
<1> QED
  BY <1>1, <1>3, <1>4, NoRepliesNoRepeats DEF CallsInv, Bounded

(* It holds for good. *)
LEMMA CallsAlways == Spec => []CallsInv
<1>1. TypeOK /\ NeverEmpty /\ CallsInv /\ [Next]_vars => CallsInv'
  BY CallsStep
<1> QED
  BY <1>1, CallsInit, TypeCorrect, PTL DEF Spec

(* No turn, however it is steered, nudged, interrupted, compacted or       *)
(* resumed, holds more than Streak replies in a row that make the same     *)
(* call: the breaker sees every request but the one right after a          *)
(* compaction, and that one has no reply behind it.                        *)
THEOREM LoopsCut == Spec => []LoopsAreCut
<1>1. CallsInv => LoopsAreCut
  BY DEF CallsInv, Bounded, LoopsAreCut
<1> QED
  BY <1>1, CallsAlways, PTL

(* Only starting a tool makes one run. *)
LEMMA OnlyStarts ==
    ASSUME [Next]_vars, NEW c \in running' \ running
    PROVE  \E d \in todo : c = d /\ StartTool(d)
<1>1. ASSUME NEW d \in todo, StartTool(d) PROVE c = d
  BY <1>1 DEF StartTool
<1> SUFFICES ASSUME \A d \in todo : ~StartTool(d) PROVE FALSE
  BY <1>1
<1>2. CASE LoopStep
  <2>1. CASE Pipeline
    BY <2>1 DEF Pipeline, StopByLimit, BeginAutoCompact, StopRepeating, StopSpent,
                BeginLLMCall, batch
  <2>2. CASE Request
    BY <2>2 DEF Request, RequestFails, Reply
  <2>3. CASE RunBatch
    BY <2>3 DEF RunBatch, RefuseCall, SkipRepeat, SkipCall, FinishTool
  <2>4. CASE EndRound \/ Unwind \/ Compaction
    BY <2>4 DEF EndRound, StopOnBackOut, NextRound, Nudge, Finish, Unwind, Unwound, UnwindTool,
                Compaction, SummaryArrives, EndCompact, CompactFails, batch
  <2> QED
    BY <1>2, <2>1, <2>2, <2>3, <2>4 DEF LoopStep
<1>3. CASE Person
  BY <1>3 DEF Person, Act, BeginCompact, QueueSteering, DrainSteering, SwitchAgent, Interrupt,
              InterruptInTool, InterruptElsewhere, batch
<1>4. ASSUME NEW d \in late, LateReply(d) PROVE FALSE
  BY <1>4 DEF LateReply
<1>5. CASE Restart \/ UNCHANGED vars
  BY <1>5 DEF Restart, vars, batch
<1> QED
  BY <1>2, <1>3, <1>4, <1>5 DEF Next

(* The size of a pair. *)
LEMMA TwoApart ==
    ASSUME NEW a, NEW b, a # b
    PROVE  Cardinality({a, b}) = 2
<1> DEFINE T == {b}
<1>1. IsFiniteSet(T) /\ Cardinality(T) = 1 /\ a \notin T
  BY FS_Singleton
<1> HIDE DEF T
<1>2. Cardinality(T \union {a}) = 2
  BY <1>1, FS_AddElement
<1>3. T \union {a} = {a, b}
  BY DEF T
<1> QED
  BY <1>2, <1>3

(* The keys of the reply before the newest are those compared against.     *)
LEMMA PreviousSeen ==
    ASSUME NEW ms \in Seq(Message), NEW i \in AssistantsThisTurn(ms), OnlyToolsAfter(ms, i),
           NEW j \in AssistantsThisTurn(ms), j < i,
           \A k \in (j+1)..(i-1) : ms[k].kind # "assistant"
    PROVE  KeysAt(ms, j) \subseteq PreviousKeys(ms)
<1> DEFINE A == AssistantsThisTurn(ms)
           After(x) == {y \in A : y > x}
           near == {x \in A : Cardinality(After(x)) < 2}
<1>1. /\ A \subseteq 1..Len(ms) /\ Len(ms) \in Nat
      /\ \A T \in SUBSET A : IsFiniteSet(T) /\ Cardinality(T) \in Nat
  BY RepliesFinite, LenProperties
<1>2. \A x \in A : ms[x].kind = "assistant"
  BY DEF AssistantsThisTurn
<1>3. ASSUME NEW x \in A, x > j PROVE x = i
  <2>1. x \in (j+1)..(i-1) \/ x = i \/ x \in (i+1)..Len(ms)
    BY <1>1, <1>3
  <2> QED
    BY <1>2, <2>1 DEF OnlyToolsAfter
<1>4. j # i
  BY <1>1
<1> HIDE DEF A
<1>5. After(i) = {} /\ After(j) = {i}
  <2>1. ASSUME NEW x \in A, x > i PROVE FALSE
    <3>1. x > j
      BY <1>1, <2>1 DEF A
    <3> QED
      BY <1>1, <1>3, <2>1, <3>1 DEF A
  <2>2. After(i) = {}
    BY <2>1
  <2>3. After(j) = {i}
    BY <1>3 DEF A
  <2> QED
    BY <2>2, <2>3
<1>6. Cardinality(After(i)) = 0 /\ Cardinality(After(j)) = 1
  BY <1>5, FS_EmptySet, FS_Singleton
<1>7. ASSUME NEW x \in A, x < j PROVE ~(Cardinality(After(x)) < 2)
  <2>1. {j, i} \subseteq After(x) /\ After(x) \in SUBSET A
    BY <1>1, <1>7 DEF A
  <2> HIDE DEF After
  <2>2. IsFiniteSet(After(x)) /\ Cardinality(After(x)) \in Nat
    BY <1>1, <2>1
  <2>3. Cardinality({j, i}) <= Cardinality(After(x))
    BY <2>1, <2>2, FS_Subset
  <2>4. Cardinality({j, i}) = 2
    BY <1>4, TwoApart
  <2> QED
    BY <2>2, <2>3, <2>4
<1>8. near = {j, i}
  <2>1. \A x \in A : x < j \/ x = j \/ x > j
    BY <1>1 DEF A
  <2>2. \A x \in near : x \in {j, i}
    BY <1>3, <1>7, <2>1
  <2>3. j \in near /\ i \in near
    BY <1>6 DEF A
  <2> QED
    BY <2>2, <2>3
<1>9. Cardinality(near) = 2
  <2>1. Cardinality({j, i}) = 2
    BY <1>4, TwoApart
  <2> HIDE DEF near
  <2> QED
    BY <1>8, <2>1
<1>10. NewestAssistants(ms, 2) = {j, i}
  <2>1. NewestAssistants(ms, 2) = IF Cardinality(near) = 2 THEN near ELSE {}
    BY DEF NewestAssistants, A
  <2> HIDE DEF near
  <2> QED
    BY <1>8, <1>9, <2>1
<1>11. j \in {x \in NewestAssistants(ms, 2) : \E k \in NewestAssistants(ms, 2) : x < k}
  BY <1>10
<1> QED
  BY <1>11 DEF PreviousKeys

(* What StartTool takes up is a call of the newest reply, which is wanted. *)
LEMMA StartsWanted ==
    ASSUME TypeOK, CallsInv, NEW c \in todo, StartTool(c)
    PROVE  LET i == AskerOf(msgs, c)
           IN  /\ ~answerOnly
               /\ msgs[i-1].kind # "warn"
               /\ \A j \in AssistantsThisTurn(msgs) :
                    (j < i /\ \A k \in (j+1)..(i-1) : msgs[k].kind # "assistant")
                       => KeyOf(c) \notin KeysAt(msgs, j)
<1>1. /\ pc = "batch" /\ msgs \in Seq(Message) /\ Len(msgs) \in Nat
      /\ RepeatsInTodo = {} /\ CallsApart(msgs) /\ ~answerOnly
  BY LenProperties DEF StartTool, Ready, TypeOK, CallsInv, Bounded
<1>2. PICK i \in 2..Len(msgs) :
         /\ MakesCalls(msgs[i]) /\ todo \subseteq msgs[i].calls
         /\ OnlyToolsAfter(msgs, i) /\ msgs[i-1].kind # "warn"
  BY <1>1 DEF CallsInv, Takes
<1>3. AskerOf(msgs, c) = i
  <2>1. i \in 1..Len(msgs) /\ c \in msgs[i].calls
    BY <1>1, <1>2
  <2>2. ASSUME NEW x \in 1..Len(msgs), MakesCalls(msgs[x]), c \in msgs[x].calls PROVE x = i
    BY <1>1, <1>2, <2>1, <2>2 DEF CallsApart
  <2> QED
    BY <1>2, <2>1, <2>2 DEF AskerOf
<1>4. i \in AssistantsThisTurn(msgs)
  BY <1>1, <1>2 DEF AssistantsThisTurn, MakesCalls, OnlyToolsAfter, SpokenByUser
<1>5. KeyOf(c) \notin PreviousKeys(msgs)
  BY <1>1 DEF RepeatsInTodo
<1>6. ASSUME NEW j \in AssistantsThisTurn(msgs), j < i,
             \A k \in (j+1)..(i-1) : msgs[k].kind # "assistant"
      PROVE  KeyOf(c) \notin KeysAt(msgs, j)
  BY <1>1, <1>2, <1>4, <1>5, <1>6, PreviousSeen
<1> QED
  BY <1>1, <1>2, <1>3, <1>6

(* Whatever the model asks for, and however the turn is steered,           *)
(* interrupted, compacted or resumed: no tool runs for an answer-only turn *)
(* or for the reply to a write-up request, and none that the reply before  *)
(* already asked for.                                                      *)
THEOREM WantedToolsOnly == Spec => OnlyWantedToolsRun
<1>1. ASSUME TypeOK, CallsInv, [Next]_vars
      PROVE  \A c \in running' \ running :
                LET i == AskerOf(msgs, c)
                IN  /\ ~answerOnly
                    /\ msgs[i-1].kind # "warn"
                    /\ \A j \in AssistantsThisTurn(msgs) :
                         (j < i /\ \A k \in (j+1)..(i-1) : msgs[k].kind # "assistant")
                            => KeyOf(c) \notin KeysAt(msgs, j)
  <2> SUFFICES ASSUME NEW c \in running' \ running
               PROVE  LET i == AskerOf(msgs, c)
                      IN  /\ ~answerOnly
                          /\ msgs[i-1].kind # "warn"
                          /\ \A j \in AssistantsThisTurn(msgs) :
                               (j < i /\ \A k \in (j+1)..(i-1) : msgs[k].kind # "assistant")
                                  => KeyOf(c) \notin KeysAt(msgs, j)
    OBVIOUS
  <2>1. c \in todo /\ StartTool(c)
    BY <1>1, OnlyStarts
  <2> QED
    BY <1>1, <2>1, StartsWanted
<1> QED
  BY <1>1, CallsAlways, TypeCorrect, PTL DEF Spec, OnlyWantedToolsRun

-----------------------------------------------------------------------------
(* The plan reminder. *)

(* What the pipeline remembers of the reminder is what the conversation    *)
(* last said, unless the two are known to have come apart.                 *)
ReminderInv == (wasActive /\ ~noticeLost) => PlanSpoken(msgs) = "on"

(* A set of positions that is not empty has a last one. *)
LEMMA NewestOfSome ==
    ASSUME NEW L \in Nat, NEW T \in SUBSET (1..L), T # {}
    PROVE  \E i \in T : \A j \in T : j <= i
<1> DEFINE R == {ss \in Nat \X Nat : ss[1] < ss[2]}
           Back == {L - i : i \in T}
<1>1. IsWellFoundedOn(R, Nat)
  BY NatLessThanWellFounded DEF OpToRel
<1>2. \A x, y \in Nat : x < y => <<x, y>> \in R
  OBVIOUS
<1> HIDE DEF R
<1>3. \A i \in T : L - i \in Nat /\ i \in Nat
  OBVIOUS
<1>4. Back \subseteq Nat /\ Back # {}
  BY <1>3
<1> HIDE DEF Back
<1>5. PICK m \in Back : \A k \in Back : ~ (<<k, m>> \in R)
  BY <1>1, <1>4, WFMin
<1>6. PICK i \in T : m = L - i
  BY <1>5 DEF Back
<1>7. ASSUME NEW j \in T PROVE j <= i
  <2>1. L - j \in Back
    BY DEF Back
  <2>2. ~(L - j < L - i)
    BY <1>2, <1>4, <1>5, <1>6, <2>1
  <2> QED
    BY <1>3, <2>2
<1> QED
  BY <1>6, <1>7

(* What says nothing of plan mode changes nothing of what was last said.   *)
LEMMA SilentOnPlan ==
    ASSUME NEW ms \in Seq(Message), NEW ext \in Seq(Message),
           \A n \in 1..Len(ext) : ext[n].plan = "none"
    PROVE  PlanSpoken(ms \o ext) = PlanSpoken(ms)
<1> DEFINE new == ms \o ext
           L == Len(ms)
           said == {i \in 1..Len(ms) : ms[i].plan # "none"}
           said2 == {i \in 1..Len(new) : new[i].plan # "none"}
<1>1. /\ L \in Nat /\ Len(ext) \in Nat /\ Len(new) = L + Len(ext)
      /\ \A i \in 1..L : new[i] = ms[i]
      /\ \A n \in 1..Len(ext) : new[L + n] = ext[n]
  BY Joined
<1> HIDE DEF new
<1>2. ASSUME NEW i \in 1..Len(new), i \notin 1..L PROVE new[i].plan = "none"
  <2>1. i - L \in 1..Len(ext) /\ L + (i - L) = i
    BY <1>1, <1>2
  <2> QED
    BY <1>1, <2>1
<1>3. said2 = said
  <2>1. 1..L \subseteq 1..Len(new)
    BY <1>1
  <2> QED
    BY <1>1, <1>2, <2>1
<1>4. CASE said = {}
  BY <1>3, <1>4 DEF PlanSpoken, new
<1>5. CASE said # {}
  <2> DEFINE last == CHOOSE i \in said : \A j \in said : j <= i
  <2>1. PlanSpoken(ms) = ms[last].plan
    BY <1>5 DEF PlanSpoken
  <2>2. PlanSpoken(new) = new[CHOOSE i \in said2 : \A j \in said2 : j <= i].plan
    BY <1>3, <1>5 DEF PlanSpoken
  <2>3. said \in SUBSET (1..L)
    OBVIOUS
  <2> HIDE DEF said, said2
  <2>4. \E i \in said : \A j \in said : j <= i
    BY <1>1, <1>5, <2>3, NewestOfSome
  <2>5. last \in said
    BY <2>4
  <2> HIDE DEF last
  <2>6. PlanSpoken(new) = new[last].plan
    BY <1>3, <2>2 DEF last
  <2>7. new[last] = ms[last]
    BY <1>1, <2>3, <2>5
  <2> QED
    BY <2>1, <2>6, <2>7 DEF new
<1> QED
  BY <1>4, <1>5

(* A message that says something of plan mode has the last word. *)
LEMMA LastWord ==
    ASSUME NEW ms \in Seq(Message), NEW m \in Message, m.plan # "none"
    PROVE  PlanSpoken(Append(ms, m)) = m.plan
<1> DEFINE new == Append(ms, m)
           L == Len(ms)
           said == {i \in 1..Len(new) : new[i].plan # "none"}
<1>1. L \in Nat /\ Len(new) = L + 1 /\ new[L + 1] = m
  BY AppendProperties
<1> HIDE DEF new
<1>2. L + 1 \in said /\ \A i \in said : i <= L + 1 /\ i \in Nat
  BY <1>1
<1>3. PlanSpoken(new) = new[CHOOSE i \in said : \A j \in said : j <= i].plan
  BY <1>2 DEF PlanSpoken
<1> HIDE DEF said
<1>4. \A i \in said : (\A j \in said : j <= i) => i = L + 1
  BY <1>1, <1>2
<1>5. (CHOOSE i \in said : \A j \in said : j <= i) = L + 1
  BY <1>2, <1>4
<1> QED
  BY <1>1, <1>3, <1>5 DEF new

(* Nor does one message that says nothing of it, put on or taken off. *)
LEMMA OneSilent ==
    ASSUME NEW ms \in Seq(Message), NEW m \in Message, m.plan = "none"
    PROVE  PlanSpoken(Append(ms, m)) = PlanSpoken(ms)
<1>1. /\ Append(ms, m) = ms \o <<m>> /\ <<m>> \in Seq(Message)
      /\ Len(<<m>>) = 1 /\ <<m>>[1] = m
  BY OneMore
<1>2. \A n \in 1..Len(<<m>>) : <<m>>[n].plan = "none"
  BY <1>1
<1> QED
  BY <1>1, <1>2, SilentOnPlan

(* The pipeline says what has changed. *)
LEMMA ReminderBegins ==
    ASSUME TypeOK, ReminderInv, BeginLLMCall
    PROVE  ReminderInv'
<1> DEFINE m == Injects(IF OverBudget THEN "warn" ELSE "inject", PlanNotice)
<1>1. /\ wasActive' = (profile = "plan") /\ noticeLost' = noticeLost /\ msgs \in Seq(Message)
      /\ msgs' = IF OverBudget \/ PlanNotice # "none" THEN Append(msgs, m) ELSE msgs
  BY DEF BeginLLMCall, TypeOK
<1>2. m \in Message /\ m.plan = PlanNotice
  <2>1. PlanNotice \in {"none", "on", "off"} /\ (IF OverBudget THEN "warn" ELSE "inject") \in Kinds
    BY DEF PlanNotice, Kinds
  <2> QED
    BY <2>1, MessageForms DEF Injects
<1> HIDE DEF m
<1> SUFFICES ASSUME wasActive', ~noticeLost' PROVE PlanSpoken(msgs') = "on"
  BY DEF ReminderInv
<1>3. CASE wasActive
  <2>1. PlanNotice = "none" /\ PlanSpoken(msgs) = "on"
    BY <1>1, <1>3 DEF PlanNotice, ReminderInv
  <2> QED
    BY <1>1, <1>2, <2>1, OneSilent
<1>4. CASE ~wasActive
  <2>1. PlanNotice = "on"
    BY <1>1, <1>4 DEF PlanNotice
  <2> QED
    BY <1>1, <1>2, <2>1, LastWord
<1> QED
  BY <1>3, <1>4

(* act() says nothing of plan mode; if it drops a notice, that is known.   *)
LEMMA ReminderAct ==
    ASSUME TypeOK, NeverEmpty, ReminderInv, NEW isAnswerOnly, Act(isAnswerOnly)
    PROVE  ReminderInv'
<1> DEFINE kept == WithoutLastWarning(msgs)
           m == Says("prompt")
<1>1. /\ wasActive' = wasActive
      /\ noticeLost' = (noticeLost \/ (Last(msgs).kind = "warn" /\ Last(msgs).plan # "none"))
  BY DEF Act
<1>2. PICK shims \in AnswerSeqs(Dangling(kept)) : msgs' = Append(kept \o shims, m)
  BY DEF Act
<1>3. kept \in Seq(Message)
  BY TailRepairType DEF TypeOK
<1>4. m \in Message /\ m.plan = "none"
  BY MessageForms DEF Kinds, Says
<1> SUFFICES ASSUME wasActive', ~noticeLost' PROVE PlanSpoken(msgs') = "on"
  BY DEF ReminderInv
<1>5. PlanSpoken(msgs) = "on"
  BY <1>1 DEF ReminderInv
<1>6. PlanSpoken(kept) = PlanSpoken(msgs)
  <2> DEFINE cut == SubSeq(msgs, 1, Len(msgs) - 1)
  <2>1. CASE Last(msgs).kind # "warn"
    BY <2>1 DEF WithoutLastWarning
  <2>2. CASE Last(msgs).kind = "warn"
    <3>1. kept = cut
      BY <2>2 DEF WithoutLastWarning, NeverEmpty
    <3>2. cut \in Seq(Message) /\ Last(msgs) \in Message /\ msgs = cut \o <<Last(msgs)>>
      BY LastTakenOff DEF TypeOK, NeverEmpty
    <3> HIDE DEF cut, kept
    <3>3. msgs = Append(cut, Last(msgs))
      BY <3>2, OneMore
    <3>4. Last(msgs).plan = "none"
      BY <1>1, <2>2
    <3>5. PlanSpoken(Append(cut, Last(msgs))) = PlanSpoken(cut)
      BY <3>2, <3>4, OneSilent
    <3> QED
      BY <3>1, <3>3, <3>5
  <2> QED
    BY <2>1, <2>2
<1> HIDE DEF kept, m
<1>7. /\ shims \in Seq(Message)
      /\ \A n \in 1..Len(shims) : shims[n].plan = "none"
  <2>1. Dangling(kept) \in FiniteCalls
    BY <1>3, DanglingType
  <2>2. shims \in [1..Cardinality(Dangling(kept)) -> {Answers(c) : c \in Dangling(kept)}]
    BY <1>2 DEF AnswerSeqs
  <2>3. shims \in Seq(Message) /\ Cardinality(Dangling(kept)) \in Nat
    BY <1>2, <2>1, AnswerSeqsType, FS_CardinalityType DEF FiniteCalls
  <2>4. Len(shims) = Cardinality(Dangling(kept))
    BY <2>2, <2>3, LenProperties
  <2> QED
    BY <2>2, <2>3, <2>4 DEF Answers
<1>8. kept \o shims \in Seq(Message) /\ PlanSpoken(kept \o shims) = PlanSpoken(kept)
  BY <1>3, <1>7, Joined, SilentOnPlan
<1> QED
  BY <1>2, <1>4, <1>5, <1>6, <1>8, OneSilent

(* What the pipeline remembers stays true. *)
LEMMA ReminderStep ==
    ASSUME TypeOK, NeverEmpty, ReminderInv, [Next]_vars
    PROVE  ReminderInv'
<1>1. CASE SummaryArrives \/ EndCompact \/ Restart
  BY <1>1 DEF SummaryArrives, EndCompact, NoticeAfterReset, Restart, ReminderInv
<1>2. ASSUME NEW keys \in SUBSET Keys, Reply(keys) PROVE ReminderInv'
  <2> DEFINE calls == {<<replies + 1, k>> : k \in keys}
  <2>1. calls \in FiniteCalls
    BY ReplyCalls DEF TypeOK
  <2>2. msgs' = Append(msgs, Asks(calls)) /\ wasActive' = wasActive /\ noticeLost' = noticeLost
    BY <1>2 DEF Reply
  <2> HIDE DEF calls
  <2>3. Asks(calls) \in Message /\ Asks(calls).plan = "none"
    BY <2>1, MessageForms DEF Asks
  <2>4. PlanSpoken(msgs') = PlanSpoken(msgs)
    BY <2>2, <2>3, OneSilent DEF TypeOK
  <2> QED
    BY <2>2, <2>4 DEF ReminderInv
<1>3. CASE NextRound
  <2>1. /\ msgs' = msgs \o FlushedQueue /\ wasActive' = wasActive /\ noticeLost' = noticeLost
    BY <1>3 DEF NextRound, middleware, counts
  <2>2. FlushedQueue \in Seq(Message) /\ \A n \in 1..Len(FlushedQueue) : FlushedQueue[n].plan = "none"
    BY FlushIsOthers DEF TypeOK, Says
  <2>3. PlanSpoken(msgs') = PlanSpoken(msgs)
    BY <2>1, <2>2, SilentOnPlan DEF TypeOK
  <2> QED
    BY <2>1, <2>3 DEF ReminderInv
<1>4. CASE Aside
  <2>1. wasActive' = wasActive /\ noticeLost' = noticeLost /\ msgs \in Seq(Message)
    BY <1>4 DEF Aside, TypeOK
  <2>2. ASSUME NEW m \in Message, m.plan = "none", msgs' = Append(msgs, m) PROVE ReminderInv'
    BY <2>1, <2>2, OneSilent DEF ReminderInv
  <2>3. /\ \A c \in CallId : Answers(c) \in Message /\ Answers(c).plan = "none"
        /\ Says("ask") \in Message /\ Says("ask").plan = "none"
        /\ Says("nudge") \in Message /\ Says("nudge").plan = "none"
    BY MessageForms DEF Answers, Says, Kinds
  <2>4. CASE msgs' = msgs
    BY <2>1, <2>4 DEF ReminderInv
  <2> QED
    BY <1>4, <2>2, <2>3, <2>4 DEF Aside
<1> QED
  BY <1>1, <1>2, <1>3, <1>4, Moves, ReminderBegins, ReminderAct

(* Only the pipeline takes a turn from before a request to the request.    *)
LEMMA OnlyPipelineRequests ==
    ASSUME TypeOK, [Next]_vars, pc = "before", pc' = "llm"
    PROVE  BeginLLMCall
<1> SUFFICES ASSUME ~BeginLLMCall PROVE FALSE
  OBVIOUS
<1>1. /\ ~NextRound /\ ~SummaryArrives /\ ~EndCompact /\ ~Restart
      /\ \A isAnswerOnly \in BOOLEAN : ~Act(isAnswerOnly)
      /\ \A keys \in SUBSET Keys : ~Reply(keys)
  BY DEF NextRound, SummaryArrives, EndCompact, Restart, Act, Reply
<1>2. Aside
  BY <1>1, Moves
<1> QED
  BY <1>2 DEF Aside

(* In plan mode every request the pipeline lets through goes out with the  *)
(* reminder as the last word on plan mode, through every switch, interrupt,*)
(* compaction and resume; but for the two ways of losing it that           *)
(* noticeLost names.                                                       *)
THEOREM ReminderInForce == Spec => PlanReminderInForce
<1>1. Init => ReminderInv
  BY DEF Init, ReminderInv
<1>2. TypeOK /\ NeverEmpty /\ ReminderInv /\ [Next]_vars => ReminderInv'
  BY ReminderStep
<1>3. ASSUME TypeOK, ReminderInv, [Next]_vars, ReminderInv',
             pc = "before", pc' = "llm", profile = "plan", ~noticeLost
      PROVE  PlanSpoken(msgs') = "on"
  <2>1. BeginLLMCall
    BY <1>3, OnlyPipelineRequests
  <2>2. wasActive' = (profile = "plan") /\ noticeLost' = noticeLost
    BY <2>1 DEF BeginLLMCall
  <2> QED
    BY <1>3, <2>2 DEF ReminderInv
<1> QED
  BY <1>1, <1>2, <1>3, TypeCorrect, PTL DEF Spec, PlanReminderInForce

-----------------------------------------------------------------------------
(* A transcript in which the calls U are still to be answered. *)

IsTool(ms, j) == ms[j].kind = "tool"

(* Every call is answered in the block after its reply, save those of U. *)
AllAnsweredBut(ms, U) ==
    \A i \in 1..Len(ms) : MakesCalls(ms[i]) =>
        \A c \in ms[i].calls : c \in U \/ AnsweredRightAfter(ms, i, c)

(* They are calls of the one reply that has nothing but responses after it. *)
Owing(ms, U) ==
    \A c \in U : \E i \in 1..Len(ms) :
        MakesCalls(ms[i]) /\ c \in ms[i].calls /\ OnlyToolsAfter(ms, i) /\ c \notin AnsweredAfter(ms, i)

(* A response stands in the block right after the reply that made its call. *)
Placed(ms) ==
    \A j \in 1..Len(ms) : IsTool(ms, j) =>
        \E i \in 1..(j - 1) : \E c \in ms[i].calls :
            MakesCalls(ms[i]) /\ ms[j] = Answers(c) /\ \A k \in (i+1)..j : IsTool(ms, k)

(* No call has two responses. *)
OncePerCall(ms) ==
    \A j, k \in 1..Len(ms) : (j # k /\ IsTool(ms, j) /\ IsTool(ms, k)) => ms[j].calls # ms[k].calls

(* A transcript that is well formed but for the calls U. *)
Owes(ms, U) ==
    /\ ms # <<>> /\ ms[1].kind = "system"
    /\ AllAnsweredBut(ms, U) /\ Owing(ms, U)
    /\ Placed(ms) /\ OncePerCall(ms) /\ CallsApart(ms)

-----------------------------------------------------------------------------
(* What can follow a transcript. *)

(* A response answers exactly one call. *)
LEMMA AnswerForm ==
    /\ \A c : Answers(c).kind = "tool" /\ Answers(c).calls = {c} /\ ~MakesCalls(Answers(c))
    /\ \A c, d : (Answers(c) = Answers(d) \/ Answers(c).calls = Answers(d).calls) => c = d
<1>1. \A c : Answers(c).kind = "tool" /\ Answers(c).calls = {c}
  BY DEF Answers
<1>2. \A c : ~MakesCalls(Answers(c))
  BY <1>1 DEF MakesCalls
<1>3. \A c, d : {c} = {d} => c = d
  OBVIOUS
<1> QED
  BY <1>1, <1>2, <1>3

(* Where a response stands, one at a time. *)
LEMMA PlacedAt ==
    ASSUME NEW ms, Placed(ms), NEW j \in 1..Len(ms), IsTool(ms, j)
    PROVE  \E i \in 1..(j - 1) : \E c \in ms[i].calls :
              MakesCalls(ms[i]) /\ ms[j] = Answers(c) /\ \A k \in (i+1)..j : IsTool(ms, k)
  BY DEF Placed

(* What is owed is what the repairs find dangling. *)
LEMMA OwedDangles ==
    ASSUME NEW ms, NEW U, Owes(ms, U) PROVE Dangling(ms) = U
<1>1. ASSUME NEW c \in Dangling(ms) PROVE c \in U
  <2>1. PICK i \in 1..Len(ms) : /\ MakesCalls(ms[i]) /\ OnlyToolsAfter(ms, i)
                                /\ c \in ms[i].calls /\ c \notin AnsweredAfter(ms, i)
    BY DEF Dangling
  <2>2. ASSUME AnsweredRightAfter(ms, i, c) PROVE FALSE
    <3>1. PICK j \in (i+1)..Len(ms) : ms[j] = Answers(c)
      BY <2>2 DEF AnsweredRightAfter
    <3>2. ms[j].kind = "tool" /\ c \in ms[j].calls
      BY <3>1, AnswerForm
    <3> QED
      BY <2>1, <3>2 DEF AnsweredAfter
  <2> QED
    BY <2>1, <2>2 DEF Owes, AllAnsweredBut
<1>2. ASSUME NEW c \in U PROVE c \in Dangling(ms)
  BY DEF Owes, Owing, Dangling
<1> QED
  BY <1>1, <1>2

(* Nothing is answered that is owed. *)
LEMMA OwedUnanswered ==
    ASSUME NEW ms, NEW U, Owes(ms, U), Len(ms) \in Nat, NEW c \in U, NEW j \in 1..Len(ms),
           IsTool(ms, j)
    PROVE  c \notin ms[j].calls
<1> SUFFICES ASSUME c \in ms[j].calls PROVE FALSE
  OBVIOUS
<1>1. PICK i \in 1..Len(ms) : /\ MakesCalls(ms[i]) /\ c \in ms[i].calls /\ OnlyToolsAfter(ms, i)
                              /\ c \notin AnsweredAfter(ms, i)
  BY DEF Owes, Owing
<1>2. PICK i2 \in 1..(j - 1) : \E d \in ms[i2].calls :
            MakesCalls(ms[i2]) /\ ms[j] = Answers(d) /\ \A k \in (i2+1)..j : IsTool(ms, k)
  BY PlacedAt DEF Owes
<1>3. MakesCalls(ms[i2]) /\ c \in ms[i2].calls
  BY <1>2, AnswerForm
<1>4. i2 \in 1..Len(ms) /\ j \in (i2 + 1)..Len(ms)
  OBVIOUS
<1>5. i2 = i
  BY <1>1, <1>3, <1>4 DEF Owes, CallsApart
<1> QED
  BY <1>1, <1>4, <1>5 DEF AnsweredAfter, IsTool

(* What holds of a first part stays, whatever follows. *)
LEMMA FirstPartStays ==
    ASSUME NEW ms, NEW new, Len(ms) \in Nat, Len(new) \in Nat, Len(ms) <= Len(new),
           \A i \in 1..Len(ms) : new[i] = ms[i]
    PROVE  /\ \A c : \A i \in 1..Len(ms) : AnsweredRightAfter(ms, i, c) => AnsweredRightAfter(new, i, c)
           /\ Placed(ms) => \A j \in 1..Len(ms) : IsTool(new, j) =>
                 \E i \in 1..(j - 1) : \E c \in new[i].calls :
                    MakesCalls(new[i]) /\ new[j] = Answers(c) /\ \A k \in (i+1)..j : IsTool(new, k)
<1>1. ASSUME NEW i \in 1..Len(ms), NEW c, AnsweredRightAfter(ms, i, c)
      PROVE  AnsweredRightAfter(new, i, c)
  <2>1. PICK j \in (i+1)..Len(ms) : /\ ms[j] = Answers(c)
                                    /\ \A k \in (i+1)..j : ms[k].kind = "tool"
    BY <1>1 DEF AnsweredRightAfter
  <2>2. j \in (i+1)..Len(new) /\ j \in 1..Len(ms)
    OBVIOUS
  <2>3. \A k \in (i+1)..j : k \in 1..Len(ms)
    OBVIOUS
  <2> QED
    BY <2>1, <2>2, <2>3 DEF AnsweredRightAfter
<1>2. ASSUME Placed(ms), NEW j \in 1..Len(ms), IsTool(new, j)
      PROVE  \E i \in 1..(j - 1) : \E c \in new[i].calls :
                MakesCalls(new[i]) /\ new[j] = Answers(c) /\ \A k \in (i+1)..j : IsTool(new, k)
  <2>1. IsTool(ms, j)
    BY <1>2 DEF IsTool
  <2>2. PICK i \in 1..(j - 1) : \E c \in ms[i].calls :
              MakesCalls(ms[i]) /\ ms[j] = Answers(c) /\ \A k \in (i+1)..j : IsTool(ms, k)
    BY <1>2, <2>1, PlacedAt
  <2>3. i \in 1..Len(ms) /\ \A k \in (i+1)..j : k \in 1..Len(ms)
    OBVIOUS
  <2> QED
    BY <2>2, <2>3 DEF IsTool
<1> QED
  BY <1>1, <1>2

(* When nothing is owed, anything but calls and responses may follow. *)
LEMMA OthersFollow ==
    ASSUME NEW ms \in Seq(Message), NEW ext \in Seq(Message), Owes(ms, {}),
           \A n \in 1..Len(ext) : ext[n].kind # "tool" /\ ~MakesCalls(ext[n])
    PROVE  Owes(ms \o ext, {})
<1> DEFINE new == ms \o ext
           L == Len(ms)
<1>1. /\ L \in Nat /\ Len(new) \in Nat /\ L <= Len(new) /\ Len(new) = L + Len(ext)
      /\ Len(ext) \in Nat
      /\ \A i \in 1..L : new[i] = ms[i]
  BY Joined
<1>2. \A n \in 1..Len(ext) : new[L + n] = ext[n]
  BY Joined
<1>3. L > 0 /\ ms[1].kind = "system"
  BY <1>1 DEF Owes
<1> HIDE DEF new
<1>4. ASSUME NEW j \in 1..Len(new), j \notin 1..L PROVE ~IsTool(new, j) /\ ~MakesCalls(new[j])
  <2>1. j - L \in 1..Len(ext) /\ L + (j - L) = j
    BY <1>1, <1>4
  <2>2. new[j] = ext[j - L]
    BY <1>2, <2>1
  <2> QED
    BY <2>1, <2>2 DEF IsTool
<1>5. new # <<>> /\ new[1].kind = "system"
  BY <1>1, <1>3
<1>6. AllAnsweredBut(new, {})
  <2> SUFFICES ASSUME NEW i \in 1..Len(new), MakesCalls(new[i]), NEW c \in new[i].calls
               PROVE  AnsweredRightAfter(new, i, c)
    BY DEF AllAnsweredBut
  <2>1. i \in 1..L /\ new[i] = ms[i]
    BY <1>1, <1>4
  <2>2. AnsweredRightAfter(ms, i, c)
    BY <2>1 DEF Owes, AllAnsweredBut
  <2> QED
    BY <1>1, <2>1, <2>2, FirstPartStays
<1>7. Owing(new, {})
  BY DEF Owing
<1>8. Placed(new)
  <2> SUFFICES ASSUME NEW j \in 1..Len(new), IsTool(new, j)
               PROVE  \E i \in 1..(j - 1) : \E c \in new[i].calls :
                         MakesCalls(new[i]) /\ new[j] = Answers(c) /\ \A k \in (i+1)..j : IsTool(new, k)
    BY DEF Placed
  <2>1. j \in 1..L
    BY <1>4
  <2>2. Placed(ms)
    BY DEF Owes
  <2> QED
    BY <1>1, <2>1, <2>2, FirstPartStays
<1>9. OncePerCall(new)
  <2>1. \A j \in 1..Len(new) : IsTool(new, j) => j \in 1..L /\ IsTool(ms, j) /\ new[j] = ms[j]
    BY <1>1, <1>4 DEF IsTool
  <2> QED
    BY <2>1 DEF Owes, OncePerCall
<1>10. CallsApart(new)
  <2>1. \A j \in 1..Len(new) : MakesCalls(new[j]) => j \in 1..L /\ new[j] = ms[j]
    BY <1>1, <1>4
  <2> QED
    BY <2>1 DEF Owes, CallsApart
<1> QED
  BY <1>5, <1>6, <1>7, <1>8, <1>9, <1>10 DEF Owes, new

(* A reply with calls that no earlier one made owes them all. *)
LEMMA CallsFollow ==
    ASSUME NEW ms \in Seq(Message), Owes(ms, {}), NEW m \in Message, MakesCalls(m),
           \A i \in 1..Len(ms) : MakesCalls(ms[i]) => ms[i].calls \intersect m.calls = {}
    PROVE  Owes(Append(ms, m), m.calls)
<1> DEFINE new == Append(ms, m)
           L == Len(ms)
<1>1. /\ L \in Nat /\ Len(new) \in Nat /\ L <= Len(new) /\ Len(new) = L + 1
      /\ \A i \in 1..L : new[i] = ms[i]
      /\ new[L + 1] = m
  OBVIOUS
<1>2. L > 0 /\ ms[1].kind = "system"
  BY <1>1 DEF Owes
<1> HIDE DEF new
<1>3. \A j \in 1..Len(new) : j \in 1..L \/ j = L + 1
  BY <1>1
<1>4. ~IsTool(new, L + 1)
  BY <1>1 DEF IsTool, MakesCalls
<1>5. new # <<>> /\ new[1].kind = "system"
  BY <1>1, <1>2
<1>6. AllAnsweredBut(new, m.calls)
  <2> SUFFICES ASSUME NEW i \in 1..Len(new), MakesCalls(new[i]), NEW c \in new[i].calls
               PROVE  c \in m.calls \/ AnsweredRightAfter(new, i, c)
    BY DEF AllAnsweredBut
  <2>1. CASE i \in 1..L
    <3>1. AnsweredRightAfter(ms, i, c)
      BY <1>1, <2>1 DEF Owes, AllAnsweredBut
    <3> QED
      BY <1>1, <2>1, <3>1, FirstPartStays
  <2>2. CASE i = L + 1
    BY <1>1, <2>2
  <2> QED
    BY <1>3, <2>1, <2>2
<1>7. Owing(new, m.calls)
  <2>1. L + 1 \in 1..Len(new) /\ ((L + 1) + 1)..Len(new) = {}
    BY <1>1
  <2>2. OnlyToolsAfter(new, L + 1) /\ AnsweredAfter(new, L + 1) = {}
    BY <2>1 DEF OnlyToolsAfter, AnsweredAfter
  <2> QED
    BY <1>1, <2>1, <2>2 DEF Owing
<1>8. Placed(new)
  <2> SUFFICES ASSUME NEW j \in 1..Len(new), IsTool(new, j)
               PROVE  \E i \in 1..(j - 1) : \E c \in new[i].calls :
                         MakesCalls(new[i]) /\ new[j] = Answers(c) /\ \A k \in (i+1)..j : IsTool(new, k)
    BY DEF Placed
  <2>1. j \in 1..L
    BY <1>3, <1>4
  <2>2. Placed(ms)
    BY DEF Owes
  <2> QED
    BY <1>1, <2>1, <2>2, FirstPartStays
<1>9. OncePerCall(new)
  <2>1. \A j \in 1..Len(new) : IsTool(new, j) => j \in 1..L /\ IsTool(ms, j) /\ new[j] = ms[j]
    BY <1>1, <1>3, <1>4 DEF IsTool
  <2> QED
    BY <2>1 DEF Owes, OncePerCall
<1>10. CallsApart(new)
  BY <1>1, <1>3 DEF Owes, CallsApart
<1> QED
  BY <1>5, <1>6, <1>7, <1>8, <1>9, <1>10 DEF Owes, new

(* Responses to calls that are owed, each once. *)
LEMMA AnswersFollow ==
    ASSUME NEW ms \in Seq(Message), NEW U, Owes(ms, U), NEW ext \in Seq(Message),
           \A n \in 1..Len(ext) : \E c \in U : ext[n] = Answers(c),
           \A n, p \in 1..Len(ext) : n # p => ext[n] # ext[p]
    PROVE  Owes(ms \o ext, U \ {c \in U : \E n \in 1..Len(ext) : ext[n] = Answers(c)})
<1> DEFINE new == ms \o ext
           L == Len(ms)
           paid == {c \in U : \E n \in 1..Len(ext) : ext[n] = Answers(c)}
<1>1. /\ L \in Nat /\ Len(new) \in Nat /\ L <= Len(new) /\ Len(new) = L + Len(ext)
      /\ Len(ext) \in Nat
      /\ \A i \in 1..L : new[i] = ms[i]
  BY Joined
<1>2. \A n \in 1..Len(ext) : new[L + n] = ext[n]
  BY Joined
<1>3. L > 0 /\ ms[1].kind = "system"
  BY <1>1 DEF Owes
<1> HIDE DEF new
<1>4. ASSUME NEW j \in 1..Len(new), j \notin 1..L
      PROVE  /\ j - L \in 1..Len(ext) /\ new[j] = ext[j - L]
             /\ \E c \in U : new[j] = Answers(c)
             /\ IsTool(new, j) /\ ~MakesCalls(new[j])
  <2>1. j - L \in 1..Len(ext) /\ L + (j - L) = j
    BY <1>1, <1>4
  <2>2. new[j] = ext[j - L]
    BY <1>2, <2>1
  <2> QED
    BY <2>1, <2>2, AnswerForm DEF IsTool
<1>5. \A n \in 1..Len(ext) : L + n \in 1..Len(new) /\ L + n \notin 1..L
  BY <1>1
<1>6. ASSUME NEW c \in U
      PROVE  \E i \in 1..L : /\ MakesCalls(ms[i]) /\ c \in ms[i].calls
                             /\ OnlyToolsAfter(ms, i) /\ c \notin AnsweredAfter(ms, i)
  BY DEF Owes, Owing
<1>7. ASSUME NEW i \in 1..L, OnlyToolsAfter(ms, i) PROVE OnlyToolsAfter(new, i)
  <2> SUFFICES ASSUME NEW k \in (i+1)..Len(new) PROVE new[k].kind = "tool"
    BY DEF OnlyToolsAfter
  <2>1. k \in 1..Len(new)
    BY <1>1
  <2>2. CASE k \in 1..L
    <3>1. k \in (i+1)..L
      BY <1>1, <2>2
    <3> QED
      BY <1>1, <1>7, <2>2, <3>1 DEF OnlyToolsAfter
  <2>3. CASE k \notin 1..L
    BY <1>4, <2>1, <2>3 DEF IsTool
  <2> QED
    BY <2>2, <2>3
<1>8. new # <<>> /\ new[1].kind = "system"
  BY <1>1, <1>3
<1>9. AllAnsweredBut(new, U \ paid)
  <2> SUFFICES ASSUME NEW i \in 1..Len(new), MakesCalls(new[i]), NEW c \in new[i].calls,
                      c \notin U \ paid
               PROVE  AnsweredRightAfter(new, i, c)
    BY DEF AllAnsweredBut
  <2>1. i \in 1..L /\ new[i] = ms[i]
    BY <1>1, <1>4
  <2>2. CASE c \notin U
    <3>1. AnsweredRightAfter(ms, i, c)
      BY <2>1, <2>2 DEF Owes, AllAnsweredBut
    <3> QED
      BY <1>1, <2>1, <3>1, FirstPartStays
  <2>3. CASE c \in U
    <3>1. PICK n \in 1..Len(ext) : ext[n] = Answers(c)
      BY <2>3
    <3>2. PICK i2 \in 1..L : MakesCalls(ms[i2]) /\ c \in ms[i2].calls /\ OnlyToolsAfter(ms, i2)
      BY <1>6, <2>3
    <3>3. i2 = i
      BY <2>1, <3>2 DEF Owes, CallsApart
    <3>4. OnlyToolsAfter(new, i)
      BY <1>7, <3>2, <3>3
    <3>5. L + n \in (i+1)..Len(new) /\ new[L + n] = Answers(c)
      BY <1>1, <1>2, <2>1, <3>1
    <3>6. \A k \in (i+1)..(L + n) : k \in (i+1)..Len(new)
      BY <1>1
    <3> QED
      BY <3>4, <3>5, <3>6 DEF OnlyToolsAfter, AnsweredRightAfter
  <2> QED
    BY <2>2, <2>3
<1>10. Owing(new, U \ paid)
  <2> SUFFICES ASSUME NEW c \in U, c \notin paid
               PROVE  \E i \in 1..Len(new) : /\ MakesCalls(new[i]) /\ c \in new[i].calls
                                             /\ OnlyToolsAfter(new, i) /\ c \notin AnsweredAfter(new, i)
    BY DEF Owing
  <2>1. PICK i \in 1..L : /\ MakesCalls(ms[i]) /\ c \in ms[i].calls
                          /\ OnlyToolsAfter(ms, i) /\ c \notin AnsweredAfter(ms, i)
    BY <1>6
  <2>2. i \in 1..Len(new) /\ new[i] = ms[i] /\ OnlyToolsAfter(new, i)
    BY <1>1, <1>7, <2>1
  <2>3. ASSUME c \in AnsweredAfter(new, i) PROVE FALSE
    <3>1. PICK j \in (i+1)..Len(new) : new[j].kind = "tool" /\ c \in new[j].calls
      BY <2>3 DEF AnsweredAfter
    <3>2. CASE j \in 1..L
      <4>1. j \in (i+1)..L /\ new[j] = ms[j]
        BY <1>1, <3>2
      <4> QED
        BY <2>1, <3>1, <4>1 DEF AnsweredAfter
    <3>3. CASE j \notin 1..L
      <4>1. j \in 1..Len(new)
        BY <1>1
      <4>2. PICK d \in U : new[j] = Answers(d)
        BY <1>4, <3>3, <4>1
      <4>3. d = c
        BY <3>1, <4>2, AnswerForm
      <4> QED
        BY <1>4, <3>3, <4>1, <4>2, <4>3
    <3> QED
      BY <3>2, <3>3
  <2> QED
    BY <2>1, <2>2, <2>3
<1>11. Placed(new)
  <2> SUFFICES ASSUME NEW j \in 1..Len(new), IsTool(new, j)
               PROVE  \E i \in 1..(j - 1) : \E c \in new[i].calls :
                         MakesCalls(new[i]) /\ new[j] = Answers(c) /\ \A k \in (i+1)..j : IsTool(new, k)
    BY DEF Placed
  <2>1. CASE j \in 1..L
    <3>1. Placed(ms)
      BY DEF Owes
    <3> QED
      BY <1>1, <2>1, <3>1, FirstPartStays
  <2>2. CASE j \notin 1..L
    <3>1. PICK c \in U : new[j] = Answers(c)
      BY <1>4, <2>2
    <3>2. PICK i \in 1..L : MakesCalls(ms[i]) /\ c \in ms[i].calls /\ OnlyToolsAfter(ms, i)
      BY <1>6
    <3>3. i \in 1..(j - 1) /\ new[i] = ms[i] /\ \A k \in (i+1)..j : k \in (i+1)..Len(new)
      BY <1>1, <2>2
    <3>4. OnlyToolsAfter(new, i)
      BY <1>7, <3>2
    <3>5. \A k \in (i+1)..j : IsTool(new, k)
      BY <3>3, <3>4 DEF OnlyToolsAfter, IsTool
    <3> QED
      BY <3>1, <3>2, <3>3, <3>5
  <2> QED
    BY <2>1, <2>2
<1>12. ASSUME NEW j \in 1..L, IsTool(ms, j), NEW k \in 1..Len(new), k \notin 1..L
       PROVE  new[j].calls # new[k].calls
  <2>1. PICK c \in U : new[k] = Answers(c)
    BY <1>4, <1>12
  <2>2. c \notin ms[j].calls
    BY <1>1, <1>12, OwedUnanswered
  <2> QED
    BY <1>1, <2>1, <2>2, AnswerForm
<1>13. OncePerCall(new)
  <2> SUFFICES ASSUME NEW j \in 1..Len(new), NEW k \in 1..Len(new), j # k, IsTool(new, j), IsTool(new, k)
               PROVE  new[j].calls # new[k].calls
    BY DEF OncePerCall
  <2>1. \A x \in 1..L : IsTool(new, x) => IsTool(ms, x)
    BY <1>1 DEF IsTool
  <2>2. CASE j \in 1..L /\ k \in 1..L
    BY <1>1, <2>1, <2>2 DEF Owes, OncePerCall
  <2>3. CASE j \in 1..L /\ k \notin 1..L
    BY <1>12, <2>1, <2>3
  <2>4. CASE j \notin 1..L /\ k \in 1..L
    BY <1>12, <2>1, <2>4
  <2>5. CASE j \notin 1..L /\ k \notin 1..L
    <3>1. /\ j - L \in 1..Len(ext) /\ new[j] = ext[j - L] /\ k - L \in 1..Len(ext) /\ new[k] = ext[k - L]
          /\ \E c \in U : new[j] = Answers(c)
          /\ \E c \in U : new[k] = Answers(c)
      BY <1>4, <2>5
    <3>2. j - L # k - L
      BY <1>1
    <3>3. new[j] # new[k]
      BY <3>1, <3>2
    <3>4. PICK c \in U : new[j] = Answers(c)
      BY <3>1
    <3>5. PICK d \in U : new[k] = Answers(d)
      BY <3>1
    <3>6. c # d
      BY <3>3, <3>4, <3>5
    <3> QED
      BY <3>4, <3>5, <3>6, AnswerForm
  <2> QED
    BY <2>2, <2>3, <2>4, <2>5
<1>14. CallsApart(new)
  <2>1. \A j \in 1..Len(new) : MakesCalls(new[j]) => j \in 1..L /\ new[j] = ms[j]
    BY <1>1, <1>4
  <2> QED
    BY <2>1 DEF Owes, CallsApart
<1> QED
  BY <1>8, <1>9, <1>10, <1>11, <1>13, <1>14 DEF Owes, new, paid
-----------------------------------------------------------------------------
(* Whose answer is owed at each place of the turn. *)

(* Calls of replies to come are of no reply so far. *)
Older(ms, r) == \A i \in 1..Len(ms) : \A c \in ms[i].calls : c[1] <= r

(* Nothing but its reply, or a request to compact, follows a write-up      *)
(* request.                                                                *)
NoneStale(ms) ==
    \A i \in 1..(Len(ms) - 1) :
       ms[i].kind = "warn" => ms[i+1].kind \in {"assistant", "ask"}

(* The three together: what every step is shown to keep. *)
InOrder(ms, U, r) == Owes(ms, U) /\ Older(ms, r) /\ NoneStale(ms)

(* At each place of the turn, which of the owed calls the batch holds.     *)
(* Orphans of an interrupt are owed too, and gone once a turn begins.      *)
Ledger(place, waiting, executing, orphans, U) ==
    /\ place = "refuse" => U = waiting
    /\ place = "batch" => U = waiting \union executing /\ waiting \intersect executing = {}
    /\ place = "unwind" => executing \subseteq U
    /\ place \notin {"refuse", "batch", "unwind", "idle"} => U = {}
    /\ place \notin {"batch", "unwind"} => executing = {}
    /\ orphans \subseteq U
    /\ place # "idle" => orphans = {}

(* A write-up request is last only until its reply. *)
WarnedLast == pc \in {"before", "nudged"} => Last(msgs).kind # "warn"

(* The inductive invariant. *)
IInv ==
    /\ InOrder(msgs, Dangling(msgs), replies)
    /\ Ledger(pc, todo, running, late, Dangling(msgs))
    /\ WarnedLast

(* What a step has to show. *)
LEMMA Settled ==
    ASSUME NEW U, InOrder(msgs', U, replies'), Ledger(pc', todo', running', late', U),
           pc' \in {"before", "nudged"} => Last(msgs').kind # "warn"
    PROVE  IInv'
<1>1. Dangling(msgs') = U
  BY OwedDangles DEF InOrder
<1> QED
  BY <1>1 DEF IInv, WarnedLast

(* Two stretches with no stale request have none together, if the second   *)
(* does not begin with one to a request the first ends with.               *)
LEMMA StaleApart ==
    ASSUME NEW ms \in Seq(Message), NEW ext \in Seq(Message), ms # <<>>,
           NoneStale(ms), NoneStale(ext),
           ext = <<>> \/ Last(ms).kind # "warn" \/ ext[1].kind \in {"assistant", "ask"}
    PROVE  NoneStale(ms \o ext)
<1> DEFINE new == ms \o ext
           L == Len(ms)
<1>1. /\ L \in Nat /\ Len(ext) \in Nat /\ Len(new) = L + Len(ext)
      /\ \A i \in 1..L : new[i] = ms[i]
      /\ \A n \in 1..Len(ext) : new[L + n] = ext[n]
  BY Joined
<1>2. L > 0
  BY <1>1
<1> HIDE DEF new
<1> SUFFICES ASSUME NEW i \in 1..(Len(new) - 1), new[i].kind = "warn"
             PROVE  new[i+1].kind \in {"assistant", "ask"}
  BY DEF NoneStale, new
<1>3. CASE i < L
  <2>1. i \in 1..(L - 1) /\ i \in 1..L /\ i + 1 \in 1..L
    BY <1>1, <1>3
  <2> QED
    BY <1>1, <2>1 DEF NoneStale
<1>4. CASE i = L
  <2>1. Len(ext) >= 1 /\ i + 1 = L + 1 /\ i \in 1..L /\ 1 \in 1..Len(ext)
    BY <1>1, <1>2, <1>4
  <2>2. new[i] = Last(ms) /\ new[i+1] = ext[1] /\ ext # <<>>
    BY <1>1, <1>4, <2>1 DEF Last
  <2> QED
    BY <2>2
<1>5. CASE i > L
  <2>1. /\ i - L \in 1..(Len(ext) - 1) /\ i - L \in 1..Len(ext) /\ (i - L) + 1 \in 1..Len(ext)
        /\ L + (i - L) = i /\ L + ((i - L) + 1) = i + 1
    BY <1>1, <1>5
  <2>2. new[i] = ext[i - L] /\ new[i + 1] = ext[(i - L) + 1]
    BY <1>1, <2>1
  <2> QED
    BY <2>1, <2>2 DEF NoneStale
<1> QED
  BY <1>1, <1>3, <1>4, <1>5

(* Two stretches of old calls are one. *)
LEMMA OlderTogether ==
    ASSUME NEW ms \in Seq(Message), NEW ext \in Seq(Message), NEW r, Older(ms, r), Older(ext, r)
    PROVE  Older(ms \o ext, r)
<1> DEFINE new == ms \o ext
           L == Len(ms)
<1>1. /\ L \in Nat /\ Len(ext) \in Nat /\ Len(new) = L + Len(ext)
      /\ \A i \in 1..L : new[i] = ms[i]
      /\ \A n \in 1..Len(ext) : new[L + n] = ext[n]
  BY Joined
<1> HIDE DEF new
<1> SUFFICES ASSUME NEW i \in 1..Len(new), NEW c \in new[i].calls PROVE c[1] <= r
  BY DEF Older, new
<1>2. CASE i \in 1..L
  BY <1>1, <1>2 DEF Older
<1>3. CASE i \notin 1..L
  <2>1. i - L \in 1..Len(ext) /\ L + (i - L) = i
    BY <1>1, <1>3
  <2>2. new[i] = ext[i - L]
    BY <1>1, <2>1
  <2> QED
    BY <2>1, <2>2 DEF Older
<1> QED
  BY <1>2, <1>3

(* Messages without calls follow when nothing is owed. *)
LEMMA SaysFollow ==
    ASSUME NEW ms \in Seq(Message), NEW ext \in Seq(Message), NEW r, InOrder(ms, {}, r),
           \A n \in 1..Len(ext) : ext[n].kind # "tool" /\ ext[n].calls = {},
           NoneStale(ext),
           ext = <<>> \/ Last(ms).kind # "warn" \/ ext[1].kind \in {"assistant", "ask"}
    PROVE  InOrder(ms \o ext, {}, r)
<1>1. \A n \in 1..Len(ext) : ext[n].kind # "tool" /\ ~MakesCalls(ext[n])
  BY DEF MakesCalls
<1>2. Owes(ms \o ext, {})
  BY <1>1, OthersFollow DEF InOrder
<1>3. ms # <<>>
  BY DEF InOrder, Owes
<1>4. NoneStale(ms \o ext)
  BY <1>3, StaleApart DEF InOrder
<1>5. Older(ext, r)
  BY DEF Older
<1>6. Older(ms \o ext, r)
  BY <1>5, OlderTogether DEF InOrder
<1> QED
  BY <1>2, <1>4, <1>6 DEF InOrder

(* The same for one message. *)
LEMMA OneSaysFollows ==
    ASSUME NEW ms \in Seq(Message), NEW m \in Message, NEW r, InOrder(ms, {}, r),
           m.kind # "tool", m.calls = {},
           Last(ms).kind # "warn" \/ m.kind \in {"assistant", "ask"}
    PROVE  InOrder(Append(ms, m), {}, r)
<1>1. Append(ms, m) = ms \o <<m>> /\ <<m>> \in Seq(Message) /\ Len(<<m>>) = 1 /\ <<m>>[1] = m
  BY OneMore
<1>2. NoneStale(<<m>>)
  BY <1>1 DEF NoneStale
<1>3. \A n \in 1..Len(<<m>>) : <<m>>[n].kind # "tool" /\ <<m>>[n].calls = {}
  BY <1>1
<1>4. InOrder(ms \o <<m>>, {}, r)
  BY <1>1, <1>2, <1>3, SaysFollow
<1> QED
  BY <1>1, <1>4

(* As long as something is owed, a reply or a response is last. *)
LEMMA OwingEnds ==
    ASSUME NEW ms \in Seq(Message), NEW U, Owes(ms, U), U # {}
    PROVE  Last(ms).kind = "tool" \/ (MakesCalls(Last(ms)) /\ U = Last(ms).calls)
<1>1. Len(ms) \in Nat /\ Len(ms) > 0
  BY DEF Owes
<1>2. PICK c \in U : TRUE
  OBVIOUS
<1>3. PICK i \in 1..Len(ms) : MakesCalls(ms[i]) /\ c \in ms[i].calls /\ OnlyToolsAfter(ms, i)
  BY <1>2 DEF Owes, Owing
<1>4. CASE i < Len(ms)
  <2>1. Len(ms) \in (i+1)..Len(ms)
    BY <1>1, <1>4
  <2> QED
    BY <1>3, <2>1 DEF OnlyToolsAfter, Last
<1>5. CASE i = Len(ms)
  <2>1. ~IsTool(ms, Len(ms))
    BY <1>3, <1>5 DEF IsTool, MakesCalls
  <2>2. ASSUME NEW d \in U PROVE d \in ms[Len(ms)].calls
    <3>1. PICK k \in 1..Len(ms) : MakesCalls(ms[k]) /\ d \in ms[k].calls /\ OnlyToolsAfter(ms, k)
      BY <2>2 DEF Owes, Owing
    <3>2. k = Len(ms)
      <4>1. k < Len(ms) => Len(ms) \in (k+1)..Len(ms)
        BY <1>1
      <4> QED
        BY <1>1, <2>1, <3>1, <4>1 DEF OnlyToolsAfter, IsTool
    <3> QED
      BY <3>1, <3>2
  <2>3. ASSUME NEW d \in ms[Len(ms)].calls PROVE d \in U
    <3>1. (Len(ms) + 1)..Len(ms) = {}
      BY <1>1
    <3>2. ~AnsweredRightAfter(ms, Len(ms), d)
      BY <3>1 DEF AnsweredRightAfter
    <3> QED
      BY <1>3, <1>5, <2>3, <3>2 DEF Owes, AllAnsweredBut
  <2>4. U = ms[Len(ms)].calls
    BY <2>2, <2>3
  <2> QED
    BY <1>3, <1>5, <2>4 DEF Last
<1> QED
  BY <1>1, <1>4, <1>5

(* Responses to calls that are owed. *)
LEMMA ResponsesFollow ==
    ASSUME NEW ms \in Seq(Message), NEW U, NEW r, InOrder(ms, U, r), NEW ext \in Seq(Message),
           \A n \in 1..Len(ext) : \E c \in U : ext[n] = Answers(c),
           \A n, p \in 1..Len(ext) : n # p => ext[n] # ext[p]
    PROVE  InOrder(ms \o ext, U \ {c \in U : \E n \in 1..Len(ext) : ext[n] = Answers(c)}, r)
<1>1. Owes(ms \o ext, U \ {c \in U : \E n \in 1..Len(ext) : ext[n] = Answers(c)})
  BY AnswersFollow DEF InOrder
<1>2. ms # <<>>
  BY DEF InOrder, Owes
<1>3. \A n \in 1..Len(ext) : ext[n].kind = "tool"
  BY AnswerForm
<1>4. Len(ext) \in Nat
  OBVIOUS
<1>5. NoneStale(ext)
  <2>1. \A n \in 1..(Len(ext) - 1) : n \in 1..Len(ext)
    BY <1>4
  <2> QED
    BY <1>3, <2>1 DEF NoneStale
<1>6. ext = <<>> \/ Last(ms).kind # "warn"
  <2> SUFFICES ASSUME ext # <<>> PROVE Last(ms).kind # "warn"
    OBVIOUS
  <2>1. 1 \in 1..Len(ext)
    BY <1>4
  <2>2. U # {}
    BY <2>1
  <2>3. Last(ms).kind = "tool" \/ MakesCalls(Last(ms))
    BY <2>2, OwingEnds DEF InOrder
  <2> QED
    BY <2>3 DEF MakesCalls
<1>7. NoneStale(ms \o ext)
  BY <1>2, <1>5, <1>6, StaleApart DEF InOrder
<1>8. Older(ext, r)
  <2> SUFFICES ASSUME NEW n \in 1..Len(ext), NEW c \in ext[n].calls PROVE c[1] <= r
    BY DEF Older
  <2>1. c \in U
    BY AnswerForm
  <2>2. PICK i \in 1..Len(ms) : c \in ms[i].calls
    BY <2>1 DEF InOrder, Owes, Owing
  <2> QED
    BY <2>2 DEF InOrder, Older
<1>9. Older(ms \o ext, r)
  BY <1>8, OlderTogether DEF InOrder
<1> QED
  BY <1>1, <1>7, <1>9 DEF InOrder

(* The same for one response. *)
LEMMA OneResponseFollows ==
    ASSUME NEW ms \in Seq(Message), NEW U, NEW r, InOrder(ms, U, r), NEW c \in U, c \in CallId
    PROVE  InOrder(Append(ms, Answers(c)), U \ {c}, r)
<1>1. Answers(c) \in Message
  BY MessageForms
<1> DEFINE ext == <<Answers(c)>>
<1>2. Append(ms, Answers(c)) = ms \o ext /\ ext \in Seq(Message) /\ Len(ext) = 1 /\ ext[1] = Answers(c)
  BY <1>1, OneMore
<1> HIDE DEF ext
<1>3. \A n \in 1..Len(ext) : n = 1
  BY <1>2
<1>4. \A n \in 1..Len(ext) : \E d \in U : ext[n] = Answers(d)
  BY <1>2, <1>3
<1>5. \A n, p \in 1..Len(ext) : n # p => ext[n] # ext[p]
  BY <1>3
<1>6. InOrder(ms \o ext, U \ {d \in U : \E n \in 1..Len(ext) : ext[n] = Answers(d)}, r)
  BY <1>2, <1>4, <1>5, ResponsesFollow
<1>7. 1 \in 1..Len(ext)
  BY <1>2
<1>8. {d \in U : \E n \in 1..Len(ext) : ext[n] = Answers(d)} = {c}
  <2>1. \A d : Answers(c) = Answers(d) => d = c
    BY AnswerForm
  <2> QED
    BY <1>2, <1>3, <1>7, <2>1
<1> QED
  BY <1>2, <1>6, <1>8

(* Responses to everything that is owed, in any order, settle it. *)
LEMMA ShimsFollow ==
    ASSUME NEW ms \in Seq(Message), NEW U \in FiniteCalls, NEW r, InOrder(ms, U, r),
           NEW shims \in AnswerSeqs(U)
    PROVE  InOrder(ms \o shims, {}, r)
<1> DEFINE T == {Answers(c) : c \in U}
           N == Cardinality(U)
<1>1. shims \in Seq(Message)
  BY AnswerSeqsType
<1>2. IsFiniteSet(U) /\ N \in Nat
  BY FS_CardinalityType DEF FiniteCalls
<1>3. shims \in [1..N -> T] /\ \A c \in U : \E i \in 1..N : shims[i] = Answers(c)
  BY DEF AnswerSeqs
<1>4. Len(shims) = N
  BY <1>1, <1>2, <1>3
<1>5. IsFiniteSet(T) /\ Cardinality(T) = N
  <2> DEFINE answer == [c \in U |-> Answers(c)]
  <2>1. answer \in Bijection(U, T)
    <3>1. answer \in [U -> T]
      OBVIOUS
    <3>2. \A c, d \in U : answer[c] = answer[d] => c = d
      BY AnswerForm
    <3>3. \A t \in T : \E c \in U : answer[c] = t
      OBVIOUS
    <3> HIDE DEF answer, T
    <3> QED
      BY <3>1, <3>2, <3>3 DEF Bijection, Injection, IsInjective, Surjection
  <2>2. ExistsBijection(U, T)
    BY <2>1 DEF ExistsBijection
  <2> HIDE DEF T
  <2> QED
    BY <1>2, <2>2, FS_Bijection
<1>6. shims \in Surjection(1..N, T)
  <2>1. \A t \in T : \E i \in 1..N : shims[i] = t
    BY <1>3
  <2> QED
    BY <1>3, <2>1 DEF Surjection
<1>7. IsFiniteSet(1..N) /\ Cardinality(1..N) = N
  BY <1>2, FS_Interval
<1>8. shims \in Injection(1..N, T)
  <2> HIDE DEF N, T
  <2> QED
    BY <1>5, <1>6, <1>7, FS_SurjSameCardinalityImpliesInj
<1>9. \A n, p \in 1..Len(shims) : n # p => shims[n] # shims[p]
  BY <1>3, <1>4, <1>8 DEF Injection, IsInjective
<1>10. \A n \in 1..Len(shims) : \E c \in U : shims[n] = Answers(c)
  BY <1>3, <1>4
<1>11. U \ {c \in U : \E n \in 1..Len(shims) : shims[n] = Answers(c)} = {}
  BY <1>3, <1>4
<1>12. InOrder(ms \o shims, U \ {c \in U : \E n \in 1..Len(shims) : shims[n] = Answers(c)}, r)
  BY <1>1, <1>9, <1>10, ResponsesFollow
<1> QED
  BY <1>11, <1>12

(* A reply whose calls are new. *)
LEMMA ReplyFollows ==
    ASSUME NEW ms \in Seq(Message), NEW r \in Nat, InOrder(ms, {}, r), NEW calls \in FiniteCalls,
           \A c \in calls : c[1] = r + 1
    PROVE  InOrder(Append(ms, Asks(calls)), calls, r + 1)
<1> DEFINE m == Asks(calls)
<1>1. m \in Message /\ m.kind = "assistant" /\ m.calls = calls
  BY MessageForms DEF Asks
<1>2. Append(ms, m) = ms \o <<m>> /\ <<m>> \in Seq(Message) /\ Len(<<m>>) = 1 /\ <<m>>[1] = m
  BY <1>1, OneMore
<1> HIDE DEF m
<1>3. \A i \in 1..Len(ms) : \A c \in ms[i].calls : c \in CallId /\ c[1] <= r
  <2> SUFFICES ASSUME NEW i \in 1..Len(ms), NEW c \in ms[i].calls PROVE c \in CallId /\ c[1] <= r
    OBVIOUS
  <2>1. ms[i] \in Message
    BY ElementOfSeq
  <2>2. \A x \in Message : x.calls \subseteq CallId
    BY DEF Message, FiniteCalls
  <2> QED
    BY <2>1, <2>2 DEF InOrder, Older
<1>4. Older(ms, r + 1)
  <2>1. \A c \in CallId : c[1] \in Nat
    BY DEF CallId
  <2>2. \A c \in CallId : c[1] <= r => c[1] <= r + 1
    BY <2>1
  <2> QED
    BY <1>3, <2>2 DEF Older
<1>5. Older(<<m>>, r + 1)
  BY <1>1, <1>2 DEF Older
<1>6. Older(Append(ms, m), r + 1)
  BY <1>2, <1>4, <1>5, OlderTogether
<1>7. NoneStale(Append(ms, m))
  <2>1. NoneStale(<<m>>)
    BY <1>2 DEF NoneStale
  <2>2. ms # <<>>
    BY DEF InOrder, Owes
  <2> QED
    BY <1>1, <1>2, <2>1, <2>2, StaleApart DEF InOrder
<1>8. Owes(Append(ms, m), calls)
  <2>1. CASE calls = {}
    BY <1>1, <1>2, <2>1, OthersFollow DEF InOrder, MakesCalls
  <2>2. CASE calls # {}
    <3>1. MakesCalls(m)
      BY <1>1, <2>2 DEF MakesCalls
    <3>2. \A i \in 1..Len(ms) : ms[i].calls \intersect m.calls = {}
      <4>1. r + 1 > r /\ ~(r + 1 <= r)
        OBVIOUS
      <4> QED
        BY <1>1, <1>3, <4>1
    <3> QED
      BY <1>1, <3>1, <3>2, CallsFollow DEF InOrder
  <2> QED
    BY <2>1, <2>2
<1> QED
  BY <1>6, <1>7, <1>8 DEF InOrder, m

(* The arithmetic of the next lemma. *)
LEMMA TwoOrMore == ASSUME NEW n \in Nat, n # 0, n # 1 PROVE n > 1 /\ n \in 1..n
  OBVIOUS

(* A last message that is neither a reply nor a response can be dropped.   *)
LEMMA LastDrops ==
    ASSUME NEW ms \in Seq(Message), NEW U, NEW r, InOrder(ms, U, r),
           Last(ms).kind \in {"warn", "refresh"}
    PROVE  LET cut == SubSeq(ms, 1, Len(ms) - 1)
           IN  /\ U = {} /\ cut \in Seq(Message)
               /\ InOrder(cut, U, r) /\ Last(cut).kind # "warn"
<1> DEFINE cut == SubSeq(ms, 1, Len(ms) - 1)
           L == Len(ms)
<1>1. L \in Nat /\ L > 1 /\ L \in 1..L
  <2>1. ms[1].kind = "system" /\ ms # <<>>
    BY DEF InOrder, Owes
  <2>2. L \in Nat /\ L # 0
    BY <2>1, EmptySeq
  <2>3. L # 1
    BY <2>1 DEF Last
  <2> QED
    BY <2>2, <2>3, TwoOrMore
<1>2. cut \in Seq(Message) /\ Len(cut) = L - 1 /\ \A i \in 1..(L - 1) : cut[i] = ms[i]
  <2>1. \A i \in 1..(L - 1) : ms[i] \in Message
    BY <1>1, ElementOfSeq
  <2> QED
    BY <1>1, <2>1, SubSeqProperties
<1>3. U = {}
  BY OwingEnds DEF InOrder, MakesCalls
<1> HIDE DEF cut
<1>4. \A i \in 1..L : i \in 1..(L - 1) \/ i = L
  BY <1>1
<1>5. ~IsTool(ms, L) /\ ~MakesCalls(ms[L])
  BY DEF Last, IsTool, MakesCalls
<1>6. ASSUME NEW i \in 1..(L - 1) PROVE i \in 1..L /\ cut[i] = ms[i]
  BY <1>1, <1>2
<1>7. cut # <<>> /\ cut[1].kind = "system"
  <2>1. 1 \in 1..(L - 1)
    BY <1>1
  <2>2. cut # <<>>
    BY <1>1, <1>2
  <2> QED
    BY <1>2, <2>1, <2>2 DEF InOrder, Owes
<1>8. AllAnsweredBut(cut, {})
  <2> SUFFICES ASSUME NEW i \in 1..(L - 1), MakesCalls(cut[i]), NEW c \in cut[i].calls
               PROVE  AnsweredRightAfter(cut, i, c)
    BY <1>2 DEF AllAnsweredBut
  <2>1. AnsweredRightAfter(ms, i, c)
    BY <1>3, <1>6 DEF InOrder, Owes, AllAnsweredBut
  <2>2. PICK j \in (i+1)..L : ms[j] = Answers(c) /\ \A k \in (i+1)..j : ms[k].kind = "tool"
    BY <2>1 DEF AnsweredRightAfter
  <2>3. j # L
    BY <1>5, <2>2, AnswerForm DEF IsTool
  <2>4. j \in (i+1)..(L - 1) /\ j \in 1..(L - 1) /\ \A k \in (i+1)..j : k \in 1..(L - 1)
    BY <1>1, <2>2, <2>3
  <2> QED
    BY <1>2, <2>2, <2>4 DEF AnsweredRightAfter
<1>9. Owing(cut, {})
  BY DEF Owing
<1>10. Placed(cut)
  <2> SUFFICES ASSUME NEW j \in 1..(L - 1), IsTool(cut, j)
               PROVE  \E i \in 1..(j - 1) : \E c \in cut[i].calls :
                         MakesCalls(cut[i]) /\ cut[j] = Answers(c) /\ \A k \in (i+1)..j : IsTool(cut, k)
    BY <1>2 DEF Placed
  <2>1. j \in 1..L /\ IsTool(ms, j)
    BY <1>6 DEF IsTool
  <2>2. PICK i \in 1..(j - 1) : \E c \in ms[i].calls :
              MakesCalls(ms[i]) /\ ms[j] = Answers(c) /\ \A k \in (i+1)..j : IsTool(ms, k)
    BY <2>1, PlacedAt DEF InOrder, Owes
  <2>3. i \in 1..(L - 1) /\ \A k \in (i+1)..j : k \in 1..(L - 1)
    BY <1>1
  <2> QED
    BY <1>6, <2>2, <2>3 DEF IsTool
<1>11. OncePerCall(cut)
  <2>1. \A j, k \in 1..L : (j # k /\ IsTool(ms, j) /\ IsTool(ms, k)) => ms[j].calls # ms[k].calls
    BY DEF InOrder, Owes, OncePerCall
  <2> QED
    BY <1>2, <1>6, <2>1 DEF OncePerCall, IsTool
<1>12. CallsApart(cut)
  <2>1. \A i, j \in 1..L : (i # j /\ MakesCalls(ms[i]) /\ MakesCalls(ms[j]))
                              => ms[i].calls \intersect ms[j].calls = {}
    BY DEF InOrder, Owes, CallsApart
  <2> QED
    BY <1>2, <1>6, <2>1 DEF CallsApart
<1>13. Older(cut, r)
  BY <1>2, <1>6 DEF InOrder, Older
<1>14. NoneStale(cut)
  <2>1. \A i \in 1..((L - 1) - 1) : i \in 1..(L - 1) /\ i + 1 \in 1..(L - 1)
    BY <1>1
  <2> QED
    BY <1>2, <2>1 DEF InOrder, NoneStale
<1>15. Last(cut).kind # "warn"
  <2>1. L - 1 \in 1..(L - 1) /\ (L - 1) + 1 = L
    BY <1>1
  <2>2. Last(cut) = ms[L - 1]
    BY <1>2, <2>1 DEF Last
  <2>3. ms[L - 1].kind = "warn" => ms[L].kind \in {"assistant", "ask"}
    BY <2>1 DEF InOrder, NoneStale
  <2> QED
    BY <2>2, <2>3 DEF Last
<1>16. InOrder(cut, U, r)
  BY <1>3, <1>7, <1>8, <1>9, <1>10, <1>11, <1>12, <1>13, <1>14 DEF InOrder, Owes
<1> QED
  BY <1>2, <1>3, <1>15, <1>16 DEF cut

(* The two tail repairs keep a transcript in order. *)
LEMMA RepairsFollow ==
    ASSUME NEW ms \in Seq(Message), NEW U, NEW r, InOrder(ms, U, r)
    PROVE  /\ InOrder(WithoutLastWarning(ms), U, r)
           /\ Last(WithoutLastWarning(ms)).kind # "warn"
           /\ Last(ms).kind # "warn" =>
                 /\ InOrder(WithoutLastRefresh(ms), U, r)
                 /\ Last(WithoutLastRefresh(ms)).kind # "warn"
<1>1. ms # <<>>
  BY DEF InOrder, Owes
<1>2. InOrder(WithoutLastWarning(ms), U, r) /\ Last(WithoutLastWarning(ms)).kind # "warn"
  <2>1. CASE Last(ms).kind = "warn"
    BY <1>1, <2>1, LastDrops DEF WithoutLastWarning
  <2>2. CASE Last(ms).kind # "warn"
    BY <1>1, <2>2 DEF WithoutLastWarning
  <2> QED
    BY <2>1, <2>2
<1>3. ASSUME Last(ms).kind # "warn"
      PROVE  InOrder(WithoutLastRefresh(ms), U, r) /\ Last(WithoutLastRefresh(ms)).kind # "warn"
  <2>1. CASE Last(ms).kind = "refresh"
    BY <1>1, <2>1, LastDrops DEF WithoutLastRefresh
  <2>2. CASE Last(ms).kind # "refresh"
    BY <1>1, <1>3, <2>2 DEF WithoutLastRefresh
  <2> QED
    BY <2>1, <2>2
<1> QED
  BY <1>2, <1>3

(* The calls of a last reply are what is owed. *)
LEMMA LastReplyOwes ==
    ASSUME NEW ms \in Seq(Message), NEW U, Owes(ms, U), MakesCalls(Last(ms))
    PROVE  U = Last(ms).calls
<1>1. Len(ms) \in Nat /\ Len(ms) \in 1..Len(ms) /\ (Len(ms) + 1)..Len(ms) = {}
  BY DEF Owes
<1>2. \A c \in Last(ms).calls : c \in U
  <2>1. \A c : ~AnsweredRightAfter(ms, Len(ms), c)
    BY <1>1 DEF AnsweredRightAfter
  <2> QED
    BY <1>1, <2>1 DEF Owes, AllAnsweredBut, Last
<1>3. U # {}
  BY <1>2 DEF MakesCalls
<1> QED
  BY <1>3, OwingEnds DEF MakesCalls

-----------------------------------------------------------------------------
(* Every step keeps the transcript and the ledger. *)

(* Where the turn stands decides what is owed. *)
LEMMA NothingOwed ==
    ASSUME IInv
    PROVE  /\ (pc \notin {"refuse", "batch", "unwind", "idle"} \/ RoundOver) =>
                 Dangling(msgs) = {} /\ running = {} /\ late = {} /\ InOrder(msgs, {}, replies)
           /\ pc # "idle" => late = {}
<1>1. Ledger(pc, todo, running, late, Dangling(msgs))
  BY DEF IInv
<1>2. pc \notin {"refuse", "batch", "unwind", "idle"} \/ RoundOver =>
         Dangling(msgs) = {} /\ running = {} /\ late = {}
  BY <1>1 DEF Ledger, RoundOver
<1>3. pc # "idle" => late = {}
  BY <1>1 DEF Ledger
<1> QED
  BY <1>2, <1>3 DEF IInv

(* A turn that stops with nothing to unwind leaves the transcript as is.   *)
LEMMA StopsInOrder ==
    ASSUME IInv, NEW cancelled, EndTurn(cancelled), UNCHANGED <<msgs, running, late, replies>>,
           running = {}
    PROVE  IInv'
<1>1. pc' = "idle"
  BY DEF EndTurn
<1>2. Ledger(pc', todo', running', late', Dangling(msgs))
  BY <1>1 DEF IInv, Ledger
<1>3. InOrder(msgs', Dangling(msgs), replies')
  BY DEF IInv
<1> QED
  BY <1>1, <1>2, <1>3, Settled

(* The pipeline: an injected message or a compaction's request follow.     *)
LEMMA PipelineInOrder ==
    ASSUME TypeOK, IInv, Pipeline
    PROVE  IInv'
<1>1. pc = "before" /\ running = {} /\ late = {} /\ InOrder(msgs, {}, replies) /\ Last(msgs).kind # "warn"
  <2>1. pc = "before"
    BY DEF Pipeline, StopByLimit, BeginAutoCompact, StopRepeating, StopSpent, BeginLLMCall
  <2> QED
    BY <2>1, NothingOwed DEF IInv, WarnedLast
<1>2. CASE StopByLimit
  BY <1>1, <1>2, StopsInOrder DEF StopByLimit, counts
<1>3. CASE BeginAutoCompact
  <2>1. Says("ask") \in Message /\ Says("ask").kind = "ask" /\ Says("ask").calls = {}
    BY MessageForms DEF Kinds, Says
  <2>2. InOrder(Append(msgs, Says("ask")), {}, replies)
    BY <1>1, <2>1, OneSaysFollows DEF TypeOK
  <2>3. msgs' = Append(msgs, Says("ask")) /\ replies' = replies /\ pc' = "asking"
        /\ running' = {} /\ late' = {}
    BY <1>1, <1>3 DEF BeginAutoCompact, batch, counts
  <2>4. Ledger(pc', todo', running', late', {})
    BY <2>3 DEF Ledger
  <2> QED
    BY <2>2, <2>3, <2>4, Settled
<1>4. CASE StopRepeating
  BY <1>1, <1>4, StopsInOrder DEF StopRepeating, counts
<1>5. CASE StopSpent
  BY <1>1, <1>5, StopsInOrder DEF StopSpent, counts
<1>6. CASE BeginLLMCall
  <2> DEFINE kind == IF OverBudget THEN "warn" ELSE "inject"
             m == Injects(kind, PlanNotice)
  <2>1. m \in Message /\ m.kind \in {"warn", "inject"} /\ m.calls = {}
    <3>1. PlanNotice \in {"none", "on", "off"}
      BY DEF PlanNotice
    <3>2. kind \in Kinds /\ kind \in {"warn", "inject"}
      BY DEF Kinds
    <3>3. m.kind = kind /\ m.calls = {}
      BY DEF Injects
    <3>4. m \in Message
      BY <3>1, <3>2, MessageForms
    <3> QED
      BY <3>2, <3>3, <3>4
  <2>2. msgs' = Append(msgs, m) \/ msgs' = msgs
    BY <1>6 DEF BeginLLMCall
  <2> HIDE DEF m
  <2>3. InOrder(Append(msgs, m), {}, replies)
    BY <1>1, <2>1, OneSaysFollows DEF TypeOK
  <2>4. replies' = replies /\ pc' = "llm" /\ running' = {} /\ late' = {}
    BY <1>1, <1>6 DEF BeginLLMCall, batch
  <2>5. Ledger(pc', todo', running', late', {})
    BY <2>4 DEF Ledger
  <2> QED
    BY <1>1, <2>2, <2>3, <2>4, <2>5, Settled
<1> QED
  BY <1>2, <1>3, <1>4, <1>5, <1>6 DEF Pipeline

(* A reply owes its calls, which are new. *)
LEMMA RequestInOrder ==
    ASSUME TypeOK, IInv, Request
    PROVE  IInv'
<1>1. pc = "llm" /\ running = {} /\ late = {} /\ InOrder(msgs, {}, replies)
  <2>1. pc = "llm"
    BY DEF Request, RequestFails, Reply
  <2> QED
    BY <2>1, NothingOwed
<1>2. CASE RequestFails
  BY <1>1, <1>2, StopsInOrder DEF RequestFails, counts
<1>3. ASSUME NEW keys \in SUBSET Keys, Reply(keys) PROVE IInv'
  <2> DEFINE calls == {<<replies + 1, k>> : k \in keys}
  <2>1. calls \in FiniteCalls /\ replies \in Nat
    BY ReplyCalls DEF TypeOK
  <2>2. \A c \in calls : c[1] = replies + 1
    OBVIOUS
  <2>3. keys = {} => calls = {}
    OBVIOUS
  <2>4. /\ msgs' = Append(msgs, Asks(calls)) /\ replies' = replies + 1 /\ todo' = calls
        /\ pc' \in {"text", "refuse", "batch"} /\ (pc' = "text" => keys = {})
        /\ running' = {} /\ late' = {}
    BY <1>1, <1>3 DEF Reply
  <2> HIDE DEF calls
  <2>5. InOrder(msgs', calls, replies')
    BY <1>1, <2>1, <2>2, <2>4, ReplyFollows DEF TypeOK
  <2>6. Ledger(pc', todo', running', late', calls)
    BY <2>3, <2>4 DEF Ledger
  <2> QED
    BY <2>4, <2>5, <2>6, Settled
<1> QED
  BY <1>2, <1>3 DEF Request

(* A response to a call that is owed. *)
LEMMA ResponseInOrder ==
    ASSUME TypeOK, IInv, NEW c \in CallId, c \in Dangling(msgs), msgs' = Append(msgs, Answers(c)),
           replies' = replies, pc' = pc, pc \in {"refuse", "batch", "unwind", "idle"},
           Ledger(pc, todo', running', late', Dangling(msgs) \ {c})
    PROVE  IInv'
<1>1. InOrder(msgs', Dangling(msgs) \ {c}, replies')
  BY OneResponseFollows DEF TypeOK, IInv
<1> QED
  BY <1>1, Settled

(* Every way a call is answered in a batch pays exactly that call. *)
LEMMA RunBatchInOrder ==
    ASSUME TypeOK, IInv, RunBatch
    PROVE  IInv'
<1>1. /\ todo \subseteq CallId /\ running \subseteq CallId
      /\ Ledger(pc, todo, running, late, Dangling(msgs))
  BY DEF TypeOK, IInv
<1>2. ASSUME NEW c \in todo, RefuseCall(c) PROVE IInv'
  <2>1. Ledger(pc, todo', running', late', Dangling(msgs) \ {c}) /\ c \in Dangling(msgs)
    BY <1>1, <1>2 DEF RefuseCall, Ledger
  <2> QED
    BY <1>1, <1>2, <2>1, ResponseInOrder DEF RefuseCall, counts
<1>3. ASSUME NEW c \in todo, SkipRepeat(c) PROVE IInv'
  <2>1. Ledger(pc, todo', running', late', Dangling(msgs) \ {c}) /\ c \in Dangling(msgs)
    BY <1>1, <1>3 DEF SkipRepeat, Ledger
  <2> QED
    BY <1>1, <1>3, <2>1, ResponseInOrder DEF SkipRepeat, counts
<1>4. ASSUME NEW c \in todo, NEW backedOut \in BOOLEAN, SkipCall(c, backedOut) PROVE IInv'
  <2>1. Ledger(pc, todo', running', late', Dangling(msgs) \ {c}) /\ c \in Dangling(msgs)
    BY <1>1, <1>4 DEF SkipCall, Ledger
  <2> QED
    BY <1>1, <1>4, <2>1, ResponseInOrder DEF SkipCall, counts
<1>5. ASSUME NEW c \in todo, StartTool(c) PROVE IInv'
  <2>1. Ledger(pc', todo', running', late', Dangling(msgs))
    BY <1>1, <1>5 DEF StartTool, Ledger
  <2>2. InOrder(msgs', Dangling(msgs), replies') /\ pc' = "batch"
    BY <1>5 DEF StartTool, counts, IInv
  <2> QED
    BY <2>1, <2>2, Settled
<1>6. ASSUME NEW c \in running, NEW backedOut \in BOOLEAN, FinishTool(c, backedOut) PROVE IInv'
  <2>1. Ledger(pc, todo', running', late', Dangling(msgs) \ {c}) /\ c \in Dangling(msgs)
    BY <1>1, <1>6 DEF FinishTool, Ledger
  <2> QED
    BY <1>1, <1>6, <2>1, ResponseInOrder DEF FinishTool, counts
<1> QED
  BY <1>2, <1>3, <1>4, <1>5, <1>6 DEF RunBatch

(* Queued steering messages follow a closed round. *)
LEMMA FlushFollows ==
    ASSUME TypeOK, InOrder(msgs, {}, replies), Last(msgs).kind # "warn"
    PROVE  /\ InOrder(msgs \o FlushedQueue, {}, replies)
           /\ Last(msgs \o FlushedQueue).kind # "warn"
<1> DEFINE ext == FlushedQueue
<1>1. ext \in Seq(Message) /\ Len(ext) = queue /\ Len(ext) \in Nat
  BY FlushType DEF TypeOK, FlushedQueue
<1>2. \A n \in 1..Len(ext) : ext[n].kind = "steer" /\ ext[n].calls = {}
  BY <1>1 DEF FlushedQueue, Says
<1> HIDE DEF ext
<1>3. NoneStale(ext)
  <2>1. \A n \in 1..(Len(ext) - 1) : n \in 1..Len(ext)
    BY <1>1
  <2> QED
    BY <1>2, <2>1 DEF NoneStale
<1>4. InOrder(msgs \o ext, {}, replies)
  BY <1>1, <1>2, <1>3, SaysFollow DEF TypeOK
<1>5. Last(msgs \o ext).kind # "warn"
  <2>1. /\ Len(msgs) \in Nat /\ Len(msgs \o ext) = Len(msgs) + Len(ext)
        /\ \A i \in 1..Len(msgs) : (msgs \o ext)[i] = msgs[i]
        /\ \A n \in 1..Len(ext) : (msgs \o ext)[Len(msgs) + n] = ext[n]
    BY <1>1, Joined DEF TypeOK
  <2>2. Len(msgs) # 0
    BY EmptySeq DEF TypeOK, InOrder, Owes
  <2>3. CASE Len(ext) = 0
    <3>1. Len(msgs \o ext) = Len(msgs) /\ Len(msgs) \in 1..Len(msgs)
      BY <2>1, <2>2, <2>3
    <3> QED
      BY <2>1, <3>1 DEF Last
  <2>4. CASE Len(ext) # 0
    <3>1. Len(ext) \in 1..Len(ext)
      BY <1>1, <2>4
    <3> QED
      BY <1>2, <2>1, <3>1 DEF Last
  <2> QED
    BY <2>3, <2>4
<1> QED
  BY <1>4, <1>5 DEF ext

(* A round that closes owes nothing. *)
LEMMA EndRoundInOrder ==
    ASSUME TypeOK, IInv, EndRound
    PROVE  IInv'
<1>1. running = {} /\ late = {} /\ InOrder(msgs, {}, replies)
  <2>1. RoundOver \/ pc = "nudged"
    BY DEF EndRound, StopOnBackOut, NextRound, Nudge, Finish
  <2> QED
    BY <2>1, NothingOwed
<1>2. CASE StopOnBackOut
  BY <1>1, <1>2, StopsInOrder DEF StopOnBackOut, counts
<1>3. CASE NextRound
  <2>1. Last(msgs).kind # "warn"
    BY <1>3 DEF NextRound, IInv, WarnedLast
  <2>2. /\ msgs' = msgs \o FlushedQueue /\ replies' = replies /\ pc' = "before"
        /\ running' = {} /\ late' = {}
    BY <1>1, <1>3 DEF NextRound, batch, counts
  <2>3. Ledger(pc', todo', running', late', {})
    BY <2>2 DEF Ledger
  <2> QED
    BY <1>1, <2>1, <2>2, <2>3, FlushFollows, Settled
<1>4. CASE Nudge
  <2> DEFINE m == Says("nudge")
  <2>1. m \in Message /\ m.kind = "nudge" /\ m.calls = {}
    BY MessageForms DEF Kinds, Says
  <2>2. /\ msgs' = Append(msgs, m) /\ replies' = replies /\ pc' = "nudged"
        /\ running' = {} /\ late' = {} /\ Last(msgs).kind = "assistant"
    BY <1>1, <1>4 DEF Nudge, MayNudge, batch, counts
  <2> HIDE DEF m
  <2>3. InOrder(msgs', {}, replies') /\ Last(msgs') = m
    BY <1>1, <2>1, <2>2, OneSaysFollows, OneMore DEF TypeOK
  <2>4. Ledger(pc', todo', running', late', {})
    BY <2>2 DEF Ledger
  <2> QED
    BY <2>1, <2>3, <2>4, Settled
<1>5. CASE Finish
  BY <1>1, <1>5, StopsInOrder DEF Finish, counts
<1> QED
  BY <1>2, <1>3, <1>4, <1>5 DEF EndRound

(* An interrupted tool's response is still one that is owed. *)
LEMMA UnwindInOrder ==
    ASSUME TypeOK, IInv, Unwind
    PROVE  IInv'
<1>1. CASE Unwound
  BY <1>1, StopsInOrder DEF Unwound, counts
<1>2. ASSUME NEW c \in running, UnwindTool(c) PROVE IInv'
  <2>1. Ledger(pc, todo', running', late', Dangling(msgs) \ {c}) /\ c \in Dangling(msgs)
    BY <1>2 DEF UnwindTool, Ledger, IInv
  <2>2. c \in CallId
    BY DEF TypeOK
  <2> QED
    BY <1>2, <2>1, <2>2, ResponseInOrder DEF UnwindTool, counts
<1> QED
  BY <1>1, <1>2 DEF Unwind

(* A compaction leaves the system message and a summary. *)
LEMMA CompactionInOrder ==
    ASSUME TypeOK, IInv, Compaction
    PROVE  IInv'
<1>1. pc \in {"asking", "counting"} /\ running = {} /\ late = {} /\ InOrder(msgs, {}, replies)
  <2>1. pc \in {"asking", "counting"}
    BY DEF Compaction, SummaryArrives, EndCompact, CompactFails
  <2> QED
    BY <2>1, NothingOwed
<1>2. CASE SummaryArrives
  <2> DEFINE new == <<msgs[1], Says("summary")>>
  <2>1. /\ msgs' = new /\ replies' = replies /\ pc' = "counting"
        /\ running' = {} /\ late' = {}
    BY <1>1, <1>2 DEF SummaryArrives, batch
  <2>2. Len(new) = 2 /\ new[1].kind = "system" /\ new[2].kind = "summary" /\ new[2].calls = {}
    BY <1>1 DEF InOrder, Owes, Says
  <2>3. new[1].calls \subseteq CallId /\ \A c \in new[1].calls : c[1] <= replies
    <3>1. 1 \in 1..Len(msgs)
      BY <1>1, EmptySeq DEF TypeOK, InOrder, Owes
    <3>2. msgs[1] \in Message
      BY <3>1, ElementOfSeq DEF TypeOK
    <3>3. \A m \in Message : m.calls \subseteq CallId
      BY DEF Message, FiniteCalls
    <3>4. \A c \in msgs[1].calls : c[1] <= replies
      BY <1>1, <3>1 DEF InOrder, Older
    <3> QED
      BY <3>2, <3>3, <3>4
  <2> HIDE DEF new
  <2>4. \A i \in 1..Len(new) : i = 1 \/ i = 2
    BY <2>2
  <2>5. \A i \in 1..Len(new) : ~IsTool(new, i) /\ ~MakesCalls(new[i])
    BY <2>2, <2>4 DEF IsTool, MakesCalls
  <2>6. Owes(new, {})
    BY <2>2, <2>5 DEF Owes, AllAnsweredBut, Owing, Placed, OncePerCall, CallsApart
  <2>7. Older(new, replies)
    BY <2>2, <2>3, <2>4 DEF Older
  <2>8. NoneStale(new)
    BY <2>2 DEF NoneStale
  <2>9. InOrder(msgs', {}, replies')
    BY <2>1, <2>6, <2>7, <2>8 DEF InOrder
  <2>10. Ledger(pc', todo', running', late', {})
    BY <2>1 DEF Ledger
  <2> QED
    BY <2>1, <2>9, <2>10, Settled
<1>3. CASE EndCompact
  <2>1. /\ UNCHANGED <<msgs, replies>> /\ pc' \in {"llm", "idle"} /\ running' = {} /\ late' = {}
    BY <1>1, <1>3 DEF EndCompact, batch
  <2>2. Ledger(pc', todo', running', late', {})
    BY <2>1 DEF Ledger
  <2> QED
    BY <1>1, <2>1, <2>2, Settled
<1>4. CASE CompactFails
  BY <1>1, <1>4, StopsInOrder DEF CompactFails, counts
<1> QED
  BY <1>2, <1>3, <1>4 DEF Compaction

(* act() answers whatever an interrupt left open before it says anything.  *)
LEMMA ActInOrder ==
    ASSUME TypeOK, IInv, "late_replies" \notin Environment,
           NEW isAnswerOnly, Act(isAnswerOnly)
    PROVE  IInv'
<1> DEFINE kept == WithoutLastWarning(msgs)
           U == Dangling(msgs)
           m == Says("prompt")
<1>1. kept \in Seq(Message) /\ InOrder(kept, U, replies) /\ Last(kept).kind # "warn"
  BY TailRepairType, RepairsFollow DEF TypeOK, IInv
<1>2. Dangling(kept) = U /\ U \in FiniteCalls
  BY <1>1, OwedDangles, DanglingType DEF InOrder, TypeOK
<1>3. PICK shims \in AnswerSeqs(U) : msgs' = Append(kept \o shims, m)
  BY <1>2 DEF Act
<1>4. /\ replies' = replies /\ pc' = "before" /\ running' = {} /\ late' = {}
  BY DEF Act, IInv, Ledger
<1>5. m \in Message /\ m.kind = "prompt" /\ m.calls = {}
  BY MessageForms DEF Kinds, Says
<1> HIDE DEF kept, U, m
<1>6. shims \in Seq(Message) /\ InOrder(kept \o shims, {}, replies)
  BY <1>1, <1>2, ShimsFollow, AnswerSeqsType
<1>7. kept \o shims \in Seq(Message) /\ Last(kept \o shims).kind # "warn"
  <2>1. /\ Len(kept) \in Nat /\ Len(shims) \in Nat /\ kept \o shims \in Seq(Message)
        /\ Len(kept \o shims) = Len(kept) + Len(shims)
        /\ \A i \in 1..Len(kept) : (kept \o shims)[i] = kept[i]
        /\ \A n \in 1..Len(shims) : (kept \o shims)[Len(kept) + n] = shims[n]
    BY <1>1, <1>6, Joined
  <2>2. Len(kept) # 0
    BY <1>1, EmptySeq DEF InOrder, Owes
  <2>3. CASE Len(shims) = 0
    <3>1. Len(kept \o shims) = Len(kept) /\ Len(kept) \in 1..Len(kept)
      BY <2>1, <2>2, <2>3
    <3> QED
      BY <1>1, <2>1, <3>1 DEF Last
  <2>4. CASE Len(shims) # 0
    <3>1. Len(shims) \in 1..Len(shims)
      BY <2>1, <2>4
    <3>2. DOMAIN shims = 1..Len(shims) /\ shims \in [1..Cardinality(U) -> {Answers(c) : c \in U}]
      BY <1>6 DEF AnswerSeqs
    <3>3. \E c \in U : shims[Len(shims)] = Answers(c)
      BY <3>1, <3>2
    <3>4. shims[Len(shims)].kind = "tool"
      BY <3>3, AnswerForm
    <3> QED
      BY <2>1, <3>1, <3>4 DEF Last
  <2> QED
    BY <2>1, <2>3, <2>4
<1>8. InOrder(msgs', {}, replies') /\ Last(msgs') = m
  BY <1>3, <1>4, <1>5, <1>6, <1>7, OneSaysFollows, OneMore
<1>9. Ledger(pc', todo', running', late', {})
  BY <1>4 DEF Ledger
<1> QED
  BY <1>5, <1>8, <1>9, Settled

(* An interrupt owes no more than before, and forgets no orphan. *)
LEMMA InterruptInOrder ==
    ASSUME IInv, Interrupt
    PROVE  IInv'
<1>1. CASE InterruptInTool
  <2>1. UNCHANGED <<msgs, replies>> /\ pc' = "unwind" /\ Ledger(pc', todo', running', late', Dangling(msgs))
    BY <1>1 DEF InterruptInTool, counts, IInv, Ledger
  <2> QED
    BY <2>1, Settled DEF IInv
<1>2. CASE InterruptElsewhere
  <2>1. /\ UNCHANGED <<msgs, replies>> /\ pc' = "idle" /\ running' = {} /\ todo' = {}
        /\ late' \subseteq late \union running /\ pc \notin {"idle", "unwind"}
    BY <1>2 DEF InterruptElsewhere, EndTurn, counts
  <2>2. late' \subseteq Dangling(msgs)
    BY <2>1 DEF IInv, Ledger
  <2>3. Ledger(pc', todo', running', late', Dangling(msgs))
    BY <2>1, <2>2 DEF Ledger
  <2> QED
    BY <2>1, <2>3, Settled DEF IInv
<1> QED
  BY <1>1, <1>2 DEF Interrupt

(* Steps that touch neither the transcript nor the batch. *)
LEMMA AsideInOrder ==
    ASSUME IInv, UNCHANGED <<msgs, pc, todo, running, late, replies>>
    PROVE  IInv'
  BY DEF IInv, WarnedLast

(* What the person does. *)
LEMMA PersonInOrder ==
    ASSUME TypeOK, IInv, Environment \intersect {"compact_torn", "late_replies"} = {}, Person
    PROVE  IInv'
<1>1. ASSUME NEW isAnswerOnly \in BOOLEAN, Act(isAnswerOnly) PROVE IInv'
  BY <1>1, ActInOrder
<1>2. CASE BeginCompact
  <2> DEFINE m == Says("ask")
  <2>1. m \in Message /\ m.kind = "ask" /\ m.calls = {}
    BY MessageForms DEF Kinds, Says
  <2>2. Dangling(msgs) = {} /\ InOrder(msgs, {}, replies)
    BY <1>2 DEF BeginCompact, IInv
  <2>3. /\ msgs' = Append(msgs, m) /\ replies' = replies /\ pc' = "asking"
        /\ running' = {} /\ late' = {}
    BY <1>2, <2>2 DEF BeginCompact, batch, IInv, Ledger
  <2> HIDE DEF m
  <2>4. InOrder(msgs', {}, replies')
    BY <2>1, <2>2, <2>3, OneSaysFollows DEF TypeOK
  <2>5. Ledger(pc', todo', running', late', {})
    BY <2>3 DEF Ledger
  <2> QED
    BY <2>3, <2>4, <2>5, Settled
<1>3. CASE QueueSteering
  BY <1>3, AsideInOrder DEF QueueSteering, conversation, batch, counts
<1>4. CASE DrainSteering
  BY <1>4, AsideInOrder DEF DrainSteering, conversation, batch, counts
<1>5. CASE SwitchAgent
  BY <1>5, AsideInOrder DEF SwitchAgent, conversation, batch, counts
<1>6. CASE Interrupt
  BY <1>6, InterruptInOrder
<1> QED
  BY <1>1, <1>2, <1>3, <1>4, <1>5, <1>6 DEF Person

(* What restore() adds closes the batch a dead process left without any    *)
(* answer; the two tail repairs and the refresh follow it.                 *)
LEMMA RestartInOrder ==
    ASSUME TypeOK, IInv, "restart_torn" \notin Environment, Restart
    PROVE  IInv'
<1> DEFINE U == Dangling(msgs)
           m == Says("refresh")
<1>1. PICK shims \in ShimSeqsOnRestore(msgs) :
         msgs' = Refreshed(WithoutLastWarning(msgs \o shims))
  BY DEF Restart
<1> DEFINE whole == msgs \o shims
           kept == WithoutLastWarning(whole)
           base == WithoutLastRefresh(kept)
<1>2. msgs \in Seq(Message) /\ InOrder(msgs, U, replies) /\ U \in FiniteCalls /\ Owes(msgs, U)
  BY DanglingType DEF TypeOK, IInv, InOrder
<1>3. msgs # <<>>
  BY <1>2 DEF Owes
<1>4. whole \in Seq(Message) /\ InOrder(whole, {}, replies)
  <2>1. CASE MakesCalls(Last(msgs))
    <3>1. U = Last(msgs).calls
      BY <1>2, <2>1, LastReplyOwes
    <3>2. shims \in AnswerSeqs(U)
      BY <1>1, <1>3, <2>1, <3>1 DEF ShimSeqsOnRestore
    <3> HIDE DEF U
    <3>3. shims \in Seq(Message)
      BY <1>2, <3>2, AnswerSeqsType
    <3> QED
      BY <1>2, <3>2, <3>3, ShimsFollow, Joined
  <2>2. CASE ~MakesCalls(Last(msgs))
    <3>1. shims = <<>>
      BY <1>1, <2>2 DEF ShimSeqsOnRestore
    <3>2. whole = msgs
      BY <1>2, <3>1, ConcatEmptySeq
    <3>3. U = {}
      BY <1>2, <2>2, OwingEnds DEF Restart
    <3> QED
      BY <1>2, <3>2, <3>3
  <2> QED
    BY <2>1, <2>2
<1> HIDE DEF whole
<1>5. kept \in Seq(Message) /\ InOrder(kept, {}, replies) /\ Last(kept).kind # "warn"
  BY <1>4, TailRepairType, RepairsFollow
<1> HIDE DEF kept
<1>6. base \in Seq(Message) /\ InOrder(base, {}, replies) /\ Last(base).kind # "warn"
  BY <1>5, TailRepairType, RepairsFollow
<1>7. msgs' = Append(base, m)
  BY <1>1 DEF Refreshed, whole, kept
<1>8. m \in Message /\ m.kind = "refresh" /\ m.calls = {}
  BY MessageForms DEF Kinds, Says
<1> HIDE DEF base, m
<1>9. replies' = replies /\ pc' = "idle" /\ running' = {} /\ late' = {}
  BY DEF Restart
<1>10. InOrder(msgs', {}, replies')
  BY <1>6, <1>7, <1>8, <1>9, OneSaysFollows
<1>11. Ledger(pc', todo', running', late', {})
  BY <1>9 DEF Ledger
<1> QED
  BY <1>9, <1>10, <1>11, Settled

(* An orphaned tool's response, before the next act(). *)
LEMMA LateReplyInOrder ==
    ASSUME TypeOK, IInv, NEW c \in late, LateReply(c)
    PROVE  IInv'
<1>1. c \in CallId /\ c \in Dangling(msgs) /\ pc = "idle"
  BY DEF TypeOK, IInv, Ledger
<1>2. Ledger(pc, todo', running', late', Dangling(msgs) \ {c})
  BY <1>1 DEF LateReply, IInv, Ledger
<1> QED
  BY <1>1, <1>2, ResponseInOrder DEF LateReply, counts

-----------------------------------------------------------------------------
(* The theorems. *)

(* The new conversation is in order. *)
LEMMA InOrderInit == Init => IInv
<1> SUFFICES ASSUME Init PROVE IInv
  OBVIOUS
<1>1. /\ msgs = <<Says("system")>> /\ pc = "idle" /\ running = {} /\ late = {}
  BY DEF Init
<1>2. Len(msgs) = 1 /\ msgs[1].kind = "system" /\ msgs[1].calls = {} /\ msgs # <<>>
  BY <1>1 DEF Says
<1>3. \A i \in 1..Len(msgs) : ~IsTool(msgs, i) /\ ~MakesCalls(msgs[i]) /\ msgs[i].calls = {}
  BY <1>2 DEF IsTool, MakesCalls
<1>4. InOrder(msgs, {}, replies)
  BY <1>2, <1>3 DEF InOrder, Owes, AllAnsweredBut, Owing, Placed, OncePerCall, CallsApart,
                    Older, NoneStale
<1>5. Dangling(msgs) = {}
  BY <1>4, OwedDangles DEF InOrder
<1> QED
  BY <1>1, <1>4, <1>5 DEF IInv, Ledger, WarnedLast

(* Every step keeps it so. *)
LEMMA InOrderStep ==
    ASSUME TypeOK, IInv, [Next]_vars,
           Environment \intersect {"compact_torn", "restart_torn", "late_replies"} = {}
    PROVE  IInv'
<1>1. CASE LoopStep
  BY <1>1, PipelineInOrder, RequestInOrder, RunBatchInOrder, EndRoundInOrder, UnwindInOrder,
     CompactionInOrder DEF LoopStep
<1>2. CASE Person
  BY <1>2, PersonInOrder
<1>3. ASSUME NEW c \in late, LateReply(c) PROVE IInv'
  BY <1>3, LateReplyInOrder
<1>4. CASE Restart
  BY <1>4, RestartInOrder
<1>5. CASE UNCHANGED vars
  BY <1>5, AsideInOrder DEF vars, conversation, batch, counts
<1> QED
  BY <1>1, <1>2, <1>3, <1>4, <1>5 DEF Next

(* The inductive invariant holds of every behaviour. *)
LEMMA InOrderAlways ==
    ASSUME Environment \intersect {"compact_torn", "restart_torn", "late_replies"} = {}
    PROVE  Spec => []IInv
<1>1. Init => IInv
  BY InOrderInit
<1>2. TypeOK /\ IInv /\ [Next]_vars => IInv'
  BY InOrderStep
<1>3. Spec => []TypeOK
  BY TypeCorrect, PTL
<1> QED
  BY <1>1, <1>2, <1>3, PTL DEF Spec

(* Every request that goes to the model is a well-formed transcript, for   *)
(* any calls, bounds, interrupts, compactions and restarts: the shims of   *)
(* act() and restore(), the refusals and the place where steering lands    *)
(* keep each call answered once, right after the reply that made it. The   *)
(* assumption leaves out the three events whose effect the code does not   *)
(* repair: a compaction or a restart of a batch answered in part, and a    *)
(* response that an orphaned tool records after the next act().            *)
THEOREM WellFormed ==
    ASSUME Environment \intersect {"compact_torn", "restart_torn", "late_replies"} = {}
    PROVE  Spec => []RequestWellFormed
<1>1. IInv => RequestWellFormed
  <2> SUFFICES ASSUME IInv, pc \in {"llm", "asking"} PROVE RequestWellFormed
    BY DEF RequestWellFormed, Requesting
  <2>1. Owes(msgs, {})
    BY NothingOwed DEF InOrder
  <2>2. \A i \in 1..Len(msgs) : MakesCalls(msgs[i]) =>
           \A c \in msgs[i].calls : AnsweredRightAfter(msgs, i, c)
    BY <2>1 DEF Owes, AllAnsweredBut
  <2>3. ASSUME NEW j \in 1..Len(msgs), IsTool(msgs, j)
        PROVE  \E i \in 1..(j - 1) : /\ MakesCalls(msgs[i])
                                     /\ msgs[j].calls \subseteq msgs[i].calls
                                     /\ \A k \in (i+1)..j : IsTool(msgs, k)
    BY <2>1, <2>3, PlacedAt, AnswerForm DEF Owes
  <2>4. \A j, k \in 1..Len(msgs) :
           (j # k /\ IsTool(msgs, j) /\ IsTool(msgs, k)) => msgs[j].calls # msgs[k].calls
    BY <2>1 DEF Owes, OncePerCall
  <2> QED
    BY <2>2, <2>3, <2>4 DEF RequestWellFormed, IsTool
<1> QED
  BY <1>1, InOrderAlways, PTL

(* No prompt, steering message or refresh lands after a write-up request   *)
(* that an interrupt left without a reply.                                 *)
THEOREM NothingAfterWarning ==
    ASSUME Environment \intersect {"compact_torn", "restart_torn", "late_replies"} = {}
    PROVE  Spec => []NoStaleWarning
<1>1. IInv => NoStaleWarning
  BY DEF IInv, InOrder, NoneStale, NoStaleWarning
<1> QED
  BY <1>1, InOrderAlways, PTL

=============================================================================
