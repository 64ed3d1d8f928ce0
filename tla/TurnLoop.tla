------------------------------ MODULE TurnLoop ------------------------------
(***************************************************************************)
(* One agent loop (privibe/core/agent_loop.py) and the conversation it     *)
(* owns (privibe/core/conversation.py): a user turn runs the middleware    *)
(* pipeline, asks the model, runs the batch of tool calls the model made,  *)
(* lets queued steering messages in, and goes round again until the model  *)
(* answers in text, a middleware stops the turn, an error ends it or the   *)
(* user interrupts it.                                                     *)
(*                                                                         *)
(* An action is the code between two awaits (or yields): everything        *)
(* asyncio runs without giving the event loop back is one step, and the    *)
(* other actors (the person typing, the tools in flight, a process that    *)
(* dies) act between steps.                                                *)
(***************************************************************************)
EXTENDS Naturals, Sequences, FiniteSets

CONSTANTS
    Keys,             \* tool_call_key values: tool name + canonical arguments
    Mutators,         \* the keys whose tool has mutates_files
    MaxLLMCalls,      \* config.max_llm_calls_per_turn; 0 switches the budget off
    AutoContinueMax,  \* config.auto_continue_max
    Streak,           \* RepeatedToolCallMiddleware.streak
    Environment,      \* which of EnvironmentEvents this instance admits
    MaxTurns, MaxReplies, MaxQueue, MaxUpsets  \* bounds of the instance, not of the code

(* What the surroundings of the loop may do to it, each at a time of its   *)
(* own choosing.                                                           *)
(*   auto_compact    the context grows over the compaction threshold       *)
(*   compact         /compact between turns                                *)
(*   compact_torn    /compact while the last batch is not fully answered   *)
(*   restart         the process ends and the session is resumed           *)
(*   restart_torn    ... with the last batch answered in part              *)
(*   late_replies    tools orphaned by an interrupt outlive the next act() *)
(*   switch_agent    the person switches between plan mode and another     *)
EnvironmentEvents ==
    {"auto_compact", "compact", "compact_torn", "restart", "restart_torn",
     "late_replies", "switch_agent"}

ASSUME ConstantsAssumption ==
    /\ IsFiniteSet(Keys)
    /\ Mutators \subseteq Keys
    /\ MaxLLMCalls \in Nat
    /\ AutoContinueMax \in Nat
    /\ Streak \in Nat \ {0}
    /\ Environment \subseteq EnvironmentEvents
    /\ MaxTurns \in Nat /\ MaxReplies \in Nat /\ MaxQueue \in Nat /\ MaxUpsets \in Nat

-----------------------------------------------------------------------------
(* Messages. A call is identified by the reply that made it and its key; a *)
(* tool message carries the one call it answers. `plan` is what an         *)
(* injected message tells the model about plan mode.                       *)

CallId == Nat \X Keys
KeyOf(c) == c[2]

Kinds == {"system", "prompt", "steer", "nudge", "inject", "warn", "refresh",
          "ask", "summary", "assistant", "tool"}

FiniteCalls == {calls \in SUBSET CallId : IsFiniteSet(calls)}

Message == [kind : Kinds, calls : FiniteCalls, plan : {"none", "on", "off"}]

Says(kind) == [kind |-> kind, calls |-> {}, plan |-> "none"]
Injects(kind, plan) == [kind |-> kind, calls |-> {}, plan |-> plan]
Asks(calls) == [kind |-> "assistant", calls |-> calls, plan |-> "none"]
Answers(c) == [kind |-> "tool", calls |-> {c}, plan |-> "none"]

(* A user-role message the person stands behind (not LLMMessage.injected). *)
SpokenByUser(m) == m.kind \in {"prompt", "steer", "nudge", "ask", "summary"}

MakesCalls(m) == m.kind = "assistant" /\ m.calls # {}

Last(ms) == ms[Len(ms)]

(* assistant_messages_this_turn, as positions: walking back from the tail, *)
(* up to the first message the user stands behind.                         *)
AssistantsThisTurn(ms) ==
    {i \in 1..Len(ms) : /\ ms[i].kind = "assistant"
                        /\ \A j \in (i+1)..Len(ms) : ~SpokenByUser(ms[j])}

(* The n newest of them, or {} when there are fewer. *)
NewestAssistants(ms, n) ==
    LET near == {i \in AssistantsThisTurn(ms) :
                    Cardinality({j \in AssistantsThisTurn(ms) : j > i}) < n}
    IN  IF Cardinality(near) = n THEN near ELSE {}

KeysAt(ms, i) == {KeyOf(c) : c \in ms[i].calls}

(* Some call was issued in each of the last n replies of the turn. *)
RepeatedInAll(ms, n) ==
    /\ NewestAssistants(ms, n) # {}
    /\ \E k \in Keys : \A i \in NewestAssistants(ms, n) : k \in KeysAt(ms, i)

\* fault: the previous reply is not compared against
PreviousIgnored(ms) == {}

(* _call_ids_repeating_previous_message: the keys of the reply before the  *)
(* one whose calls are executing.                                          *)
PreviousKeys(ms) ==
    UNION {KeysAt(ms, i) : i \in {j \in NewestAssistants(ms, 2) :
                                    \E k \in NewestAssistants(ms, 2) : j < k}}

AnsweredAfter(ms, i) ==
    UNION {ms[j].calls : j \in {k \in (i+1)..Len(ms) : ms[k].kind = "tool"}}

OnlyToolsAfter(ms, i) == \A j \in (i+1)..Len(ms) : ms[j].kind = "tool"

\* fault: no shim for unanswered calls
DanglingIgnored(ms) == {}

(* Calls at the tail that have no response yet: those of the one reply     *)
(* that has nothing but tool messages behind it, if there is one. A gap    *)
(* further back is not looked at.                                          *)
Dangling(ms) ==
    UNION {ms[i].calls \ AnsweredAfter(ms, i) :
             i \in {j \in 1..Len(ms) : MakesCalls(ms[j]) /\ OnlyToolsAfter(ms, j)}}

(* The responses to a set of calls, in any order. *)
AnswerSeqs(calls) ==
    {s \in [1..Cardinality(calls) -> {Answers(c) : c \in calls}] :
        \A c \in calls : \E i \in DOMAIN s : s[i] = Answers(c)}

\* fault: the dangling write-up request is kept
WarningKept(ms) == ms

WithoutLastWarning(ms) ==
    IF ms # <<>> /\ Last(ms).kind = "warn" THEN SubSeq(ms, 1, Len(ms) - 1) ELSE ms

(* _fix_dangling_tool_calls: only a tail that IS the asking message is     *)
(* closed, so a batch answered in part is left as it is.                   *)
ShimSeqsOnRestore(ms) ==
    IF ms # <<>> /\ MakesCalls(Last(ms)) THEN AnswerSeqs(Last(ms).calls) ELSE {<<>>}

WithoutLastRefresh(ms) ==
    IF ms # <<>> /\ Last(ms).kind = "refresh" THEN SubSeq(ms, 1, Len(ms) - 1) ELSE ms

(* _apply_context_refresh *)
Refreshed(ms) == Append(WithoutLastRefresh(ms), Says("refresh"))

-----------------------------------------------------------------------------
VARIABLES
    msgs,        \* ConversationList._data
    pc,          \* where the coroutine of the turn stands
    inTurn,      \* it is act() that runs, not a /compact
    todo,        \* calls of the current batch nobody has taken up yet
    running,     \* calls whose tool is executing
    late,        \* calls whose task an interrupt cancelled without waiting
    suspended,   \* _tools_suspended_for_step
    answerOnly,  \* _answer_only_turn
    userCancel,  \* user_cancelled: a tool event said the person backed out
    queue,       \* number of messages in _steering_queue
    drainDue,    \* the UI has yet to call drain_steering_queue
    budget,      \* StepBudgetMiddleware: turn_id, calls, summary_requested
    nudges,      \* _auto_continues_this_turn
    profile,     \* the active agent profile: plan or another
    wasActive,   \* ReadOnlyAgentMiddleware._was_active (plan instance)
    ctxFull,     \* stats.context_tokens >= auto_compact_threshold
    turn,        \* turns begun: stands for _current_user_message_id
    replies,     \* replies received: makes call ids fresh
    llmCalls,    \* history: requests the loop sent this turn
    compactions, \* history: compactions the loop made this turn
    upsets,      \* /compact commands and restarts so far, bounded by MaxUpsets
    noticeLost   \* history: a plan notice was dropped and _was_active kept

conversation == <<msgs, pc, inTurn>>
batch == <<todo, running, late, userCancel>>
modes == <<suspended, answerOnly>>
steering == <<queue, drainDue>>
middleware == <<budget, nudges, wasActive, ctxFull>>
counts == <<turn, replies, llmCalls, compactions, upsets, noticeLost>>
vars == <<conversation, batch, modes, steering, middleware, profile, counts>>

Places == {"idle", "before", "llm", "text", "refuse", "batch", "nudged", "unwind",
           "asking", "counting"}

TypeOK ==
    /\ msgs \in Seq(Message)
    /\ pc \in Places
    /\ inTurn \in BOOLEAN
    /\ todo \subseteq CallId /\ running \subseteq CallId /\ late \subseteq CallId
    /\ suspended \in BOOLEAN /\ answerOnly \in BOOLEAN /\ userCancel \in BOOLEAN
    /\ queue \in Nat /\ drainDue \in BOOLEAN
    /\ budget \in [turn : Nat, calls : Nat, asked : BOOLEAN]
    /\ nudges \in Nat
    /\ profile \in {"plan", "other"} /\ wasActive \in BOOLEAN
    /\ ctxFull \in BOOLEAN
    /\ turn \in Nat /\ replies \in Nat /\ llmCalls \in Nat /\ compactions \in Nat
    /\ upsets \in Nat /\ noticeLost \in BOOLEAN

Init ==
    /\ msgs = <<Says("system")>>
    /\ pc = "idle" /\ inTurn = FALSE
    /\ todo = {} /\ running = {} /\ late = {} /\ userCancel = FALSE
    /\ suspended = FALSE /\ answerOnly = FALSE
    /\ queue = 0 /\ drainDue = FALSE
    /\ budget = [turn |-> 0, calls |-> 0, asked |-> FALSE]
    /\ nudges = 0
    /\ profile = "other" /\ wasActive = FALSE
    /\ ctxFull = FALSE
    /\ turn = 0 /\ replies = 0 /\ llmCalls = 0 /\ compactions = 0
    /\ upsets = 0 /\ noticeLost = FALSE

-----------------------------------------------------------------------------
(* act() down to its first yield: tail repairs, then the user message.     *)
Act(isAnswerOnly) ==
    /\ pc = "idle"
    /\ turn < MaxTurns
    /\ "late_replies" \in Environment \/ late = {}
    /\ LET kept == WithoutLastWarning(msgs)
       IN  \E shims \in AnswerSeqs(Dangling(kept)) :
              msgs' = Append(kept \o shims, Says("prompt"))
    /\ pc' = "before" /\ inTurn' = TRUE
    /\ answerOnly' = isAnswerOnly
    /\ suspended' = FALSE
    /\ userCancel' = FALSE
    /\ nudges' = 0
    /\ turn' = turn + 1 /\ llmCalls' = 0 /\ compactions' = 0
    /\ noticeLost' = (noticeLost \/ (Last(msgs).kind = "warn" /\ Last(msgs).plan # "none"))
    /\ UNCHANGED <<todo, running, late, steering, budget, wasActive, ctxFull,
                   profile, replies, upsets>>

(* The turn is over; a turn that was not cancelled owes the queue a drain. *)
EndTurn(cancelled) ==
    /\ pc' = "idle"
    /\ drainDue' = ((inTurn /\ ~cancelled) \/ drainDue)
    /\ userCancel' = FALSE

(* TurnLimitMiddleware or PriceLimitMiddleware: their counters only grow,  *)
(* so the model lets them stop any round.                                  *)
StopByLimit ==
    /\ pc = "before"
    /\ EndTurn(FALSE)
    /\ UNCHANGED <<msgs, inTurn, todo, running, late, modes, queue, middleware, profile, counts>>

(* AutoCompactMiddleware runs before the two loop breakers and the         *)
(* pipeline returns its result at once; compact() then asks for a summary. *)
BeginAutoCompact ==
    /\ pc = "before"
    /\ ctxFull
    /\ msgs' = Append(msgs, Says("ask"))
    /\ pc' = "asking"
    /\ UNCHANGED <<inTurn, batch, modes, steering, middleware, profile, counts>>

\* fault: one more repetition is let through
LoopingLate == RepeatedInAll(msgs, Streak + 1)

(* RepeatedToolCallMiddleware. *)
Looping == RepeatedInAll(msgs, Streak)

StopRepeating ==
    /\ pc = "before"
    /\ ~ctxFull
    /\ Looping
    /\ EndTurn(FALSE)
    /\ UNCHANGED <<msgs, inTurn, todo, running, late, modes, queue, middleware, profile, counts>>

(* StepBudgetMiddleware's counters after it was asked about one more call. *)
CountedBudget ==
    IF MaxLLMCalls = 0 THEN budget
    ELSE IF budget.turn # turn
         THEN [turn |-> turn, calls |-> 1, asked |-> FALSE]
         ELSE [budget EXCEPT !.calls = @ + 1]

\* fault: the budget is off by one
OverBudgetLate == MaxLLMCalls > 0 /\ CountedBudget.calls > MaxLLMCalls + 1

OverBudget == MaxLLMCalls > 0 /\ CountedBudget.calls > MaxLLMCalls

StopSpent ==
    /\ pc = "before"
    /\ ~ctxFull /\ ~Looping
    /\ OverBudget /\ CountedBudget.asked
    /\ budget' = CountedBudget
    /\ EndTurn(FALSE)
    /\ UNCHANGED <<msgs, inTurn, todo, running, late, modes, queue, nudges, wasActive, ctxFull,
                   profile, counts>>

(* ReadOnlyAgentMiddleware (plan): what it has to say this round. *)
PlanNotice ==
    IF profile = "plan" /\ ~wasActive THEN "on"
    ELSE IF profile # "plan" /\ wasActive THEN "off" ELSE "none"

(* The pipeline lets the round go on. What the step budget and the plan    *)
(* reminder inject is merged into one message, the budget's text first, so *)
(* it is still recognised as a write-up request.                           *)
BeginLLMCall ==
    /\ pc = "before"
    /\ ~ctxFull /\ ~Looping
    /\ ~(OverBudget /\ CountedBudget.asked)
    /\ budget' = [CountedBudget EXCEPT !.asked = OverBudget \/ @]
    /\ suspended' = (OverBudget \/ suspended)
    /\ msgs' = IF OverBudget \/ PlanNotice # "none"
               THEN Append(msgs, Injects(IF OverBudget THEN "warn" ELSE "inject", PlanNotice))
               ELSE msgs
    /\ wasActive' = (profile = "plan")
    /\ pc' = "llm"
    /\ llmCalls' = llmCalls + 1
    /\ UNCHANGED <<inTurn, batch, answerOnly, steering, nudges, ctxFull, profile,
                   turn, replies, compactions, upsets, noticeLost>>

-----------------------------------------------------------------------------
(* Whether the context is over the threshold once its size is known again. *)
SizeOutcomes == IF "auto_compact" \in Environment THEN BOOLEAN ELSE {FALSE}

(* The request succeeded: the reply joins the conversation, and in the     *)
(* same step _perform_llm_turn decides what becomes of its calls.          *)
Reply(keys) ==
    LET calls == {<<replies + 1, k>> : k \in keys}
    IN  /\ pc = "llm"
        /\ replies < MaxReplies
        /\ msgs' = Append(msgs, Asks(calls))
        /\ replies' = replies + 1
        /\ ctxFull' \in SizeOutcomes
        /\ suspended' = FALSE
        /\ pc' = IF keys = {} THEN "text"
                 ELSE IF suspended \/ answerOnly THEN "refuse" ELSE "batch"
        /\ todo' = calls
        /\ UNCHANGED <<inTurn, running, late, userCancel, answerOnly, steering,
                       budget, nudges, wasActive, profile, turn, llmCalls, compactions,
                       upsets, noticeLost>>

(* The request failed: no message, the exception ends the turn. *)
RequestFails ==
    /\ pc = "llm"
    /\ EndTurn(FALSE)
    /\ UNCHANGED <<msgs, inTurn, todo, running, late, modes, queue, middleware, profile, counts>>

(* _refuse_tool_calls: a response, no execution. *)
RefuseCall(c) ==
    /\ pc = "refuse"
    /\ c \in todo
    /\ msgs' = Append(msgs, Answers(c))
    /\ todo' = todo \ {c}
    /\ UNCHANGED <<pc, inTurn, running, late, userCancel, modes, steering,
                   middleware, profile, counts>>

RepeatsInTodo == {c \in todo : KeyOf(c) \in PreviousKeys(msgs)}

(* A call of the previous reply, issued again: answered without a run,     *)
(* before anything of the batch runs.                                      *)
SkipRepeat(c) ==
    /\ pc = "batch"
    /\ c \in RepeatsInTodo
    /\ msgs' = Append(msgs, Answers(c))
    /\ todo' = todo \ {c}
    /\ UNCHANGED <<pc, inTurn, running, late, userCancel, modes, steering,
                   middleware, profile, counts>>

Mutates(c) == KeyOf(c) \in Mutators

\* fault: mutating tools start with the read-only ones
ReadyAnyOrder(c) == c \in todo /\ RepeatsInTodo = {}

(* The calls the batch may take up now: read-only ones together, the       *)
(* file-mutating ones after them and one at a time.                        *)
Ready(c) ==
    /\ c \in todo
    /\ RepeatsInTodo = {}
    /\ Mutates(c) => /\ running = {}
                     /\ \A d \in todo : Mutates(d)

(* The call is not approved, or its arguments do not parse: answered       *)
(* without a run.                                                          *)
SkipCall(c, backedOut) ==
    /\ pc = "batch"
    /\ Ready(c)
    /\ msgs' = Append(msgs, Answers(c))
    /\ todo' = todo \ {c}
    /\ userCancel' = (backedOut \/ userCancel)
    /\ UNCHANGED <<pc, inTurn, running, late, modes, steering, middleware,
                   profile, counts>>

StartTool(c) ==
    /\ pc = "batch"
    /\ Ready(c)
    /\ ~\E d \in running : Mutates(d)
    /\ todo' = todo \ {c}
    /\ running' = running \union {c}
    /\ UNCHANGED <<msgs, pc, inTurn, late, userCancel, modes, steering,
                   middleware, profile, counts>>

FinishTool(c, backedOut) ==
    /\ pc = "batch"
    /\ c \in running
    /\ msgs' = Append(msgs, Answers(c))
    /\ running' = running \ {c}
    /\ userCancel' = (backedOut \/ userCancel)
    /\ UNCHANGED <<pc, inTurn, todo, late, modes, steering, middleware, profile,
                   counts>>

-----------------------------------------------------------------------------
\* fault: a refused batch does not close the round
RoundOverUnlessRefused == pc \in {"text", "batch"} /\ todo = {} /\ running = {}

(* The end of one round of _conversation_loop's while.                     *)
RoundOver == pc \in {"text", "refuse", "batch"} /\ todo = {} /\ running = {}

StopOnBackOut ==
    /\ RoundOver
    /\ userCancel
    /\ EndTurn(FALSE)
    /\ UNCHANGED <<msgs, inTurn, todo, running, late, modes, queue, middleware, profile, counts>>

\* fault: the flush pops one message instead of clearing
QueueLessOne == queue - 1

(* _flush_steering_queue: what it appends and what it leaves. *)
QueueAfterFlush == 0
FlushedQueue == [i \in 1..queue |-> Says("steer")]

(* A closed batch, or a nudge: queued steering messages land here and the  *)
(* loop goes on.                                                           *)
NextRound ==
    /\ \/ RoundOver /\ ~userCancel /\ Last(msgs).kind = "tool"
       \/ pc = "nudged"
    /\ msgs' = msgs \o FlushedQueue
    /\ queue' = QueueAfterFlush
    /\ pc' = "before"
    /\ UNCHANGED <<inTurn, batch, modes, drainDue, middleware, profile, counts>>

(* _auto_continue_event's own conditions; whether the reply reads as       *)
(* unfinished (nudge_kind) is open.                                        *)
MayNudge ==
    /\ ~answerOnly
    /\ nudges < AutoContinueMax
    /\ Last(msgs).kind = "assistant"
    /\ Len(msgs) >= 2 => msgs[Len(msgs) - 1].kind # "warn"

Nudge ==
    /\ RoundOver
    /\ ~userCancel
    /\ MayNudge /\ ~MakesCalls(Last(msgs))
    /\ nudges' = nudges + 1
    /\ msgs' = Append(msgs, Says("nudge"))
    /\ pc' = "nudged"
    /\ UNCHANGED <<inTurn, batch, modes, steering, budget, wasActive, ctxFull,
                   profile, counts>>

Finish ==
    /\ RoundOver
    /\ ~userCancel
    /\ Last(msgs).kind # "tool"
    /\ EndTurn(FALSE)
    /\ UNCHANGED <<msgs, inTurn, todo, running, late, modes, queue, middleware, profile, counts>>

-----------------------------------------------------------------------------
(* Esc while the task waits inside a tool: the CancelledError reaches the  *)
(* tools, each running call still gets its response, the rest never start. *)
InterruptInTool ==
    /\ pc = "batch"
    /\ running # {}
    /\ pc' = "unwind"
    /\ todo' = {}
    /\ UNCHANGED <<msgs, inTurn, running, late, userCancel, modes, steering,
                   middleware, profile, counts>>

UnwindTool(c) ==
    /\ pc = "unwind"
    /\ c \in running
    /\ msgs' = Append(msgs, Answers(c))
    /\ running' = running \ {c}
    /\ UNCHANGED <<pc, inTurn, todo, late, userCancel, modes, steering,
                   middleware, profile, counts>>

Unwound ==
    /\ pc = "unwind"
    /\ running = {}
    /\ EndTurn(TRUE)
    /\ UNCHANGED <<msgs, inTurn, todo, running, late, modes, queue, middleware, profile, counts>>

(* Esc while the task waits anywhere else (a save, the event's consumer):  *)
(* the generators it leaves behind are closed (GeneratorExit) by nobody    *)
(* the turn waits for; the concurrent tasks are cancelled but not waited   *)
(* for, a sequential tool is dropped with its generator.                   *)
InterruptElsewhere ==
    /\ pc \notin {"idle", "unwind"}
    /\ EndTurn(TRUE)
    /\ todo' = {} /\ running' = {}
    /\ late' = late \union {c \in running : ~Mutates(c)}
    /\ UNCHANGED <<msgs, inTurn, modes, queue, middleware, profile, counts>>

(* A cancelled task gets to run: it records its response whatever the      *)
(* conversation looks like by then.                                        *)
LateReply(c) ==
    /\ c \in late
    /\ msgs' = Append(msgs, Answers(c))
    /\ late' = late \ {c}
    /\ UNCHANGED <<pc, inTurn, todo, running, userCancel, modes, steering,
                   middleware, profile, counts>>

-----------------------------------------------------------------------------
(* compact(): the request and the reply are silent, then everything but    *)
(* the system message is replaced by the summary.                          *)
BeginCompact ==
    /\ pc = "idle"
    /\ "compact" \in Environment
    /\ "compact_torn" \in Environment \/ Dangling(msgs) = {}
    /\ Len(msgs) > 1
    /\ upsets < MaxUpsets
    /\ upsets' = upsets + 1
    /\ msgs' = Append(msgs, Says("ask"))
    /\ pc' = "asking" /\ inTurn' = FALSE
    /\ UNCHANGED <<batch, modes, steering, middleware, profile, turn, replies,
                   llmCalls, compactions, noticeLost>>

\* fault: a compaction does not reset the reminder
NoticeRemembered == wasActive

(* What reset(COMPACT) leaves of the plan reminder's memory. *)
NoticeAfterReset == FALSE

SummaryArrives ==
    /\ pc = "asking"
    /\ msgs' = <<msgs[1], Says("summary")>>
    /\ pc' = "counting"
    /\ noticeLost' = TRUE
    /\ UNCHANGED <<inTurn, batch, modes, steering, middleware, profile, turn,
                   replies, llmCalls, compactions, upsets>>

(* The new size is known: the pipeline is reset (COMPACT keeps the step    *)
(* budget), and a turn goes straight to its request.                       *)
EndCompact ==
    /\ pc = "counting"
    /\ ctxFull' \in SizeOutcomes
    /\ wasActive' = NoticeAfterReset
    /\ pc' = IF inTurn THEN "llm" ELSE "idle"
    /\ llmCalls' = llmCalls + (IF inTurn THEN 1 ELSE 0)
    /\ compactions' = compactions + (IF inTurn THEN 1 ELSE 0)
    /\ noticeLost' = FALSE
    /\ UNCHANGED <<msgs, inTurn, batch, modes, steering, budget, nudges, profile,
                   turn, replies, upsets>>

CompactFails ==
    /\ pc \in {"asking", "counting"}
    /\ EndTurn(FALSE)
    /\ UNCHANGED <<msgs, inTurn, todo, running, late, modes, queue, middleware, profile, counts>>

-----------------------------------------------------------------------------
(* The person types while the loop runs: queue_steering. *)
QueueSteering ==
    /\ pc # "idle"
    /\ queue < MaxQueue
    /\ queue' = queue + 1
    /\ UNCHANGED <<conversation, batch, modes, drainDue, middleware, profile, counts>>

(* The UI takes over what the turn could not place. *)
DrainSteering ==
    /\ drainDue
    /\ drainDue' = FALSE /\ queue' = 0
    /\ UNCHANGED <<conversation, batch, modes, middleware, profile, counts>>

SwitchAgent ==
    /\ "switch_agent" \in Environment
    /\ profile' = IF profile = "plan" THEN "other" ELSE "plan"
    /\ UNCHANGED <<conversation, batch, modes, steering, middleware, counts>>

(* The process ends anywhere and the session is resumed in a new one:      *)
(* restore() over what was saved, everything transient starts over. While  *)
(* a compaction runs, what is on disk is what was there before it began,   *)
(* so those two places add nothing.                                        *)
Restart ==
    /\ "restart" \in Environment
    /\ pc \notin {"asking", "counting"}
    /\ Len(msgs) > 1
    /\ upsets < MaxUpsets
    /\ upsets' = upsets + 1
    /\ "restart_torn" \in Environment
          \/ ~(Last(msgs).kind = "tool" /\ Dangling(msgs) # {})
    /\ \E shims \in ShimSeqsOnRestore(msgs) :
          msgs' = Refreshed(WithoutLastWarning(msgs \o shims))
    /\ pc' = "idle" /\ inTurn' = FALSE
    /\ todo' = {} /\ running' = {} /\ late' = {} /\ userCancel' = FALSE
    /\ suspended' = FALSE /\ answerOnly' = FALSE
    /\ queue' = 0 /\ drainDue' = FALSE
    /\ budget' = [turn |-> 0, calls |-> 0, asked |-> FALSE]
    /\ nudges' = 0 /\ wasActive' = FALSE /\ ctxFull' = FALSE
    /\ noticeLost' = FALSE
    /\ UNCHANGED <<profile, turn, replies, llmCalls, compactions>>

-----------------------------------------------------------------------------
(* What the loop does by itself once a turn is begun: its own steps and    *)
(* the answers of the services it waits for.                               *)
Pipeline == StopByLimit \/ BeginAutoCompact \/ StopRepeating \/ StopSpent \/ BeginLLMCall
Request == RequestFails \/ \E keys \in SUBSET Keys : Reply(keys)
RunBatch ==
    \/ \E c \in todo : RefuseCall(c) \/ SkipRepeat(c) \/ StartTool(c)
    \/ \E c \in todo, backedOut \in BOOLEAN : SkipCall(c, backedOut)
    \/ \E c \in running, backedOut \in BOOLEAN : FinishTool(c, backedOut)
EndRound == StopOnBackOut \/ NextRound \/ Nudge \/ Finish
Unwind == Unwound \/ \E c \in running : UnwindTool(c)
Compaction == SummaryArrives \/ EndCompact \/ CompactFails

LoopStep == Pipeline \/ Request \/ RunBatch \/ EndRound \/ Unwind \/ Compaction

(* What the person and the surroundings do. *)
Interrupt == InterruptInTool \/ InterruptElsewhere
Person ==
    \/ \E isAnswerOnly \in BOOLEAN : Act(isAnswerOnly)
    \/ BeginCompact \/ QueueSteering \/ DrainSteering \/ SwitchAgent \/ Interrupt

Next ==
    \/ LoopStep
    \/ Person
    \/ \E c \in late : LateReply(c)
    \/ Restart

Spec == Init /\ [][Next]_vars

(* Tools, approvals and requests each come to an end, and the event loop   *)
(* resumes a coroutine that can go on.                                     *)
FairSpec == Spec /\ WF_vars(LoopStep)

-----------------------------------------------------------------------------
(* Safety.                                                                 *)

Requesting == pc \in {"llm", "asking"}

AnsweredRightAfter(ms, i, c) ==
    \E j \in (i+1)..Len(ms) : /\ ms[j] = Answers(c)
                              /\ \A k \in (i+1)..j : ms[k].kind = "tool"

(* Every request that goes to the model is a well-formed transcript: each  *)
(* call of each reply is answered, once, in the block of tool messages     *)
(* right after the reply, and no tool message stands anywhere else. This   *)
(* is what the shims of act() and restore(), the placement of steering     *)
(* messages and the refusals together are for.                             *)
RequestWellFormed ==
    Requesting =>
      /\ \A i \in 1..Len(msgs) : MakesCalls(msgs[i]) =>
            \A c \in msgs[i].calls : AnsweredRightAfter(msgs, i, c)
      /\ \A j \in 1..Len(msgs) : msgs[j].kind = "tool" =>
            \E i \in 1..(j-1) : /\ MakesCalls(msgs[i])
                                /\ msgs[j].calls \subseteq msgs[i].calls
                                /\ \A k \in (i+1)..j : msgs[k].kind = "tool"
      /\ \A j, k \in 1..Len(msgs) :
            (j # k /\ msgs[j].kind = "tool" /\ msgs[k].kind = "tool")
               => msgs[j].calls # msgs[k].calls

(* No message of the person's, and no refresh of a resumed session, lands  *)
(* right after a write-up request that an interrupt left without a reply:  *)
(* the model would read "do not call any tool now" as a live order. Only   *)
(* its reply may follow it, or the request of a /compact.                  *)
NoStaleWarning ==
    \A i \in 1..(Len(msgs) - 1) :
       msgs[i].kind = "warn" => msgs[i+1].kind \in {"assistant", "ask"}

(* A model that loops is cut off: no turn holds more than Streak replies   *)
(* in a row that all make the same call, compactions and interrupts        *)
(* included.                                                               *)
LoopsAreCut == ~RepeatedInAll(msgs, Streak + 1)

(* The step budget: the requests one user message causes, apart from the   *)
(* one each automatic compaction slips past it, and the one that asks for  *)
(* the write-up.                                                           *)
BudgetCapsCounted ==
    (MaxLLMCalls > 0 /\ inTurn) => llmCalls <= MaxLLMCalls + 1 + compactions

AskerOf(ms, c) ==
    CHOOSE i \in 1..Len(ms) : MakesCalls(ms[i]) /\ c \in ms[i].calls

(* No tool of an answer-only turn or of the reply to a write-up request    *)
(* ever starts, and none whose key the previous reply already made.        *)
OnlyWantedToolsRun ==
    [][\A c \in running' \ running :
          LET i == AskerOf(msgs, c)
          IN  /\ ~answerOnly
              /\ msgs[i-1].kind # "warn"
              /\ \A j \in AssistantsThisTurn(msgs) :
                    (j < i /\ \A k \in (j+1)..(i-1) : msgs[k].kind # "assistant")
                       => KeyOf(c) \notin KeysAt(msgs, j)]_vars

(* File-mutating tools never run beside another call, and none starts      *)
(* before every read-only call of its batch is answered.                   *)
MutatorsRunAlone ==
    \A c \in running : Mutates(c) =>
       running = {c} /\ \A d \in todo : Mutates(d)

PlanSpoken(ms) ==
    LET said == {i \in 1..Len(ms) : ms[i].plan # "none"}
    IN  IF said = {} THEN "off"
        ELSE ms[CHOOSE i \in said : \A j \in said : j <= i].plan

(* In plan mode a request the pipeline lets through goes out with the      *)
(* reminder in force: the last thing the conversation says of plan mode is *)
(* that it is on, whatever was interrupted, compacted away or resumed. The *)
(* two ways to lose it are named: a reminder merged into a write-up        *)
(* request that the next act() drops, and a compaction that fails after    *)
(* its rewind. (The request right after a compaction skips the pipeline.)  *)
PlanReminderInForce ==
    [][(pc = "before" /\ pc' = "llm" /\ profile = "plan" /\ ~noticeLost)
          => PlanSpoken(msgs') = "on"]_vars

-----------------------------------------------------------------------------
(* Liveness.                                                               *)

(* A turn comes to an end, unless the context is found full again and      *)
(* again: that is what the step budget and the repeat breaker are for.     *)
TurnEnds ==
    <>[](pc \notin {"asking", "counting"}) => ((pc # "idle") ~> (pc = "idle"))
=============================================================================
