------------------------------- MODULE Approval -------------------------------
(***************************************************************************)
(* Who may say yes to a tool call: the session's rules, the mode, the      *)
(* nanny (a second model, privibe/core/nanny/) and the person at the       *)
(* approval prompt (AgentLoop._should_execute_tool, VibeApp's callback).   *)
(*                                                                         *)
(* Calls of one batch ask concurrently. Two locks are in play: the nanny's *)
(* review lock, held from the ask until the person has decided, and the    *)
(* screen's interaction lock, one prompt at a time.                        *)
(***************************************************************************)
EXTENDS Naturals, FiniteSets

CONSTANTS
    Calls,       \* tool calls
    Perms,       \* permissions, as patterns: a rule covers what it names
    Escalated,   \* ... that must reach a person
    Needs,       \* the permissions a call asks for
    Long,        \* calls shown to the nanny in part, with more to show
    Brief,       \* nanny_brief is set
    MaxTells     \* bound: /ensure-commands-safety tell, and mode switches

ASSUME ApprovalAssumption ==
    /\ IsFiniteSet(Calls) /\ IsFiniteSet(Perms)
    /\ Escalated \subseteq Perms /\ Long \subseteq Calls
    /\ Needs \in [Calls -> (SUBSET Perms) \ {{}}]
    /\ Brief \in BOOLEAN /\ MaxTells \in Nat
    /\ "nobody" \notin Calls /\ "tell" \notin Calls

VARIABLES
    rules, denials, delegations,   \* _session_rules, _session_denials, _nanny_delegations
    auto,        \* auto_approve of the mode
    nanny,       \* a nanny is attached
    pc,          \* where each call stands
    missing,     \* the permissions found uncovered when the call was checked
    mayHand,     \* the nanny there was when the call asked, if any
    lock,        \* holder of the review lock
    screen,      \* holder of _user_interaction_lock
    turn,        \* the nanny's turn in flight
    next,        \* what the holder of the lock says to the nanny next
    header,      \* _header_sent
    open,        \* user messages at the tail of the nanny's transcript
    verdict,     \* what came of a call's review
    logged,      \* records of the call in decisions.jsonl
    person,      \* what the person said of the call
    esc,         \* _interrupt_requested, until every call has ended
    told         \* counts tells and mode switches

rulesVars == <<rules, denials, delegations>>
nannyVars == <<lock, turn, next, header, open, verdict, logged>>
vars == <<rulesVars, auto, nanny, pc, missing, mayHand, screen, nannyVars, person, esc, told>>

Holders == Calls \union {"tell", "nobody"}
Kinds == {"header", "brief", "ask", "retry", "more", "talk", "tell"}
Replies == {"none", "approve", "refuse", "more", "unreadable", "empty"}
Silence == [kind |-> "none", by |-> "nobody", reply |-> "none"]
Ended == {"run", "skipped", "cancelled"}

TypeOK ==
    /\ rules \subseteq Perms /\ denials \subseteq Perms /\ delegations \subseteq Perms
    /\ auto \in BOOLEAN /\ nanny \in BOOLEAN /\ header \in BOOLEAN /\ esc \in BOOLEAN
    /\ pc \in [Calls -> {"new", "to_nanny", "review", "to_person", "prompt"} \union Ended]
    /\ missing \in [Calls -> SUBSET Perms]
    /\ mayHand \in [Calls -> BOOLEAN]
    /\ lock \in Holders /\ screen \in Calls \union {"nobody"}
    /\ turn \in [kind : Kinds \union {"none"}, by : Holders, reply : Replies]
    /\ next \in Kinds \union {"none"}
    /\ open \in 0..2
    /\ verdict \in [Calls -> {"none", "approve", "refuse", "failed"}]
    /\ logged \in [Calls -> [times : 0..1, verdict : {"none", "approve", "refuse", "failed"},
                             human : {"none", "allow", "no"}]]
    /\ person \in [Calls -> {"none", "yes", "no", "handed"}]
    /\ told \in 0..MaxTells

Init ==
    /\ rules = {} /\ denials = {} /\ delegations = {}
    /\ auto \in BOOLEAN /\ nanny \in BOOLEAN
    /\ pc = [c \in Calls |-> "new"]
    /\ missing = [c \in Calls |-> {}] /\ mayHand = [c \in Calls |-> FALSE]
    /\ lock = "nobody" /\ screen = "nobody"
    /\ turn = Silence /\ next = "none" /\ header = FALSE /\ open = 0
    /\ verdict = [c \in Calls |-> "none"]
    /\ logged = [c \in Calls |-> [times |-> 0, verdict |-> "none", human |-> "none"]]
    /\ person = [c \in Calls |-> "none"]
    /\ esc = FALSE /\ told = 0

-----------------------------------------------------------------------------
(* _should_execute_tool, _ask_approval                                     *)

(* _nanny_may_review; nanny_reviews_escalated is off, as it is by default.  *)
NannyMayReview(required) == Escalated \intersect required \subseteq delegations

\* fault: the mode covers whatever is asked
AutoCoversAll(required) == auto

(* The shortcut of the mode, in the loop and in the screen's callback.      *)
AutoCovers(required) == auto /\ Escalated \intersect required = {}

(* What the checks settle without asking anybody. `never` and `always` of   *)
(* a tool's configuration come first and leave nothing to model.            *)
Settled(c) ==
    IF AutoCovers(Needs[c]) THEN "run"
    ELSE IF Needs[c] \intersect denials # {} THEN "skipped"
    ELSE IF Needs[c] \subseteq rules THEN "run"
    ELSE IF nanny /\ NannyMayReview(Needs[c] \ rules) THEN "to_nanny" ELSE "to_person"

CheckCall(c) ==
    /\ pc[c] = "new" /\ ~esc
    /\ pc' = [pc EXCEPT ![c] = Settled(c)]
    /\ missing' = [missing EXCEPT ![c] = Needs[c] \ rules]
    /\ mayHand' = [mayHand EXCEPT ![c] = nanny]
    /\ UNCHANGED <<rulesVars, auto, nanny, screen, nannyVars, person, esc, told>>

-----------------------------------------------------------------------------
(* NannyManager.review: the lock, the turns, the verdict.                  *)

FirstTurn(purpose) == IF header THEN purpose ELSE "header"

Enter(holder, purpose) ==
    /\ lock = "nobody"
    /\ lock' = holder
    /\ next' = FirstTurn(purpose)

BeginReview(c) ==
    /\ pc[c] = "to_nanny"
    /\ Enter(c, "ask")
    /\ pc' = [pc EXCEPT ![c] = "review"]
    /\ UNCHANGED <<rulesVars, auto, nanny, missing, mayHand, screen,
                   turn, header, open, verdict, logged, person, esc, told>>

(* _turn up to the request: act() appends what is said. *)
Say ==
    /\ next # "none" /\ turn = Silence
    /\ turn' = [kind |-> next, by |-> lock, reply |-> "none"]
    /\ next' = "none"
    /\ open' = open + 1
    /\ UNCHANGED <<rulesVars, auto, nanny, pc, missing, mayHand, screen,
                   lock, header, verdict, logged, person, esc, told>>

(* The answer is in the transcript before the turn has returned. *)
Reply(reply) ==
    /\ turn # Silence /\ turn.reply = "none"
    /\ turn' = [turn EXCEPT !.reply = reply]
    /\ open' = 0
    /\ UNCHANGED <<rulesVars, auto, nanny, pc, missing, mayHand, screen,
                   lock, next, header, verdict, logged, person, esc, told>>

\* fault: only decided reviews are recorded
RecordDecided(c, outcome, human) ==
    logged' = IF outcome # "approve" /\ human = "none" THEN logged ELSE [logged EXCEPT ![c] =
        [times |-> @.times + 1, verdict |-> outcome, human |-> human]]

Record(c, outcome, human) ==
    logged' = [logged EXCEPT ![c] =
        [times |-> @.times + 1, verdict |-> outcome, human |-> human]]

(* The review's block ends: the record, then the lock. *)
EndReview(c, outcome, human) ==
    /\ Record(c, outcome, human)
    /\ lock' = "nobody"

(* The callback with the review attached: at once under auto-approve, else  *)
(* when the screen is free.                                                 *)
ToPerson(c, outcome) ==
    /\ verdict' = [verdict EXCEPT ![c] = outcome]
    /\ IF AutoCovers(missing[c])
       THEN /\ pc' = [pc EXCEPT ![c] = "run"]
            /\ EndReview(c, outcome, "allow")
       ELSE /\ pc' = [pc EXCEPT ![c] = "to_person"]
            /\ UNCHANGED <<lock, logged>>
    /\ next' = "none"
    /\ UNCHANGED header

Approved(c) ==
    /\ verdict' = [verdict EXCEPT ![c] = "approve"]
    /\ pc' = [pc EXCEPT ![c] = "run"]
    /\ EndReview(c, "approve", "none")
    /\ next' = "none"
    /\ UNCHANGED header

(* Another turn within the same review. *)
GoOn(kind) ==
    /\ next' = kind
    /\ UNCHANGED <<pc, lock, verdict, logged>>

(* _ask, from the answer to one of its turns. *)
Heard(c) ==
    LET reply == turn.reply
    IN  CASE turn.kind = "header" ->
               header' = TRUE /\ GoOn(IF Brief THEN "brief" ELSE "ask")
          [] turn.kind = "brief" -> GoOn("ask") /\ UNCHANGED header
          [] turn.kind = "ask" /\ reply = "unreadable" -> GoOn("retry") /\ UNCHANGED header
          [] turn.kind \in {"ask", "retry"} /\ reply = "more" /\ c \in Long ->
               GoOn("more") /\ UNCHANGED header
          [] turn.kind \in {"ask", "retry", "more"} /\ reply = "approve" -> Approved(c)
          [] OTHER -> ToPerson(c, "refuse")

TurnReturns(c) ==
    /\ pc[c] = "review" /\ turn.by = c
    /\ turn.reply \notin {"none", "empty"}
    /\ Heard(c)
    /\ turn' = Silence
    /\ UNCHANGED <<rulesVars, auto, nanny, missing, mayHand, screen, open, person, esc, told>>

\* fault: what was asked stays unanswered
LeftDangling == open

(* _close_dangling_user_turn: a stand-in answer, unless there is one. *)
ClosedTurn == 0

(* NannyUnavailable: an error or an empty answer, or the timeout, also with *)
(* the answer already in the transcript.                                    *)
TurnFails(c) ==
    /\ pc[c] = "review" /\ turn.by = c
    /\ ToPerson(c, "failed")
    /\ turn' = Silence
    /\ open' = ClosedTurn
    /\ UNCHANGED <<rulesVars, auto, nanny, missing, mayHand, screen, person, esc, told>>

-----------------------------------------------------------------------------
(* The person: VibeApp._approval_callback and the prompt's options.        *)

(* A call that never went to the nanny meets the mode's shortcut here.      *)
ShowPrompt(c) ==
    /\ pc[c] = "to_person"
    /\ IF lock # c /\ AutoCovers(missing[c])
       THEN /\ pc' = [pc EXCEPT ![c] = "run"]
            /\ UNCHANGED screen
       ELSE /\ screen = "nobody" /\ screen' = c
            /\ pc' = [pc EXCEPT ![c] = "prompt"]
    /\ UNCHANGED <<rulesVars, auto, nanny, missing, mayHand, nannyVars, person, esc, told>>

Talking(c) == turn.by = c \/ (lock = c /\ next # "none")

(* The options of the prompt; none of them while a talk is pending.         *)
PromptAnswers(c) == pc[c] = "prompt" /\ ~Talking(c)

Answered(c, said, ends) ==
    /\ pc' = [pc EXCEPT ![c] = ends]
    /\ person' = [person EXCEPT ![c] = said]
    /\ screen' = "nobody"
    /\ IF lock = c
       THEN EndReview(c, verdict[c], IF ends = "run" THEN "allow" ELSE "no")
       ELSE UNCHANGED <<lock, logged>>
    /\ UNCHANGED <<auto, nanny, missing, mayHand, turn, next, header, open, verdict, esc, told>>

Allow(c, always) ==
    /\ PromptAnswers(c)
    /\ Answered(c, "yes", "run")
    /\ rules' = IF always THEN rules \union missing[c] ELSE rules
    /\ UNCHANGED <<denials, delegations>>

(* No, Esc at the prompt, or the nanny's refusal confirmed. *)
Reject(c, always) ==
    /\ PromptAnswers(c)
    /\ Answered(c, "no", "skipped")
    /\ denials' = IF always THEN denials \union missing[c] ELSE denials
    /\ UNCHANGED <<rules, delegations>>

\* fault: offered whether the nanny has seen the call or not
OfferedAgain(c) == nanny \/ mayHand[c]

(* "Ask the nanny", offered when a nanny is on that has not seen the call. *)
Offered(c) == lock # c /\ (nanny \/ mayHand[c])

HandToNanny(c, always) ==
    /\ PromptAnswers(c) /\ Offered(c)
    /\ Answered(c, "handed", IF mayHand[c] THEN "to_nanny" ELSE "skipped")
    /\ delegations' = IF always /\ mayHand[c] THEN delegations \union missing[c] ELSE delegations
    /\ UNCHANGED <<rules, denials>>

(* One line to the nanny; the prompt takes no other key until it answers.   *)
Talk(c) ==
    /\ PromptAnswers(c) /\ lock = c
    /\ told < MaxTells /\ told' = told + 1
    /\ next' = "talk"
    /\ UNCHANGED <<rulesVars, auto, nanny, pc, missing, mayHand, screen,
                   lock, turn, header, open, verdict, logged, person, esc>>

(* The answer to a talk, or the notice that there is none. *)
TalkEnds ==
    /\ turn.kind = "talk"
    /\ turn' = Silence
    /\ open' = ClosedTurn
    /\ UNCHANGED <<rulesVars, auto, nanny, pc, missing, mayHand, screen,
                   lock, next, header, verdict, logged, person, esc, told>>

-----------------------------------------------------------------------------
(* /ensure-commands-safety tell, on and off; the mode; Esc.                *)

Active(c) == pc[c] \notin {"new"} \union Ended

BeginTell ==
    /\ nanny /\ told < MaxTells /\ told' = told + 1
    /\ Enter("tell", "tell")
    /\ UNCHANGED <<rulesVars, auto, nanny, pc, missing, mayHand, screen,
                   turn, header, open, verdict, logged, person, esc>>

TellGoesOn ==
    /\ turn.by = "tell" /\ turn.reply \notin {"none", "empty"}
    /\ turn' = Silence
    /\ header' = (header \/ turn.kind = "header")
    /\ next' = CASE turn.kind = "header" -> IF Brief THEN "brief" ELSE "tell"
                 [] turn.kind = "brief" -> "tell"
                 [] OTHER -> "none"
    /\ lock' = IF turn.kind = "tell" THEN "nobody" ELSE lock
    /\ UNCHANGED <<rulesVars, auto, nanny, pc, missing, mayHand, screen,
                   open, verdict, logged, person, esc, told>>

\* fault: the lock is let go after an answer only
LockKept == lock

LockAfterFailure == "nobody"

TellFails ==
    /\ turn.by = "tell"
    /\ turn' = Silence
    /\ open' = ClosedTurn
    /\ lock' = LockAfterFailure /\ next' = "none"
    /\ UNCHANGED <<rulesVars, auto, nanny, pc, missing, mayHand, screen,
                   header, verdict, logged, person, esc, told>>

(* _detach_nanny: wait_idle, then off. Calls that have it go on with it.    *)
TurnOff ==
    /\ nanny /\ lock = "nobody"
    /\ nanny' = FALSE
    /\ UNCHANGED <<rulesVars, auto, pc, missing, mayHand, screen, nannyVars, person, esc, told>>

(* _attach_nanny: a new one, with a conversation of its own. Attaching it   *)
(* while calls still wait for the old one is left out.                      *)
TurnOn ==
    /\ ~nanny /\ told < MaxTells /\ told' = told + 1
    /\ lock = "nobody" /\ \A c \in Calls : pc[c] # "to_nanny" /\ (Active(c) => ~mayHand[c])
    /\ nanny' = TRUE
    /\ header' = FALSE
    /\ UNCHANGED <<rulesVars, auto, pc, missing, mayHand, screen,
                   lock, turn, next, open, verdict, logged, person, esc>>

SwitchMode ==
    /\ told < MaxTells /\ told' = told + 1
    /\ auto' = ~auto
    /\ UNCHANGED <<rulesVars, nanny, pc, missing, mayHand, screen, nannyVars, person, esc>>

(* Esc with no prompt on screen; a prompt may open before it takes effect.  *)
Interrupt ==
    /\ ~esc /\ screen = "nobody" /\ \E c \in Calls : Active(c)
    /\ esc' = TRUE
    /\ UNCHANGED <<rulesVars, auto, nanny, pc, missing, mayHand, screen, nannyVars, person, told>>

(* The cancellation reaches a call at whatever it waits for, before anybody *)
(* could have typed into a prompt that has just opened. A review that has   *)
(* come to its verdict is recorded, undecided.                              *)
CancelCall(c) ==
    /\ esc /\ Active(c) /\ (pc[c] = "prompt" => ~Talking(c))
    /\ pc' = [pc EXCEPT ![c] = "cancelled"]
    /\ screen' = IF screen = c THEN "nobody" ELSE screen
    /\ UNCHANGED verdict
    /\ IF lock = c
       THEN /\ lock' = "nobody" /\ next' = "none"
            /\ turn' = Silence
            /\ open' = ClosedTurn
            /\ IF verdict[c] # "none" THEN Record(c, verdict[c], "none") ELSE UNCHANGED logged
       ELSE UNCHANGED <<lock, next, turn, open, logged>>
    /\ UNCHANGED <<rulesVars, auto, nanny, missing, mayHand, header, person, esc, told>>

InterruptDone ==
    /\ esc /\ \A c \in Calls : ~Active(c)
    /\ esc' = FALSE
    /\ UNCHANGED <<rulesVars, auto, nanny, pc, missing, mayHand, screen, nannyVars, person, told>>

-----------------------------------------------------------------------------
(* What goes on without the person. *)
ReviewStep ==
    \/ \E c \in Calls : BeginReview(c) \/ TurnReturns(c) \/ TurnFails(c) \/ ShowPrompt(c)
    \/ Say \/ TalkEnds \/ TellGoesOn \/ TellFails

PersonStep ==
    \/ \E c \in Calls, always \in BOOLEAN :
          Allow(c, always) \/ Reject(c, always) \/ HandToNanny(c, always)
    \/ \E c \in Calls : Talk(c)
    \/ BeginTell \/ TurnOff \/ TurnOn \/ SwitchMode \/ Interrupt

Next ==
    \/ \E c \in Calls : CheckCall(c) \/ CancelCall(c)
    \/ ReviewStep \/ PersonStep
    \/ \E reply \in Replies \ {"none"} : Reply(reply)
    \/ InterruptDone

(* Turns end (nanny_timeout_seconds), locks are handed on, cancellations    *)
(* arrive; that the model answers, or the person, is not assumed.           *)
Spec == Init /\ [][Next]_vars
             /\ WF_vars(ReviewStep) /\ WF_vars(InterruptDone)
             /\ \A c \in Calls : WF_vars(CheckCall(c)) /\ WF_vars(CancelCall(c))

-----------------------------------------------------------------------------
(* An escalated permission is exercised only by a call that the person said *)
(* yes to or handed to the nanny, or with all of its escalated permissions  *)
(* allowed or delegated by the person before: not through the mode, however *)
(* it changes while the nanny thinks, and not on a stale answer.            *)
EscalatedReachesPerson ==
    \A c \in Calls : pc[c] = "run" =>
        \/ person[c] \in {"yes", "handed"}
        \/ Escalated \intersect Needs[c] \subseteq rules \union delegations

(* "no other call's ask can land in the nanny conversation mid-discussion": *)
(* what is being said belongs to the holder of the lock, and the transcript *)
(* alternates: one open question while a turn is in flight, else none.      *)
OneDiscussion ==
    /\ turn # Silence => turn.by = lock
    /\ open = IF turn # Silence /\ turn.reply = "none" THEN 1 ELSE 0

(* decisions.jsonl has one record of every review that came to a verdict    *)
(* and is over, and it says what happened: run on the nanny's word only     *)
(* with an approving record, and on the person's with the person's choice.  *)
ReviewsRecorded ==
    \A c \in Calls : verdict[c] # "none" /\ pc[c] \in Ended =>
        /\ logged[c].times = 1 /\ logged[c].verdict = verdict[c]
        /\ pc[c] = "run" <=> logged[c].verdict = "approve" \/ logged[c].human = "allow"

(* If no prompt is left open for ever, every call gets its decision: the    *)
(* two locks are never waited for in a circle, and a nanny that stops       *)
(* answering holds nobody up.                                               *)
PromptsAnswered == \A c \in Calls : pc[c] = "prompt" ~> pc[c] # "prompt"
CallsEnd == PromptsAnswered => \A c \in Calls : <>(pc[c] \in Ended)

(* "No and deny for this session": a denied permission is not exercised     *)
(* unless the person says so.                                               *)
DeniedStaysDenied ==
    [][\A c \in Calls : (pc[c] # "run" /\ pc'[c] = "run" /\ Needs[c] \intersect denials # {})
         => person'[c] = "yes" \/ auto]_vars
=============================================================================
