---------------------------- MODULE ApprovalProofs ----------------------------
(***************************************************************************)
(* What may run and what is recorded of it, for any calls, permissions,    *)
(* and any number of talks and mode switches.                              *)
(***************************************************************************)
EXTENDS Approval, TLAPS

(* Whoever has the review lock has the nanny to itself; one thing is said   *)
(* at a time.                                                              *)
Quiet ==
    /\ lock = "nobody" => turn = Silence /\ next = "none"
    /\ turn # Silence => next = "none"

(* What was found uncovered is not less than what is uncovered now.         *)
Uncovered == \A c \in Calls : pc[c] # "new" => Needs[c] \ rules \subseteq missing[c]

(* A call that may run on the nanny's word has the person's for what is     *)
(* escalated in it.                                                        *)
Granted(c) ==
    \/ person[c] \in {"yes", "handed"}
    \/ Escalated \intersect Needs[c] \subseteq rules \union delegations
HandedOver == \A c \in Calls : pc[c] \in {"to_nanny", "review"} => Granted(c)

(* A call keeps the lock from its verdict to the person's decision, and is  *)
(* recorded when it ends.                                                  *)
Unrecorded == \A c \in Calls : pc[c] \notin Ended => logged[c].times = 0
HeldToTheEnd ==
    \A c \in Calls : pc[c] \notin Ended /\ verdict[c] # "none" =>
        lock = c /\ pc[c] \in {"to_person", "prompt"} /\ verdict[c] # "approve"

IInv ==
    /\ TypeOK /\ OneDiscussion /\ Quiet
    /\ Uncovered /\ HandedOver /\ EscalatedReachesPerson
    /\ Unrecorded /\ HeldToTheEnd /\ ReviewsRecorded

USE DEF Ended, Silence, Holders, Kinds, Replies

LEMMA Start == Init => IInv
<1> SUFFICES ASSUME Init PROVE IInv
  OBVIOUS
<1> USE DEF Init
<1>1. logged \in [Calls -> [times : 0..1, verdict : {"none", "approve", "refuse", "failed"},
                            human : {"none", "allow", "no"}]]
  OBVIOUS
<1>2. TypeOK
  <2>1. missing \in [Calls -> SUBSET Perms] /\ MaxTells \in Nat
    BY ApprovalAssumption
  <2>2. turn \in [kind : Kinds \union {"none"}, by : Holders, reply : Replies]
    OBVIOUS
  <2>3. pc \in [Calls -> {"new", "to_nanny", "review", "to_person", "prompt"} \union Ended]
    OBVIOUS
  <2>4. mayHand \in [Calls -> BOOLEAN]
    OBVIOUS
  <2>5. /\ verdict \in [Calls -> {"none", "approve", "refuse", "failed"}]
        /\ person \in [Calls -> {"none", "yes", "no", "handed"}]
    OBVIOUS
  <2>6. /\ rules \subseteq Perms /\ denials \subseteq Perms /\ delegations \subseteq Perms
        /\ lock \in Holders /\ screen \in Calls \union {"nobody"}
        /\ next \in Kinds \union {"none"}
        /\ open \in 0..2 /\ told \in 0..MaxTells
    BY <2>1
  <2>7. auto \in BOOLEAN /\ nanny \in BOOLEAN /\ header \in BOOLEAN /\ esc \in BOOLEAN
    OBVIOUS
  <2> HIDE DEF Init
  <2> QED
    BY <1>1, <2>1, <2>2, <2>3, <2>4, <2>5, <2>6, <2>7 DEF TypeOK
<1>3. OneDiscussion /\ Quiet
  BY DEF OneDiscussion, Quiet
<1>4. Uncovered /\ HandedOver /\ EscalatedReachesPerson /\ HeldToTheEnd /\ ReviewsRecorded
  BY DEF Uncovered, HandedOver, EscalatedReachesPerson, HeldToTheEnd, ReviewsRecorded
<1>5. Unrecorded
  BY DEF Unrecorded
<1> QED
  BY <1>2, <1>3, <1>4, <1>5 DEF IInv

-----------------------------------------------------------------------------
(* The checks. *)
LEMMA CheckKeeps == ASSUME IInv, NEW c \in Calls, CheckCall(c) PROVE IInv'
<1> USE DEF CheckCall, rulesVars, nannyVars
<1>1. Settled(c) \in {"run", "skipped", "to_nanny", "to_person"}
  BY DEF Settled
<1>2. Settled(c) \in {"run", "to_nanny"} => Escalated \intersect Needs[c] \subseteq rules \union delegations
  BY DEF Settled, AutoCovers, NannyMayReview
<1>3. Needs[c] \subseteq Perms
  BY ApprovalAssumption
<1>4. TypeOK'
  BY <1>1, <1>3 DEF IInv, TypeOK
<1>5. Quiet' /\ OneDiscussion'
  BY DEF IInv, Quiet, OneDiscussion
<1>6. Uncovered' /\ Unrecorded'
  BY DEF IInv, Uncovered, Unrecorded, TypeOK
<1>7. HandedOver' /\ EscalatedReachesPerson'
  BY <1>1, <1>2 DEF IInv, HandedOver, Granted, EscalatedReachesPerson, TypeOK
<1>8. HeldToTheEnd' /\ ReviewsRecorded'
  <2>1. verdict[c] = "none"
    BY DEF IInv, HeldToTheEnd
  <2> QED
    BY <2>1 DEF IInv, HeldToTheEnd, ReviewsRecorded, TypeOK
<1> QED
  BY <1>4, <1>5, <1>6, <1>7, <1>8 DEF IInv

-----------------------------------------------------------------------------
(* The lock and the turns. *)
LEMMA EnterKeeps ==
    ASSUME IInv, (\E c \in Calls : BeginReview(c)) \/ BeginTell
    PROVE  IInv'
<1> USE DEF Enter, FirstTurn, rulesVars
<1>1. ASSUME NEW c \in Calls, BeginReview(c) PROVE IInv'
  <2> USE <1>1 DEF BeginReview
  <2>1. TypeOK'
    BY DEF IInv, TypeOK
  <2>2. Quiet' /\ OneDiscussion'
    BY ApprovalAssumption DEF IInv, Quiet, OneDiscussion
  <2>3. Uncovered' /\ Unrecorded' /\ HandedOver' /\ EscalatedReachesPerson'
    BY DEF IInv, Uncovered, Unrecorded, HandedOver, Granted, EscalatedReachesPerson, TypeOK
  <2>4. HeldToTheEnd' /\ ReviewsRecorded'
    BY ApprovalAssumption DEF IInv, HeldToTheEnd, ReviewsRecorded, TypeOK
  <2> QED
    BY <2>1, <2>2, <2>3, <2>4 DEF IInv
<1>2. ASSUME BeginTell PROVE IInv'
  <2> USE <1>2 DEF BeginTell
  <2>1. TypeOK'
    BY ApprovalAssumption DEF IInv, TypeOK
  <2>2. Quiet' /\ OneDiscussion'
    BY ApprovalAssumption DEF IInv, Quiet, OneDiscussion
  <2>3. Uncovered' /\ Unrecorded' /\ HandedOver' /\ EscalatedReachesPerson'
    BY DEF IInv, Uncovered, Unrecorded, HandedOver, Granted, EscalatedReachesPerson
  <2>4. HeldToTheEnd' /\ ReviewsRecorded'
    BY ApprovalAssumption DEF IInv, HeldToTheEnd, ReviewsRecorded
  <2> QED
    BY <2>1, <2>2, <2>3, <2>4 DEF IInv
<1> QED
  BY <1>1, <1>2

(* What is said and answered, and a talk's end, are about nobody's call.    *)
LEMMA TurnKeeps ==
    ASSUME IInv, Say \/ TalkEnds \/ \E reply \in Replies \ {"none"} : Reply(reply)
    PROVE  IInv'
<1> USE DEF rulesVars, ClosedTurn
<1>1. UNCHANGED <<rules, delegations, denials, auto, nanny, pc, missing, mayHand, screen, lock, header,
                  verdict, logged, person, esc, told>>
  BY DEF Say, TalkEnds, Reply
<1>2. turn' \in [kind : Kinds \union {"none"}, by : Holders, reply : Replies]
      /\ next' \in Kinds \union {"none"} /\ open' \in 0..2
  BY DEF Say, TalkEnds, Reply, IInv, TypeOK, OneDiscussion
<1>3. TypeOK'
  BY <1>1, <1>2 DEF IInv, TypeOK
<1>4. Quiet' /\ OneDiscussion'
  <2>1. CASE Say
    BY <2>1 DEF Say, IInv, Quiet, OneDiscussion
  <2>2. CASE TalkEnds
    BY <2>2 DEF TalkEnds, IInv, Quiet, OneDiscussion
  <2>3. CASE \E reply \in Replies \ {"none"} : Reply(reply)
    BY <2>3 DEF Reply, IInv, Quiet, OneDiscussion, TypeOK
  <2> QED
    BY <2>1, <2>2, <2>3
<1>5. Uncovered' /\ Unrecorded' /\ HandedOver' /\ EscalatedReachesPerson'
      /\ HeldToTheEnd' /\ ReviewsRecorded'
  BY <1>1 DEF IInv, Uncovered, Unrecorded, HandedOver, Granted, EscalatedReachesPerson,
              HeldToTheEnd, ReviewsRecorded
<1> QED
  BY <1>3, <1>4, <1>5 DEF IInv

-----------------------------------------------------------------------------
(* Whose turn it is has the lock; an answered one has nothing open. *)
LEMMA Speaker ==
    ASSUME IInv, NEW h \in Calls \union {"tell"}, turn.by = h
    PROVE  turn # Silence /\ lock = h /\ next = "none" /\ (turn.reply # "none" => open = 0)
  BY ApprovalAssumption DEF IInv, OneDiscussion, Quiet

(* A review comes to its verdict. *)
LEMMA VerdictKeeps ==
    ASSUME IInv, NEW c \in Calls, pc[c] = "review", turn.by = c,
           Approved(c) \/ \E outcome \in {"refuse", "failed"} : ToPerson(c, outcome),
           turn' = Silence, open' = 0,
           UNCHANGED <<rulesVars, auto, nanny, missing, mayHand, screen, person, esc, told>>
    PROVE  IInv'
<1> USE DEF rulesVars, EndReview, Record
<1>1. lock = c /\ logged[c].times = 0 /\ verdict[c] = "none" /\ Granted(c)
  BY Speaker DEF IInv, Unrecorded, HeldToTheEnd, HandedOver
<1>2. ASSUME Approved(c) PROVE IInv'
  <2> USE <1>2 DEF Approved
  <2>1. logged' = [logged EXCEPT ![c] = [times |-> 1, verdict |-> "approve", human |-> "none"]]
    BY <1>1 DEF IInv, TypeOK
  <2>2. TypeOK'
    BY <2>1 DEF IInv, TypeOK
  <2>3. Quiet' /\ OneDiscussion'
    BY DEF Quiet, OneDiscussion
  <2>4. Uncovered' /\ Unrecorded' /\ HandedOver' /\ EscalatedReachesPerson'
    BY <1>1, <2>1 DEF IInv, Uncovered, Unrecorded, HandedOver, Granted, EscalatedReachesPerson, TypeOK
  <2>5. HeldToTheEnd' /\ ReviewsRecorded'
    BY <1>1, <2>1 DEF IInv, HeldToTheEnd, ReviewsRecorded, TypeOK
  <2> QED
    BY <2>2, <2>3, <2>4, <2>5 DEF IInv
<1>3. ASSUME NEW outcome \in {"refuse", "failed"}, ToPerson(c, outcome), AutoCovers(missing[c])
      PROVE  IInv'
  <2> USE <1>3 DEF ToPerson
  <2>1. logged' = [logged EXCEPT ![c] = [times |-> 1, verdict |-> outcome, human |-> "allow"]]
    BY <1>1 DEF IInv, TypeOK
  <2>2. TypeOK'
    BY <2>1 DEF IInv, TypeOK
  <2>3. Quiet' /\ OneDiscussion'
    BY DEF Quiet, OneDiscussion
  <2>4. pc' = [pc EXCEPT ![c] = "run"]
    OBVIOUS
  <2>5. Uncovered' /\ Unrecorded' /\ HandedOver' /\ EscalatedReachesPerson'
    <3> HIDE <1>3 DEF ToPerson
    <3> QED
      BY <1>1, <2>1, <2>4 DEF IInv, Uncovered, Unrecorded, HandedOver, Granted, EscalatedReachesPerson, TypeOK
  <2>6. HeldToTheEnd' /\ ReviewsRecorded'
    BY <1>1, <2>1 DEF IInv, HeldToTheEnd, ReviewsRecorded, TypeOK
  <2> QED
    BY <2>2, <2>3, <2>5, <2>6 DEF IInv
<1>4. ASSUME NEW outcome \in {"refuse", "failed"}, ToPerson(c, outcome), ~AutoCovers(missing[c])
      PROVE  IInv'
  <2> USE <1>4 DEF ToPerson
  <2>1. TypeOK'
    BY DEF IInv, TypeOK
  <2>2. Quiet' /\ OneDiscussion'
    BY <1>1, ApprovalAssumption DEF Quiet, OneDiscussion
  <2>3. pc' = [pc EXCEPT ![c] = "to_person"] /\ logged' = logged
    OBVIOUS
  <2>4. Uncovered' /\ Unrecorded' /\ HandedOver' /\ EscalatedReachesPerson'
    <3> HIDE <1>4 DEF ToPerson
    <3> QED
      BY <1>1, <2>3 DEF IInv, Uncovered, Unrecorded, HandedOver, Granted, EscalatedReachesPerson, TypeOK
  <2>5. HeldToTheEnd' /\ ReviewsRecorded'
    BY <1>1 DEF IInv, HeldToTheEnd, ReviewsRecorded, TypeOK
  <2> QED
    BY <2>1, <2>2, <2>4, <2>5 DEF IInv
<1> QED
  BY <1>2, <1>3, <1>4

(* A turn of a review returns or fails. *)
LEMMA ReviewKeeps == ASSUME IInv, NEW c \in Calls, TurnReturns(c) \/ TurnFails(c) PROVE IInv'
<1>1. CASE TurnFails(c)
  BY <1>1, VerdictKeeps DEF TurnFails, ClosedTurn
<1>2. CASE TurnReturns(c)
  <2> USE <1>2 DEF TurnReturns
  <2>1. open = 0 /\ lock = c /\ turn # Silence
    BY Speaker
  <2>2. \/ Approved(c) \/ ToPerson(c, "refuse")
        \/ \E kind \in {"brief", "ask", "retry", "more"} :
              GoOn(kind) /\ (header' = TRUE \/ header' = header)
    <3> HIDE DEF Silence, Replies, Kinds, Holders
    <3>1. CASE turn.kind = "header"
      BY <3>1 DEF Heard
    <3>2. CASE turn.kind = "brief"
      BY <3>2 DEF Heard
    <3>3. CASE turn.kind \in {"ask", "retry", "more"}
      BY <3>3 DEF Heard
    <3>4. CASE turn.kind \notin {"header", "brief", "ask", "retry", "more"}
      BY <3>4 DEF Heard
    <3> QED
      BY <3>1, <3>2, <3>3, <3>4
  <2>3. CASE Approved(c) \/ ToPerson(c, "refuse")
    BY <2>1, <2>3, VerdictKeeps
  <2>4. CASE \E kind \in {"brief", "ask", "retry", "more"} : GoOn(kind) /\ (header' = TRUE \/ header' = header)
    <3> USE <2>4 DEF GoOn, rulesVars
    <3>1. TypeOK'
      <4>1. header' \in BOOLEAN
        BY DEF IInv, TypeOK
      <4> QED
        BY <4>1 DEF IInv, TypeOK
    <3>2. Quiet' /\ OneDiscussion'
      BY <2>1, ApprovalAssumption DEF Quiet, OneDiscussion
    <3>3. Uncovered' /\ Unrecorded' /\ HandedOver' /\ EscalatedReachesPerson'
          /\ HeldToTheEnd' /\ ReviewsRecorded'
      BY DEF IInv, Uncovered, Unrecorded, HandedOver, Granted, EscalatedReachesPerson,
             HeldToTheEnd, ReviewsRecorded
    <3> QED
      BY <3>1, <3>2, <3>3 DEF IInv
  <2> QED
    BY <2>2, <2>3, <2>4
<1> QED
  BY <1>1, <1>2

(* Telling the nanny something touches no call. *)
LEMMA TellKeeps == ASSUME IInv, TellGoesOn \/ TellFails PROVE IInv'
<1> USE DEF rulesVars, ClosedTurn, LockAfterFailure
<1>1. lock = "tell" /\ turn # Silence /\ next = "none" /\ (turn.reply # "none" => open = 0)
  BY Speaker DEF TellGoesOn, TellFails
<1>2. /\ UNCHANGED <<rules, delegations, denials, auto, nanny, pc, missing, mayHand, screen,
                      verdict, logged, person, esc, told>>
      /\ turn' = Silence /\ open' = 0
  BY <1>1 DEF TellGoesOn, TellFails
<1>3. /\ lock' \in {"tell", "nobody"} /\ next' \in {"none", "brief", "tell"}
      /\ lock' = "nobody" => next' = "none"
  <2>1. CASE TellFails
    BY <2>1 DEF TellFails
  <2>2. CASE TellGoesOn
    BY <1>1, <2>2 DEF TellGoesOn
  <2> QED
    BY <2>1, <2>2
<1>4. header' \in BOOLEAN
  <2>1. header \in BOOLEAN
    BY DEF IInv, TypeOK
  <2>2. CASE TellFails
    BY <2>1, <2>2 DEF TellFails
  <2>3. CASE TellGoesOn
    BY <2>1, <2>3 DEF TellGoesOn
  <2> QED
    BY <2>2, <2>3
<1>5. TypeOK'
  BY <1>2, <1>3, <1>4 DEF IInv, TypeOK
<1>6. Quiet' /\ OneDiscussion'
  BY <1>2, <1>3 DEF Quiet, OneDiscussion
<1>7. Uncovered' /\ Unrecorded' /\ HandedOver' /\ EscalatedReachesPerson'
  BY <1>2 DEF IInv, Uncovered, Unrecorded, HandedOver, Granted, EscalatedReachesPerson
<1>8. HeldToTheEnd' /\ ReviewsRecorded'
  BY <1>1, <1>2, ApprovalAssumption DEF IInv, HeldToTheEnd, ReviewsRecorded
<1> QED
  BY <1>5, <1>6, <1>7, <1>8 DEF IInv

-----------------------------------------------------------------------------
(* The person. *)
LEMMA ShowKeeps == ASSUME IInv, NEW c \in Calls, ShowPrompt(c) PROVE IInv'
<1> USE DEF rulesVars, nannyVars
<1>1. /\ pc[c] = "to_person" /\ screen' \in {screen, c}
      /\ UNCHANGED <<rules, delegations, denials, auto, nanny, missing, mayHand, lock, turn, next,
                      header, open, verdict, logged, person, esc, told>>
  BY DEF ShowPrompt
<1>2. \/ pc' = [pc EXCEPT ![c] = "prompt"]
      \/ /\ pc' = [pc EXCEPT ![c] = "run"] /\ lock # c
         /\ Escalated \intersect missing[c] = {}
  BY DEF ShowPrompt, AutoCovers
<1>3. TypeOK'
  BY <1>1, <1>2 DEF IInv, TypeOK
<1>4. Quiet' /\ OneDiscussion'
  BY <1>1 DEF IInv, Quiet, OneDiscussion
<1>5. Uncovered' /\ Unrecorded'
  BY <1>1, <1>2 DEF IInv, Uncovered, Unrecorded, TypeOK
<1>6. HandedOver' /\ EscalatedReachesPerson'
  BY <1>1, <1>2 DEF IInv, Uncovered, HandedOver, Granted, EscalatedReachesPerson, TypeOK
<1>7. HeldToTheEnd' /\ ReviewsRecorded'
  BY <1>1, <1>2 DEF IInv, HeldToTheEnd, ReviewsRecorded, TypeOK
<1> QED
  BY <1>3, <1>4, <1>5, <1>6, <1>7 DEF IInv

(* A prompt is answered: with a review, that ends as well. *)
LEMMA AnswerKeeps ==
    ASSUME IInv, NEW c \in Calls, PromptAnswers(c),
           NEW said \in {"yes", "no", "handed"}, NEW ends \in {"run", "skipped", "to_nanny"},
           Answered(c, said, ends),
           ends \in {"run", "to_nanny"} => said # "no", ends = "to_nanny" => lock # c,
           rules \subseteq rules', delegations \subseteq delegations',
           rules' \subseteq Perms, delegations' \subseteq Perms, denials' \subseteq Perms
    PROVE  IInv'
<1> DEFINE human == IF ends = "run" THEN "allow" ELSE "no"
<1>1. /\ pc[c] = "prompt" /\ logged[c].times = 0
      /\ lock = c => turn = Silence /\ next = "none"
      /\ verdict[c] # "none" => lock = c /\ verdict[c] # "approve"
  BY DEF PromptAnswers, Talking, IInv, OneDiscussion, Unrecorded, HeldToTheEnd
<1>2. /\ pc' = [pc EXCEPT ![c] = ends] /\ person' = [person EXCEPT ![c] = said]
      /\ screen' = "nobody"
      /\ UNCHANGED <<auto, nanny, missing, mayHand, turn, next, header, open, verdict, esc, told>>
  BY DEF Answered
<1>3. \/ lock # c /\ UNCHANGED <<lock, logged>>
      \/ /\ lock = c /\ lock' = "nobody"
         /\ logged' = [logged EXCEPT ![c] = [times |-> 1, verdict |-> verdict[c], human |-> human]]
  BY <1>1 DEF Answered, EndReview, Record, IInv, TypeOK
<1>4. TypeOK'
  <2>1. logged' \in [Calls -> [times : 0..1, verdict : {"none", "approve", "refuse", "failed"},
                               human : {"none", "allow", "no"}]]
    BY <1>3 DEF IInv, TypeOK
  <2>2. /\ pc' \in [Calls -> {"new", "to_nanny", "review", "to_person", "prompt"} \union Ended]
        /\ person' \in [Calls -> {"none", "yes", "no", "handed"}]
        /\ lock' \in Holders
    BY <1>2, <1>3 DEF IInv, TypeOK
  <2> QED
    BY <1>2, <2>1, <2>2 DEF IInv, TypeOK
<1>5. Quiet' /\ OneDiscussion'
  BY <1>1, <1>2, <1>3 DEF IInv, Quiet, OneDiscussion
<1>6. Uncovered'
  BY <1>1, <1>2 DEF IInv, Uncovered, TypeOK
<1>7. Unrecorded'
  BY <1>1, <1>2, <1>3 DEF IInv, Unrecorded, TypeOK
<1>8. HandedOver' /\ EscalatedReachesPerson'
  BY <1>1, <1>2 DEF IInv, HandedOver, Granted, EscalatedReachesPerson, TypeOK
<1>9. HeldToTheEnd'
  BY <1>1, <1>2, <1>3 DEF IInv, HeldToTheEnd, TypeOK
<1>10. ReviewsRecorded'
  <2> SUFFICES ASSUME NEW d \in Calls, verdict[d] # "none", pc'[d] \in Ended
               PROVE  /\ logged'[d].times = 1 /\ logged'[d].verdict = verdict[d]
                      /\ pc'[d] = "run" <=> logged'[d].verdict = "approve" \/ logged'[d].human = "allow"
    BY <1>2 DEF ReviewsRecorded
  <2>1. CASE d = c
    <3>1. pc'[c] = ends /\ verdict[c] # "approve"
      BY <1>1, <1>2, <2>1 DEF IInv, TypeOK
    <3>2. logged'[c] = [times |-> 1, verdict |-> verdict[c], human |-> human]
      BY <1>1, <1>3, <2>1 DEF IInv, TypeOK
    <3>3. (ends = "run") <=> (human = "allow")
      OBVIOUS
    <3> HIDE DEF human
    <3> QED
      BY <2>1, <3>1, <3>2, <3>3
  <2>2. CASE d # c
    BY <1>2, <1>3, <2>2 DEF IInv, TypeOK, ReviewsRecorded
  <2> QED
    BY <2>1, <2>2
<1> QED
  BY <1>4, <1>5, <1>6, <1>7, <1>8, <1>9, <1>10 DEF IInv

LEMMA OptionKeeps ==
    ASSUME IInv, NEW c \in Calls, NEW always \in BOOLEAN,
           Allow(c, always) \/ Reject(c, always) \/ HandToNanny(c, always)
    PROVE  IInv'
<1>1. missing[c] \subseteq Perms /\ rules \subseteq Perms /\ denials \subseteq Perms
      /\ delegations \subseteq Perms
  BY DEF IInv, TypeOK
<1>2. CASE Allow(c, always)
  BY <1>1, <1>2, AnswerKeeps DEF Allow
<1>3. CASE Reject(c, always)
  BY <1>1, <1>3, AnswerKeeps DEF Reject
<1>4. CASE HandToNanny(c, always)
  BY <1>1, <1>4, AnswerKeeps DEF HandToNanny, Offered
<1> QED
  BY <1>2, <1>3, <1>4

(* Talk, on and off, the mode, Esc as such. *)
LEMMA OtherKeeps ==
    ASSUME IInv,
           \/ \E c \in Calls : Talk(c)
           \/ TurnOff \/ TurnOn \/ SwitchMode \/ Interrupt \/ InterruptDone
    PROVE  IInv'
<1> USE DEF rulesVars, nannyVars
<1>1. UNCHANGED <<rules, delegations, denials, pc, missing, mayHand, screen, lock, turn, open,
                  verdict, logged, person>>
  BY DEF Talk, TurnOff, TurnOn, SwitchMode, Interrupt, InterruptDone
<1>2. told' \in 0..MaxTells
  BY ApprovalAssumption DEF Talk, TurnOff, TurnOn, SwitchMode, Interrupt, InterruptDone, IInv, TypeOK
<1>3. \/ next' = next
      \/ next' = "talk" /\ turn = Silence /\ lock # "nobody"
  BY ApprovalAssumption DEF Talk, PromptAnswers, Talking, TurnOff, TurnOn, SwitchMode, Interrupt, InterruptDone,
       IInv, OneDiscussion
<1>4. auto' \in BOOLEAN /\ nanny' \in BOOLEAN /\ header' \in BOOLEAN /\ esc' \in BOOLEAN
  <2>1. auto \in BOOLEAN /\ nanny \in BOOLEAN /\ header \in BOOLEAN /\ esc \in BOOLEAN
    BY DEF IInv, TypeOK
  <2> QED
    BY <2>1 DEF Talk, TurnOff, TurnOn, SwitchMode, Interrupt, InterruptDone
<1>5. TypeOK'
  BY <1>1, <1>2, <1>3, <1>4 DEF IInv, TypeOK
<1>6. Quiet' /\ OneDiscussion'
  BY <1>1, <1>3 DEF IInv, Quiet, OneDiscussion
<1>7. Uncovered' /\ Unrecorded' /\ HandedOver' /\ EscalatedReachesPerson'
      /\ HeldToTheEnd' /\ ReviewsRecorded'
  BY <1>1 DEF IInv, Uncovered, Unrecorded, HandedOver, Granted, EscalatedReachesPerson,
              HeldToTheEnd, ReviewsRecorded
<1> QED
  BY <1>5, <1>6, <1>7 DEF IInv

(* Esc reaches a call wherever it waits; a verdict it had is recorded.      *)
LEMMA CancelKeeps == ASSUME IInv, NEW c \in Calls, CancelCall(c) PROVE IInv'
<1> USE DEF rulesVars, ClosedTurn
<1>1. /\ pc[c] \notin Ended \union {"new"} /\ logged[c].times = 0
      /\ verdict[c] # "none" => lock = c /\ verdict[c] # "approve"
  BY DEF CancelCall, Active, IInv, Unrecorded, HeldToTheEnd
<1>2. /\ pc' = [pc EXCEPT ![c] = "cancelled"] /\ screen' \in {screen, "nobody"}
      /\ UNCHANGED <<rules, delegations, denials, auto, nanny, missing, mayHand, header, verdict,
                      person, esc, told>>
  BY DEF CancelCall
<1>3. \/ lock # c /\ UNCHANGED <<lock, next, turn, open>>
      \/ lock = c /\ lock' = "nobody" /\ next' = "none" /\ turn' = Silence /\ open' = 0
  BY DEF CancelCall
<1>4. IF lock = c /\ verdict[c] # "none"
      THEN logged' = [logged EXCEPT ![c] = [times |-> 1, verdict |-> verdict[c], human |-> "none"]]
      ELSE logged' = logged
  BY <1>1 DEF CancelCall, Record, IInv, TypeOK
<1>5. TypeOK'
  <2>1. logged' \in [Calls -> [times : 0..1, verdict : {"none", "approve", "refuse", "failed"},
                               human : {"none", "allow", "no"}]]
    BY <1>4 DEF IInv, TypeOK
  <2>2. /\ pc' \in [Calls -> {"new", "to_nanny", "review", "to_person", "prompt"} \union Ended]
        /\ lock' \in Holders /\ next' \in Kinds \union {"none"} /\ open' \in 0..2
        /\ screen' \in Calls \union {"nobody"}
    BY <1>2, <1>3 DEF IInv, TypeOK
  <2>3. turn' \in [kind : Kinds \union {"none"}, by : Holders, reply : Replies]
    BY <1>3 DEF IInv, TypeOK
  <2> QED
    BY <1>2, <2>1, <2>2, <2>3 DEF IInv, TypeOK
<1>6. Quiet' /\ OneDiscussion'
  BY <1>3 DEF IInv, Quiet, OneDiscussion
<1>7. Uncovered' /\ HandedOver' /\ EscalatedReachesPerson'
  BY <1>1, <1>2 DEF IInv, Uncovered, HandedOver, Granted, EscalatedReachesPerson, TypeOK
<1>8. Unrecorded'
  BY <1>2, <1>4 DEF IInv, Unrecorded, TypeOK
<1>9. HeldToTheEnd'
  BY <1>1, <1>2, <1>3 DEF IInv, HeldToTheEnd, TypeOK
<1>10. ReviewsRecorded'
  <2> SUFFICES ASSUME NEW d \in Calls, verdict[d] # "none", pc'[d] \in Ended
               PROVE  /\ logged'[d].times = 1 /\ logged'[d].verdict = verdict[d]
                      /\ pc'[d] = "run" <=> logged'[d].verdict = "approve" \/ logged'[d].human = "allow"
    BY <1>2 DEF ReviewsRecorded
  <2>1. CASE d = c
    BY <1>1, <1>2, <1>4, <2>1 DEF IInv, TypeOK
  <2>2. CASE d # c
    BY <1>2, <1>4, <2>2 DEF IInv, TypeOK, ReviewsRecorded
  <2> QED
    BY <2>1, <2>2
<1> QED
  BY <1>5, <1>6, <1>7, <1>8, <1>9, <1>10 DEF IInv

-----------------------------------------------------------------------------
LEMMA StepKeeps == ASSUME IInv, [Next]_vars PROVE IInv'
<1>1. CASE \E c \in Calls : CheckCall(c) \/ CancelCall(c)
  BY <1>1, CheckKeeps, CancelKeeps
<1>2. CASE (\E c \in Calls : BeginReview(c)) \/ BeginTell
  BY <1>2, EnterKeeps
<1>3. CASE \E c \in Calls : TurnReturns(c) \/ TurnFails(c) \/ ShowPrompt(c)
  BY <1>3, ReviewKeeps, ShowKeeps
<1>4. CASE Say \/ TalkEnds \/ \E reply \in Replies \ {"none"} : Reply(reply)
  BY <1>4, TurnKeeps
<1>5. CASE TellGoesOn \/ TellFails
  BY <1>5, TellKeeps
<1>6. CASE \E c \in Calls, always \in BOOLEAN :
              Allow(c, always) \/ Reject(c, always) \/ HandToNanny(c, always)
  BY <1>6, OptionKeeps
<1>7. CASE \/ \E c \in Calls : Talk(c)
           \/ TurnOff \/ TurnOn \/ SwitchMode \/ Interrupt \/ InterruptDone
  BY <1>7, OtherKeeps
<1>8. CASE UNCHANGED vars
  BY <1>8 DEF vars, rulesVars, nannyVars, IInv, TypeOK, OneDiscussion, Quiet, Uncovered, HandedOver,
              Granted, EscalatedReachesPerson, Unrecorded, HeldToTheEnd, ReviewsRecorded
<1> QED
  BY <1>1, <1>2, <1>3, <1>4, <1>5, <1>6, <1>7, <1>8 DEF Next, ReviewStep, PersonStep

LEMMA Invariance == Spec => []IInv
<1>1. Init => IInv
  BY Start
<1>2. IInv /\ [Next]_vars => IInv'
  BY StepKeeps
<1> QED
  BY <1>1, <1>2, PTL DEF Spec

(* Every reachable state is typed; with it, no review is recorded twice.    *)
THEOREM TypeCorrect == Spec => []TypeOK
<1>1. IInv => TypeOK
  BY DEF IInv
<1> QED
  BY <1>1, Invariance, PTL

(* Whatever the nanny says and however the mode, the rules and the          *)
(* delegations change while she thinks, an escalated permission is          *)
(* exercised only with the person's word (_nanny_may_review, the shortcut   *)
(* of _approval_callback).                                                  *)
THEOREM PersonDecides == Spec => []EscalatedReachesPerson
<1>1. IInv => EscalatedReachesPerson
  BY DEF IInv
<1> QED
  BY <1>1, Invariance, PTL

(* The review lock keeps discussions apart (NannyManager.review, talk,      *)
(* tell), also with timeouts, failures and cancellations at any turn.       *)
THEOREM DiscussionsApart == Spec => []OneDiscussion
<1>1. IInv => OneDiscussion
  BY DEF IInv
<1> QED
  BY <1>1, Invariance, PTL

(* decisions.jsonl tells of every review with a verdict what came of it.    *)
THEOREM RecordsTrue == Spec => []ReviewsRecorded
<1>1. IInv => ReviewsRecorded
  BY DEF IInv
<1> QED
  BY <1>1, Invariance, PTL
===============================================================================
