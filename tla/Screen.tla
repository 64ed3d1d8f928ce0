-------------------------------- MODULE Screen --------------------------------
(***************************************************************************)
(* The terminal front end (privibe/cli/textual_ui/app.py) as far as it     *)
(* drives the agent: what becomes of a message typed at any moment, which  *)
(* task Esc reaches, and which panel has the keyboard.                     *)
(*                                                                         *)
(* Everything runs on one event loop. The app's message pump runs one      *)
(* handler at a time; turns, compactions and interrupts are tasks beside   *)
(* it. An action is what runs between two awaits.                          *)
(***************************************************************************)
EXTENDS Naturals, Sequences, FiniteSets, SequencesExt

CONSTANTS
    MaxTyped,    \* bound: messages typed
    MaxOther,    \* bound: compactions, panels and rewinds
    Races        \* what this instance admits, out of RaceKinds

(* many: more than one message is queued.                                  *)
(* gap:  Enter, /compact or a rewind while a turn is over for the flags    *)
(*       but not for its task, or before a new one has begun.              *)
RaceKinds == {"many", "gap"}

ASSUME ScreenAssumption ==
    MaxTyped \in Nat /\ MaxOther \in Nat /\ Races \subseteq RaceKinds

VARIABLES
    typed,       \* messages typed so far
    place,       \* what has become of each of them
    queue,       \* AgentLoop._steering_queue
    pump,        \* what the pump's handler awaits
    steer,       \* _steer_next_message
    busy,        \* _agent_running
    asked,       \* _interrupt_requested
    task,        \* _agent_task
    at,          \* where each task stands
    rest,        \* messages a turn has drained and still has to submit
    cancelled,   \* tasks whose cancel() was called
    escs,        \* _interrupt_agent_loop workers
    pending,     \* _pending_approval, _pending_question
    current,     \* _current_bottom_app
    panels,      \* what is mounted in the bottom container
    others       \* counts compactions, panels and rewinds

agentVars == <<busy, asked, task, at, rest, cancelled, escs>>
inputVars == <<typed, place, queue, pump, steer>>
panelVars == <<pending, current, panels>>
vars == <<inputVars, agentVars, panelVars, others>>

Messages == 1..MaxTyped
Compaction == MaxTyped + 1
Tasks == Messages \union {Compaction}     \* a turn is named by its message
NoTask == 0
Prompts == {"approval", "question"}
Bottom == Prompts \union {"input", "settings", "rewind"}
Idle == [does |-> "nothing", msg |-> 0]

TypeOK ==
    /\ typed \in 0..MaxTyped
    /\ place \in [Messages -> {"none", "mounting", "queue", "turn", "given", "stopped", "dropped"}]
    /\ queue \in Seq(Messages)
    /\ \A m \in Messages : place[m] = "queue" =>
          m \in ToSet(queue) \/ \E u \in Messages : m \in ToSet(rest[u])
    /\ pump \in [does : {"nothing", "message", "compact", "panel", "rewind"}, msg : 0..MaxTyped]
    /\ steer \in BOOLEAN /\ busy \in BOOLEAN /\ asked \in BOOLEAN
    /\ task \in Tasks \union {NoTask}
    /\ at \in [Tasks -> {"none", "created", "starting", "running", "ending", "draining", "mounting"}]
    /\ rest \in [Messages -> Seq(Messages)]
    /\ cancelled \subseteq Tasks
    /\ escs \subseteq [at : {"cancelling", "settling", "clearing"}, on : Tasks \union {NoTask}]
    /\ pending \in Prompts \union {"none"}
    /\ current \in Bottom /\ panels \subseteq Bottom \ {"input"}
    /\ others \in 0..MaxOther

Init ==
    /\ typed = 0 /\ place = [m \in Messages |-> "none"]
    /\ queue = <<>> /\ pump = Idle /\ steer = FALSE
    /\ busy = FALSE /\ asked = FALSE /\ task = NoTask
    /\ at = [t \in Tasks |-> "none"] /\ rest = [m \in Messages |-> <<>>]
    /\ cancelled = {} /\ escs = {}
    /\ pending = "none" /\ current = "input" /\ panels = {}
    /\ others = 0

InFlight(t) == at[t] \in {"starting", "running"}

(* Not within the short time in which flags and tasks disagree. *)
Settled == \A t \in Tasks : at[t] \in {"none", "starting", "running"}
NoGap == "gap" \in Races \/ (Settled /\ escs = {})

-----------------------------------------------------------------------------
(* The input: on_chat_input_container_submitted, _handle_user_message.     *)

InputShown == current = "input" /\ pump = Idle

Count == others < MaxOther /\ others' = others + 1

(* Enter while the agent runs: queued, as a steering message. *)
Queue ==
    /\ InputShown /\ NoGap /\ typed < MaxTyped
    /\ busy
    /\ "many" \in Races \/ queue = <<>>
    /\ typed' = typed + 1
    /\ queue' = Append(queue, typed')
    /\ place' = [place EXCEPT ![typed'] = "queue"]
    /\ UNCHANGED <<pump, steer, agentVars, panelVars, others>>

(* Enter while it does not: the bubble is mounted first. *)
Submit ==
    /\ InputShown /\ NoGap /\ typed < MaxTyped
    /\ ~busy
    /\ typed' = typed + 1
    /\ steer' = FALSE
    /\ pump' = [does |-> "message", msg |-> typed']
    /\ place' = [place EXCEPT ![typed'] = "mounting"]
    /\ UNCHANGED <<queue, agentVars, panelVars, others>>

(* The end of _handle_user_message, for a typed and for a drained message:  *)
(* with a turn running by now, nothing is done with the text. A task that   *)
(* was created has started before a mount is over.                          *)
StartTurn(m) ==
    /\ \A t \in Tasks : at[t] # "created"
    /\ IF busy
       THEN /\ place' = [place EXCEPT ![m] = "dropped"]
            /\ UNCHANGED task
       ELSE /\ place' = [place EXCEPT ![m] = "turn"]
            /\ task' = m

SubmitMounted ==
    /\ pump.does = "message"
    /\ StartTurn(pump.msg)
    /\ at' = IF busy THEN at ELSE [at EXCEPT ![pump.msg] = "created"]
    /\ pump' = Idle
    /\ UNCHANGED <<typed, queue, steer, busy, asked, rest, cancelled, escs, panelVars, others>>

-----------------------------------------------------------------------------
(* _handle_agent_loop_turn *)

TurnStarts(t) ==
    /\ at[t] = "created" /\ t \notin cancelled
    /\ busy' = TRUE
    /\ at' = [at EXCEPT ![t] = IF t = Compaction THEN "running" ELSE "starting"]
    /\ UNCHANGED <<inputVars, asked, task, rest, cancelled, escs, panelVars, others>>

(* The loading widget is there; act() takes the prompt. *)
TurnActs(t) ==
    /\ at[t] = "starting" /\ t \notin cancelled
    /\ at' = [at EXCEPT ![t] = "running"]
    /\ place' = [place EXCEPT ![t] = "given"]
    /\ UNCHANGED <<typed, queue, pump, steer, busy, asked, task, rest, cancelled, escs,
                   panelVars, others>>

\* fault: the queue is cleared first
GiveNone == place

GiveQueued == [m \in Messages |-> IF m \in ToSet(queue) THEN "given" ELSE place[m]]

(* A tool batch is over: _flush_steering_queue. *)
BatchEnds(t) ==
    /\ at[t] = "running" /\ t # Compaction /\ t \notin cancelled
    /\ pending = "none" /\ queue # <<>>
    /\ place' = GiveQueued
    /\ queue' = <<>>
    /\ UNCHANGED <<typed, pump, steer, agentVars, panelVars, others>>

\* fault: the flags fall only when the messages have been submitted
FlagsKept(t) == at' = [at EXCEPT ![t] = "ending"] /\ UNCHANGED <<busy, asked, task>>

(* The finally block: its flags, and then its awaits. *)
FlagsFall(t) ==
    /\ busy' = FALSE /\ asked' = FALSE /\ task' = NoTask
    /\ at' = [at EXCEPT ![t] = "ending"]

TurnEnds(t) ==
    /\ at[t] = "running" /\ t # Compaction
    /\ pending = "none"
    /\ FlagsFall(t)
    /\ UNCHANGED <<inputVars, rest, cancelled, escs, panelVars, others>>

(* CancelledError before the try block: no finally, the flags stay. *)
StoppedEarly(t) ==
    /\ at[t] \in {"created", "starting"} /\ t \in cancelled
    /\ at' = [at EXCEPT ![t] = "none"]
    /\ cancelled' = cancelled \ {t}
    /\ place' = IF t = Compaction THEN place ELSE [place EXCEPT ![t] = "stopped"]
    /\ UNCHANGED <<typed, queue, pump, steer, busy, asked, task, rest, escs, panelVars, others>>

\* fault: nobody looks at the queue when the turn is over
NotDrained == <<>>

(* drain_steering_queue *)
Drained == queue

(* After the block: a cancelled turn raises, any other drains the queue.    *)
TurnOver(t) ==
    /\ at[t] = "ending"
    /\ IF t \in cancelled \/ Drained = <<>>
       THEN /\ at' = [at EXCEPT ![t] = "none"]
            /\ cancelled' = cancelled \ {t}
            /\ UNCHANGED <<queue, rest>>
       ELSE /\ at' = [at EXCEPT ![t] = "draining"]
            /\ rest' = [rest EXCEPT ![t] = Drained]
            /\ queue' = <<>>
            /\ UNCHANGED cancelled
    /\ UNCHANGED <<typed, place, pump, steer, busy, asked, task, escs, panelVars, others>>

SubmitDrained(t) ==
    /\ at[t] = "draining"
    /\ at' = [at EXCEPT ![t] = "mounting"]
    /\ place' = [place EXCEPT ![Head(rest[t])] = "mounting"]
    /\ steer' = FALSE
    /\ UNCHANGED <<typed, queue, pump, busy, asked, task, rest, cancelled, escs,
                   panelVars, others>>

DrainedMounted(t) ==
    LET m == Head(rest[t])
    IN  /\ at[t] = "mounting"
        /\ StartTurn(m)
        /\ rest' = [rest EXCEPT ![t] = Tail(@)]
        /\ at' = [u \in Tasks |->
                     CASE u = t -> IF Len(rest[t]) = 1 THEN "none" ELSE "draining"
                       [] u = m /\ ~busy -> "created"
                       [] OTHER -> at[u]]
        /\ UNCHANGED <<typed, queue, pump, steer, busy, asked, cancelled, escs,
                       panelVars, others>>

-----------------------------------------------------------------------------
(* /compact: _compact_history, _run_compact *)

\* fault: whether the agent runs is not asked
MayAlways == TRUE

MayCompact == ~busy

Compact ==
    /\ InputShown /\ NoGap /\ Count
    /\ MayCompact
    /\ pump' = [Idle EXCEPT !.does = "compact"]
    /\ UNCHANGED <<typed, place, queue, steer, agentVars, panelVars>>

CompactMounted ==
    /\ pump.does = "compact" /\ at[Compaction] = "none"
    /\ pump' = Idle
    /\ task' = Compaction
    /\ at' = [at EXCEPT ![Compaction] = "created"]
    /\ UNCHANGED <<typed, place, queue, steer, busy, asked, rest, cancelled, escs,
                   panelVars, others>>

(* Its finally block has no awaits and drains nothing. *)
CompactEnds ==
    /\ at[Compaction] = "running"
    /\ at' = [at EXCEPT ![Compaction] = "none"]
    /\ cancelled' = cancelled \ {Compaction}
    /\ busy' = FALSE /\ task' = NoTask
    /\ UNCHANGED <<inputVars, asked, rest, escs, panelVars, others>>

-----------------------------------------------------------------------------
(* Esc: action_interrupt, _interrupt_agent_loop *)

(* The pending prompt is answered no. *)
Interrupt ==
    /\ current = "input"
    /\ busy /\ ~asked
    /\ asked' = TRUE
    /\ pending' = "none"
    /\ panels' = {}
    /\ UNCHANGED current
    /\ IF task # NoTask /\ at[task] # "none"
       THEN /\ cancelled' = cancelled \union {task}
            /\ escs' = escs \union {[at |-> "cancelling", on |-> task]}
       ELSE /\ escs' = escs \union {[at |-> "settling", on |-> NoTask]}
            /\ UNCHANGED cancelled
    /\ UNCHANGED <<inputVars, busy, task, at, rest, others>>

TaskOver(w) ==
    /\ w \in escs /\ w.at = "cancelling" /\ at[w.on] = "none"
    /\ escs' = (escs \ {w}) \union {[at |-> "settling", on |-> NoTask]}
    /\ UNCHANGED <<inputVars, busy, asked, task, at, rest, cancelled, panelVars, others>>

InterruptSettles(w) ==
    /\ w \in escs /\ w.at = "settling"
    /\ busy' = FALSE
    /\ escs' = (escs \ {w}) \union {[w EXCEPT !.at = "clearing"]}
    /\ UNCHANGED <<inputVars, asked, task, at, rest, cancelled, panelVars, others>>

InterruptOver(w) ==
    /\ w \in escs /\ w.at = "clearing"
    /\ asked' = FALSE
    /\ escs' = escs \ {w}
    /\ UNCHANGED <<inputVars, busy, task, at, rest, cancelled, panelVars, others>>
-----------------------------------------------------------------------------
(* The bottom container: prompts, settings and pickers, the rewind panel.  *)

(* _switch_from_input mounts over whatever is there. *)
Show(panel) ==
    /\ current' = panel
    /\ panels' = panels \union {panel}

\* fault: the panel is still believed to be there
PanelsGone == panels' = {} /\ UNCHANGED current

(* _switch_to_input_app removes every panel. *)
ShowInput == current' = "input" /\ panels' = {}

(* A tool asks, behind _user_interaction_lock. *)
AskPrompt(t, kind) ==
    /\ at[t] = "running" /\ t # Compaction /\ t \notin cancelled
    /\ pending = "none"
    /\ pending' = kind
    /\ Show(kind)
    /\ UNCHANGED <<inputVars, agentVars, others>>

(* An option of the prompt, or Esc at it. *)
Answer ==
    /\ pending \in panels
    /\ pending' = "none"
    /\ ShowInput
    /\ UNCHANGED <<inputVars, agentVars, others>>

(* /config, /voice, /model, /resume: a notice is mounted first. *)
OpenSettings ==
    /\ InputShown /\ Count
    /\ pump' = [Idle EXCEPT !.does = "panel"]
    /\ UNCHANGED <<typed, place, queue, steer, agentVars, panelVars>>

SettingsMounted ==
    /\ pump.does = "panel"
    /\ pump' = Idle
    /\ Show("settings")
    /\ UNCHANGED <<typed, place, queue, steer, agentVars, pending, others>>

(* Closed by Esc, by a key or with the mouse, under another panel too. *)
CloseSettings ==
    /\ "settings" \in panels /\ pump = Idle
    /\ ShowInput
    /\ UNCHANGED <<inputVars, agentVars, pending, others>>

OpenRewind ==
    /\ current \in {"input", "settings"} /\ pump = Idle /\ NoGap /\ Count
    /\ ~busy
    /\ Show("rewind")
    /\ UNCHANGED <<inputVars, agentVars, pending>>

ExitRewind ==
    /\ current = "rewind"
    /\ ShowInput
    /\ UNCHANGED <<inputVars, agentVars, pending, others>>

(* _execute_rewind awaits the rewind manager; a closed batch makes the next *)
(* message a steering message.                                              *)
ExecuteRewind ==
    /\ "rewind" \in panels /\ pump = Idle
    /\ pump' = [Idle EXCEPT !.does = "rewind"]
    /\ UNCHANGED <<typed, place, queue, steer, agentVars, panelVars, others>>

RewindDone(steering) ==
    /\ pump.does = "rewind"
    /\ pump' = Idle
    /\ steer' = steering
    /\ ShowInput
    /\ UNCHANGED <<typed, place, queue, agentVars, pending, others>>

RewindRefused ==
    /\ pump.does = "rewind"
    /\ pump' = Idle
    /\ UNCHANGED <<typed, place, queue, steer, agentVars, panelVars, others>>

-----------------------------------------------------------------------------
(* What goes on by itself. *)
TaskStep ==
    \/ \E t \in Tasks : TurnStarts(t) \/ StoppedEarly(t)
    \/ \E m \in Messages : TurnActs(m) \/ TurnEnds(m) \/ TurnOver(m)
                           \/ SubmitDrained(m) \/ DrainedMounted(m)
    \/ CompactEnds

EscStep == \E w \in escs : TaskOver(w) \/ InterruptSettles(w) \/ InterruptOver(w)

PumpStep ==
    \/ SubmitMounted \/ CompactMounted \/ SettingsMounted
    \/ RewindRefused \/ \E steering \in BOOLEAN : RewindDone(steering)

PersonStep ==
    \/ Queue \/ Submit \/ Compact \/ Interrupt \/ Answer
    \/ OpenSettings \/ CloseSettings \/ OpenRewind \/ ExitRewind \/ ExecuteRewind

AgentStep ==
    \E m \in Messages : BatchEnds(m) \/ \E kind \in Prompts : AskPrompt(m, kind)

Next == TaskStep \/ EscStep \/ PumpStep \/ PersonStep \/ AgentStep

(* Tasks, handlers and workers go on; turns end (TurnLoop's TurnEnds). The  *)
(* person need do nothing.                                                  *)
Spec == Init /\ [][Next]_vars
             /\ \A m \in Messages : SF_vars(TurnEnds(m))
             /\ WF_vars(TaskStep) /\ WF_vars(EscStep) /\ WF_vars(PumpStep)

-----------------------------------------------------------------------------
(* No message is thrown away: whatever was typed is being shown, queued,    *)
(* about to be sent, or was given to the model, and only Esc before its     *)
(* turn had begun takes it back. The one that breaks it finds a turn        *)
(* running when its bubble is mounted.                                      *)
NothingLost == \A m \in Messages : place[m] # "dropped"

(* At most one turn or compaction runs, it is the one Esc would cancel, and *)
(* Esc is listened to, or has just been.                                    *)
EscReachesTask ==
    \A t \in Tasks : InFlight(t) =>
        /\ busy /\ task = t
        /\ asked => t \in cancelled

(* A tool that waits for the person never waits for ever: its prompt is on  *)
(* screen, or a panel that Esc closes is, or Esc stops the turn.            *)
PromptAnswerable ==
    pending # "none" =>
        \/ pending \in panels
        \/ current \in panels
        \/ current = "input" /\ busy /\ ~asked

(* "will be added after the current tool calls finish": what was queued in  *)
(* a turn is given to the model, if prompts are answered and the turn is    *)
(* not interrupted, also when the turn ends without another tool call.      *)
Interrupted == escs # {}
QueuedArrives ==
    []<>(pending = "none") =>
        \A m \in Messages :
           (place[m] = "queue" /\ \E t \in Messages : at[t] = "running")
              ~> (place[m] = "given" \/ Interrupted)

(* An interrupt comes to its end: the next Esc is listened to. *)
EscSettles == asked ~> ~asked
=============================================================================
