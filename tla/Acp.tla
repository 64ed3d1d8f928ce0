---------------------------------- MODULE Acp ----------------------------------
(***************************************************************************)
(* The server an editor talks to over the Agent Client Protocol            *)
(* (privibe/acp/acp_agent_loop.py): sessions, prompts, cancellation, modes *)
(* and the permission requests of a running turn.                          *)
(*                                                                         *)
(* Every request of the editor is handled in a coroutine of its own; an    *)
(* action is what one of them does between two awaits. A turn is a task    *)
(* beside the handler of its prompt (AgentLoop.act; see TurnLoop).         *)
(***************************************************************************)
EXTENDS Naturals, FiniteSets

CONSTANTS
    MaxDirs,     \* bound: stored sessions; one is known by its number
    MaxLoops,    \* bound: agent loops made in this process
    MaxPrompts,  \* bound: prompts
    MaxModes,    \* bound: mode changes
    Races        \* what this editor does, out of RaceKinds

(* hasty:     prompts a session before it has the answer of the prompt it   *)
(*            has cancelled there.                                         *)
(* reload:    loads a session in which a prompt is in progress.            *)
(* compacted: loads the stored session an open one continued in after a    *)
(*            compaction.                                                  *)
RaceKinds == {"hasty", "reload", "compacted"}

ASSUME AcpAssumption ==
    /\ MaxDirs \in Nat /\ MaxLoops \in Nat /\ MaxPrompts \in Nat /\ MaxModes \in Nat
    /\ Races \subseteq RaceKinds

VARIABLES
    sessions,    \* VibeAcpAgentLoop.sessions: the loop behind each id
    dir,         \* the stored session each loop's logger writes
    made,        \* stored sessions named so far
    stored,      \* ... of which something is on disk
    mode,        \* each loop's mode, as far as it approves by itself
    callback,    \* the session approval_callback asks for, by its loop
    setting,     \* set_session_mode handlers that await a save
    slot,        \* AcpSessionLoop.task, by its loop
    at,          \* where the turn of each prompt stands
    target,      \* the session id each prompt names
    on,          \* the loop its turn runs on
    cancelled,   \* turns whose task was cancelled
    wanted,      \* prompts the editor has cancelled
    modes        \* counts mode changes

sessionVars == <<sessions, dir, made, stored>>
modeVars == <<mode, callback, setting, modes>>
turnVars == <<slot, at, target, on, cancelled, wanted>>
vars == <<sessionVars, modeVars, turnVars>>

Ids == 1..MaxDirs
Loops == 1..MaxLoops
Prompts == 1..MaxPrompts
None == 0
Perms == {"plain", "escalated"}
InTurn == {"created", "running", "asking"}

TypeOK ==
    /\ made \in 0..MaxDirs /\ stored \subseteq 1..made
    /\ sessions \in [Ids -> Loops \union {None}]
    /\ dir \in [Loops -> 0..made]
    /\ \A i \in Ids : sessions[i] # None => dir[sessions[i]] # None
    /\ mode \in [Loops -> {"default", "auto"}]
    /\ callback \in [Loops -> Loops \union {None}]
    /\ Races = {} => \A p \in Prompts :
          at[p] \in InTurn => callback[on[p]] \in {on[p], None}
    /\ setting \subseteq [id : Ids, loop : Loops] /\ modes \in 0..MaxModes
    /\ slot \in [Loops -> Prompts \union {None}]
    /\ \A k \in Loops : slot[k] # None =>
          on[slot[k]] = k /\ slot[k] \notin cancelled /\ at[slot[k]] \in InTurn \union {"over"}
    /\ at \in [Prompts -> InTurn \union {"none", "over", "answered"}]
    /\ target \in [Prompts -> 0..MaxDirs] /\ on \in [Prompts -> Loops \union {None}]
    /\ \A p \in Prompts : at[p] = "none" \/ on[p] # None
    /\ cancelled \subseteq Prompts /\ wanted \subseteq Prompts

Init ==
    /\ sessions = [i \in Ids |-> None] /\ dir = [k \in Loops |-> None]
    /\ made = 0 /\ stored = {}
    /\ mode = [k \in Loops |-> "default"] /\ callback = [k \in Loops |-> None]
    /\ setting = {} /\ modes = 0
    /\ slot = [k \in Loops |-> None] /\ at = [p \in Prompts |-> "none"]
    /\ target = [p \in Prompts |-> None] /\ on = [p \in Prompts |-> None]
    /\ cancelled = {} /\ wanted = {}

(* Accepted and not yet answered. *)
Outstanding(i) == {p \in Prompts : target[p] = i /\ at[p] \in InTurn \union {"over"}}

-----------------------------------------------------------------------------
(* new_session, load_session, _create_acp_session: the id is the logger's   *)
(* at that moment, and stays when a compaction gives the loop another.     *)

Install(id, k) ==
    /\ dir[k] = None /\ \A j \in 1..(k - 1) : dir[j] # None
    /\ dir' = [dir EXCEPT ![k] = id]
    /\ sessions' = [sessions EXCEPT ![id] = k]
    /\ callback' = [callback EXCEPT ![k] = k]

NewSession ==
    /\ made < MaxDirs
    /\ made' = made + 1
    /\ \E k \in Loops : Install(made', k)
    /\ UNCHANGED <<stored, mode, setting, modes, turnVars>>

(* Whatever loop had the id before is left to itself. *)
LoadSession(id) ==
    /\ id \in stored
    /\ "reload" \in Races \/ Outstanding(id) = {}
    /\ "compacted" \in Races
         \/ \A i \in {j \in Ids \ {id} : sessions[j] # None} : dir[sessions[i]] # id
    /\ \E k \in Loops : Install(id, k)
    /\ UNCHANGED <<made, stored, mode, setting, modes, turnVars>>

-----------------------------------------------------------------------------
(* prompt *)

\* fault: a prompt in progress is not looked for
AcceptsAlways(k) == TRUE

(* "Concurrent prompts are not supported yet" *)
Accepts(k) == slot[k] = None

Prompt(id, p) ==
    LET k == sessions[id]
    IN  /\ k # None /\ at[p] = "none" /\ \A q \in 1..(p - 1) : at[q] # "none"
        /\ "hasty" \in Races \/ Outstanding(id) \intersect wanted = {}
        /\ Accepts(k)
        /\ slot' = [slot EXCEPT ![k] = p]
        /\ at' = [at EXCEPT ![p] = "created"]
        /\ target' = [target EXCEPT ![p] = id]
        /\ on' = [on EXCEPT ![p] = k]
        /\ UNCHANGED <<cancelled, wanted, sessionVars, modeVars>>

\* fault: the prompt is answered and stays in the slot
SlotKept(p) == slot

(* The handler's finally empties the slot, whoever is in it. *)
SlotAfter(p) == [slot EXCEPT ![on[p]] = None]

(* The task is done: the handler answers. *)
Respond(p) ==
    /\ at[p] = "over"
    /\ at' = [at EXCEPT ![p] = "answered"]
    /\ slot' = SlotAfter(p)
    /\ UNCHANGED <<target, on, cancelled, wanted, sessionVars, modeVars>>

\* fault: only the slot is emptied
Stops(p) == {}

(* The task that cancel() stops: one that is done is left alone. *)
Stopped(p) == IF p # None /\ at[p] \in InTurn THEN {p} ELSE {}

(* cancel, a notification. *)
Cancel(id) ==
    LET k == sessions[id]
        p == slot[k]
    IN  /\ k # None /\ Outstanding(id) \ wanted # {}
        /\ wanted' = wanted \union Outstanding(id)
        /\ cancelled' = cancelled \union Stopped(p)
        /\ slot' = IF p # None /\ at[p] \in InTurn THEN [slot EXCEPT ![k] = None] ELSE slot
        /\ UNCHANGED <<at, target, on, sessionVars, modeVars>>

-----------------------------------------------------------------------------
(* A turn, as far as the server takes part: agent_loop_task.               *)

Running(p) == at[p] = "running" /\ p \notin cancelled

TurnStarts(p) ==
    /\ at[p] = "created" /\ p \notin cancelled
    /\ at' = [at EXCEPT ![p] = "running"]
    /\ UNCHANGED <<slot, target, on, cancelled, wanted, sessionVars, modeVars>>

(* It ends or raises. *)
TurnOver(p) ==
    /\ Running(p)
    /\ at' = [at EXCEPT ![p] = "over"]
    /\ UNCHANGED <<slot, target, on, cancelled, wanted, sessionVars, modeVars>>

(* CancelledError has reached its await, and the transcript is closed and   *)
(* saved; until then the turn is in progress.                              *)
Unwound(p) ==
    /\ p \in cancelled /\ at[p] \in InTurn
    /\ at' = [at EXCEPT ![p] = "over"]
    /\ UNCHANGED <<slot, target, on, cancelled, wanted, sessionVars, modeVars>>

Saves(p) ==
    /\ Running(p)
    /\ stored' = stored \union {dir[on[p]]}
    /\ UNCHANGED <<sessions, dir, made, modeVars, turnVars>>

(* compact() goes on in a new stored session, with a new id of its own.    *)
Compacts(p) ==
    /\ Running(p) /\ made < MaxDirs
    /\ made' = made + 1
    /\ stored' = stored \union {dir[on[p]]}
    /\ dir' = [dir EXCEPT ![on[p]] = made']
    /\ UNCHANGED <<sessions, modeVars, turnVars>>

-----------------------------------------------------------------------------
(* Permissions: _should_execute_tool, _ask_approval, and the callback of    *)
(* _create_approval_callback. A call that the mode, a rule or a denial      *)
(* decides changes nothing here, nor does one refused for want of anyone to *)
(* ask; the rules themselves are Approval's.                                *)

ApprovedByMode(k, perm) == mode[k] = "auto" /\ perm # "escalated"

AskEditor(p, perm) ==
    LET c == callback[on[p]]
    IN  /\ Running(p) /\ c # None
        /\ ~ApprovedByMode(on[p], perm)
        /\ ~ApprovedByMode(c, perm)
        /\ at' = [at EXCEPT ![p] = "asking"]
        /\ UNCHANGED <<slot, target, on, cancelled, wanted, sessionVars, modeVars>>

(* A selection, or none: the call is run or not. *)
Answer(p) ==
    /\ at[p] = "asking" /\ p \notin cancelled
    /\ at' = [at EXCEPT ![p] = "running"]
    /\ UNCHANGED <<slot, target, on, cancelled, wanted, sessionVars, modeVars>>

-----------------------------------------------------------------------------
(* set_session_mode, set_config_option: _apply_mode_change                 *)

CallbackOf(k, id) == IF mode[k] = "auto" THEN None ELSE sessions[id]

SetMode(id, m) ==
    LET k == sessions[id]
    IN  /\ k # None /\ modes < MaxModes /\ modes' = modes + 1
        /\ IF m = mode[k]
           THEN /\ callback' = [callback EXCEPT ![k] = CallbackOf(k, id)]
                /\ UNCHANGED <<mode, setting>>
           ELSE /\ mode' = [mode EXCEPT ![k] = m]
                /\ setting' = setting \union {[id |-> id, loop |-> k]}
                /\ UNCHANGED callback
        /\ UNCHANGED <<sessionVars, turnVars>>

(* switch_agent has saved. The session is looked up by its id again. *)
ModeSet(s) ==
    /\ s \in setting
    /\ setting' = setting \ {s}
    /\ callback' = [callback EXCEPT ![s.loop] = CallbackOf(s.loop, s.id)]
    /\ UNCHANGED <<mode, modes, sessionVars, turnVars>>

(* The save failed: the mode has changed, the callback has not. *)
ModeSaveFails(s) ==
    /\ s \in setting
    /\ setting' = setting \ {s}
    /\ UNCHANGED <<mode, callback, modes, sessionVars, turnVars>>

-----------------------------------------------------------------------------
EditorStep ==
    \/ NewSession
    \/ \E id \in Ids : \/ LoadSession(id) \/ Cancel(id)
                       \/ \E p \in Prompts : Prompt(id, p)
                       \/ \E m \in {"default", "auto"} : SetMode(id, m)
    \/ \E p \in Prompts : Answer(p)

TurnStep(p) ==
    \/ TurnOver(p) \/ Saves(p) \/ Compacts(p)
    \/ \E perm \in Perms : AskEditor(p, perm)

ServerStep(p) == TurnStarts(p) \/ Unwound(p) \/ Respond(p)

Next ==
    \/ EditorStep
    \/ \E p \in Prompts : TurnStep(p) \/ ServerStep(p)
    \/ \E s \in setting : ModeSet(s) \/ ModeSaveFails(s)

(* Tasks and handlers go on. A turn need not end by itself, and the editor  *)
(* need not answer anything.                                               *)
Spec == Init /\ [][Next]_vars /\ \A p \in Prompts : WF_vars(ServerStep(p))

-----------------------------------------------------------------------------
(* At most one turn is in progress over a stored session, also while a      *)
(* cancelled one unwinds, after a compaction has moved the session or the   *)
(* editor has loaded it again: two would append to one file by two counts.  *)
OneTurnPerSession ==
    \A p, q \in Prompts :
        p # q /\ at[p] \in InTurn /\ at[q] \in InTurn => dir[on[p]] # dir[on[q]]

(* A prompt the editor has cancelled is answered, whatever its turn waits   *)
(* for: a permission request that is never answered, too.                  *)
CancelAnswered == \A p \in Prompts : p \in wanted ~> at[p] = "answered"
================================================================================
