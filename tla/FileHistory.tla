----------------------------- MODULE FileHistory -----------------------------
(***************************************************************************)
(* Files and the conversation that edits them: the checkpoints a rewind    *)
(* restores (privibe/core/rewind/manager.py), the per-agent undo stack of  *)
(* restore_file (undo_stack.py, tools/builtins/restore_file.py), when the  *)
(* agent loop feeds both, and the rewind panel of the terminal UI that     *)
(* picks a target (cli/textual_ui/app.py, windowing/rewind_targets.py).    *)
(*                                                                         *)
(* Positions are the code's: slot n is the place after the first n         *)
(* messages, message 0 (the system prompt) included.                       *)
(***************************************************************************)
EXTENDS Naturals, Sequences, FiniteSets

CONSTANTS
    Files,        \* canonical paths the tools name
    Contents,     \* what a file may hold
    Absent,       \* ... and that it does not exist
    Oversize,     \* ... of which too large for the undo stack
    MaxVersions,  \* FileUndoStack._max_versions
    Mishaps,      \* which of MishapKinds this instance admits
    MaxMessages, MaxEdits, MaxOutside  \* bounds of the instance

(* What the surroundings do to the files or to a rewind.                    *)
(*   outside      something else writes a file: the person, a shell         *)
(*                command, a sub-agent                                      *)
(*   unreadable   a file exists but cannot be read when its snapshot is     *)
(*                taken                                                     *)
(*   save_fails   the save of a rewind is cancelled or fails                *)
MishapKinds == {"outside", "unreadable", "save_fails"}

ASSUME FilesAssumption ==
    /\ Absent \notin Contents
    /\ Oversize \subseteq Contents
    /\ MaxVersions \in Nat \ {0}
    /\ Mishaps \subseteq MishapKinds
    /\ MaxMessages \in Nat /\ MaxEdits \in Nat /\ MaxOutside \in Nat

-----------------------------------------------------------------------------
Version == Contents \union {Absent}
Disk == [Files -> Version]

(* A message: `run` is a batch whose call left checkpoint rows of an        *)
(* orchestrate run, `warn` whatever a middleware injects in the user role.  *)
Kinds == {"system", "user", "warn", "summary", "text", "call", "run", "tool"}
Message == [kind : Kinds, calls : Nat]
Says(kind) == [kind |-> kind, calls |-> 0]

UserRole(m) == m.kind \in {"user", "warn", "summary"}
MakesCalls(m) == m.kind \in {"call", "run"}

Last(s) == s[Len(s)]
Front(s) == SubSeq(s, 1, Len(s) - 1)

VARIABLES
    msgs,         \* ConversationList._data
    pc,           \* where the agent loop, or a rewind, stands
    editing,      \* the file whose tool is running, if one is
    fs,           \* the files on disk
    checkpoints,  \* RewindManager._checkpoints: slot and known files
    undo,         \* FileUndoStack._stacks
    panel,        \* the rewind panel: target, whether it offers a restore,
                  \* whether a confirmation is pending
    cut,          \* the rewind in progress: its slot, the length it saw
    truth,        \* history: the files when a checkpoint was asked for, by slot
    past,         \* history: per file, what it held before each landed edit
    touched,      \* history: files something else wrote, that were not readable, or
                  \* that a rewind restored before it failed
    blind,        \* history: files restore_file changed behind a checkpoint
                  \* that does not know them
    edits, outsides  \* bounded by MaxEdits and MaxOutside

vars == <<msgs, pc, editing, fs, checkpoints, undo, panel, cut, truth, past,
          touched, blind, edits, outsides>>
files == <<fs, past, touched, blind, edits, outsides>>
rewinding == <<panel, cut>>

Closed == [open |-> FALSE, kind |-> "user", slot |-> 0, offers |-> FALSE, confirming |-> FALSE]
NoCut == [slot |-> 0, seen |-> 0]

(* The variables are typed, and an undo stack is bounded and never holds    *)
(* one content twice in a row.                                              *)
TypeOK ==
    /\ msgs \in Seq(Message)
    /\ pc \in {"idle", "round", "tools", "edit", "cutting"}
    /\ editing \in SUBSET Files /\ Cardinality(editing) <= 1
    /\ fs \in Disk
    /\ \A i \in DOMAIN checkpoints :
          /\ checkpoints[i].slot \in Nat
          /\ DOMAIN checkpoints[i].known \subseteq Files
          /\ \A f \in DOMAIN checkpoints[i].known : checkpoints[i].known[f] \in Version
    /\ undo \in [Files -> Seq(Version \ Oversize)]
    /\ \A f \in Files : /\ Len(undo[f]) <= MaxVersions
                        /\ \A i \in DOMAIN undo[f] : i > 1 => undo[f][i] # undo[f][i - 1]
    /\ panel \in [open : BOOLEAN, kind : {"user", "batch", "inside"}, slot : Nat,
                  offers : BOOLEAN, confirming : BOOLEAN]
    /\ cut \in [slot : Nat, seen : Nat]
    /\ past \in [Files -> Seq(Version)] /\ touched \subseteq Files
    /\ blind \subseteq Files

Init ==
    /\ msgs = <<Says("system")>>
    /\ pc = "idle" /\ editing = {}
    /\ fs \in Disk
    /\ checkpoints = <<>>
    /\ undo = [f \in Files |-> <<>>]
    /\ panel = Closed /\ cut = NoCut
    /\ truth = <<>>
    /\ past = [f \in Files |-> <<>>] /\ touched = {} /\ blind = {}
    /\ edits = 0 /\ outsides = 0

-----------------------------------------------------------------------------
(* Checkpoints. *)

Slot(ms) == Len(ms)

\* fault: a checkpoint is made for every message
NeverThere(slot) == FALSE

HasCheckpointAt(slot) == checkpoints # <<>> /\ Last(checkpoints).slot = slot

\* fault: a new checkpoint takes over what the last one knew
CopiedSnapshots == IF checkpoints = <<>> THEN <<>> ELSE Last(checkpoints).known

(* The files the last checkpoint knows, read again. *)
ReadSnapshots ==
    IF checkpoints = <<>> THEN <<>>
    ELSE [f \in DOMAIN Last(checkpoints).known |-> fs[f]]

(* create_checkpoint, with the conversation at ms: one per slot. *)
CheckpointAt(ms) ==
    /\ checkpoints' = IF HasCheckpointAt(Slot(ms)) THEN checkpoints
                      ELSE Append(checkpoints, [slot |-> Slot(ms), known |-> ReadSnapshots])
    /\ truth' = [n \in (DOMAIN truth) \union {Slot(ms)} |->
                    IF n = Slot(ms) THEN fs ELSE truth[n]]

\* fault: only the newest checkpoint learns of a file
WithSnapshotLast(f, content) ==
    [i \in DOMAIN checkpoints |->
        IF i = Len(checkpoints) /\ f \notin DOMAIN checkpoints[i].known
        THEN [checkpoints[i] EXCEPT !.known =
                 [g \in DOMAIN @ \union {f} |-> IF g = f THEN content ELSE @[g]]]
        ELSE checkpoints[i]]

(* add_snapshot: into every checkpoint that does not have the file yet.     *)
WithSnapshot(f, content) ==
    [i \in DOMAIN checkpoints |->
        IF f \in DOMAIN checkpoints[i].known THEN checkpoints[i]
        ELSE [checkpoints[i] EXCEPT !.known =
                 [g \in DOMAIN @ \union {f} |-> IF g = f THEN content ELSE @[g]]]]

\* fault: an unchanged file is pushed again
CapturedTwice(f, content) ==
    LET pushed == Append(undo[f], content)
    IN  IF content \in Oversize THEN undo
        ELSE [undo EXCEPT ![f] = IF Len(pushed) > MaxVersions THEN Tail(pushed) ELSE pushed]

(* capture: nothing for a file that is there but was not read, nothing too  *)
(* large, nothing twice in a row; the oldest version goes first.            *)
Captured(f, content) ==
    LET pushed == Append(undo[f], content)
    IN  IF \/ content = Absent /\ fs[f] # Absent
           \/ content \in Oversize
           \/ undo[f] # <<>> /\ Last(undo[f]) = content
        THEN undo
        ELSE [undo EXCEPT ![f] = IF Len(pushed) > MaxVersions THEN Tail(pushed) ELSE pushed]

(* What get_file_snapshot_for_path makes of the file. *)
SnapshotOutcomes(f) == {fs[f]} \union IF "unreadable" \in Mishaps THEN {Absent} ELSE {}

-----------------------------------------------------------------------------
(* The conversation: closed batches and their boundaries. *)

(* The call a run of tool messages ending at slot n answers, or 0. *)
CallBefore(ms, n) ==
    LET back == {i \in 1..n : \A j \in i..n : ms[j].kind = "tool"}
        first == IF back = {} THEN n + 1 ELSE CHOOSE i \in back : \A j \in back : i <= j
    IN  IF back # {} /\ first > 1 /\ MakesCalls(ms[first - 1]) THEN first - 1 ELSE 0

\* fault: results are not counted against the calls
BatchAnsweredAt(ms, n) == CallBefore(ms, n) # 0

(* _batch_closed_at *)
BatchClosedAt(ms, n) ==
    CallBefore(ms, n) # 0 /\ ms[CallBefore(ms, n)].calls <= n - CallBefore(ms, n)

(* batch_boundaries *)
Boundaries(ms) ==
    {n \in 2..Len(ms) : /\ ms[n].kind = "tool"
                        /\ n < Len(ms) => ms[n + 1].kind # "tool"
                        /\ BatchClosedAt(ms, n)}

Unanswered(ms) ==
    LET calls == {i \in 1..Len(ms) : MakesCalls(ms[i]) /\ \A j \in (i+1)..Len(ms) : ms[j].kind = "tool"}
    IN  IF calls = {} THEN 0
        ELSE LET i == CHOOSE i \in calls : TRUE IN ms[i].calls - (Len(ms) - i)

Repeat(n, m) == [i \in 1..n |-> m]

(* act(): the tail is repaired, then the checkpoint, then the message.      *)
Prompt ==
    /\ pc = "idle" /\ ~panel.open
    /\ Len(msgs) < MaxMessages
    /\ LET kept == IF Last(msgs).kind = "warn" THEN Front(msgs) ELSE msgs
           whole == kept \o Repeat(Unanswered(kept), Says("tool"))
       IN  /\ CheckpointAt(whole)
           /\ msgs' = Append(whole, Says("user"))
    /\ pc' = "round"
    /\ UNCHANGED <<editing, files, undo, rewinding>>

(* A middleware has something to say before the request. *)
Inject ==
    /\ pc = "round"
    /\ Len(msgs) < MaxMessages /\ Last(msgs).kind # "warn"
    /\ msgs' = Append(msgs, Says("warn"))
    /\ UNCHANGED <<pc, editing, files, checkpoints, undo, rewinding, truth>>

AskTools(kind, n) ==
    /\ pc = "round"
    /\ Len(msgs) < MaxMessages
    /\ msgs' = Append(msgs, [kind |-> kind, calls |-> n])
    /\ pc' = "tools"
    /\ UNCHANGED <<editing, files, checkpoints, undo, rewinding, truth>>

(* The reply is text: the turn ends, or a nudge goes on with it.            *)
Answer(nudged) ==
    /\ pc = "round"
    /\ Len(msgs) < MaxMessages
    /\ LET ms == Append(msgs, Says("text"))
       IN  IF nudged
           THEN /\ CheckpointAt(ms)
                /\ msgs' = Append(ms, Says("user"))
                /\ pc' = "round"
           ELSE /\ msgs' = ms
                /\ pc' = "idle"
                /\ UNCHANGED <<checkpoints, truth>>
    /\ UNCHANGED <<editing, files, undo, rewinding>>

(* A tool that writes no file, or one that is refused, skipped or fails     *)
(* before its snapshot.                                                     *)
OtherTool ==
    /\ pc = "tools"
    /\ Unanswered(msgs) > 0
    /\ msgs' = Append(msgs, Says("tool"))
    /\ UNCHANGED <<pc, editing, files, checkpoints, undo, rewinding, truth>>

(* A file tool is let run: its file's state is kept, then it starts.        *)
StartEdit(f) ==
    /\ pc = "tools"
    /\ Unanswered(msgs) > 0
    /\ edits < MaxEdits
    /\ edits' = edits + 1
    /\ \E content \in SnapshotOutcomes(f) :
          /\ checkpoints' = WithSnapshot(f, content)
          /\ undo' = Captured(f, content)
          /\ touched' = IF content = fs[f] THEN touched ELSE touched \union {f}
    /\ editing' = {f}
    /\ pc' = "edit"
    /\ UNCHANGED <<msgs, fs, rewinding, truth, past, blind, outsides>>

Written(f, content) ==
    /\ fs' = [fs EXCEPT ![f] = content]
    /\ past' = IF content = fs[f] THEN past ELSE [past EXCEPT ![f] = Append(@, fs[f])]

(* It wrote the file, or failed and left it as it was. *)
EndEdit(f, content) ==
    /\ pc = "edit" /\ f \in editing
    /\ content = fs[f] \/ content \in Contents
    /\ Written(f, content)
    /\ msgs' = Append(msgs, Says("tool"))
    /\ editing' = {}
    /\ pc' = "tools"
    /\ UNCHANGED <<checkpoints, undo, rewinding, truth, touched, blind, edits, outsides>>

(* Esc while it runs: the write may have happened, the response may have    *)
(* been recorded.                                                           *)
CutEdit(f, content, answered) ==
    /\ pc = "edit" /\ f \in editing
    /\ content = fs[f] \/ content \in Contents
    /\ Written(f, content)
    /\ msgs' = IF answered THEN Append(msgs, Says("tool")) ELSE msgs
    /\ editing' = {}
    /\ pc' = "idle"
    /\ UNCHANGED <<checkpoints, undo, rewinding, truth, touched, blind, edits, outsides>>

\* fault: the oldest version comes back first
Oldest(f) == undo[f][1]

(* peek: what a restore puts back. *)
Newest(f) == Last(undo[f])

LastAt(s, v) == CHOOSE i \in DOMAIN s : s[i] = v /\ \A j \in DOMAIN s : s[j] = v => j <= i

(* The history of the edits that are not undone yet. *)
PastAfterRestore(f, v) ==
    IF v = fs[f] THEN past[f]
    ELSE IF \E i \in DOMAIN past[f] : past[f][i] = v THEN SubSeq(past[f], 1, LastAt(past[f], v) - 1)
    ELSE past[f]

(* restore_file: refused without a version, and without confirm_delete when *)
(* it would delete.                                                         *)
RestoreFile(f, confirmed) ==
    /\ pc = "tools"
    /\ Unanswered(msgs) > 0
    /\ IF undo[f] = <<>> \/ (Newest(f) = Absent /\ ~confirmed)
       THEN UNCHANGED <<fs, undo, past, blind>>
       ELSE /\ fs' = [fs EXCEPT ![f] = Newest(f)]
            /\ undo' = [undo EXCEPT ![f] = Front(@)]
            /\ past' = [past EXCEPT ![f] = PastAfterRestore(f, Newest(f))]
            /\ blind' = IF \A i \in DOMAIN checkpoints : f \in DOMAIN checkpoints[i].known
                        THEN blind ELSE blind \union {f}
    /\ msgs' = Append(msgs, Says("tool"))
    /\ UNCHANGED <<pc, editing, checkpoints, rewinding, truth, touched, edits, outsides>>

(* The batch is closed: a checkpoint at the boundary, and the steering      *)
(* message that was waiting, if one was, at the same slot.                  *)
CloseBatch(steered) ==
    /\ pc = "tools"
    /\ Unanswered(msgs) = 0
    /\ CheckpointAt(msgs)
    /\ msgs' = IF steered THEN Append(msgs, Says("user")) ELSE msgs
    /\ pc' = "round"
    /\ UNCHANGED <<editing, files, undo, rewinding>>

(* A stop, an error or Esc; also the end of a batch the person backed out   *)
(* of, which has no checkpoint.                                             *)
StopTurn ==
    /\ pc \in {"round", "tools"}
    /\ pc' = "idle"
    /\ UNCHANGED <<msgs, editing, files, checkpoints, undo, rewinding, truth>>

(* /clear, a resume, and compact(), also in the middle of a turn: the       *)
(* reset hooks of the conversation.                                         *)
ResetConversation(kept) ==
    /\ pc = "idle" \/ (pc = "round" /\ kept = <<Says("summary")>>)
    /\ ~panel.open
    /\ Len(msgs) > 1
    /\ msgs' = <<msgs[1]>> \o kept
    /\ checkpoints' = <<>>
    /\ undo' = [f \in Files |-> <<>>]
    /\ truth' = <<>> /\ past' = [f \in Files |-> <<>>] /\ touched' = {} /\ blind' = {}
    /\ UNCHANGED <<pc, editing, fs, edits, outsides, rewinding>>

OutsideEdit(f) ==
    /\ "outside" \in Mishaps
    /\ outsides < MaxOutside
    /\ outsides' = outsides + 1
    /\ \E v \in Version \ {fs[f]} : fs' = [fs EXCEPT ![f] = v]
    /\ touched' = touched \union {f}
    /\ UNCHANGED <<msgs, pc, editing, checkpoints, undo, rewinding, truth, past, blind, edits>>

-----------------------------------------------------------------------------
(* The rewind panel.                                                       *)

CheckpointsAt(slot) == {i \in DOMAIN checkpoints : checkpoints[i].slot = slot}

KnownAt(slot, f) == \E i \in CheckpointsAt(slot) : f \in DOMAIN checkpoints[i].known

(* has_file_changes_at *)
ChangedSince(slot) ==
    \E i \in CheckpointsAt(slot) :
       \E f \in DOMAIN checkpoints[i].known : fs[f] # checkpoints[i].known[f]

(* rewind_targets with the plan of each: prompts, closed batches that are   *)
(* not followed by a user message, and the rows an orchestrate call left    *)
(* (cut before the call, or at the prompt when that is what precedes it).   *)
Target(kind, slot) == [kind |-> kind, slot |-> slot]
Targets ==
    {Target("user", i - 1) : i \in {i \in 1..Len(msgs) : msgs[i].kind = "user"}}
    \union {Target("batch", n) : n \in {n \in Boundaries(msgs) :
                                          n < Len(msgs) => ~UserRole(msgs[n + 1])}}
    \union {IF UserRole(msgs[i - 1]) THEN Target("user", i - 2) ELSE Target("inside", i - 1) :
              i \in {i \in 2..Len(msgs) : msgs[i].kind = "run"}}

(* Entering rewind mode, or moving on to another target; a confirmation     *)
(* that was pending is dropped.                                             *)
SelectTarget(t) ==
    /\ pc = "idle"
    /\ t \in Targets
    /\ panel' = [open |-> TRUE, kind |-> t.kind, slot |-> t.slot,
                 offers |-> t.kind # "inside" /\ ChangedSince(t.slot), confirming |-> FALSE]
    /\ UNCHANGED <<msgs, pc, editing, files, checkpoints, undo, cut, truth>>

(* The option that restores is gated by a typed code. *)
AskConfirm ==
    /\ pc = "idle" /\ panel.open /\ panel.offers /\ ~panel.confirming
    /\ panel' = [panel EXCEPT !.confirming = TRUE]
    /\ UNCHANGED <<msgs, pc, editing, files, checkpoints, undo, cut, truth>>

(* Esc: back to the options, then out of the panel. *)
EscapePanel ==
    /\ pc = "idle" /\ panel.open
    /\ panel' = IF panel.confirming THEN [panel EXCEPT !.confirming = FALSE] ELSE Closed
    /\ UNCHANGED <<msgs, pc, editing, files, checkpoints, undo, cut, truth>>

(* _restore_checkpoint: each file it knows, save those that fail.           *)
Restored(slot, failed) ==
    [f \in Files |->
        IF f \notin failed /\ \E i \in CheckpointsAt(slot) : f \in DOMAIN checkpoints[i].known
        THEN LET i == CHOOSE i \in CheckpointsAt(slot) : \A j \in CheckpointsAt(slot) : i <= j
             IN  IF f \in DOMAIN checkpoints[i].known THEN checkpoints[i].known[f] ELSE fs[f]
        ELSE fs[f]]

(* rewind_to_message takes user messages, rewind_to_index boundaries; with  *)
(* any other slot nothing happens but an error.                             *)
MayCutAt(t) ==
    IF t.kind = "user" THEN t.slot < Len(msgs) /\ UserRole(msgs[t.slot + 1])
    ELSE t.slot \in Boundaries(msgs)

(* _execute_rewind down to the save: files first. *)
BeginRewind(failed) ==
    /\ pc = "idle" /\ panel.open
    /\ MayCutAt(panel)
    /\ fs' = IF panel.confirming THEN Restored(panel.slot, failed) ELSE fs
    /\ cut' = [slot |-> panel.slot, seen |-> Len(msgs)]
    /\ pc' = "cutting"
    /\ UNCHANGED <<msgs, editing, checkpoints, undo, panel, truth, past, touched,
                   blind, edits, outsides>>

(* Those before the slot stay, in their order.                              *)
CheckpointsBefore(slot) ==
    LET before == {i \in DOMAIN checkpoints : checkpoints[i].slot < slot}
        nth(n) == CHOOSE i \in before : Cardinality({j \in before : j <= i}) = n
    IN  [n \in 1..Cardinality(before) |-> checkpoints[nth(n)]]

(* The rest of _truncate_to and of _execute_rewind. *)
EndRewind ==
    /\ pc = "cutting"
    /\ checkpoints' = CheckpointsBefore(cut.slot)
    /\ msgs' = SubSeq(msgs, 1, Len(msgs) - (cut.seen - cut.slot))
    /\ undo' = [f \in Files |-> <<>>]
    /\ truth' = [n \in {n \in DOMAIN truth : n < cut.slot} |-> truth[n]]
    /\ pc' = "idle"
    /\ panel' = Closed /\ cut' = NoCut
    /\ UNCHANGED <<editing, files>>

(* The save raises: the files are back already, the conversation is not.    *)
RewindFails ==
    /\ pc = "cutting"
    /\ "save_fails" \in Mishaps
    /\ pc' = "idle"
    /\ cut' = NoCut
    /\ touched' = touched \union {f \in Files : panel.confirming /\ KnownAt(cut.slot, f)}
    /\ UNCHANGED <<msgs, editing, fs, checkpoints, undo, panel, truth, past, blind, edits, outsides>>

-----------------------------------------------------------------------------
Turn ==
    \/ Prompt \/ Inject \/ StopTurn
    \/ AskTools("run", 1) \/ \E n \in 1..2 : AskTools("call", n)
    \/ \E flag \in BOOLEAN : Answer(flag) \/ CloseBatch(flag)

Tool ==
    \/ OtherTool
    \/ \E f \in Files :
          \/ StartEdit(f)
          \/ \E v \in Version : EndEdit(f, v)
          \/ \E v \in Version, answered \in BOOLEAN : CutEdit(f, v, answered)
          \/ \E confirmed \in BOOLEAN : RestoreFile(f, confirmed)

Panel ==
    \/ \E t \in Targets : SelectTarget(t)
    \/ AskConfirm \/ EscapePanel
    \/ \E failed \in SUBSET Files : BeginRewind(failed)
    \/ EndRewind \/ RewindFails

Next ==
    \/ Turn \/ Tool \/ Panel
    \/ \E kept \in {<<>>, <<Says("summary")>>} : ResetConversation(kept)
    \/ \E f \in Files : OutsideEdit(f)

Spec == Init /\ [][Next]_vars

-----------------------------------------------------------------------------
(* Safety.                                                                 *)

(* What a rewind to the checkpoint would leave on disk. *)
GoesBackTo(cp, f) == IF f \in DOMAIN cp.known THEN cp.known[f] ELSE fs[f]

(* "each checkpoint captures the actual state at that point in time": going *)
(* back to any checkpoint gives every file the content it had when that     *)
(* slot was taken, whatever was edited, failed, undone, interrupted or      *)
(* rewound since, also a file first edited long after. Files that something *)
(* else wrote, or that could not be read, are outside the promise.          *)
RestoreGoesBack ==
    \A i \in DOMAIN checkpoints : \A f \in Files \ (touched \union blind) :
       checkpoints[i].slot \in DOMAIN truth =>
       GoesBackTo(checkpoints[i], f) = truth[checkpoints[i].slot][f]

(* Every prompt, steering message or nudge since the last reset can be      *)
(* rewound to with its files: there is a checkpoint at its slot, and only   *)
(* one, so the lookup by slot cannot find an older one.                     *)
OneCheckpointPerPrompt ==
    /\ \A n \in DOMAIN truth : Cardinality(CheckpointsAt(n)) = 1
    /\ \A i, j \in DOMAIN checkpoints : i < j => checkpoints[i].slot < checkpoints[j].slot
    /\ pc # "cutting" => \A i \in DOMAIN checkpoints : checkpoints[i].slot <= Len(msgs)

(* A rewind leaves no call without its response: it cuts between turns or   *)
(* at a closed batch, never inside one, also when Esc left the last batch   *)
(* answered in part.                                                        *)
RewindKeepsBatchesWhole ==
    [][(pc = "cutting" /\ ~panel'.open) => Unanswered(msgs') = 0]_vars

(* "Revert the file to its state before the most recent recorded edit": a   *)
(* restore_file that changes the file gives it a content it had before an   *)
(* edit that landed and was not undone, and the only contents it held after *)
(* that one are too large to keep, or are what it holds already. (Of the    *)
(* files nothing else wrote.)                                               *)
UndoGoesBackOne ==
    [][\A f \in Files \ touched' :
          (pc = "tools" /\ pc' = "tools" /\ fs'[f] # fs[f])
             => \E i \in DOMAIN past[f] :
                   /\ past[f][i] = fs'[f] /\ fs'[f] \notin Oversize
                   /\ \A j \in DOMAIN past[f] :
                         j > i => past[f][j] \in Oversize \union {fs[f]}]_vars
=============================================================================
