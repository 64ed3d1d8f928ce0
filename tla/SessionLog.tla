----------------------------- MODULE SessionLog -----------------------------
(***************************************************************************)
(* How a conversation reaches its session directory and comes back         *)
(* (privibe/core/session/session_logger.py, session_loader.py, and what    *)
(* ConversationList.restore, compact(), rewind and /clear do to it).       *)
(*                                                                         *)
(* A session directory holds messages.jsonl (append-only), meta.json and   *)
(* base.json (both replaced in one step). Saves are cut at their awaits: a *)
(* save of the running turn and one of a mode switch compete for the save  *)
(* lock, a cancellation or an I/O error can end a save at any await, and   *)
(* the process can die anywhere.                                           *)
(***************************************************************************)
EXTENDS Naturals, Sequences, FiniteSets

CONSTANTS
    ToolSets,     \* tool arrays that may be live, one at a time
    Mishaps,      \* which of MishapKinds this instance admits
    MaxDirs, MaxEntries, MaxEnds  \* bounds of the instance: session
                                  \* directories, messages, process ends

(* What can go wrong around a save, each at any time.                      *)
(*   cancelled       a save is cancelled, or its I/O fails                 *)
(*   died            the process ends and another one starts               *)
(*   torn            ... in the middle of writing a line                   *)
(*   baseless        a session is resumed that sent requests and has no      *)
(*                   base.json                                             *)
(*   count_failed    compaction fails after it dropped the conversation    *)
(*   switch_raced    a mode switch saves while the session is replaced     *)
(*   write_up_cut    a write-up call is interrupted                        *)
MishapKinds ==
    {"cancelled", "died", "torn", "baseless", "count_failed", "switch_raced",
     "write_up_cut"}

ASSUME LogConstantsAssumption ==
    /\ ToolSets # {} /\ ToolSets \subseteq Nat \ {0}
    /\ Mishaps \subseteq MishapKinds
    /\ MaxDirs \in Nat \ {0} /\ MaxEntries \in Nat /\ MaxEnds \in Nat

-----------------------------------------------------------------------------
Dirs == 1..MaxDirs
Savers == {"turn", "switch"}

(* A message of the conversation (the system message apart), and what a    *)
(* line of messages.jsonl may be.                                          *)
Entry == [id : Nat, kind : {"msg", "warn", "refresh"}]
Torn == [id |-> 0, kind |-> "torn"]

Missing == [there |-> FALSE, value |-> 0]
Holding(n) == [there |-> TRUE, value |-> n]
Slot == [there : BOOLEAN, value : Nat]

Last(ms) == ms[Len(ms)]

WithoutLast(kind, ms) ==
    IF ms # <<>> /\ Last(ms).kind = kind THEN SubSeq(ms, 1, Len(ms) - 1) ELSE ms

VARIABLES
    mem,      \* the conversation in memory, message 0 apart
    dir,      \* SessionLogger.session_dir
    made,     \* the session directories that exist on disk
    disk,     \* per directory: lines of messages.jsonl, total_messages of
              \* meta.json, tools of base.json
    cached,   \* _persisted_count and _persisted_count_dir
    saver,    \* per save: where it stands, what it counted and has yet to write
    op,       \* rewind, /clear or compact() in progress
    tools,    \* ConversationList._tools; 0 is None
    live,     \* the tools the tool manager has right now
    entries,  \* messages made so far
    ends,     \* process ends so far, bounded by MaxEnds
    sent      \* history: per session, the tool arrays its requests carried

logVars == <<mem, dir, made, disk, cached, saver, op, tools, live, entries, ends, sent>>

NoCount == [known |-> FALSE, n |-> 0, of |-> 1]
Idle == [at |-> "off", count |-> 0, rest |-> <<>>, total |-> 0, into |-> 1, frozen |-> 0]
NoOp == [at |-> "none", keep |-> 0]
EmptyDir == [lines |-> <<>>, meta |-> Missing, base |-> Missing]

TypeOK ==
    /\ mem \in Seq(Entry)
    /\ dir \in Dirs /\ made \subseteq Dirs
    /\ disk \in [Dirs -> [lines : Seq(Entry \union {Torn}), meta : Slot, base : Slot]]
    /\ cached \in [known : BOOLEAN, n : Nat, of : Dirs]
    /\ saver \in [Savers -> [at : {"off", "wait", "meta", "append", "meta_write", "base_write"},
                             count : Nat, rest : Seq(Entry), total : Nat, into : Dirs,
                             frozen : Nat]]
    /\ op \in [at : {"none", "rewind", "compact", "asking", "counting"}, keep : Nat]
    /\ tools \in ToolSets \union {0} /\ live \in ToolSets
    /\ entries \in Nat /\ ends \in Nat
    /\ sent \in [Dirs -> SUBSET ToolSets]

Init ==
    /\ mem = <<>>
    /\ dir = 1 /\ made = {}
    /\ disk = [d \in Dirs |-> EmptyDir]
    /\ cached = NoCount
    /\ saver = [s \in Savers |-> Idle]
    /\ op = NoOp
    /\ tools = 0 /\ live \in ToolSets
    /\ entries = 0 /\ ends = 0
    /\ sent = [d \in Dirs |-> {}]

-----------------------------------------------------------------------------
(* The conversation moves on. *)

Fresh(kind) == [id |-> entries + 1, kind |-> kind]

Turning == op.at = "none"

(* The next prompt; act() first pops a write-up request off the tail.      *)
TakePrompt ==
    /\ Turning
    /\ saver["turn"].at = "off"
    /\ entries < MaxEntries
    /\ mem' = Append(WithoutLast("warn", mem), Fresh("msg"))
    /\ entries' = entries + 1
    /\ UNCHANGED <<dir, made, disk, cached, saver, op, tools, live, ends, sent>>

(* A reply, or the response of a tool, which may arrive during a save.     *)
AddMessage ==
    /\ Turning
    /\ mem # <<>> /\ Last(mem).kind # "warn"
    /\ entries < MaxEntries
    /\ mem' = Append(mem, Fresh("msg"))
    /\ entries' = entries + 1
    /\ UNCHANGED <<dir, made, disk, cached, saver, op, tools, live, ends, sent>>

(* The step budget's write-up request, whose call is then interrupted.     *)
AddWarning ==
    /\ "write_up_cut" \in Mishaps
    /\ Turning
    /\ saver["turn"].at = "off"
    /\ mem # <<>> /\ Last(mem).kind # "warn"
    /\ entries < MaxEntries
    /\ mem' = Append(mem, Fresh("warn"))
    /\ entries' = entries + 1
    /\ UNCHANGED <<dir, made, disk, cached, saver, op, tools, live, ends, sent>>

(* tools_for_request: the first request freezes the live tools. *)
Frozen == IF tools = 0 THEN live ELSE tools

SendRequest ==
    /\ Turning
    /\ saver["turn"].at = "off"
    /\ mem # <<>>
    /\ tools' = Frozen
    /\ sent' = [sent EXCEPT ![dir] = @ \union {Frozen}]
    /\ UNCHANGED <<mem, dir, made, disk, cached, saver, op, live, entries, ends>>

(* MCP servers come and go. *)
ToolsChange ==
    /\ \E t \in ToolSets : live' = t
    /\ UNCHANGED <<mem, dir, made, disk, cached, saver, op, tools, entries, ends, sent>>

-----------------------------------------------------------------------------
(* save_interaction *)

(* A rewind goes on without an await once its save is done. *)
Continuing == op.at = "rewind" /\ saver["turn"].at = "off"

Locked == \E s \in Savers : saver[s].at \notin {"off", "wait"}

(* Nothing is saved before there is a message. *)
AskForSave(s) ==
    /\ saver[s].at = "off"
    /\ mem # <<>>
    /\ s = "turn" => Turning
    /\ saver' = [saver EXCEPT ![s] = [Idle EXCEPT !.at = "wait", !.into = dir]]
    /\ UNCHANGED <<mem, dir, made, disk, cached, op, tools, live, entries, ends, sent>>

\* fault: meta.json's total is believed
CountOfMeta == IF disk[dir].meta.there THEN disk[dir].meta.value ELSE Len(disk[dir].lines)

(* _count_persisted_messages *)
CountOnDisk == Len(disk[dir].lines)

(* _persisted_message_count *)
PersistedCount == IF cached.known /\ cached.of = dir THEN cached.n ELSE CountOnDisk

\* fault: the cached count outlives a failed append
CountKept(counted) == counted

WhileAppending(counted) == [counted EXCEPT !.known = FALSE]

(* What is to be appended after the first n messages, if anything is to be *)
(* done at all; the cached count is unknown until the append has landed.   *)
BeginAppend(s, n, reconcile, counted) ==
    LET rest == SubSeq(mem, n + 1, Len(mem))
    IN  IF rest = <<>> /\ ~reconcile
        THEN /\ saver' = [saver EXCEPT ![s] = Idle]
             /\ cached' = counted
        ELSE /\ saver' = [saver EXCEPT ![s] = [Idle EXCEPT !.at = "append", !.count = n,
                                   !.rest = rest, !.total = Len(mem), !.into = dir]]
             /\ cached' = WhileAppending(counted)

(* The lock is free: the directory is made, the lines are counted. Without *)
(* a meta.json there is nothing to wait for before the append.             *)
EnterSave(s) ==
    /\ saver[s].at = "wait"
    /\ ~Locked /\ ~Continuing
    /\ made' = made \union {dir}
    /\ LET n == PersistedCount
           counted == [known |-> TRUE, n |-> n, of |-> dir]
       IN  IF disk[dir].meta.there
           THEN /\ saver' = [saver EXCEPT ![s] = [Idle EXCEPT !.at = "meta", !.count = n,
                                                              !.into = dir]]
                /\ cached' = counted
           ELSE BeginAppend(s, n, FALSE, counted)
    /\ UNCHANGED <<mem, dir, disk, op, tools, live, entries, ends, sent>>

(* meta.json was read: a total that differs is put right by this save.     *)
ReadMeta(s) ==
    /\ saver[s].at = "meta"
    /\ BeginAppend(s, saver[s].count,
                   disk[saver[s].into].meta.value # saver[s].count, cached)
    /\ UNCHANGED <<mem, dir, made, disk, op, tools, live, entries, ends, sent>>

AppendLine(s) ==
    /\ saver[s].at = "append"
    /\ saver[s].rest # <<>>
    /\ saver[s].into \in made
    /\ disk' = [disk EXCEPT ![saver[s].into].lines = Append(@, Head(saver[s].rest))]
    /\ saver' = [saver EXCEPT ![s].rest = Tail(@), ![s].count = @ + 1]
    /\ UNCHANGED <<mem, dir, made, cached, op, tools, live, entries, ends, sent>>

(* The append has landed; from here the session directory is asked for     *)
(* again.                                                                  *)
AppendDone(s) ==
    /\ saver[s].at = "append"
    /\ saver[s].rest = <<>>
    /\ saver[s].into \in made
    /\ cached' = [known |-> TRUE, n |-> saver[s].count, of |-> dir]
    /\ saver' = [saver EXCEPT ![s].at = "meta_write", ![s].into = dir, ![s].frozen = tools]
    /\ UNCHANGED <<mem, dir, made, disk, op, tools, live, entries, ends, sent>>

WriteMeta(s) ==
    /\ saver[s].at = "meta_write"
    /\ saver[s].into \in made
    /\ disk' = [disk EXCEPT ![saver[s].into].meta = Holding(saver[s].total)]
    /\ saver' = [saver EXCEPT ![s] =
                    IF @.frozen = 0 \/ disk[dir].base.there THEN Idle
                    ELSE [@ EXCEPT !.at = "base_write", !.into = dir]]
    /\ UNCHANGED <<mem, dir, made, cached, op, tools, live, entries, ends, sent>>

(* persist_base, reached only while there is no base.json. *)
WriteBase(s) ==
    /\ saver[s].at = "base_write"
    /\ saver[s].into \in made
    /\ disk' = [disk EXCEPT ![saver[s].into].base = Holding(saver[s].frozen)]
    /\ saver' = [saver EXCEPT ![s] = Idle]
    /\ UNCHANGED <<mem, dir, made, cached, op, tools, live, entries, ends, sent>>

(* A save is cancelled or raises (a session directory that was never made  *)
(* among the reasons); what waited for the turn's save goes down with it.  *)
SaveFails(s) ==
    /\ saver[s].at # "off"
    /\ \/ "cancelled" \in Mishaps
       \/ saver[s].at \in {"append", "meta_write", "base_write"} /\ saver[s].into \notin made
    /\ saver' = [saver EXCEPT ![s] = Idle]
    /\ op' = IF s = "turn" THEN NoOp ELSE op
    /\ UNCHANGED <<mem, dir, made, disk, cached, tools, live, entries, ends, sent>>

-----------------------------------------------------------------------------
(* Operations that leave the session directory for another. *)

NewDir(d) ==
    LET free == {e \in Dirs \ (made \union {dir}) : sent[e] = {}}
    IN  d \in free /\ \A e \in free : d <= e

(* Unless a race is admitted, no mode switch is in the middle of a save.   *)
SwitchQuiet == "switch_raced" \in Mishaps \/ saver["switch"].at \in {"off", "wait"}

\* fault: a rewind cuts without saving first
RewindUnsaved == Idle

(* What a rewind starts with: the turn's save, behind whoever has the lock. *)
RewindSave == [Idle EXCEPT !.at = "wait"]

(* rewind (to any message) and /clear (to none): save first. *)
BeginRewind(keep) ==
    /\ Turning
    /\ saver["turn"].at = "off"
    /\ mem # <<>>
    /\ op' = [at |-> "rewind", keep |-> keep]
    /\ saver' = [saver EXCEPT !["turn"] = RewindSave]
    /\ UNCHANGED <<mem, dir, made, disk, cached, tools, live, entries, ends, sent>>

(* _truncate_to after its save: cut, and fork into a new session.          *)
EndRewind ==
    /\ Continuing
    /\ mem' = SubSeq(mem, 1, op.keep)
    /\ \E d \in Dirs : NewDir(d) /\ dir' = d
    /\ cached' = NoCount
    /\ op' = NoOp
    /\ UNCHANGED <<made, disk, saver, tools, live, entries, ends, sent>>

BeginCompact ==
    /\ Turning
    /\ saver["turn"].at = "off"
    /\ mem # <<>>
    /\ op' = [NoOp EXCEPT !.at = "compact"]
    /\ saver' = [saver EXCEPT !["turn"] = [Idle EXCEPT !.at = "wait"]]
    /\ UNCHANGED <<mem, dir, made, disk, cached, tools, live, entries, ends, sent>>

(* The request for a summary is a message of the conversation, unseen.     *)
AskForSummary ==
    /\ op.at = "compact"
    /\ saver["turn"].at = "off"
    /\ entries < MaxEntries
    /\ mem' = Append(mem, Fresh("msg"))
    /\ entries' = entries + 1
    /\ tools' = Frozen
    /\ sent' = [sent EXCEPT ![dir] = @ \union {Frozen}]
    /\ op' = [NoOp EXCEPT !.at = "asking"]
    /\ UNCHANGED <<dir, made, disk, cached, saver, live, ends>>

SummaryArrives ==
    /\ op.at = "asking"
    /\ entries < MaxEntries
    /\ mem' = <<Fresh("msg")>>
    /\ entries' = entries + 1
    /\ op' = [NoOp EXCEPT !.at = "counting"]
    /\ UNCHANGED <<dir, made, disk, cached, saver, tools, live, ends, sent>>

(* The size is known: _reset_session, then the first save of the new one.  *)
EndCompact ==
    /\ op.at = "counting"
    /\ SwitchQuiet
    /\ \E d \in Dirs : NewDir(d) /\ dir' = d
    /\ cached' = NoCount
    /\ op' = NoOp
    /\ saver' = [saver EXCEPT !["turn"] = [Idle EXCEPT !.at = "wait"]]
    /\ UNCHANGED <<mem, made, disk, tools, live, entries, ends, sent>>

(* A request of compact() fails (it saves once more) or is interrupted.    *)
CompactFails(saves) ==
    /\ \/ op.at = "asking"
       \/ op.at = "counting" /\ "count_failed" \in Mishaps
    /\ op' = NoOp
    /\ saver' = IF saves THEN [saver EXCEPT !["turn"] = [Idle EXCEPT !.at = "wait"]] ELSE saver
    /\ UNCHANGED <<mem, dir, made, disk, cached, tools, live, entries, ends, sent>>

-----------------------------------------------------------------------------
(* Coming back to a session. *)

\* fault: the lines are not read
ValidUnread(d) == disk[d].meta.there /\ disk[d].lines # <<>>

(* SessionLoader._is_valid_session *)
Valid(d) ==
    /\ disk[d].meta.there
    /\ disk[d].lines # <<>>
    /\ \A i \in 1..Len(disk[d].lines) : disk[d].lines[i] # Torn

\* fault: a resumed session adopts the live tools
ToolsAdopted(d) == 0

(* The tools a session is resumed with: its base.json's, or none yet.      *)
ToolsOnResume(d) == IF disk[d].base.there THEN disk[d].base.value ELSE 0

(* resume_existing_session and ConversationList.restore: the stored        *)
(* messages, less a write-up request or a refresh at the tail, and a new   *)
(* refresh. (The shims for open calls are TurnLoop's.)                     *)
ResumeFrom(d) ==
    /\ Valid(d)
    /\ disk[d].base.there \/ sent[d] = {} \/ "baseless" \in Mishaps
    /\ entries < MaxEntries
    /\ mem' = Append(WithoutLast("refresh", WithoutLast("warn", disk[d].lines)),
                     Fresh("refresh"))
    /\ entries' = entries + 1
    /\ dir' = d
    /\ cached' = NoCount
    /\ tools' = ToolsOnResume(d)

(* /resume in the running process. *)
ResumeHere(d) ==
    /\ Turning
    /\ saver["turn"].at = "off"
    /\ SwitchQuiet
    /\ ResumeFrom(d)
    /\ UNCHANGED <<made, disk, saver, op, live, ends, sent>>

(* The line an append was writing may be left half written. *)
DiskOnDeath ==
    {disk} \union
    {[disk EXCEPT ![saver[s].into].lines = Append(@, Torn)] :
        s \in {t \in Savers : /\ "torn" \in Mishaps
                              /\ saver[t].at = "append" /\ saver[t].rest # <<>>
                              /\ saver[t].into \in made}}

(* The process ends; another one starts on a new session. It may then      *)
(* resume an old one.                                                      *)
Die ==
    /\ "died" \in Mishaps
    /\ ends < MaxEnds
    /\ ends' = ends + 1
    /\ disk' \in DiskOnDeath
    /\ live' \in ToolSets
    /\ \E d \in Dirs : NewDir(d) /\ dir' = d
    /\ mem' = <<>>
    /\ cached' = NoCount
    /\ saver' = [s \in Savers |-> Idle]
    /\ op' = NoOp
    /\ tools' = 0
    /\ UNCHANGED <<made, entries, sent>>

-----------------------------------------------------------------------------
Conversation == TakePrompt \/ AddMessage \/ AddWarning \/ SendRequest \/ ToolsChange
Save(s) ==
    AskForSave(s) \/ EnterSave(s) \/ ReadMeta(s) \/ AppendLine(s) \/ AppendDone(s)
      \/ WriteMeta(s) \/ WriteBase(s) \/ SaveFails(s)
Rewind == EndRewind \/ \E keep \in 0..(Len(mem) - 1) : BeginRewind(keep)
Compact ==
    \/ BeginCompact \/ AskForSummary \/ SummaryArrives \/ EndCompact
    \/ \E saves \in BOOLEAN : CompactFails(saves)

Next ==
    \/ Conversation
    \/ \E s \in Savers : Save(s)
    \/ Rewind
    \/ Compact
    \/ \E d \in Dirs : ResumeHere(d)
    \/ Die

Spec == Init /\ [][Next]_logVars

-----------------------------------------------------------------------------
(* Safety.                                                                 *)

(* A line stands for a message. A refresh is made anew on every resume, so *)
(* any refresh stands for any other.                                       *)
StandsFor(line, m) == line = m \/ (line.kind = "refresh" /\ m.kind = "refresh")

(* messages.jsonl is what the conversation begins with: no message is      *)
(* missing before one that is there, none is there twice, none is of       *)
(* another conversation. It is what makes "append from the line count on"  *)
(* right, after any cancelled save, death, rewind, compaction or resume.   *)
(* (Between the summary and the new session, memory is ahead of the file.) *)
DiskIsPrefix ==
    op.at # "counting" =>
      LET lines == disk[dir].lines
      IN  /\ Len(lines) <= Len(mem)
          /\ \A i \in 1..Len(lines) : StandsFor(lines[i], mem[i])

(* "Cached line count of messages.jsonl, valid only for the directory it   *)
(* was taken in": a count that is held is the count of its file.           *)
CountIsOfItsFile ==
    cached.known => cached.n = Len(disk[cached.of].lines)

(* The tools array is part of the cached prefix and "may never change      *)
(* after first use": every request a session ever sends carries the same   *)
(* one, also after it was saved, left and resumed in another process.      *)
PrefixStable == \A d \in Dirs : Cardinality(sent[d]) <= 1

(* A session that was rewound, compacted or cleared away from, or left by  *)
(* a resume, stays on disk as it was: no late save writes into it.         *)
LeftSessionsRest ==
    [][\A d \in Dirs : (d # dir /\ d # dir') => disk'[d] = disk[d]]_logVars
=============================================================================
