---------------------------- MODULE SessionLogProofs ----------------------------
(***************************************************************************)
(* What a session's files promise, for any number of sessions, messages,   *)
(* tool sets and process ends; each theorem names the mishaps it excludes. *)
(***************************************************************************)
EXTENDS SessionLog, FiniteSetTheorems, SequenceTheorems, TLAPS

Active(s) == saver[s].at \notin {"off", "wait"}

(* One save at a time, into the session that is open; a rewind cuts only    *)
(* when no save is under way.                                              *)
Exclusive == \A s, t \in Savers : Active(s) /\ Active(t) => s = t
IntoOpen == \A s \in Savers : Active(s) => saver[s].into = dir
Paused ==
    /\ op.at = "rewind" /\ saver["turn"].at = "off" => \A s \in Savers : ~Active(s)
    /\ op.at = "rewind" => op.keep <= Len(mem)
    /\ op.at \in {"asking", "counting"} => saver["turn"].at = "off"

(* What a save has counted is what is there until it has appended.          *)
Counted ==
    \A s \in Savers :
        /\ saver[s].at \in {"meta", "append"} => saver[s].count = Len(disk[saver[s].into].lines)
        /\ saver[s].at = "append" => ~cached.known

(* Nothing is in a directory that was never made. *)
Untouched == \A d \in Dirs \ made : disk[d].lines = <<>> /\ ~disk[d].base.there

IInv == TypeOK /\ Exclusive /\ IntoOpen /\ Paused /\ Counted /\ Untouched /\ CountIsOfItsFile

(* A base.json holds a tool array that was live. *)
Bases ==
    /\ \A d \in Dirs : disk[d].base.there => disk[d].base.value \in ToolSets
    /\ \A s \in Savers : /\ saver[s].frozen \in ToolSets \union {0}
                         /\ saver[s].at = "base_write" => saver[s].frozen # 0

(* The tools of a session are those of its requests and of its base.json.   *)
ToolsInv ==
    /\ sent[dir] \subseteq {tools} \ {0}
    /\ \A d \in Dirs : disk[d].base.there => sent[d] \subseteq {disk[d].base.value}
    /\ \A d \in Dirs : \E t \in ToolSets : sent[d] \subseteq {t}
    /\ disk[dir].base.there => disk[dir].base.value = tools
    /\ \A s \in Savers : Active(s) /\ saver[s].frozen # 0 => saver[s].frozen = tools

(* No write-up request is ever cut, so there is none to take back. *)
NoWarning ==
    /\ \A i \in 1..Len(mem) : mem[i].kind # "warn"
    /\ \A d \in Dirs : \A i \in 1..Len(disk[d].lines) : disk[d].lines[i].kind # "warn"
    /\ \A s \in Savers : \A i \in 1..Len(saver[s].rest) : saver[s].rest[i].kind # "warn"

(* What is still to be appended follows in memory what was counted. *)
RestFollows ==
    op.at # "counting" => \A s \in Savers : saver[s].at = "append" =>
        /\ saver[s].count + Len(saver[s].rest) <= Len(mem)
        /\ \A j \in 1..Len(saver[s].rest) : saver[s].rest[j] = mem[saver[s].count + j]

(* With it, the file of the open session is what the conversation begins with. *)
PrefixInv == NoWarning /\ DiskIsPrefix /\ RestFollows
-----------------------------------------------------------------------------
(* The conversation's helpers. *)

SaverStates ==
    [at : {"off", "wait", "meta", "append", "meta_write", "base_write"},
     count : Nat, rest : Seq(Entry), total : Nat, into : Dirs, frozen : Nat]

OpStates == [at : {"none", "rewind", "compact", "asking", "counting"}, keep : Nat]

LEMMA Constants ==
    /\ 1 \in Dirs /\ ToolSets \subseteq Nat /\ 0 \notin ToolSets
    /\ Idle \in SaverStates /\ [Idle EXCEPT !.at = "wait"] \in SaverStates
    /\ [Idle EXCEPT !.at = "wait"].at = "wait"
    /\ NoOp \in OpStates /\ NoOp.at = "none"
    /\ [NoOp EXCEPT !.at = "compact"] \in OpStates /\ [NoOp EXCEPT !.at = "compact"].at = "compact"
<1>1. 1 \in Dirs /\ ToolSets \subseteq Nat /\ 0 \notin ToolSets
  BY LogConstantsAssumption DEF Dirs
<1>2. <<>> \in Seq(Entry)
  OBVIOUS
<1> QED
  BY <1>1, <1>2 DEF Idle, SaverStates, NoOp, OpStates

(* A message made now, and what is left when a last one is taken back.      *)
LEMMA FreshIsEntry == ASSUME TypeOK, NEW kind \in {"msg", "warn", "refresh"} PROVE Fresh(kind) \in Entry
  BY DEF TypeOK, Fresh, Entry

LEMMA WithoutLastIs ==
    ASSUME NEW ms \in Seq(Entry), NEW kind
    PROVE  /\ WithoutLast(kind, ms) \in Seq(Entry)
           /\ Len(WithoutLast(kind, ms)) \in {Len(ms), Len(ms) - 1}
           /\ Len(WithoutLast(kind, ms)) = Len(ms) => WithoutLast(kind, ms) = ms
           /\ Len(WithoutLast(kind, ms)) # Len(ms) => ms # <<>> /\ ms[Len(ms)].kind = kind
           /\ \A i \in 1..Len(WithoutLast(kind, ms)) : WithoutLast(kind, ms)[i] = ms[i]
<1>1. CASE ms # <<>> /\ Last(ms).kind = kind
  <2>1. WithoutLast(kind, ms) = SubSeq(ms, 1, Len(ms) - 1) /\ Len(ms) \in Nat \ {0}
        /\ \A i \in 1..(Len(ms) - 1) : ms[i] \in Entry
    BY <1>1 DEF WithoutLast
  <2>2. /\ SubSeq(ms, 1, Len(ms) - 1) \in Seq(Entry)
        /\ Len(SubSeq(ms, 1, Len(ms) - 1)) = Len(ms) - 1
        /\ \A i \in 1..(Len(ms) - 1) : SubSeq(ms, 1, Len(ms) - 1)[i] = ms[i]
    <3> DEFINE n == Len(ms) - 1
    <3>1. n \in Nat /\ Len(ms) = n + 1
      BY <2>1
    <3>2. \A i \in 1..n : ms[i] \in Entry
      BY <2>1
    <3> HIDE DEF n
    <3>3. /\ SubSeq(ms, 1, n) \in Seq(Entry) /\ Len(SubSeq(ms, 1, n)) = IF 1 <= n THEN n - 1 + 1 ELSE 0
          /\ \A i \in 1..(n - 1 + 1) : SubSeq(ms, 1, n)[i] = ms[1 + i - 1]
      BY <3>1, <3>2, SubSeqProperties
    <3>4. SubSeq(ms, 1, n) \in Seq(Entry) /\ Len(SubSeq(ms, 1, n)) = n
          /\ \A i \in 1..n : SubSeq(ms, 1, n)[i] = ms[i]
      BY <3>1, <3>3
    <3> QED
      BY <3>1, <3>4 DEF n
  <2> QED
    BY <1>1, <2>1, <2>2 DEF Last
<1>2. CASE ~(ms # <<>> /\ Last(ms).kind = kind)
  BY <1>2 DEF WithoutLast
<1> QED
  BY <1>1, <1>2

LEMMA Start == Init => IInv /\ Bases /\ ToolsInv /\ PrefixInv
<1> SUFFICES ASSUME Init PROVE IInv /\ Bases /\ ToolsInv /\ PrefixInv
  OBVIOUS
<1> USE Constants DEF Init
<1>1. TypeOK
  <2>1. /\ disk \in [Dirs -> [lines : Seq(Entry \union {Torn}), meta : Slot, base : Slot]]
        /\ sent \in [Dirs -> SUBSET ToolSets] /\ mem \in Seq(Entry)
    BY DEF EmptyDir, Missing, Slot
  <2>2. saver \in [Savers -> SaverStates] /\ op \in [at : {"none", "rewind", "compact", "asking", "counting"}, keep : Nat]
        /\ cached \in [known : BOOLEAN, n : Nat, of : Dirs]
    BY DEF NoOp, NoCount
  <2> QED
    BY <2>1, <2>2 DEF TypeOK, SaverStates
<1>2. Exclusive /\ IntoOpen /\ Paused /\ Counted /\ CountIsOfItsFile
  BY DEF Exclusive, IntoOpen, Paused, Counted, CountIsOfItsFile, Active, Idle, NoOp, NoCount
<1>3. Untouched
  BY DEF Untouched, EmptyDir, Missing
<1>4. ToolsInv
  BY DEF ToolsInv, EmptyDir, Missing, Idle, Active
<1>6. Bases
  BY DEF Bases, EmptyDir, Missing, Idle
<1>5. PrefixInv
  BY DEF PrefixInv, NoWarning, DiskIsPrefix, RestFollows, EmptyDir, Idle
<1> QED
  BY <1>1, <1>2, <1>3, <1>4, <1>5, <1>6 DEF IInv

-----------------------------------------------------------------------------
(* Locks, counts and types. The conversation moves on.                      *)

(* What changes neither files nor savers. *)
LEMMA TalkKeeps ==
    ASSUME IInv, Conversation \/ AskForSummary \/ SummaryArrives
    PROVE  IInv'
<1>1. /\ UNCHANGED <<dir, made, disk, cached, saver>>
      /\ mem' \in Seq(Entry) /\ entries' \in Nat /\ ends' = ends /\ live' \in ToolSets
      /\ tools' \in ToolSets \union {0} /\ sent' \in [Dirs -> SUBSET ToolSets]
  <2>1. \A kind \in {"msg", "warn", "refresh"} : Fresh(kind) \in Entry
    BY FreshIsEntry DEF IInv
  <2>2. WithoutLast("warn", mem) \in Seq(Entry)
    BY WithoutLastIs DEF IInv, TypeOK
  <2>3. Frozen \in ToolSets
    BY DEF Frozen, IInv, TypeOK
  <2>4. CASE TakePrompt
    BY <2>1, <2>2, <2>4 DEF TakePrompt, IInv, TypeOK
  <2>5. CASE AddMessage
    BY <2>1, <2>5 DEF AddMessage, IInv, TypeOK
  <2>6. CASE AddWarning
    BY <2>1, <2>6 DEF AddWarning, IInv, TypeOK
  <2>9. CASE SendRequest
    BY <2>3, <2>9 DEF SendRequest, IInv, TypeOK
  <2>10. CASE ToolsChange
    BY <2>10 DEF ToolsChange, IInv, TypeOK
  <2>7. CASE AskForSummary
    BY <2>1, <2>3, <2>7 DEF AskForSummary, IInv, TypeOK
  <2>8. CASE SummaryArrives
    BY <2>1, <2>8 DEF SummaryArrives, IInv, TypeOK
  <2> QED
    BY <2>4, <2>5, <2>6, <2>7, <2>8, <2>9, <2>10 DEF Conversation
<1>2. \/ op' = op /\ (op.at = "none" \/ mem' = mem)
      \/ op' \in [at : {"asking", "counting"}, keep : {0}] /\ saver["turn"].at = "off"
  BY DEF Conversation, TakePrompt, AddMessage, AddWarning, SendRequest, ToolsChange, Turning, AskForSummary,
         SummaryArrives, NoOp, IInv, Paused
<1>3. TypeOK'
  BY <1>1, <1>2 DEF IInv, TypeOK
<1>4. Exclusive' /\ IntoOpen' /\ Counted' /\ Untouched' /\ CountIsOfItsFile'
  BY <1>1 DEF IInv, Exclusive, IntoOpen, Counted, Untouched, CountIsOfItsFile, Active
<1>5. Paused'
  BY <1>1, <1>2 DEF IInv, Paused, Active
<1> QED
  BY <1>3, <1>4, <1>5 DEF IInv

-----------------------------------------------------------------------------
(* Saves. *)

(* A save is asked for, by itself or by what begins with one. *)
LEMMA AskKeeps ==
    ASSUME IInv,
           \/ \E s \in Savers : AskForSave(s)
           \/ BeginCompact \/ \E keep \in 0..(Len(mem) - 1) : BeginRewind(keep)
           \/ \E saves \in BOOLEAN : CompactFails(saves)
    PROVE  IInv'
<1>1. UNCHANGED <<mem, dir, made, disk, cached, tools, live, entries, ends, sent>>
  BY DEF AskForSave, BeginCompact, BeginRewind, CompactFails
<1>2. saver["turn"].at = "off" \/ op' = op
  BY DEF AskForSave, BeginCompact, BeginRewind, CompactFails, IInv, Paused
<1>3. \/ saver' = saver
      \/ \E s \in Savers, r \in SaverStates :
            r.at = "wait" /\ saver[s].at = "off" /\ saver' = [saver EXCEPT ![s] = r]
            /\ (s = "turn" => op'.at \notin {"asking", "counting"})
  <2>1. [Idle EXCEPT !.at = "wait", !.into = dir] \in SaverStates
    BY Constants DEF Idle, SaverStates, IInv, TypeOK
  <2>2. ASSUME NEW s \in Savers, AskForSave(s) PROVE <1>3!2
    <3>1. s = "turn" => op'.at = "none"
      BY <2>2 DEF AskForSave, Turning
    <3> QED
      BY <2>1, <2>2, <3>1 DEF AskForSave, Idle
  <2>3. CASE BeginCompact \/ \E keep \in 0..(Len(mem) - 1) : BeginRewind(keep)
    <3>1. op'.at \in {"rewind", "compact"}
      <4>1. CASE BeginCompact
        BY <4>1, Constants DEF BeginCompact
      <4>2. CASE \E keep \in 0..(Len(mem) - 1) : BeginRewind(keep)
        BY <4>2 DEF BeginRewind
      <4> QED
        BY <2>3, <4>1, <4>2
    <3>2. saver["turn"].at = "off" /\ saver' = [saver EXCEPT !["turn"] = [Idle EXCEPT !.at = "wait"]]
      BY <2>3 DEF BeginCompact, BeginRewind, RewindSave
    <3> QED
      BY <3>1, <3>2, Constants DEF Savers
  <2>4. CASE \E saves \in BOOLEAN : CompactFails(saves)
    BY <2>4, Constants DEF CompactFails, Savers, IInv, Paused
  <2> QED
    BY <2>2, <2>3, <2>4
<1>4. /\ op' \in OpStates
      /\ \/ op' = op \/ op'.at \in {"none", "compact"}
         \/ op'.at = "rewind" /\ op'.keep <= Len(mem) /\ saver'["turn"].at = "wait"
  <2>1. Len(mem) \in Nat /\ saver \in [Savers -> SaverStates] /\ op \in OpStates
    BY DEF IInv, TypeOK, SaverStates, OpStates
  <2>2. CASE \E s \in Savers : AskForSave(s)
    <3>1. op' = op
      BY <2>2 DEF AskForSave
    <3> QED
      BY <2>1, <3>1
  <2>3. CASE BeginCompact
    BY <2>3, Constants DEF BeginCompact
  <2>4. ASSUME NEW keep \in 0..(Len(mem) - 1), BeginRewind(keep) PROVE <1>4!1 /\ <1>4!2
    BY <2>1, <2>4, Constants DEF BeginRewind, RewindSave, Savers, OpStates
  <2>5. CASE \E saves \in BOOLEAN : CompactFails(saves)
    BY <2>5, Constants DEF CompactFails
  <2> QED
    BY <2>2, <2>3, <2>4, <2>5
<1>5. saver \in [Savers -> SaverStates]
  BY DEF IInv, TypeOK, SaverStates
<1>6. \A s \in Savers : Active(s)' => Active(s) /\ saver'[s] = saver[s]
  BY <1>3, <1>5 DEF Active
<1>7. \A s \in Savers : saver'[s] # saver[s] => saver'[s].at = "wait"
  BY <1>3, <1>5
<1>8. TypeOK'
  <2>1. saver' \in [Savers -> SaverStates]
    BY <1>3, <1>5
  <2> HIDE DEF Savers
  <2> QED
    BY <1>1, <1>4, <2>1 DEF IInv, TypeOK, SaverStates, OpStates
<1>9. Exclusive' /\ IntoOpen' /\ Untouched' /\ CountIsOfItsFile'
  BY <1>1, <1>6 DEF IInv, Exclusive, IntoOpen, Untouched, CountIsOfItsFile
<1>10. Counted'
  BY <1>1, <1>7 DEF IInv, Counted
<1>11. Paused'
  <2>1. \/ saver'["turn"] = saver["turn"]
        \/ saver'["turn"].at = "wait" /\ saver["turn"].at = "off"
    <3>1. CASE saver' = saver
      BY <3>1
    <3>2. ASSUME NEW s \in Savers, NEW r \in SaverStates, r.at = "wait", saver[s].at = "off",
                 saver' = [saver EXCEPT ![s] = r]
          PROVE  <2>1
      <4>1. CASE s = "turn"
        BY <1>5, <3>2, <4>1
      <4>2. CASE s # "turn"
        BY <1>5, <3>2, <4>2 DEF Savers
      <4> QED
        BY <4>1, <4>2
    <3> QED
      BY <1>3, <3>1, <3>2
  <2>2. op'.at = "rewind" => op'.keep <= Len(mem')
    BY <1>1, <1>4 DEF IInv, Paused
  <2>3. op'.at = "rewind" /\ saver'["turn"].at = "off" => op' = op /\ saver'["turn"] = saver["turn"]
    BY <1>4, <2>1
  <2>4. op'.at \in {"asking", "counting"} => op' = op
    BY <1>4
  <2>5. op'.at \in {"asking", "counting"} => saver'["turn"].at = "off"
    BY <1>3, <1>5, <2>1, <2>4 DEF IInv, Paused, Savers
  <2> QED
    BY <1>6, <2>2, <2>3, <2>5 DEF IInv, Paused
<1> QED
  BY <1>8, <1>9, <1>10, <1>11 DEF IInv

(* A file is counted and its append prepared by one saver, the only one.    *)
LEMMA PrepareKeeps ==
    ASSUME IInv, NEW s \in Savers, NEW r \in SaverStates, saver' = [saver EXCEPT ![s] = r],
           saver[s].at # "off", \A t \in Savers : Active(t) => t = s,
           r.at \in {"off", "meta", "append"}, r.at # "off" => r.into = dir,
           r.at \in {"meta", "append"} => r.count = Len(disk[dir].lines),
           r.at = "append" => ~cached'.known,
           op.at = "rewind" => s = "turn" \/ saver["turn"].at # "off",
           cached' \in [known : BOOLEAN, n : Nat, of : Dirs], CountIsOfItsFile',
           made \subseteq made', made' \subseteq Dirs,
           UNCHANGED <<mem, dir, disk, op, tools, live, entries, ends, sent>>
    PROVE  IInv'
<1>1. saver \in [Savers -> SaverStates]
  BY DEF IInv, TypeOK, SaverStates
<1>2. saver'[s] = r /\ \A t \in Savers \ {s} : saver'[t] = saver[t] /\ ~Active(t)' /\ ~Active(t)
  BY <1>1 DEF Active
<1>3. TypeOK'
  <2>1. saver' \in [Savers -> SaverStates]
    BY <1>1
  <2> HIDE DEF Savers
  <2> QED
    BY <2>1 DEF IInv, TypeOK, SaverStates
<1>4. Exclusive' /\ IntoOpen'
  BY <1>2 DEF Exclusive, IntoOpen, Active
<1>5. Counted'
  BY <1>2 DEF Counted, Active
<1>6. Untouched'
  BY DEF IInv, Untouched
<1>7. Paused'
  <2>1. op.at = "rewind" /\ saver'["turn"].at = "off" => s = "turn" /\ r.at = "off"
    BY <1>1, <1>2 DEF Savers
  <2>2. op.at \in {"asking", "counting"} => s # "turn" /\ saver'["turn"] = saver["turn"]
    BY <1>2 DEF IInv, Paused, Savers
  <2> QED
    BY <1>2, <2>1, <2>2 DEF IInv, Paused, Active, Savers
<1> QED
  BY <1>3, <1>4, <1>5, <1>6, <1>7 DEF IInv

(* What is to be appended, as a sequence. *)
LEMMA RestIs ==
    ASSUME mem \in Seq(Entry), NEW n \in Nat
    PROVE  /\ SubSeq(mem, n + 1, Len(mem)) \in Seq(Entry)
           /\ Len(SubSeq(mem, n + 1, Len(mem))) = IF n < Len(mem) THEN Len(mem) - n ELSE 0
           /\ \A j \in 1..Len(SubSeq(mem, n + 1, Len(mem))) :
                 SubSeq(mem, n + 1, Len(mem))[j] = mem[n + j]
<1> DEFINE len == Len(mem) m == n + 1
<1>1. len \in Nat /\ m \in Nat /\ m = n + 1 /\ m # 0 /\ \A i \in m..len : mem[i] \in Entry
  OBVIOUS
<1> HIDE DEF len, m
<1>2. /\ SubSeq(mem, m, len) \in Seq(Entry)
      /\ Len(SubSeq(mem, m, len)) = IF m <= len THEN len - m + 1 ELSE 0
      /\ \A j \in 1..(len - m + 1) : SubSeq(mem, m, len)[j] = mem[m + j - 1]
  BY <1>1, SubSeqProperties
<1>3. Len(SubSeq(mem, m, len)) = IF n < len THEN len - n ELSE 0
  BY <1>1, <1>2
<1>4. \A j \in 1..Len(SubSeq(mem, m, len)) : j \in 1..(len - m + 1) /\ m + j - 1 = n + j
  BY <1>1, <1>3
<1> QED
  BY <1>2, <1>3, <1>4 DEF len, m

LEMMA AppendPrepared ==
    ASSUME IInv, NEW s \in Savers, NEW n \in Nat, NEW reconcile \in BOOLEAN,
           NEW counted \in [known : BOOLEAN, n : Nat, of : Dirs],
           BeginAppend(s, n, reconcile, counted)
    PROVE  \E r \in SaverStates :
              /\ saver' = [saver EXCEPT ![s] = r]
              /\ \/ r.at = "off" /\ cached' = counted
                 \/ /\ r.at = "append" /\ r.into = dir /\ r.count = n
                    /\ r.rest = SubSeq(mem, n + 1, Len(mem)) /\ r.frozen = 0
                    /\ cached' = [counted EXCEPT !.known = FALSE]
<1> DEFINE rest == SubSeq(mem, n + 1, Len(mem))
           r == [Idle EXCEPT !.at = "append", !.count = n, !.rest = rest, !.total = Len(mem), !.into = dir]
<1>1. rest \in Seq(Entry) /\ Len(mem) \in Nat /\ dir \in Dirs
  <2>1. mem \in Seq(Entry) /\ dir \in Dirs
    BY DEF IInv, TypeOK
  <2> QED
    BY <2>1, RestIs
<1>2. r \in SaverStates /\ r.at = "append" /\ r.into = dir /\ r.count = n /\ r.rest = rest /\ r.frozen = 0
  <2> HIDE DEF rest
  <2> QED
    BY <1>1 DEF Idle, SaverStates
<1>3. Idle \in SaverStates /\ Idle.at = "off"
  BY Constants DEF Idle
<1>4. \/ saver' = [saver EXCEPT ![s] = Idle] /\ cached' = counted
      \/ saver' = [saver EXCEPT ![s] = r] /\ cached' = [counted EXCEPT !.known = FALSE]
  BY DEF BeginAppend, WhileAppending
<1> QED
  BY <1>2, <1>3, <1>4

(* The lock is taken; meta.json is read. *)
LEMMA EnterKeeps == ASSUME IInv, NEW s \in Savers, EnterSave(s) PROVE IInv'
<1> DEFINE n == PersistedCount
           counted == [known |-> TRUE, n |-> n, of |-> dir]
<1>1. n = Len(disk[dir].lines) /\ n \in Nat
  BY DEF PersistedCount, CountOnDisk, IInv, TypeOK, CountIsOfItsFile
<1>2. counted \in [known : BOOLEAN, n : Nat, of : Dirs]
  BY <1>1 DEF IInv, TypeOK
<1>3. /\ made' \in SUBSET Dirs /\ made \subseteq made'
      /\ UNCHANGED <<mem, dir, disk, op, tools, live, entries, ends, sent>>
      /\ saver[s].at = "wait" /\ \A t \in Savers : ~Active(t)
      /\ op.at = "rewind" => s = "turn" \/ saver["turn"].at # "off"
  BY DEF EnterSave, Locked, Active, Continuing, IInv, TypeOK
<1>4. \E r \in SaverStates :
         /\ saver' = [saver EXCEPT ![s] = r]
         /\ \/ r.at = "off" /\ cached' = counted
            \/ r.at = "meta" /\ r.into = dir /\ r.count = n /\ cached' = counted
            \/ r.at = "append" /\ r.into = dir /\ r.count = n /\ cached' = [counted EXCEPT !.known = FALSE]
  <2>1. CASE disk[dir].meta.there
    <3> DEFINE r == [Idle EXCEPT !.at = "meta", !.count = n, !.into = dir]
    <3>1. r \in SaverStates /\ r.at = "meta" /\ r.into = dir /\ r.count = n
      <4> HIDE DEF n
      <4> QED
        BY <1>1, Constants DEF Idle, SaverStates, IInv, TypeOK
    <3>2. saver' = [saver EXCEPT ![s] = r] /\ cached' = counted
      BY <2>1 DEF EnterSave
    <3> QED
      BY <3>1, <3>2
  <2>2. CASE ~disk[dir].meta.there
    <3>1. \E reconcile \in BOOLEAN : BeginAppend(s, n, reconcile, counted)
      <4>1. BeginAppend(s, n, FALSE, counted)
        BY <2>2 DEF EnterSave
      <4> QED
        BY <4>1
    <3> HIDE DEF n, counted
    <3> QED
      BY <1>1, <1>2, <3>1, AppendPrepared
  <2> QED
    BY <2>1, <2>2
<1>5. CountIsOfItsFile' /\ cached' \in [known : BOOLEAN, n : Nat, of : Dirs]
  <2>1. cached' = counted \/ cached' = [counted EXCEPT !.known = FALSE]
    BY <1>4
  <2> HIDE DEF n
  <2> QED
    <3>1. CASE cached' = counted
      BY <1>1, <1>2, <1>3, <3>1 DEF CountIsOfItsFile
    <3>2. CASE cached' = [counted EXCEPT !.known = FALSE]
      BY <1>2, <3>2 DEF CountIsOfItsFile
    <3> QED
      BY <2>1, <3>1, <3>2
<1>6. PICK r \in SaverStates :
         /\ saver' = [saver EXCEPT ![s] = r]
         /\ \/ r.at = "off"
            \/ r.at = "meta" /\ r.into = dir /\ r.count = n
            \/ r.at = "append" /\ r.into = dir /\ r.count = n /\ ~cached'.known
  <2> HIDE DEF n
  <2> QED
    BY <1>4
<1> HIDE DEF n, counted
<1> QED
  BY <1>1, <1>3, <1>5, <1>6, PrepareKeeps

LEMMA ReadKeeps == ASSUME IInv, NEW s \in Savers, ReadMeta(s) PROVE IInv'
<1> DEFINE n == saver[s].count
<1>1. /\ saver[s].at = "meta" /\ Active(s) /\ made \subseteq Dirs
      /\ UNCHANGED <<mem, dir, made, disk, op, tools, live, entries, ends, sent>>
  BY DEF ReadMeta, Active, IInv, TypeOK
<1>2. n = Len(disk[dir].lines) /\ n \in Nat /\ \A t \in Savers : Active(t) => t = s
  BY <1>1 DEF IInv, IntoOpen, Counted, Exclusive, TypeOK
<1>3. cached \in [known : BOOLEAN, n : Nat, of : Dirs]
  BY DEF IInv, TypeOK
<1>4. \E reconcile \in BOOLEAN : BeginAppend(s, n, reconcile, cached)
  BY DEF ReadMeta
<1>5. op.at = "rewind" => s = "turn" \/ saver["turn"].at # "off"
  BY <1>1 DEF IInv, Paused
<1> HIDE DEF n
<1>6. PICK r \in SaverStates :
         /\ saver' = [saver EXCEPT ![s] = r]
         /\ \/ r.at = "off" /\ cached' = cached
            \/ r.at = "append" /\ r.into = dir /\ r.count = n /\ cached' = [cached EXCEPT !.known = FALSE]
  BY <1>2, <1>3, <1>4, AppendPrepared
<1>7. CountIsOfItsFile' /\ cached' \in [known : BOOLEAN, n : Nat, of : Dirs]
      /\ (r.at = "append" => ~cached'.known)
  BY <1>1, <1>3, <1>6 DEF IInv, CountIsOfItsFile
<1> QED
  BY <1>1, <1>2, <1>5, <1>6, <1>7, PrepareKeeps

(* The writer is alone and writes the open session. *)
LEMMA Writer ==
    ASSUME IInv, NEW s \in Savers, Active(s)
    PROVE  /\ saver[s] \in SaverStates /\ saver[s].into = dir
           /\ \A t \in Savers : Active(t) => t = s
           /\ op.at = "rewind" => s = "turn" \/ saver["turn"].at # "off"
           /\ op.at \in {"asking", "counting"} => s # "turn"
<1>1. op.at = "rewind" /\ saver["turn"].at = "off" => ~Active(s)
  BY DEF IInv, Paused
<1>2. op.at \in {"asking", "counting"} /\ s = "turn" => ~Active(s)
  BY DEF IInv, Paused, Active
<1> QED
  BY <1>1, <1>2 DEF IInv, TypeOK, SaverStates, IntoOpen, Exclusive

(* What a writer does to its file and to itself.                            *)
LEMMA WriteKeeps ==
    ASSUME IInv, NEW s \in Savers, Active(s), NEW r \in SaverStates, saver' = [saver EXCEPT ![s] = r],
           r.at \in {"off", "append", "meta_write", "base_write"}, r.at # "off" => r.into = dir,
           disk' \in [Dirs -> [lines : Seq(Entry \union {Torn}), meta : Slot, base : Slot]],
           \A d \in Dirs \ {dir} : disk'[d] = disk[d],
           dir \notin made => disk'[dir].lines = disk[dir].lines /\ disk'[dir].base = disk[dir].base,
           r.at = "append" => r.count = Len(disk'[dir].lines) /\ ~cached'.known,
           cached' \in [known : BOOLEAN, n : Nat, of : Dirs], CountIsOfItsFile',
           UNCHANGED <<mem, dir, made, op, tools, live, entries, ends, sent>>
    PROVE  IInv'
<1>1. saver \in [Savers -> SaverStates] /\ dir \in Dirs
  BY DEF IInv, TypeOK, SaverStates
<1>2. saver'[s] = r /\ \A t \in Savers \ {s} : saver'[t] = saver[t] /\ ~Active(t)' /\ ~Active(t)
  BY <1>1, Writer DEF Active
<1>3. TypeOK'
  <2>1. saver' \in [Savers -> SaverStates]
    BY <1>1
  <2> HIDE DEF Savers
  <2> QED
    BY <2>1 DEF IInv, TypeOK, SaverStates
<1>4. Exclusive' /\ IntoOpen'
  BY <1>2 DEF Exclusive, IntoOpen, Active
<1>5. Counted'
  BY <1>2 DEF Counted, Active
<1>6. Untouched'
  BY <1>1 DEF IInv, Untouched
<1>7. Paused'
  <2>1. op.at = "rewind" /\ saver'["turn"].at = "off" => s = "turn" /\ r.at = "off"
    BY <1>1, <1>2, Writer DEF Savers
  <2>2. op.at \in {"asking", "counting"} => s # "turn" /\ saver'["turn"] = saver["turn"]
    BY <1>2, Writer DEF Savers
  <2> QED
    BY <1>2, <2>1, <2>2 DEF IInv, Paused, Active, Savers
<1> QED
  BY <1>3, <1>4, <1>5, <1>6, <1>7 DEF IInv

DiskStates == [Dirs -> [lines : Seq(Entry \union {Torn}), meta : Slot, base : Slot]]

(* One line lands. *)
LEMMA LineIs ==
    ASSUME IInv, NEW s \in Savers, AppendLine(s)
    PROVE  \E r \in SaverStates :
              /\ saver' = [saver EXCEPT ![s] = r]
              /\ r.at = "append" /\ r.into = dir /\ r.count = saver[s].count + 1 /\ r.frozen = saver[s].frozen
              /\ r.rest = Tail(saver[s].rest)
              /\ saver[s].rest # <<>> /\ saver[s].count = Len(disk[dir].lines)
              /\ disk' \in DiskStates
              /\ \A d \in Dirs \ {dir} : disk'[d] = disk[d]
              /\ disk'[dir].lines = Append(disk[dir].lines, Head(saver[s].rest))
              /\ disk'[dir].base = disk[dir].base
              /\ ~cached.known /\ dir \in made /\ Active(s)
<1> DEFINE line == Head(saver[s].rest)
           r == [saver[s] EXCEPT !.rest = Tail(@), !.count = @ + 1]
<1>1. /\ saver[s].at = "append" /\ saver[s].rest # <<>> /\ Active(s)
  BY DEF AppendLine, Active
<1>2. /\ saver[s] \in SaverStates /\ saver[s].into = dir /\ dir \in Dirs /\ disk \in DiskStates
      /\ saver[s].count = Len(disk[dir].lines) /\ ~cached.known
  BY <1>1, Writer DEF IInv, TypeOK, Counted, DiskStates
<1>3. line \in Entry /\ Tail(saver[s].rest) \in Seq(Entry)
  BY <1>1, <1>2 DEF SaverStates
<1> HIDE DEF line
<1>4. /\ r \in SaverStates /\ r.at = "append" /\ r.into = dir /\ r.count = saver[s].count + 1
      /\ r.rest = Tail(saver[s].rest) /\ r.frozen = saver[s].frozen
  <2>1. saver[s].count + 1 \in Nat
    BY <1>2 DEF SaverStates
  <2> QED
    BY <1>1, <1>2, <1>3, <2>1 DEF SaverStates
<1>5. saver' = [saver EXCEPT ![s] = r]
  <2>1. saver' = [saver EXCEPT ![s].rest = Tail(@), ![s].count = @ + 1]
    BY DEF AppendLine
  <2>2. saver \in [Savers -> SaverStates]
    BY DEF IInv, TypeOK, SaverStates
  <2> QED
    BY <2>1, <2>2 DEF SaverStates
<1>6. disk' = [disk EXCEPT ![dir].lines = Append(@, line)] /\ dir \in made
  BY <1>2 DEF AppendLine, line
<1>7. Append(disk[dir].lines, line) \in Seq(Entry \union {Torn})
  BY <1>2, <1>3 DEF DiskStates
<1>8. /\ disk' \in DiskStates /\ \A d \in Dirs \ {dir} : disk'[d] = disk[d]
      /\ disk'[dir].lines = Append(disk[dir].lines, line) /\ disk'[dir].base = disk[dir].base
  BY <1>2, <1>6, <1>7 DEF DiskStates
<1> HIDE DEF r
<1> QED
  BY <1>1, <1>2, <1>4, <1>5, <1>6, <1>8 DEF line

LEMMA LineKeeps == ASSUME IInv, NEW s \in Savers, AppendLine(s) PROVE IInv'
<1>1. PICK r \in SaverStates :
              /\ saver' = [saver EXCEPT ![s] = r]
              /\ r.at = "append" /\ r.into = dir /\ r.count = saver[s].count + 1
              /\ saver[s].rest # <<>> /\ saver[s].count = Len(disk[dir].lines)
              /\ disk' \in DiskStates
              /\ \A d \in Dirs \ {dir} : disk'[d] = disk[d]
              /\ disk'[dir].lines = Append(disk[dir].lines, Head(saver[s].rest))
              /\ disk'[dir].base = disk[dir].base
              /\ ~cached.known /\ dir \in made /\ Active(s)
  BY LineIs
<1>2. UNCHANGED <<mem, dir, made, cached, op, tools, live, entries, ends, sent>>
  BY DEF AppendLine
<1>3. r.count = Len(disk'[dir].lines)
  <2>1. disk[dir].lines \in Seq(Entry \union {Torn}) /\ Head(saver[s].rest) \in Entry \union {Torn}
    <3>1. saver[s] \in SaverStates /\ disk \in DiskStates /\ dir \in Dirs
      BY <1>1, Writer DEF IInv, TypeOK, DiskStates
    <3>2. Head(saver[s].rest) \in Entry
      BY <1>1, <3>1 DEF SaverStates
    <3> QED
      BY <3>1, <3>2 DEF DiskStates
  <2> QED
    BY <1>1, <2>1
<1>4. cached' \in [known : BOOLEAN, n : Nat, of : Dirs] /\ CountIsOfItsFile'
  BY <1>1, <1>2 DEF IInv, TypeOK, CountIsOfItsFile
<1> QED
  BY <1>1, <1>2, <1>3, <1>4, WriteKeeps DEF DiskStates

LEMMA DoneKeeps == ASSUME IInv, NEW s \in Savers, AppendDone(s) PROVE IInv'
<1> DEFINE r == [saver[s] EXCEPT !.at = "meta_write", !.into = dir, !.frozen = tools]
<1>1. /\ saver[s].at = "append" /\ Active(s) /\ saver' = [saver EXCEPT ![s] = r]
      /\ cached' = [known |-> TRUE, n |-> saver[s].count, of |-> dir]
      /\ UNCHANGED <<mem, dir, made, disk, op, tools, live, entries, ends, sent>>
  <2>1. saver \in [Savers -> SaverStates]
    BY DEF IInv, TypeOK, SaverStates
  <2>2. saver' = [saver EXCEPT ![s].at = "meta_write", ![s].into = dir, ![s].frozen = tools]
    BY DEF AppendDone
  <2>3. saver' = [saver EXCEPT ![s] = r]
    BY <2>1, <2>2 DEF SaverStates
  <2> QED
    BY <2>3 DEF AppendDone, Active
<1>2. saver[s] \in SaverStates /\ saver[s].into = dir /\ saver[s].count = Len(disk[dir].lines)
      /\ dir \in Dirs /\ tools \in Nat /\ disk \in DiskStates
  <2>1. dir \in Dirs /\ tools \in Nat /\ disk \in DiskStates
    BY Constants DEF IInv, TypeOK, DiskStates
  <2> QED
    BY <1>1, <2>1, Writer DEF IInv, Counted
<1>3. r \in SaverStates /\ r.at = "meta_write" /\ r.into = dir
  BY <1>2 DEF SaverStates
<1>4. cached' \in [known : BOOLEAN, n : Nat, of : Dirs] /\ CountIsOfItsFile'
  BY <1>1, <1>2 DEF CountIsOfItsFile, SaverStates
<1> HIDE DEF r
<1> QED
  BY <1>1, <1>2, <1>3, <1>4, WriteKeeps DEF DiskStates

LEMMA MetaKeeps == ASSUME IInv, NEW s \in Savers, WriteMeta(s) PROVE IInv'
<1> DEFINE r == [saver[s] EXCEPT !.at = "base_write", !.into = dir]
<1>1. saver[s].at = "meta_write" /\ Active(s)
      /\ UNCHANGED <<mem, dir, made, cached, op, tools, live, entries, ends, sent>>
  BY DEF WriteMeta, Active
<1>2. saver[s] \in SaverStates /\ saver[s].into = dir /\ dir \in Dirs /\ disk \in DiskStates
  BY <1>1, Writer DEF IInv, TypeOK, DiskStates
<1>3. /\ r \in SaverStates /\ r.at = "base_write" /\ r.into = dir
      /\ Idle \in SaverStates /\ Idle.at = "off"
  BY <1>2, Constants DEF SaverStates, Idle
<1>4. disk' = [disk EXCEPT ![dir].meta = Holding(saver[s].total)] /\ Holding(saver[s].total) \in Slot
  BY <1>2 DEF WriteMeta, Holding, Slot, SaverStates
<1>5. /\ disk' \in DiskStates /\ \A d \in Dirs : d # dir => disk'[d] = disk[d]
      /\ disk'[dir].lines = disk[dir].lines /\ disk'[dir].base = disk[dir].base
  BY <1>2, <1>4 DEF DiskStates
<1>6. saver' = [saver EXCEPT ![s] = Idle] \/ saver' = [saver EXCEPT ![s] = r]
  BY DEF WriteMeta
<1>7. cached' \in [known : BOOLEAN, n : Nat, of : Dirs] /\ CountIsOfItsFile'
  BY <1>1, <1>2, <1>5 DEF IInv, TypeOK, CountIsOfItsFile
<1> HIDE DEF r
<1>8. CASE saver' = [saver EXCEPT ![s] = Idle]
  BY <1>1, <1>3, <1>5, <1>7, <1>8, WriteKeeps DEF DiskStates
<1>9. CASE saver' = [saver EXCEPT ![s] = r]
  BY <1>1, <1>3, <1>5, <1>7, <1>9, WriteKeeps DEF DiskStates
<1> QED
  BY <1>6, <1>8, <1>9

LEMMA BaseKeeps == ASSUME IInv, NEW s \in Savers, WriteBase(s) PROVE IInv'
<1>1. /\ saver[s].at = "base_write" /\ Active(s) /\ saver' = [saver EXCEPT ![s] = Idle]
      /\ saver[s].into \in made
      /\ UNCHANGED <<mem, dir, made, cached, op, tools, live, entries, ends, sent>>
  BY DEF WriteBase, Active
<1>2. saver[s] \in SaverStates /\ saver[s].into = dir /\ dir \in Dirs /\ disk \in DiskStates
  BY <1>1, Writer DEF IInv, TypeOK, DiskStates
<1>3. disk' = [disk EXCEPT ![dir].base = Holding(saver[s].frozen)] /\ Holding(saver[s].frozen) \in Slot
  BY <1>2 DEF WriteBase, Holding, Slot, SaverStates
<1>4. /\ disk' \in DiskStates /\ \A d \in Dirs : d # dir => disk'[d] = disk[d]
      /\ disk'[dir].lines = disk[dir].lines
  BY <1>2, <1>3 DEF DiskStates
<1>5. cached' \in [known : BOOLEAN, n : Nat, of : Dirs] /\ CountIsOfItsFile'
  BY <1>1, <1>2, <1>4 DEF IInv, TypeOK, CountIsOfItsFile
<1>6. Idle \in SaverStates /\ Idle.at = "off"
  BY Constants DEF Idle
<1> QED
  BY <1>1, <1>2, <1>4, <1>5, <1>6, WriteKeeps DEF DiskStates

(* A save that ends early leaves the files as they are.                     *)
LEMMA FailKeeps == ASSUME IInv, NEW s \in Savers, SaveFails(s) PROVE IInv'
<1>1. /\ saver' = [saver EXCEPT ![s] = Idle] /\ op' = IF s = "turn" THEN NoOp ELSE op
      /\ UNCHANGED <<mem, dir, made, disk, cached, tools, live, entries, ends, sent>>
  BY DEF SaveFails
<1>2. saver \in [Savers -> SaverStates] /\ op \in OpStates
  BY DEF IInv, TypeOK, SaverStates, OpStates
<1>3. saver'[s] = Idle /\ Idle.at = "off" /\ \A t \in Savers \ {s} : saver'[t] = saver[t]
  BY <1>1, <1>2 DEF Idle
<1>4. saver' \in [Savers -> SaverStates] /\ op' \in OpStates
  BY <1>1, <1>2, Constants
<1>5. TypeOK'
  <2> HIDE DEF Savers
  <2> QED
    BY <1>1, <1>4 DEF IInv, TypeOK, SaverStates, OpStates
<1>6. \A t \in Savers : Active(t)' => Active(t) /\ saver'[t] = saver[t]
  BY <1>3 DEF Active
<1>7. Exclusive' /\ IntoOpen' /\ Untouched' /\ CountIsOfItsFile'
  BY <1>1, <1>6 DEF IInv, Exclusive, IntoOpen, Untouched, CountIsOfItsFile
<1>8. Counted'
  BY <1>1, <1>3 DEF IInv, Counted
<1>9. Paused'
  <2>1. CASE s = "turn"
    BY <1>1, <2>1, Constants DEF Paused
  <2>2. CASE s # "turn"
    <3>1. op' = op /\ saver'["turn"] = saver["turn"]
      BY <1>1, <1>3, <2>2 DEF Savers
    <3> QED
      BY <1>1, <1>6, <3>1 DEF IInv, Paused
  <2> QED
    BY <2>1, <2>2
<1> QED
  BY <1>5, <1>7, <1>8, <1>9 DEF IInv

-----------------------------------------------------------------------------
(* Leaving a session, while nothing is being written. *)

LEMMA NewDirIs == ASSUME NEW d \in Dirs, NewDir(d) PROVE d \notin made /\ d # dir /\ sent[d] = {}
  BY DEF NewDir

LEMMA LeaveKeeps ==
    ASSUME IInv, \A s \in Savers : ~Active(s)', saver' \in [Savers -> SaverStates],
           mem' \in Seq(Entry), dir' \in Dirs, made' = made, disk' \in DiskStates, cached' = NoCount,
           \A d \in Dirs \ made : disk'[d] = disk[d],
           op' \in OpStates, op'.at = "none", tools' \in ToolSets \union {0}, live' \in ToolSets,
           entries' \in Nat, ends' \in Nat, sent' = sent
    PROVE  IInv'
<1>1. NoCount \in [known : BOOLEAN, n : Nat, of : Dirs] /\ ~NoCount.known
  BY Constants DEF NoCount
<1>2. TypeOK'
  <2> HIDE DEF Savers
  <2> QED
    BY <1>1 DEF IInv, TypeOK, SaverStates, OpStates, DiskStates
<1>3. Exclusive' /\ IntoOpen' /\ Paused'
  BY DEF Exclusive, IntoOpen, Paused
<1>4. Counted'
  BY DEF Counted, Active
<1>5. Untouched' /\ CountIsOfItsFile'
  BY <1>1 DEF IInv, Untouched, CountIsOfItsFile
<1> QED
  BY <1>2, <1>3, <1>4, <1>5 DEF IInv

(* A rewind goes on when its save is done: nobody writes.                   *)
LEMMA RewindKeeps == ASSUME IInv, EndRewind PROVE IInv'
<1>1. /\ op.at = "rewind" /\ saver["turn"].at = "off" /\ op' = NoOp /\ cached' = NoCount
      /\ mem' = SubSeq(mem, 1, op.keep) /\ dir' \in Dirs
      /\ UNCHANGED <<made, disk, saver, tools, live, entries, ends, sent>>
  BY DEF EndRewind, Continuing
<1>2. \A s \in Savers : ~Active(s)
  BY <1>1 DEF IInv, Paused
<1>3. mem' \in Seq(Entry)
  <2> DEFINE n == op.keep
  <2>1. n \in Nat /\ n <= Len(mem) /\ \A i \in 1..n : mem[i] \in Entry
    BY <1>1 DEF IInv, Paused, TypeOK
  <2> HIDE DEF n
  <2>2. SubSeq(mem, 1, n) \in Seq(Entry)
    BY <2>1, SubSeqProperties
  <2> QED
    BY <1>1, <2>2 DEF n
<1>4. \A s \in Savers : ~Active(s)'
  BY <1>1, <1>2 DEF Active
<1>5. /\ saver \in [Savers -> SaverStates] /\ disk \in DiskStates /\ tools \in ToolSets \union {0}
      /\ live \in ToolSets /\ entries \in Nat /\ ends \in Nat
  BY DEF IInv, TypeOK, SaverStates, DiskStates
<1> QED
  BY <1>1, <1>3, <1>4, <1>5, Constants, LeaveKeeps

(* With no mode switch in the middle of a save, nobody writes while a       *)
(* session is replaced.                                                     *)
LEMMA QuietIs ==
    ASSUME IInv, SwitchQuiet, saver["turn"].at \in {"off", "wait"}, "switch_raced" \notin Mishaps
    PROVE  \A s \in Savers : ~Active(s)
  BY DEF SwitchQuiet, Active, Savers

LEMMA CompactKeeps == ASSUME IInv, EndCompact, "switch_raced" \notin Mishaps PROVE IInv'
<1>1. /\ op.at = "counting" /\ SwitchQuiet /\ op' = NoOp /\ cached' = NoCount /\ dir' \in Dirs
      /\ saver' = [saver EXCEPT !["turn"] = [Idle EXCEPT !.at = "wait"]]
      /\ UNCHANGED <<mem, made, disk, tools, live, entries, ends, sent>>
  BY DEF EndCompact
<1>2. \A s \in Savers : ~Active(s)
  BY <1>1, QuietIs DEF IInv, Paused
<1>3. /\ saver \in [Savers -> SaverStates] /\ disk \in DiskStates /\ tools \in ToolSets \union {0}
      /\ live \in ToolSets /\ entries \in Nat /\ ends \in Nat /\ mem \in Seq(Entry)
  BY DEF IInv, TypeOK, SaverStates, DiskStates
<1>4. saver' \in [Savers -> SaverStates] /\ \A s \in Savers : saver'[s] = saver[s] \/ saver'[s].at = "wait"
  BY <1>1, <1>3, Constants
<1>5. \A s \in Savers : ~Active(s)'
  BY <1>2, <1>4 DEF Active
<1> QED
  BY <1>1, <1>3, <1>4, <1>5, Constants, LeaveKeeps

(* What is loaded is a conversation: a session with a half line is not      *)
(* loaded.                                                                  *)
LEMMA ResumedIs ==
    ASSUME IInv, NEW d \in Dirs, ResumeFrom(d)
    PROVE  /\ disk[d].lines \in Seq(Entry)
           /\ WithoutLast("warn", disk[d].lines) \in Seq(Entry)
           /\ WithoutLast("refresh", WithoutLast("warn", disk[d].lines)) \in Seq(Entry)
           /\ mem' \in Seq(Entry) /\ tools' \in ToolSets \union {0} \union {disk[d].base.value}
<1>1. disk[d].lines \in Seq(Entry \union {Torn}) /\ Valid(d)
  BY DEF IInv, TypeOK, ResumeFrom
<1>2. \A i \in 1..Len(disk[d].lines) : disk[d].lines[i] \in Entry
  BY <1>1 DEF Valid
<1>3. disk[d].lines \in Seq(Entry)
  BY <1>1, <1>2
<1>4. WithoutLast("warn", disk[d].lines) \in Seq(Entry)
  BY <1>3, WithoutLastIs
<1>5. WithoutLast("refresh", WithoutLast("warn", disk[d].lines)) \in Seq(Entry)
  BY <1>4, WithoutLastIs
<1>6. Fresh("refresh") \in Entry
  BY FreshIsEntry DEF IInv
<1>7. mem' \in Seq(Entry)
  BY <1>5, <1>6 DEF ResumeFrom
<1>8. tools' \in {0, disk[d].base.value}
  BY DEF ResumeFrom, ToolsOnResume
<1> QED
  BY <1>3, <1>4, <1>5, <1>7, <1>8

LEMMA ResumeKeeps ==
    ASSUME IInv, Bases, NEW d \in Dirs, ResumeHere(d), "switch_raced" \notin Mishaps
    PROVE  IInv'
<1>1. /\ op.at = "none" /\ saver["turn"].at = "off" /\ SwitchQuiet /\ ResumeFrom(d)
      /\ UNCHANGED <<made, disk, saver, op, live, ends, sent>>
  BY DEF ResumeHere, Turning
<1>2. \A s \in Savers : ~Active(s)
  BY <1>1, QuietIs
<1>3. \A s \in Savers : ~Active(s)'
  BY <1>1, <1>2 DEF Active
<1>4. /\ saver \in [Savers -> SaverStates] /\ disk \in DiskStates
      /\ live \in ToolSets /\ entries \in Nat /\ ends \in Nat /\ op \in OpStates
  BY DEF IInv, TypeOK, SaverStates, DiskStates, OpStates
<1>5. dir' = d /\ cached' = NoCount /\ entries' = entries + 1 /\ tools' \in ToolSets \union {0}
  BY <1>1 DEF ResumeFrom, ToolsOnResume, Bases
<1>6. mem' \in Seq(Entry)
  BY <1>1, ResumedIs
<1> QED
  BY <1>1, <1>3, <1>4, <1>5, <1>6, LeaveKeeps

(* A process end writes at most half a line, where a save was writing.      *)
LEMMA DeathDisk ==
    ASSUME IInv, disk' \in DiskOnDeath
    PROVE  /\ disk' \in DiskStates
           /\ \A d \in Dirs : d # dir \/ d \notin made => disk'[d] = disk[d]
           /\ \A d \in Dirs : disk'[d].base = disk[d].base
           /\ disk'[dir].lines \in {disk[dir].lines, Append(disk[dir].lines, Torn)}
<1>1. disk \in DiskStates /\ dir \in Dirs
  BY DEF IInv, TypeOK, DiskStates
<1>2. CASE disk' = disk
  BY <1>1, <1>2
<1>3. CASE disk' # disk
  <2>1. PICK s \in Savers : /\ saver[s].at = "append" /\ saver[s].into \in made
                            /\ disk' = [disk EXCEPT ![saver[s].into].lines = Append(@, Torn)]
    BY <1>3 DEF DiskOnDeath
  <2>2. saver[s].into = dir
    BY <2>1, Writer DEF Active
  <2>3. disk' = [disk EXCEPT ![dir].lines = Append(@, Torn)] /\ dir \in made
    BY <2>1, <2>2
  <2>4. Append(disk[dir].lines, Torn) \in Seq(Entry \union {Torn})
    BY <1>1 DEF DiskStates
  <2> QED
    BY <1>1, <2>3, <2>4 DEF DiskStates
<1> QED
  BY <1>2, <1>3

LEMMA DieKeeps == ASSUME IInv, Die PROVE IInv'
<1>1. /\ ends' = ends + 1 /\ disk' \in DiskOnDeath /\ live' \in ToolSets /\ dir' \in Dirs /\ mem' = <<>>
      /\ cached' = NoCount /\ saver' = [s \in Savers |-> Idle] /\ op' = NoOp /\ tools' = 0
      /\ UNCHANGED <<made, entries, sent>>
  BY DEF Die
<1>2. saver' \in [Savers -> SaverStates] /\ \A s \in Savers : ~Active(s)'
  BY <1>1, Constants DEF Active, Idle
<1>3. entries \in Nat /\ ends \in Nat
  BY DEF IInv, TypeOK
<1>4. disk' \in DiskStates /\ \A d \in Dirs \ made : disk'[d] = disk[d]
  BY <1>1, DeathDisk
<1>5. mem' \in Seq(Entry)
  BY <1>1
<1> QED
  BY <1>1, <1>2, <1>3, <1>4, <1>5, Constants, LeaveKeeps

LEMMA StutterKeeps == ASSUME IInv, UNCHANGED logVars PROVE IInv'
<1> USE DEF logVars
<1>1. TypeOK'
  BY DEF IInv, TypeOK
<1> QED
  BY <1>1 DEF IInv, Exclusive, IntoOpen, Paused, Counted, Untouched, CountIsOfItsFile, Active

LEMMA SavesKeep == ASSUME IInv, NEW s \in Savers, Save(s) PROVE IInv'
  BY AskKeeps, EnterKeeps, ReadKeeps, LineKeeps, DoneKeeps, MetaKeeps, BaseKeeps, FailKeeps DEF Save

LEMMA StepKeeps ==
    ASSUME IInv, Bases, "switch_raced" \notin Mishaps, [Next]_logVars
    PROVE  IInv'
<1>1. CASE Conversation
  BY <1>1, TalkKeeps
<1>2. CASE \E s \in Savers : Save(s)
  BY <1>2, SavesKeep
<1>3. CASE Rewind
  BY <1>3, RewindKeeps, AskKeeps DEF Rewind
<1>4. CASE Compact
  BY <1>4, AskKeeps, TalkKeeps, CompactKeeps DEF Compact
<1>5. CASE \E d \in Dirs : ResumeHere(d)
  BY <1>5, ResumeKeeps
<1>6. CASE Die
  BY <1>6, DieKeeps
<1>7. CASE UNCHANGED logVars
  BY <1>7, StutterKeeps
<1> QED
  BY <1>1, <1>2, <1>3, <1>4, <1>5, <1>6, <1>7 DEF Next

(* A step of a save, as far as tool arrays go: what it takes from tools,    *)
(* and what base.json gets.                                                 *)
SaveMoves(s, r) ==
    /\ saver' = [saver EXCEPT ![s] = r]
    /\ r.frozen = 0 \/ r.frozen = tools \/ (Active(s) /\ r.frozen = saver[s].frozen)
    /\ r.at = "base_write" => r.frozen # 0
    /\ \A d \in Dirs : \/ disk'[d].base = disk[d].base
                       \/ /\ d = dir /\ saver[s].at = "base_write"
                          /\ disk'[d].base = Holding(saver[s].frozen)

LEMMA SaveIsMove == ASSUME IInv, NEW s \in Savers, Save(s) PROVE \E r \in SaverStates : SaveMoves(s, r)
<1>1. saver \in [Savers -> SaverStates] /\ disk \in DiskStates
  BY DEF IInv, TypeOK, SaverStates, DiskStates
<1>2. Idle.frozen = 0 /\ Idle.at = "off" /\ Idle \in SaverStates
  BY Constants DEF Idle
<1>3. ASSUME NEW r \in SaverStates, r.frozen = 0 \/ r.frozen = tools \/ (Active(s) /\ r.frozen = saver[s].frozen),
             r.at = "base_write" => r.frozen # 0, saver' = [saver EXCEPT ![s] = r],
             \A d \in Dirs : disk'[d].base = disk[d].base
      PROVE  SaveMoves(s, r)
  BY <1>3 DEF SaveMoves
<1>4. CASE AskForSave(s)
  <2> DEFINE r == [Idle EXCEPT !.at = "wait", !.into = dir]
  <2>1. r.frozen = 0 /\ r.at = "wait" /\ r \in SaverStates
    BY <1>2 DEF Idle, SaverStates, IInv, TypeOK
  <2>2. saver' = [saver EXCEPT ![s] = r] /\ disk' = disk
    BY <1>4 DEF AskForSave
  <2> HIDE DEF r
  <2> QED
    BY <1>3, <2>1, <2>2
<1>5. ASSUME NEW n \in Nat, NEW reconcile, NEW counted, BeginAppend(s, n, reconcile, counted), disk' = disk
      PROVE  \E r \in SaverStates : SaveMoves(s, r)
  <2> DEFINE r == [Idle EXCEPT !.at = "append", !.count = n, !.rest = SubSeq(mem, n + 1, Len(mem)),
                               !.total = Len(mem), !.into = dir]
  <2>1. r.frozen = 0 /\ r.at = "append" /\ r \in SaverStates
    <3> DEFINE rest == SubSeq(mem, n + 1, Len(mem))
    <3>1. rest \in Seq(Entry) /\ Len(mem) \in Nat /\ dir \in Dirs
      <4>1. mem \in Seq(Entry) /\ dir \in Dirs
        BY DEF IInv, TypeOK
      <4> QED
        BY <4>1, RestIs
    <3> HIDE DEF rest
    <3>2. [Idle EXCEPT !.at = "append", !.count = n, !.rest = rest, !.total = Len(mem), !.into = dir] \in SaverStates
      BY <3>1 DEF Idle, SaverStates
    <3> QED
      BY <3>2 DEF Idle, rest
  <2>2. saver' = [saver EXCEPT ![s] = Idle] \/ saver' = [saver EXCEPT ![s] = r]
    BY <1>5 DEF BeginAppend
  <2> HIDE DEF r
  <2> QED
    BY <1>2, <1>3, <1>5, <2>1, <2>2
<1>6. CASE EnterSave(s)
  <2> DEFINE r == [Idle EXCEPT !.at = "meta", !.count = PersistedCount, !.into = dir]
  <2>n. PersistedCount \in Nat
    BY DEF PersistedCount, CountOnDisk, IInv, TypeOK
  <2>1. r.frozen = 0 /\ r.at = "meta" /\ r \in SaverStates
    <3> DEFINE n == PersistedCount
    <3>1. n \in Nat /\ dir \in Dirs
      BY <2>n DEF IInv, TypeOK
    <3> HIDE DEF n
    <3>2. [Idle EXCEPT !.at = "meta", !.count = n, !.into = dir] \in SaverStates
      BY <3>1, <1>2 DEF Idle, SaverStates
    <3> QED
      BY <3>2 DEF Idle, n
  <2>2. disk' = disk
    BY <1>6 DEF EnterSave
  <2>3. CASE disk[dir].meta.there
    <3>1. saver' = [saver EXCEPT ![s] = r]
      BY <1>6, <2>3 DEF EnterSave
    <3> HIDE DEF r
    <3> QED
      BY <1>3, <2>1, <2>2, <3>1
  <2>4. CASE ~disk[dir].meta.there
    <3>1. BeginAppend(s, PersistedCount, FALSE, [known |-> TRUE, n |-> PersistedCount, of |-> dir])
      BY <1>6, <2>4 DEF EnterSave
    <3> QED
      BY <1>5, <2>2, <2>n, <3>1
  <2> QED
    BY <2>3, <2>4
<1>7. CASE ReadMeta(s)
  BY <1>1, <1>5, <1>7 DEF ReadMeta, SaverStates
<1>8. CASE AppendLine(s)
  <2>1. /\ disk' \in DiskStates /\ \A d \in Dirs : disk'[d].base = disk[d].base
        /\ \E r \in SaverStates : saver' = [saver EXCEPT ![s] = r] /\ r.at = "append" /\ r.frozen = saver[s].frozen
    BY <1>8, LineIs
  <2>2. Active(s)
    BY <1>8 DEF AppendLine, Active
  <2> QED
    BY <1>3, <2>1, <2>2
<1>9. CASE AppendDone(s)
  <2> DEFINE r == [saver[s] EXCEPT !.at = "meta_write", !.into = dir, !.frozen = tools]
  <2>1. r.frozen = tools /\ r.at = "meta_write" /\ r \in SaverStates /\ disk' = disk
        /\ saver' = [saver EXCEPT ![s] = r]
    <3>1. dir \in Dirs /\ tools \in Nat
      BY Constants DEF IInv, TypeOK
    <3> QED
      BY <1>1, <1>9, <3>1 DEF AppendDone, SaverStates
  <2> HIDE DEF r
  <2> QED
    BY <1>3, <2>1
<1>10. CASE WriteMeta(s)
  <2> DEFINE r == [saver[s] EXCEPT !.at = "base_write", !.into = dir]
  <2>1. r.frozen = saver[s].frozen /\ r.at = "base_write" /\ r \in SaverStates
    BY <1>1 DEF SaverStates, IInv, TypeOK
  <2>2. \A d \in Dirs : disk'[d].base = disk[d].base
    BY <1>1, <1>10 DEF WriteMeta, DiskStates
  <2>3. \/ saver' = [saver EXCEPT ![s] = Idle]
        \/ saver' = [saver EXCEPT ![s] = r] /\ saver[s].frozen # 0
    <3>1. CASE saver[s].frozen = 0
      <4>1. saver' = [saver EXCEPT ![s] = IF saver[s].frozen = 0 \/ disk[dir].base.there THEN Idle ELSE r]
        BY <1>10 DEF WriteMeta
      <4>2. saver' = [saver EXCEPT ![s] = Idle]
        BY <3>1, <4>1
      <4> QED
        BY <4>2
    <3>2. CASE saver[s].frozen # 0
      BY <1>10, <3>2 DEF WriteMeta
    <3> QED
      BY <3>1, <3>2
  <2>4. Active(s)
    BY <1>10 DEF WriteMeta, Active
  <2> HIDE DEF r
  <2> QED
    BY <1>2, <1>3, <2>1, <2>2, <2>3, <2>4
<1>11. CASE WriteBase(s)
  <2>1. saver[s].at = "base_write" /\ saver[s].into = dir /\ saver' = [saver EXCEPT ![s] = Idle]
    BY <1>11, Writer DEF WriteBase, Active
  <2>2. disk' = [disk EXCEPT ![dir].base = Holding(saver[s].frozen)]
    BY <1>11, <2>1 DEF WriteBase
  <2>3. \A d \in Dirs : \/ disk'[d].base = disk[d].base
                        \/ d = dir /\ disk'[d].base = Holding(saver[s].frozen)
    BY <1>1, <2>2 DEF DiskStates
  <2> QED
    BY <1>2, <2>1, <2>3 DEF SaveMoves
<1>12. CASE SaveFails(s)
  <2>1. saver' = [saver EXCEPT ![s] = Idle] /\ disk' = disk
    BY <1>12 DEF SaveFails
  <2> QED
    BY <1>2, <1>3, <2>1
<1> QED
  BY <1>4, <1>6, <1>7, <1>8, <1>9, <1>10, <1>11, <1>12 DEF Save


LEMMA BasesBy ==
    ASSUME IInv, Bases,
           \A s \in Savers : \/ saver'[s] = saver[s]
                             \/ saver'[s].frozen = 0 /\ saver'[s].at # "base_write",
           \A d \in Dirs : disk'[d].base = disk[d].base
    PROVE  Bases'
  BY DEF Bases

LEMMA SavesKeepBases == ASSUME IInv, Bases, NEW s \in Savers, Save(s) PROVE Bases'
<1>1. PICK r \in SaverStates : SaveMoves(s, r)
  BY SaveIsMove
<1>2. /\ saver \in [Savers -> SaverStates] /\ tools \in ToolSets \union {0}
      /\ saver[s].frozen \in ToolSets \union {0}
  BY DEF IInv, TypeOK, SaverStates, Bases
<1>3. /\ saver'[s] = r /\ r.frozen \in ToolSets \union {0}
      /\ \A t \in Savers \ {s} : saver'[t] = saver[t]
  BY <1>1, <1>2 DEF SaveMoves
<1>4. \A d \in Dirs : disk'[d].base.there => disk'[d].base.value \in ToolSets
  <2>1. saver[s].at = "base_write" => saver[s].frozen \in ToolSets
    BY <1>2 DEF Bases
  <2>2. SUFFICES ASSUME NEW d \in Dirs, disk'[d].base.there PROVE disk'[d].base.value \in ToolSets
    OBVIOUS
  <2>3. CASE disk'[d].base = disk[d].base
    BY <2>2, <2>3 DEF Bases
  <2>4. CASE saver[s].at = "base_write" /\ disk'[d].base = Holding(saver[s].frozen)
    BY <2>1, <2>4 DEF Holding
  <2> QED
    BY <1>1, <2>3, <2>4 DEF SaveMoves
<1>5. ASSUME NEW t \in Savers
      PROVE  saver'[t].frozen \in ToolSets \union {0} /\ (saver'[t].at = "base_write" => saver'[t].frozen # 0)
  <2>1. CASE t = s
    BY <1>1, <1>3, <2>1 DEF SaveMoves
  <2>2. CASE t # s
    BY <1>3, <2>2 DEF Bases
  <2> QED
    BY <2>1, <2>2
<1> QED
  BY <1>4, <1>5 DEF Bases

LEMMA StepKeepsBases == ASSUME IInv, Bases, [Next]_logVars PROVE Bases'
<1>1. saver \in [Savers -> SaverStates]
  BY DEF IInv, TypeOK, SaverStates
<1>2. /\ Idle.frozen = 0 /\ Idle.at = "off"
      /\ [Idle EXCEPT !.at = "wait"].frozen = 0 /\ [Idle EXCEPT !.at = "wait"].at = "wait"
  BY DEF Idle
<1>3. CASE \E s \in Savers : Save(s)
  BY <1>3, SavesKeepBases
<1>4. CASE Conversation \/ EndRewind \/ AskForSummary \/ SummaryArrives \/ UNCHANGED logVars
           \/ \E d \in Dirs : ResumeHere(d)
  <2>1. disk' = disk /\ saver' = saver
    BY <1>4 DEF Conversation, TakePrompt, AddMessage, AddWarning, SendRequest, ToolsChange, EndRewind,
       AskForSummary, SummaryArrives, logVars, ResumeHere
  <2> QED
    BY <2>1, BasesBy
<1>5. CASE BeginCompact \/ EndCompact \/ (\E keep \in 0..(Len(mem) - 1) : BeginRewind(keep))
           \/ \E saves \in BOOLEAN : CompactFails(saves)
  <2>1. disk' = disk /\ (saver' = saver \/ saver' = [saver EXCEPT !["turn"] = [Idle EXCEPT !.at = "wait"]])
    BY <1>5 DEF BeginCompact, EndCompact, BeginRewind, RewindSave, CompactFails
  <2>2. \A s \in Savers : \/ saver'[s] = saver[s]
                          \/ saver'[s].frozen = 0 /\ saver'[s].at # "base_write"
    BY <1>1, <1>2, <2>1
  <2> QED
    BY <2>1, <2>2, BasesBy
<1>6. CASE Die
  <2>1. \A d \in Dirs : disk'[d].base = disk[d].base
    BY <1>6, DeathDisk DEF Die
  <2>2. \A s \in Savers : saver'[s].frozen = 0 /\ saver'[s].at # "base_write"
    BY <1>2, <1>6 DEF Die
  <2> QED
    BY <2>1, <2>2, BasesBy
<1> QED
  BY <1>3, <1>4, <1>5, <1>6 DEF Next, Rewind, Compact

(* Files change only where the open session is. *)
LEMMA OthersRest ==
    ASSUME IInv, [Next]_logVars, NEW d \in Dirs, d # dir
    PROVE  disk'[d] = disk[d]
<1>1. disk \in DiskStates
  BY DEF IInv, TypeOK, DiskStates
<1>2. CASE disk' = disk
  BY <1>2
<1>3. ASSUME NEW s \in Savers, Save(s), disk' # disk PROVE disk'[d] = disk[d]
  <2>1. AppendLine(s) \/ WriteMeta(s) \/ WriteBase(s)
    BY <1>3 DEF Save, AskForSave, EnterSave, ReadMeta, AppendDone, SaveFails
  <2>2. saver[s].into = dir
    BY <2>1, Writer DEF AppendLine, WriteMeta, WriteBase, Active
  <2>3. CASE AppendLine(s)
    BY <2>3, LineIs
  <2>4. CASE WriteMeta(s)
    BY <1>1, <2>2, <2>4 DEF WriteMeta, DiskStates
  <2>5. CASE WriteBase(s)
    BY <1>1, <2>2, <2>5 DEF WriteBase, DiskStates
  <2> QED
    BY <2>1, <2>3, <2>4, <2>5
<1>4. CASE Die
  BY <1>4, DeathDisk DEF Die
<1>5. CASE Conversation \/ Rewind \/ Compact \/ UNCHANGED logVars \/ \E e \in Dirs : ResumeHere(e)
  <2>1. disk' = disk
    BY <1>5 DEF Conversation, TakePrompt, AddMessage, AddWarning, SendRequest, ToolsChange, Rewind, EndRewind,
       BeginRewind, Compact, BeginCompact, AskForSummary, SummaryArrives, EndCompact, CompactFails,
       ResumeHere, logVars
  <2> QED
    BY <2>1
<1> QED
  BY <1>2, <1>3, <1>4, <1>5 DEF Next


-----------------------------------------------------------------------------
(* The tool array of a session. *)

LEMMA SavesKeepTools == ASSUME IInv, Bases, ToolsInv, NEW s \in Savers, Save(s) PROVE ToolsInv'
<1>1. PICK r \in SaverStates : SaveMoves(s, r)
  BY SaveIsMove
<1>2. saver \in [Savers -> SaverStates] /\ dir \in Dirs /\ tools \in ToolSets \union {0}
  BY DEF IInv, TypeOK, SaverStates
<1>3. saver'[s] = r /\ \A t \in Savers \ {s} : saver'[t] = saver[t]
  BY <1>1, <1>2 DEF SaveMoves
<1>4. UNCHANGED <<dir, tools, sent>>
  BY DEF Save, AskForSave, EnterSave, ReadMeta, AppendLine, AppendDone, WriteMeta, WriteBase, SaveFails
<1>5. saver[s].at = "base_write" => saver[s].frozen = tools /\ tools # 0
  <2>1. saver[s].at = "base_write" => saver[s].frozen # 0
    BY DEF Bases
  <2> QED
    BY <2>1 DEF ToolsInv, Active
<1>6. \A d \in Dirs : \/ disk'[d].base = disk[d].base
                      \/ d = dir /\ disk'[d].base.value = tools
  BY <1>1, <1>5 DEF SaveMoves, Holding
<1>7. ASSUME NEW t \in Savers, Active(t)', saver'[t].frozen # 0 PROVE saver'[t].frozen = tools'
  <2>1. CASE t = s
    BY <1>1, <1>3, <1>4, <1>7, <2>1 DEF SaveMoves, ToolsInv
  <2>2. CASE t # s
    BY <1>3, <1>4, <1>7, <2>2 DEF ToolsInv, Active
  <2> QED
    BY <2>1, <2>2
<1>8. /\ sent'[dir'] \subseteq {tools'} \ {0}
      /\ \A d \in Dirs : \E t \in ToolSets : sent'[d] \subseteq {t}
  BY <1>4 DEF ToolsInv
<1>9. /\ \A d \in Dirs : disk'[d].base.there => sent'[d] \subseteq {disk'[d].base.value}
      /\ disk'[dir'].base.there => disk'[dir'].base.value = tools'
  BY <1>2, <1>4, <1>6 DEF ToolsInv
<1> QED
  BY <1>7, <1>8, <1>9 DEF ToolsInv

(* A request carries the frozen array. *)
LEMMA RequestKeepsTools ==
    ASSUME IInv, Bases, ToolsInv, SendRequest \/ AskForSummary PROVE ToolsInv'
<1>1. /\ tools' = Frozen /\ sent' = [sent EXCEPT ![dir] = @ \union {Frozen}]
      /\ UNCHANGED <<dir, disk, saver>>
  BY DEF SendRequest, AskForSummary
<1>2. Frozen \in ToolSets /\ 0 \notin ToolSets /\ dir \in Dirs /\ sent \in [Dirs -> SUBSET ToolSets]
  BY Constants DEF Frozen, IInv, TypeOK
<1>3. tools = 0 => sent[dir] = {} /\ ~disk[dir].base.there
                   /\ \A s \in Savers : Active(s) => saver[s].frozen = 0
  <2>1. disk[dir].base.there => disk[dir].base.value \in ToolSets
    BY <1>2 DEF Bases
  <2> QED
    BY <1>2, <2>1 DEF ToolsInv
<1>4. tools # 0 => Frozen = tools
  BY DEF Frozen
<1>5. sent[dir] \subseteq {Frozen}
  BY <1>3, <1>4 DEF ToolsInv
<1>6. sent'[dir] = {Frozen} /\ \A d \in Dirs \ {dir} : sent'[d] = sent[d]
  BY <1>1, <1>2, <1>5
<1>7. sent'[dir'] \subseteq {tools'} \ {0}
  BY <1>1, <1>2, <1>6
<1>8. \A d \in Dirs : disk'[d].base.there => sent'[d] \subseteq {disk'[d].base.value}
  <2>1. disk[dir].base.there => disk[dir].base.value = Frozen
    BY <1>3, <1>4 DEF ToolsInv
  <2> QED
    BY <1>1, <1>6, <2>1 DEF ToolsInv
<1>9. \A d \in Dirs : \E t \in ToolSets : sent'[d] \subseteq {t}
  BY <1>2, <1>6 DEF ToolsInv
<1>10. disk'[dir'].base.there => disk'[dir'].base.value = tools'
  BY <1>1, <1>3, <1>4 DEF ToolsInv
<1>11. \A s \in Savers : Active(s)' /\ saver'[s].frozen # 0 => saver'[s].frozen = tools'
  BY <1>1, <1>3, <1>4 DEF ToolsInv, Active
<1> QED
  BY <1>7, <1>8, <1>9, <1>10, <1>11 DEF ToolsInv

(* A session that is entered has the array of its base.json, or has never   *)
(* sent a request.                                                          *)
LEMMA EnterTools ==
    ASSUME ToolsInv, \A s \in Savers : ~Active(s)', sent' = sent, dir' \in Dirs,
           \A d \in Dirs : disk'[d].base = disk[d].base,
           \/ sent[dir'] = {} /\ ~disk[dir'].base.there
           \/ disk[dir'].base.there /\ disk[dir'].base.value \in ToolSets /\ tools' = disk[dir'].base.value
    PROVE  ToolsInv'
<1>1. 0 \notin ToolSets
  BY Constants
<1>2. sent'[dir'] \subseteq {tools'} \ {0}
  BY <1>1 DEF ToolsInv
<1>3. \A d \in Dirs : /\ disk'[d].base.there => sent'[d] \subseteq {disk'[d].base.value}
                      /\ \E t \in ToolSets : sent'[d] \subseteq {t}
  BY DEF ToolsInv
<1> QED
  BY <1>2, <1>3 DEF ToolsInv

LEMMA StepKeepsTools ==
    ASSUME IInv, Bases, ToolsInv, {"switch_raced", "baseless"} \intersect Mishaps = {}, [Next]_logVars
    PROVE  ToolsInv'
<1>0. "switch_raced" \notin Mishaps /\ "baseless" \notin Mishaps
  OBVIOUS
<1>1. CASE \E s \in Savers : Save(s)
  BY <1>1, SavesKeepTools
<1>2. CASE SendRequest \/ AskForSummary
  BY <1>2, RequestKeepsTools
<1>3. ASSUME UNCHANGED <<dir, disk, tools, sent>>,
             \A s \in Savers : saver'[s] = saver[s] \/ saver'[s].at = "wait"
      PROVE  ToolsInv'
  BY <1>3 DEF ToolsInv, Active
<1>4. CASE TakePrompt \/ AddMessage \/ AddWarning \/ ToolsChange \/ SummaryArrives \/ UNCHANGED logVars
  <2>1. UNCHANGED <<dir, disk, tools, sent, saver>>
    BY <1>4 DEF TakePrompt, AddMessage, AddWarning, ToolsChange, SummaryArrives, logVars
  <2> QED
    BY <1>3, <2>1
<1>5. CASE BeginCompact \/ (\E keep \in 0..(Len(mem) - 1) : BeginRewind(keep))
           \/ \E saves \in BOOLEAN : CompactFails(saves)
  <2>1. /\ UNCHANGED <<dir, disk, tools, sent>>
        /\ saver' = saver \/ saver' = [saver EXCEPT !["turn"] = [Idle EXCEPT !.at = "wait"]]
    BY <1>5 DEF BeginCompact, BeginRewind, RewindSave, CompactFails
  <2>2. saver \in [Savers -> SaverStates]
    BY DEF IInv, TypeOK, SaverStates
  <2>3. \A s \in Savers : saver'[s] = saver[s] \/ saver'[s].at = "wait"
    BY <2>1, <2>2, Constants
  <2> QED
    BY <1>3, <2>1, <2>3
<1>6. CASE EndRewind \/ EndCompact \/ Die
  <2>1. PICK d \in Dirs : NewDir(d) /\ dir' = d
    BY <1>6 DEF EndRewind, EndCompact, Die
  <2>2. sent[d] = {} /\ ~disk[d].base.there
    BY <2>1, NewDirIs DEF IInv, Untouched
  <2>3. sent' = sent /\ \A e \in Dirs : disk'[e].base = disk[e].base
    BY <1>6, DeathDisk DEF EndRewind, EndCompact, Die
  <2>4. \A s \in Savers : ~Active(s)'
    <3>1. CASE EndRewind
      BY <3>1 DEF EndRewind, Continuing, IInv, Paused, Active
    <3>2. CASE EndCompact
      <4>1. \A s \in Savers : ~Active(s)
        BY <1>0, <3>2, QuietIs DEF EndCompact, IInv, Paused
      <4>2. saver \in [Savers -> SaverStates]
        BY DEF IInv, TypeOK, SaverStates
      <4>3. \A s \in Savers : saver'[s] = saver[s] \/ saver'[s].at = "wait"
        BY <3>2, <4>2, Constants DEF EndCompact
      <4> QED
        BY <4>1, <4>3 DEF Active
    <3>3. CASE Die
      BY <3>3 DEF Die, Active, Idle
    <3> QED
      BY <1>6, <3>1, <3>2, <3>3
  <2> QED
    BY <2>1, <2>2, <2>3, <2>4, EnterTools
<1>7. ASSUME NEW d \in Dirs, ResumeHere(d) PROVE ToolsInv'
  <2>1. \A s \in Savers : ~Active(s)'
    <3>1. \A s \in Savers : ~Active(s)
      BY <1>0, <1>7, QuietIs DEF ResumeHere
    <3> QED
      BY <1>7, <3>1 DEF ResumeHere, Active
  <2>2. sent' = sent /\ disk' = disk /\ dir' = d
    BY <1>7 DEF ResumeHere, ResumeFrom
  <2>3. \/ sent[d] = {} /\ ~disk[d].base.there
        \/ disk[d].base.there /\ disk[d].base.value \in ToolSets /\ tools' = disk[d].base.value
    BY <1>0, <1>7 DEF ResumeHere, ResumeFrom, ToolsOnResume, Bases
  <2> QED
    BY <2>1, <2>2, <2>3, EnterTools
<1> QED
  BY <1>1, <1>2, <1>4, <1>5, <1>6, <1>7 DEF Next, Conversation, Rewind, Compact

LEMMA OneToolArray == ASSUME IInv, ToolsInv PROVE PrefixStable
<1> SUFFICES ASSUME NEW d \in Dirs PROVE Cardinality(sent[d]) <= 1
  BY DEF PrefixStable
<1>1. PICK t \in ToolSets : sent[d] \subseteq {t}
  BY DEF ToolsInv
<1>2. IsFiniteSet({t}) /\ Cardinality({t}) = 1
  BY FS_Singleton
<1> QED
  BY <1>1, <1>2, FS_Subset

-----------------------------------------------------------------------------
(* messages.jsonl and the conversation. *)

(* Nobody appends, and the file of the open session is a prefix.            *)
LEMMA PrefixBy ==
    ASSUME NoWarning', \A s \in Savers : saver'[s].at # "append",
           /\ Len(disk'[dir'].lines) <= Len(mem')
           /\ \A i \in 1..Len(disk'[dir'].lines) : StandsFor(disk'[dir'].lines[i], mem'[i])
    PROVE  PrefixInv'
  BY DEF PrefixInv, DiskIsPrefix, RestFollows

(* A message is added.                                                      *)
LEMMA GrowthKeepsPrefix ==
    ASSUME IInv, PrefixInv, NEW kind \in {"msg", "refresh"}, mem' = Append(mem, Fresh(kind)),
           op.at # "counting", UNCHANGED <<dir, disk, saver>>
    PROVE  PrefixInv'
<1>1. mem \in Seq(Entry) /\ Fresh(kind) \in Entry /\ Fresh(kind).kind # "warn"
  BY FreshIsEntry DEF IInv, TypeOK, Fresh
<1>2. /\ Len(mem') = Len(mem) + 1 /\ Len(mem) \in Nat /\ mem'[Len(mem) + 1] = Fresh(kind)
      /\ \A i \in 1..Len(mem) : mem'[i] = mem[i]
  BY <1>1
<1>3. /\ disk[dir].lines \in Seq(Entry \union {Torn})
      /\ \A s \in Savers : saver[s].rest \in Seq(Entry) /\ saver[s].count \in Nat
  BY DEF IInv, TypeOK
<1>4. NoWarning'
  BY <1>1, <1>2 DEF PrefixInv, NoWarning
<1>5. DiskIsPrefix'
  <2>1. Len(disk[dir].lines) <= Len(mem) /\ Len(disk[dir].lines) \in Nat
        /\ \A i \in 1..Len(disk[dir].lines) : StandsFor(disk[dir].lines[i], mem[i])
    BY <1>3 DEF PrefixInv, DiskIsPrefix
  <2>2. \A i \in 1..Len(disk[dir].lines) : mem'[i] = mem[i]
    BY <1>2, <2>1
  <2> QED
    BY <1>2, <2>1, <2>2 DEF DiskIsPrefix
<1>6. RestFollows'
  <2> SUFFICES ASSUME NEW s \in Savers, saver[s].at = "append"
               PROVE  /\ saver[s].count + Len(saver[s].rest) <= Len(mem')
                      /\ \A j \in 1..Len(saver[s].rest) : saver[s].rest[j] = mem'[saver[s].count + j]
    BY DEF RestFollows
  <2>1. /\ saver[s].count + Len(saver[s].rest) <= Len(mem)
        /\ \A j \in 1..Len(saver[s].rest) : saver[s].rest[j] = mem[saver[s].count + j]
    BY DEF PrefixInv, RestFollows
  <2>2. \A j \in 1..Len(saver[s].rest) : saver[s].count + j \in 1..Len(mem)
    BY <1>2, <1>3, <2>1
  <2>3. Len(saver[s].rest) \in Nat
    BY <1>3
  <2> QED
    BY <1>2, <1>3, <2>1, <2>2, <2>3
<1> QED
  BY <1>4, <1>5, <1>6 DEF PrefixInv

(* The files and the conversation stay as they are.                         *)
LEMMA RestKeepsPrefix ==
    ASSUME PrefixInv, UNCHANGED <<mem, dir, disk>>, op'.at = "counting" \/ op.at # "counting",
           \A s \in Savers : saver'[s] = saver[s] \/ (saver'[s].at # "append" /\ saver'[s].rest = <<>>)
    PROVE  PrefixInv'
<1>1. NoWarning'
  BY DEF PrefixInv, NoWarning
<1>2. DiskIsPrefix'
  BY DEF PrefixInv, DiskIsPrefix
<1>3. RestFollows'
  BY DEF PrefixInv, RestFollows
<1> QED
  BY <1>1, <1>2, <1>3 DEF PrefixInv

LEMMA Remainder == \A n, m \in Nat : n <= m => n + (IF n < m THEN m - n ELSE 0) <= m
  OBVIOUS

(* What an append will write follows what it counted. *)
LEMMA PreparedFollows ==
    ASSUME IInv, PrefixInv, NEW s \in Savers, NEW n \in Nat, n = Len(disk[dir].lines),
           NEW reconcile \in BOOLEAN, NEW counted \in [known : BOOLEAN, n : Nat, of : Dirs],
           BeginAppend(s, n, reconcile, counted), UNCHANGED <<mem, dir, disk, op>>
    PROVE  PrefixInv'
<1> DEFINE rest == SubSeq(mem, n + 1, Len(mem))
<1>1. mem \in Seq(Entry) /\ Len(mem) \in Nat
  BY DEF IInv, TypeOK
<1>2. /\ rest \in Seq(Entry) /\ Len(rest) = IF n < Len(mem) THEN Len(mem) - n ELSE 0
      /\ \A j \in 1..Len(rest) : rest[j] = mem[n + j]
  BY <1>1, RestIs
<1>3. \A j \in 1..Len(rest) : n + j \in 1..Len(mem)
  <2> HIDE DEF rest
  <2> QED
    BY <1>1, <1>2
<1>4. \A j \in 1..Len(rest) : rest[j].kind # "warn"
  <2> HIDE DEF rest
  <2> QED
    BY <1>2, <1>3 DEF PrefixInv, NoWarning
<1>5. PICK r \in SaverStates :
         /\ saver' = [saver EXCEPT ![s] = r]
         /\ r.at = "off" \/ (r.at = "append" /\ r.count = n /\ r.rest = rest)
         /\ r.at = "off" => r.rest = <<>>
  <2> DEFINE q == [Idle EXCEPT !.at = "append", !.count = n, !.rest = rest, !.total = Len(mem), !.into = dir]
  <2>1. saver' = [saver EXCEPT ![s] = Idle] \/ saver' = [saver EXCEPT ![s] = q]
    BY DEF BeginAppend
  <2>2. Idle \in SaverStates /\ Idle.at = "off" /\ Idle.rest = <<>>
    BY Constants DEF Idle
  <2>3. q \in SaverStates /\ q.at = "append" /\ q.count = n /\ q.rest = rest
    <3> HIDE DEF rest
    <3>1. dir \in Dirs
      BY DEF IInv, TypeOK
    <3> QED
      BY <1>1, <1>2, <3>1 DEF Idle, SaverStates
  <2> HIDE DEF q, rest
  <2> QED
    BY <2>1, <2>2, <2>3
<1> HIDE DEF rest
<1>6. saver \in [Savers -> SaverStates]
  BY DEF IInv, TypeOK, SaverStates
<1>7. saver'[s] = r /\ \A t \in Savers \ {s} : saver'[t] = saver[t]
  BY <1>5, <1>6
<1>8. NoWarning'
  <2>1. \A j \in 1..Len(r.rest) : r.rest[j].kind # "warn"
    BY <1>4, <1>5
  <2> QED
    BY <1>7, <2>1 DEF PrefixInv, NoWarning
<1>9. DiskIsPrefix'
  BY DEF PrefixInv, DiskIsPrefix
<1>10. RestFollows'
  <2> SUFFICES ASSUME op.at # "counting", NEW t \in Savers, saver'[t].at = "append"
               PROVE  /\ saver'[t].count + Len(saver'[t].rest) <= Len(mem)
                      /\ \A j \in 1..Len(saver'[t].rest) : saver'[t].rest[j] = mem[saver'[t].count + j]
    BY DEF RestFollows
  <2>1. CASE t = s
    <3>1. r.count = n /\ r.rest = rest
      BY <1>5, <1>7, <2>1
    <3>2. n <= Len(mem)
      BY DEF PrefixInv, DiskIsPrefix
    <3>3. n + Len(rest) <= Len(mem)
      <4>1. Len(rest) = IF n < Len(mem) THEN Len(mem) - n ELSE 0
        BY <1>2
      <4> QED
        BY <1>1, <3>2, <4>1, Remainder
    <3> QED
      BY <1>2, <1>7, <2>1, <3>1, <3>3
  <2>2. CASE t # s
    BY <1>7, <2>2 DEF PrefixInv, RestFollows
  <2> QED
    BY <2>1, <2>2
<1> QED
  BY <1>8, <1>9, <1>10 DEF PrefixInv

LEMMA TalkKeepsPrefix ==
    ASSUME IInv, PrefixInv, "write_up_cut" \notin Mishaps, Conversation \/ AskForSummary \/ SummaryArrives
    PROVE  PrefixInv'
<1>1. WithoutLast("warn", mem) = mem
  <2>1. CASE mem = <<>>
    BY <2>1 DEF WithoutLast
  <2>2. CASE mem # <<>>
    <3>1. Len(mem) \in 1..Len(mem)
      BY <2>2 DEF IInv, TypeOK
    <3>2. Last(mem).kind # "warn"
      BY <3>1 DEF Last, PrefixInv, NoWarning
    <3> QED
      BY <3>2 DEF WithoutLast
  <2> QED
    BY <2>1, <2>2
<1>2. CASE TakePrompt \/ AddMessage \/ AskForSummary
  <2>1. mem' = Append(mem, Fresh("msg")) /\ op.at # "counting" /\ UNCHANGED <<dir, disk, saver>>
    BY <1>1, <1>2 DEF TakePrompt, AddMessage, AskForSummary, Turning
  <2> QED
    BY <2>1, GrowthKeepsPrefix
<1>3. CASE SendRequest \/ ToolsChange
  <2>1. UNCHANGED <<mem, dir, disk, saver, op>>
    BY <1>3 DEF SendRequest, ToolsChange
  <2> QED
    BY <2>1, RestKeepsPrefix
<1>4. CASE SummaryArrives
  <2>1. mem' = <<Fresh("msg")>> /\ op'.at = "counting" /\ UNCHANGED <<disk, saver>>
    BY <1>4, Constants DEF SummaryArrives, NoOp
  <2>2. Fresh("msg").kind = "msg"
    BY DEF Fresh
  <2>3. NoWarning'
    BY <2>1, <2>2 DEF PrefixInv, NoWarning
  <2> QED
    BY <2>1, <2>3 DEF PrefixInv, DiskIsPrefix, RestFollows
<1> QED
  BY <1>2, <1>3, <1>4 DEF Conversation, AddWarning

LEMMA LineKeepsPrefix == ASSUME IInv, PrefixInv, NEW s \in Savers, AppendLine(s) PROVE PrefixInv'
<1>1. PICK r \in SaverStates :
         /\ saver' = [saver EXCEPT ![s] = r]
         /\ r.at = "append" /\ r.count = saver[s].count + 1 /\ r.rest = Tail(saver[s].rest)
         /\ saver[s].rest # <<>> /\ saver[s].count = Len(disk[dir].lines)
         /\ \A d \in Dirs \ {dir} : disk'[d] = disk[d]
         /\ disk'[dir].lines = Append(disk[dir].lines, Head(saver[s].rest))
  BY LineIs
<1>2. UNCHANGED <<mem, dir, op>> /\ saver[s].at = "append"
  BY DEF AppendLine
<1>3. /\ saver \in [Savers -> SaverStates] /\ dir \in Dirs /\ mem \in Seq(Entry)
      /\ saver[s].rest \in Seq(Entry) /\ saver[s].count \in Nat
      /\ disk[dir].lines \in Seq(Entry \union {Torn})
  BY DEF IInv, TypeOK, SaverStates
<1> DEFINE rest == saver[s].rest  lines == disk[dir].lines  count == saver[s].count
<1>4. saver'[s] = r /\ \A t \in Savers \ {s} : saver'[t] = saver[t]
  BY <1>1, <1>3
<1>5. /\ rest \in Seq(Entry) /\ Len(rest) \in Nat \ {0} /\ Head(rest) = rest[1] /\ rest[1] \in Entry
      /\ Len(r.rest) = Len(rest) - 1 /\ \A j \in 1..Len(r.rest) : r.rest[j] = rest[j + 1]
  <2>1. r.rest = Tail(rest)
    BY <1>1
  <2>2. rest \in Seq(Entry) /\ rest # <<>>
    BY <1>1, <1>3
  <2> HIDE DEF rest
  <2> QED
    BY <2>1, <2>2
<1>6. /\ disk'[dir].lines = Append(lines, rest[1]) /\ lines \in Seq(Entry \union {Torn}) /\ count = Len(lines)
      /\ r.count = count + 1 /\ count \in Nat
  BY <1>1, <1>3, <1>5
<1>7. /\ op.at # "counting" => count + Len(rest) <= Len(mem)
      /\ op.at # "counting" => \A j \in 1..Len(rest) : rest[j] = mem[count + j]
      /\ \A j \in 1..Len(rest) : rest[j].kind # "warn"
  BY <1>2 DEF PrefixInv, RestFollows, NoWarning
<1>8. /\ op.at # "counting" => Len(lines) <= Len(mem)
      /\ op.at # "counting" => \A i \in 1..Len(lines) : StandsFor(lines[i], mem[i])
      /\ \A i \in 1..Len(lines) : lines[i].kind # "warn"
  BY <1>3 DEF PrefixInv, DiskIsPrefix, NoWarning
<1> HIDE DEF rest, lines, count
<1>9. /\ Len(disk'[dir].lines) = count + 1 /\ disk'[dir].lines[count + 1] = rest[1]
      /\ \A i \in 1..count : disk'[dir].lines[i] = lines[i]
  <2>1. rest[1] \in Entry \union {Torn} /\ Len(lines) \in Nat
    BY <1>5, <1>6
  <2> QED
    BY <1>6, <2>1
<1>10. NoWarning'
  <2>1. \A i \in 1..Len(disk'[dir].lines) : disk'[dir].lines[i].kind # "warn"
    <3>1. \A i \in 1..(count + 1) : i \in 1..count \/ i = count + 1
      BY <1>6
    <3>2. 1 \in 1..Len(rest)
      BY <1>5
    <3> QED
      BY <1>6, <1>7, <1>8, <1>9, <3>1, <3>2
  <2>2. \A j \in 1..Len(r.rest) : r.rest[j].kind # "warn"
    <3>1. \A j \in 1..Len(r.rest) : j + 1 \in 1..Len(rest)
      BY <1>5
    <3> QED
      BY <1>5, <1>7, <3>1
  <2>3. \A i \in 1..Len(mem) : mem[i].kind # "warn"
    BY DEF PrefixInv, NoWarning
  <2>4. ASSUME NEW d \in Dirs PROVE \A i \in 1..Len(disk'[d].lines) : disk'[d].lines[i].kind # "warn"
    <3>1. CASE d = dir
      BY <2>1, <3>1
    <3>2. CASE d # dir
      BY <1>1, <3>2 DEF PrefixInv, NoWarning
    <3> QED
      BY <3>1, <3>2
  <2>5. ASSUME NEW t \in Savers PROVE \A i \in 1..Len(saver'[t].rest) : saver'[t].rest[i].kind # "warn"
    <3>1. CASE t = s
      BY <1>4, <2>2, <3>1
    <3>2. CASE t # s
      BY <1>4, <3>2 DEF PrefixInv, NoWarning
    <3> QED
      BY <3>1, <3>2
  <2> QED
    BY <1>2, <2>3, <2>4, <2>5 DEF NoWarning
<1>11. DiskIsPrefix'
  <2> SUFFICES ASSUME op.at # "counting"
               PROVE  /\ Len(disk'[dir].lines) <= Len(mem)
                      /\ \A i \in 1..Len(disk'[dir].lines) : StandsFor(disk'[dir].lines[i], mem[i])
    BY <1>2 DEF DiskIsPrefix
  <2>1. count + 1 <= Len(mem) /\ rest[1] = mem[count + 1]
    <3>1. count + Len(rest) <= Len(mem) /\ 1 \in 1..Len(rest) /\ Len(mem) \in Nat
      BY <1>3, <1>5, <1>7
    <3> QED
      BY <1>5, <1>6, <1>7, <3>1
  <2>2. ASSUME NEW i \in 1..(count + 1) PROVE StandsFor(disk'[dir].lines[i], mem[i])
    <3>1. i \in 1..count \/ i = count + 1
      BY <1>6
    <3>2. CASE i = count + 1
      BY <1>9, <2>1, <3>2 DEF StandsFor
    <3>3. CASE i \in 1..count
      BY <1>6, <1>8, <1>9, <3>3
    <3> QED
      BY <3>1, <3>2, <3>3
  <2> QED
    BY <1>9, <2>1, <2>2
<1>12. RestFollows'
  <2> SUFFICES ASSUME op.at # "counting", NEW t \in Savers, saver'[t].at = "append"
               PROVE  /\ saver'[t].count + Len(saver'[t].rest) <= Len(mem)
                      /\ \A j \in 1..Len(saver'[t].rest) : saver'[t].rest[j] = mem[saver'[t].count + j]
    BY <1>2 DEF RestFollows
  <2>1. CASE t = s
    <3>1. count + Len(rest) <= Len(mem) /\ \A j \in 1..Len(rest) : rest[j] = mem[count + j]
      BY <1>7
    <3>2. \A j \in 1..Len(r.rest) : j + 1 \in 1..Len(rest) /\ count + (j + 1) = r.count + j
      BY <1>5, <1>6
    <3>3. r.count + Len(r.rest) <= Len(mem)
      <4>1. Len(mem) \in Nat
        BY <1>3
      <4> QED
        BY <1>5, <1>6, <3>1, <4>1
    <3>4. \A j \in 1..Len(r.rest) : r.rest[j] = mem[r.count + j]
      BY <1>5, <3>1, <3>2
    <3> QED
      BY <1>4, <2>1, <3>3, <3>4
  <2>2. CASE t # s
    BY <1>4, <2>2 DEF PrefixInv, RestFollows
  <2> QED
    BY <2>1, <2>2
<1> QED
  BY <1>10, <1>11, <1>12 DEF PrefixInv

LEMMA SavesKeepPrefix == ASSUME IInv, PrefixInv, NEW s \in Savers, Save(s) PROVE PrefixInv'
<1>1. /\ disk \in DiskStates /\ saver \in [Savers -> SaverStates] /\ dir \in Dirs
      /\ cached \in [known : BOOLEAN, n : Nat, of : Dirs]
  BY DEF IInv, TypeOK, SaverStates, DiskStates
<1>2. Idle.at = "off" /\ Idle.rest = <<>>
  BY DEF Idle
(* The save is not appending after the step, and no line is written.        *)
<1>3. ASSUME NEW r, r.at # "append", r.rest = <<>> \/ r.rest = saver[s].rest, saver' = [saver EXCEPT ![s] = r],
             UNCHANGED <<mem, dir>>, op'.at = "counting" \/ op.at # "counting",
             \A d \in Dirs : disk'[d].lines = disk[d].lines
      PROVE  PrefixInv'
  <2>1. saver'[s] = r /\ \A t \in Savers \ {s} : saver'[t] = saver[t]
    BY <1>1, <1>3
  <2>2. NoWarning'
    <3>1. \A i \in 1..Len(mem) : mem[i].kind # "warn"
      BY DEF PrefixInv, NoWarning
    <3>2. \A d \in Dirs : \A i \in 1..Len(disk'[d].lines) : disk'[d].lines[i].kind # "warn"
      BY <1>3 DEF PrefixInv, NoWarning
    <3>3. ASSUME NEW t \in Savers PROVE \A i \in 1..Len(saver'[t].rest) : saver'[t].rest[i].kind # "warn"
      <4>1. CASE saver'[t].rest = saver[t].rest
        BY <4>1 DEF PrefixInv, NoWarning
      <4>2. CASE saver'[t].rest = <<>>
        BY <4>2
      <4> QED
        BY <1>3, <2>1, <4>1, <4>2
    <3> QED
      BY <1>3, <3>1, <3>2, <3>3 DEF NoWarning
  <2>3. DiskIsPrefix'
    BY <1>1, <1>3 DEF PrefixInv, DiskIsPrefix
  <2>4. RestFollows'
    BY <1>3, <2>1 DEF PrefixInv, RestFollows
  <2> QED
    BY <2>2, <2>3, <2>4 DEF PrefixInv
<1>4. CASE EnterSave(s)
  <2> DEFINE n == PersistedCount  counted == [known |-> TRUE, n |-> n, of |-> dir]
  <2>1. n = Len(disk[dir].lines) /\ n \in Nat
    BY DEF PersistedCount, CountOnDisk, IInv, TypeOK, CountIsOfItsFile
  <2>2. counted \in [known : BOOLEAN, n : Nat, of : Dirs]
    BY <1>1, <2>1
  <2>3. UNCHANGED <<mem, dir, disk, op>>
    BY <1>4 DEF EnterSave
  <2>4. CASE disk[dir].meta.there
    <3> DEFINE r == [Idle EXCEPT !.at = "meta", !.count = n, !.into = dir]
    <3>1. r.at = "meta" /\ r.rest = <<>>
      BY DEF Idle
    <3>2. saver' = [saver EXCEPT ![s] = r]
      BY <1>4, <2>4 DEF EnterSave
    <3> HIDE DEF r, n
    <3> QED
      BY <1>3, <2>3, <3>1, <3>2
  <2>5. CASE ~disk[dir].meta.there
    <3>1. \E reconcile \in BOOLEAN : BeginAppend(s, n, reconcile, counted)
      <4>1. BeginAppend(s, n, FALSE, counted)
        BY <1>4, <2>5 DEF EnterSave
      <4> QED
        BY <4>1
    <3> HIDE DEF n, counted
    <3> QED
      BY <2>1, <2>2, <2>3, <3>1, PreparedFollows
  <2> QED
    BY <2>4, <2>5
<1>5. CASE ReadMeta(s)
  <2> DEFINE n == saver[s].count
  <2>1. saver[s].at = "meta" /\ UNCHANGED <<mem, dir, disk, op>>
    BY <1>5 DEF ReadMeta
  <2>2. n = Len(disk[dir].lines) /\ n \in Nat
    BY <1>1, <2>1 DEF IInv, IntoOpen, Counted, Active, SaverStates
  <2>3. \E reconcile \in BOOLEAN : BeginAppend(s, n, reconcile, cached)
    BY <1>5 DEF ReadMeta
  <2> HIDE DEF n
  <2> QED
    BY <1>1, <2>1, <2>2, <2>3, PreparedFollows
<1>6. CASE AskForSave(s)
  <2> DEFINE r == [Idle EXCEPT !.at = "wait", !.into = dir]
  <2>1. r.at = "wait" /\ r.rest = <<>>
    BY DEF Idle
  <2>2. saver' = [saver EXCEPT ![s] = r] /\ UNCHANGED <<mem, dir, disk, op>>
    BY <1>6 DEF AskForSave
  <2> HIDE DEF r
  <2> QED
    BY <1>3, <2>1, <2>2
<1>7. CASE AppendLine(s)
  BY <1>7, LineKeepsPrefix
<1>8. CASE AppendDone(s)
  <2> DEFINE r == [saver[s] EXCEPT !.at = "meta_write", !.into = dir, !.frozen = tools]
  <2>1. r.at = "meta_write" /\ r.rest = saver[s].rest /\ saver' = [saver EXCEPT ![s] = r]
        /\ UNCHANGED <<mem, dir, disk, op>>
    BY <1>1, <1>8 DEF AppendDone, SaverStates
  <2> HIDE DEF r
  <2> QED
    BY <1>3, <2>1
<1>9. CASE WriteMeta(s)
  <2> DEFINE r == [saver[s] EXCEPT !.at = "base_write", !.into = dir]
  <2>1. r.at = "base_write" /\ r.rest = saver[s].rest
    BY <1>1 DEF SaverStates
  <2>2. \A d \in Dirs : disk'[d].lines = disk[d].lines
    BY <1>1, <1>9 DEF WriteMeta, DiskStates
  <2>3. saver' = [saver EXCEPT ![s] = Idle] \/ saver' = [saver EXCEPT ![s] = r]
    BY <1>9 DEF WriteMeta
  <2>4. UNCHANGED <<mem, dir, op>>
    BY <1>9 DEF WriteMeta
  <2> HIDE DEF r
  <2> QED
    BY <1>2, <1>3, <2>1, <2>2, <2>3, <2>4
<1>10. CASE WriteBase(s)
  <2>1. \A d \in Dirs : disk'[d].lines = disk[d].lines
    BY <1>1, <1>10 DEF WriteBase, DiskStates
  <2>2. saver' = [saver EXCEPT ![s] = Idle] /\ UNCHANGED <<mem, dir, op>>
    BY <1>10 DEF WriteBase
  <2> QED
    BY <1>2, <1>3, <2>1, <2>2
<1>11. CASE SaveFails(s)
  <2>1. saver' = [saver EXCEPT ![s] = Idle] /\ UNCHANGED <<mem, dir, disk>>
        /\ saver[s].at # "off" /\ (s # "turn" => op' = op)
    BY <1>11 DEF SaveFails
  <2>2. op'.at = "counting" \/ op.at # "counting"
    BY <2>1 DEF IInv, Paused
  <2> QED
    BY <1>2, <1>3, <2>1, <2>2
<1> QED
  BY <1>4, <1>5, <1>6, <1>7, <1>8, <1>9, <1>10, <1>11 DEF Save

(* A new session begins with an empty file.                                 *)
LEMMA NewKeepsPrefix ==
    ASSUME IInv, PrefixInv, "switch_raced" \notin Mishaps, EndRewind \/ EndCompact \/ Die
    PROVE  PrefixInv'
<1>1. PICK d \in Dirs : NewDir(d) /\ dir' = d
  BY DEF EndRewind, EndCompact, Die
<1>2. d # dir /\ disk[d].lines = <<>>
  BY <1>1, NewDirIs DEF IInv, Untouched
<1>3. disk'[d] = disk[d]
  BY <1>2, OthersRest DEF Next, Rewind, Compact
<1>4. Len(mem') \in Nat /\ \A i \in 1..Len(mem') : mem'[i].kind # "warn"
  <2>1. CASE EndRewind
    <3> DEFINE n == op.keep
    <3>1. n \in Nat /\ n <= Len(mem) /\ \A i \in 1..n : mem[i] \in Entry
      BY <2>1 DEF EndRewind, Continuing, IInv, Paused, TypeOK
    <3>2. Len(mem) \in Nat /\ mem' = SubSeq(mem, 1, n)
      BY <2>1 DEF EndRewind, IInv, TypeOK
    <3> HIDE DEF n
    <3>3. /\ SubSeq(mem, 1, n) \in Seq(Entry) /\ Len(SubSeq(mem, 1, n)) = IF 1 <= n THEN n - 1 + 1 ELSE 0
          /\ \A i \in 1..(n - 1 + 1) : SubSeq(mem, 1, n)[i] = mem[1 + i - 1]
      BY <3>1, SubSeqProperties
    <3>4. Len(mem') = n /\ \A i \in 1..n : mem'[i] = mem[i] /\ i \in 1..Len(mem)
      BY <3>1, <3>2, <3>3
    <3> QED
      BY <3>1, <3>4 DEF PrefixInv, NoWarning
  <2>2. CASE EndCompact
    BY <2>2 DEF EndCompact, IInv, TypeOK, PrefixInv, NoWarning
  <2>3. CASE Die
    BY <2>3 DEF Die
  <2> QED
    BY <2>1, <2>2, <2>3
<1>5. \A s \in Savers :
         /\ saver'[s].at # "append"
         /\ saver'[s].rest = <<>> \/ saver'[s].rest = saver[s].rest
  <2>1. saver \in [Savers -> SaverStates] /\ Idle.rest = <<>>
        /\ [Idle EXCEPT !.at = "wait"].rest = <<>> /\ [Idle EXCEPT !.at = "wait"].at = "wait"
    BY DEF IInv, TypeOK, SaverStates, Idle
  <2>2. CASE EndRewind
    BY <2>2 DEF EndRewind, Continuing, IInv, Paused, Active
  <2>3. CASE EndCompact
    <3>1. \A s \in Savers : ~Active(s)
      BY <2>3, QuietIs DEF EndCompact, IInv, Paused
    <3>2. saver' = [saver EXCEPT !["turn"] = [Idle EXCEPT !.at = "wait"]]
      BY <2>3 DEF EndCompact
    <3> QED
      BY <2>1, <3>1, <3>2 DEF Active
  <2>4. CASE Die
    BY <2>1, <2>4 DEF Die, Idle
  <2> QED
    BY <2>2, <2>3, <2>4
<1>6. \A e \in Dirs : disk'[e].lines = disk[e].lines \/ disk'[e].lines = Append(disk[e].lines, Torn)
  <2>1. CASE Die
    BY <2>1, DeathDisk DEF Die
  <2>2. CASE EndRewind \/ EndCompact
    BY <2>2 DEF EndRewind, EndCompact
  <2> QED
    BY <2>1, <2>2
<1>7. NoWarning'
  <2>1. ASSUME NEW e \in Dirs PROVE \A i \in 1..Len(disk'[e].lines) : disk'[e].lines[i].kind # "warn"
    <3>1. /\ disk[e].lines \in Seq(Entry \union {Torn}) /\ Torn.kind # "warn"
          /\ \A i \in 1..Len(disk[e].lines) : disk[e].lines[i].kind # "warn"
      BY DEF IInv, TypeOK, PrefixInv, NoWarning, Torn
    <3> QED
      BY <1>6, <3>1
  <2>2. ASSUME NEW s \in Savers PROVE \A i \in 1..Len(saver'[s].rest) : saver'[s].rest[i].kind # "warn"
    <3>1. CASE saver'[s].rest = <<>>
      BY <3>1
    <3>2. CASE saver'[s].rest = saver[s].rest
      BY <3>2 DEF PrefixInv, NoWarning
    <3> QED
      BY <1>5, <3>1, <3>2
  <2> QED
    BY <1>4, <2>1, <2>2 DEF NoWarning
<1>8. Len(disk'[d].lines) = 0
  BY <1>2, <1>3
<1>9. /\ Len(disk'[dir'].lines) <= Len(mem')
      /\ \A i \in 1..Len(disk'[dir'].lines) : StandsFor(disk'[dir'].lines[i], mem'[i])
  BY <1>1, <1>4, <1>8
<1>10. \A s \in Savers : saver'[s].at # "append"
  BY <1>5
<1> QED
  BY <1>7, <1>9, <1>10, PrefixBy

(* A stored conversation comes back, with a new refresh for an old one.     *)
LEMMA ResumeKeepsPrefix ==
    ASSUME IInv, PrefixInv, "switch_raced" \notin Mishaps, NEW d \in Dirs, ResumeHere(d)
    PROVE  PrefixInv'
<1> DEFINE lines == disk[d].lines
           kept == WithoutLast("refresh", lines)
<1>1. /\ lines \in Seq(Entry) /\ ResumeFrom(d) /\ saver["turn"].at = "off" /\ SwitchQuiet
      /\ UNCHANGED <<disk, saver>> /\ dir' = d
  BY ResumedIs DEF ResumeHere, ResumeFrom
<1>2. Len(lines) \in Nat /\ \A i \in 1..Len(lines) : lines[i].kind # "warn"
  BY <1>1 DEF PrefixInv, NoWarning
<1>3. WithoutLast("warn", lines) = lines
  <2> HIDE DEF lines
  <2>1. lines # <<>> => Len(lines) \in 1..Len(lines)
    BY <1>1
  <2> QED
    BY <1>2, <2>1 DEF WithoutLast, Last
<1>4. mem' = Append(kept, Fresh("refresh"))
  BY <1>1, <1>3 DEF ResumeFrom
<1>5. /\ kept \in Seq(Entry) /\ Len(kept) \in {Len(lines), Len(lines) - 1}
      /\ Len(kept) = Len(lines) => kept = lines
      /\ Len(kept) # Len(lines) => lines # <<>> /\ lines[Len(lines)].kind = "refresh"
      /\ \A i \in 1..Len(kept) : kept[i] = lines[i]
  BY <1>1, WithoutLastIs
<1>6. Fresh("refresh") \in Entry /\ Fresh("refresh").kind = "refresh"
  BY FreshIsEntry DEF IInv, Fresh
<1> HIDE DEF lines, kept
<1>7. /\ Len(mem') = Len(kept) + 1 /\ Len(kept) \in Nat /\ mem'[Len(kept) + 1].kind = "refresh"
      /\ \A i \in 1..Len(kept) : mem'[i] = kept[i]
  BY <1>4, <1>5, <1>6
<1>8. Len(kept) <= Len(lines) /\ Len(lines) <= Len(kept) + 1
  BY <1>2, <1>5
<1>9. ASSUME NEW i \in 1..Len(lines) PROVE StandsFor(lines[i], mem'[i])
  <2>1. CASE i \in 1..Len(kept)
    BY <1>5, <1>7, <2>1 DEF StandsFor
  <2>2. CASE i \notin 1..Len(kept)
    <3>1. i = Len(kept) + 1 /\ i = Len(lines) /\ Len(kept) # Len(lines)
      BY <1>2, <1>7, <1>8, <2>2
    <3> QED
      BY <1>5, <1>7, <3>1 DEF StandsFor
  <2> QED
    BY <2>1, <2>2
<1>10. NoWarning'
  <2>1. \A i \in 1..Len(mem') : mem'[i].kind # "warn"
    <3>1. \A i \in 1..Len(mem') : i \in 1..Len(kept) \/ i = Len(kept) + 1
      BY <1>7
    <3>2. \A i \in 1..Len(kept) : i \in 1..Len(lines)
      BY <1>2, <1>7, <1>8
    <3> QED
      BY <1>2, <1>5, <1>7, <3>1, <3>2
  <2> QED
    BY <1>1, <2>1 DEF PrefixInv, NoWarning
<1>11. \A s \in Savers : saver'[s].at # "append"
  BY <1>1, QuietIs DEF Active
<1>12. /\ Len(disk'[dir'].lines) <= Len(mem')
       /\ \A i \in 1..Len(disk'[dir'].lines) : StandsFor(disk'[dir'].lines[i], mem'[i])
  <2>1. disk'[dir'].lines = lines
    BY <1>1 DEF lines
  <2> QED
    BY <1>7, <1>8, <1>9, <2>1
<1> QED
  BY <1>10, <1>11, <1>12, PrefixBy

LEMMA StepKeepsPrefix ==
    ASSUME IInv, PrefixInv, {"switch_raced", "write_up_cut", "count_failed"} \intersect Mishaps = {},
           [Next]_logVars
    PROVE  PrefixInv'
<1>1. "switch_raced" \notin Mishaps /\ "write_up_cut" \notin Mishaps /\ "count_failed" \notin Mishaps
  OBVIOUS
<1>2. CASE Conversation \/ AskForSummary \/ SummaryArrives
  BY <1>1, <1>2, TalkKeepsPrefix
<1>3. CASE \E s \in Savers : Save(s)
  BY <1>3, SavesKeepPrefix
<1>4. CASE EndRewind \/ EndCompact \/ Die
  BY <1>1, <1>4, NewKeepsPrefix
<1>5. CASE \E d \in Dirs : ResumeHere(d)
  BY <1>1, <1>5, ResumeKeepsPrefix
<1>6. CASE BeginCompact \/ (\E keep \in 0..(Len(mem) - 1) : BeginRewind(keep))
           \/ \E saves \in BOOLEAN : CompactFails(saves)
  <2>1. /\ UNCHANGED <<mem, dir, disk>> /\ op.at # "counting"
        /\ saver' = saver \/ saver' = [saver EXCEPT !["turn"] = [Idle EXCEPT !.at = "wait"]]
    BY <1>1, <1>6 DEF BeginCompact, BeginRewind, RewindSave, CompactFails, Turning
  <2>2. /\ saver \in [Savers -> SaverStates]
        /\ [Idle EXCEPT !.at = "wait"].at = "wait" /\ [Idle EXCEPT !.at = "wait"].rest = <<>>
    BY DEF IInv, TypeOK, SaverStates, Idle
  <2>3. \A s \in Savers : saver'[s] = saver[s] \/ (saver'[s].at # "append" /\ saver'[s].rest = <<>>)
    BY <2>1, <2>2
  <2> QED
    BY <2>1, <2>3, RestKeepsPrefix
<1>7. CASE UNCHANGED logVars
  BY <1>7 DEF logVars, PrefixInv, NoWarning, DiskIsPrefix, RestFollows
<1> QED
  BY <1>2, <1>3, <1>4, <1>5, <1>6, <1>7 DEF Next, Rewind, Compact

-----------------------------------------------------------------------------
(* The theorems. *)

LEMMA Invariance == ASSUME "switch_raced" \notin Mishaps PROVE Spec => [](IInv /\ Bases)
<1>1. Init => IInv /\ Bases
  BY Start
<1>2. IInv /\ Bases /\ [Next]_logVars => (IInv /\ Bases)'
  BY StepKeeps, StepKeepsBases
<1> QED
  BY <1>1, <1>2, PTL DEF Spec

(* Every reachable state is typed: among it, what a session is resumed with *)
(* is a conversation and a tool array, and no half line (_is_valid_session, *)
(* restore), unless a mode switch saves while the session is replaced.      *)
THEOREM TypeCorrect == ASSUME "switch_raced" \notin Mishaps PROVE Spec => []TypeOK
<1>1. IInv => TypeOK
  BY DEF IInv
<1> QED
  BY <1>1, Invariance, PTL

(* A cached line count is that of its file, whatever save is cancelled,     *)
(* wherever a process ends, also in the middle of a line                    *)
(* (_persisted_message_count, _append_messages).                            *)
THEOREM CountsTrue == ASSUME "switch_raced" \notin Mishaps PROVE Spec => []CountIsOfItsFile
<1>1. IInv => CountIsOfItsFile
  BY DEF IInv
<1> QED
  BY <1>1, Invariance, PTL

(* Every request a session sends, in whatever process, carries one tool     *)
(* array (tools_for_request, persist_base, restore), if no session without  *)
(* its base.json is resumed after it has sent requests.                     *)
THEOREM OneArrayPerSession ==
    ASSUME {"switch_raced", "baseless"} \intersect Mishaps = {} PROVE Spec => []PrefixStable
<1>1. Init => IInv /\ Bases /\ ToolsInv
  BY Start
<1>2. IInv /\ Bases /\ ToolsInv /\ [Next]_logVars => (IInv /\ Bases /\ ToolsInv)'
  BY StepKeeps, StepKeepsBases, StepKeepsTools
<1>3. IInv /\ ToolsInv => PrefixStable
  BY OneToolArray
<1> QED
  BY <1>1, <1>2, <1>3, PTL DEF Spec

(* messages.jsonl is what the conversation begins with, after any cancelled *)
(* save and any process end (save_interaction, _append_messages, restore):  *)
(* no line is lost, doubled or of another conversation.                     *)
THEOREM FileIsPrefix ==
    ASSUME {"switch_raced", "write_up_cut", "count_failed"} \intersect Mishaps = {}
    PROVE  Spec => []DiskIsPrefix
<1>1. Init => IInv /\ Bases /\ PrefixInv
  BY Start
<1>2. IInv /\ Bases /\ PrefixInv /\ [Next]_logVars => (IInv /\ Bases /\ PrefixInv)'
  BY StepKeeps, StepKeepsBases, StepKeepsPrefix
<1>3. PrefixInv => DiskIsPrefix
  BY DEF PrefixInv
<1> QED
  BY <1>1, <1>2, <1>3, PTL DEF Spec

(* No save writes into a session that was left by a rewind, a compaction,   *)
(* /clear, a resume or a process end.                                       *)
THEOREM LeftAlone == ASSUME "switch_raced" \notin Mishaps PROVE Spec => LeftSessionsRest
<1>1. IInv /\ [Next]_logVars => [\A d \in Dirs : (d # dir /\ d # dir') => disk'[d] = disk[d]]_logVars
  BY OthersRest
<1> QED
  BY <1>1, Invariance, PTL DEF Spec, LeftSessionsRest
=================================================================================
