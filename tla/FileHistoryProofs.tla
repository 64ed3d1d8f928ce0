--------------------------- MODULE FileHistoryProofs ---------------------------
(***************************************************************************)
(* That going back gives every file what it held, for any files, contents, *)
(* conversations, edits and writes from outside.                           *)
(***************************************************************************)
EXTENDS FileHistory, FiniteSetTheorems, SequenceTheorems, WellFoundedInduction, TLAPS

Snapshots == UNION {[D -> Version] : D \in SUBSET Files}
Checkpoint == [slot : Nat, known : Snapshots]

Typed ==
    /\ msgs \in Seq(Message) /\ pc \in {"idle", "round", "tools", "edit", "cutting"}
    /\ fs \in Disk /\ checkpoints \in Seq(Checkpoint)
    /\ editing = {} \/ \E f \in Files : editing = {f}
    /\ undo \in [Files -> Seq(Version \ Oversize)]
    /\ panel \in [open : BOOLEAN, kind : {"user", "batch", "inside"}, slot : Nat,
                  offers : BOOLEAN, confirming : BOOLEAN]
    /\ cut \in [slot : Nat, seen : Nat]
    /\ past \in [Files -> Seq(Version)] /\ touched \subseteq Files /\ blind \subseteq Files

(* An undo stack is bounded and never holds one content twice in a row.     *)
StackOK(s) ==
    /\ Len(s) <= MaxVersions
    /\ \A i \in 1..Len(s) : i > 1 => s[i] # s[i - 1]
Stacks == \A f \in Files : StackOK(undo[f])

(* What is injected is always followed by a reply, or taken back.           *)
WellFormed(ms) ==
    /\ ms # <<>> /\ ~UserRole(ms[1])
    /\ \A i \in 2..Len(ms) : UserRole(ms[i]) => ms[i - 1].kind # "warn"
Shape ==
    /\ WellFormed(msgs)
    /\ pc \in {"tools", "edit"} => Last(msgs).kind # "warn"

(* How much of the conversation the next prompt keeps.                      *)
KeptOf(ms) == IF Last(ms).kind = "warn" THEN Len(ms) - 1 ELSE Len(ms)
KeptLen == KeptOf(msgs)

(* Checkpoints are in order, none is beyond the conversation, and none is   *)
(* at its end while tools run.                                              *)
Placed ==
    /\ \A i, j \in 1..Len(checkpoints) : i < j => checkpoints[i].slot < checkpoints[j].slot
    /\ \A i \in 1..Len(checkpoints) : /\ checkpoints[i].slot <= KeptLen
                                      /\ pc \in {"tools", "edit"} => checkpoints[i].slot < Len(msgs)
    /\ DOMAIN truth = {checkpoints[i].slot : i \in 1..Len(checkpoints)}

Cutting ==
    pc = "cutting" => /\ cut.seen = Len(msgs) /\ cut.slot \in 1..Len(msgs)
                      /\ msgs[cut.slot].kind # "warn"

(* All checkpoints know the same files, that of a running edit among them.  *)
SameFiles ==
    /\ \A i, j \in 1..Len(checkpoints) : DOMAIN checkpoints[i].known = DOMAIN checkpoints[j].known
    /\ pc = "edit" => \A f \in editing : \A i \in 1..Len(checkpoints) : f \in DOMAIN checkpoints[i].known

(* A checkpoint at the end of the conversation is of the files as they are, *)
(* those apart that a rewind under way has restored.                        *)
Loose ==
    touched \union blind
      \union {f \in Files : pc = "cutting" /\ panel.confirming /\ KnownAt(cut.slot, f)}
Settled ==
    \A i \in 1..Len(checkpoints) : checkpoints[i].slot = KeptLen =>
        \A f \in Files \ Loose : truth[KeptLen][f] = fs[f]

IInv ==
    /\ Typed /\ Stacks /\ Shape /\ Placed /\ Cutting /\ SameFiles /\ Settled
    /\ RestoreGoesBack

-----------------------------------------------------------------------------
(* Facts about the definitions. *)

(* A set of numbers that is not empty has a least one. *)
LEMMA Least ==
    ASSUME NEW T \in SUBSET Nat, T # {} PROVE \E m \in T : \A k \in T : m <= k
<1> DEFINE R == {ss \in Nat \X Nat : ss[1] < ss[2]}
<1>1. IsWellFoundedOn(R, Nat)
  BY NatLessThanWellFounded DEF OpToRel
<1>2. \A x, y \in Nat : x < y => <<x, y>> \in R
  OBVIOUS
<1> HIDE DEF R
<1>3. PICK m \in T : \A k \in T : ~ (<<k, m>> \in R)
  BY <1>1, WFMin
<1>4. \A k \in T : ~ (k < m)
  BY <1>2, <1>3
<1>5. \A k \in T : m <= k
  BY <1>4
<1> QED
  BY <1>5

LEMMA FirstPart ==
    ASSUME NEW S, NEW s \in Seq(S), NEW k \in 0..Len(s)
    PROVE  /\ SubSeq(s, 1, k) \in Seq(S) /\ Len(SubSeq(s, 1, k)) = k
           /\ \A i \in 1..k : SubSeq(s, 1, k)[i] = s[i]
<1>1. Len(s) \in Nat /\ k \in Nat /\ k <= Len(s)
  OBVIOUS
<1>2. \A i \in 1..k : s[i] \in S
  BY <1>1
<1>3. /\ SubSeq(s, 1, k) \in Seq(S) /\ Len(SubSeq(s, 1, k)) = IF 1 <= k THEN k - 1 + 1 ELSE 0
      /\ \A i \in 1..(k - 1 + 1) : SubSeq(s, 1, k)[i] = s[1 + i - 1]
  BY <1>1, <1>2, SubSeqProperties
<1>4. k - 1 + 1 = k /\ \A i \in 1..k : 1 + i - 1 = i
  BY <1>1
<1>5. (IF 1 <= k THEN k - 1 + 1 ELSE 0) = k
  BY <1>1
<1> QED
  BY <1>3, <1>4, <1>5

LEMMA MoreThanOne == ASSUME NEW n \in Nat, n > 0, n # 1 PROVE n > 1
  OBVIOUS

LEMMA OneLess == ASSUME NEW n \in Nat, n > 1 PROVE n - 1 \in 1..n
  OBVIOUS

LEMMA KeptTyped ==
    ASSUME NEW ms \in Seq(Message), WellFormed(ms)
    PROVE  /\ Len(ms) \in Nat /\ Len(ms) > 0
           /\ KeptOf(ms) \in 1..Len(ms) /\ KeptOf(ms) >= Len(ms) - 1
<1>1. ms # <<>> /\ ~UserRole(ms[1])
  BY DEF WellFormed
<1>2. Len(ms) \in Nat /\ Len(ms) > 0
  BY <1>1
<1>3. Last(ms).kind = "warn" => Len(ms) # 1
  BY <1>1 DEF Last, UserRole
<1>4. CASE Last(ms).kind = "warn"
  <2>1. KeptOf(ms) = Len(ms) - 1 /\ Len(ms) > 1
    <3>1. Len(ms) # 1
      BY <1>3, <1>4
    <3>2. Len(ms) > 1
      BY <1>2, <3>1, MoreThanOne
    <3> QED
      BY <1>4, <3>2 DEF KeptOf
  <2>2. Len(ms) - 1 \in 1..Len(ms)
    BY <1>2, <2>1, OneLess
  <2>3. Len(ms) - 1 >= Len(ms) - 1
    BY <1>2
  <2> QED
    BY <1>2, <2>1, <2>2, <2>3
<1>5. CASE Last(ms).kind # "warn"
  <2>1. KeptOf(ms) = Len(ms)
    BY <1>5 DEF KeptOf
  <2> QED
    BY <1>2, <2>1
<1> QED
  BY <1>4, <1>5

LEMMA MessagesTyped ==
    ASSUME Typed, Shape
    PROVE  /\ msgs \in Seq(Message) /\ Len(msgs) \in Nat /\ Len(msgs) > 0
           /\ KeptLen \in 1..Len(msgs) /\ KeptLen >= Len(msgs) - 1
  BY KeptTyped DEF Typed, Shape, KeptLen

(* A message may follow, if it is not the second injected one in a row.     *)
LEMMA AppendForm ==
    ASSUME NEW ms \in Seq(Message), WellFormed(ms), NEW m \in Message,
           UserRole(m) => Last(ms).kind # "warn"
    PROVE  /\ Append(ms, m) \in Seq(Message) /\ Len(Append(ms, m)) = Len(ms) + 1
           /\ WellFormed(Append(ms, m)) /\ Last(Append(ms, m)) = m
           /\ m.kind = "warn" => KeptOf(Append(ms, m)) = Len(ms)
           /\ m.kind # "warn" => KeptOf(Append(ms, m)) = Len(ms) + 1
<1> DEFINE new == Append(ms, m)
<1>1. Len(ms) \in Nat /\ Len(ms) > 0 /\ ms # <<>>
  BY KeptTyped DEF WellFormed
<1>2. /\ new \in Seq(Message) /\ Len(new) = Len(ms) + 1 /\ new # <<>>
      /\ \A i \in 1..Len(ms) : new[i] = ms[i]
      /\ new[Len(ms) + 1] = m
  BY <1>1
<1> HIDE DEF new
<1>3. Last(new) = m
  BY <1>2 DEF Last
<1>4. new[1] = ms[1]
  BY <1>1, <1>2
<1>5. ASSUME NEW i \in 2..Len(new), UserRole(new[i]) PROVE new[i - 1].kind # "warn"
  <2>1. i - 1 \in 1..Len(ms) /\ new[i - 1] = ms[i - 1]
    BY <1>1, <1>2
  <2>2. CASE i = Len(ms) + 1
    <3>1. new[i] = m /\ new[i - 1] = ms[Len(ms)]
      BY <1>1, <1>2, <2>1, <2>2
    <3> QED
      BY <1>5, <3>1 DEF Last
  <2>3. CASE i # Len(ms) + 1
    <3>1. i \in 2..Len(ms) /\ new[i] = ms[i]
      BY <1>1, <1>2, <2>3
    <3> QED
      BY <1>5, <2>1, <3>1 DEF WellFormed
  <2> QED
    BY <2>2, <2>3
<1>6. WellFormed(new)
  BY <1>2, <1>4, <1>5 DEF WellFormed
<1>7. /\ m.kind = "warn" => KeptOf(new) = Len(ms)
      /\ m.kind # "warn" => KeptOf(new) = Len(ms) + 1
  BY <1>1, <1>2, <1>3 DEF KeptOf
<1> QED
  BY <1>2, <1>3, <1>6, <1>7 DEF new

(* Any first part of a conversation is one.                                 *)
LEMMA PrefixForm ==
    ASSUME NEW ms \in Seq(Message), WellFormed(ms), NEW k \in 1..Len(ms)
    PROVE  /\ SubSeq(ms, 1, k) \in Seq(Message) /\ Len(SubSeq(ms, 1, k)) = k
           /\ WellFormed(SubSeq(ms, 1, k)) /\ Last(SubSeq(ms, 1, k)) = ms[k]
<1> DEFINE new == SubSeq(ms, 1, k)
<1>1. Len(ms) \in Nat /\ k \in Nat /\ k > 0 /\ k <= Len(ms)
  BY KeptTyped
<1>2. /\ new \in Seq(Message) /\ Len(new) = k
      /\ \A i \in 1..k : new[i] = ms[i]
  BY <1>1
<1> HIDE DEF new
<1>3. Last(new) = ms[k]
  BY <1>1, <1>2 DEF Last
<1>4. new # <<>> /\ new[1] = ms[1]
  BY <1>1, <1>2
<1>5. ASSUME NEW i \in 2..Len(new), UserRole(new[i]) PROVE new[i - 1].kind # "warn"
  <2>1. i \in 2..Len(ms) /\ new[i] = ms[i] /\ new[i - 1] = ms[i - 1]
    BY <1>1, <1>2
  <2> QED
    BY <1>5, <2>1 DEF WellFormed
<1>6. WellFormed(new)
  BY <1>4, <1>5 DEF WellFormed
<1> QED
  BY <1>2, <1>3, <1>6 DEF new

(* Nor do responses that are made up spoil it.                              *)
LEMMA RepairForm ==
    ASSUME NEW ms \in Seq(Message), WellFormed(ms), Last(ms).kind # "warn", NEW u \in Int
    PROVE  LET whole == ms \o Repeat(u, Says("tool"))
           IN  /\ whole \in Seq(Message) /\ Len(whole) \in Nat /\ Len(whole) >= Len(ms)
               /\ WellFormed(whole) /\ Last(whole).kind # "warn"
<1> DEFINE tool == Says("tool")
           made == Repeat(u, tool)
           whole == ms \o made
<1>1. Len(ms) \in Nat /\ Len(ms) > 0
  BY KeptTyped
<1>2. tool \in Message /\ tool.kind = "tool"
  BY DEF Says, Message, Kinds
<1> HIDE DEF tool
<1>3. made \in Seq(Message) /\ Len(made) \in Nat /\ \A i \in 1..Len(made) : made[i] = tool
  <2>1. CASE u >= 0
    <3>1. u \in Nat
      BY <2>1
    <3>2. made = [i \in 1..u |-> tool]
      BY DEF Repeat
    <3>3. made \in Seq(Message) /\ Len(made) = u
      BY <1>2, <3>1, <3>2
    <3> QED
      BY <3>1, <3>2, <3>3
  <2>2. CASE u < 0
    <3>1. 1..u = 1..0
      BY <2>2
    <3>2. made = [i \in 1..0 |-> tool]
      BY <3>1 DEF Repeat
    <3>3. made \in Seq(Message) /\ Len(made) = 0
      BY <1>2, <3>2
    <3> QED
      BY <3>3
  <2> QED
    BY <2>1, <2>2
<1> HIDE DEF made
<1>4. /\ whole \in Seq(Message) /\ Len(whole) = Len(ms) + Len(made)
      /\ \A i \in 1..Len(ms) : whole[i] = ms[i]
      /\ \A i \in 1..Len(whole) : i > Len(ms) => whole[i] = made[i - Len(ms)]
  BY <1>1, <1>3
<1> HIDE DEF whole
<1>5. \A i \in 1..Len(whole) : i > Len(ms) => whole[i].kind = "tool"
  <2> SUFFICES ASSUME NEW i \in 1..Len(whole), i > Len(ms) PROVE whole[i].kind = "tool"
    OBVIOUS
  <2>1. i - Len(ms) \in 1..Len(made)
    BY <1>1, <1>3, <1>4
  <2> QED
    BY <1>2, <1>3, <1>4, <2>1
<1>6. Len(whole) \in Nat /\ Len(whole) >= Len(ms) /\ Len(whole) > 0
  BY <1>1, <1>3, <1>4
<1>7. Last(whole).kind # "warn"
  <2>1. CASE Len(whole) = Len(ms)
    BY <1>1, <1>4, <2>1 DEF Last
  <2>2. CASE Len(whole) > Len(ms)
    BY <1>5, <1>6, <2>2 DEF Last
  <2> QED
    BY <1>1, <1>6, <2>1, <2>2
<1>8. ASSUME NEW i \in 2..Len(whole), UserRole(whole[i]) PROVE whole[i - 1].kind # "warn"
  <2>1. i \in 1..Len(whole) /\ whole[i].kind # "tool"
    BY <1>6, <1>8 DEF UserRole
  <2>2. i <= Len(ms)
    BY <1>1, <1>5, <1>6, <2>1
  <2>3. i \in 2..Len(ms) /\ whole[i] = ms[i] /\ whole[i - 1] = ms[i - 1]
    BY <1>1, <1>4, <1>6, <2>2
  <2> QED
    BY <1>8, <2>3 DEF WellFormed
<1>9. whole # <<>> /\ whole[1] = ms[1]
  BY <1>1, <1>4, <1>6
<1>10. WellFormed(whole)
  BY <1>8, <1>9 DEF WellFormed
<1> QED
  BY <1>4, <1>6, <1>7, <1>10 DEF whole, made, tool

LEMMA CheckpointsTyped ==
    ASSUME Typed
    PROVE  /\ Len(checkpoints) \in Nat /\ DOMAIN checkpoints = 1..Len(checkpoints)
           /\ \A i \in 1..Len(checkpoints) :
                 /\ checkpoints[i] \in Checkpoint /\ checkpoints[i].slot \in Nat
                 /\ checkpoints[i].known \in Snapshots
<1>1. checkpoints \in Seq(Checkpoint)
  BY DEF Typed
<1>2. \A cp \in Checkpoint : cp.slot \in Nat /\ cp.known \in Snapshots
  BY DEF Checkpoint
<1> QED
  BY <1>1, <1>2

LEMMA SnapshotTyped ==
    ASSUME NEW s \in Snapshots
    PROVE  DOMAIN s \subseteq Files /\ s \in [DOMAIN s -> Version]
  BY DEF Snapshots

(* Two checkpoints are never at one slot. *)
LEMMA SlotsDiffer ==
    ASSUME Typed, Placed, NEW i \in 1..Len(checkpoints), NEW j \in 1..Len(checkpoints),
           checkpoints[i].slot = checkpoints[j].slot
    PROVE  i = j
<1>1. Len(checkpoints) \in Nat /\ checkpoints[i].slot \in Nat
  BY CheckpointsTyped
<1>2. i < j => checkpoints[i].slot < checkpoints[j].slot
  BY DEF Placed
<1>3. j < i => checkpoints[j].slot < checkpoints[i].slot
  BY DEF Placed
<1> QED
  BY <1>1, <1>2, <1>3

LEMMA OneAt ==
    ASSUME Typed, Placed, NEW i \in 1..Len(checkpoints)
    PROVE  CheckpointsAt(checkpoints[i].slot) = {i}
  BY CheckpointsTyped, SlotsDiffer DEF CheckpointsAt

(* The checkpoints before a slot are the first ones. *)
LEMMA BeforeIsPrefix ==
    ASSUME Typed, Placed, NEW n \in Nat
    PROVE  \E k \in 0..Len(checkpoints) :
              /\ CheckpointsBefore(n) = SubSeq(checkpoints, 1, k)
              /\ \A i \in 1..k : checkpoints[i].slot < n
              /\ \A i \in 1..Len(checkpoints) : checkpoints[i].slot < n => i <= k
<1> DEFINE L == Len(checkpoints)
           below == {i \in DOMAIN checkpoints : checkpoints[i].slot < n}
           above == (1..(L + 1)) \ below
<1>1. L \in Nat /\ DOMAIN checkpoints = 1..L /\ \A i \in 1..L : checkpoints[i].slot \in Nat
  BY CheckpointsTyped
<1>2. above \subseteq Nat /\ L + 1 \in above
  BY <1>1
<1>3. PICK m \in above : \A k \in above : m <= k
  <2>1. above # {}
    BY <1>2
  <2> HIDE DEF above
  <2> QED
    BY <1>2, <2>1, Least
<1>4. m \in 1..(L + 1) /\ m - 1 \in 0..L
  BY <1>1
<1>5. \A i \in 1..(m - 1) : i \in below
  BY <1>1, <1>3
<1>6. ASSUME NEW i \in below PROVE i \in 1..(m - 1)
  <2>1. CASE i = m
    BY <2>1
  <2>2. CASE i > m
    <3>1. m \in 1..L /\ i \in 1..L
      BY <1>1, <1>4, <2>2
    <3>2. checkpoints[m].slot < checkpoints[i].slot
      BY <2>2, <3>1 DEF Placed
    <3>3. checkpoints[m].slot < n
      BY <1>1, <1>6, <3>1, <3>2
    <3> QED
      BY <1>1, <3>1, <3>3
  <2> QED
    BY <1>1, <1>4, <2>1, <2>2
<1>7. below = 1..(m - 1)
  BY <1>5, <1>6
<1>8. Cardinality(below) = m - 1
  <2>1. Cardinality(1..(m - 1)) = m - 1
    BY <1>1, <1>4, FS_Interval
  <2> QED
    BY <1>7, <2>1
<1>9. CheckpointsBefore(n) = SubSeq(checkpoints, 1, m - 1)
  <2> DEFINE nth(k) == CHOOSE i \in below : Cardinality({j \in below : j <= i}) = k
  <2>1. CheckpointsBefore(n) = [k \in 1..(m - 1) |-> checkpoints[nth(k)]]
    BY <1>8 DEF CheckpointsBefore
  <2> HIDE DEF below
  <2>2. ASSUME NEW i \in 1..(m - 1) PROVE Cardinality({j \in below : j <= i}) = i
    <3>1. {j \in 1..(m - 1) : j <= i} = 1..i
      BY <1>4
    <3>2. Cardinality(1..i) = i
      BY <1>4, FS_Interval
    <3> QED
      BY <1>7, <3>1, <3>2
  <2>3. \A k \in 1..(m - 1) : nth(k) = k
    BY <1>7, <2>2
  <2> HIDE DEF nth
  <2>4. CheckpointsBefore(n) = [k \in 1..(m - 1) |-> checkpoints[k]]
    BY <2>1, <2>3
  <2>5. checkpoints \in Seq(Checkpoint)
    BY DEF Typed
  <2>6. /\ SubSeq(checkpoints, 1, m - 1) \in Seq(Checkpoint)
        /\ Len(SubSeq(checkpoints, 1, m - 1)) = m - 1
        /\ \A k \in 1..(m - 1) : SubSeq(checkpoints, 1, m - 1)[k] = checkpoints[k]
    BY <1>4, <2>5, FirstPart
  <2>7. SubSeq(checkpoints, 1, m - 1) = [k \in 1..(m - 1) |-> checkpoints[k]]
    BY <2>6
  <2> QED
    BY <2>4, <2>7
<1>10. \A i \in 1..(m - 1) : checkpoints[i].slot < n
  BY <1>5
<1>11. ASSUME NEW i \in 1..L, checkpoints[i].slot < n PROVE i <= m - 1
  <2>1. i \in below
    BY <1>1, <1>11
  <2>2. i \in 1..(m - 1)
    BY <1>6, <2>1
  <2> QED
    BY <1>4, <2>2
<1> QED
  BY <1>4, <1>9, <1>10, <1>11

-----------------------------------------------------------------------------
(* What steps have in common. *)

(* A reply or a response follows, and no checkpoint is made. *)
LEMMA Lengthened ==
    ASSUME Typed, Shape, Placed, NEW m \in Message, m.kind # "warn", ~UserRole(m),
           msgs' = Append(msgs, m), UNCHANGED <<checkpoints, truth>>, pc' # "cutting"
    PROVE  /\ msgs' \in Seq(Message) /\ Shape' /\ Placed' /\ Cutting' /\ Settled'
<1>1. msgs \in Seq(Message) /\ WellFormed(msgs)
  BY DEF Typed, Shape
<1>2. /\ msgs' \in Seq(Message) /\ Len(msgs') = Len(msgs) + 1 /\ WellFormed(msgs')
      /\ Last(msgs') = m /\ KeptLen' = Len(msgs) + 1
  BY <1>1, AppendForm DEF KeptLen
<1>3. Shape'
  BY <1>2 DEF Shape
<1>4. Len(msgs) \in Nat /\ KeptLen \in 1..Len(msgs)
  BY MessagesTyped
<1>5. \A i \in 1..Len(checkpoints) : /\ checkpoints[i].slot \in Nat
                                     /\ checkpoints[i].slot <= KeptLen
  BY CheckpointsTyped DEF Placed
<1>6. \A i \in 1..Len(checkpoints) : checkpoints[i].slot < Len(msgs) + 1
  BY <1>4, <1>5
<1>7. Placed'
  <2>1. \A i \in 1..Len(checkpoints) : /\ checkpoints[i].slot <= Len(msgs) + 1
                                       /\ checkpoints[i].slot < Len(msgs) + 1
    BY <1>4, <1>5
  <2> QED
    BY <1>2, <2>1 DEF Placed
<1>8. Settled'
  <2>1. \A i \in 1..Len(checkpoints) : checkpoints[i].slot # Len(msgs) + 1
    BY <1>4, <1>5
  <2> QED
    BY <1>2, <2>1 DEF Settled
<1>9. Cutting'
  BY DEF Cutting
<1> QED
  BY <1>2, <1>3, <1>7, <1>8, <1>9

(* What changes on disk is known to every checkpoint, or disowned.          *)
LEMMA Untouched ==
    ASSUME RestoreGoesBack, UNCHANGED <<checkpoints, truth>>,
           touched \subseteq touched', blind \subseteq blind',
           \A g \in Files \ (touched' \union blind') :
              \/ fs'[g] = fs[g]
              \/ \A i \in DOMAIN checkpoints : g \in DOMAIN checkpoints[i].known
    PROVE  RestoreGoesBack'
<1> SUFFICES ASSUME NEW i \in DOMAIN checkpoints, NEW g \in Files \ (touched' \union blind'),
                    checkpoints[i].slot \in DOMAIN truth
             PROVE  GoesBackTo(checkpoints[i], g)' = truth[checkpoints[i].slot][g]
  BY DEF RestoreGoesBack, GoesBackTo
<1>1. GoesBackTo(checkpoints[i], g) = truth[checkpoints[i].slot][g]
  BY DEF RestoreGoesBack
<1>2. GoesBackTo(checkpoints[i], g)' = GoesBackTo(checkpoints[i], g)
  BY DEF GoesBackTo
<1> QED
  BY <1>1, <1>2

(* A checkpoint is asked for at the end of what is kept: there is one, it   *)
(* is the last, and it is of the files as they are.                         *)
LEMMA Taken ==
    ASSUME Typed, Shape, Placed, SameFiles, Settled, RestoreGoesBack,
           pc # "cutting", NEW ms \in Seq(Message), Len(ms) >= KeptLen,
           CheckpointAt(ms), UNCHANGED <<fs, touched, blind>>
    PROVE  /\ checkpoints' \in Seq(Checkpoint)
           /\ \A i, j \in 1..Len(checkpoints') :
                 i < j => checkpoints'[i].slot < checkpoints'[j].slot
           /\ \A i \in 1..Len(checkpoints') : checkpoints'[i].slot <= Len(ms)
           /\ DOMAIN truth' = {checkpoints'[i].slot : i \in 1..Len(checkpoints')}
           /\ truth'[Len(ms)] = fs
           /\ \A i, j \in 1..Len(checkpoints') :
                 DOMAIN checkpoints'[i].known = DOMAIN checkpoints'[j].known
           /\ RestoreGoesBack'
<1> DEFINE n == Len(ms)
           L == Len(checkpoints)
<1>1. /\ n \in Nat /\ L \in Nat /\ KeptLen \in Nat /\ KeptLen <= n
      /\ checkpoints \in Seq(Checkpoint) /\ DOMAIN checkpoints = 1..L
  BY MessagesTyped, CheckpointsTyped DEF Typed
<1>2. \A i \in 1..L : /\ checkpoints[i].slot \in Nat /\ checkpoints[i].slot <= KeptLen
                      /\ checkpoints[i].known \in Snapshots /\ checkpoints[i] \in Checkpoint
  BY CheckpointsTyped DEF Placed
<1>3. DOMAIN truth = {checkpoints[i].slot : i \in 1..L}
  BY DEF Placed
<1>4. /\ DOMAIN truth' = DOMAIN truth \union {n} /\ truth'[n] = fs
      /\ \A k \in DOMAIN truth : k # n => truth'[k] = truth[k]
  BY DEF CheckpointAt, Slot
<1>5. checkpoints' = IF HasCheckpointAt(n) THEN checkpoints
                     ELSE Append(checkpoints, [slot |-> n, known |-> ReadSnapshots])
  BY DEF CheckpointAt, Slot
<1>6. Loose = touched \union blind
  BY DEF Loose
<1>7. ASSUME NEW i \in 1..L, NEW f \in Files \ (touched \union blind)
      PROVE  /\ checkpoints[i].slot # n => GoesBackTo(checkpoints[i], f) = truth'[checkpoints[i].slot][f]
             /\ checkpoints[i].slot = n => GoesBackTo(checkpoints[i], f) = fs[f]
  <2>1. checkpoints[i].slot \in DOMAIN truth
    BY <1>3
  <2>2. GoesBackTo(checkpoints[i], f) = truth[checkpoints[i].slot][f]
    BY <1>1, <2>1 DEF RestoreGoesBack
  <2>3. checkpoints[i].slot = n => n = KeptLen
    BY <1>1, <1>2
  <2>4. checkpoints[i].slot = n => truth[n][f] = fs[f]
    BY <1>6, <2>3 DEF Settled
  <2> QED
    BY <1>4, <2>1, <2>2, <2>4
<1>8. \A i \in 1..L, f \in Files \ (touched \union blind) :
         GoesBackTo(checkpoints[i], f) = truth'[checkpoints[i].slot][f]
  BY <1>4, <1>7
<1>9. ASSUME NEW cp, NEW f PROVE GoesBackTo(cp, f)' = GoesBackTo(cp, f)
  BY DEF GoesBackTo
<1>10. CASE HasCheckpointAt(n)
  <2>1. checkpoints' = checkpoints
    BY <1>5, <1>10
  <2>2. L \in 1..L /\ checkpoints[L].slot = n
    BY <1>1, <1>10 DEF HasCheckpointAt, Last
  <2>3. DOMAIN truth' = {checkpoints[i].slot : i \in 1..L}
    BY <1>3, <1>4, <2>2
  <2>4. RestoreGoesBack'
    BY <1>1, <1>8, <2>1 DEF RestoreGoesBack, GoesBackTo
  <2>5. \A i \in 1..L : checkpoints[i].slot <= n
    BY <1>1, <1>2
  <2> QED
    BY <1>1, <1>4, <2>1, <2>3, <2>4, <2>5 DEF Placed, SameFiles
<1>11. CASE ~HasCheckpointAt(n)
  <2> DEFINE new == [slot |-> n, known |-> ReadSnapshots]
  <2>1. checkpoints' = Append(checkpoints, new)
    BY <1>5, <1>11
  <2>2. /\ ReadSnapshots \in Snapshots
        /\ \A i \in 1..L : DOMAIN checkpoints[i].known = DOMAIN ReadSnapshots
        /\ \A f \in DOMAIN ReadSnapshots : ReadSnapshots[f] = fs[f]
    <3>1. CASE checkpoints = <<>>
      <4>1. ReadSnapshots = <<>> /\ L = 0
        BY <3>1 DEF ReadSnapshots
      <4>2. <<>> \in [{} -> Version] /\ DOMAIN <<>> = {}
        OBVIOUS
      <4>3. <<>> \in Snapshots
        BY <4>2 DEF Snapshots
      <4> QED
        BY <4>1, <4>2, <4>3
    <3>2. CASE checkpoints # <<>>
      <4>1. L \in 1..L
        BY <1>1, <3>2
      <4>2. DOMAIN checkpoints[L].known \subseteq Files
        BY <1>2, <4>1, SnapshotTyped
      <4>3. ReadSnapshots = [f \in DOMAIN checkpoints[L].known |-> fs[f]]
        BY <3>2 DEF ReadSnapshots, Last
      <4>4. ReadSnapshots \in [DOMAIN checkpoints[L].known -> Version]
        BY <4>2, <4>3 DEF Typed, Disk
      <4>5. \A i \in 1..L : DOMAIN checkpoints[i].known = DOMAIN checkpoints[L].known
        BY <4>1 DEF SameFiles
      <4> QED
        BY <4>2, <4>3, <4>4, <4>5 DEF Snapshots
    <3> QED
      BY <3>1, <3>2
  <2>3. new \in Checkpoint /\ new.slot = n /\ new.known = ReadSnapshots
    BY <1>1, <2>2 DEF Checkpoint
  <2> HIDE DEF new
  <2>4. /\ checkpoints' \in Seq(Checkpoint) /\ Len(checkpoints') = L + 1
        /\ DOMAIN checkpoints' = 1..(L + 1)
        /\ \A i \in 1..L : checkpoints'[i] = checkpoints[i]
        /\ checkpoints'[L + 1] = new
    BY <1>1, <2>1, <2>3
  <2>5. \A i \in 1..L : checkpoints[i].slot < n
    <3>1. SUFFICES ASSUME NEW i \in 1..L PROVE checkpoints[i].slot < n
      OBVIOUS
    <3>2. L \in 1..L /\ checkpoints # <<>>
      BY <1>1
    <3>3. checkpoints[L].slot # n
      BY <1>11, <3>2 DEF HasCheckpointAt, Last
    <3>4. checkpoints[L].slot < n
      BY <1>1, <1>2, <3>2, <3>3
    <3>5. CASE i = L
      BY <3>4, <3>5
    <3>6. CASE i # L
      <4>1. i < L
        <5>1. L \in Nat /\ i \in 1..L
          BY <1>1
        <5> HIDE DEF L
        <5> QED
          BY <3>6, <5>1
      <4>2. checkpoints[i].slot < checkpoints[L].slot
        BY <3>2, <4>1 DEF Placed
      <4> QED
        BY <1>1, <1>2, <3>2, <3>4, <4>2
    <3> QED
      BY <3>5, <3>6
  <2>6. ASSUME NEW i \in 1..(L + 1), NEW j \in 1..(L + 1), i < j
        PROVE  checkpoints'[i].slot < checkpoints'[j].slot
    <3>1. i \in 1..L /\ checkpoints'[i] = checkpoints[i]
      BY <1>1, <2>4, <2>6
    <3>2. CASE j = L + 1
      BY <2>3, <2>4, <2>5, <3>1, <3>2
    <3>3. CASE j # L + 1
      <4>1. j \in 1..L /\ checkpoints'[j] = checkpoints[j]
        BY <1>1, <2>4, <3>3
      <4> QED
        BY <2>6, <3>1, <4>1 DEF Placed
    <3> QED
      BY <3>2, <3>3
  <2>7. \A i \in 1..(L + 1) : i \in 1..L \/ i = L + 1
    BY <1>1
  <2>8. \A i \in 1..(L + 1) : checkpoints'[i].slot <= n
    <3>1. \A i \in 1..L : checkpoints[i].slot <= n
      BY <1>1, <1>2
    <3> QED
      BY <1>1, <2>3, <2>4, <2>7, <3>1
  <2>9. DOMAIN truth' = {checkpoints'[i].slot : i \in 1..(L + 1)}
    <3>1. \A i \in 1..L : i \in 1..(L + 1)
      BY <1>1
    <3>2. L + 1 \in 1..(L + 1)
      BY <1>1
    <3> QED
      BY <1>3, <1>4, <2>3, <2>4, <2>7, <3>1, <3>2
  <2>10. \A i \in 1..(L + 1) : DOMAIN checkpoints'[i].known = DOMAIN ReadSnapshots
    BY <2>2, <2>3, <2>4, <2>7
  <2>11. ASSUME NEW i \in 1..(L + 1), NEW f \in Files \ (touched \union blind)
         PROVE  GoesBackTo(checkpoints'[i], f) = truth'[checkpoints'[i].slot][f]
    <3>1. CASE i \in 1..L
      BY <1>8, <2>4, <3>1
    <3>2. CASE i = L + 1
      <4>1. GoesBackTo(new, f) = fs[f]
        BY <2>2, <2>3 DEF GoesBackTo
      <4> QED
        BY <1>4, <2>3, <2>4, <3>2, <4>1
    <3> QED
      BY <2>7, <3>1, <3>2
  <2>12. RestoreGoesBack'
    BY <2>4, <2>11 DEF RestoreGoesBack, GoesBackTo
  <2> QED
    BY <1>4, <2>4, <2>6, <2>8, <2>9, <2>10, <2>12
<1> QED
  BY <1>10, <1>11

-----------------------------------------------------------------------------
(* The undo stacks and the histories. *)

(* Recording a version keeps a stack bounded and without repetitions. *)
LEMMA PushKeeps ==
    ASSUME NEW S, NEW s \in Seq(S), NEW v \in S, StackOK(s), s # <<>> => Last(s) # v
    PROVE  LET pushed == Append(s, v)
               new == IF Len(pushed) > MaxVersions THEN Tail(pushed) ELSE pushed
           IN  new \in Seq(S) /\ StackOK(new)
<1> DEFINE pushed == Append(s, v)
<1>1. Len(s) \in Nat /\ MaxVersions \in Nat /\ Len(s) <= MaxVersions
  BY FilesAssumption DEF StackOK
<1>2. /\ pushed \in Seq(S) /\ Len(pushed) = Len(s) + 1 /\ pushed # <<>>
      /\ \A i \in 1..Len(s) : pushed[i] = s[i]
      /\ pushed[Len(s) + 1] = v
  BY <1>1
<1> HIDE DEF pushed
<1>3. ASSUME NEW i \in 1..Len(pushed), i > 1 PROVE pushed[i] # pushed[i - 1]
  <2>1. i - 1 \in 1..Len(s) /\ pushed[i - 1] = s[i - 1]
    BY <1>1, <1>2, <1>3
  <2>2. CASE i \in 1..Len(s)
    BY <1>2, <1>3, <2>1, <2>2 DEF StackOK
  <2>3. CASE i = Len(s) + 1
    <3>1. s # <<>> /\ i - 1 = Len(s)
      BY <1>1, <2>1, <2>3
    <3> QED
      BY <1>2, <2>1, <2>3, <3>1 DEF Last
  <2> QED
    BY <1>1, <1>2, <2>2, <2>3
<1>4. CASE Len(pushed) > MaxVersions
  <2> DEFINE new == Tail(pushed)
  <2>1. /\ new \in Seq(S) /\ Len(new) = Len(s)
        /\ \A i \in 1..Len(s) : new[i] = pushed[i + 1]
    BY <1>1, <1>2
  <2> HIDE DEF new
  <2>2. ASSUME NEW i \in 1..Len(new), i > 1 PROVE new[i] # new[i - 1]
    <3>1. i + 1 \in 1..Len(pushed) /\ i + 1 > 1 /\ (i + 1) - 1 = i
      BY <1>1, <1>2, <2>1
    <3>2. new[i] = pushed[i + 1] /\ new[i - 1] = pushed[i]
      BY <1>1, <2>1, <2>2
    <3> QED
      BY <1>3, <3>1, <3>2
  <2>3. StackOK(new)
    BY <1>1, <2>1, <2>2 DEF StackOK
  <2> QED
    BY <1>4, <2>1, <2>3 DEF new, pushed
<1>5. CASE ~(Len(pushed) > MaxVersions)
  <2>1. Len(pushed) <= MaxVersions
    BY <1>1, <1>2, <1>5
  <2>2. StackOK(pushed)
    BY <1>3, <2>1 DEF StackOK
  <2> QED
    BY <1>2, <1>5, <2>2 DEF pushed
<1> QED
  BY <1>4, <1>5

(* So does taking one off. *)
LEMMA PopKeeps ==
    ASSUME NEW S, NEW s \in Seq(S), StackOK(s), s # <<>>
    PROVE  Last(s) \in S /\ Front(s) \in Seq(S) /\ StackOK(Front(s))
<1> DEFINE new == Front(s)
<1>1. Len(s) \in Nat /\ Len(s) > 0 /\ Len(s) <= MaxVersions /\ MaxVersions \in Nat
  BY FilesAssumption DEF StackOK
<1>2. /\ new \in Seq(S) /\ Len(new) = Len(s) - 1 /\ \A i \in 1..(Len(s) - 1) : new[i] = s[i]
  <2>1. new = SubSeq(s, 1, Len(s) - 1)
    BY DEF Front
  <2>2. Len(s) - 1 \in 0..Len(s)
    BY <1>1
  <2> QED
    BY <2>1, <2>2, FirstPart
<1>3. Last(s) \in S
  BY <1>1 DEF Last
<1> HIDE DEF new
<1>4. ASSUME NEW i \in 1..Len(new), i > 1 PROVE new[i] # new[i - 1]
  <2>1. i \in 1..Len(s) /\ new[i] = s[i] /\ new[i - 1] = s[i - 1]
    BY <1>1, <1>2, <1>4
  <2> QED
    BY <1>4, <2>1 DEF StackOK
<1>5. Len(new) <= MaxVersions
  BY <1>1, <1>2
<1>6. StackOK(new)
  BY <1>4, <1>5 DEF StackOK
<1> QED
  BY <1>2, <1>3, <1>6 DEF new

LEMMA LastAtFound ==
    ASSUME NEW S, NEW s \in Seq(S), NEW v, \E i \in DOMAIN s : s[i] = v
    PROVE  LastAt(s, v) \in DOMAIN s
<1> DEFINE beyond == {k \in Nat : \A j \in DOMAIN s : s[j] = v => j <= k}
<1>1. Len(s) \in Nat /\ DOMAIN s = 1..Len(s)
  OBVIOUS
<1>2. beyond \subseteq Nat /\ Len(s) \in beyond
  BY <1>1
<1>3. PICK m \in beyond : \A k \in beyond : m <= k
  <2>1. beyond # {}
    BY <1>2
  <2> HIDE DEF beyond
  <2> QED
    BY <1>2, <2>1, Least
<1>4. m \in Nat /\ \A j \in DOMAIN s : s[j] = v => j <= m
  OBVIOUS
<1>5. PICK i \in DOMAIN s : s[i] = v
  OBVIOUS
<1>6. m > 0
  BY <1>1, <1>4, <1>5
<1>7. \E j \in DOMAIN s : s[j] = v /\ j = m
  <2> SUFFICES ASSUME \A j \in DOMAIN s : s[j] = v => j # m PROVE FALSE
    OBVIOUS
  <2>1. \A j \in DOMAIN s : s[j] = v => j <= m - 1
    BY <1>1, <1>4
  <2>2. m - 1 \in beyond
    BY <1>4, <1>6, <2>1
  <2>3. m <= m - 1
    BY <1>3, <2>2
  <2> QED
    BY <1>4, <2>3
<1>8. \E i2 \in DOMAIN s : s[i2] = v /\ \A j \in DOMAIN s : s[j] = v => j <= i2
  BY <1>4, <1>7
<1> QED
  BY <1>8 DEF LastAt

LEMMA PastTyped ==
    ASSUME Typed, NEW f \in Files, NEW v
    PROVE  PastAfterRestore(f, v) \in Seq(Version)
<1>1. past[f] \in Seq(Version)
  BY DEF Typed
<1>2. CASE v # fs[f] /\ \E i \in DOMAIN past[f] : past[f][i] = v
  <2> DEFINE k == LastAt(past[f], v)
  <2>1. k \in DOMAIN past[f]
    BY <1>1, <1>2, LastAtFound
  <2> HIDE DEF k
  <2>2. Len(past[f]) \in Nat /\ k \in 1..Len(past[f])
    BY <1>1, <2>1
  <2>3. k - 1 \in Nat /\ k - 1 <= Len(past[f])
    BY <2>2
  <2>4. SubSeq(past[f], 1, k - 1) \in Seq(Version)
    BY <1>1, <2>2, <2>3
  <2> QED
    BY <1>2, <2>4 DEF PastAfterRestore, k
<1> QED
  BY <1>1, <1>2 DEF PastAfterRestore

-----------------------------------------------------------------------------
(* The invariant holds at first, and every step keeps it. *)

LEMMA Start == Init => IInv
<1> SUFFICES ASSUME Init PROVE IInv
  OBVIOUS
<1> USE DEF Init
<1>1. Says("system") \in Message /\ ~UserRole(Says("system"))
  BY DEF Says, Message, Kinds, UserRole
<1>2. Typed
  <2>1. msgs \in Seq(Message)
    BY <1>1
  <2>2. undo \in [Files -> Seq(Version \ Oversize)] /\ past \in [Files -> Seq(Version)]
    OBVIOUS
  <2>3. panel \in [open : BOOLEAN, kind : {"user", "batch", "inside"}, slot : Nat,
                   offers : BOOLEAN, confirming : BOOLEAN]
    BY DEF Closed
  <2>4. cut \in [slot : Nat, seen : Nat]
    BY DEF NoCut
  <2>5. checkpoints \in Seq(Checkpoint)
    OBVIOUS
  <2> QED
    BY <2>1, <2>2, <2>3, <2>4, <2>5 DEF Typed
<1>3. Stacks
  BY FilesAssumption DEF Stacks, StackOK
<1>4. Shape
  BY <1>1 DEF Shape, WellFormed
<1>5. Len(checkpoints) = 0 /\ DOMAIN checkpoints = {} /\ DOMAIN truth = {} /\ 1..0 = {}
  OBVIOUS
<1>6. Placed /\ SameFiles /\ Settled /\ RestoreGoesBack
  BY <1>5 DEF Placed, SameFiles, Settled, RestoreGoesBack
<1>7. Cutting
  BY DEF Cutting
<1> QED
  BY <1>2, <1>3, <1>4, <1>6, <1>7 DEF IInv

(* A message of the person, or a nudge, after a checkpoint. *)
LEMMA SteeredKeeps ==
    ASSUME IInv, pc # "cutting", NEW ms \in Seq(Message), WellFormed(ms),
           Last(ms).kind # "warn", Len(ms) >= KeptLen, CheckpointAt(ms),
           msgs' = Append(ms, Says("user")), pc' = "round",
           UNCHANGED <<editing, files, undo, rewinding>>
    PROVE  IInv'
<1> USE DEF files, rewinding
<1>1. Typed /\ Stacks /\ Shape /\ Placed /\ SameFiles /\ Settled /\ RestoreGoesBack
  BY DEF IInv
<1>2. Says("user") \in Message /\ Says("user").kind = "user"
  BY DEF Says, Message, Kinds
<1>3. /\ msgs' \in Seq(Message) /\ Len(msgs') = Len(ms) + 1 /\ WellFormed(msgs')
      /\ KeptLen' = Len(ms) + 1
  BY <1>2, AppendForm DEF KeptLen
<1>4. /\ checkpoints' \in Seq(Checkpoint)
      /\ \A i, j \in 1..Len(checkpoints') :
            i < j => checkpoints'[i].slot < checkpoints'[j].slot
      /\ \A i \in 1..Len(checkpoints') : checkpoints'[i].slot <= Len(ms)
      /\ DOMAIN truth' = {checkpoints'[i].slot : i \in 1..Len(checkpoints')}
      /\ \A i, j \in 1..Len(checkpoints') :
            DOMAIN checkpoints'[i].known = DOMAIN checkpoints'[j].known
      /\ RestoreGoesBack'
  BY <1>1, Taken
<1>5. Typed'
  BY <1>1, <1>3, <1>4 DEF Typed
<1>6. Stacks'
  BY <1>1 DEF Stacks
<1>7. Shape'
  BY <1>3 DEF Shape
<1>8. \A i \in 1..Len(checkpoints') : checkpoints'[i].slot \in Nat
  <2>1. \A cp \in Checkpoint : cp.slot \in Nat
    BY DEF Checkpoint
  <2>2. \A i \in 1..Len(checkpoints') : checkpoints'[i] \in Checkpoint
    BY <1>4
  <2> QED
    BY <2>1, <2>2
<1>9. \A i \in 1..Len(checkpoints') : /\ checkpoints'[i].slot <= Len(ms) + 1
                                      /\ checkpoints'[i].slot # Len(ms) + 1
  <2>1. Len(ms) \in Nat
    OBVIOUS
  <2> QED
    BY <1>4, <1>8, <2>1
<1>10. Placed'
  BY <1>3, <1>4, <1>9 DEF Placed
<1>11. Settled'
  BY <1>3, <1>9 DEF Settled
<1>12. Cutting' /\ SameFiles'
  BY <1>4 DEF Cutting, SameFiles
<1> QED
  BY <1>4, <1>5, <1>6, <1>7, <1>10, <1>11, <1>12 DEF IInv

LEMMA PromptKeeps == ASSUME IInv, Prompt PROVE IInv'
<1> DEFINE kept == IF Last(msgs).kind = "warn" THEN Front(msgs) ELSE msgs
           whole == kept \o Repeat(Unanswered(kept), Says("tool"))
<1>1. Typed /\ Shape
  BY DEF IInv
<1>2. msgs \in Seq(Message) /\ WellFormed(msgs) /\ Len(msgs) \in Nat
  BY <1>1, MessagesTyped DEF Shape
<1>3. /\ pc = "idle" /\ CheckpointAt(whole) /\ msgs' = Append(whole, Says("user"))
      /\ pc' = "round" /\ UNCHANGED <<editing, files, undo, rewinding>>
  BY DEF Prompt
<1>4. kept \in Seq(Message) /\ WellFormed(kept) /\ Last(kept).kind # "warn" /\ Len(kept) = KeptLen
  <2>1. CASE Last(msgs).kind = "warn"
    <3>1. KeptLen = Len(msgs) - 1 /\ KeptLen \in 1..Len(msgs)
      BY <1>1, <2>1, MessagesTyped DEF KeptLen, KeptOf
    <3>2. kept = SubSeq(msgs, 1, Len(msgs) - 1) /\ Len(msgs) - 1 \in 1..Len(msgs)
      BY <2>1, <3>1 DEF Front
    <3> HIDE DEF kept
    <3>3. /\ kept \in Seq(Message) /\ Len(kept) = Len(msgs) - 1
          /\ WellFormed(kept) /\ Last(kept) = msgs[Len(msgs) - 1]
      BY <1>2, <3>2, PrefixForm
    <3>4. Len(msgs) \in 2..Len(msgs)
      BY <1>2, <3>2
    <3>5. UserRole(msgs[Len(msgs)])
      BY <2>1 DEF Last, UserRole
    <3>6. msgs[Len(msgs) - 1].kind # "warn"
      BY <1>2, <3>4, <3>5 DEF WellFormed
    <3> QED
      BY <3>1, <3>3, <3>6
  <2>2. CASE Last(msgs).kind # "warn"
    BY <1>2, <2>2 DEF KeptLen, KeptOf
  <2> QED
    BY <2>1, <2>2
<1> HIDE DEF kept
<1>5. Unanswered(kept) \in Int
  <2> DEFINE calls == {i \in 1..Len(kept) : /\ MakesCalls(kept[i])
                                            /\ \A j \in (i+1)..Len(kept) : kept[j].kind = "tool"}
             last == CHOOSE i \in calls : TRUE
  <2>1. Unanswered(kept) = IF calls = {} THEN 0 ELSE kept[last].calls - (Len(kept) - last)
    BY DEF Unanswered
  <2>2. calls # {} => last \in 1..Len(kept)
    OBVIOUS
  <2> HIDE DEF last
  <2>3. calls # {} => last \in Nat /\ kept[last].calls \in Nat /\ Len(kept) \in Nat
    <3>1. \A m \in Message : m.calls \in Nat
      BY DEF Message
    <3>2. \A i \in 1..Len(kept) : kept[i] \in Message
      BY <1>4
    <3> HIDE DEF calls
    <3> QED
      BY <1>4, <2>2, <3>1, <3>2
  <2> QED
    BY <2>1, <2>3
<1>6. /\ whole \in Seq(Message) /\ Len(whole) \in Nat /\ Len(whole) >= Len(kept)
      /\ WellFormed(whole) /\ Last(whole).kind # "warn"
  BY <1>4, <1>5, RepairForm
<1>7. Len(whole) >= KeptLen
  BY <1>4, <1>6
<1> HIDE DEF whole
<1> QED
  BY <1>3, <1>6, <1>7, SteeredKeeps

(* Steps that only add a reply or a response, and may change pc and editing. *)
LEMMA RepliedKeeps ==
    ASSUME IInv, NEW m \in Message, m.kind # "warn", ~UserRole(m),
           msgs' = Append(msgs, m), pc' \in {"idle", "round", "tools"},
           UNCHANGED <<editing, files, checkpoints, undo, rewinding, truth>>
    PROVE  IInv'
<1> USE DEF files, rewinding
<1>1. Typed /\ Stacks /\ Shape /\ Placed /\ SameFiles /\ RestoreGoesBack
  BY DEF IInv
<1>2. msgs' \in Seq(Message) /\ Shape' /\ Placed' /\ Cutting' /\ Settled'
  BY <1>1, Lengthened
<1>3. Typed'
  BY <1>1, <1>2 DEF Typed
<1>4. Stacks' /\ SameFiles'
  BY <1>1 DEF Stacks, SameFiles
<1>5. RestoreGoesBack'
  BY <1>1, Untouched
<1> QED
  BY <1>2, <1>3, <1>4, <1>5 DEF IInv

LEMMA AskKeeps ==
    ASSUME IInv, NEW kind \in {"run", "call"}, NEW n \in Nat, AskTools(kind, n) PROVE IInv'
<1> DEFINE m == [kind |-> kind, calls |-> n]
<1>1. m \in Message /\ m.kind # "warn" /\ ~UserRole(m)
  BY DEF Message, Kinds, UserRole
<1>2. /\ msgs' = Append(msgs, m) /\ pc' = "tools"
      /\ UNCHANGED <<editing, files, checkpoints, undo, rewinding, truth>>
  BY DEF AskTools
<1> HIDE DEF m
<1> QED
  BY <1>1, <1>2, RepliedKeeps

LEMMA OtherToolKeeps == ASSUME IInv, OtherTool PROVE IInv'
<1>1. Says("tool") \in Message /\ Says("tool").kind = "tool" /\ ~UserRole(Says("tool"))
  BY DEF Says, Message, Kinds, UserRole
<1>2. /\ msgs' = Append(msgs, Says("tool")) /\ pc' = "tools"
      /\ UNCHANGED <<editing, files, checkpoints, undo, rewinding, truth>>
  BY DEF OtherTool
<1> QED
  BY <1>1, <1>2, RepliedKeeps

LEMMA AnswerKeeps == ASSUME IInv, NEW nudged \in BOOLEAN, Answer(nudged) PROVE IInv'
<1> DEFINE text == Says("text")
           ms == Append(msgs, text)
<1>1. text \in Message /\ text.kind = "text" /\ ~UserRole(text)
  BY DEF Says, Message, Kinds, UserRole
<1>2. CASE nudged
  <2>1. /\ pc = "round" /\ CheckpointAt(ms) /\ msgs' = Append(ms, Says("user")) /\ pc' = "round"
        /\ UNCHANGED <<editing, files, undo, rewinding>>
    BY <1>2 DEF Answer
  <2>2. msgs \in Seq(Message) /\ WellFormed(msgs) /\ Len(msgs) \in Nat /\ KeptLen \in 1..Len(msgs)
    BY MessagesTyped DEF IInv, Shape
  <2>3. ms \in Seq(Message) /\ WellFormed(ms) /\ Last(ms) = text /\ Len(ms) = Len(msgs) + 1
    BY <1>1, <2>2, AppendForm
  <2>4. Len(ms) >= KeptLen
    BY <2>2, <2>3
  <2> HIDE DEF ms, text
  <2> QED
    BY <1>1, <2>1, <2>3, <2>4, SteeredKeeps
<1>3. CASE ~nudged
  <2>1. /\ msgs' = ms /\ pc' = "idle"
        /\ UNCHANGED <<editing, files, checkpoints, undo, rewinding, truth>>
    BY <1>3 DEF Answer
  <2> HIDE DEF text
  <2> QED
    BY <1>1, <2>1, RepliedKeeps
<1> QED
  BY <1>2, <1>3

LEMMA InjectKeeps == ASSUME IInv, Inject PROVE IInv'
<1> USE DEF files, rewinding
<1>1. Typed /\ Stacks /\ Shape /\ Placed /\ SameFiles /\ Settled /\ RestoreGoesBack
  BY DEF IInv
<1>2. Says("warn") \in Message /\ Says("warn").kind = "warn"
  BY DEF Says, Message, Kinds
<1>3. /\ pc = "round" /\ Last(msgs).kind # "warn" /\ msgs' = Append(msgs, Says("warn"))
      /\ UNCHANGED <<pc, editing, files, checkpoints, undo, rewinding, truth>>
  BY DEF Inject
<1>4. msgs \in Seq(Message) /\ WellFormed(msgs)
  BY <1>1 DEF Typed, Shape
<1>5. /\ msgs' \in Seq(Message) /\ WellFormed(msgs') /\ KeptLen' = Len(msgs)
  BY <1>2, <1>3, <1>4, AppendForm DEF KeptLen
<1>6. KeptLen = Len(msgs)
  BY <1>3 DEF KeptLen, KeptOf
<1>7. Typed'
  BY <1>1, <1>3, <1>5 DEF Typed
<1>8. Stacks' /\ Shape' /\ Cutting' /\ SameFiles'
  BY <1>1, <1>3, <1>5 DEF Stacks, Shape, Cutting, SameFiles
<1>9. Placed'
  BY <1>1, <1>3, <1>5, <1>6 DEF Placed
<1>10. Settled'
  BY <1>1, <1>3, <1>5, <1>6 DEF Settled, Loose
<1>11. RestoreGoesBack'
  BY <1>1, <1>3, Untouched
<1> QED
  BY <1>7, <1>8, <1>9, <1>10, <1>11 DEF IInv

LEMMA CloseBatchKeeps == ASSUME IInv, NEW steered \in BOOLEAN, CloseBatch(steered) PROVE IInv'
<1> USE DEF files, rewinding
<1>1. Typed /\ Stacks /\ Shape /\ Placed /\ SameFiles /\ Settled /\ RestoreGoesBack
  BY DEF IInv
<1>2. /\ pc = "tools" /\ CheckpointAt(msgs) /\ pc' = "round"
      /\ msgs' = IF steered THEN Append(msgs, Says("user")) ELSE msgs
      /\ UNCHANGED <<editing, files, undo, rewinding>>
  BY DEF CloseBatch
<1>3. /\ msgs \in Seq(Message) /\ WellFormed(msgs) /\ Len(msgs) \in Nat
      /\ Last(msgs).kind # "warn" /\ KeptLen = Len(msgs)
  BY <1>1, <1>2, MessagesTyped DEF Shape, KeptLen, KeptOf
<1>4. Len(msgs) >= KeptLen
  BY <1>3
<1>5. CASE steered
  BY <1>2, <1>3, <1>4, <1>5, SteeredKeeps
<1>6. CASE ~steered
  <2>1. msgs' = msgs /\ KeptLen' = Len(msgs)
    BY <1>2, <1>3, <1>6 DEF KeptLen
  <2>2. /\ checkpoints' \in Seq(Checkpoint)
        /\ \A i, j \in 1..Len(checkpoints') :
              i < j => checkpoints'[i].slot < checkpoints'[j].slot
        /\ \A i \in 1..Len(checkpoints') : checkpoints'[i].slot <= Len(msgs)
        /\ DOMAIN truth' = {checkpoints'[i].slot : i \in 1..Len(checkpoints')}
        /\ truth'[Len(msgs)] = fs
        /\ \A i, j \in 1..Len(checkpoints') :
              DOMAIN checkpoints'[i].known = DOMAIN checkpoints'[j].known
        /\ RestoreGoesBack'
    <3>1. pc # "cutting" /\ UNCHANGED <<fs, touched, blind>>
      BY <1>2
    <3> QED
      BY <1>1, <1>2, <1>3, <1>4, <3>1, Taken
  <2>3. Typed'
    BY <1>1, <1>2, <1>3, <2>1, <2>2 DEF Typed
  <2>4. Stacks' /\ Shape' /\ Cutting' /\ SameFiles'
    BY <1>1, <1>2, <2>1, <2>2 DEF Stacks, Shape, Cutting, SameFiles
  <2>5. Placed'
    BY <1>2, <2>1, <2>2 DEF Placed
  <2>6. Settled'
    BY <1>2, <2>1, <2>2 DEF Settled
  <2> QED
    BY <2>2, <2>3, <2>4, <2>5, <2>6 DEF IInv
<1> QED
  BY <1>5, <1>6

-----------------------------------------------------------------------------
(* The tools. *)

LEMMA StartEditKeeps == ASSUME IInv, NEW f \in Files, StartEdit(f) PROVE IInv'
<1> USE DEF rewinding
<1> DEFINE L == Len(checkpoints)
<1>1. Typed /\ Stacks /\ Shape /\ Placed /\ SameFiles /\ Settled /\ RestoreGoesBack
  BY DEF IInv
<1>2. PICK content \in SnapshotOutcomes(f) :
         /\ checkpoints' = WithSnapshot(f, content)
         /\ undo' = Captured(f, content)
         /\ touched' = IF content = fs[f] THEN touched ELSE touched \union {f}
  BY DEF StartEdit
<1>3. /\ pc = "tools" /\ pc' = "edit" /\ editing' = {f}
      /\ UNCHANGED <<msgs, fs, panel, cut, truth, past, blind>>
  BY DEF StartEdit
<1>4. content \in Version /\ fs \in Disk /\ fs[f] \in Version
  BY <1>1 DEF Typed, Disk, Version, SnapshotOutcomes
<1>5. /\ L \in Nat /\ DOMAIN checkpoints = 1..L
      /\ \A i \in 1..L : /\ checkpoints[i] \in Checkpoint /\ checkpoints[i].slot \in Nat
                         /\ checkpoints[i].known \in Snapshots
  BY <1>1, CheckpointsTyped
<1> DEFINE learnt(s) == [g \in DOMAIN s \union {f} |-> IF g = f THEN content ELSE s[g]]
<1>6. ASSUME NEW i \in 1..L
      PROVE  /\ checkpoints'[i] \in Checkpoint
             /\ checkpoints'[i].slot = checkpoints[i].slot
             /\ DOMAIN checkpoints'[i].known = DOMAIN checkpoints[i].known \union {f}
             /\ \A g \in DOMAIN checkpoints[i].known :
                   checkpoints'[i].known[g] = checkpoints[i].known[g]
             /\ f \notin DOMAIN checkpoints[i].known => checkpoints'[i].known[f] = content
  <2> DEFINE old == checkpoints[i]
  <2>1. checkpoints'[i] = IF f \in DOMAIN old.known THEN old
                          ELSE [old EXCEPT !.known = learnt(@)]
    BY <1>2, <1>5 DEF WithSnapshot
  <2>2. old \in [slot : Nat, known : Snapshots]
    BY <1>5 DEF Checkpoint
  <2> HIDE DEF old
  <2>3. CASE f \in DOMAIN old.known
    <3>1. checkpoints'[i] = old
      BY <2>1, <2>3
    <3>2. DOMAIN old.known \union {f} = DOMAIN old.known
      BY <2>3
    <3> QED
      BY <2>2, <2>3, <3>1, <3>2 DEF old, Checkpoint
  <2>4. CASE f \notin DOMAIN old.known
    <3>1. checkpoints'[i] = [slot |-> old.slot, known |-> learnt(old.known)]
      BY <2>1, <2>2, <2>4
    <3>2. DOMAIN old.known \subseteq Files /\ old.known \in [DOMAIN old.known -> Version]
      BY <2>2, SnapshotTyped
    <3>3. learnt(old.known) \in [DOMAIN old.known \union {f} -> Version]
      BY <1>4, <3>2
    <3>4. DOMAIN old.known \union {f} \in SUBSET Files
      BY <3>2
    <3>5. learnt(old.known) \in Snapshots
      BY <3>3, <3>4 DEF Snapshots
    <3>6. /\ DOMAIN learnt(old.known) = DOMAIN old.known \union {f}
          /\ \A g \in DOMAIN old.known : learnt(old.known)[g] = old.known[g]
          /\ learnt(old.known)[f] = content
      BY <2>4
    <3> HIDE DEF learnt
    <3>7. checkpoints'[i].slot = old.slot /\ checkpoints'[i].known = learnt(old.known)
      BY <3>1
    <3>8. checkpoints'[i] \in Checkpoint
      BY <2>2, <3>1, <3>5 DEF Checkpoint
    <3> QED
      BY <3>6, <3>7, <3>8 DEF old
  <2> QED
    BY <2>3, <2>4
<1> HIDE DEF learnt
<1>7. checkpoints' \in Seq(Checkpoint) /\ Len(checkpoints') = L /\ DOMAIN checkpoints' = 1..L
  <2>1. \E F : checkpoints' = [i \in 1..L |-> F[i]]
    <3> DEFINE F == checkpoints'
    <3>1. F = [i \in 1..L |-> F[i]]
      BY <1>2, <1>5 DEF WithSnapshot
    <3> QED
      BY <3>1
  <2>2. checkpoints' = [i \in 1..L |-> checkpoints'[i]]
    BY <2>1
  <2> QED
    BY <1>5, <1>6, <2>2
<1>8. \A i \in 1..L : checkpoints[i].slot < Len(msgs)
  BY <1>1, <1>3 DEF Placed
<1>9. KeptLen = Len(msgs) /\ KeptLen' = Len(msgs) /\ Len(msgs) \in Nat
  BY <1>1, <1>3, MessagesTyped DEF Shape, KeptLen, KeptOf
<1>10. Typed' /\ Stacks'
  <2>1. undo \in [Files -> Seq(Version \ Oversize)] /\ StackOK(undo[f])
    BY <1>1 DEF Typed, Stacks
  <2>2. CASE undo' = undo
    BY <1>1, <1>3, <1>2, <1>7, <2>2 DEF Typed, Stacks
  <2>3. CASE undo' # undo
    <3> DEFINE pushed == Append(undo[f], content)
               new == IF Len(pushed) > MaxVersions THEN Tail(pushed) ELSE pushed
    <3>1. /\ content \notin Oversize /\ (undo[f] # <<>> => Last(undo[f]) # content)
          /\ undo' = [undo EXCEPT ![f] = new]
      BY <1>2, <2>3 DEF Captured
    <3>2. content \in Version \ Oversize
      BY <1>4, <3>1
    <3>3. new \in Seq(Version \ Oversize) /\ StackOK(new)
      BY <2>1, <3>1, <3>2, PushKeeps
    <3> HIDE DEF new
    <3>4. undo' \in [Files -> Seq(Version \ Oversize)]
      BY <2>1, <3>1, <3>3
    <3>5. ASSUME NEW g \in Files PROVE StackOK(undo'[g])
      BY <1>1, <2>1, <3>1, <3>3 DEF Stacks
    <3> QED
      BY <1>1, <1>2, <1>3, <1>7, <3>4, <3>5 DEF Typed, Stacks
  <2> QED
    BY <2>2, <2>3
<1>11. Shape' /\ Cutting'
  BY <1>1, <1>3 DEF Shape, Cutting
<1>12. Placed'
  <2>1. \A i \in 1..L : checkpoints'[i].slot <= Len(msgs) /\ checkpoints'[i].slot < Len(msgs)
    BY <1>5, <1>6, <1>8, <1>9
  <2>2. \A i, j \in 1..L : i < j => checkpoints'[i].slot < checkpoints'[j].slot
    BY <1>1, <1>6 DEF Placed
  <2>3. DOMAIN truth' = {checkpoints'[i].slot : i \in 1..L}
    BY <1>1, <1>3, <1>6 DEF Placed
  <2> QED
    BY <1>3, <1>7, <1>9, <2>1, <2>2, <2>3 DEF Placed
<1>13. SameFiles'
  <2>1. \A i, j \in 1..L : DOMAIN checkpoints'[i].known = DOMAIN checkpoints'[j].known
    BY <1>1, <1>6 DEF SameFiles
  <2> QED
    BY <1>3, <1>6, <1>7, <2>1 DEF SameFiles
<1>14. Settled'
  <2>1. \A i \in 1..L : checkpoints'[i].slot # Len(msgs)
    BY <1>5, <1>6, <1>8, <1>9
  <2> QED
    BY <1>7, <1>9, <2>1 DEF Settled
<1>15. RestoreGoesBack'
  <2> SUFFICES ASSUME NEW i \in 1..L, NEW g \in Files \ (touched' \union blind'),
                      checkpoints'[i].slot \in DOMAIN truth'
               PROVE  GoesBackTo(checkpoints[i], g)' = truth'[checkpoints'[i].slot][g]
    BY <1>7 DEF RestoreGoesBack, GoesBackTo
  <2>1. g \in Files \ (touched \union blind)
    BY <1>2, <1>3
  <2>2. checkpoints[i].slot \in DOMAIN truth
    BY <1>3, <1>6
  <2>3. GoesBackTo(checkpoints[i], g) = truth[checkpoints[i].slot][g]
    BY <1>1, <1>5, <2>1, <2>2 DEF RestoreGoesBack
  <2>4. GoesBackTo(checkpoints[i], g)' = GoesBackTo(checkpoints[i], g)
    <3>1. CASE g \in DOMAIN checkpoints[i].known
      BY <1>3, <1>6, <3>1 DEF GoesBackTo
    <3>2. CASE g \notin DOMAIN checkpoints[i].known /\ g # f
      BY <1>3, <1>6, <3>2 DEF GoesBackTo
    <3>3. CASE g \notin DOMAIN checkpoints[i].known /\ g = f
      <4>1. content = fs[f]
        BY <1>2, <3>3
      <4> QED
        BY <1>3, <1>6, <3>3, <4>1 DEF GoesBackTo
    <3> QED
      BY <3>1, <3>2, <3>3
  <2> QED
    BY <1>3, <1>6, <2>3, <2>4
<1> QED
  BY <1>10, <1>11, <1>12, <1>13, <1>14, <1>15 DEF IInv

(* The file of a running edit is known to every checkpoint. *)
LEMMA WrittenKeeps ==
    ASSUME IInv, NEW f \in Files, NEW content \in Version, pc = "edit", f \in editing,
           Written(f, content), UNCHANGED <<checkpoints, truth, touched, blind>>
    PROVE  fs' \in Disk /\ past' \in [Files -> Seq(Version)] /\ RestoreGoesBack'
<1>1. Typed /\ SameFiles /\ RestoreGoesBack
  BY DEF IInv
<1>2. fs \in [Files -> Version] /\ past \in [Files -> Seq(Version)]
  BY <1>1 DEF Typed, Disk
<1>3. fs' = [fs EXCEPT ![f] = content]
  BY DEF Written
<1>4. fs' \in Disk
  BY <1>2, <1>3 DEF Disk
<1>5. past' \in [Files -> Seq(Version)]
  <2>1. Append(past[f], fs[f]) \in Seq(Version)
    BY <1>2
  <2> QED
    BY <1>2, <2>1 DEF Written
<1>6. RestoreGoesBack'
  <2>1. \A i \in DOMAIN checkpoints : f \in DOMAIN checkpoints[i].known
    BY <1>1, CheckpointsTyped DEF SameFiles
  <2>2. \A g \in Files : g # f => fs'[g] = fs[g]
    BY <1>2, <1>3
  <2> QED
    BY <1>1, <2>1, <2>2, Untouched
<1> QED
  BY <1>4, <1>5, <1>6

LEMMA EndEditKeeps ==
    ASSUME IInv, NEW f \in Files, NEW content \in Version, EndEdit(f, content) PROVE IInv'
<1> USE DEF rewinding
<1>1. Typed /\ Stacks /\ Shape /\ Placed /\ SameFiles
  BY DEF IInv
<1>2. Says("tool") \in Message /\ Says("tool").kind = "tool" /\ ~UserRole(Says("tool"))
  BY DEF Says, Message, Kinds, UserRole
<1>3. /\ pc = "edit" /\ f \in editing /\ Written(f, content)
      /\ msgs' = Append(msgs, Says("tool")) /\ editing' = {} /\ pc' = "tools"
      /\ UNCHANGED <<checkpoints, undo, panel, cut, truth, touched, blind>>
  BY DEF EndEdit
<1>4. msgs' \in Seq(Message) /\ Shape' /\ Placed' /\ Cutting' /\ Settled'
  BY <1>1, <1>2, <1>3, Lengthened
<1>5. fs' \in Disk /\ past' \in [Files -> Seq(Version)] /\ RestoreGoesBack'
  BY <1>3, WrittenKeeps
<1>6. Typed'
  BY <1>1, <1>3, <1>4, <1>5 DEF Typed
<1>7. Stacks' /\ SameFiles'
  BY <1>1, <1>3 DEF Stacks, SameFiles
<1> QED
  BY <1>4, <1>5, <1>6, <1>7 DEF IInv

LEMMA CutEditKeeps ==
    ASSUME IInv, NEW f \in Files, NEW content \in Version, NEW answered \in BOOLEAN,
           CutEdit(f, content, answered)
    PROVE  IInv'
<1> USE DEF rewinding
<1>1. Typed /\ Stacks /\ Shape /\ Placed /\ SameFiles
  BY DEF IInv
<1>2. Says("tool") \in Message /\ Says("tool").kind = "tool" /\ ~UserRole(Says("tool"))
  BY DEF Says, Message, Kinds, UserRole
<1>3. /\ pc = "edit" /\ f \in editing /\ Written(f, content)
      /\ msgs' = (IF answered THEN Append(msgs, Says("tool")) ELSE msgs)
      /\ editing' = {} /\ pc' = "idle"
      /\ UNCHANGED <<checkpoints, undo, panel, cut, truth, touched, blind>>
  BY DEF CutEdit
<1>4. msgs' \in Seq(Message) /\ Shape' /\ Placed' /\ Cutting' /\ Settled'
  <2>1. CASE answered
    BY <1>1, <1>2, <1>3, <2>1, Lengthened
  <2>2. CASE ~answered
    <3>1. msgs' = msgs
      BY <1>3, <2>2
    <3>2. \A i \in 1..Len(checkpoints) : /\ checkpoints[i].slot \in Nat
                                         /\ checkpoints[i].slot < Len(msgs)
      BY <1>1, <1>3, CheckpointsTyped DEF Placed
    <3>3. KeptLen' = Len(msgs) /\ Len(msgs) \in Nat
      BY <1>1, <1>3, <3>1, MessagesTyped DEF Shape, KeptLen, KeptOf
    <3>4. \A i \in 1..Len(checkpoints) : /\ checkpoints[i].slot <= Len(msgs)
                                         /\ checkpoints[i].slot # Len(msgs)
      BY <3>2, <3>3
    <3>5. Placed'
      BY <1>1, <1>3, <3>3, <3>4 DEF Placed
    <3>6. Settled'
      BY <1>3, <3>3, <3>4 DEF Settled
    <3> QED
      BY <1>1, <1>3, <3>1, <3>5, <3>6 DEF Typed, Shape, Cutting
  <2> QED
    BY <2>1, <2>2
<1>5. fs' \in Disk /\ past' \in [Files -> Seq(Version)] /\ RestoreGoesBack'
  BY <1>3, WrittenKeeps
<1>6. Typed'
  BY <1>1, <1>3, <1>4, <1>5 DEF Typed
<1>7. Stacks' /\ SameFiles'
  BY <1>1, <1>3 DEF Stacks, SameFiles
<1> QED
  BY <1>4, <1>5, <1>6, <1>7 DEF IInv

LEMMA RestoreFileKeeps ==
    ASSUME IInv, NEW f \in Files, NEW confirmed \in BOOLEAN, RestoreFile(f, confirmed) PROVE IInv'
<1> USE DEF rewinding
<1>1. Typed /\ Stacks /\ Shape /\ Placed /\ SameFiles /\ RestoreGoesBack
  BY DEF IInv
<1>2. Says("tool") \in Message /\ Says("tool").kind = "tool" /\ ~UserRole(Says("tool"))
  BY DEF Says, Message, Kinds, UserRole
<1>3. /\ pc = "tools" /\ pc' = "tools" /\ msgs' = Append(msgs, Says("tool"))
      /\ UNCHANGED <<editing, checkpoints, panel, cut, truth, touched>>
  BY DEF RestoreFile
<1>4. msgs' \in Seq(Message) /\ Shape' /\ Placed' /\ Cutting' /\ Settled'
  BY <1>1, <1>2, <1>3, Lengthened
<1>5. SameFiles'
  BY <1>1, <1>3 DEF SameFiles
<1>6. CASE UNCHANGED <<fs, undo, past, blind>>
  <2>1. Typed' /\ Stacks'
    BY <1>1, <1>3, <1>4, <1>6 DEF Typed, Stacks
  <2>2. RestoreGoesBack'
    BY <1>1, <1>3, <1>6, Untouched
  <2> QED
    BY <1>4, <1>5, <2>1, <2>2 DEF IInv
<1>7. CASE ~UNCHANGED <<fs, undo, past, blind>>
  <2>1. /\ undo[f] # <<>>
        /\ fs' = [fs EXCEPT ![f] = Newest(f)]
        /\ undo' = [undo EXCEPT ![f] = Front(@)]
        /\ past' = [past EXCEPT ![f] = PastAfterRestore(f, Newest(f))]
        /\ blind' = IF \A i \in DOMAIN checkpoints : f \in DOMAIN checkpoints[i].known
                    THEN blind ELSE blind \union {f}
    BY <1>7 DEF RestoreFile
  <2>2. /\ undo \in [Files -> Seq(Version \ Oversize)] /\ fs \in [Files -> Version]
        /\ past \in [Files -> Seq(Version)] /\ blind \subseteq Files
    BY <1>1 DEF Typed, Disk
  <2>3. undo[f] \in Seq(Version \ Oversize) /\ StackOK(undo[f])
    BY <1>1, <2>2 DEF Stacks
  <2>4. /\ Newest(f) \in Version /\ Front(undo[f]) \in Seq(Version \ Oversize)
        /\ StackOK(Front(undo[f]))
    BY <2>1, <2>3, PopKeeps DEF Newest
  <2>5. PastAfterRestore(f, Newest(f)) \in Seq(Version)
    BY <1>1, PastTyped
  <2>6. fs' \in Disk /\ undo' \in [Files -> Seq(Version \ Oversize)]
    BY <2>1, <2>2, <2>4 DEF Disk
  <2>7. past' \in [Files -> Seq(Version)] /\ blind' \subseteq Files
    BY <2>1, <2>2, <2>5
  <2>8. Typed'
    BY <1>1, <1>3, <1>4, <2>6, <2>7 DEF Typed
  <2>9. Stacks'
    <3>1. \A g \in Files : undo'[g] = IF g = f THEN Front(undo[f]) ELSE undo[g]
      BY <2>1, <2>2
    <3> QED
      BY <1>1, <2>4, <3>1 DEF Stacks
  <2>10. RestoreGoesBack'
    <3>1. \A g \in Files \ {f} : fs'[g] = fs[g]
      BY <2>1, <2>2
    <3>2. blind \subseteq blind' /\ touched \subseteq touched'
      BY <1>3, <2>1
    <3>3. f \notin blind' => \A i \in DOMAIN checkpoints : f \in DOMAIN checkpoints[i].known
      BY <2>1
    <3> QED
      BY <1>1, <1>3, <3>1, <3>2, <3>3, Untouched
  <2> QED
    BY <1>4, <1>5, <2>8, <2>9, <2>10 DEF IInv
<1> QED
  BY <1>6, <1>7

-----------------------------------------------------------------------------
(* Stops, resets, writes from outside, and the panel. *)

LEMMA StopTurnKeeps == ASSUME IInv, StopTurn PROVE IInv'
<1> USE DEF files, rewinding
<1>1. Typed /\ Stacks /\ Shape /\ Placed /\ SameFiles /\ Settled /\ RestoreGoesBack
  BY DEF IInv
<1>2. /\ pc \in {"round", "tools"} /\ pc' = "idle"
      /\ UNCHANGED <<msgs, editing, files, checkpoints, undo, rewinding, truth>>
  BY DEF StopTurn
<1>3. Typed' /\ Stacks' /\ Shape' /\ Cutting' /\ SameFiles'
  BY <1>1, <1>2 DEF Typed, Stacks, Shape, Cutting, SameFiles
<1>4. KeptLen' = KeptLen
  BY <1>2 DEF KeptLen
<1>5. Placed'
  BY <1>1, <1>2, <1>4 DEF Placed
<1>6. Settled'
  BY <1>1, <1>2, <1>4 DEF Settled, Loose
<1>7. RestoreGoesBack'
  BY <1>1, <1>2, Untouched
<1> QED
  BY <1>3, <1>5, <1>6, <1>7 DEF IInv

LEMMA ResetKeeps ==
    ASSUME IInv, NEW kept \in {<<>>, <<Says("summary")>>}, ResetConversation(kept) PROVE IInv'
<1> USE DEF rewinding
<1>1. Typed /\ Stacks /\ Shape
  BY DEF IInv
<1>2. /\ pc \in {"idle", "round"} /\ msgs' = <<msgs[1]>> \o kept
      /\ checkpoints' = <<>> /\ undo' = [f \in Files |-> <<>>] /\ truth' = <<>>
      /\ past' = [f \in Files |-> <<>>] /\ touched' = {} /\ blind' = {}
      /\ UNCHANGED <<pc, editing, fs, panel, cut>>
  BY DEF ResetConversation
<1>3. Says("summary") \in Message
  BY DEF Says, Message, Kinds
<1>4. msgs[1] \in Message /\ ~UserRole(msgs[1])
  BY <1>1, MessagesTyped DEF Shape, WellFormed
<1>5. <<msgs[1]>> \in Seq(Message) /\ WellFormed(<<msgs[1]>>)
  <2>1. Len(<<msgs[1]>>) = 1 /\ <<msgs[1]>>[1] = msgs[1] /\ 2..1 = {} /\ <<msgs[1]>> # <<>>
    OBVIOUS
  <2>2. <<msgs[1]>> \in Seq(Message)
    BY <1>4
  <2> QED
    BY <1>4, <2>1, <2>2 DEF WellFormed
<1>6. msgs' \in Seq(Message) /\ WellFormed(msgs')
  <2>1. CASE kept = <<>>
    <3>1. msgs' = <<msgs[1]>>
      BY <1>2, <1>5, <2>1, ConcatEmptySeq
    <3> QED
      BY <1>5, <3>1
  <2>2. CASE kept = <<Says("summary")>>
    <3>1. msgs' = Append(<<msgs[1]>>, Says("summary"))
      BY <1>2, <1>3, <1>5, <2>2, AppendIsConcat
    <3>2. Last(<<msgs[1]>>) = msgs[1] /\ msgs[1].kind # "warn"
      BY <1>4 DEF Last, UserRole
    <3> QED
      BY <1>3, <1>5, <3>1, <3>2, AppendForm
  <2> QED
    BY <2>1, <2>2
<1>7. Len(checkpoints') = 0 /\ DOMAIN checkpoints' = {} /\ DOMAIN truth' = {} /\ 1..0 = {}
  BY <1>2
<1>8. /\ undo' \in [Files -> Seq(Version \ Oversize)] /\ past' \in [Files -> Seq(Version)]
      /\ checkpoints' \in Seq(Checkpoint)
  BY <1>2
<1>9. Typed'
  BY <1>1, <1>2, <1>6, <1>8 DEF Typed
<1>10. Stacks'
  <2>1. \A f \in Files : Len(undo'[f]) = 0 /\ 1..Len(undo'[f]) = {}
    BY <1>2
  <2>2. 0 <= MaxVersions
    BY FilesAssumption
  <2> QED
    BY <2>1, <2>2 DEF Stacks, StackOK
<1>11. Shape' /\ Cutting'
  BY <1>2, <1>6 DEF Shape, Cutting
<1>12. Placed' /\ SameFiles' /\ Settled' /\ RestoreGoesBack'
  BY <1>2, <1>7 DEF Placed, SameFiles, Settled, RestoreGoesBack
<1> QED
  BY <1>9, <1>10, <1>11, <1>12 DEF IInv

LEMMA OutsideKeeps == ASSUME IInv, NEW f \in Files, OutsideEdit(f) PROVE IInv'
<1> USE DEF rewinding
<1>1. Typed /\ Stacks /\ Shape /\ Placed /\ Cutting /\ SameFiles /\ Settled /\ RestoreGoesBack
  BY DEF IInv
<1>2. PICK v \in Version \ {fs[f]} : fs' = [fs EXCEPT ![f] = v]
  BY DEF OutsideEdit
<1>3. /\ touched' = touched \union {f}
      /\ UNCHANGED <<msgs, pc, editing, checkpoints, undo, panel, cut, truth, past, blind>>
  BY DEF OutsideEdit
<1>4. fs \in [Files -> Version]
  BY <1>1 DEF Typed, Disk
<1>5. fs' \in Disk /\ \A g \in Files : g # f => fs'[g] = fs[g]
  BY <1>2, <1>4 DEF Disk
<1>6. Typed' /\ Stacks' /\ Shape' /\ Cutting' /\ SameFiles'
  BY <1>1, <1>3, <1>5 DEF Typed, Stacks, Shape, Cutting, SameFiles
<1>7. KeptLen' = KeptLen
  BY <1>3 DEF KeptLen
<1>8. Placed'
  BY <1>1, <1>3, <1>7 DEF Placed
<1>9. Loose' = Loose \union {f}
  BY <1>3 DEF Loose, KnownAt, CheckpointsAt
<1>10. Settled'
  BY <1>1, <1>3, <1>5, <1>7, <1>9 DEF Settled
<1>11. RestoreGoesBack'
  BY <1>1, <1>3, <1>5, Untouched
<1> QED
  BY <1>6, <1>8, <1>10, <1>11 DEF IInv

(* The panel moves; nothing else does. *)
LEMMA PanelKeeps ==
    ASSUME IInv, pc = "idle",
           panel' \in [open : BOOLEAN, kind : {"user", "batch", "inside"}, slot : Nat,
                       offers : BOOLEAN, confirming : BOOLEAN],
           UNCHANGED <<msgs, pc, editing, files, checkpoints, undo, cut, truth>>
    PROVE  IInv'
<1> USE DEF files
<1>1. Typed /\ Stacks /\ Shape /\ Placed /\ SameFiles /\ Settled /\ RestoreGoesBack
  BY DEF IInv
<1>2. Typed' /\ Stacks' /\ Shape' /\ Cutting' /\ SameFiles'
  BY <1>1 DEF Typed, Stacks, Shape, Cutting, SameFiles
<1>3. KeptLen' = KeptLen /\ Loose' = touched \union blind /\ Loose = touched \union blind
  BY DEF KeptLen, Loose
<1>4. Placed'
  BY <1>1, <1>3 DEF Placed
<1>5. Settled'
  BY <1>1, <1>3 DEF Settled
<1>6. RestoreGoesBack'
  BY <1>1, Untouched
<1> QED
  BY <1>2, <1>4, <1>5, <1>6 DEF IInv

LEMMA TargetsTyped ==
    ASSUME Typed, NEW t \in Targets
    PROVE  t.kind \in {"user", "batch", "inside"} /\ t.slot \in Nat
<1>1. Len(msgs) \in Nat
  BY DEF Typed
<1>2. ASSUME NEW i \in 1..Len(msgs), t = Target("user", i - 1)
      PROVE  t.kind \in {"user", "batch", "inside"} /\ t.slot \in Nat
  <2>1. i - 1 \in Nat
    BY <1>1
  <2> QED
    BY <1>2, <2>1 DEF Target
<1>3. ASSUME NEW n \in Boundaries(msgs), t = Target("batch", n)
      PROVE  t.kind \in {"user", "batch", "inside"} /\ t.slot \in Nat
  <2>1. n \in Nat
    BY <1>1 DEF Boundaries
  <2> QED
    BY <1>3, <2>1 DEF Target
<1>4. ASSUME NEW i \in 2..Len(msgs), t = Target("user", i - 2) \/ t = Target("inside", i - 1)
      PROVE  t.kind \in {"user", "batch", "inside"} /\ t.slot \in Nat
  <2>1. i - 2 \in Nat /\ i - 1 \in Nat
    BY <1>1
  <2> QED
    BY <1>4, <2>1 DEF Target
<1>5. \/ \E i \in 1..Len(msgs) : t = Target("user", i - 1)
      \/ \E n \in Boundaries(msgs) : t = Target("batch", n)
      \/ \E i \in 2..Len(msgs) : t = Target("user", i - 2) \/ t = Target("inside", i - 1)
  BY DEF Targets
<1> QED
  BY <1>2, <1>3, <1>4, <1>5

LEMMA PanelStepsKeep ==
    ASSUME IInv, (\E t \in Targets : SelectTarget(t)) \/ AskConfirm \/ EscapePanel PROVE IInv'
<1> DEFINE Shown == [open : BOOLEAN, kind : {"user", "batch", "inside"}, slot : Nat,
                     offers : BOOLEAN, confirming : BOOLEAN]
<1>1. panel \in Shown /\ Typed
  BY DEF IInv, Typed
<1>2. ASSUME NEW t \in Targets, SelectTarget(t) PROVE IInv'
  <2>1. t.kind \in {"user", "batch", "inside"} /\ t.slot \in Nat
    BY <1>1, TargetsTyped
  <2>2. (t.kind # "inside" /\ ChangedSince(t.slot)) \in BOOLEAN
    OBVIOUS
  <2>3. panel' \in Shown
    BY <1>2, <2>1, <2>2 DEF SelectTarget
  <2> QED
    BY <1>2, <2>3, PanelKeeps DEF SelectTarget
<1>3. CASE AskConfirm
  <2>1. panel' \in Shown
    BY <1>1, <1>3 DEF AskConfirm
  <2> QED
    BY <1>3, <2>1, PanelKeeps DEF AskConfirm
<1>4. CASE EscapePanel
  <2>1. Closed \in Shown /\ [panel EXCEPT !.confirming = FALSE] \in Shown
    BY <1>1 DEF Closed
  <2>2. panel' \in Shown
    BY <1>4, <2>1 DEF EscapePanel
  <2> QED
    BY <1>4, <2>2, PanelKeeps DEF EscapePanel
<1> QED
  BY <1>2, <1>3, <1>4

(* A rewind touches only files its checkpoint knows. *)
LEMMA RestoredTyped ==
    ASSUME Typed, Placed, NEW slot, NEW failed
    PROVE  /\ Restored(slot, failed) \in Disk
           /\ \A f \in Files : Restored(slot, failed)[f] # fs[f] => KnownAt(slot, f)
<1> DEFINE new == Restored(slot, failed)
<1>1. fs \in [Files -> Version]
  BY DEF Typed, Disk
<1>2. DOMAIN checkpoints = 1..Len(checkpoints)
  BY CheckpointsTyped
<1>3. ASSUME NEW f \in Files
      PROVE  new[f] \in Version /\ (new[f] # fs[f] => KnownAt(slot, f))
  <2>1. CASE f \notin failed /\ KnownAt(slot, f)
    <3>1. PICK i \in CheckpointsAt(slot) : f \in DOMAIN checkpoints[i].known
      BY <2>1 DEF KnownAt
    <3>2. i \in 1..Len(checkpoints) /\ checkpoints[i].slot = slot
      BY <1>2 DEF CheckpointsAt
    <3>3. CheckpointsAt(slot) = {i}
      BY <3>2, OneAt
    <3>4. i <= i
      BY <3>2, CheckpointsTyped
    <3> DEFINE first == CHOOSE k \in CheckpointsAt(slot) : \A j \in CheckpointsAt(slot) : k <= j
    <3>5. first = i
      BY <3>3, <3>4
    <3>6. new[f] = IF f \in DOMAIN checkpoints[first].known
                   THEN checkpoints[first].known[f] ELSE fs[f]
      BY <2>1 DEF Restored, KnownAt
    <3> HIDE DEF first
    <3>7. checkpoints[i].known \in [DOMAIN checkpoints[i].known -> Version]
      BY <3>2, CheckpointsTyped, SnapshotTyped
    <3> QED
      BY <2>1, <3>1, <3>5, <3>6, <3>7
  <2>2. CASE ~(f \notin failed /\ KnownAt(slot, f))
    <3>1. new[f] = fs[f]
      BY <2>2 DEF Restored, KnownAt
    <3> QED
      BY <1>1, <3>1
  <2> QED
    BY <2>1, <2>2
<1>4. new = [f \in Files |-> new[f]]
  BY DEF Restored
<1> QED
  BY <1>3, <1>4 DEF Disk

LEMMA BeginKeeps == ASSUME IInv, NEW failed, BeginRewind(failed) PROVE IInv'
<1>1. Typed /\ Stacks /\ Shape /\ Placed /\ SameFiles /\ Settled /\ RestoreGoesBack
  BY DEF IInv
<1>2. /\ pc = "idle" /\ pc' = "cutting" /\ MayCutAt(panel)
      /\ fs' = IF panel.confirming THEN Restored(panel.slot, failed) ELSE fs
      /\ cut' = [slot |-> panel.slot, seen |-> Len(msgs)]
      /\ UNCHANGED <<msgs, editing, checkpoints, undo, panel, truth, past, touched, blind>>
  BY DEF BeginRewind
<1>3. /\ msgs \in Seq(Message) /\ WellFormed(msgs) /\ Len(msgs) \in Nat
      /\ panel.slot \in Nat /\ panel.confirming \in BOOLEAN /\ fs \in Disk
  BY <1>1, MessagesTyped DEF Shape, Typed
<1>4. fs' \in Disk /\ \A f \in Files : fs'[f] # fs[f] => panel.confirming /\ KnownAt(panel.slot, f)
  <2>1. CASE panel.confirming
    BY <1>1, <1>2, <2>1, RestoredTyped
  <2>2. CASE ~panel.confirming
    BY <1>2, <1>3, <2>2
  <2> QED
    BY <2>1, <2>2
<1>5. cut' \in [slot : Nat, seen : Nat] /\ cut'.slot = panel.slot /\ cut'.seen = Len(msgs)
  BY <1>2, <1>3
<1>6. panel.slot \in 1..Len(msgs) /\ msgs[panel.slot].kind # "warn"
  <2>1. CASE panel.kind = "user"
    <3>1. panel.slot < Len(msgs) /\ UserRole(msgs[panel.slot + 1])
      BY <1>2, <2>1 DEF MayCutAt
    <3>2. panel.slot # 0
      BY <1>3, <3>1 DEF WellFormed
    <3>3. panel.slot + 1 \in 2..Len(msgs) /\ panel.slot \in 1..Len(msgs)
      BY <1>3, <3>1, <3>2
    <3>4. (panel.slot + 1) - 1 = panel.slot
      BY <1>3
    <3> QED
      BY <1>3, <3>1, <3>3, <3>4 DEF WellFormed
  <2>2. CASE panel.kind # "user"
    <3>1. panel.slot \in 2..Len(msgs) /\ msgs[panel.slot].kind = "tool"
      BY <1>2, <2>2 DEF MayCutAt, Boundaries
    <3> QED
      BY <1>3, <3>1
  <2> QED
    BY <2>1, <2>2
<1>7. Typed' /\ Stacks' /\ SameFiles'
  BY <1>1, <1>2, <1>4, <1>5 DEF Typed, Stacks, SameFiles
<1>8. Shape' /\ Cutting'
  BY <1>1, <1>2, <1>5, <1>6 DEF Shape, Cutting
<1>9. KeptLen' = KeptLen
  BY <1>2 DEF KeptLen
<1>10. Placed'
  BY <1>1, <1>2, <1>9 DEF Placed
<1>11. /\ Loose = touched \union blind
       /\ Loose' = touched \union blind \union
                     {f \in Files : panel.confirming /\ KnownAt(panel.slot, f)}
  BY <1>2, <1>5 DEF Loose, KnownAt, CheckpointsAt
<1>12. \A f \in Files \ Loose' : f \notin Loose /\ fs'[f] = fs[f]
  BY <1>4, <1>11
<1>13. Settled'
  BY <1>1, <1>2, <1>9, <1>12 DEF Settled
<1>14. RestoreGoesBack'
  <2>1. ASSUME NEW f \in Files, KnownAt(panel.slot, f), NEW i \in DOMAIN checkpoints
        PROVE  f \in DOMAIN checkpoints[i].known
    BY <1>1, <2>1, CheckpointsTyped DEF SameFiles, KnownAt, CheckpointsAt
  <2> QED
    BY <1>1, <1>2, <1>4, <2>1, Untouched
<1> QED
  BY <1>7, <1>8, <1>10, <1>13, <1>14 DEF IInv

LEMMA EndKeeps == ASSUME IInv, EndRewind PROVE IInv'
<1> USE DEF files
<1> DEFINE n == cut.slot
<1>1. Typed /\ Stacks /\ Shape /\ Placed /\ Cutting /\ SameFiles /\ RestoreGoesBack
  BY DEF IInv
<1>2. /\ pc = "cutting" /\ pc' = "idle"
      /\ checkpoints' = CheckpointsBefore(n)
      /\ msgs' = SubSeq(msgs, 1, Len(msgs) - (cut.seen - n))
      /\ undo' = [f \in Files |-> <<>>]
      /\ truth' = [k \in {k \in DOMAIN truth : k < n} |-> truth[k]]
      /\ panel' = Closed /\ cut' = NoCut
      /\ UNCHANGED <<editing, fs, past, touched, blind>>
  BY DEF EndRewind
<1>3. /\ msgs \in Seq(Message) /\ WellFormed(msgs) /\ Len(msgs) \in Nat
      /\ n \in 1..Len(msgs) /\ n \in Nat /\ msgs[n].kind # "warn" /\ cut.seen = Len(msgs)
  BY <1>1, <1>2, MessagesTyped DEF Shape, Cutting, Typed
<1>4. msgs' = SubSeq(msgs, 1, n)
  <2>1. Len(msgs) - (Len(msgs) - n) = n
    BY <1>3
  <2> QED
    BY <1>2, <1>3, <2>1
<1>5. /\ msgs' \in Seq(Message) /\ Len(msgs') = n /\ WellFormed(msgs')
      /\ Last(msgs').kind # "warn" /\ KeptLen' = n
  <2>1. /\ msgs' \in Seq(Message) /\ Len(msgs') = n /\ WellFormed(msgs') /\ Last(msgs') = msgs[n]
    BY <1>3, <1>4, PrefixForm
  <2> QED
    BY <1>3, <2>1 DEF KeptLen, KeptOf
<1>6. PICK k \in 0..Len(checkpoints) :
         /\ checkpoints' = SubSeq(checkpoints, 1, k)
         /\ \A i \in 1..k : checkpoints[i].slot < n
         /\ \A i \in 1..Len(checkpoints) : checkpoints[i].slot < n => i <= k
  BY <1>1, <1>2, <1>3, BeforeIsPrefix
<1>7. checkpoints \in Seq(Checkpoint) /\ Len(checkpoints) \in Nat
  BY <1>1 DEF Typed
<1>8. /\ checkpoints' \in Seq(Checkpoint) /\ Len(checkpoints') = k /\ DOMAIN checkpoints' = 1..k
      /\ \A i \in 1..k : i \in 1..Len(checkpoints) /\ checkpoints'[i] = checkpoints[i]
  BY <1>6, <1>7, FirstPart
<1>9. \A i \in 1..k : checkpoints[i].slot \in Nat
  BY <1>1, <1>8, CheckpointsTyped
<1>10. DOMAIN truth = {checkpoints[i].slot : i \in 1..Len(checkpoints)}
  BY <1>1 DEF Placed
<1>11. DOMAIN truth' = {checkpoints'[i].slot : i \in 1..k}
  <2>1. ASSUME NEW m \in DOMAIN truth' PROVE \E i \in 1..k : m = checkpoints'[i].slot
    <3>1. m \in DOMAIN truth /\ m < n
      BY <1>2
    <3>2. PICK i \in 1..Len(checkpoints) : m = checkpoints[i].slot
      BY <1>10, <3>1
    <3>3. i <= k
      BY <1>6, <3>1, <3>2
    <3>4. i \in 1..k
      BY <1>6, <1>7, <3>3
    <3> QED
      BY <1>8, <3>2, <3>4
  <2>2. ASSUME NEW i \in 1..k PROVE checkpoints'[i].slot \in DOMAIN truth'
    BY <1>2, <1>6, <1>8, <1>10
  <2> QED
    BY <2>1, <2>2
<1>12. Typed'
  <2>1. panel' \in [open : BOOLEAN, kind : {"user", "batch", "inside"}, slot : Nat,
                    offers : BOOLEAN, confirming : BOOLEAN]
    BY <1>2 DEF Closed
  <2>2. cut' \in [slot : Nat, seen : Nat]
    BY <1>2 DEF NoCut
  <2>3. undo' \in [Files -> Seq(Version \ Oversize)]
    BY <1>2
  <2> QED
    BY <1>1, <1>2, <1>5, <1>8, <2>1, <2>2, <2>3 DEF Typed
<1>13. Stacks'
  <2>1. \A f \in Files : Len(undo'[f]) = 0 /\ 1..Len(undo'[f]) = {}
    BY <1>2
  <2>2. 0 <= MaxVersions
    BY FilesAssumption
  <2> QED
    BY <2>1, <2>2 DEF Stacks, StackOK
<1>14. Shape' /\ Cutting'
  BY <1>2, <1>5 DEF Shape, Cutting
<1>15. Placed'
  <2>1. \A i, j \in 1..k : i < j => checkpoints'[i].slot < checkpoints'[j].slot
    BY <1>1, <1>8 DEF Placed
  <2>2. \A i \in 1..k : checkpoints'[i].slot <= n
    BY <1>3, <1>6, <1>8, <1>9
  <2> QED
    BY <1>2, <1>5, <1>8, <1>11, <2>1, <2>2 DEF Placed
<1>16. SameFiles'
  BY <1>1, <1>2, <1>8 DEF SameFiles
<1>17. Settled'
  <2>1. \A i \in 1..k : checkpoints'[i].slot # n
    BY <1>3, <1>6, <1>8, <1>9
  <2> QED
    BY <1>5, <1>8, <2>1 DEF Settled
<1>18. RestoreGoesBack'
  <2> SUFFICES ASSUME NEW i \in 1..k, NEW f \in Files \ (touched \union blind),
                      checkpoints'[i].slot \in DOMAIN truth'
               PROVE  GoesBackTo(checkpoints[i], f)' = truth'[checkpoints'[i].slot][f]
    BY <1>2, <1>8 DEF RestoreGoesBack, GoesBackTo
  <2>1. checkpoints[i].slot \in DOMAIN truth /\ i \in DOMAIN checkpoints
    BY <1>7, <1>8, <1>10
  <2>2. GoesBackTo(checkpoints[i], f) = truth[checkpoints[i].slot][f]
    BY <1>1, <2>1 DEF RestoreGoesBack
  <2>3. truth'[checkpoints'[i].slot] = truth[checkpoints[i].slot]
    BY <1>2, <1>6, <1>8, <2>1
  <2>4. GoesBackTo(checkpoints[i], f)' = GoesBackTo(checkpoints[i], f)
    BY <1>2, <1>8 DEF GoesBackTo
  <2> QED
    BY <2>2, <2>3, <2>4
<1> QED
  BY <1>12, <1>13, <1>14, <1>15, <1>16, <1>17, <1>18 DEF IInv

LEMMA FailsKeeps == ASSUME IInv, RewindFails PROVE IInv'
<1>1. Typed /\ Stacks /\ Shape /\ Placed /\ SameFiles /\ Settled /\ RestoreGoesBack
  BY DEF IInv
<1>2. /\ pc = "cutting" /\ pc' = "idle" /\ cut' = NoCut
      /\ touched' = touched \union {f \in Files : panel.confirming /\ KnownAt(cut.slot, f)}
      /\ UNCHANGED <<msgs, editing, fs, checkpoints, undo, panel, truth, past, blind>>
  BY DEF RewindFails
<1>3. cut' \in [slot : Nat, seen : Nat]
  BY <1>2 DEF NoCut
<1>4. touched' \subseteq Files /\ touched \subseteq touched'
  BY <1>1, <1>2 DEF Typed
<1>5. Typed' /\ Stacks' /\ Shape' /\ Cutting' /\ SameFiles'
  BY <1>1, <1>2, <1>3, <1>4 DEF Typed, Stacks, Shape, Cutting, SameFiles
<1>6. KeptLen' = KeptLen
  BY <1>2 DEF KeptLen
<1>7. Placed'
  BY <1>1, <1>2, <1>6 DEF Placed
<1>8. Loose' = Loose
  BY <1>2 DEF Loose
<1>9. Settled'
  BY <1>1, <1>2, <1>6, <1>8 DEF Settled
<1>10. RestoreGoesBack'
  BY <1>1, <1>2, <1>4, Untouched
<1> QED
  BY <1>5, <1>7, <1>9, <1>10 DEF IInv

-----------------------------------------------------------------------------
LEMMA Step == ASSUME IInv, [Next]_vars PROVE IInv'
<1>1. CASE Turn
  <2>1. CASE Prompt \/ Inject \/ StopTurn
    BY <2>1, PromptKeeps, InjectKeeps, StopTurnKeeps
  <2>2. CASE AskTools("run", 1) \/ \E n \in 1..2 : AskTools("call", n)
    <3>1. 1..2 \subseteq Nat
      OBVIOUS
    <3> QED
      BY <2>2, <3>1, AskKeeps
  <2>3. CASE \E flag \in BOOLEAN : Answer(flag) \/ CloseBatch(flag)
    BY <2>3, AnswerKeeps, CloseBatchKeeps
  <2> QED
    BY <1>1, <2>1, <2>2, <2>3 DEF Turn
<1>2. CASE Tool
  <2>1. CASE OtherTool
    BY <2>1, OtherToolKeeps
  <2>2. ASSUME NEW f \in Files, StartEdit(f) PROVE IInv'
    BY <2>2, StartEditKeeps
  <2>3. ASSUME NEW f \in Files, NEW v \in Version, EndEdit(f, v) PROVE IInv'
    BY <2>3, EndEditKeeps
  <2>4. ASSUME NEW f \in Files, NEW v \in Version, NEW answered \in BOOLEAN,
               CutEdit(f, v, answered)
        PROVE  IInv'
    BY <2>4, CutEditKeeps
  <2>5. ASSUME NEW f \in Files, NEW confirmed \in BOOLEAN, RestoreFile(f, confirmed) PROVE IInv'
    BY <2>5, RestoreFileKeeps
  <2> QED
    BY <1>2, <2>1, <2>2, <2>3, <2>4, <2>5 DEF Tool
<1>3. CASE Panel
  BY <1>3, PanelStepsKeep, BeginKeeps, EndKeeps, FailsKeeps DEF Panel
<1>4. CASE \E kept \in {<<>>, <<Says("summary")>>} : ResetConversation(kept)
  BY <1>4, ResetKeeps
<1>5. CASE \E f \in Files : OutsideEdit(f)
  BY <1>5, OutsideKeeps
<1>6. CASE UNCHANGED vars
  <2> USE DEF vars
  <2>1. Typed' /\ Stacks' /\ Shape' /\ Placed' /\ Cutting' /\ SameFiles'
    BY <1>6 DEF IInv, Typed, Stacks, Shape, Placed, Cutting, SameFiles, KeptLen
  <2>2. Settled'
    BY <1>6 DEF IInv, Settled, Loose, KnownAt, CheckpointsAt, KeptLen
  <2>3. RestoreGoesBack'
    BY <1>6 DEF IInv, RestoreGoesBack, GoesBackTo
  <2> QED
    BY <2>1, <2>2, <2>3 DEF IInv
<1> QED
  BY <1>1, <1>2, <1>3, <1>4, <1>5, <1>6 DEF Next

THEOREM Invariant == Spec => []IInv
<1>1. Init => IInv
  BY Start
<1>2. IInv /\ [Next]_vars => IInv'
  BY Step
<1> QED
  BY <1>1, <1>2, PTL DEF Spec

(* The variables keep their types, and an undo stack stays bounded and      *)
(* without repetitions, however many edits there are.                       *)
THEOREM TypeCorrect == Spec => []TypeOK
<1>1. ASSUME IInv PROVE TypeOK
  <2>1. Typed /\ Stacks
    BY <1>1 DEF IInv
  <2>2. editing \in SUBSET Files /\ Cardinality(editing) <= 1
    <3>1. CASE editing = {}
      <4>1. Cardinality(editing) = 0 /\ 0 <= 1
        BY <3>1, FS_EmptySet
      <4> QED
        BY <3>1, <4>1
    <3>2. CASE \E f \in Files : editing = {f}
      <4>1. Cardinality(editing) = 1 /\ 1 <= 1
        BY <3>2, FS_Singleton
      <4> QED
        BY <3>2, <4>1
    <3> QED
      BY <2>1, <3>1, <3>2 DEF Typed
  <2>3. ASSUME NEW i \in DOMAIN checkpoints
        PROVE  /\ checkpoints[i].slot \in Nat
               /\ DOMAIN checkpoints[i].known \subseteq Files
               /\ \A f \in DOMAIN checkpoints[i].known : checkpoints[i].known[f] \in Version
    BY <2>1, CheckpointsTyped, SnapshotTyped
  <2>4. ASSUME NEW f \in Files
        PROVE  /\ Len(undo[f]) <= MaxVersions
               /\ \A i \in DOMAIN undo[f] : i > 1 => undo[f][i] # undo[f][i - 1]
    <3>1. DOMAIN undo[f] = 1..Len(undo[f])
      BY <2>1 DEF Typed
    <3> QED
      BY <2>1, <3>1 DEF Stacks, StackOK
  <2> QED
    BY <2>1, <2>2, <2>3, <2>4 DEF Typed, TypeOK
<1> QED
  BY <1>1, Invariant, PTL

(* Going back to any checkpoint gives every file what it held when that     *)
(* slot was taken: execute_rewind restores nothing else, for any files and  *)
(* contents, and any number of edits, undos, interruptions and rewinds.     *)
THEOREM GoesBack == Spec => []RestoreGoesBack
<1>1. IInv => RestoreGoesBack
  BY DEF IInv
<1> QED
  BY <1>1, Invariant, PTL

(* Every prompt's slot has exactly one checkpoint, and outside a rewind no  *)
(* checkpoint is beyond the conversation.                                   *)
THEOREM OnePerPrompt == Spec => []OneCheckpointPerPrompt
<1>1. ASSUME IInv PROVE OneCheckpointPerPrompt
  <2>1. Typed /\ Shape /\ Placed
    BY <1>1 DEF IInv
  <2>2. DOMAIN checkpoints = 1..Len(checkpoints)
    BY <2>1, CheckpointsTyped
  <2>3. ASSUME NEW n \in DOMAIN truth PROVE Cardinality(CheckpointsAt(n)) = 1
    <3>1. PICK i \in 1..Len(checkpoints) : n = checkpoints[i].slot
      BY <2>1 DEF Placed
    <3>2. CheckpointsAt(n) = {i}
      BY <2>1, <3>1, OneAt
    <3> QED
      BY <3>2, FS_Singleton
  <2>4. \A i, j \in DOMAIN checkpoints : i < j => checkpoints[i].slot < checkpoints[j].slot
    BY <2>1, <2>2 DEF Placed
  <2>5. ASSUME NEW i \in DOMAIN checkpoints PROVE checkpoints[i].slot <= Len(msgs)
    <3>1. checkpoints[i].slot <= KeptLen /\ checkpoints[i].slot \in Nat
      BY <2>1, <2>2, CheckpointsTyped DEF Placed
    <3>2. KeptLen \in 1..Len(msgs) /\ Len(msgs) \in Nat
      BY <2>1, MessagesTyped
    <3> QED
      BY <3>1, <3>2
  <2> QED
    BY <2>3, <2>4, <2>5 DEF OneCheckpointPerPrompt
<1> QED
  BY <1>1, Invariant, PTL

-----------------------------------------------------------------------------
(* Batches and their responses. *)

(* The batch of the reply at c runs up to n. *)
Runs(ms, c, n) == MakesCalls(ms[c]) /\ \A j \in (c+1)..n : ms[j].kind = "tool"

(* No batch has more responses than calls, and one that something else     *)
(* follows has one for each.                                               *)
BatchesWhole(ms) ==
    \A c \in 1..Len(ms) : \A n \in c..Len(ms) : Runs(ms, c, n) =>
        /\ n - c <= ms[c].calls
        /\ (n < Len(ms) /\ ms[n + 1].kind # "tool") => n - c = ms[c].calls

(* The loop goes on only with a batch that is whole, a tool runs only for  *)
(* a call without its response, and a rewind cuts where nothing is owed.   *)
Batches ==
    /\ msgs[1].kind = "system" /\ BatchesWhole(msgs)
    /\ pc = "round" => Unanswered(msgs) = 0
    /\ pc = "edit" => Unanswered(msgs) > 0
    /\ pc = "cutting" => panel.open /\ Unanswered(SubSeq(msgs, 1, cut.slot)) = 0

LEMMA CallsCounted ==
    ASSUME NEW ms \in Seq(Message), NEW i \in 1..Len(ms)
    PROVE  ms[i] \in Message /\ ms[i].calls \in Nat
<1>1. ms[i] \in Message
  OBVIOUS
<1> QED
  BY <1>1 DEF Message

(* What is unanswered is what the last batch lacks, if one is at the end.  *)
LEMMA LeftOfLast ==
    ASSUME NEW ms \in Seq(Message)
    PROVE  /\ \A c \in 1..Len(ms) : Runs(ms, c, Len(ms)) =>
                 Unanswered(ms) = ms[c].calls - (Len(ms) - c)
           /\ (\A c \in 1..Len(ms) : ~Runs(ms, c, Len(ms))) => Unanswered(ms) = 0
           /\ Unanswered(ms) \in Int
<1> DEFINE L == Len(ms)
           last == {i \in 1..L : MakesCalls(ms[i]) /\ \A j \in (i+1)..L : ms[j].kind = "tool"}
<1>1. L \in Nat
  OBVIOUS
<1>2. Unanswered(ms) = IF last = {} THEN 0
                       ELSE LET i == CHOOSE i \in last : TRUE IN ms[i].calls - (L - i)
  BY DEF Unanswered
<1>3. \A c \in 1..L : c \in last <=> Runs(ms, c, L)
  BY DEF Runs
<1>4. last \subseteq 1..L
  OBVIOUS
<1>5. ASSUME NEW c \in last, NEW d \in last, c < d PROVE FALSE
  <2>1. d \in (c+1)..L
    BY <1>1, <1>4, <1>5
  <2>2. ms[d].kind = "tool" /\ MakesCalls(ms[d])
    BY <2>1
  <2> QED
    BY <2>2 DEF MakesCalls
<1> HIDE DEF last
<1>6. ASSUME NEW c \in last PROVE Unanswered(ms) = ms[c].calls - (L - c)
  <2>1. \A d \in last : d = c
    BY <1>1, <1>4, <1>5
  <2> QED
    BY <1>2, <2>1
<1>7. \A i \in 1..L : ms[i].calls \in Nat
  <2>1. \A i \in 1..L : ms[i] \in Message
    BY <1>1
  <2> QED
    BY <2>1 DEF Message
<1>8. CASE last = {}
  BY <1>2, <1>3, <1>8
<1>9. CASE last # {}
  <2>1. PICK c \in last : TRUE
    BY <1>9
  <2>2. Unanswered(ms) \in Int
    BY <1>1, <1>4, <1>6, <1>7
  <2> QED
    BY <1>3, <1>4, <1>6, <2>1, <2>2
<1> QED
  BY <1>8, <1>9

(* A conversation that owes nothing can go on with anything but a response. *)
LEMMA GoesOnWhole ==
    ASSUME NEW ms \in Seq(Message), BatchesWhole(ms), Unanswered(ms) = 0,
           NEW m \in Message, m.kind # "tool"
    PROVE  /\ BatchesWhole(Append(ms, m))
           /\ ~MakesCalls(m) => Unanswered(Append(ms, m)) = 0
<1> DEFINE new == Append(ms, m)
           L == Len(ms)
<1>1. /\ L \in Nat /\ new \in Seq(Message) /\ Len(new) = L + 1 /\ new[L + 1] = m
      /\ \A i \in 1..L : new[i] = ms[i]
  OBVIOUS
<1> HIDE DEF new
<1>2. ASSUME NEW c \in 1..L, NEW n \in c..Len(new), Runs(new, c, n)
      PROVE  n \in c..L /\ Runs(ms, c, n)
  <2>1. n # L + 1
    <3>1. n = L + 1 => n \in (c+1)..n
      BY <1>1
    <3> QED
      BY <1>1, <1>2, <3>1 DEF Runs
  <2>2. n \in c..L
    BY <1>1, <2>1
  <2>3. \A j \in (c+1)..n : j \in 1..L
    BY <1>1, <2>2
  <2> QED
    BY <1>1, <1>2, <2>2, <2>3 DEF Runs
<1>3. BatchesWhole(new)
  <2> SUFFICES ASSUME NEW c \in 1..Len(new), NEW n \in c..Len(new), Runs(new, c, n)
               PROVE  /\ n - c <= new[c].calls
                      /\ (n < Len(new) /\ new[n + 1].kind # "tool") => n - c = new[c].calls
    BY DEF BatchesWhole
  <2>1. CASE c \in 1..L
    <3>1. n \in c..L /\ Runs(ms, c, n) /\ new[c] = ms[c]
      BY <1>1, <1>2, <2>1
    <3>2. n - c <= ms[c].calls
      BY <2>1, <3>1 DEF BatchesWhole
    <3>3. CASE n < L
      <4>1. n + 1 \in 1..L
        BY <1>1, <2>1, <3>1, <3>3
      <4>2. new[n + 1] = ms[n + 1]
        BY <1>1, <4>1
      <4> QED
        BY <2>1, <3>1, <3>2, <3>3, <4>2 DEF BatchesWhole
    <3>4. CASE n = L
      <4>1. ms[c].calls - (L - c) = 0
        BY <2>1, <3>1, <3>4, LeftOfLast
      <4>2. ms[c].calls \in Nat
        BY <2>1, CallsCounted
      <4> QED
        BY <1>1, <2>1, <3>1, <3>2, <3>4, <4>1, <4>2
    <3> QED
      BY <1>1, <3>1, <3>3, <3>4
  <2>2. CASE c \notin 1..L
    <3>1. c = L + 1 /\ n = L + 1 /\ new[c] = m
      BY <1>1, <2>2
    <3>2. m.calls \in Nat
      BY DEF Message
    <3> QED
      BY <1>1, <3>1, <3>2
  <2> QED
    BY <2>1, <2>2
<1>4. ASSUME ~MakesCalls(m) PROVE Unanswered(new) = 0
  <2>1. ASSUME NEW c \in 1..Len(new), Runs(new, c, Len(new)) PROVE FALSE
    <3>1. CASE c \in 1..L
      <4>1. Len(new) \in c..Len(new)
        BY <1>1, <3>1
      <4>2. Len(new) \in c..L
        BY <1>2, <2>1, <3>1, <4>1
      <4> QED
        BY <1>1, <4>2
    <3>2. CASE c \notin 1..L
      <4>1. new[c] = m
        BY <1>1, <3>2
      <4> QED
        BY <1>4, <2>1, <4>1 DEF Runs
    <3> QED
      BY <3>1, <3>2
  <2> QED
    BY <1>1, <2>1, LeftOfLast
<1> QED
  BY <1>3, <1>4 DEF new

(* Responses, no more than are missing, keep the batches and are counted.  *)
LEMMA ResponsesCount ==
    ASSUME NEW ms \in Seq(Message), BatchesWhole(ms), NEW ext \in Seq(Message),
           \A n \in 1..Len(ext) : ext[n].kind = "tool", Len(ext) <= Unanswered(ms)
    PROVE  /\ BatchesWhole(ms \o ext)
           /\ Unanswered(ms \o ext) = Unanswered(ms) - Len(ext)
<1> DEFINE new == ms \o ext
           L == Len(ms)
           E == Len(ext)
<1>1. /\ L \in Nat /\ E \in Nat /\ new \in Seq(Message) /\ Len(new) = L + E
      /\ \A i \in 1..L : new[i] = ms[i]
  OBVIOUS
<1>2. \A n \in 1..E : new[L + n] = ext[n]
  BY ConcatProperties
<1> HIDE DEF new
<1>3. ASSUME NEW i \in 1..Len(new), i \notin 1..L PROVE new[i].kind = "tool"
  <2>1. i - L \in 1..E /\ L + (i - L) = i
    BY <1>1, <1>3
  <2> QED
    BY <1>2, <2>1
<1>4. ASSUME NEW c \in 1..Len(new), MakesCalls(new[c]) PROVE c \in 1..L /\ new[c] = ms[c]
  BY <1>1, <1>3, <1>4 DEF MakesCalls
<1>5. ASSUME NEW c \in 1..L, NEW n \in c..L, Runs(new, c, n) PROVE Runs(ms, c, n)
  <2>1. \A j \in (c+1)..n : j \in 1..L
    BY <1>1
  <2> QED
    BY <1>1, <1>5, <2>1 DEF Runs
<1>6. ASSUME NEW c \in 1..L, Runs(ms, c, L)
      PROVE  /\ ms[c].calls \in Nat /\ Unanswered(ms) = ms[c].calls - (L - c)
             /\ Runs(new, c, Len(new))
  <2>1. ms[c].calls \in Nat
    BY CallsCounted
  <2>2. ASSUME NEW j \in (c+1)..Len(new) PROVE new[j].kind = "tool"
    <3>1. j \in 1..Len(new) /\ c \in Nat
      BY <1>1
    <3>2. CASE j \in 1..L
      <4>1. j \in (c+1)..L /\ new[j] = ms[j]
        BY <1>1, <3>1, <3>2
      <4> QED
        BY <1>6, <4>1 DEF Runs
    <3> QED
      BY <1>3, <3>1, <3>2
  <2>3. Runs(new, c, Len(new))
    BY <1>1, <1>6, <2>2 DEF Runs
  <2> QED
    BY <1>6, <2>1, <2>3, LeftOfLast
<1>7. BatchesWhole(new)
  <2> SUFFICES ASSUME NEW c \in 1..Len(new), NEW n \in c..Len(new), Runs(new, c, n)
               PROVE  /\ n - c <= new[c].calls
                      /\ (n < Len(new) /\ new[n + 1].kind # "tool") => n - c = new[c].calls
    BY DEF BatchesWhole
  <2>1. c \in 1..L /\ new[c] = ms[c]
    BY <1>4 DEF Runs
  <2>2. CASE n \in c..L
    <3>1. Runs(ms, c, n) /\ n - c <= ms[c].calls
      BY <1>5, <2>1, <2>2 DEF BatchesWhole
    <3>2. CASE n < L
      <4>1. n + 1 \in 1..L
        BY <1>1, <2>1, <2>2, <3>2
      <4>2. new[n + 1] = ms[n + 1]
        BY <1>1, <4>1
      <4> QED
        BY <2>1, <2>2, <3>1, <3>2, <4>2 DEF BatchesWhole
    <3>3. CASE n = L
      <4>1. n < Len(new) => n + 1 \in 1..Len(new) /\ n + 1 \notin 1..L
        BY <1>1, <3>3
      <4> QED
        BY <1>3, <2>1, <3>1, <4>1
    <3> QED
      BY <1>1, <2>1, <2>2, <3>2, <3>3
  <2>3. CASE n \notin c..L
    <3>1. n > L /\ n <= L + E
      BY <1>1, <2>1, <2>3
    <3>2. \A j \in (c+1)..L : j \in (c+1)..n
      BY <1>1, <3>1
    <3>3. Runs(new, c, L) /\ L \in c..L
      BY <1>1, <2>1, <3>2 DEF Runs
    <3>4. Runs(ms, c, L)
      BY <1>5, <2>1, <3>3
    <3>5. n - c <= ms[c].calls
      BY <1>1, <1>6, <2>1, <3>1, <3>4
    <3>6. n < Len(new) => n + 1 \in 1..Len(new) /\ n + 1 \notin 1..L
      BY <1>1, <3>1
    <3> QED
      BY <1>3, <2>1, <3>5, <3>6
  <2> QED
    BY <2>2, <2>3
<1>8. Unanswered(new) = Unanswered(ms) - E
  <2>1. CASE \E c \in 1..L : Runs(ms, c, L)
    <3>1. PICK c \in 1..L : Runs(ms, c, L)
      BY <2>1
    <3>2. c \in 1..Len(new) /\ new[c] = ms[c]
      BY <1>1
    <3>3. Unanswered(new) = ms[c].calls - ((L + E) - c)
      BY <1>1, <1>6, <3>1, <3>2, LeftOfLast
    <3> QED
      BY <1>1, <1>6, <3>1, <3>3
  <2>2. CASE \A c \in 1..L : ~Runs(ms, c, L)
    <3>1. Unanswered(ms) = 0 /\ E = 0
      BY <1>1, <2>2, LeftOfLast
    <3>2. \A c \in 1..Len(new) : ~Runs(new, c, Len(new))
      BY <1>1, <1>5, <2>2, <3>1
    <3> QED
      BY <1>1, <3>1, <3>2, LeftOfLast
  <2> QED
    BY <2>1, <2>2
<1> QED
  BY <1>7, <1>8 DEF new

(* One response is such a run. *)
LEMMA OneResponse ==
    ASSUME NEW ms \in Seq(Message), BatchesWhole(ms), Unanswered(ms) > 0
    PROVE  BatchesWhole(Append(ms, Says("tool")))
<1> DEFINE m == Says("tool")
<1>1. m \in Message /\ m.kind = "tool"
  BY DEF Says, Message, Kinds
<1> HIDE DEF m
<1>2. <<m>> \in Seq(Message) /\ Len(<<m>>) = 1 /\ \A n \in 1..Len(<<m>>) : <<m>>[n].kind = "tool"
  BY <1>1
<1>3. Append(ms, m) = ms \o <<m>>
  BY <1>1, AppendIsConcat
<1>4. Unanswered(ms) \in Int
  BY LeftOfLast
<1>5. Len(<<m>>) <= Unanswered(ms)
  BY <1>2, <1>4
<1> DEFINE one == <<m>>
<1>6. BatchesWhole(ms \o one)
  <2>1. one \in Seq(Message) /\ (\A n \in 1..Len(one) : one[n].kind = "tool") /\ Len(one) <= Unanswered(ms)
    BY <1>2, <1>5
  <2> HIDE DEF one
  <2> QED
    BY <2>1, ResponsesCount
<1> QED
  BY <1>3, <1>6 DEF m

(* A closed boundary is after a batch with at least its responses.         *)
LEMMA BoundaryCloses ==
    ASSUME NEW ms \in Seq(Message), NEW n \in Boundaries(ms)
    PROVE  \E c \in 1..Len(ms) : n \in c..Len(ms) /\ Runs(ms, c, n) /\ ms[c].calls <= n - c
<1> DEFINE back == {i \in 1..n : \A j \in i..n : ms[j].kind = "tool"}
           first == CHOOSE i \in back : \A j \in back : i <= j
<1>1. n \in 2..Len(ms) /\ Len(ms) \in Nat /\ ms[n].kind = "tool" /\ BatchClosedAt(ms, n)
  BY DEF Boundaries
<1>2. n \in back /\ back \subseteq Nat
  BY <1>1
<1>3. CallBefore(ms, n) = IF first > 1 /\ MakesCalls(ms[first - 1]) THEN first - 1 ELSE 0
  <2> DEFINE start == IF back = {} THEN n + 1 ELSE first
  <2>1. CallBefore(ms, n) = IF back # {} /\ start > 1 /\ MakesCalls(ms[start - 1])
                            THEN start - 1 ELSE 0
    BY DEF CallBefore
  <2>2. back # {}
    BY <1>2
  <2> HIDE DEF back, first
  <2>3. start = first
    BY <2>2
  <2> HIDE DEF start
  <2> QED
    BY <2>1, <2>2, <2>3
<1>4. first \in back
  <2>1. \E i \in back : \A j \in back : i <= j
    <3> HIDE DEF back
    <3> QED
      BY <1>2, Least
  <2> QED
    BY <2>1
<1>5. first \in 1..n /\ \A j \in first..n : ms[j].kind = "tool"
  BY <1>4
<1> HIDE DEF first
<1>6. first > 1 /\ MakesCalls(ms[first - 1]) /\ ms[first - 1].calls <= n - (first - 1)
  BY <1>1, <1>3, <1>5 DEF BatchClosedAt
<1>7. first - 1 \in 1..Len(ms) /\ n \in (first - 1)..Len(ms) /\ (first - 1) + 1 = first
  BY <1>1, <1>5, <1>6
<1>8. Runs(ms, first - 1, n)
  BY <1>5, <1>6, <1>7 DEF Runs
<1> QED
  BY <1>6, <1>7, <1>8

(* A first part of a conversation has whole batches, and owes nothing when *)
(* it ends before something else or at a closed boundary.                  *)
LEMMA CutWhole ==
    ASSUME NEW ms \in Seq(Message), BatchesWhole(ms), NEW k \in 1..Len(ms)
    PROVE  LET new == SubSeq(ms, 1, k)
           IN  /\ new \in Seq(Message) /\ BatchesWhole(new)
               /\ (k < Len(ms) /\ ms[k + 1].kind # "tool") => Unanswered(new) = 0
               /\ k \in Boundaries(ms) => Unanswered(new) = 0
<1> DEFINE new == SubSeq(ms, 1, k)
           L == Len(ms)
<1>1. L \in Nat /\ k \in Nat /\ k > 0 /\ k <= L /\ k \in 0..L
  OBVIOUS
<1>2. new \in Seq(Message) /\ Len(new) = k /\ \A i \in 1..k : new[i] = ms[i]
  BY <1>1, FirstPart
<1> HIDE DEF new
<1>3. ASSUME NEW c \in 1..k, NEW n \in c..k PROVE Runs(new, c, n) <=> Runs(ms, c, n)
  <2>1. \A j \in (c+1)..n : j \in 1..k
    BY <1>1
  <2> QED
    BY <1>2, <2>1 DEF Runs
<1>4. BatchesWhole(new)
  <2> SUFFICES ASSUME NEW c \in 1..k, NEW n \in c..k, Runs(new, c, n)
               PROVE  /\ n - c <= new[c].calls
                      /\ (n < k /\ new[n + 1].kind # "tool") => n - c = new[c].calls
    BY <1>2 DEF BatchesWhole
  <2>1. c \in 1..L /\ n \in c..L /\ new[c] = ms[c] /\ Runs(ms, c, n)
    BY <1>1, <1>2, <1>3
  <2>2. n < k => new[n + 1] = ms[n + 1] /\ n < L
    BY <1>1, <1>2
  <2> QED
    BY <2>1, <2>2 DEF BatchesWhole
<1>5. ASSUME NEW c \in 1..k, Runs(new, c, k)
      PROVE  /\ Runs(ms, c, k) /\ c \in 1..L /\ k \in c..L /\ ms[c].calls \in Nat
             /\ Unanswered(new) = ms[c].calls - (k - c) /\ k - c <= ms[c].calls
  <2>1. Runs(ms, c, k) /\ c \in 1..L /\ k \in c..L /\ k \in c..k
    BY <1>1, <1>3, <1>5
  <2>2. ms[c].calls \in Nat
    BY <2>1, CallsCounted
  <2>3. Unanswered(new) = new[c].calls - (k - c)
    BY <1>2, <1>5, LeftOfLast
  <2>4. k - c <= ms[c].calls
    BY <2>1 DEF BatchesWhole
  <2> QED
    BY <1>2, <2>1, <2>2, <2>3, <2>4
<1>6. ASSUME k < L, ms[k + 1].kind # "tool" PROVE Unanswered(new) = 0
  <2>1. ASSUME NEW c \in 1..k, Runs(new, c, k) PROVE Unanswered(new) = 0
    <3>1. k - c = ms[c].calls
      BY <1>5, <1>6, <2>1 DEF BatchesWhole
    <3> QED
      BY <1>1, <1>5, <2>1, <3>1
  <2> QED
    BY <1>2, <2>1, LeftOfLast
<1>7. ASSUME k \in Boundaries(ms) PROVE Unanswered(new) = 0
  <2>1. PICK c \in 1..L : k \in c..L /\ Runs(ms, c, k) /\ ms[c].calls <= k - c
    BY <1>7, BoundaryCloses
  <2>2. c \in 1..k /\ k \in c..k
    BY <1>1, <2>1
  <2>3. Runs(new, c, k)
    BY <1>3, <2>1, <2>2
  <2> QED
    BY <1>1, <1>5, <2>1, <2>2, <2>3
<1> QED
  BY <1>2, <1>4, <1>6, <1>7 DEF new

(* A conversation of whole batches owes a number of responses.             *)
LEMMA NeverOverpaid ==
    ASSUME NEW ms \in Seq(Message), BatchesWhole(ms) PROVE Unanswered(ms) \in Nat
<1>1. Len(ms) \in Nat
  OBVIOUS
<1>2. ASSUME NEW c \in 1..Len(ms), Runs(ms, c, Len(ms)) PROVE Unanswered(ms) \in Nat
  <2>1. Len(ms) \in c..Len(ms)
    BY <1>1
  <2>2. Len(ms) - c <= ms[c].calls
    BY <1>2, <2>1 DEF BatchesWhole
  <2>3. Unanswered(ms) = ms[c].calls - (Len(ms) - c) /\ ms[c].calls \in Nat
    BY <1>2, LeftOfLast, CallsCounted
  <2> QED
    BY <1>1, <2>2, <2>3
<1> QED
  BY <1>2, LeftOfLast

LEMMA RepeatIs ==
    ASSUME NEW u \in Nat
    PROVE  LET made == Repeat(u, Says("tool"))
           IN  /\ made \in Seq(Message) /\ Len(made) = u
               /\ \A n \in 1..Len(made) : made[n].kind = "tool"
<1>1. Says("tool") \in Message /\ Says("tool").kind = "tool"
  BY DEF Says, Message, Kinds
<1> DEFINE m == Says("tool")
<1>2. Repeat(u, m) = [i \in 1..u |-> m]
  BY DEF Repeat
<1> HIDE DEF m
<1>3. m \in Message /\ m.kind = "tool"
  BY <1>1 DEF m
<1>4. Repeat(u, m) \in Seq(Message) /\ Len(Repeat(u, m)) = u
  BY <1>2, <1>3
<1>5. \A n \in 1..Len(Repeat(u, m)) : Repeat(u, m)[n].kind = "tool"
  BY <1>2, <1>3, <1>4
<1> QED
  BY <1>4, <1>5 DEF m

-----------------------------------------------------------------------------
(* Every step keeps the batches whole. *)

(* What a message that is no response does, and what a response does.      *)
LEMMA SaidKeepsBatches ==
    ASSUME Typed, Shape, Batches, NEW m \in Message, m.kind # "tool", Unanswered(msgs) = 0,
           msgs' = Append(msgs, m), pc' \in {"idle", "round", "tools"},
           pc' = "round" => ~MakesCalls(m)
    PROVE  Batches' /\ msgs' \in Seq(Message) /\ (~MakesCalls(m) => Unanswered(msgs') = 0)
<1>1. msgs \in Seq(Message) /\ Len(msgs) \in Nat /\ Len(msgs) > 0
  BY MessagesTyped
<1>2. BatchesWhole(msgs) /\ msgs[1].kind = "system"
  BY DEF Batches
<1>3. BatchesWhole(msgs') /\ (~MakesCalls(m) => Unanswered(msgs') = 0)
  BY <1>1, <1>2, GoesOnWhole
<1>4. msgs'[1] = msgs[1] /\ msgs' \in Seq(Message)
  BY <1>1
<1> QED
  BY <1>2, <1>3, <1>4 DEF Batches

LEMMA RespondedKeepsBatches ==
    ASSUME Typed, Shape, Batches, Unanswered(msgs) > 0,
           msgs' = Append(msgs, Says("tool")), pc' \in {"idle", "tools"}
    PROVE  Batches'
<1>1. msgs \in Seq(Message) /\ Len(msgs) \in Nat /\ Len(msgs) > 0
  BY MessagesTyped
<1>2. BatchesWhole(msgs) /\ msgs[1].kind = "system"
  BY DEF Batches
<1>3. BatchesWhole(msgs')
  BY <1>1, <1>2, OneResponse
<1>4. Says("tool") \in Message
  BY DEF Says, Message, Kinds
<1>5. msgs'[1] = msgs[1]
  BY <1>1, <1>4
<1> QED
  BY <1>2, <1>3, <1>5 DEF Batches

LEMMA PromptBatches == ASSUME IInv, Batches, Prompt PROVE Batches'
<1> DEFINE kept == IF Last(msgs).kind = "warn" THEN Front(msgs) ELSE msgs
           whole == kept \o Repeat(Unanswered(kept), Says("tool"))
<1>1. Typed /\ Shape
  BY DEF IInv
<1>2. /\ msgs \in Seq(Message) /\ WellFormed(msgs) /\ Len(msgs) \in Nat /\ Len(msgs) > 0
      /\ BatchesWhole(msgs) /\ msgs[1].kind = "system"
  BY <1>1, MessagesTyped DEF Shape, Batches
<1>3. msgs' = Append(whole, Says("user")) /\ pc' = "round"
  BY DEF Prompt
<1>4. /\ kept \in Seq(Message) /\ Len(kept) \in Nat /\ Len(kept) > 0
      /\ kept[1] = msgs[1] /\ BatchesWhole(kept)
  <2>1. CASE Last(msgs).kind = "warn"
    <3>1. KeptLen = Len(msgs) - 1 /\ KeptLen \in 1..Len(msgs)
      BY <1>1, <2>1, MessagesTyped DEF KeptLen, KeptOf
    <3>2. kept = SubSeq(msgs, 1, Len(msgs) - 1) /\ Len(msgs) - 1 \in 1..Len(msgs)
      BY <2>1, <3>1 DEF Front
    <3> HIDE DEF kept
    <3>3. kept \in Seq(Message) /\ BatchesWhole(kept)
      BY <1>2, <3>2, CutWhole
    <3>4. Len(msgs) - 1 \in 0..Len(msgs) /\ 1 \in 1..(Len(msgs) - 1)
      BY <1>2, <3>2
    <3>5. Len(kept) = Len(msgs) - 1 /\ kept[1] = msgs[1]
      BY <1>2, <3>2, <3>4, FirstPart
    <3> QED
      BY <1>2, <3>2, <3>3, <3>5
  <2>2. CASE Last(msgs).kind # "warn"
    BY <1>2, <2>2
  <2> QED
    BY <2>1, <2>2
<1> HIDE DEF kept
<1> DEFINE u == Unanswered(kept)
           made == Repeat(u, Says("tool"))
<1>5. u \in Nat
  BY <1>4, NeverOverpaid
<1>6. /\ made \in Seq(Message) /\ Len(made) = u
      /\ \A n \in 1..Len(made) : made[n].kind = "tool"
  <2> HIDE DEF u
  <2> QED
    BY <1>5, RepeatIs
<1>7. Len(made) <= Unanswered(kept)
  BY <1>5, <1>6
<1>8. whole = kept \o made
  OBVIOUS
<1> HIDE DEF whole, made
<1>9. BatchesWhole(whole) /\ Unanswered(whole) = u - u
  BY <1>4, <1>6, <1>7, <1>8, ResponsesCount
<1>10. Unanswered(whole) = 0
  BY <1>5, <1>9
<1>11. whole \in Seq(Message) /\ Len(whole) \in Nat /\ Len(whole) > 0 /\ whole[1] = kept[1]
  BY <1>4, <1>6, <1>8
<1>12. Says("user") \in Message /\ Says("user").kind = "user" /\ ~MakesCalls(Says("user"))
  BY DEF Says, Message, Kinds, MakesCalls
<1>13. BatchesWhole(msgs') /\ Unanswered(msgs') = 0
  BY <1>3, <1>9, <1>10, <1>11, <1>12, GoesOnWhole
<1>14. msgs'[1] = whole[1]
  BY <1>3, <1>11, <1>12
<1> QED
  BY <1>2, <1>3, <1>4, <1>11, <1>13, <1>14 DEF Batches

(* The other steps of a turn: what follows a batch comes when it is whole. *)
LEMMA TurnBatches == ASSUME IInv, Batches, Turn PROVE Batches'
<1>1. Typed /\ Shape
  BY DEF IInv
<1>2. pc = "round" => Unanswered(msgs) = 0
  BY DEF Batches
<1>3. \A kind \in {"user", "warn", "text"} :
         Says(kind) \in Message /\ Says(kind).kind = kind /\ ~MakesCalls(Says(kind))
  BY DEF Says, Message, Kinds, MakesCalls
<1>4. CASE Prompt
  BY <1>4, PromptBatches
<1>5. CASE Inject
  <2>1. pc = "round" /\ msgs' = Append(msgs, Says("warn")) /\ pc' = "round"
    BY <1>5 DEF Inject
  <2> QED
    BY <1>1, <1>2, <1>3, <2>1, SaidKeepsBatches
<1>6. CASE StopTurn
  <2>1. msgs' = msgs /\ pc' = "idle"
    BY <1>6 DEF StopTurn
  <2> QED
    BY <2>1 DEF Batches
<1>7. ASSUME NEW kind \in {"run", "call"}, NEW n \in Nat, AskTools(kind, n) PROVE Batches'
  <2> DEFINE m == [kind |-> kind, calls |-> n]
  <2>1. m \in Message /\ m.kind # "tool"
    BY DEF Message, Kinds
  <2>2. pc = "round" /\ msgs' = Append(msgs, m) /\ pc' = "tools"
    BY <1>7 DEF AskTools
  <2> HIDE DEF m
  <2> QED
    BY <1>1, <1>2, <2>1, <2>2, SaidKeepsBatches
<1>8. ASSUME NEW nudged \in BOOLEAN, Answer(nudged) PROVE Batches'
  <2> DEFINE ms == Append(msgs, Says("text"))
  <2>1. /\ pc = "round" /\ msgs' = IF nudged THEN Append(ms, Says("user")) ELSE ms
        /\ pc' = IF nudged THEN "round" ELSE "idle"
    BY <1>8 DEF Answer
  <2>2. msgs \in Seq(Message) /\ Len(msgs) \in Nat /\ Len(msgs) > 0
    BY <1>1, MessagesTyped
  <2>3. BatchesWhole(msgs) /\ msgs[1].kind = "system"
    BY DEF Batches
  <2>4. BatchesWhole(ms) /\ Unanswered(ms) = 0
    BY <1>2, <1>3, <2>1, <2>2, <2>3, GoesOnWhole
  <2>5. ms \in Seq(Message) /\ Len(ms) \in Nat /\ Len(ms) > 0 /\ ms[1] = msgs[1]
    BY <1>3, <2>2
  <2> HIDE DEF ms
  <2>6. CASE nudged
    <3>1. BatchesWhole(msgs') /\ Unanswered(msgs') = 0
      BY <1>3, <2>1, <2>4, <2>5, <2>6, GoesOnWhole
    <3>2. msgs'[1] = ms[1]
      BY <1>3, <2>1, <2>5, <2>6
    <3> QED
      BY <2>1, <2>3, <2>5, <2>6, <3>1, <3>2 DEF Batches
  <2>7. CASE ~nudged
    BY <2>1, <2>3, <2>4, <2>5, <2>7 DEF Batches
  <2> QED
    BY <2>6, <2>7
<1>9. ASSUME NEW steered \in BOOLEAN, CloseBatch(steered) PROVE Batches'
  <2>1. /\ Unanswered(msgs) = 0 /\ pc' = "round"
        /\ msgs' = IF steered THEN Append(msgs, Says("user")) ELSE msgs
    BY <1>9 DEF CloseBatch
  <2>2. CASE steered
    BY <1>1, <1>3, <2>1, <2>2, SaidKeepsBatches
  <2>3. CASE ~steered
    BY <2>1, <2>3 DEF Batches
  <2> QED
    BY <2>2, <2>3
<1>10. 1 \in Nat /\ \A n \in 1..2 : n \in Nat
  OBVIOUS
<1> QED
  BY <1>4, <1>5, <1>6, <1>7, <1>8, <1>9, <1>10 DEF Turn

LEMMA ToolBatches == ASSUME IInv, Batches, Tool PROVE Batches'
<1>1. Typed /\ Shape
  BY DEF IInv
<1>2. pc = "edit" => Unanswered(msgs) > 0
  BY DEF Batches
<1>3. CASE OtherTool
  BY <1>1, <1>3, RespondedKeepsBatches DEF OtherTool
<1>4. ASSUME NEW f \in Files, StartEdit(f) PROVE Batches'
  <2>1. Unanswered(msgs) > 0 /\ msgs' = msgs /\ pc' = "edit"
    BY <1>4 DEF StartEdit
  <2> QED
    BY <2>1 DEF Batches
<1>5. ASSUME NEW f \in Files, NEW v \in Version, EndEdit(f, v) PROVE Batches'
  <2>1. pc = "edit" /\ msgs' = Append(msgs, Says("tool")) /\ pc' = "tools"
    BY <1>5 DEF EndEdit
  <2> QED
    BY <1>1, <1>2, <2>1, RespondedKeepsBatches
<1>6. ASSUME NEW f \in Files, NEW v \in Version, NEW answered \in BOOLEAN, CutEdit(f, v, answered)
      PROVE  Batches'
  <2>1. /\ pc = "edit" /\ pc' = "idle"
        /\ msgs' = IF answered THEN Append(msgs, Says("tool")) ELSE msgs
    BY <1>6 DEF CutEdit
  <2>2. CASE answered
    BY <1>1, <1>2, <2>1, <2>2, RespondedKeepsBatches
  <2>3. CASE ~answered
    BY <2>1, <2>3 DEF Batches
  <2> QED
    BY <2>2, <2>3
<1>7. ASSUME NEW f \in Files, NEW confirmed \in BOOLEAN, RestoreFile(f, confirmed) PROVE Batches'
  <2>1. /\ pc = "tools" /\ pc' = "tools" /\ Unanswered(msgs) > 0
        /\ msgs' = Append(msgs, Says("tool"))
    BY <1>7 DEF RestoreFile
  <2> QED
    BY <1>1, <2>1, RespondedKeepsBatches
<1> QED
  BY <1>3, <1>4, <1>5, <1>6, <1>7 DEF Tool

(* A rewind cuts before a message in the user role or at a closed batch.   *)
LEMMA BeginBatches == ASSUME IInv, Batches, NEW failed, BeginRewind(failed) PROVE Batches'
<1> DEFINE k == panel.slot
<1>1. Typed /\ Shape /\ BatchesWhole(msgs) /\ msgs[1].kind = "system"
  BY DEF IInv, Batches
<1>2. /\ panel.open /\ MayCutAt(panel) /\ cut'.slot = k /\ pc' = "cutting"
      /\ msgs' = msgs /\ panel' = panel
  BY DEF BeginRewind
<1>3. msgs \in Seq(Message) /\ Len(msgs) \in Nat
  BY <1>1, MessagesTyped
<1>4. k \in 1..Len(msgs)
  <2>1. Cutting'
    BY BeginKeeps DEF IInv
  <2> QED
    BY <1>2, <2>1 DEF Cutting
<1>5. Unanswered(SubSeq(msgs, 1, k)) = 0
  <2>1. CASE panel.kind = "user"
    <3>1. k < Len(msgs) /\ UserRole(msgs[k + 1])
      BY <1>2, <2>1 DEF MayCutAt
    <3>2. msgs[k + 1].kind # "tool"
      BY <3>1 DEF UserRole
    <3> QED
      BY <1>1, <1>3, <1>4, <3>1, <3>2, CutWhole
  <2>2. CASE panel.kind # "user"
    <3>1. k \in Boundaries(msgs)
      BY <1>2, <2>2 DEF MayCutAt
    <3> QED
      BY <1>1, <1>3, <1>4, <3>1, CutWhole
  <2> QED
    BY <2>1, <2>2
<1> QED
  BY <1>1, <1>2, <1>5 DEF Batches

(* What is left after a rewind is what it was begun for.                   *)
LEMMA EndCuts ==
    ASSUME IInv, EndRewind
    PROVE  msgs' = SubSeq(msgs, 1, cut.slot) /\ cut.slot \in 1..Len(msgs)
<1>1. /\ pc = "cutting" /\ msgs' = SubSeq(msgs, 1, Len(msgs) - (cut.seen - cut.slot))
  BY DEF EndRewind
<1>2. /\ msgs \in Seq(Message) /\ Len(msgs) \in Nat
      /\ cut.slot \in 1..Len(msgs) /\ cut.seen = Len(msgs)
  BY <1>1, MessagesTyped DEF IInv, Cutting
<1>3. Len(msgs) - (Len(msgs) - cut.slot) = cut.slot
  BY <1>2
<1> QED
  BY <1>1, <1>2, <1>3

LEMMA BatchesStep == ASSUME IInv, Batches, [Next]_vars PROVE Batches'
<1>1. Typed /\ Shape
  BY DEF IInv
<1>2. /\ msgs \in Seq(Message) /\ Len(msgs) \in Nat /\ Len(msgs) > 0
      /\ BatchesWhole(msgs) /\ msgs[1].kind = "system"
  BY <1>1, MessagesTyped DEF Batches
<1>3. CASE Turn
  BY <1>3, TurnBatches
<1>4. CASE Tool
  BY <1>4, ToolBatches
<1>5. ASSUME NEW t \in Targets, SelectTarget(t) PROVE Batches'
  <2>1. pc = "idle" /\ pc' = pc /\ msgs' = msgs
    BY <1>5 DEF SelectTarget
  <2> QED
    BY <2>1 DEF Batches
<1>6. CASE AskConfirm \/ EscapePanel
  <2>1. pc = "idle" /\ pc' = pc /\ msgs' = msgs
    BY <1>6 DEF AskConfirm, EscapePanel
  <2> QED
    BY <2>1 DEF Batches
<1>7. ASSUME NEW failed, BeginRewind(failed) PROVE Batches'
  BY <1>7, BeginBatches
<1>8. CASE EndRewind
  <2>1. pc' = "idle" /\ msgs' = SubSeq(msgs, 1, cut.slot) /\ cut.slot \in 1..Len(msgs)
    BY <1>8, EndCuts DEF EndRewind
  <2>2. BatchesWhole(msgs')
    BY <1>2, <2>1, CutWhole
  <2>3. cut.slot \in 0..Len(msgs) /\ 1 \in 1..cut.slot
    BY <1>2, <2>1
  <2>4. msgs'[1] = msgs[1]
    BY <1>2, <2>1, <2>3, FirstPart
  <2> QED
    BY <1>2, <2>1, <2>2, <2>4 DEF Batches
<1>9. CASE RewindFails
  <2>1. pc' = "idle" /\ msgs' = msgs
    BY <1>9 DEF RewindFails
  <2> QED
    BY <2>1 DEF Batches
<1>10. ASSUME NEW kept \in {<<>>, <<Says("summary")>>}, ResetConversation(kept) PROVE Batches'
  <2> DEFINE head == <<msgs[1]>>
  <2>1. /\ pc' = pc /\ pc \in {"idle", "round"} /\ msgs' = head \o kept
    BY <1>10 DEF ResetConversation
  <2>2. msgs[1] \in Message /\ ~MakesCalls(msgs[1])
    BY <1>2 DEF MakesCalls
  <2>3. head \in Seq(Message) /\ Len(head) = 1 /\ head[1] = msgs[1]
    BY <2>2
  <2> HIDE DEF head
  <2>4. \A c \in 1..Len(head) : \A n \in c..Len(head) : ~Runs(head, c, n)
    BY <2>2, <2>3 DEF Runs
  <2>5. BatchesWhole(head)
    BY <2>4 DEF BatchesWhole
  <2>6. Unanswered(head) = 0
    BY <2>2, <2>3, LeftOfLast DEF Runs
  <2>7. CASE kept = <<>>
    <3>1. msgs' = head
      BY <2>1, <2>3, <2>7
    <3> QED
      BY <1>2, <2>1, <2>3, <2>5, <2>6, <3>1 DEF Batches
  <2>8. CASE kept = <<Says("summary")>>
    <3> DEFINE m == Says("summary")
    <3>1. m \in Message /\ m.kind # "tool" /\ ~MakesCalls(m)
      BY DEF Says, Message, Kinds, MakesCalls
    <3>2. kept = <<m>>
      BY <2>8
    <3> HIDE DEF m
    <3>3. msgs' = Append(head, m)
      BY <2>1, <2>3, <3>1, <3>2, AppendIsConcat
    <3>4. BatchesWhole(msgs') /\ Unanswered(msgs') = 0
      BY <2>3, <2>5, <2>6, <3>1, <3>3, GoesOnWhole
    <3>5. msgs'[1] = head[1]
      BY <2>3, <3>1, <3>3
    <3> QED
      BY <1>2, <2>1, <2>3, <3>4, <3>5 DEF Batches
  <2> QED
    BY <2>7, <2>8
<1>11. ASSUME NEW f \in Files, OutsideEdit(f) PROVE Batches'
  <2>1. pc' = pc /\ msgs' = msgs /\ panel' = panel /\ cut' = cut
    BY <1>11 DEF OutsideEdit, rewinding
  <2> QED
    BY <2>1 DEF Batches
<1>12. CASE UNCHANGED vars
  BY <1>12 DEF vars, Batches
<1> QED
  BY <1>3, <1>4, <1>5, <1>6, <1>7, <1>8, <1>9, <1>10, <1>11, <1>12 DEF Next, Panel

LEMMA BatchesStart == Init => Batches
<1> SUFFICES ASSUME Init PROVE Batches
  OBVIOUS
<1> DEFINE m == Says("system")
<1>1. m \in Message /\ m.kind = "system" /\ ~MakesCalls(m)
  BY DEF Says, Message, Kinds, MakesCalls
<1>2. msgs = <<m>> /\ pc = "idle"
  BY DEF Init
<1> HIDE DEF m
<1>3. Len(msgs) = 1 /\ msgs[1] = m
  BY <1>1, <1>2
<1>4. \A c \in 1..Len(msgs) : \A n \in c..Len(msgs) : ~Runs(msgs, c, n)
  BY <1>1, <1>3 DEF Runs
<1>5. BatchesWhole(msgs)
  BY <1>4 DEF BatchesWhole
<1> QED
  BY <1>1, <1>2, <1>3, <1>5 DEF Batches

(* No rewind leaves a call without its response, for any conversation: also *)
(* when Esc answered a part of the last batch, when a run of repairs was    *)
(* made up at the next prompt, and when the target was taken long before.   *)
THEOREM BatchesSurvive == Spec => RewindKeepsBatchesWhole
<1> DEFINE A == (pc = "cutting" /\ ~panel'.open) => Unanswered(msgs') = 0
<1>1. Init => Batches
  BY BatchesStart
<1>2. IInv /\ Batches /\ [Next]_vars => Batches'
  BY BatchesStep
<1>3. IInv /\ Batches /\ [Next]_vars => [A]_vars
  <2> SUFFICES ASSUME IInv, Batches, [Next]_vars, pc = "cutting", ~panel'.open
               PROVE  Unanswered(msgs') = 0 \/ UNCHANGED vars
    OBVIOUS
  <2>1. panel.open /\ Unanswered(SubSeq(msgs, 1, cut.slot)) = 0
    BY DEF Batches
  <2>2. CASE EndRewind
    BY <2>1, <2>2, EndCuts
  <2>3. ~RewindFails /\ ~ \E f \in Files : OutsideEdit(f)
    BY <2>1 DEF RewindFails, OutsideEdit, rewinding
  <2>4. ~Turn
    BY DEF Turn, Prompt, Inject, StopTurn, AskTools, Answer, CloseBatch
  <2>5. ~Tool
    BY DEF Tool, OtherTool, StartEdit, EndEdit, CutEdit, RestoreFile
  <2>6. /\ ~AskConfirm /\ ~EscapePanel /\ ~ \E t \in Targets : SelectTarget(t)
        /\ ~ \E failed \in SUBSET Files : BeginRewind(failed)
    BY DEF AskConfirm, EscapePanel, SelectTarget, BeginRewind
  <2>7. ~ \E kept \in {<<>>, <<Says("summary")>>} : ResetConversation(kept)
    BY DEF ResetConversation
  <2> QED
    BY <2>2, <2>3, <2>4, <2>5, <2>6, <2>7 DEF Next, Panel
<1>4. Spec => []IInv
  BY Invariant
<1> HIDE DEF A
<1>5. Spec => [][A]_vars
  BY <1>1, <1>2, <1>3, <1>4, PTL DEF Spec
<1> QED
  BY <1>5 DEF A, RewindKeepsBatchesWhole

-----------------------------------------------------------------------------
(* An undo stack and the contents its file held. *)


(* Between i and j a file held nothing that is worth going back to.        *)
Gap(h, i, j) == \A p \in (i+1)..(j-1) : h[p] \in Oversize \union {h[j]}

(* The versions of s are in h at pos, in their order, and from each to the *)
(* next there is nothing else to go back to; from the last, to the end.    *)
Aligned(h, s, pos) ==
    \A n \in 1..Len(s) :
       /\ h[pos[n]] = s[n]
       /\ n < Len(s) => pos[n] < pos[n + 1] /\ Gap(h, pos[n], pos[n + 1])
       /\ n = Len(s) => Gap(h, pos[n], Len(h))
Follows(h, s) == \E pos \in [1..Len(s) -> 1..Len(h)] : Aligned(h, s, pos)

LEMMA FollowsNothing ==
    ASSUME NEW S, NEW h \in Seq(S), h # <<>> PROVE Follows(h, <<>>)
<1> DEFINE pos == [n \in 1..0 |-> 1]
<1>1. Len(<<>>) = 0 /\ 1..0 = {} /\ Len(h) \in Nat
  OBVIOUS
<1>2. pos \in [1..Len(<<>>) -> 1..Len(h)]
  BY <1>1
<1>3. Aligned(h, <<>>, pos)
  BY <1>1 DEF Aligned
<1> QED
  BY <1>2, <1>3 DEF Follows

(* What a file holds now can be recorded, once.                            *)
LEMMA FollowsPush ==
    ASSUME NEW S, NEW h \in Seq(S), NEW s \in Seq(S), h # <<>>, Follows(h, s),
           s # <<>> => Last(s) # Last(h)
    PROVE  Follows(h, Append(s, Last(h)))
<1> DEFINE v == Last(h)
           new == Append(s, v)
           L == Len(h)
           K == Len(s)
<1>1. L \in Nat /\ L > 0 /\ K \in Nat /\ v = h[L] /\ v \in S
  BY DEF Last
<1>2. PICK pos \in [1..K -> 1..L] : Aligned(h, s, pos)
  BY DEF Follows
<1>3. /\ new \in Seq(S) /\ Len(new) = K + 1 /\ new[K + 1] = v
      /\ \A n \in 1..K : new[n] = s[n]
  BY <1>1
<1> DEFINE at == [n \in 1..(K+1) |-> IF n \in 1..K THEN pos[n] ELSE L]
<1>4. at \in [1..(K+1) -> 1..L] /\ at[K + 1] = L /\ \A n \in 1..K : at[n] = pos[n] /\ pos[n] \in 1..L
  BY <1>1
<1> HIDE DEF new, at, v
<1>5. ASSUME NEW n \in 1..(K+1)
      PROVE  /\ h[at[n]] = new[n]
             /\ n < K + 1 => at[n] < at[n + 1] /\ Gap(h, at[n], at[n + 1])
             /\ n = K + 1 => Gap(h, at[n], L)
  <2>1. CASE n = K + 1
    <3>1. Gap(h, L, L)
      BY <1>1 DEF Gap
    <3> QED
      BY <1>1, <1>3, <1>4, <2>1, <3>1
  <2>2. CASE n # K + 1
    <3>1. n \in 1..K /\ n < K + 1
      BY <1>1, <2>2
    <3>2. h[at[n]] = new[n]
      BY <1>2, <1>3, <1>4, <3>1 DEF Aligned
    <3>3. CASE n < K
      <4>1. n + 1 \in 1..K
        BY <1>1, <3>1, <3>3
      <4> QED
        BY <1>2, <1>4, <2>2, <3>1, <3>2, <3>3, <4>1 DEF Aligned
    <3>4. CASE n = K
      <4>1. s # <<>> /\ Last(s) = s[K]
        BY <1>1, <3>1, <3>4 DEF Last
      <4>2. h[pos[K]] # h[L]
        BY <1>1, <1>2, <3>1, <3>4, <4>1 DEF Aligned, v
      <4>3. pos[K] \in 1..L /\ pos[K] < L
        BY <1>1, <1>4, <3>1, <3>4, <4>2
      <4>4. Gap(h, pos[K], L)
        BY <1>2, <3>1, <3>4 DEF Aligned
      <4> QED
        BY <1>4, <2>2, <3>1, <3>2, <3>4, <4>3, <4>4
    <3> QED
      BY <1>1, <3>1, <3>3, <3>4
  <2> QED
    BY <2>1, <2>2
<1>6. Aligned(h, new, at)
  BY <1>3, <1>5 DEF Aligned
<1> QED
  BY <1>3, <1>4, <1>6 DEF Follows, new, v

(* The oldest version can be dropped. *)
LEMMA FollowsTail ==
    ASSUME NEW S, NEW h \in Seq(S), NEW s \in Seq(S), s # <<>>, Follows(h, s)
    PROVE  Follows(h, Tail(s))
<1> DEFINE new == Tail(s)
           L == Len(h)
           K == Len(s)
           at(pos) == [n \in 1..(K-1) |-> pos[n + 1]]
<1>1. L \in Nat /\ K \in Nat /\ K > 0
  OBVIOUS
<1>2. PICK pos \in [1..K -> 1..L] : Aligned(h, s, pos)
  BY DEF Follows
<1>3. new \in Seq(S) /\ Len(new) = K - 1 /\ \A n \in 1..(K-1) : new[n] = s[n + 1]
  BY <1>1
<1>4. \A n \in 1..(K-1) : n + 1 \in 1..K
  BY <1>1
<1>5. at(pos) \in [1..(K-1) -> 1..L] /\ \A n \in 1..(K-1) : at(pos)[n] = pos[n + 1]
  BY <1>4
<1> HIDE DEF new, at
<1>6. ASSUME NEW n \in 1..(K-1)
      PROVE  /\ h[at(pos)[n]] = new[n]
             /\ n < K - 1 => at(pos)[n] < at(pos)[n + 1] /\ Gap(h, at(pos)[n], at(pos)[n + 1])
             /\ n = K - 1 => Gap(h, at(pos)[n], L)
  <2>1. n + 1 \in 1..K
    BY <1>4
  <2>2. CASE n < K - 1
    <3>1. n + 1 \in 1..(K-1) /\ n + 1 < K
      BY <1>1, <2>2
    <3> QED
      BY <1>1, <1>2, <1>3, <1>5, <2>1, <2>2, <3>1 DEF Aligned
  <2>3. CASE n = K - 1
    <3>1. n + 1 = K
      BY <1>1, <2>3
    <3> QED
      BY <1>1, <1>2, <1>3, <1>5, <2>1, <2>3, <3>1 DEF Aligned
  <2> QED
    BY <1>1, <2>2, <2>3
<1>7. Aligned(h, new, at(pos))
  BY <1>3, <1>6 DEF Aligned
<1> QED
  BY <1>3, <1>5, <1>7 DEF Follows, new

(* When the newest version is what the file holds, it may as well be       *)
(* placed there.                                                           *)
LEMMA FollowsToTheEnd ==
    ASSUME NEW S, NEW h \in Seq(S), NEW s \in Seq(S), h # <<>>, s # <<>>, Follows(h, s),
           Last(s) = Last(h)
    PROVE  \E pos \in [1..Len(s) -> 1..Len(h)] : Aligned(h, s, pos) /\ pos[Len(s)] = Len(h)
<1> DEFINE L == Len(h)
           K == Len(s)
<1>1. L \in Nat /\ L > 0 /\ K \in Nat /\ K > 0 /\ h[L] = s[K] /\ K \in 1..K /\ L \in 1..L
  BY DEF Last
<1>2. PICK pos \in [1..K -> 1..L] : Aligned(h, s, pos)
  BY DEF Follows
<1> DEFINE at == [n \in 1..K |-> IF n = K THEN L ELSE pos[n]]
<1>3. /\ at \in [1..K -> 1..L] /\ at[K] = L
      /\ \A n \in 1..K : pos[n] \in 1..L /\ (n # K => at[n] = pos[n])
  BY <1>1
<1> HIDE DEF at
<1>4. h[pos[K]] = h[L] /\ Gap(h, pos[K], L)
  BY <1>1, <1>2 DEF Aligned
<1>5. ASSUME NEW n \in 1..K
      PROVE  /\ h[at[n]] = s[n]
             /\ n < K => at[n] < at[n + 1] /\ Gap(h, at[n], at[n + 1])
             /\ n = K => Gap(h, at[n], L)
  <2>1. CASE n = K
    <3>1. Gap(h, L, L)
      BY <1>1 DEF Gap
    <3> QED
      BY <1>1, <1>3, <2>1, <3>1
  <2>2. CASE n + 1 < K
    <3>1. n + 1 \in 1..K /\ n + 1 # K /\ n # K /\ n < K
      BY <1>1, <2>2
    <3> QED
      BY <1>2, <1>3, <3>1 DEF Aligned
  <2>3. CASE n + 1 = K
    <3>1. n # K /\ n < K
      BY <1>1, <2>3
    <3>2. h[pos[n]] = s[n] /\ pos[n] < pos[K] /\ Gap(h, pos[n], pos[K])
      BY <1>2, <2>3, <3>1 DEF Aligned
    <3>3. pos[n] \in 1..L /\ pos[K] \in 1..L
      BY <1>1, <1>3
    <3>4. pos[n] < L
      BY <1>1, <3>2, <3>3
    <3>5. ASSUME NEW p \in (pos[n]+1)..(L-1) PROVE h[p] \in Oversize \union {h[L]}
      <4>1. CASE p < pos[K]
        <5>1. p \in (pos[n]+1)..(pos[K]-1)
          BY <1>1, <3>3, <4>1
        <5> QED
          BY <1>4, <3>2, <5>1 DEF Gap
      <4>2. CASE p = pos[K]
        BY <1>4, <4>2
      <4>3. CASE p > pos[K]
        <5>1. p \in (pos[K]+1)..(L-1)
          BY <1>1, <3>3, <4>3
        <5> QED
          BY <1>4, <5>1 DEF Gap
      <4> QED
        BY <1>1, <3>3, <4>1, <4>2, <4>3
    <3>6. Gap(h, pos[n], L)
      BY <3>5 DEF Gap
    <3> QED
      BY <1>3, <2>3, <3>1, <3>2, <3>4, <3>6
  <2> QED
    BY <1>1, <2>1, <2>2, <2>3
<1>6. Aligned(h, s, at)
  BY <1>5 DEF Aligned
<1> QED
  BY <1>3, <1>6

(* A write whose file was recorded, or was too large for it, is followed.  *)
LEMMA FollowsWrite ==
    ASSUME NEW S, NEW h \in Seq(S), NEW s \in Seq(S), h # <<>>, Follows(h, s), NEW c \in S,
           Last(h) \in Oversize \/ (s # <<>> /\ Last(s) = Last(h))
    PROVE  Follows(Append(h, c), s)
<1> DEFINE L == Len(h)
           K == Len(s)
           new == Append(h, c)
<1>1. L \in Nat /\ L > 0 /\ K \in Nat /\ Last(h) = h[L]
  BY DEF Last
<1>2. new \in Seq(S) /\ Len(new) = L + 1 /\ new[L + 1] = c /\ \A i \in 1..L : new[i] = h[i]
  BY <1>1
<1> HIDE DEF new
<1>3. \E pos \in [1..K -> 1..L] : Aligned(h, s, pos) /\ (h[L] \notin Oversize => pos[K] = L)
  <2>1. CASE h[L] \in Oversize
    BY <2>1 DEF Follows
  <2>2. CASE h[L] \notin Oversize
    BY <1>1, <2>2, FollowsToTheEnd
  <2> QED
    BY <2>1, <2>2
<1>4. PICK pos \in [1..K -> 1..L] : Aligned(h, s, pos) /\ (h[L] \notin Oversize => pos[K] = L)
  BY <1>3
<1>5. pos \in [1..K -> 1..Len(new)]
  BY <1>1, <1>2
<1>6. ASSUME NEW i \in 1..L, NEW j \in 1..L, Gap(h, i, j) PROVE Gap(new, i, j)
  <2>1. \A p \in (i+1)..(j-1) : p \in 1..L
    BY <1>1
  <2> QED
    BY <1>2, <1>6, <2>1 DEF Gap
<1>7. ASSUME NEW n \in 1..K
      PROVE  /\ new[pos[n]] = s[n]
             /\ n < K => pos[n] < pos[n + 1] /\ Gap(new, pos[n], pos[n + 1])
             /\ n = K => Gap(new, pos[n], L + 1)
  <2>1. pos[n] \in 1..L
    OBVIOUS
  <2>2. new[pos[n]] = s[n]
    BY <1>2, <1>4, <2>1 DEF Aligned
  <2>3. CASE n < K
    <3>1. n + 1 \in 1..K
      BY <1>1, <2>3
    <3>2. pos[n + 1] \in 1..L
      BY <3>1
    <3>3. pos[n] < pos[n + 1] /\ Gap(h, pos[n], pos[n + 1])
      BY <1>4, <2>3 DEF Aligned
    <3> QED
      BY <1>6, <2>1, <2>2, <2>3, <3>2, <3>3
  <2>4. CASE n = K
    <3>1. Gap(h, pos[n], L)
      BY <1>4, <2>4 DEF Aligned
    <3>2. ASSUME NEW p \in (pos[n]+1)..((L+1)-1) PROVE new[p] \in Oversize \union {new[L + 1]}
      <4>1. p \in 1..L /\ p \in (pos[n]+1)..L
        BY <1>1, <2>1
      <4>2. h[L] \in Oversize
        BY <1>1, <1>4, <2>4, <4>1
      <4>3. p # L => p \in (pos[n]+1)..(L-1)
        BY <1>1, <2>1, <4>1
      <4>4. h[p] \in Oversize
        BY <3>1, <4>2, <4>3 DEF Gap
      <4> QED
        BY <1>2, <4>1, <4>4
    <3>3. Gap(new, pos[n], L + 1)
      BY <3>2 DEF Gap
    <3> QED
      BY <2>2, <2>4, <3>3
  <2> QED
    BY <1>1, <2>3, <2>4
<1>8. Aligned(new, s, pos)
  BY <1>2, <1>7 DEF Aligned
<1> QED
  BY <1>5, <1>8 DEF Follows, new

(* Back at the newest version, the others are what there is to go back to. *)
LEMMA FollowsPop ==
    ASSUME NEW S, NEW h \in Seq(S), NEW s \in Seq(S), s # <<>>,
           NEW pos \in [1..Len(s) -> 1..Len(h)], Aligned(h, s, pos)
    PROVE  Follows(SubSeq(h, 1, pos[Len(s)]), Front(s))
<1> DEFINE L == Len(h)
           K == Len(s)
           e == pos[K]
           back == SubSeq(h, 1, e)
           rest == Front(s)
           at == [n \in 1..(K-1) |-> pos[n]]
<1>1. L \in Nat /\ K \in Nat /\ K > 0 /\ K \in 1..K /\ K - 1 \in 0..K
  OBVIOUS
<1>2. e \in 1..L /\ e \in 0..L /\ e \in Nat
  <2>1. e \in 1..L
    BY <1>1
  <2> HIDE DEF e
  <2> QED
    BY <1>1, <2>1
<1> HIDE DEF e
<1>3. Len(back) = e /\ \A i \in 1..e : back[i] = h[i]
  BY <1>2, FirstPart
<1>4. Len(rest) = K - 1 /\ \A n \in 1..(K-1) : rest[n] = s[n]
  BY <1>1, FirstPart DEF Front
<1> HIDE DEF back, rest
<1>5. ASSUME NEW n \in 1..(K-1)
      PROVE  /\ n \in 1..K /\ n + 1 \in 1..K /\ n < K
             /\ pos[n] \in Nat /\ pos[n] > 0 /\ pos[n + 1] \in Nat
             /\ pos[n] < pos[n + 1] /\ Gap(h, pos[n], pos[n + 1]) /\ h[pos[n]] = s[n]
  <2>1. n \in 1..K /\ n + 1 \in 1..K /\ n < K
    BY <1>1
  <2>2. pos[n] \in 1..L /\ pos[n + 1] \in 1..L
    BY <2>1
  <2> QED
    BY <1>1, <2>1, <2>2 DEF Aligned
<1>6. \A n \in 1..K : pos[n] <= e
  <2> SUFFICES ASSUME NEW n \in 1..K, ~(pos[n] <= e) PROVE FALSE
    OBVIOUS
  <2> DEFINE far == {i \in Nat : i <= K /\ K - i \in 1..K /\ ~(pos[K - i] <= e)}
  <2>1. K - n \in far
    <3>1. K - n \in Nat /\ K - n <= K /\ K - (K - n) = n
      BY <1>1
    <3> QED
      BY <3>1
  <2>2. far \subseteq Nat /\ far # {}
    BY <2>1
  <2>3. PICK m \in far : \A i \in far : m <= i
    <3> HIDE DEF far
    <3> QED
      BY <2>2, Least
  <2>4. m \in Nat /\ K - m \in 1..K /\ ~(pos[K - m] <= e)
    OBVIOUS
  <2>5. m # 0
    <3>1. m = 0 => K - m = K
      BY <1>1
    <3> QED
      BY <1>2, <2>4, <3>1 DEF e
  <2>6. m - 1 \in Nat /\ K - m \in 1..(K-1) /\ (K - m) + 1 = K - (m - 1) /\ m - 1 <= K
    BY <1>1, <2>4, <2>5
  <2>7. pos[K - m] < pos[K - (m - 1)] /\ pos[K - m] \in Nat /\ pos[K - (m - 1)] \in Nat /\ K - (m - 1) \in 1..K
    BY <1>5, <2>6
  <2>8. ~(pos[K - (m - 1)] <= e)
    BY <1>2, <2>4, <2>7
  <2>9. m - 1 \in far
    BY <2>6, <2>7, <2>8
  <2>10. m <= m - 1
    BY <2>3, <2>9
  <2> QED
    BY <2>4, <2>10
<1>7. at \in [1..(K-1) -> 1..e] /\ \A n \in 1..(K-1) : at[n] = pos[n]
  <2>1. \A n \in 1..(K-1) : pos[n] \in 1..e
    BY <1>2, <1>5, <1>6
  <2> QED
    BY <2>1
<1> HIDE DEF at
<1>8. ASSUME NEW n \in 1..(K-1) PROVE back[pos[n]] = rest[n] /\ Gap(back, pos[n], pos[n + 1])
  <2>1. pos[n] <= e /\ pos[n + 1] <= e
    BY <1>5, <1>6
  <2>2. pos[n] \in 1..e /\ pos[n + 1] \in 1..e
    BY <1>2, <1>5, <2>1
  <2>3. \A p \in (pos[n]+1)..(pos[n + 1]-1) : p \in 1..e
    BY <1>2, <2>2
  <2> QED
    BY <1>3, <1>4, <1>5, <2>2, <2>3 DEF Gap
<1>9. ASSUME NEW n \in 1..(K-1)
      PROVE  /\ back[at[n]] = rest[n]
             /\ n < K - 1 => at[n] < at[n + 1] /\ Gap(back, at[n], at[n + 1])
             /\ n = K - 1 => Gap(back, at[n], e)
  <2>1. CASE n < K - 1
    <3>1. n + 1 \in 1..(K-1)
      BY <1>1, <2>1
    <3> QED
      BY <1>5, <1>7, <1>8, <2>1, <3>1
  <2>2. CASE n = K - 1
    <3>1. n + 1 = K
      BY <1>1, <2>2
    <3> QED
      BY <1>1, <1>7, <1>8, <2>2, <3>1 DEF e
  <2> QED
    BY <1>1, <2>1, <2>2
<1>10. Aligned(back, rest, at)
  BY <1>3, <1>4, <1>9 DEF Aligned
<1>11. Follows(back, rest)
  BY <1>3, <1>4, <1>7, <1>10 DEF Follows
<1> QED
  BY <1>11 DEF back, rest, e

(* The last place of a content is where LastAt says.                       *)
LEMMA LastAtIs ==
    ASSUME NEW S, NEW s \in Seq(S), NEW v, NEW k \in 1..Len(s), s[k] = v,
           \A j \in 1..Len(s) : j > k => s[j] # v
    PROVE  LastAt(s, v) = k
<1>1. DOMAIN s = 1..Len(s) /\ Len(s) \in Nat /\ k \in Nat
  OBVIOUS
<1>2. \A j \in DOMAIN s : s[j] = v => j <= k
  BY <1>1
<1>3. ASSUME NEW i \in DOMAIN s, s[i] = v, \A j \in DOMAIN s : s[j] = v => j <= i PROVE i = k
  BY <1>1, <1>2, <1>3
<1> QED
  BY <1>1, <1>2, <1>3 DEF LastAt

(* Taking the newest version of a file that holds something else.          *)
LEMMA BackTo ==
    ASSUME NEW S, NEW h \in Seq(S), NEW c \in S, NEW s \in Seq(S \ Oversize), s # <<>>,
           Follows(Append(h, c), s), Last(s) # c
    PROVE  \E i \in 1..Len(h) :
              /\ h[i] = Last(s) /\ i = LastAt(h, Last(s))
              /\ \A j \in 1..Len(h) : j > i => h[j] \in Oversize \union {c}
              /\ Follows(Append(SubSeq(h, 1, i - 1), Last(s)), Front(s))
<1> DEFINE L == Len(h)
           K == Len(s)
           v == Last(s)
           all == Append(h, c)
<1>1. L \in Nat /\ K \in Nat /\ K > 0 /\ K \in 1..K /\ v = s[K] /\ s \in Seq(S)
  BY DEF Last
<1>2. v \in S \ Oversize
  BY <1>1
<1>3. all \in Seq(S) /\ Len(all) = L + 1 /\ all[L + 1] = c /\ \A i \in 1..L : all[i] = h[i]
  OBVIOUS
<1> HIDE DEF all, v
<1>4. PICK pos \in [1..K -> 1..Len(all)] : Aligned(all, s, pos)
  BY DEF Follows, all
<1> DEFINE i == pos[K]
<1>5. i \in 1..(L+1) /\ all[i] = v /\ Gap(all, i, L + 1)
  BY <1>1, <1>3, <1>4 DEF Aligned
<1>6. Follows(SubSeq(all, 1, i), Front(s))
  BY <1>1, <1>3, <1>4, FollowsPop
<1> HIDE DEF i
<1>7. v # c
  BY DEF v
<1>8. i \in 1..L /\ h[i] = v
  BY <1>1, <1>3, <1>5, <1>7
<1>9. ASSUME NEW j \in 1..L, j > i PROVE h[j] \in Oversize \union {c}
  <2>1. j \in (i+1)..((L+1)-1)
    BY <1>1, <1>8, <1>9
  <2> QED
    BY <1>3, <1>5, <2>1 DEF Gap
<1>10. \A j \in 1..L : j > i => h[j] # v
  BY <1>2, <1>7, <1>9
<1>11. i = LastAt(h, v)
  BY <1>8, <1>10, LastAtIs
<1>12. SubSeq(all, 1, i) = Append(SubSeq(h, 1, i - 1), v)
  <2> DEFINE left == SubSeq(h, 1, i - 1)
             one == SubSeq(all, 1, i)
  <2>1. i - 1 \in 0..L /\ i \in 0..Len(all) /\ i \in Nat /\ (i - 1) + 1 = i
    BY <1>1, <1>3, <1>8
  <2>2. left \in Seq(S) /\ Len(left) = i - 1 /\ \A n \in 1..(i-1) : left[n] = h[n]
    BY <2>1, FirstPart
  <2>3. one \in Seq(S) /\ Len(one) = i /\ \A n \in 1..i : one[n] = all[n]
    BY <1>3, <2>1, FirstPart
  <2> HIDE DEF left, one
  <2>4. /\ Append(left, v) \in Seq(S) /\ Len(Append(left, v)) = i
        /\ Append(left, v)[i] = v /\ \A n \in 1..(i-1) : Append(left, v)[n] = left[n]
    BY <1>2, <2>1, <2>2
  <2>5. \A n \in 1..i : n = i \/ (n \in 1..(i-1) /\ n \in 1..L)
    BY <1>1, <1>8
  <2>6. \A n \in 1..i : one[n] = Append(left, v)[n]
    BY <1>3, <1>5, <2>2, <2>3, <2>4, <2>5
  <2>7. one = Append(left, v)
    BY <2>3, <2>4, <2>6, SeqEqual
  <2> QED
    BY <2>7 DEF left, one
<1> QED
  BY <1>6, <1>8, <1>9, <1>11, <1>12 DEF v

-----------------------------------------------------------------------------
(* Every step keeps the undo stacks in line with what the files held. *)

(* A rewind under way may have put the file back already.                  *)
Restoring(f) == pc = "cutting" /\ panel.confirming /\ KnownAt(cut.slot, f)

(* What is about to be overwritten is on the stack, or is too large for it. *)
Recorded(f) == fs[f] \in Oversize \/ (undo[f] # <<>> /\ Last(undo[f]) = fs[f])

(* The stack of a file nothing else wrote follows what it held: so it does  *)
(* after undone, failed and interrupted edits, and no version is skipped.   *)
Versions ==
    /\ pc # "edit" => editing = {}
    /\ \A f \in Files \ touched :
          /\ ~Restoring(f) => Follows(Append(past[f], fs[f]), undo[f])
          /\ f \in editing => Recorded(f)

LEMMA HeldTyped ==
    ASSUME Typed, NEW f \in Files
    PROVE  /\ Append(past[f], fs[f]) \in Seq(Version) /\ Append(past[f], fs[f]) # <<>>
           /\ Last(Append(past[f], fs[f])) = fs[f]
           /\ past[f] \in Seq(Version) /\ fs[f] \in Version
           /\ undo[f] \in Seq(Version \ Oversize) /\ undo[f] \in Seq(Version)
<1>1. past[f] \in Seq(Version) /\ fs[f] \in Version /\ undo[f] \in Seq(Version \ Oversize)
  BY DEF Typed, Disk
<1>2. undo[f] \in Seq(Version)
  BY <1>1
<1>3. Append(past[f], fs[f]) # <<>> /\ Last(Append(past[f], fs[f])) = fs[f]
  BY <1>1 DEF Last
<1> QED
  BY <1>1, <1>2, <1>3

LEMMA VersionsStart == Init => Versions
<1> SUFFICES ASSUME Init PROVE Versions
  OBVIOUS
<1>1. Typed
  BY Start DEF IInv
<1>2. \A f \in Files : undo[f] = <<>>
  BY DEF Init
<1>3. \A f \in Files : Follows(Append(past[f], fs[f]), undo[f])
  BY <1>1, <1>2, HeldTyped, FollowsNothing
<1>4. editing = {}
  BY DEF Init
<1> QED
  BY <1>3, <1>4 DEF Versions

(* Steps outside of a rewind that leave files and stacks alone.            *)
LEMMA ElsewhereKeepsVersions ==
    ASSUME Versions, pc # "cutting", pc' # "cutting", UNCHANGED <<fs, past, undo, touched>>,
           editing' = editing, pc = "edit" => pc' = "edit"
    PROVE  Versions'
<1>1. ASSUME NEW f \in Files \ touched
      PROVE  Follows(Append(past[f], fs[f]), undo[f]) /\ (f \in editing => Recorded(f))
  BY DEF Versions, Restoring
<1>2. ASSUME NEW f \in Files \ touched'
      PROVE  Follows(Append(past'[f], fs'[f]), undo'[f]) /\ (f \in editing' => Recorded(f)')
  BY <1>1 DEF Recorded
<1>3. pc' # "edit" => editing' = {}
  BY DEF Versions
<1> QED
  BY <1>2, <1>3 DEF Versions

(* The stack takes what the file holds before it is let be written.        *)
LEMMA StartEditVersions ==
    ASSUME IInv, Versions, NEW f \in Files, StartEdit(f) PROVE Versions'
<1>1. PICK content \in SnapshotOutcomes(f) :
         /\ undo' = Captured(f, content)
         /\ touched' = IF content = fs[f] THEN touched ELSE touched \union {f}
  BY DEF StartEdit
<1>2. pc = "tools" /\ pc' = "edit" /\ editing' = {f} /\ fs' = fs /\ past' = past
  BY DEF StartEdit
<1>3. Typed /\ undo \in [Files -> Seq(Version \ Oversize)]
  BY DEF IInv, Typed
<1>4. ASSUME NEW g \in Files \ touched' PROVE Follows(Append(past[g], fs[g]), undo[g])
  <2>1. g \in Files \ touched
    BY <1>1
  <2> QED
    BY <1>2, <2>1 DEF Versions, Restoring
<1>5. ASSUME NEW g \in Files \ touched', g # f PROVE Follows(Append(past[g], fs[g]), undo'[g])
  <2>1. undo'[g] = undo[g]
    BY <1>1, <1>3, <1>5 DEF Captured
  <2> QED
    BY <1>4, <2>1
<1>6. ASSUME f \notin touched'
      PROVE  /\ Follows(Append(past[f], fs[f]), undo'[f])
             /\ fs[f] \in Oversize \/ (undo'[f] # <<>> /\ Last(undo'[f]) = fs[f])
  <2> DEFINE h == Append(past[f], fs[f])
             s == undo[f]
             pushed == Append(s, fs[f])
  <2>1. content = fs[f]
    BY <1>1, <1>6
  <2>2. /\ h \in Seq(Version) /\ h # <<>> /\ Last(h) = fs[f] /\ fs[f] \in Version
        /\ s \in Seq(Version)
    BY <1>3, HeldTyped
  <2>3. Follows(h, s)
    BY <1>4, <1>6
  <2> HIDE DEF h
  <2>4. CASE fs[f] \in Oversize \/ (s # <<>> /\ Last(s) = fs[f])
    <3>1. undo' = undo
      BY <1>1, <2>1, <2>4 DEF Captured
    <3> QED
      BY <2>3, <2>4, <3>1 DEF h
  <2>5. CASE ~(fs[f] \in Oversize \/ (s # <<>> /\ Last(s) = fs[f]))
    <3>1. undo'[f] = IF Len(pushed) > MaxVersions THEN Tail(pushed) ELSE pushed
      BY <1>1, <1>3, <2>1, <2>5 DEF Captured
    <3>2. Follows(h, pushed)
      BY <2>2, <2>3, <2>5, FollowsPush
    <3>3. /\ pushed \in Seq(Version) /\ Len(pushed) = Len(s) + 1 /\ pushed # <<>>
          /\ Len(s) \in Nat /\ pushed[Len(s) + 1] = fs[f]
      BY <2>2
    <3>4. Last(pushed) = fs[f]
      BY <3>3 DEF Last
    <3>5. CASE Len(pushed) > MaxVersions
      <4>1. Follows(h, Tail(pushed))
        <5> HIDE DEF pushed
        <5> QED
          BY <2>2, <3>2, <3>3, FollowsTail
      <4>2. Len(s) > 0
        <5>1. MaxVersions \in Nat /\ MaxVersions # 0
          BY FilesAssumption
        <5> QED
          BY <3>3, <3>5, <5>1
      <4>3. Tail(pushed) # <<>> /\ Last(Tail(pushed)) = fs[f]
        <5> HIDE DEF pushed
        <5>1. Len(Tail(pushed)) = Len(s) /\ Tail(pushed)[Len(s)] = pushed[Len(s) + 1]
          BY <3>3, <4>2
        <5> QED
          BY <3>3, <4>2, <5>1 DEF Last
      <4> QED
        BY <3>1, <3>5, <4>1, <4>3 DEF h
    <3>6. CASE ~(Len(pushed) > MaxVersions)
      BY <3>1, <3>2, <3>3, <3>4, <3>6 DEF h
    <3> QED
      BY <3>5, <3>6
  <2> QED
    BY <2>4, <2>5
<1>7. ASSUME NEW g \in Files \ touched' PROVE Follows(Append(past'[g], fs'[g]), undo'[g])
  BY <1>2, <1>5, <1>6
<1>8. ASSUME NEW g \in Files \ touched', g \in editing' PROVE Recorded(g)'
  <2>1. g = f
    BY <1>2, <1>8
  <2> QED
    BY <1>2, <1>6, <2>1 DEF Recorded
<1> QED
  BY <1>2, <1>7, <1>8 DEF Versions

(* A write, a failed one or an interrupted one.                            *)
LEMMA WrittenVersions ==
    ASSUME IInv, Versions, NEW f \in Files, NEW content \in Version, pc = "edit", f \in editing,
           Written(f, content), editing' = {}, UNCHANGED <<undo, touched>>
    PROVE  Versions'
<1>1. Typed /\ fs \in [Files -> Version] /\ past \in [Files -> Seq(Version)]
  BY DEF IInv, Typed, Disk
<1>2. ASSUME NEW g \in Files \ touched PROVE Follows(Append(past[g], fs[g]), undo[g])
  BY DEF Versions, Restoring
<1>3. /\ fs' = [fs EXCEPT ![f] = content]
      /\ past' = IF content = fs[f] THEN past ELSE [past EXCEPT ![f] = Append(@, fs[f])]
  BY DEF Written
<1>4. ASSUME NEW g \in Files \ touched, g # f \/ content = fs[f]
      PROVE  Follows(Append(past'[g], fs'[g]), undo'[g])
  <2>1. past'[g] = past[g] /\ fs'[g] = fs[g]
    BY <1>1, <1>3, <1>4
  <2> QED
    BY <1>2, <2>1
<1>5. ASSUME f \notin touched, content # fs[f]
      PROVE  Follows(Append(past'[f], fs'[f]), undo'[f])
  <2> DEFINE h == Append(past[f], fs[f])
  <2>1. past'[f] = h /\ fs'[f] = content
    BY <1>1, <1>3, <1>5
  <2>2. h \in Seq(Version) /\ h # <<>> /\ Last(h) = fs[f] /\ undo[f] \in Seq(Version)
    BY <1>1, HeldTyped
  <2>3. Follows(h, undo[f])
    BY <1>2, <1>5
  <2>4. fs[f] \in Oversize \/ (undo[f] # <<>> /\ Last(undo[f]) = fs[f])
    BY <1>5 DEF Versions, Recorded
  <2> HIDE DEF h
  <2>5. Follows(Append(h, content), undo[f])
    BY <2>2, <2>3, <2>4, FollowsWrite
  <2> QED
    BY <2>1, <2>5
<1>6. ASSUME NEW g \in Files \ touched' PROVE Follows(Append(past'[g], fs'[g]), undo'[g])
  BY <1>4, <1>5
<1> QED
  BY <1>6 DEF Versions

(* What restore_file puts back, and what is left to go back to.            *)
LEMMA RestoredFollows ==
    ASSUME IInv, Versions, NEW f \in Files \ touched, NEW confirmed, RestoreFile(f, confirmed),
           ~UNCHANGED <<fs, undo, past, blind>>
    PROVE  /\ Follows(Append(past'[f], fs'[f]), undo'[f])
           /\ fs'[f] # fs[f] =>
                 \E i \in DOMAIN past[f] :
                    /\ past[f][i] = fs'[f] /\ fs'[f] \notin Oversize
                    /\ \A j \in DOMAIN past[f] : j > i => past[f][j] \in Oversize \union {fs[f]}
<1> DEFINE h == Append(past[f], fs[f])
           s == undo[f]
           v == Last(s)
<1>1. Typed /\ fs \in [Files -> Version] /\ past \in [Files -> Seq(Version)]
      /\ undo \in [Files -> Seq(Version \ Oversize)]
  BY DEF IInv, Typed, Disk
<1>2. /\ pc = "tools" /\ s # <<>>
      /\ fs' = [fs EXCEPT ![f] = v]
      /\ undo' = [undo EXCEPT ![f] = Front(@)]
      /\ past' = [past EXCEPT ![f] = PastAfterRestore(f, v)]
  BY DEF RestoreFile, Newest
<1>3. fs'[f] = v /\ undo'[f] = Front(s) /\ past'[f] = PastAfterRestore(f, v)
  BY <1>1, <1>2
<1>4. /\ h \in Seq(Version) /\ h # <<>> /\ Last(h) = fs[f] /\ fs[f] \in Version
      /\ past[f] \in Seq(Version) /\ s \in Seq(Version \ Oversize) /\ s \in Seq(Version)
  BY <1>1, HeldTyped
<1>5. Follows(h, s)
  BY <1>2 DEF Versions, Restoring
<1>6. CASE v = fs[f]
  <2>1. past'[f] = past[f]
    BY <1>3, <1>6 DEF PastAfterRestore
  <2> HIDE DEF h, s
  <2>2. PICK pos \in [1..Len(s) -> 1..Len(h)] : Aligned(h, s, pos) /\ pos[Len(s)] = Len(h)
    BY <1>2, <1>4, <1>5, <1>6, FollowsToTheEnd
  <2>3. Follows(SubSeq(h, 1, pos[Len(s)]), Front(s))
    BY <1>2, <1>4, <2>2, FollowsPop
  <2>4. SubSeq(h, 1, Len(h)) = h
    BY <1>4
  <2>5. Follows(h, Front(s))
    BY <2>2, <2>3, <2>4
  <2> QED
    BY <1>3, <1>6, <2>1, <2>5 DEF h
<1>7. CASE v # fs[f]
  <2> HIDE DEF s
  <2>1. PICK i \in 1..Len(past[f]) :
           /\ past[f][i] = v /\ i = LastAt(past[f], v)
           /\ \A j \in 1..Len(past[f]) : j > i => past[f][j] \in Oversize \union {fs[f]}
           /\ Follows(Append(SubSeq(past[f], 1, i - 1), v), Front(s))
    BY <1>2, <1>4, <1>5, <1>7, BackTo
  <2>2. DOMAIN past[f] = 1..Len(past[f])
    BY <1>4
  <2>3. past'[f] = SubSeq(past[f], 1, i - 1)
    BY <1>3, <1>7, <2>1, <2>2 DEF PastAfterRestore
  <2>4. v \notin Oversize
    <3>1. Len(s) \in Nat /\ Len(s) > 0
      BY <1>2, <1>4
    <3>2. s[Len(s)] \in Version \ Oversize
      BY <1>4, <3>1
    <3> QED
      BY <3>2 DEF Last
  <2> HIDE DEF v
  <2> QED
    BY <1>3, <2>1, <2>2, <2>3, <2>4
<1> QED
  BY <1>6, <1>7

LEMMA RestoreFileVersions ==
    ASSUME IInv, Versions, NEW f \in Files, NEW confirmed, RestoreFile(f, confirmed)
    PROVE  Versions'
<1>1. pc = "tools" /\ pc' = "tools" /\ editing' = editing /\ touched' = touched
  BY DEF RestoreFile
<1>2. CASE UNCHANGED <<fs, undo, past, blind>>
  BY <1>1, <1>2, ElsewhereKeepsVersions
<1>3. CASE ~UNCHANGED <<fs, undo, past, blind>>
  <2>1. \E v, w : /\ fs' = [fs EXCEPT ![f] = v]
                  /\ undo' = [undo EXCEPT ![f] = Front(@)]
                  /\ past' = [past EXCEPT ![f] = w]
    BY <1>3 DEF RestoreFile
  <2>2. /\ fs \in [Files -> Version] /\ past \in [Files -> Seq(Version)]
        /\ undo \in [Files -> Seq(Version \ Oversize)]
    BY DEF IInv, Typed, Disk
  <2>3. \A g \in Files : g # f => fs'[g] = fs[g] /\ past'[g] = past[g] /\ undo'[g] = undo[g]
    BY <2>1, <2>2
  <2>4. ASSUME NEW g \in Files \ touched PROVE Follows(Append(past'[g], fs'[g]), undo'[g])
    <3>1. CASE g = f
      BY <1>3, <3>1, RestoredFollows
    <3>2. CASE g # f
      <4>1. Follows(Append(past[g], fs[g]), undo[g])
        BY <1>1 DEF Versions, Restoring
      <4> QED
        BY <2>3, <3>2, <4>1
    <3> QED
      BY <3>1, <3>2
  <2>5. editing = {}
    BY <1>1 DEF Versions
  <2> QED
    BY <1>1, <2>4, <2>5 DEF Versions
<1> QED
  BY <1>2, <1>3

(* A rewind puts files back behind the stacks, and clears those at its end; *)
(* one that fails leaves its files to themselves.                          *)
LEMMA RewindVersions ==
    ASSUME IInv, Versions, (\E failed : BeginRewind(failed)) \/ EndRewind \/ RewindFails
    PROVE  Versions'
<1>1. Typed /\ Placed
  BY DEF IInv
<1>2. ASSUME NEW failed, BeginRewind(failed) PROVE Versions'
  <2>1. /\ pc = "idle" /\ pc' = "cutting" /\ cut'.slot = panel.slot
        /\ fs' = IF panel.confirming THEN Restored(panel.slot, failed) ELSE fs
        /\ UNCHANGED <<editing, checkpoints, undo, panel, past, touched>>
    BY <1>2 DEF BeginRewind
  <2>2. ASSUME NEW f \in Files \ touched, ~Restoring(f)'
        PROVE  Follows(Append(past'[f], fs'[f]), undo'[f])
    <3>1. ~(panel.confirming /\ KnownAt(panel.slot, f))
      BY <2>1, <2>2 DEF Restoring, KnownAt, CheckpointsAt
    <3>2. fs'[f] = fs[f]
      BY <1>1, <2>1, <3>1, RestoredTyped
    <3>3. Follows(Append(past[f], fs[f]), undo[f])
      BY <2>1 DEF Versions, Restoring
    <3> QED
      BY <2>1, <3>2, <3>3
  <2>3. editing = {}
    BY <2>1 DEF Versions
  <2> QED
    BY <2>1, <2>2, <2>3 DEF Versions
<1>3. CASE EndRewind
  <2>1. /\ pc = "cutting" /\ pc' = "idle" /\ undo' = [f \in Files |-> <<>>]
        /\ UNCHANGED <<editing, fs, past, touched>>
    BY <1>3 DEF EndRewind, files
  <2>2. ASSUME NEW f \in Files PROVE Follows(Append(past'[f], fs'[f]), undo'[f])
    <3>1. undo'[f] = <<>>
      BY <2>1
    <3> QED
      BY <1>1, <2>1, <3>1, HeldTyped, FollowsNothing
  <2>3. editing = {}
    BY <2>1 DEF Versions
  <2> QED
    BY <2>1, <2>2, <2>3 DEF Versions
<1>4. CASE RewindFails
  <2>1. /\ pc = "cutting" /\ pc' = "idle"
        /\ touched' = touched \union {f \in Files : panel.confirming /\ KnownAt(cut.slot, f)}
        /\ UNCHANGED <<editing, fs, undo, past>>
    BY <1>4 DEF RewindFails
  <2>2. ASSUME NEW f \in Files \ touched' PROVE Follows(Append(past'[f], fs'[f]), undo'[f])
    <3>1. f \in Files \ touched /\ ~Restoring(f)
      BY <2>1 DEF Restoring
    <3> QED
      BY <2>1, <3>1 DEF Versions
  <2>3. editing = {}
    BY <2>1 DEF Versions
  <2> QED
    BY <2>1, <2>2, <2>3 DEF Versions
<1> QED
  BY <1>2, <1>3, <1>4

LEMMA VersionsStep == ASSUME IInv, Versions, [Next]_vars PROVE Versions'
<1>1. Typed
  BY DEF IInv
<1>2. CASE Turn
  <2>1. /\ pc \in {"idle", "round", "tools"} /\ pc' \in {"idle", "round", "tools"}
        /\ editing' = editing /\ UNCHANGED <<fs, past, undo, touched>>
    BY <1>2 DEF Turn, Prompt, Inject, StopTurn, AskTools, Answer, CloseBatch, files
  <2> QED
    BY <2>1, ElsewhereKeepsVersions
<1>3. CASE OtherTool
  <2>1. pc = "tools" /\ pc' = "tools" /\ UNCHANGED <<fs, past, undo, touched, editing>>
    BY <1>3 DEF OtherTool, files
  <2> QED
    BY <2>1, ElsewhereKeepsVersions
<1>4. ASSUME NEW f \in Files, StartEdit(f) PROVE Versions'
  BY <1>4, StartEditVersions
<1>5. ASSUME NEW f \in Files, NEW v \in Version, EndEdit(f, v) PROVE Versions'
  BY <1>5, WrittenVersions DEF EndEdit
<1>6. ASSUME NEW f \in Files, NEW v \in Version, NEW answered \in BOOLEAN, CutEdit(f, v, answered)
      PROVE  Versions'
  BY <1>6, WrittenVersions DEF CutEdit
<1>7. ASSUME NEW f \in Files, NEW confirmed \in BOOLEAN, RestoreFile(f, confirmed) PROVE Versions'
  BY <1>7, RestoreFileVersions
<1>8. CASE (\E t \in Targets : SelectTarget(t)) \/ AskConfirm \/ EscapePanel
  <2>1. pc = "idle" /\ pc' = "idle" /\ UNCHANGED <<fs, past, undo, touched, editing>>
    BY <1>8 DEF SelectTarget, AskConfirm, EscapePanel, files
  <2> QED
    BY <2>1, ElsewhereKeepsVersions
<1>9. CASE (\E failed \in SUBSET Files : BeginRewind(failed)) \/ EndRewind \/ RewindFails
  BY <1>9, RewindVersions
<1>10. ASSUME NEW kept \in {<<>>, <<Says("summary")>>}, ResetConversation(kept) PROVE Versions'
  <2>1. /\ pc \in {"idle", "round"} /\ pc' = pc /\ editing' = editing /\ fs' = fs
        /\ undo' = [f \in Files |-> <<>>] /\ past' = [f \in Files |-> <<>>]
    BY <1>10 DEF ResetConversation
  <2>2. ASSUME NEW f \in Files PROVE Follows(Append(past'[f], fs'[f]), undo'[f])
    <3>1. past'[f] = <<>> /\ undo'[f] = <<>> /\ fs'[f] \in Version
      BY <1>1, <2>1 DEF Typed, Disk
    <3>2. Append(<<>>, fs'[f]) \in Seq(Version) /\ Append(<<>>, fs'[f]) # <<>>
      BY <3>1
    <3> QED
      BY <3>1, <3>2, FollowsNothing
  <2>3. editing = {}
    BY <2>1 DEF Versions
  <2> QED
    BY <2>1, <2>2, <2>3 DEF Versions
<1>11. ASSUME NEW f \in Files, OutsideEdit(f) PROVE Versions'
  <2>1. /\ touched' = touched \union {f} /\ \E v : fs' = [fs EXCEPT ![f] = v]
        /\ UNCHANGED <<pc, editing, checkpoints, undo, panel, cut, past>>
    BY <1>11 DEF OutsideEdit, rewinding
  <2>2. \A g \in Files \ touched' : g \in Files \ touched /\ fs'[g] = fs[g]
    BY <1>1, <2>1 DEF Typed, Disk
  <2>3. \A g \in Files : Restoring(g)' <=> Restoring(g)
    BY <2>1 DEF Restoring, KnownAt, CheckpointsAt
  <2>4. ASSUME NEW g \in Files \ touched', ~Restoring(g)'
        PROVE  Follows(Append(past'[g], fs'[g]), undo'[g])
    BY <2>1, <2>2, <2>3, <2>4 DEF Versions
  <2>5. ASSUME NEW g \in Files \ touched', g \in editing' PROVE Recorded(g)'
    BY <2>1, <2>2, <2>5 DEF Versions, Recorded
  <2>6. (pc # "edit" => editing = {})'
    BY <2>1 DEF Versions
  <2> QED
    BY <2>4, <2>5, <2>6 DEF Versions
<1>12. CASE UNCHANGED vars
  <2>1. UNCHANGED <<pc, editing, checkpoints, fs, undo, panel, cut, past, touched>>
    BY <1>12 DEF vars
  <2>2. \A g \in Files : (Restoring(g)' <=> Restoring(g)) /\ (Recorded(g)' <=> Recorded(g))
    BY <2>1 DEF Restoring, Recorded, KnownAt, CheckpointsAt
  <2> QED
    BY <2>1, <2>2 DEF Versions
<1> QED
  BY <1>2, <1>3, <1>4, <1>5, <1>6, <1>7, <1>8, <1>9, <1>10, <1>11, <1>12 DEF Next, Tool, Panel

(* restore_file goes back one edit, for any files, contents, bound on the   *)
(* stack and sequence of edits, failed edits, stops, undos and rewinds: it  *)
(* never brings back a content that a later one, not too large and not what *)
(* the file holds, came after.                                              *)
THEOREM GoesBackOne == Spec => UndoGoesBackOne
<1> DEFINE A == \A f \in Files \ touched' :
                   (pc = "tools" /\ pc' = "tools" /\ fs'[f] # fs[f])
                      => \E i \in DOMAIN past[f] :
                            /\ past[f][i] = fs'[f] /\ fs'[f] \notin Oversize
                            /\ \A j \in DOMAIN past[f] :
                                  j > i => past[f][j] \in Oversize \union {fs[f]}
<1>1. Init => Versions
  BY VersionsStart
<1>2. IInv /\ Versions /\ [Next]_vars => Versions'
  BY VersionsStep
<1>3. IInv /\ Versions /\ [Next]_vars => [A]_vars
  <2> SUFFICES ASSUME IInv, Versions, Next, NEW f \in Files \ touched',
                      pc = "tools", pc' = "tools", fs'[f] # fs[f]
               PROVE  \E i \in DOMAIN past[f] :
                         /\ past[f][i] = fs'[f] /\ fs'[f] \notin Oversize
                         /\ \A j \in DOMAIN past[f] :
                               j > i => past[f][j] \in Oversize \union {fs[f]}
    OBVIOUS
  <2>1. fs \in [Files -> Version]
    BY DEF IInv, Typed, Disk
  <2>2. ASSUME NEW g \in Files, NEW confirmed \in BOOLEAN, RestoreFile(g, confirmed)
        PROVE  /\ g = f /\ f \notin touched /\ ~UNCHANGED <<fs, undo, past, blind>>
    <3>1. touched' = touched /\ (fs' = fs \/ \E v : fs' = [fs EXCEPT ![g] = v])
      BY <2>2 DEF RestoreFile
    <3> QED
      BY <2>1, <3>1
  <2>3. ~ \E g \in Files : OutsideEdit(g)
    <3>1. ASSUME NEW g \in Files, OutsideEdit(g) PROVE FALSE
      <4>1. touched' = touched \union {g} /\ \E v : fs' = [fs EXCEPT ![g] = v]
        BY <3>1 DEF OutsideEdit
      <4> QED
        BY <2>1, <4>1
    <3> QED
      BY <3>1
  <2>4. /\ ~Turn /\ ~OtherTool
        /\ \A kept : ~ResetConversation(kept)
    BY DEF Turn, Prompt, Inject, StopTurn, AskTools, Answer, CloseBatch, OtherTool, files,
           ResetConversation
  <2>5. /\ \A g, v, answered : ~StartEdit(g) /\ ~EndEdit(g, v) /\ ~CutEdit(g, v, answered)
        /\ ~Panel
    BY DEF StartEdit, EndEdit, CutEdit, Panel, SelectTarget, AskConfirm, EscapePanel,
           BeginRewind, EndRewind, RewindFails
  <2>6. PICK g \in Files, confirmed \in BOOLEAN : RestoreFile(g, confirmed)
    BY <2>3, <2>4, <2>5 DEF Next, Tool
  <2>7. RestoreFile(f, confirmed) /\ f \in Files \ touched /\ ~UNCHANGED <<fs, undo, past, blind>>
    BY <2>2, <2>6
  <2> QED
    BY <2>7, RestoredFollows
<1>4. Spec => []IInv
  BY Invariant
<1> HIDE DEF A
<1>5. Spec => [][A]_vars
  BY <1>1, <1>2, <1>3, <1>4, PTL DEF Spec
<1> QED
  BY <1>5 DEF A, UndoGoesBackOne
=============================================================================
