------------------------------ MODULE HashedEdit ------------------------------
(***************************************************************************)
(* hashed_read and the hashed edit tools on one file                       *)
(* (privibe/core/tools/builtins/_hashed_core.py): a line is addressed by   *)
(* its number and the hash of its text, and addresses that earlier edits   *)
(* have moved are followed through recorded shifts.                        *)
(*                                                                         *)
(* A line is a record of its text and its origin, the number it had in the *)
(* last read, 0 if it was written since. The code sees texts only; origins *)
(* say which line is which when texts repeat.                              *)
(***************************************************************************)
EXTENDS Naturals, Integers, Sequences, FiniteSets, Functions, SequencesExt

CONSTANTS
    Texts,       \* texts of lines; a text stands for its hash
    MaxLines,    \* bound: lines of a file when it is read
    MaxNew,      \* bound: lines of one replacement
    MaxCalls,    \* bound: edit calls
    MaxReps,     \* bound: replacements of one call
    MaxPairs,    \* bound: the first calls, which may ask for more than one
    MaxOutside,  \* bound: changes from outside
    DupWindow    \* _DUP_WINDOW

ASSUME HashedEditAssumption ==
    /\ Texts # {} /\ MaxLines \in Nat \ {0} /\ MaxNew \in Nat
    /\ MaxCalls \in Nat /\ MaxReps \in Nat \ {0} /\ MaxPairs \in Nat /\ MaxOutside \in Nat /\ DupWindow \in Nat

VARIABLES
    seen,     \* the texts the last read returned: the addresses there are
    file,     \* the file on disk
    map,      \* its _ShiftMap, or none
    call,     \* the edit call in flight
    whole,    \* the map, if there is one, has every change since the read
    calls, outside   \* counts

vars == <<seen, file, map, call, whole, calls, outside>>

Textual(lines) == [i \in DOMAIN lines |-> lines[i].text]
New(text) == [text |-> text, origin |-> 0]
AsRead(texts) == [i \in DOMAIN texts |-> [text |-> texts[i], origin |-> i]]

NoMap == [there |-> FALSE, fingerprint |-> <<>>, generations |-> <<>>]
NoCall == [at |-> "idle", lines |-> <<>>, reps |-> {}]

-----------------------------------------------------------------------------
(* Addresses: first and last line, and their hashes.                       *)

AddressOK(r, texts) ==
    /\ 1 <= r.first /\ r.first <= r.last /\ r.last <= Len(texts)
    /\ texts[r.first] = r.head /\ texts[r.last] = r.tail

Meets(edit, first, last) == edit.first <= last /\ first <= edit.last

Refused == [ok |-> FALSE, first |-> 0, last |-> 0]

\* fault: every edit of the call counts
ShiftOfAll(generation, first) ==
    LET shift[n \in 0..Len(generation)] ==
            IF n = 0 THEN 0 ELSE shift[n-1] + generation[n].delta
    IN  shift[Len(generation)]

(* What the first n edits of a generation, which are in ascending order,    *)
(* have moved a line by.                                                    *)
Shifts(generation, first) ==
    LET shift[n \in 0..Len(generation)] ==
            IF n = 0 THEN 0
            ELSE shift[n-1]
                   + IF generation[n].last < first THEN generation[n].delta ELSE 0
    IN  shift

ShiftOf(generation, first) == Shifts(generation, first)[Len(generation)]

(* One generation: rigid past edits above, refused by one that meets it.    *)
Through(at, generation) ==
    IF ~at.ok \/ \E i \in DOMAIN generation : Meets(generation[i], at.first, at.last)
    THEN Refused
    ELSE LET shift == ShiftOf(generation, at.first)
         IN  [ok |-> TRUE, first |-> at.first + shift, last |-> at.last + shift]

Walk(generations, first, last) ==
    LET at[n \in 0..Len(generations)] ==
            IF n = 0 THEN [ok |-> TRUE, first |-> first, last |-> last]
            ELSE Through(at[n-1], generations[n])
    IN  at

(* _translate_interval; refused too when nothing has moved. *)
Translate(generations, first, last) ==
    LET at == Walk(generations, first, last)
    IN  IF at[Len(generations)] = at[0] THEN Refused ELSE at[Len(generations)]

(* What one stale address becomes, with the hashes verified there.          *)
Moved(generations, r) == LET at == Translate(generations, r.first, r.last)
                         IN  [r EXCEPT !.first = at.first, !.last = at.last]
Followed(generations, r, texts) ==
    IF AddressOK(r, texts) THEN r ELSE Moved(generations, r)

(* translate_stale_addresses: all of them, or none and the map is dropped.  *)
Trusted(texts) == map.there /\ map.fingerprint = texts
Repointed(reps, texts) == {Followed(map.generations, r, texts) : r \in reps}
AllFollowed(reps, texts) == \A r \in Repointed(reps, texts) : AddressOK(r, texts)

-----------------------------------------------------------------------------
(* Replacements: resolve_replacements, prepare_replacements and the splice. *)

Disjoint(reps) == \A r, q \in reps : r # q => r.last < q.first \/ q.last < r.first

Covered(reps) == UNION {r.first..r.last : r \in reps}

Longest(lengths) == CHOOSE k \in lengths \union {0} : \A m \in lengths : m <= k

(* Leading new lines that repeat the untouched lines just above.            *)
DupPrefix(new, texts, covered, first) ==
    Longest({k \in 1..DupWindow :
        /\ k < Len(new) /\ k < first
        /\ \A i \in (first - k)..(first - 1) : i \notin covered
        /\ SubSeq(new, 1, k) = SubSeq(texts, first - k, first - 1)})

(* The same below, for what the cut above has left.                         *)
DupSuffix(new, texts, covered, last) ==
    Longest({k \in 1..DupWindow :
        /\ k < Len(new) /\ last + k <= Len(texts)
        /\ \A i \in (last + 1)..(last + k) : i \notin covered
        /\ SubSeq(new, Len(new) - k + 1, Len(new)) = SubSeq(texts, last + 1, last + k)})

Prepared(r, reps, texts) ==
    LET lead == DupPrefix(r.new, texts, Covered(reps), r.first)
        kept == SubSeq(r.new, lead + 1, Len(r.new))
        trail == DupSuffix(kept, texts, Covered(reps), r.last)
    IN  [r EXCEPT !.new = SubSeq(kept, 1, Len(kept) - trail)]

Replace(lines, r) ==
    SubSeq(lines, 1, r.first - 1)
      \o [i \in DOMAIN r.new |-> New(r.new[i])]
      \o SubSeq(lines, r.last + 1, Len(lines))

(* prepared_asc *)
Ascending(reps) ==
    CHOOSE asc \in Surjection(1..Cardinality(reps), reps) :
        \A i, j \in DOMAIN asc : i < j => asc[i].first < asc[j].first

\* fault: from the top, with numbers the first splice has moved
TopDown(reps) == Ascending(reps)

(* prepared_desc *)
BottomUp(reps) == Reverse(Ascending(reps))

Splices(lines, reps) ==
    LET done[n \in 0..Cardinality(reps)] ==
            IF n = 0 THEN lines ELSE Replace(done[n-1], BottomUp(reps)[n])
    IN  done

Spliced(lines, reps) == Splices(lines, reps)[Cardinality(reps)]

(* record_shift_generation: also edits that move nothing.                   *)
EditOf(r) == [first |-> r.first, last |-> r.last,
              delta |-> Len(r.new) - (r.last - r.first + 1)]
Generation(reps) == [i \in DOMAIN Ascending(reps) |-> EditOf(Ascending(reps)[i])]

-----------------------------------------------------------------------------
Files == UNION {[1..n -> Texts] : n \in 1..MaxLines}

Init ==
    /\ seen \in Files
    /\ file = AsRead(seen)
    /\ map = NoMap /\ call = NoCall
    /\ whole = TRUE
    /\ calls = 0 /\ outside = 0

(* hashed_read of the whole file: addresses and map start again.            *)
Read ==
    /\ call = NoCall /\ Len(file) \in 1..MaxLines
    /\ seen' = Textual(file)
    /\ file' = AsRead(seen')
    /\ map' = NoMap /\ whole' = TRUE
    /\ UNCHANGED <<call, calls, outside>>

(* A person or another program writes the file: a line is added or goes,    *)
(* also while a call is about to write over it.                             *)
Outside(i) ==
    /\ outside < MaxOutside /\ outside' = outside + 1
    /\ file' \in {RemoveAt(file, i)} \union {InsertAt(file, i, New(text)) : text \in Texts}
    /\ whole' = FALSE
    /\ UNCHANGED <<seen, map, call, calls>>

(* An edit call comes with addresses from the last read, and reads the file. *)
Address(first, last, new) ==
    [first |-> first, last |-> last, head |-> seen[first], tail |-> seen[last], new |-> new]

Load(reps) ==
    /\ call = NoCall /\ calls < MaxCalls
    /\ call' = [at |-> "loaded", lines |-> file, reps |-> reps]
    /\ calls' = calls + 1
    /\ UNCHANGED <<seen, file, map, whole, outside>>

(* What the call comes to: addresses, verdict and prepared replacements.    *)
Loaded == Textual(call.lines)
Resolved == IF Trusted(Loaded) /\ AllFollowed(call.reps, Loaded)
            THEN Repointed(call.reps, Loaded) ELSE call.reps
Accepted == /\ Cardinality(Resolved) = Cardinality(call.reps) /\ Disjoint(Resolved)
            /\ \A r \in Resolved : AddressOK(r, Loaded)
Edits == {Prepared(r, Resolved, Loaded) : r \in Resolved}

Kept == IF Trusted(Loaded) /\ AllFollowed(call.reps, Loaded) THEN map ELSE NoMap

(* Validated against what was loaded, written over what is there.           *)
Write ==
    /\ call.at = "loaded" /\ Accepted
    /\ file' = Spliced(call.lines, Edits)
    /\ map' = [there |-> TRUE, fingerprint |-> Textual(file'),
               generations |-> Append(Kept.generations, Generation(Edits))]
    /\ whole' = (whole /\ Kept = map)
    /\ call' = NoCall
    /\ UNCHANGED <<seen, calls, outside>>

(* "File may have changed since last hashed_read. Re-read and retry."        *)
Refuse ==
    /\ call.at = "loaded" /\ ~Accepted
    /\ map' = Kept
    /\ whole' = (whole /\ Kept = map)
    /\ call' = NoCall
    /\ UNCHANGED <<seen, file, calls, outside>>

(* The write fails, or the call is interrupted in it: with the file written,*)
(* perhaps, and no generation recorded.                                     *)
Cut(landed) ==
    /\ call.at = "loaded" /\ Accepted
    /\ file' = IF landed THEN Spliced(call.lines, Edits) ELSE file
    /\ map' = Kept
    /\ whole' = (whole /\ Kept = map /\ ~landed)
    /\ call' = NoCall
    /\ UNCHANGED <<seen, calls, outside>>

NewTexts == UNION {[1..n -> Texts] : n \in 0..MaxNew}
Intervals == {i \in (1..Len(seen)) \X (1..Len(seen)) : i[1] <= i[2]}
Requests == {Address(i[1], i[2], new) : i \in Intervals, new \in NewTexts}

Next ==
    \/ Read
    \/ \E i \in DOMAIN file : Outside(i)
    \/ \E n \in 1..(IF calls < MaxPairs THEN MaxReps ELSE 1) :
          \E asked \in [1..n -> Requests] : Load(Range(asked))
    \/ Write \/ Refuse
    \/ \E landed \in BOOLEAN : Cut(landed)

Spec == Init /\ [][Next]_vars

-----------------------------------------------------------------------------
(* Where the lines first..last of the read are now, if all of them are      *)
(* there, together and untouched, and not where they were.                  *)
Whereabouts(first, last) ==
    LET places == {p \in 1..(Len(file) - (last - first)) :
                      \A k \in 0..(last - first) : file[p + k].origin = first + k}
    IN  IF places \subseteq {first} THEN Refused
        ELSE [ok |-> TRUE, first |-> Longest(places), last |-> Longest(places) + last - first]

(* "deterministically re-pointed at its moved line": while the map has      *)
(* every change since the read, an address is followed to the very lines    *)
(* that were read, whatever the texts around them, and one whose lines were *)
(* rewritten, split or joined is refused.                                   *)
TranslationIsExact ==
    whole /\ Trusted(Textual(file)) =>
        \A i \in Intervals :
            Translate(map.generations, i[1], i[2]) = Whereabouts(i[1], i[2])

(* An edit call writes what it was asked to, where it was resolved to: all  *)
(* its replacements land in one go, the other lines stay as they were, in   *)
(* order, and no replacement becomes a deletion.                            *)
MovedBy(i) == ShiftOf(Generation(Edits), i)
OnlyAddressedChange ==
    [][Write =>
        /\ Len(file') = Len(call.lines) + MovedBy(Len(call.lines) + 1)
        /\ \A i \in DOMAIN call.lines \ Covered(Edits) :
              file'[i + MovedBy(i)] = call.lines[i]
        /\ \A r \in Edits :
              /\ \A k \in DOMAIN r.new : file'[r.first + MovedBy(r.first) + k - 1] = New(r.new[k])
              /\ \E g \in call.reps : r.head = g.head /\ r.tail = g.tail
                                      /\ (g.new = <<>> <=> r.new = <<>>)]_vars
=============================================================================
