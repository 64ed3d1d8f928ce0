--------------------------- MODULE HashedEditProofs ---------------------------
(***************************************************************************)
(* That stale addresses are followed to the very lines that were read, and *)
(* that a call changes the addressed lines and no others, for files of any *)
(* length, any number of calls, and any number of replacements in a call.  *)
(***************************************************************************)
EXTENDS HashedEdit, FiniteSetTheorems, SequenceTheorems, WellFoundedInduction, TLAPS

Line == [text : Texts, origin : Nat]
Replacement == [first : Int, last : Int, head : Texts, tail : Texts, new : Seq(Texts)]
Edit == [first : Int, last : Int, delta : Int]

Typed ==
    /\ seen \in Seq(Texts) /\ file \in Seq(Line)
    /\ map \in [there : BOOLEAN, fingerprint : Seq(Texts), generations : Seq(Seq(Edit))]
    /\ call \in [at : {"idle", "loaded"}, lines : Seq(Line), reps : SUBSET Replacement]
    /\ whole \in BOOLEAN /\ calls \in Nat /\ outside \in Nat

-----------------------------------------------------------------------------
(* Numbers, and the functions that are defined by recursion.               *)

(* A set of numbers that is not empty has a least one. *)
LEMMA Least ==
    ASSUME NEW T \in SUBSET Nat, T # {} PROVE \E m \in T : \A k \in T : m <= k
<1> DEFINE R == {ss \in Nat \X Nat : ss[1] < ss[2]}
<1>1. IsWellFoundedOn(R, Nat)
  BY NatLessThanWellFounded DEF OpToRel
<1>2. \A x, y \in Nat : x < y => <<x, y>> \in R
  OBVIOUS
<1> HIDE DEF R
<1>3. PICK m \in T : \A k \in T : ~ (<<k, m>> \in R)
  BY <1>1, WFMin
<1>4. \A k \in T : ~ (k < m)
  BY <1>2, <1>3
<1> QED
  BY <1>4

(* What holds at 0, and at n + 1 whenever at n, holds up to N.              *)
LEMMA UpTo ==
    ASSUME NEW N \in Nat, NEW T, 0 \in T, \A n \in 0..(N - 1) : n \in T => n + 1 \in T
    PROVE  0..N \subseteq T
<1> DEFINE F == {n \in 0..N : n \notin T}
<1> SUFFICES ASSUME F # {} PROVE FALSE
  OBVIOUS
<1>1. F \in SUBSET Nat
  OBVIOUS
<1>2. PICK m \in F : \A k \in F : m <= k
  <2> HIDE DEF F
  <2> QED
    BY <1>1, Least
<1>3. m \in 1..N /\ m - 1 \in 0..(N - 1) /\ m - 1 \in 0..N /\ ~(m <= m - 1) /\ (m - 1) + 1 = m
  BY <1>2
<1>4. m - 1 \in T
  BY <1>2, <1>3
<1> QED
  BY <1>2, <1>3, <1>4

(* The shifts of a generation are what their equation says.                *)
ShiftRule(f, generation, first, N) ==
    f = [n \in 0..N |-> IF n = 0 THEN 0
                        ELSE f[n-1] + IF generation[n].last < first
                                      THEN generation[n].delta ELSE 0]

LEMMA ShiftsExist ==
    ASSUME NEW generation, NEW first, NEW N \in Nat
    PROVE  \E f : ShiftRule(f, generation, first, N)
<1> DEFINE Body(f, n) == IF n = 0 THEN 0
              ELSE f[n-1] + IF generation[n].last < first THEN generation[n].delta ELSE 0
           T == {m \in 0..N : \E f : ShiftRule(f, generation, first, m)}
<1>1. 0 \in T
  <2> DEFINE h == [n \in 0..0 |-> 0]
  <2>1. h = [n \in 0..0 |-> Body(h, n)]
    OBVIOUS
  <2>2. ShiftRule(h, generation, first, 0)
    BY <2>1 DEF ShiftRule
  <2> HIDE DEF h
  <2> QED
    BY <2>2
<1>2. ASSUME NEW m \in 0..(N - 1), m \in T PROVE m + 1 \in T
  <2>1. PICK f : ShiftRule(f, generation, first, m)
    BY <1>2
  <2> DEFINE g == [n \in 0..(m + 1) |-> IF n = m + 1 THEN Body(f, m + 1) ELSE f[n]]
  <2>2. ASSUME NEW n \in 0..(m + 1) PROVE g[n] = Body(g, n)
    <3>1. CASE n = m + 1
      <4>1. m + 1 # 0 /\ (m + 1) - 1 = m /\ m \in 0..(m + 1) /\ m # m + 1
        OBVIOUS
      <4>2. g[m] = f[m]
        BY <4>1
      <4>3. g[n] = Body(f, m + 1)
        BY <3>1
      <4> QED
        BY <3>1, <4>1, <4>2, <4>3
    <3>2. CASE n # m + 1
      <4>1. n \in 0..m /\ (n # 0 => n - 1 \in 0..(m + 1) /\ n - 1 # m + 1)
        BY <3>2
      <4>2. g[n] = f[n] /\ (n # 0 => g[n-1] = f[n-1])
        BY <3>2, <4>1
      <4>3. f[n] = Body(f, n)
        BY <2>1, <4>1 DEF ShiftRule
      <4>4. Body(f, n) = Body(g, n)
        BY <4>2
      <4> QED
        BY <4>2, <4>3, <4>4
    <3> QED
      BY <3>1, <3>2
  <2>3. g = [n \in 0..(m + 1) |-> g[n]]
    OBVIOUS
  <2>4. g = [n \in 0..(m + 1) |-> Body(g, n)]
    <3> HIDE DEF g, Body
    <3> QED
      BY <2>2, <2>3
  <2>5. ShiftRule(g, generation, first, m + 1)
    <3> HIDE DEF g
    <3> QED
      BY <2>4 DEF ShiftRule
  <2>6. m + 1 \in 0..N
    OBVIOUS
  <2> HIDE DEF g
  <2> QED
    BY <2>5, <2>6
<1>3. N \in T
  <2> HIDE DEF T
  <2>1. 0..N \subseteq T
    BY <1>1, <1>2, UpTo
  <2> QED
    BY <2>1
<1> QED
  BY <1>3

LEMMA ShiftsUnfold ==
    ASSUME NEW generation, Len(generation) \in Nat, NEW first
    PROVE  /\ Shifts(generation, first)[0] = 0
           /\ \A n \in 1..Len(generation) : Shifts(generation, first)[n] =
                 Shifts(generation, first)[n-1]
                   + IF generation[n].last < first THEN generation[n].delta ELSE 0
<1> DEFINE N == Len(generation)
           f == Shifts(generation, first)
<1>1. \E h : ShiftRule(h, generation, first, N)
  BY ShiftsExist
<1>2. ShiftRule(f, generation, first, N)
  BY <1>1 DEF Shifts, ShiftRule
<1> HIDE DEF f
<1>3. \A n \in 1..N : n \in 0..N /\ n # 0
  OBVIOUS
<1>4. f[0] = 0
  BY <1>2 DEF ShiftRule
<1>5. \A n \in 1..N : f[n] = f[n-1] + IF generation[n].last < first
                                      THEN generation[n].delta ELSE 0
  BY <1>2, <1>3 DEF ShiftRule
<1> QED
  BY <1>4, <1>5 DEF f

(* So is a walk. *)
WalkRule(f, generations, first, last, N) ==
    f = [n \in 0..N |-> IF n = 0 THEN [ok |-> TRUE, first |-> first, last |-> last]
                        ELSE Through(f[n-1], generations[n])]

LEMMA WalkExists ==
    ASSUME NEW generations, NEW first, NEW last, NEW N \in Nat
    PROVE  \E f : WalkRule(f, generations, first, last, N)
<1> DEFINE Body(f, n) == IF n = 0 THEN [ok |-> TRUE, first |-> first, last |-> last]
              ELSE Through(f[n-1], generations[n])
           T == {m \in 0..N : \E f : WalkRule(f, generations, first, last, m)}
<1>1. 0 \in T
  <2> DEFINE h == [n \in 0..0 |-> [ok |-> TRUE, first |-> first, last |-> last]]
  <2>1. h = [n \in 0..0 |-> Body(h, n)]
    OBVIOUS
  <2>2. WalkRule(h, generations, first, last, 0)
    BY <2>1 DEF WalkRule
  <2> HIDE DEF h
  <2> QED
    BY <2>2
<1>2. ASSUME NEW m \in 0..(N - 1), m \in T PROVE m + 1 \in T
  <2>1. PICK f : WalkRule(f, generations, first, last, m)
    BY <1>2
  <2> DEFINE g == [n \in 0..(m + 1) |-> IF n = m + 1 THEN Body(f, m + 1) ELSE f[n]]
  <2>2. ASSUME NEW n \in 0..(m + 1) PROVE g[n] = Body(g, n)
    <3>1. CASE n = m + 1
      <4>1. m + 1 # 0 /\ (m + 1) - 1 = m /\ m \in 0..(m + 1) /\ m # m + 1
        OBVIOUS
      <4>2. g[m] = f[m]
        BY <4>1
      <4>3. g[n] = Body(f, m + 1)
        BY <3>1
      <4> QED
        BY <3>1, <4>1, <4>2, <4>3
    <3>2. CASE n # m + 1
      <4>1. n \in 0..m /\ (n # 0 => n - 1 \in 0..(m + 1) /\ n - 1 # m + 1)
        BY <3>2
      <4>2. g[n] = f[n] /\ (n # 0 => g[n-1] = f[n-1])
        BY <3>2, <4>1
      <4>3. f[n] = Body(f, n)
        BY <2>1, <4>1 DEF WalkRule
      <4>4. Body(f, n) = Body(g, n)
        BY <4>2
      <4> QED
        BY <4>2, <4>3, <4>4
    <3> QED
      BY <3>1, <3>2
  <2>3. g = [n \in 0..(m + 1) |-> g[n]]
    OBVIOUS
  <2>4. g = [n \in 0..(m + 1) |-> Body(g, n)]
    <3> HIDE DEF g, Body
    <3> QED
      BY <2>2, <2>3
  <2>5. WalkRule(g, generations, first, last, m + 1)
    <3> HIDE DEF g
    <3> QED
      BY <2>4 DEF WalkRule
  <2>6. m + 1 \in 0..N
    OBVIOUS
  <2> HIDE DEF g
  <2> QED
    BY <2>5, <2>6
<1>3. N \in T
  <2> HIDE DEF T
  <2>1. 0..N \subseteq T
    BY <1>1, <1>2, UpTo
  <2> QED
    BY <2>1
<1> QED
  BY <1>3

LEMMA WalkUnfold ==
    ASSUME NEW generations, Len(generations) \in Nat, NEW first, NEW last
    PROVE  WalkRule(Walk(generations, first, last), generations, first, last,
                    Len(generations))
<1>1. \E h : WalkRule(h, generations, first, last, Len(generations))
  BY WalkExists
<1> QED
  BY <1>1 DEF Walk, WalkRule

LEMMA WalkBegins ==
    ASSUME NEW generations, Len(generations) \in Nat, NEW first, NEW last
    PROVE  Walk(generations, first, last)[0] = [ok |-> TRUE, first |-> first, last |-> last]
<1> DEFINE f == Walk(generations, first, last)
<1>1. WalkRule(f, generations, first, last, Len(generations))
  BY WalkUnfold
<1> HIDE DEF f
<1>2. f[0] = [ok |-> TRUE, first |-> first, last |-> last]
  BY <1>1 DEF WalkRule
<1> QED
  BY <1>2 DEF f

LEMMA WalkGoesOn ==
    ASSUME NEW generations, Len(generations) \in Nat, NEW first, NEW last,
           NEW n \in 1..Len(generations)
    PROVE  Walk(generations, first, last)[n] =
              Through(Walk(generations, first, last)[n-1], generations[n])
<1> DEFINE N == Len(generations)
           f == Walk(generations, first, last)
<1>1. WalkRule(f, generations, first, last, N)
  BY WalkUnfold
<1>2. n \in 0..N /\ n # 0
  OBVIOUS
<1> HIDE DEF f, N
<1>3. f[n] = Through(f[n-1], generations[n])
  BY <1>1, <1>2 DEF WalkRule
<1> QED
  BY <1>3 DEF f

(* And the splices of a call. *)
SpliceRule(f, lines, desc, N) ==
    f = [n \in 0..N |-> IF n = 0 THEN lines ELSE Replace(f[n-1], desc[n])]

LEMMA SplicesExist ==
    ASSUME NEW lines, NEW desc, NEW N \in Nat
    PROVE  \E f : SpliceRule(f, lines, desc, N)
<1> DEFINE Body(f, n) == IF n = 0 THEN lines ELSE Replace(f[n-1], desc[n])
           T == {m \in 0..N : \E f : SpliceRule(f, lines, desc, m)}
<1>1. 0 \in T
  <2> DEFINE h == [n \in 0..0 |-> lines]
  <2>1. h = [n \in 0..0 |-> Body(h, n)]
    OBVIOUS
  <2>2. SpliceRule(h, lines, desc, 0)
    BY <2>1 DEF SpliceRule
  <2> HIDE DEF h
  <2> QED
    BY <2>2
<1>2. ASSUME NEW m \in 0..(N - 1), m \in T PROVE m + 1 \in T
  <2>1. PICK f : SpliceRule(f, lines, desc, m)
    BY <1>2
  <2> DEFINE g == [n \in 0..(m + 1) |-> IF n = m + 1 THEN Body(f, m + 1) ELSE f[n]]
  <2>2. ASSUME NEW n \in 0..(m + 1) PROVE g[n] = Body(g, n)
    <3>1. CASE n = m + 1
      <4>1. m + 1 # 0 /\ (m + 1) - 1 = m /\ m \in 0..(m + 1) /\ m # m + 1
        OBVIOUS
      <4>2. g[m] = f[m]
        BY <4>1
      <4>3. g[n] = Body(f, m + 1)
        BY <3>1
      <4> QED
        BY <3>1, <4>1, <4>2, <4>3
    <3>2. CASE n # m + 1
      <4>1. n \in 0..m /\ (n # 0 => n - 1 \in 0..(m + 1) /\ n - 1 # m + 1)
        BY <3>2
      <4>2. g[n] = f[n] /\ (n # 0 => g[n-1] = f[n-1])
        BY <3>2, <4>1
      <4>3. f[n] = Body(f, n)
        BY <2>1, <4>1 DEF SpliceRule
      <4>4. Body(f, n) = Body(g, n)
        BY <4>2
      <4> QED
        BY <4>2, <4>3, <4>4
    <3> QED
      BY <3>1, <3>2
  <2>3. g = [n \in 0..(m + 1) |-> g[n]]
    OBVIOUS
  <2>4. g = [n \in 0..(m + 1) |-> Body(g, n)]
    <3> HIDE DEF g, Body
    <3> QED
      BY <2>2, <2>3
  <2>5. SpliceRule(g, lines, desc, m + 1)
    <3> HIDE DEF g
    <3> QED
      BY <2>4 DEF SpliceRule
  <2>6. m + 1 \in 0..N
    OBVIOUS
  <2> HIDE DEF g
  <2> QED
    BY <2>5, <2>6
<1>3. N \in T
  <2> HIDE DEF T
  <2>1. 0..N \subseteq T
    BY <1>1, <1>2, UpTo
  <2> QED
    BY <2>1
<1> QED
  BY <1>3

LEMMA SplicesUnfold ==
    ASSUME NEW lines, NEW reps, Cardinality(reps) \in Nat
    PROVE  /\ Splices(lines, reps)[0] = lines
           /\ \A n \in 1..Cardinality(reps) : Splices(lines, reps)[n] =
                 Replace(Splices(lines, reps)[n-1], BottomUp(reps)[n])
<1> DEFINE N == Cardinality(reps)
           f == Splices(lines, reps)
<1>1. \E h : SpliceRule(h, lines, BottomUp(reps), N)
  BY SplicesExist
<1>2. SpliceRule(f, lines, BottomUp(reps), N)
  BY <1>1 DEF Splices, SpliceRule
<1> HIDE DEF f
<1>3. \A n \in 1..N : n \in 0..N /\ n # 0
  OBVIOUS
<1>4. f[0] = lines
  BY <1>2 DEF SpliceRule
<1>5. \A n \in 1..N : f[n] = Replace(f[n-1], BottomUp(reps)[n])
  BY <1>2, <1>3 DEF SpliceRule
<1> QED
  BY <1>4, <1>5 DEF f

(* What holds at N, and at n - 1 whenever at n, holds down to 0.            *)
LEMMA DownTo ==
    ASSUME NEW N \in Nat, NEW T, N \in T, \A n \in 1..N : n \in T => n - 1 \in T
    PROVE  0..N \subseteq T
<1> DEFINE U == {n \in 0..N : N - n \in T}
<1>1. 0 \in U
  OBVIOUS
<1>2. ASSUME NEW n \in 0..(N - 1), n \in U PROVE n + 1 \in U
  <2>1. N - n \in 1..N /\ (N - n) - 1 = N - (n + 1) /\ n + 1 \in 0..N
    OBVIOUS
  <2> QED
    BY <1>2, <2>1
<1>3. 0..N \subseteq U
  <2> HIDE DEF U
  <2> QED
    BY <1>1, <1>2, UpTo
<1>4. \A n \in 0..N : N - n \in 0..N /\ N - (N - n) = n
  OBVIOUS
<1> QED
  BY <1>3, <1>4

-----------------------------------------------------------------------------
(* The shifts of a generation. *)

(* The edits of one call to a file of L lines: in order and apart.          *)
Ordered(generation, L) ==
    /\ \A i \in 1..Len(generation) :
          /\ 1 <= generation[i].first /\ generation[i].first <= generation[i].last
          /\ generation[i].last <= L
          /\ generation[i].delta >= generation[i].first - generation[i].last - 1
    /\ \A i, j \in 1..Len(generation) : i < j => generation[i].last < generation[j].first

LEMMA EditTyped ==
    ASSUME NEW generation \in Seq(Edit), NEW i \in 1..Len(generation)
    PROVE  /\ generation[i] \in Edit /\ generation[i].first \in Int
           /\ generation[i].last \in Int /\ generation[i].delta \in Int
<1>1. generation[i] \in Edit
  OBVIOUS
<1> QED
  BY <1>1 DEF Edit

LEMMA ShiftsTyped ==
    ASSUME NEW generation \in Seq(Edit), NEW first
    PROVE  \A n \in 0..Len(generation) : Shifts(generation, first)[n] \in Int
<1> DEFINE N == Len(generation)
           T == {n \in 0..N : Shifts(generation, first)[n] \in Int}
<1>1. N \in Nat
  OBVIOUS
<1>2. 0 \in T
  BY <1>1, ShiftsUnfold
<1>3. ASSUME NEW n \in 0..(N - 1), n \in T PROVE n + 1 \in T
  <2>1. n + 1 \in 1..N /\ (n + 1) - 1 = n /\ n + 1 \in 0..N
    BY <1>1
  <2>2. generation[n + 1].delta \in Int
    BY <2>1, EditTyped
  <2>3. Shifts(generation, first)[n + 1] = Shifts(generation, first)[n]
           + IF generation[n + 1].last < first THEN generation[n + 1].delta ELSE 0
    BY <1>1, <2>1, ShiftsUnfold
  <2> QED
    BY <1>3, <2>1, <2>2, <2>3
<1>4. 0..N \subseteq T
  <2> HIDE DEF T, N
  <2> QED
    BY <1>1, <1>2, <1>3, UpTo
<1> QED
  BY <1>4

(* What the edits after the j-th have moved a line by.                      *)
After(generation, j, first) ==
    Shifts(generation, first)[Len(generation)] - Shifts(generation, first)[j]

LEMMA AfterUnfolds ==
    ASSUME NEW generation \in Seq(Edit), NEW first
    PROVE  /\ \A j \in 0..Len(generation) : After(generation, j, first) \in Int
           /\ After(generation, Len(generation), first) = 0
           /\ After(generation, 0, first) = ShiftOf(generation, first)
           /\ \A j \in 1..Len(generation) : After(generation, j - 1, first) =
                After(generation, j, first)
                  + IF generation[j].last < first THEN generation[j].delta ELSE 0
<1> DEFINE N == Len(generation)
           S == Shifts(generation, first)
<1>1. N \in Nat /\ N \in 0..N
  OBVIOUS
<1>2. \A n \in 0..N : S[n] \in Int
  BY ShiftsTyped
<1>3. S[0] = 0 /\ \A j \in 1..N : S[j] = S[j-1]
                     + IF generation[j].last < first THEN generation[j].delta ELSE 0
  BY <1>1, ShiftsUnfold
<1>4. \A j \in 1..N : generation[j].delta \in Int
  BY EditTyped
<1> HIDE DEF S, N
<1>5. \A j \in 0..N : S[N] - S[j] \in Int
  BY <1>1, <1>2
<1>6. S[N] - S[N] = 0 /\ S[N] - S[0] = S[N]
  BY <1>1, <1>2, <1>3
<1>7. ASSUME NEW j \in 1..N
      PROVE  S[N] - S[j-1] = (S[N] - S[j])
                + IF generation[j].last < first THEN generation[j].delta ELSE 0
  <2>1. j \in 0..N /\ j - 1 \in 0..N
    BY <1>1
  <2>2. S[N] \in Int /\ S[j] \in Int /\ S[j-1] \in Int
    BY <1>1, <1>2, <2>1
  <2> QED
    BY <1>3, <1>4, <2>2
<1> QED
  BY <1>5, <1>6, <1>7 DEF After, ShiftOf, S, N

(* Edits below a line do not move it. *)
LEMMA BelowMovesNothing ==
    ASSUME NEW generation \in Seq(Edit), NEW p \in Int, NEW j \in 0..Len(generation),
           \A k \in (j+1)..Len(generation) : p <= generation[k].last
    PROVE  After(generation, j, p) = 0
<1> DEFINE N == Len(generation)
           T == {n \in 0..N : n >= j => After(generation, n, p) = 0}
<1>1. N \in Nat /\ N \in T
  BY AfterUnfolds
<1>2. ASSUME NEW n \in 1..N, n \in T PROVE n - 1 \in T
  <2>1. SUFFICES ASSUME n - 1 >= j PROVE After(generation, n - 1, p) = 0
    BY <1>1
  <2>2. n \in (j+1)..N /\ n >= j
    BY <1>1, <2>1
  <2>3. p <= generation[n].last /\ generation[n].last \in Int
    BY <2>2, EditTyped
  <2>4. After(generation, n - 1, p) = After(generation, n, p)
           + IF generation[n].last < p THEN generation[n].delta ELSE 0
    BY AfterUnfolds
  <2> QED
    BY <1>2, <2>2, <2>3, <2>4
<1>3. 0..N \subseteq T
  <2> HIDE DEF T, N
  <2> QED
    BY <1>1, <1>2, DownTo
<1> QED
  BY <1>3

(* What is above all edits stays above where they begin. *)
Inside(edit, p) == edit.first < p /\ p <= edit.last

LEMMA StaysAbove ==
    ASSUME NEW generation \in Seq(Edit), NEW L \in Nat, Ordered(generation, L)
    PROVE  \A j \in 0..Len(generation) : \A b, p \in Int :
              ( /\ b <= p
                /\ \A k \in (j+1)..Len(generation) :
                      b <= generation[k].first /\ ~Inside(generation[k], p) )
              => b <= p + After(generation, j, p)
<1> DEFINE N == Len(generation)
           Apart(j, b, p) == b <= p /\ \A k \in (j+1)..N :
                                b <= generation[k].first /\ ~Inside(generation[k], p)
           T == {j \in 0..N : \A b, p \in Int :
                     Apart(j, b, p) => b <= p + After(generation, j, p)}
<1>1. N \in Nat /\ N \in 0..N
  OBVIOUS
<1>2. N \in T
  BY <1>1, AfterUnfolds
<1>3. ASSUME NEW j \in 1..N, j \in T PROVE j - 1 \in T
  <2> SUFFICES ASSUME NEW b \in Int, NEW p \in Int, Apart(j - 1, b, p)
               PROVE  b <= p + After(generation, j - 1, p)
    BY <1>1
  <2>1. /\ After(generation, j, p) \in Int
        /\ After(generation, j - 1, p) = After(generation, j, p)
              + IF generation[j].last < p THEN generation[j].delta ELSE 0
    BY <1>1, AfterUnfolds
  <2>2. /\ generation[j].first \in Int /\ generation[j].last \in Int
        /\ generation[j].delta \in Int
    BY EditTyped
  <2>3. /\ generation[j].first <= generation[j].last
        /\ generation[j].delta >= generation[j].first - generation[j].last - 1
    BY DEF Ordered
  <2>4. j \in ((j-1)+1)..N /\ \A k \in (j+1)..N : k \in ((j-1)+1)..N /\ k \in 1..N /\ j < k
    BY <1>1
  <2>5. b <= generation[j].first /\ ~Inside(generation[j], p) /\ b <= p
    BY <2>4
  <2>6. \A k \in (j+1)..N : generation[k].first \in Int /\ generation[j].last < generation[k].first
    BY <2>4, EditTyped DEF Ordered
  <2>7. CASE p <= generation[j].first
    <3>1. Apart(j, b, p)
      BY <2>4, <2>5
    <3>2. b <= p + After(generation, j, p)
      BY <1>3, <3>1
    <3> QED
      BY <2>1, <2>2, <2>3, <2>7, <3>2
  <2>8. CASE p > generation[j].first
    <3> DEFINE c == generation[j].last + 1
    <3>1. generation[j].last < p
      BY <2>2, <2>5, <2>8 DEF Inside
    <3>2. c \in Int /\ c <= p
      BY <2>2, <3>1
    <3>3. \A k \in (j+1)..N : c <= generation[k].first
      BY <2>2, <2>6
    <3>4. Apart(j, c, p)
      BY <2>4, <3>2, <3>3
    <3>5. c <= p + After(generation, j, p)
      <4> HIDE DEF c
      <4> QED
        BY <1>3, <3>2, <3>4
    <3>6. After(generation, j - 1, p) = After(generation, j, p) + generation[j].delta
      BY <2>1, <3>1
    <3>7. \A x, y, z, d \in Int :
             x + 1 <= p + z /\ d >= y - x - 1 /\ b <= y => b <= p + (z + d)
      OBVIOUS
    <3> QED
      BY <2>1, <2>2, <2>3, <2>5, <3>5, <3>6, <3>7
  <2> QED
    BY <2>2, <2>7, <2>8
<1>4. 0..N \subseteq T
  <2> HIDE DEF T, N
  <2> QED
    BY <1>1, <1>2, <1>3, DownTo
<1> QED
  BY <1>4

-----------------------------------------------------------------------------
(* One replacement. *)

LEMMA FirstPart ==
    ASSUME NEW S, NEW s \in Seq(S), NEW k \in 0..Len(s)
    PROVE  /\ SubSeq(s, 1, k) \in Seq(S) /\ Len(SubSeq(s, 1, k)) = k
           /\ \A i \in 1..k : SubSeq(s, 1, k)[i] = s[i]
<1>1. Len(s) \in Nat /\ k \in Nat /\ k <= Len(s)
  OBVIOUS
<1>2. \A i \in 1..k : s[i] \in S
  BY <1>1
<1>3. /\ SubSeq(s, 1, k) \in Seq(S) /\ Len(SubSeq(s, 1, k)) = IF 1 <= k THEN k - 1 + 1 ELSE 0
      /\ \A i \in 1..(k - 1 + 1) : SubSeq(s, 1, k)[i] = s[1 + i - 1]
  BY <1>1, <1>2, SubSeqProperties
<1>4. k - 1 + 1 = k /\ \A i \in 1..k : 1 + i - 1 = i
  BY <1>1
<1>5. (IF 1 <= k THEN k - 1 + 1 ELSE 0) = k
  BY <1>1
<1> QED
  BY <1>3, <1>4, <1>5

LEMMA LastPart ==
    ASSUME NEW S, NEW s \in Seq(S), NEW k \in 0..Len(s)
    PROVE  /\ SubSeq(s, k + 1, Len(s)) \in Seq(S)
           /\ Len(SubSeq(s, k + 1, Len(s))) = Len(s) - k
           /\ \A i \in 1..(Len(s) - k) : SubSeq(s, k + 1, Len(s))[i] = s[k + i]
<1> DEFINE n == Len(s)
<1>1. n \in Nat /\ k \in Nat /\ k <= n
  OBVIOUS
<1>2. \A i \in (k+1)..n : s[i] \in S
  BY <1>1
<1>3. k + 1 \in Int /\ n \in Int
  BY <1>1
<1>4. /\ SubSeq(s, k + 1, n) \in Seq(S)
      /\ Len(SubSeq(s, k + 1, n)) = IF k + 1 <= n THEN n - (k + 1) + 1 ELSE 0
      /\ \A i \in 1..(n - (k + 1) + 1) : SubSeq(s, k + 1, n)[i] = s[(k + 1) + i - 1]
  BY <1>2, <1>3, SubSeqProperties
<1> HIDE DEF n
<1>5. n - (k + 1) + 1 = n - k /\ \A i \in 1..(n - k) : (k + 1) + i - 1 = k + i
  BY <1>1
<1>6. (IF k + 1 <= n THEN n - (k + 1) + 1 ELSE 0) = n - k
  BY <1>1
<1> QED
  BY <1>4, <1>5, <1>6 DEF n

(* The lines above stay, the new ones come, the lines below move by the    *)
(* difference.                                                             *)
LEMMA ReplaceIs ==
    ASSUME NEW ls \in Seq(Line), NEW r \in Replacement,
           1 <= r.first, r.first <= r.last, r.last <= Len(ls)
    PROVE  LET R == Replace(ls, r)
               d == Len(r.new) - (r.last - r.first + 1)
           IN  /\ R \in Seq(Line) /\ Len(R) = Len(ls) + d
               /\ \A i \in 1..(r.first - 1) : R[i] = ls[i]
               /\ \A i \in 1..Len(r.new) : R[r.first + i - 1] = New(r.new[i])
               /\ \A i \in (r.last + 1)..Len(ls) : R[i + d] = ls[i]
<1> DEFINE above == SubSeq(ls, 1, r.first - 1)
           mid == [i \in DOMAIN r.new |-> New(r.new[i])]
           below == SubSeq(ls, r.last + 1, Len(ls))
           a == r.first - 1
           n == Len(r.new)
           L == Len(ls)
           l == r.last
<1>1. /\ r.first \in Int /\ r.last \in Int /\ r.new \in Seq(Texts)
  BY DEF Replacement
<1>2. L \in Nat /\ n \in Nat
  BY <1>1
<1>3. a \in 0..L /\ l \in 0..L /\ a \in Nat /\ l \in Nat /\ a < l /\ l <= L
  BY <1>1, <1>2
<1>4. /\ above \in Seq(Line) /\ Len(above) = a
      /\ \A i \in 1..a : above[i] = ls[i]
  BY <1>3, FirstPart
<1>5. /\ below \in Seq(Line) /\ Len(below) = L - l
      /\ \A i \in 1..(L - l) : below[i] = ls[l + i]
  BY <1>3, LastPart
<1>6. /\ mid \in Seq(Line) /\ Len(mid) = n
      /\ \A i \in 1..n : mid[i] = New(r.new[i])
  <2>1. DOMAIN r.new = 1..n
    BY <1>1
  <2>2. \A i \in 1..n : r.new[i] \in Texts
    BY <1>1
  <2>3. \A i \in 1..n : New(r.new[i]) \in Line
    BY <2>2 DEF New, Line
  <2>4. mid = [i \in 1..n |-> New(r.new[i])]
    BY <2>1
  <2>5. mid \in [1..n -> Line]
    BY <2>3, <2>4
  <2>6. mid \in Seq(Line)
    BY <1>2, <2>5, SeqDef
  <2> QED
    BY <1>2, <2>4, <2>6
<1>7. Replace(ls, r) = above \o mid \o below
  BY DEF Replace
<1>8. r.first = a + 1 /\ (a + n) + (L - l) = L + (n - (l - r.first + 1))
  BY <1>1, <1>2
<1> HIDE DEF above, mid, below, a, n, L, l
<1> DEFINE top == above \o mid
           R == top \o below
<1>9. /\ top \in Seq(Line) /\ Len(top) = a + n
      /\ \A i \in 1..(a + n) : top[i] = IF i <= a THEN above[i] ELSE mid[i - a]
  <2>1. above \in Seq(Line) /\ mid \in Seq(Line) /\ Len(above) = a /\ Len(mid) = n
    BY <1>4, <1>6
  <2>2. /\ top \in Seq(Line) /\ Len(top) = Len(above) + Len(mid)
        /\ \A i \in 1..(Len(above) + Len(mid)) :
              top[i] = IF i <= Len(above) THEN above[i] ELSE mid[i - Len(above)]
    BY <2>1, ConcatProperties
  <2> HIDE DEF top
  <2> QED
    BY <2>1, <2>2
<1> HIDE DEF top
<1>10. /\ R \in Seq(Line) /\ Len(R) = (a + n) + (L - l)
       /\ \A i \in 1..((a + n) + (L - l)) :
            R[i] = IF i <= a + n THEN top[i] ELSE below[i - (a + n)]
  <2>1. /\ R \in Seq(Line) /\ Len(R) = Len(top) + Len(below)
        /\ \A i \in 1..(Len(top) + Len(below)) :
              R[i] = IF i <= Len(top) THEN top[i] ELSE below[i - Len(top)]
    BY <1>5, <1>9, ConcatProperties
  <2> HIDE DEF R
  <2> QED
    BY <1>5, <1>9, <2>1
<1>11. Replace(ls, r) = R
  BY <1>7 DEF top
<1> HIDE DEF R
<1>12. ASSUME NEW i \in 1..a PROVE R[i] = ls[i]
  <2>1. i \in 1..(a + n) /\ i \in 1..((a + n) + (L - l)) /\ i <= a /\ i <= a + n
    BY <1>2, <1>3
  <2> QED
    BY <1>4, <1>9, <1>10, <2>1
<1>13. ASSUME NEW i \in 1..n PROVE R[(a + 1) + i - 1] = New(r.new[i])
  <2>1. (a + 1) + i - 1 = a + i
    BY <1>3
  <2>2. a + i \in 1..(a + n) /\ a + i \in 1..((a + n) + (L - l)) /\ ~(a + i <= a)
        /\ a + i <= a + n /\ (a + i) - a = i
    BY <1>2, <1>3
  <2> QED
    BY <1>6, <1>9, <1>10, <2>1, <2>2
<1>14. ASSUME NEW i \in (l + 1)..L PROVE R[i + (n - (l - (a + 1) + 1))] = ls[i]
  <2> DEFINE q == i + (n - (l - (a + 1) + 1))
  <2>1. q \in 1..((a + n) + (L - l)) /\ ~(q <= a + n) /\ q - (a + n) \in 1..(L - l)
        /\ l + (q - (a + n)) = i
    BY <1>2, <1>3
  <2> HIDE DEF q
  <2>2. R[q] = ls[i]
    BY <1>5, <1>10, <2>1
  <2> QED
    BY <2>2 DEF q
<1> QED
  BY <1>8, <1>10, <1>11, <1>12, <1>13, <1>14 DEF a, n, L, l

-----------------------------------------------------------------------------
(* The splices of a call, from the bottom up. *)

(* No edit after the j-th covers the line. *)
Free(generation, j, p) ==
    \A k \in (j+1)..Len(generation) : ~(generation[k].first <= p /\ p <= generation[k].last)

(* The edits after the j-th are done: each line they left is where the     *)
(* shifts say and holds what it held, what has an origin is such a line,   *)
(* and the new lines are where their replacements have moved to.           *)
Half(lines, asc, generation, j, ls) ==
    /\ ls \in Seq(Line) /\ Len(ls) = Len(lines) + After(generation, j, Len(lines) + 1)
    /\ \A p \in 1..Len(lines) : Free(generation, j, p) =>
          /\ p + After(generation, j, p) \in 1..Len(ls)
          /\ ls[p + After(generation, j, p)] = lines[p]
    /\ \A q \in 1..Len(ls) : ls[q].origin # 0 =>
          \E p \in 1..Len(lines) : Free(generation, j, p) /\ q = p + After(generation, j, p)
    /\ \A k \in (j+1)..Len(generation) : \A i \in 1..Len(asc[k].new) :
          LET q == asc[k].first + After(generation, j, asc[k].first) + i - 1
          IN  q \in 1..Len(ls) /\ ls[q] = New(asc[k].new[i])

(* The generation that asc is recorded as. *)
Records(generation, asc) ==
    /\ generation \in Seq(Edit) /\ asc \in Seq(Replacement) /\ Len(generation) = Len(asc)
    /\ \A i \in 1..Len(asc) : generation[i] = EditOf(asc[i])

LEMMA RecordIs ==
    ASSUME NEW generation, NEW asc, Records(generation, asc), NEW i \in 1..Len(generation)
    PROVE  /\ asc[i] \in Replacement /\ asc[i].first \in Int /\ asc[i].last \in Int
           /\ asc[i].new \in Seq(Texts) /\ Len(asc[i].new) \in Nat
           /\ generation[i].first = asc[i].first /\ generation[i].last = asc[i].last
           /\ generation[i].delta = Len(asc[i].new) - (asc[i].last - asc[i].first + 1)
<1>1. asc[i] \in Replacement /\ generation[i] = EditOf(asc[i])
  BY DEF Records
<1>2. asc[i].first \in Int /\ asc[i].last \in Int /\ asc[i].new \in Seq(Texts)
  BY <1>1 DEF Replacement
<1> QED
  BY <1>1, <1>2 DEF EditOf

(* Where lines are, next to the edit that is to be done. *)
LEMMA NextToEdit ==
    ASSUME NEW generation \in Seq(Edit), NEW L \in Nat, Ordered(generation, L),
           NEW j \in 1..Len(generation), NEW p \in Int
    PROVE  LET l == generation[j].last
               before == After(generation, j, p)
               now == After(generation, j - 1, p)
           IN  /\ before \in Int /\ now \in Int
               /\ p <= l => before = 0 /\ now = 0
               /\ p > l => now = before + generation[j].delta
               /\ (p > l /\ \A k \in (j+1)..Len(generation) : ~Inside(generation[k], p))
                     => p + before > l
<1> DEFINE N == Len(generation)
           l == generation[j].last
           before == After(generation, j, p)
           now == After(generation, j - 1, p)
<1>1. N \in Nat /\ j \in 0..N /\ j - 1 \in 0..N
  OBVIOUS
<1>2. /\ before \in Int /\ now \in Int
      /\ now = before + IF l < p THEN generation[j].delta ELSE 0
  BY <1>1, AfterUnfolds
<1>3. l \in Int /\ generation[j].delta \in Int
  BY EditTyped
<1>4. ASSUME NEW k \in (j+1)..N
      PROVE  /\ generation[k].first \in Int /\ generation[k].last \in Int
             /\ l < generation[k].first /\ l < generation[k].last
  <2>1. k \in 1..N /\ j < k
    BY <1>1
  <2>2. generation[k].first \in Int /\ generation[k].last \in Int
    BY <2>1, EditTyped
  <2>3. l < generation[k].first /\ generation[k].first <= generation[k].last
    BY <2>1 DEF Ordered
  <2> QED
    BY <1>3, <2>2, <2>3
<1>5. p <= l => before = 0
  <2> SUFFICES ASSUME p <= l PROVE before = 0
    OBVIOUS
  <2>1. \A k \in (j+1)..N : p <= generation[k].last
    BY <1>3, <1>4
  <2> QED
    BY <1>1, <2>1, BelowMovesNothing
<1>6. ASSUME p > l, \A k \in (j+1)..N : ~Inside(generation[k], p)
      PROVE  p + before > l
  <2> DEFINE c == l + 1
  <2>1. c \in Int /\ c <= p /\ \A k \in (j+1)..N : c <= generation[k].first
    BY <1>3, <1>4, <1>6
  <2>2. c <= p + before
    <3> HIDE DEF c
    <3> QED
      BY <1>1, <1>6, <2>1, StaysAbove
  <2> QED
    BY <1>2, <1>3, <2>2
<1> HIDE DEF N, before, now, l
<1> QED
  BY <1>2, <1>3, <1>5, <1>6 DEF N, before, now, l

LEMMA HalfStep ==
    ASSUME NEW lines \in Seq(Line), NEW generation, NEW asc, Records(generation, asc),
           Ordered(generation, Len(lines)), NEW j \in 1..Len(generation),
           NEW ls, Half(lines, asc, generation, j, ls)
    PROVE  Half(lines, asc, generation, j - 1, Replace(ls, asc[j]))
<1> DEFINE N == Len(generation)
           L == Len(lines)
           M == Len(ls)
           f == asc[j].first
           l == asc[j].last
           n == Len(asc[j].new)
           d == n - (l - f + 1)
           R == Replace(ls, asc[j])
           B(p) == After(generation, j, p)
           A(p) == After(generation, j - 1, p)
<1>1. /\ generation \in Seq(Edit) /\ N \in Nat /\ L \in Nat
      /\ ls \in Seq(Line) /\ M \in Nat
  BY DEF Records, Half
<1>2. /\ asc[j] \in Replacement /\ f \in Int /\ l \in Int /\ n \in Nat /\ d \in Int
      /\ generation[j].first = f /\ generation[j].last = l /\ generation[j].delta = d
  <2>1. /\ asc[j] \in Replacement /\ asc[j].first \in Int /\ asc[j].last \in Int
        /\ Len(asc[j].new) \in Nat
        /\ generation[j].first = asc[j].first /\ generation[j].last = asc[j].last
        /\ generation[j].delta = Len(asc[j].new) - (asc[j].last - asc[j].first + 1)
    BY RecordIs
  <2> HIDE DEF f, l, n
  <2>2. f \in Int /\ l \in Int /\ n \in Nat
    BY <2>1 DEF f, l, n
  <2>3. d \in Int
    BY <2>2
  <2> QED
    BY <2>1, <2>2, <2>3 DEF f, l, n
<1>3. 1 <= f /\ f <= l /\ l <= L
  BY <1>2 DEF Ordered
<1>4. \A p \in Int : /\ B(p) \in Int /\ A(p) \in Int
                     /\ p <= l => B(p) = 0 /\ A(p) = 0
                     /\ p > l => A(p) = B(p) + d
                     /\ (p > l /\ \A k \in (j+1)..N : ~Inside(generation[k], p)) => p + B(p) > l
  <2>1. ASSUME NEW p \in Int
        PROVE  LET before == B(p)
                   now == A(p)
               IN  /\ before \in Int /\ now \in Int
                   /\ p <= generation[j].last => before = 0 /\ now = 0
                   /\ p > generation[j].last => now = before + generation[j].delta
                   /\ (p > generation[j].last
                         /\ \A k \in (j+1)..N : ~Inside(generation[k], p))
                        => p + before > generation[j].last
    BY <1>1, NextToEdit
  <2> HIDE DEF B, A, N
  <2> QED
    BY <1>2, <2>1
<1>5. ASSUME NEW k \in (j+1)..N
      PROVE  /\ k \in 1..N /\ asc[k].first \in Int /\ asc[k].last \in Int
             /\ generation[k].first = asc[k].first /\ generation[k].last = asc[k].last
             /\ l < asc[k].first /\ asc[k].first <= asc[k].last /\ asc[k].last <= L
  <2>1. k \in 1..N /\ j < k
    BY <1>1
  <2>2. /\ asc[k].first \in Int /\ asc[k].last \in Int
        /\ generation[k].first = asc[k].first /\ generation[k].last = asc[k].last
    BY <2>1, RecordIs
  <2>3. /\ generation[j].last < generation[k].first
        /\ generation[k].first <= generation[k].last /\ generation[k].last <= L
    BY <2>1 DEF Ordered
  <2> QED
    BY <1>2, <2>1, <2>2, <2>3
<1>6. \A p \in Int : Free(generation, j, p) => \A k \in (j+1)..N : ~Inside(generation[k], p)
  <2> SUFFICES ASSUME NEW p \in Int, Free(generation, j, p), NEW k \in (j+1)..N,
                      Inside(generation[k], p)
               PROVE  FALSE
    OBVIOUS
  <2>1. ~(generation[k].first <= p /\ p <= generation[k].last)
    BY DEF Free
  <2>2. generation[k].first < p /\ p <= generation[k].last
    BY DEF Inside
  <2>3. generation[k].first \in Int
    BY <1>5
  <2> QED
    BY <2>1, <2>2, <2>3
<1>7. M = L + B(L + 1) /\ l <= M
  <2>1. M = L + B(L + 1)
    BY DEF Half
  <2>2. \A k \in (j+1)..N : ~Inside(generation[k], L + 1)
    BY <1>1, <1>5 DEF Inside
  <2>3. L + 1 \in Int /\ L + 1 > l
    BY <1>1, <1>2, <1>3
  <2>4. B(L + 1) \in Int /\ (L + 1) + B(L + 1) > l
    <3> HIDE DEF B, A, N, L, l
    <3> QED
      BY <1>4, <2>2, <2>3
  <2> HIDE DEF B, M, L, l
  <2> QED
    BY <1>1, <1>2, <2>1, <2>4
<1>8. /\ R \in Seq(Line) /\ Len(R) = M + d
      /\ \A i \in 1..(f - 1) : R[i] = ls[i]
      /\ \A i \in 1..n : R[f + i - 1] = New(asc[j].new[i])
      /\ \A i \in (l + 1)..M : R[i + d] = ls[i]
  BY <1>1, <1>2, <1>3, <1>7, ReplaceIs
<1>9. \A p \in 1..L : Free(generation, j, p) => p + B(p) \in 1..M /\ ls[p + B(p)] = lines[p]
  BY DEF Half
<1>10. \A q \in 1..M : ls[q].origin # 0 =>
          \E p \in 1..L : Free(generation, j, p) /\ q = p + B(p)
  BY DEF Half
<1>11. ASSUME NEW k \in (j+1)..N, NEW i \in 1..Len(asc[k].new)
       PROVE  LET q == asc[k].first + B(asc[k].first) + i - 1
              IN  q \in 1..M /\ ls[q] = New(asc[k].new[i])
  BY DEF Half
<1>12. \A p \in Int : Free(generation, j - 1, p) <=>
                         Free(generation, j, p) /\ ~(f <= p /\ p <= l)
  <2>1. ((j-1)+1)..N = {j} \union ((j+1)..N)
    BY <1>1
  <2> HIDE DEF N, f, l
  <2> QED
    BY <1>2, <2>1 DEF Free, N
<1>13. n \in Nat /\ d = n - (l - f + 1)
  BY <1>2
<1> HIDE DEF N, L, M, f, l, n, d, R, A, B
<1>14. Len(R) = L + A(L + 1)
  <2>1. L + 1 \in Int /\ L + 1 > l
    BY <1>1, <1>2, <1>3
  <2>2. A(L + 1) = B(L + 1) + d /\ B(L + 1) \in Int
    BY <1>4, <2>1
  <2> QED
    BY <1>1, <1>2, <1>7, <1>8, <2>2
<1>15. ASSUME NEW p \in 1..L, Free(generation, j - 1, p)
       PROVE  p + A(p) \in 1..Len(R) /\ R[p + A(p)] = lines[p]
  <2>1. p \in Int /\ Free(generation, j, p) /\ ~(f <= p /\ p <= l)
    BY <1>1, <1>12, <1>15
  <2>2. p + B(p) \in 1..M /\ ls[p + B(p)] = lines[p]
    BY <1>9, <2>1
  <2>3. CASE p < f
    <3>1. p <= l /\ p \in 1..(f - 1)
      BY <1>2, <1>3, <2>1, <2>3
    <3>2. B(p) = 0 /\ A(p) = 0
      BY <1>4, <2>1, <3>1
    <3>3. p + A(p) = p /\ p + B(p) = p
      BY <2>1, <3>2
    <3>4. p \in 1..(M + d)
      BY <1>1, <1>2, <1>3, <1>7, <1>13, <3>1
    <3>5. R[p] = ls[p]
      BY <1>8, <3>1
    <3> QED
      BY <1>8, <2>2, <3>3, <3>4, <3>5
  <2>4. CASE ~(p < f)
    <3>1. p > l
      BY <1>2, <2>1, <2>4
    <3>2. p + B(p) > l /\ A(p) = B(p) + d /\ B(p) \in Int
      BY <1>4, <1>6, <2>1, <3>1
    <3> DEFINE q == p + B(p)
    <3>3. q \in (l + 1)..M /\ p + A(p) = q + d
      BY <1>2, <2>1, <2>2, <3>2
    <3>4. q + d \in 1..(M + d)
      <4> HIDE DEF q
      <4> QED
        BY <1>1, <1>2, <1>3, <1>13, <3>3
    <3>5. R[q + d] = ls[q]
      <4> HIDE DEF q
      <4> QED
        BY <1>8, <3>3
    <3> QED
      BY <1>8, <2>2, <3>3, <3>4, <3>5
  <2> QED
    BY <2>3, <2>4
<1>16. ASSUME NEW q \in 1..Len(R), R[q].origin # 0
       PROVE  \E p \in 1..L : Free(generation, j - 1, p) /\ q = p + A(p)
  <2>1. q \in 1..(M + d) /\ q \in Int
    BY <1>1, <1>2, <1>8
  <2>2. CASE q < f
    <3>1. q \in 1..(f - 1) /\ q \in 1..M /\ R[q] = ls[q]
      BY <1>1, <1>2, <1>3, <1>7, <1>8, <2>1, <2>2
    <3>2. PICK p \in 1..L : Free(generation, j, p) /\ q = p + B(p)
      BY <1>10, <1>16, <3>1
    <3>3. p \in Int
      OBVIOUS
    <3>4. ~(p > l)
      <4> SUFFICES ASSUME p > l PROVE FALSE
        OBVIOUS
      <4>1. q > l
        BY <1>4, <1>6, <3>2, <3>3
      <4> QED
        BY <1>2, <1>3, <2>1, <2>2, <4>1
    <3>5. B(p) = 0 /\ A(p) = 0
      BY <1>2, <1>4, <3>3, <3>4
    <3>6. q = p /\ q = p + A(p)
      BY <3>2, <3>3, <3>5
    <3>7. Free(generation, j - 1, p)
      BY <1>2, <1>12, <2>2, <3>2, <3>3, <3>6
    <3> QED
      BY <3>6, <3>7
  <2>3. CASE f <= q /\ q <= f + n - 1
    <3> DEFINE i == q - f + 1
    <3>1. i \in 1..n /\ f + i - 1 = q
      BY <1>2, <2>1, <2>3
    <3>2. R[q] = New(asc[j].new[i])
      <4> HIDE DEF i
      <4>1. R[f + i - 1] = New(asc[j].new[i])
        BY <1>8, <3>1
      <4> QED
        BY <3>1, <4>1
    <3> QED
      BY <1>16, <3>2 DEF New
  <2>4. CASE q > f + n - 1
    <3> DEFINE h == q - d
    <3>1. h \in (l + 1)..M /\ h \in 1..M /\ h + d = q /\ h \in Int
      BY <1>1, <1>2, <1>3, <1>13, <2>1, <2>4
    <3> HIDE DEF h
    <3>2. R[q] = ls[h]
      <4>1. R[h + d] = ls[h]
        BY <1>8, <3>1
      <4> QED
        BY <3>1, <4>1
    <3>3. PICK p \in 1..L : Free(generation, j, p) /\ h = p + B(p)
      BY <1>10, <1>16, <3>1, <3>2
    <3>4. p \in Int
      OBVIOUS
    <3>5. p > l
      <4> SUFFICES ASSUME p <= l PROVE FALSE
        BY <1>2, <3>4
      <4>1. B(p) = 0
        BY <1>4, <3>4
      <4> QED
        BY <1>2, <3>1, <3>3, <3>4, <4>1
    <3>6. A(p) = B(p) + d /\ B(p) \in Int
      BY <1>4, <3>4, <3>5
    <3>7. q = p + A(p)
      BY <1>2, <3>1, <3>3, <3>4, <3>6
    <3>8. Free(generation, j - 1, p)
      BY <1>2, <1>12, <3>3, <3>4, <3>5
    <3> QED
      BY <3>7, <3>8
  <2> QED
    BY <1>2, <2>1, <2>2, <2>3, <2>4
<1>17. ASSUME NEW k \in ((j-1)+1)..N, NEW i \in 1..Len(asc[k].new)
       PROVE  LET q == asc[k].first + A(asc[k].first) + i - 1
              IN  q \in 1..Len(R) /\ R[q] = New(asc[k].new[i])
  <2>1. CASE k = j
    <3>1. asc[k].first = f /\ i \in 1..n /\ asc[k].new[i] = asc[j].new[i]
      BY <2>1 DEF f, n
    <3>2. A(f) = 0
      BY <1>2, <1>3, <1>4
    <3>3. f + A(f) + i - 1 = f + i - 1 /\ f + i - 1 \in 1..(M + d)
      <4>1. f + A(f) + i - 1 = f + i - 1
        BY <1>2, <3>1, <3>2
      <4>2. f \in Int /\ l \in Int /\ n \in Nat /\ M \in Nat /\ 1 <= f /\ l <= M
        BY <1>1, <1>2, <1>3, <1>7
      <4>3. f + i - 1 \in 1..(M + (n - (l - f + 1)))
        BY <3>1, <4>2
      <4> QED
        BY <1>13, <4>1, <4>3
    <3>4. R[f + i - 1] = New(asc[j].new[i])
      BY <1>8, <3>1
    <3> QED
      BY <1>8, <3>1, <3>3, <3>4
  <2>2. CASE k # j
    <3>1. k \in (j+1)..N
      BY <1>1, <2>2
    <3> DEFINE p == asc[k].first
               q == p + B(p) + i - 1
    <3>2. p \in Int /\ p > l /\ q \in 1..M /\ ls[q] = New(asc[k].new[i])
      BY <1>2, <1>5, <1>11, <3>1
    <3>3. \A m \in (j+1)..N : ~Inside(generation[m], p)
      <4> SUFFICES ASSUME NEW m \in (j+1)..N PROVE ~Inside(generation[m], p)
        OBVIOUS
      <4>1. /\ generation[m].first = asc[m].first /\ generation[m].last = asc[m].last
            /\ asc[m].first \in Int /\ asc[m].last \in Int /\ asc[m].first <= asc[m].last
            /\ generation[k].first = p /\ generation[k].last = asc[k].last
            /\ p <= asc[k].last /\ asc[k].last \in Int /\ m \in 1..N /\ k \in 1..N
        BY <1>5, <3>1
      <4>2. m < k => asc[m].last < p
        BY <4>1 DEF Ordered, N
      <4>3. m > k => asc[k].last < asc[m].first
        BY <4>1 DEF Ordered, N
      <4>4. m < k \/ m = k \/ m > k
        BY <1>1, <3>1
      <4> HIDE DEF p
      <4>5. CASE m < k
        BY <3>2, <4>1, <4>2, <4>5 DEF Inside
      <4>6. CASE m = k
        BY <3>2, <4>1, <4>6 DEF Inside, p
      <4>7. CASE m > k
        BY <3>2, <4>1, <4>3, <4>7 DEF Inside
      <4> QED
        BY <4>4, <4>5, <4>6, <4>7
    <3>4. p + B(p) > l /\ A(p) = B(p) + d /\ B(p) \in Int
      <4> HIDE DEF p, q
      <4> QED
        BY <1>4, <3>2, <3>3
    <3>5. i \in Nat /\ i >= 1
      OBVIOUS
    <3> HIDE DEF p
    <3>6. q \in (l + 1)..M /\ p + A(p) + i - 1 = q + d
      <4>1. \A z \in Int :
               /\ p + z > l => p + z + i - 1 > l
               /\ p + (z + d) + i - 1 = (p + z + i - 1) + d
        BY <1>2, <3>2, <3>5
      <4>2. q > l
        BY <3>4, <4>1
      <4>3. p + A(p) + i - 1 = q + d
        BY <3>4, <4>1
      <4> HIDE DEF q
      <4> QED
        BY <1>1, <1>2, <3>2, <4>2, <4>3
    <3> HIDE DEF q
    <3>7. q + d \in 1..(M + d)
      <4>1. q \in (l + 1)..M
        BY <3>6
      <4>2. f \in Int /\ l \in Int /\ n \in Nat /\ M \in Nat /\ 1 <= f /\ l <= M
        BY <1>1, <1>2, <1>3, <1>7
      <4>3. q + (n - (l - f + 1)) \in 1..(M + (n - (l - f + 1)))
        BY <4>1, <4>2
      <4> QED
        BY <1>13, <4>3
    <3>8. R[q + d] = ls[q]
      BY <1>8, <3>6
    <3>9. R[p + A(p) + i - 1] = New(asc[k].new[i]) /\ p + A(p) + i - 1 \in 1..Len(R)
      BY <1>8, <3>2, <3>6, <3>7, <3>8
    <3> QED
      BY <3>9 DEF p
  <2> QED
    BY <2>1, <2>2
<1> QED
  BY <1>8, <1>14, <1>15, <1>16, <1>17 DEF Half, A, R, N, L

-----------------------------------------------------------------------------
(* The replacements of a call in ascending order. *)

Sorted(s, n, reps) ==
    /\ n \in Nat /\ s \in [1..n -> reps]
    /\ \A r \in reps : \E i \in 1..n : s[i] = r
    /\ \A i, j \in 1..n : i < j => s[i].first < s[j].first

LEMMA SortedExists ==
    ASSUME NEW reps \in SUBSET Replacement, NEW L \in Nat,
           \A r \in reps : r.first \in 1..L,
           \A r, q \in reps : r.first = q.first => r = q
    PROVE  \E n, s : Sorted(s, n, reps)
<1> DEFINE Upto(m) == {r \in reps : r.first <= m}
           T == {m \in 0..L : \E n, s : Sorted(s, n, Upto(m))}
<1>1. 0 \in T
  <2>1. Upto(0) = {}
    OBVIOUS
  <2> DEFINE s == [i \in 1..0 |-> i]
  <2>2. 1..0 = {}
    OBVIOUS
  <2>3. Sorted(s, 0, {})
    BY <2>2 DEF Sorted
  <2> HIDE DEF s, Upto
  <2> QED
    BY <2>1, <2>3
<1>2. ASSUME NEW m \in 0..(L - 1), m \in T PROVE m + 1 \in T
  <2>1. PICK n, s : Sorted(s, n, Upto(m))
    BY <1>2
  <2>2. m + 1 \in 0..L
    OBVIOUS
  <2>3. CASE \E x \in reps : x.first = m + 1
    <3>1. PICK x \in reps : x.first = m + 1
      BY <2>3
    <3>2. Upto(m + 1) = Upto(m) \union {x}
      <4>1. x \in Upto(m + 1)
        BY <3>1
      <4>2. \A r \in reps : r.first <= m + 1 <=> (r.first <= m \/ r = x)
        BY <3>1
      <4> QED
        BY <4>2
    <3> DEFINE t == [i \in 1..(n + 1) |-> IF i = n + 1 THEN x ELSE s[i]]
               U == Upto(m + 1)
    <3>3. n \in Nat /\ s \in [1..n -> Upto(m)]
      BY <2>1 DEF Sorted
    <3>4. \A i \in 1..n : t[i] = s[i] /\ i \in 1..(n + 1) /\ i # n + 1
      BY <3>3
    <3>5. t[n + 1] = x /\ n + 1 \in 1..(n + 1)
      BY <3>3
    <3>6. \A i \in 1..(n + 1) : i \in 1..n \/ i = n + 1
      BY <3>3
    <3>7. t = [i \in 1..(n + 1) |-> t[i]]
      OBVIOUS
    <3> HIDE DEF t
    <3>8. \A i \in 1..(n + 1) : t[i] \in U
      <4>1. \A i \in 1..n : s[i] \in Upto(m)
        BY <3>3
      <4> HIDE DEF Upto
      <4> QED
        BY <3>2, <3>4, <3>5, <3>6, <4>1
    <3>9. t \in [1..(n + 1) -> U]
      <4> HIDE DEF U
      <4> QED
        BY <3>7, <3>8
    <3>10. \A r \in U : \E i \in 1..(n + 1) : t[i] = r
      <4> SUFFICES ASSUME NEW r \in U PROVE \E i \in 1..(n + 1) : t[i] = r
        OBVIOUS
      <4>1. CASE r = x
        BY <3>5, <4>1
      <4>2. CASE r # x
        <5>1. r \in Upto(m)
          <6> HIDE DEF Upto
          <6> QED
            BY <3>2, <4>2
        <5>2. PICK i \in 1..n : s[i] = r
          <6> HIDE DEF Upto
          <6> QED
            BY <2>1, <5>1 DEF Sorted
        <5> QED
          BY <3>4, <5>2
      <4> QED
        BY <4>1, <4>2
    <3>11. \A i, j \in 1..(n + 1) : i < j => t[i].first < t[j].first
      <4> SUFFICES ASSUME NEW i \in 1..(n + 1), NEW j \in 1..(n + 1), i < j
                   PROVE  t[i].first < t[j].first
        OBVIOUS
      <4>1. i \in 1..n
        BY <3>3
      <4>2. t[i] = s[i] /\ s[i] \in Upto(m)
        BY <3>3, <3>4, <4>1
      <4>3. s[i].first <= m /\ s[i].first \in Int
        BY <4>2
      <4>4. CASE j = n + 1
        BY <3>1, <3>5, <4>2, <4>3, <4>4
      <4>5. CASE j \in 1..n
        BY <2>1, <3>4, <4>1, <4>2, <4>5 DEF Sorted
      <4> QED
        BY <3>6, <4>4, <4>5
    <3>12. Sorted(t, n + 1, U)
      BY <3>3, <3>9, <3>10, <3>11 DEF Sorted
    <3> HIDE DEF Upto
    <3> QED
      BY <2>2, <3>12
  <2>4. CASE ~ \E x \in reps : x.first = m + 1
    <3>1. \A r \in reps : r.first <= m + 1 <=> r.first <= m
      BY <2>4
    <3>2. Upto(m + 1) = Upto(m)
      BY <3>1
    <3> HIDE DEF Upto
    <3> QED
      BY <2>1, <2>2, <3>2
  <2> QED
    BY <2>3, <2>4
<1>3. L \in T
  <2> HIDE DEF T
  <2>1. 0..L \subseteq T
    BY <1>1, <1>2, UpTo
  <2> QED
    BY <2>1
<1>4. Upto(L) = reps
  OBVIOUS
<1> HIDE DEF Upto
<1> QED
  BY <1>3, <1>4

LEMMA AscendingIs ==
    ASSUME NEW reps \in SUBSET Replacement, NEW L \in Nat,
           \A r \in reps : r.first \in 1..L,
           \A r, q \in reps : r.first = q.first => r = q
    PROVE  Sorted(Ascending(reps), Cardinality(reps), reps)
<1>1. PICK n, s : Sorted(s, n, reps)
  BY SortedExists
<1>2. n \in Nat /\ s \in [1..n -> reps] /\ \A r \in reps : \E i \in 1..n : s[i] = r
  BY <1>1 DEF Sorted
<1>3. s \in Surjection(1..n, reps)
  BY <1>2 DEF Surjection
<1>4. \A i, j \in 1..n : s[i] = s[j] => i = j
  <2> SUFFICES ASSUME NEW i \in 1..n, NEW j \in 1..n, s[i] = s[j], i # j PROVE FALSE
    OBVIOUS
  <2>1. s[i].first \in Int
    <3>1. s[i] \in Replacement
      BY <1>2
    <3> QED
      BY <3>1 DEF Replacement
  <2>2. i < j \/ j < i
    BY <1>2
  <2>3. i < j => s[i].first < s[j].first
    BY <1>1 DEF Sorted
  <2>4. j < i => s[j].first < s[i].first
    BY <1>1 DEF Sorted
  <2> QED
    BY <2>1, <2>2, <2>3, <2>4
<1>5. s \in Bijection(1..n, reps)
  BY <1>2, <1>3, <1>4 DEF Bijection, Injection, IsInjective
<1>6. Cardinality(reps) = n
  BY <1>2, <1>5, FS_CountingElements DEF ExistsBijection
<1>7. \E asc \in Surjection(1..Cardinality(reps), reps) :
         \A i, j \in DOMAIN asc : i < j => asc[i].first < asc[j].first
  BY <1>1, <1>2, <1>3, <1>6 DEF Sorted
<1> DEFINE asc == Ascending(reps)
<1>8. /\ asc \in Surjection(1..n, reps)
      /\ \A i, j \in DOMAIN asc : i < j => asc[i].first < asc[j].first
  BY <1>6, <1>7 DEF Ascending
<1> HIDE DEF asc
<1>9. asc \in [1..n -> reps] /\ \A r \in reps : \E i \in 1..n : asc[i] = r
  BY <1>8 DEF Surjection
<1>10. DOMAIN asc = 1..n
  BY <1>9
<1>11. Sorted(asc, n, reps)
  BY <1>2, <1>8, <1>9, <1>10 DEF Sorted
<1> QED
  BY <1>6, <1>11 DEF asc

(* What a call asks of a file of L lines, once it is accepted. *)
Fits(reps, L) ==
    /\ reps \in SUBSET Replacement /\ Disjoint(reps)
    /\ \A r \in reps : 1 <= r.first /\ r.first <= r.last /\ r.last <= L

LEMMA FitsApart ==
    ASSUME NEW reps, NEW L \in Nat, Fits(reps, L)
    PROVE  /\ \A r \in reps : r.first \in 1..L /\ r.last \in 1..L
           /\ \A r, q \in reps : r.first <= q.first => r = q \/ r.last < q.first
<1>1. ASSUME NEW r \in reps
      PROVE  /\ r.first \in Int /\ r.last \in Int
             /\ 1 <= r.first /\ r.first <= r.last /\ r.last <= L
  <2>1. r \in Replacement
    BY DEF Fits
  <2> QED
    BY <2>1 DEF Fits, Replacement
<1>2. ASSUME NEW r \in reps PROVE r.first \in 1..L /\ r.last \in 1..L
  BY <1>1
<1>3. ASSUME NEW r \in reps, NEW q \in reps, r.first <= q.first PROVE r = q \/ r.last < q.first
  <2>1. r # q => r.last < q.first \/ q.last < r.first
    BY DEF Fits, Disjoint
  <2> QED
    BY <1>1, <1>3, <2>1
<1> QED
  BY <1>2, <1>3

LEMMA EditOfIs ==
    ASSUME NEW r \in Replacement
    PROVE  /\ r.first \in Int /\ r.last \in Int /\ Len(r.new) \in Nat
           /\ EditOf(r) \in Edit
           /\ EditOf(r).first = r.first /\ EditOf(r).last = r.last
           /\ EditOf(r).delta >= r.first - r.last - 1
<1>1. r.first \in Int /\ r.last \in Int /\ r.new \in Seq(Texts)
  BY DEF Replacement
<1>2. PICK n \in Nat : n = Len(r.new)
  BY <1>1
<1>3. n - (r.last - r.first + 1) \in Int /\ n - (r.last - r.first + 1) >= r.first - r.last - 1
  BY <1>1
<1>4. EditOf(r) = [first |-> r.first, last |-> r.last, delta |-> n - (r.last - r.first + 1)]
  BY <1>2 DEF EditOf
<1> QED
  BY <1>1, <1>2, <1>3, <1>4 DEF Edit

LEMMA GenerationIs ==
    ASSUME NEW reps, NEW L \in Nat, Fits(reps, L)
    PROVE  /\ Sorted(Ascending(reps), Cardinality(reps), reps)
           /\ Records(Generation(reps), Ascending(reps)) /\ Ordered(Generation(reps), L)
           /\ Len(Generation(reps)) = Cardinality(reps)
           /\ Len(Ascending(reps)) = Cardinality(reps)
<1> DEFINE n == Cardinality(reps)
           asc == Ascending(reps)
           g == Generation(reps)
<1>1. reps \in SUBSET Replacement
  BY DEF Fits
<1>2. \A r, q \in reps : r.first = q.first => r = q
  <2> SUFFICES ASSUME NEW r \in reps, NEW q \in reps, r.first = q.first, r # q PROVE FALSE
    OBVIOUS
  <2>1. r.first \in 1..L /\ r.last \in 1..L /\ q.last \in 1..L
    BY FitsApart
  <2>2. r.last < q.first
    BY <2>1, FitsApart
  <2>3. r.first <= r.last
    BY DEF Fits
  <2> QED
    BY <2>1, <2>2, <2>3
<1>3. Sorted(asc, n, reps)
  BY <1>1, <1>2, FitsApart, AscendingIs
<1>4. n \in Nat /\ asc \in [1..n -> reps]
  BY <1>3 DEF Sorted
<1>5. asc \in Seq(Replacement) /\ Len(asc) = n /\ DOMAIN asc = 1..n
  <2>1. asc \in [1..n -> Replacement]
    BY <1>1, <1>4
  <2>2. asc \in Seq(Replacement)
    BY <1>4, <2>1, SeqDef
  <2> QED
    BY <1>4, <2>2
<1>6. ASSUME NEW i \in 1..n
      PROVE  /\ asc[i] \in Replacement /\ EditOf(asc[i]) \in Edit /\ asc[i] \in reps
             /\ EditOf(asc[i]).first = asc[i].first /\ EditOf(asc[i]).last = asc[i].last
             /\ EditOf(asc[i]).delta >= asc[i].first - asc[i].last - 1
             /\ asc[i].first \in Int /\ asc[i].last \in Int
  <2>1. asc[i] \in Replacement /\ asc[i] \in reps
    BY <1>1, <1>4
  <2> HIDE DEF asc
  <2> QED
    BY <2>1, EditOfIs
<1>7. g = [i \in 1..n |-> EditOf(asc[i])]
  BY <1>5 DEF Generation
<1> HIDE DEF asc, g, n
<1>8. g \in [1..n -> Edit]
  BY <1>6, <1>7
<1>9. g \in Seq(Edit) /\ Len(g) = n
  <2>1. g \in Seq(Edit)
    BY <1>4, <1>8, SeqDef
  <2> QED
    BY <1>4, <1>8, <2>1
<1>10. \A i \in 1..n : g[i] = EditOf(asc[i])
  BY <1>7
<1>11. Records(g, asc)
  BY <1>5, <1>9, <1>10 DEF Records
<1>12. Ordered(g, L)
  <2>1. ASSUME NEW i \in 1..n
        PROVE  /\ 1 <= g[i].first /\ g[i].first <= g[i].last /\ g[i].last <= L
               /\ g[i].delta >= g[i].first - g[i].last - 1
    <3>1. 1 <= asc[i].first /\ asc[i].first <= asc[i].last /\ asc[i].last <= L
      BY <1>6 DEF Fits
    <3>2. /\ g[i].first = asc[i].first /\ g[i].last = asc[i].last
          /\ g[i].delta >= asc[i].first - asc[i].last - 1
      BY <1>6, <1>10
    <3> QED
      BY <3>1, <3>2
  <2>2. ASSUME NEW i \in 1..n, NEW j \in 1..n, i < j PROVE g[i].last < g[j].first
    <3>1. asc[i].first < asc[j].first
      BY <1>3, <2>2 DEF Sorted
    <3>2. asc[i].first <= asc[j].first /\ asc[i] # asc[j]
      BY <1>6, <3>1
    <3>3. asc[i].last < asc[j].first
      BY <1>6, <3>2, FitsApart
    <3> QED
      BY <1>6, <1>10, <3>3
  <2> QED
    BY <1>9, <2>1, <2>2 DEF Ordered
<1> QED
  BY <1>3, <1>5, <1>9, <1>11, <1>12 DEF n, g, asc

(* A splice from the bottom up does all of them. *)
LEMMA SplicedIs ==
    ASSUME NEW lines \in Seq(Line), NEW reps, Fits(reps, Len(lines))
    PROVE  Half(lines, Ascending(reps), Generation(reps), 0, Spliced(lines, reps))
<1> DEFINE n == Cardinality(reps)
           asc == Ascending(reps)
           g == Generation(reps)
           L == Len(lines)
           done == Splices(lines, reps)
           T == {j \in 0..n : Half(lines, asc, g, j, done[n - j])}
<1>1. L \in Nat
  OBVIOUS
<1>2. Records(g, asc) /\ Ordered(g, L) /\ Len(g) = n /\ Len(asc) = n /\ n \in Nat
  <2>1. Sorted(asc, n, reps) /\ Records(g, asc) /\ Ordered(g, L) /\ Len(g) = n /\ Len(asc) = n
    BY <1>1, GenerationIs
  <2> QED
    BY <2>1 DEF Sorted
<1>3. done[0] = lines /\ \A k \in 1..n : done[k] = Replace(done[k-1], BottomUp(reps)[k])
  BY <1>2, SplicesUnfold
<1>4. \A k \in 1..n : BottomUp(reps)[k] = asc[n - k + 1]
  <2>1. BottomUp(reps) = [k \in 1..n |-> asc[n - k + 1]]
    BY <1>2 DEF BottomUp, Reverse
  <2> HIDE DEF n, asc
  <2> QED
    BY <2>1
<1>5. Half(lines, asc, g, n, lines)
  <2> HIDE DEF asc, g, n, L
  <2>1. g \in Seq(Edit)
    BY <1>2 DEF Records
  <2>2. \A p : After(g, n, p) = 0
    BY <1>2, <2>1, AfterUnfolds
  <2>3. (n+1)..Len(g) = {}
    BY <1>2
  <2>4. \A p \in 1..L : Free(g, n, p) /\ p + After(g, n, p) = p
    BY <2>2, <2>3 DEF Free
  <2>5. Len(lines) = L /\ L + After(g, n, L + 1) = L
    BY <1>1, <2>2 DEF L
  <2> QED
    BY <2>3, <2>4, <2>5 DEF Half
<1>6. n \in T
  <2>1. n \in 0..n /\ n - n = 0
    BY <1>2
  <2> HIDE DEF asc, g, n, done
  <2> QED
    BY <1>3, <1>5, <2>1
<1>7. ASSUME NEW j \in 1..n, j \in T PROVE j - 1 \in T
  <2> DEFINE k == n - (j - 1)
  <2>1. k \in 1..n /\ k - 1 = n - j /\ n - k + 1 = j /\ j - 1 \in 0..n /\ n - (j - 1) = k
    BY <1>2
  <2> HIDE DEF n, g, asc, done, L, k
  <2>2. Half(lines, asc, g, j, done[n - j])
    BY <1>7
  <2>3. done[k] = Replace(done[n - j], asc[j])
    BY <1>3, <1>4, <2>1
  <2>4. Half(lines, asc, g, j - 1, done[k])
    <3>1. j \in 1..Len(g) /\ Ordered(g, Len(lines))
      BY <1>2 DEF L
    <3>2. Half(lines, asc, g, j - 1, Replace(done[n - j], asc[j]))
      BY <1>2, <2>2, <3>1, HalfStep
    <3> QED
      BY <2>3, <3>2
  <2> QED
    BY <2>1, <2>4
<1>8. 0 \in T
  <2> HIDE DEF T, n
  <2>1. 0..n \subseteq T
    BY <1>2, <1>6, <1>7, DownTo
  <2> QED
    BY <1>2, <2>1
<1>9. n - 0 = n
  BY <1>2
<1>10. Spliced(lines, reps) = done[n]
  BY DEF Spliced
<1> HIDE DEF n, g, asc, done
<1> QED
  BY <1>8, <1>9, <1>10 DEF g, asc

-----------------------------------------------------------------------------
(* The replacements a call comes to. *)

LEMMA LongestIs ==
    ASSUME NEW n \in Nat, NEW K \in SUBSET (1..n)
    PROVE  Longest(K) \in K \union {0}
<1> DEFINE T == {m \in 0..n : n - m \in K \union {0}}
<1>1. T \in SUBSET Nat /\ n \in T
  OBVIOUS
<1>2. PICK m \in T : \A k \in T : m <= k
  <2> HIDE DEF T
  <2> QED
    BY <1>1, Least
<1>3. n - m \in K \union {0}
  BY <1>2
<1>4. ASSUME NEW k \in K PROVE k <= n - m
  <2>1. k \in 1..n /\ n - (n - k) = k
    OBVIOUS
  <2>2. n - k \in T
    BY <2>1
  <2>3. m <= n - k /\ m \in Nat
    BY <1>1, <1>2, <2>2
  <2> QED
    BY <2>1, <2>3
<1>5. \E k \in K \union {0} : \A j \in K : j <= k
  BY <1>3, <1>4
<1> QED
  BY <1>5 DEF Longest

LEMMA DuplicatesLeaveOne ==
    ASSUME NEW new \in Seq(Texts), NEW texts, NEW covered, NEW i
    PROVE  /\ DupPrefix(new, texts, covered, i) \in 0..Len(new)
           /\ DupSuffix(new, texts, covered, i) \in 0..Len(new)
           /\ new # <<>> => /\ DupPrefix(new, texts, covered, i) < Len(new)
                            /\ DupSuffix(new, texts, covered, i) < Len(new)
<1> DEFINE A == {k \in 1..DupWindow :
                   /\ k < Len(new) /\ k < i
                   /\ \A j \in (i - k)..(i - 1) : j \notin covered
                   /\ SubSeq(new, 1, k) = SubSeq(texts, i - k, i - 1)}
           B == {k \in 1..DupWindow :
                   /\ k < Len(new) /\ i + k <= Len(texts)
                   /\ \A j \in (i + 1)..(i + k) : j \notin covered
                   /\ SubSeq(new, Len(new) - k + 1, Len(new)) = SubSeq(texts, i + 1, i + k)}
<1>1. Len(new) \in Nat /\ (new # <<>> => Len(new) > 0)
  OBVIOUS
<1>2. DupWindow \in Nat
  BY HashedEditAssumption
<1>3. A \in SUBSET (1..DupWindow) /\ B \in SUBSET (1..DupWindow)
  OBVIOUS
<1>4. \A k \in A \union B : k < Len(new)
  OBVIOUS
<1>5. /\ DupPrefix(new, texts, covered, i) = Longest(A)
      /\ DupSuffix(new, texts, covered, i) = Longest(B)
  BY DEF DupPrefix, DupSuffix
<1> HIDE DEF A, B
<1>6. Longest(A) \in A \union {0} /\ Longest(B) \in B \union {0}
  BY <1>2, <1>3, LongestIs
<1>7. \A k \in A \union B \union {0} : k \in Nat /\ (k = 0 \/ k < Len(new))
  BY <1>2, <1>3, <1>4
<1>8. /\ Longest(A) \in Nat /\ (Longest(A) = 0 \/ Longest(A) < Len(new))
      /\ Longest(B) \in Nat /\ (Longest(B) = 0 \/ Longest(B) < Len(new))
  BY <1>6, <1>7
<1> QED
  BY <1>1, <1>5, <1>8

(* Trimming what repeats the lines around keeps the address, and a line.    *)
LEMMA PreparedIs ==
    ASSUME NEW r \in Replacement, NEW reps, NEW texts
    PROVE  LET e == Prepared(r, reps, texts)
           IN  /\ e \in Replacement /\ e.first = r.first /\ e.last = r.last
               /\ e.head = r.head /\ e.tail = r.tail
               /\ r.new = <<>> <=> e.new = <<>>
<1> DEFINE lead == DupPrefix(r.new, texts, Covered(reps), r.first)
           kept == SubSeq(r.new, lead + 1, Len(r.new))
           trail == DupSuffix(kept, texts, Covered(reps), r.last)
           new == SubSeq(kept, 1, Len(kept) - trail)
<1>1. /\ r.new \in Seq(Texts) /\ r.first \in Int /\ r.last \in Int
      /\ r.head \in Texts /\ r.tail \in Texts
  BY DEF Replacement
<1>2. /\ r = [first |-> r.first, last |-> r.last, head |-> r.head, tail |-> r.tail,
              new |-> r.new]
  BY DEF Replacement
<1>3. Prepared(r, reps, texts) = [r EXCEPT !.new = new]
  BY DEF Prepared
<1>4. lead \in 0..Len(r.new) /\ (r.new # <<>> => lead < Len(r.new))
  BY <1>1, DuplicatesLeaveOne
<1> HIDE DEF lead
<1>5. kept \in Seq(Texts) /\ Len(kept) = Len(r.new) - lead
  BY <1>1, <1>4, LastPart
<1> HIDE DEF kept
<1>6. trail \in 0..Len(kept) /\ (kept # <<>> => trail < Len(kept))
  BY <1>5, DuplicatesLeaveOne
<1> HIDE DEF trail
<1>7. Len(kept) - trail \in 0..Len(kept)
  <2>1. Len(kept) \in Nat
    BY <1>5
  <2> QED
    BY <1>6, <2>1
<1>8. new \in Seq(Texts) /\ Len(new) = Len(kept) - trail
  BY <1>5, <1>7, FirstPart
<1> HIDE DEF new
<1>9. \A s \in Seq(Texts) : Len(s) \in Nat /\ (s = <<>> <=> Len(s) = 0)
  OBVIOUS
<1>10. r.new = <<>> <=> new = <<>>
  <2>1. Len(r.new) \in Nat /\ Len(kept) \in Nat /\ Len(new) \in Nat
    BY <1>1, <1>5, <1>8, <1>9
  <2>2. Len(r.new) = 0 => Len(kept) = 0 /\ Len(new) = 0
    BY <1>4, <1>5, <1>6, <1>8, <2>1
  <2>3. Len(r.new) # 0 => Len(kept) # 0
    BY <1>1, <1>4, <1>5, <1>9, <2>1
  <2>4. Len(kept) # 0 => Len(new) # 0
    BY <1>5, <1>6, <1>8, <1>9, <2>1
  <2> QED
    BY <1>1, <1>8, <1>9, <2>2, <2>3, <2>4
<1>11. Prepared(r, reps, texts) = [first |-> r.first, last |-> r.last, head |-> r.head,
                                   tail |-> r.tail, new |-> new]
  BY <1>2, <1>3
<1> QED
  BY <1>1, <1>8, <1>10, <1>11 DEF Replacement

(* A place, or a refusal. *)
Place == [ok : BOOLEAN, first : Int, last : Int]

LEMMA ThroughTyped ==
    ASSUME NEW at \in Place, NEW generation \in Seq(Edit)
    PROVE  Through(at, generation) \in Place
<1>1. Refused \in Place
  BY DEF Refused, Place
<1>2. PICK n \in Int : n = ShiftOf(generation, at.first)
  <2>1. Len(generation) \in 0..Len(generation)
    OBVIOUS
  <2> QED
    BY <2>1, ShiftsTyped DEF ShiftOf
<1>3. [ok |-> TRUE, first |-> at.first + n, last |-> at.last + n] \in Place
  BY DEF Place
<1>4. \/ Through(at, generation) = Refused
      \/ Through(at, generation) = [ok |-> TRUE, first |-> at.first + n, last |-> at.last + n]
  BY <1>2 DEF Through
<1> QED
  BY <1>1, <1>3, <1>4

LEMMA WalkTyped ==
    ASSUME NEW generations \in Seq(Seq(Edit)), NEW first \in Int, NEW last \in Int
    PROVE  \A n \in 0..Len(generations) : Walk(generations, first, last)[n] \in Place
<1> DEFINE N == Len(generations)
           at == Walk(generations, first, last)
           T == {n \in 0..N : at[n] \in Place}
<1>1. N \in Nat
  OBVIOUS
<1>2. at[0] \in Place
  <2>1. at[0] = [ok |-> TRUE, first |-> first, last |-> last]
    BY <1>1, WalkBegins
  <2> QED
    BY <2>1 DEF Place
<1>3. \A n \in 1..N : generations[n] \in Seq(Edit) /\ at[n] = Through(at[n-1], generations[n])
  <2>1. \A n \in 1..N : at[n] = Through(at[n-1], generations[n])
    BY <1>1, WalkGoesOn
  <2>2. \A n \in 1..N : generations[n] \in Seq(Edit)
    OBVIOUS
  <2> HIDE DEF at, N
  <2> QED
    BY <2>1, <2>2
<1> HIDE DEF at, N
<1>4. 0 \in T
  BY <1>1, <1>2
<1>5. ASSUME NEW n \in 0..(N - 1), n \in T PROVE n + 1 \in T
  <2>1. n + 1 \in 1..N /\ n + 1 \in 0..N /\ (n + 1) - 1 = n
    BY <1>1
  <2>2. at[n + 1] = Through(at[n], generations[n + 1])
    BY <1>3, <2>1
  <2>3. at[n + 1] \in Place
    BY <1>3, <1>5, <2>1, <2>2, ThroughTyped
  <2> QED
    BY <2>1, <2>3
<1>6. 0..N \subseteq T
  <2> HIDE DEF T
  <2> QED
    BY <1>1, <1>4, <1>5, UpTo
<1> QED
  BY <1>6 DEF at, N

LEMMA TranslateTyped ==
    ASSUME NEW generations \in Seq(Seq(Edit)), NEW first \in Int, NEW last \in Int
    PROVE  Translate(generations, first, last) \in Place
<1>1. Len(generations) \in 0..Len(generations)
  OBVIOUS
<1>2. Walk(generations, first, last)[Len(generations)] \in Place
  BY <1>1, WalkTyped
<1>3. Refused \in Place
  BY DEF Refused, Place
<1> QED
  BY <1>2, <1>3 DEF Translate

LEMMA TextualIs ==
    ASSUME NEW lines \in Seq(Line)
    PROVE  Textual(lines) \in Seq(Texts) /\ Len(Textual(lines)) = Len(lines)
<1>1. Len(lines) \in Nat /\ DOMAIN lines = 1..Len(lines)
  OBVIOUS
<1>2. \A i \in 1..Len(lines) : lines[i] \in Line
  OBVIOUS
<1>3. \A i \in 1..Len(lines) : lines[i].text \in Texts
  BY <1>2 DEF Line
<1>4. Textual(lines) = [i \in 1..Len(lines) |-> lines[i].text]
  BY <1>1 DEF Textual
<1>5. Textual(lines) \in [1..Len(lines) -> Texts]
  BY <1>3, <1>4
<1>6. Textual(lines) \in Seq(Texts)
  BY <1>1, <1>5, SeqDef
<1> QED
  BY <1>1, <1>5, <1>6

(* Each resolved replacement is one of the call's, at its own address or at *)
(* another.                                                                *)
LEMMA ResolvedIs ==
    ASSUME Typed
    PROVE  \A r \in Resolved :
              /\ r \in Replacement
              /\ \E g \in call.reps : r.head = g.head /\ r.tail = g.tail /\ r.new = g.new
<1>1. call.reps \in SUBSET Replacement /\ map.generations \in Seq(Seq(Edit))
  BY DEF Typed
<1>2. ASSUME NEW g \in call.reps
      PROVE  LET r == Followed(map.generations, g, Loaded)
             IN  r \in Replacement /\ r.head = g.head /\ r.tail = g.tail /\ r.new = g.new
  <2>1. g \in Replacement
    BY <1>1
  <2>2. /\ g.first \in Int /\ g.last \in Int /\ g.head \in Texts /\ g.tail \in Texts
        /\ g.new \in Seq(Texts)
    BY <2>1 DEF Replacement
  <2>3. PICK at \in Place : at = Translate(map.generations, g.first, g.last)
    BY <1>1, <2>2, TranslateTyped
  <2>4. at.first \in Int /\ at.last \in Int
    BY DEF Place
  <2>5. Moved(map.generations, g) = [g EXCEPT !.first = at.first, !.last = at.last]
    BY <2>3 DEF Moved
  <2>6. LET r == [g EXCEPT !.first = at.first, !.last = at.last]
        IN  r \in Replacement /\ r.head = g.head /\ r.tail = g.tail /\ r.new = g.new
    BY <2>1, <2>2, <2>4 DEF Replacement
  <2> QED
    BY <2>1, <2>5, <2>6 DEF Followed
<1>3. ASSUME NEW r \in Repointed(call.reps, Loaded)
      PROVE  /\ r \in Replacement
             /\ \E g \in call.reps : r.head = g.head /\ r.tail = g.tail /\ r.new = g.new
  BY <1>2 DEF Repointed
<1> QED
  BY <1>1, <1>3 DEF Resolved

LEMMA EditsFit ==
    ASSUME Typed, Accepted
    PROVE  /\ Fits(Edits, Len(call.lines)) /\ call.lines \in Seq(Line)
           /\ \A e \in Edits : \E g \in call.reps :
                 e.head = g.head /\ e.tail = g.tail /\ (g.new = <<>> <=> e.new = <<>>)
<1>1. call.lines \in Seq(Line) /\ Len(Loaded) = Len(call.lines)
  BY TextualIs DEF Typed, Loaded
<1>2. ASSUME NEW e \in Edits
      PROVE  \E r \in Resolved :
                /\ r \in Replacement /\ e \in Replacement
                /\ e = Prepared(r, Resolved, Loaded)
                /\ e.first = r.first /\ e.last = r.last /\ e.head = r.head /\ e.tail = r.tail
                /\ r.new = <<>> <=> e.new = <<>>
  <2>1. PICK r \in Resolved : e = Prepared(r, Resolved, Loaded)
    BY DEF Edits
  <2>2. r \in Replacement
    BY ResolvedIs
  <2>3. /\ e \in Replacement /\ e.first = r.first /\ e.last = r.last
        /\ e.head = r.head /\ e.tail = r.tail
    BY <2>1, <2>2, PreparedIs
  <2>4. r.new = <<>> <=> e.new = <<>>
    BY <2>1, <2>2, PreparedIs
  <2> QED
    BY <2>1, <2>2, <2>3, <2>4
<1>3. Edits \in SUBSET Replacement
  BY <1>2
<1>4. \A e \in Edits : 1 <= e.first /\ e.first <= e.last /\ e.last <= Len(call.lines)
  <2> SUFFICES ASSUME NEW e \in Edits
               PROVE  1 <= e.first /\ e.first <= e.last /\ e.last <= Len(call.lines)
    OBVIOUS
  <2>1. PICK r \in Resolved : e.first = r.first /\ e.last = r.last
    BY <1>2
  <2>2. AddressOK(r, Loaded)
    BY DEF Accepted
  <2> QED
    BY <1>1, <2>1, <2>2 DEF AddressOK
<1>5. ASSUME NEW e \in Edits, NEW h \in Edits, e # h
      PROVE  e.last < h.first \/ h.last < e.first
  <2>1. PICK r \in Resolved :
           e = Prepared(r, Resolved, Loaded) /\ e.first = r.first /\ e.last = r.last
    BY <1>2
  <2>2. PICK q \in Resolved :
           h = Prepared(q, Resolved, Loaded) /\ h.first = q.first /\ h.last = q.last
    BY <1>2
  <2>3. r # q
    BY <1>5, <2>1, <2>2
  <2>4. r.last < q.first \/ q.last < r.first
    BY <2>3 DEF Accepted, Disjoint
  <2> QED
    BY <2>1, <2>2, <2>4
<1>6. Fits(Edits, Len(call.lines))
  BY <1>3, <1>4, <1>5 DEF Fits, Disjoint
<1>7. \A e \in Edits : \E g \in call.reps :
         e.head = g.head /\ e.tail = g.tail /\ (g.new = <<>> <=> e.new = <<>>)
  <2> SUFFICES ASSUME NEW e \in Edits
               PROVE  \E g \in call.reps :
                        e.head = g.head /\ e.tail = g.tail /\ (g.new = <<>> <=> e.new = <<>>)
    OBVIOUS
  <2>1. PICK r \in Resolved :
           e.head = r.head /\ e.tail = r.tail /\ (r.new = <<>> <=> e.new = <<>>)
    BY <1>2
  <2>2. PICK g \in call.reps : r.head = g.head /\ r.tail = g.tail /\ r.new = g.new
    BY ResolvedIs
  <2> QED
    BY <2>1, <2>2
<1> QED
  BY <1>1, <1>6, <1>7

-----------------------------------------------------------------------------
(* Where the lines of a read are. *)

(* No line of the read is in the file twice. *)
Unique(lines) ==
    \A p, q \in 1..Len(lines) :
       (lines[p].origin # 0 /\ lines[p].origin = lines[q].origin) => p = q

(* A followed address has the lines first..last of the read, in order; of a *)
(* refused one, some line is gone.                                         *)
Placed(at, first, last, lines) ==
    IF at.ok
    THEN /\ 1 <= at.first /\ at.last = at.first + (last - first) /\ at.last <= Len(lines)
         /\ \A p \in at.first..at.last : lines[p].origin = first + (p - at.first)
    ELSE \E o \in first..last : \A p \in 1..Len(lines) : lines[p].origin # o

LEMMA SplicedKeepsOrigins ==
    ASSUME NEW lines \in Seq(Line), NEW reps, Fits(reps, Len(lines)), NEW new,
           new = Spliced(lines, reps)
    PROVE  /\ new \in Seq(Line)
           /\ Len(new) = Len(lines) + ShiftOf(Generation(reps), Len(lines) + 1)
           /\ \A p \in 1..Len(lines) : Free(Generation(reps), 0, p) =>
                 /\ p + ShiftOf(Generation(reps), p) \in 1..Len(new)
                 /\ new[p + ShiftOf(Generation(reps), p)] = lines[p]
           /\ \A q \in 1..Len(new) : new[q].origin # 0 =>
                 \E p \in 1..Len(lines) : /\ Free(Generation(reps), 0, p)
                                          /\ q = p + ShiftOf(Generation(reps), p)
                                          /\ new[q] = lines[p]
<1> DEFINE g == Generation(reps)
           asc == Ascending(reps)
<1>1. Half(lines, asc, g, 0, new)
  BY SplicedIs
<1>2. g \in Seq(Edit)
  <2>1. Len(lines) \in Nat
    OBVIOUS
  <2>2. Records(g, asc)
    BY <2>1, GenerationIs
  <2> HIDE DEF g, asc
  <2> QED
    BY <2>2 DEF Records
<1> HIDE DEF g, asc
<1>3. \A p : After(g, 0, p) = ShiftOf(g, p)
  BY <1>2, AfterUnfolds
<1>4. /\ new \in Seq(Line) /\ Len(new) = Len(lines) + ShiftOf(g, Len(lines) + 1)
      /\ \A p \in 1..Len(lines) : Free(g, 0, p) =>
            p + ShiftOf(g, p) \in 1..Len(new) /\ new[p + ShiftOf(g, p)] = lines[p]
      /\ \A q \in 1..Len(new) : new[q].origin # 0 =>
            \E p \in 1..Len(lines) : Free(g, 0, p) /\ q = p + ShiftOf(g, p)
  BY <1>1, <1>3 DEF Half
<1>5. \A q \in 1..Len(new) : new[q].origin # 0 =>
         \E p \in 1..Len(lines) : Free(g, 0, p) /\ q = p + ShiftOf(g, p) /\ new[q] = lines[p]
  BY <1>4
<1> QED
  BY <1>4, <1>5 DEF g

(* Lines that no edit separates move together. *)
LEMMA MoveTogether ==
    ASSUME NEW generation \in Seq(Edit), NEW p, NEW q,
           \A i \in 1..Len(generation) : generation[i].last < p <=> generation[i].last < q
    PROVE  ShiftOf(generation, p) = ShiftOf(generation, q)
<1> DEFINE N == Len(generation)
           T == {n \in 0..N : Shifts(generation, p)[n] = Shifts(generation, q)[n]}
<1>1. N \in Nat
  OBVIOUS
<1>2. 0 \in T
  BY <1>1, ShiftsUnfold
<1>3. ASSUME NEW n \in 0..(N - 1), n \in T PROVE n + 1 \in T
  <2>1. n + 1 \in 1..N /\ (n + 1) - 1 = n /\ n + 1 \in 0..N
    BY <1>1
  <2>2. Shifts(generation, p)[n + 1] = Shifts(generation, p)[n]
           + IF generation[n + 1].last < p THEN generation[n + 1].delta ELSE 0
    BY <1>1, <2>1, ShiftsUnfold
  <2>3. Shifts(generation, q)[n + 1] = Shifts(generation, q)[n]
           + IF generation[n + 1].last < q THEN generation[n + 1].delta ELSE 0
    BY <1>1, <2>1, ShiftsUnfold
  <2>4. generation[n + 1].last < p <=> generation[n + 1].last < q
    BY <2>1
  <2> QED
    BY <1>3, <2>1, <2>2, <2>3, <2>4
<1>4. 0..N \subseteq T
  <2> HIDE DEF T, N
  <2> QED
    BY <1>1, <1>2, <1>3, UpTo
<1>5. N \in 0..N
  BY <1>1
<1> QED
  BY <1>4, <1>5 DEF ShiftOf

(* A call's generation takes an address where its splices take the lines.   *)
LEMMA ThroughPlaces ==
    ASSUME NEW lines \in Seq(Line), NEW reps, Fits(reps, Len(lines)), Unique(lines),
           NEW first \in Int, NEW last \in Int, 1 <= first, first <= last,
           NEW at \in Place, Placed(at, first, last, lines)
    PROVE  Placed(Through(at, Generation(reps)), first, last, Spliced(lines, reps))
<1> DEFINE g == Generation(reps)
           new == Spliced(lines, reps)
           L == Len(lines)
<1>1. L \in Nat
  OBVIOUS
<1>2. g \in Seq(Edit) /\ Ordered(g, L)
  <2>1. Records(g, Ascending(reps)) /\ Ordered(g, L)
    BY <1>1, GenerationIs
  <2> HIDE DEF g
  <2> QED
    BY <2>1 DEF Records
<1>3. /\ new \in Seq(Line)
      /\ \A p \in 1..L : Free(g, 0, p) =>
            p + ShiftOf(g, p) \in 1..Len(new) /\ new[p + ShiftOf(g, p)] = lines[p]
      /\ \A q \in 1..Len(new) : new[q].origin # 0 =>
            \E p \in 1..L : Free(g, 0, p) /\ q = p + ShiftOf(g, p) /\ new[q] = lines[p]
  BY SplicedKeepsOrigins
<1>4. \A i \in 1..Len(g) : g[i].first \in Int /\ g[i].last \in Int /\ g[i].delta \in Int
                           /\ 1 <= g[i].first /\ g[i].first <= g[i].last /\ g[i].last <= L
  BY <1>2, EditTyped DEF Ordered
<1>5. at.ok \in BOOLEAN /\ at.first \in Int /\ at.last \in Int
  BY DEF Place
<1> HIDE DEF g, new, L
<1>6. Len(new) \in Nat
  BY <1>3
<1>7. \A p : Free(g, 0, p) <=> \A k \in 1..Len(g) : ~(g[k].first <= p /\ p <= g[k].last)
  BY DEF Free
<1>8. CASE ~at.ok
  <2>1. PICK o \in first..last : \A p \in 1..L : lines[p].origin # o
    BY <1>8 DEF Placed, L
  <2>2. o # 0
    OBVIOUS
  <2>3. \A q \in 1..Len(new) : new[q].origin # o
    BY <1>3, <2>1, <2>2
  <2>4. Through(at, g) = Refused
    BY <1>8 DEF Through
  <2>5. Placed(Refused, first, last, new)
    BY <2>3 DEF Placed, Refused
  <2> QED
    BY <2>4, <2>5 DEF g, new
<1>9. CASE at.ok /\ \E i \in 1..Len(g) : Meets(g[i], at.first, at.last)
  <2>1. PICK i \in 1..Len(g) : g[i].first <= at.last /\ at.first <= g[i].last
    BY <1>9 DEF Meets
  <2>2. /\ 1 <= at.first /\ at.last = at.first + (last - first) /\ at.last <= L
        /\ \A p \in at.first..at.last : lines[p].origin = first + (p - at.first)
    BY <1>9 DEF Placed, L
  <2>3. PICK p \in Int : /\ at.first <= p /\ p <= at.last
                         /\ g[i].first <= p /\ p <= g[i].last
    <3>1. CASE g[i].first <= at.first
      <4>1. at.first <= at.last
        BY <1>5, <2>2
      <4> QED
        BY <1>4, <1>5, <2>1, <3>1, <4>1
    <3>2. CASE at.first <= g[i].first
      BY <1>4, <1>5, <2>1, <3>2
    <3> QED
      BY <1>4, <1>5, <3>1, <3>2
  <2> DEFINE o == first + (p - at.first)
  <2>4. p \in 1..L /\ p \in at.first..at.last
    BY <1>1, <1>5, <2>2, <2>3
  <2>5. lines[p].origin = o /\ o \in first..last /\ o # 0
    <3>1. lines[p].origin = o
      BY <2>2, <2>4
    <3>2. \A x, y \in Int :
             x <= p /\ p <= y /\ y = x + (last - first) =>
                first + (p - x) \in first..last /\ first + (p - x) # 0
      BY <2>3
    <3> HIDE DEF o
    <3>3. o \in first..last /\ o # 0
      BY <1>5, <2>2, <2>3, <3>2 DEF o
    <3> QED
      BY <3>1, <3>3
  <2> HIDE DEF o
  <2>6. ~Free(g, 0, p)
    BY <1>7, <2>3
  <2>7. ASSUME NEW q \in 1..Len(new), new[q].origin = o PROVE FALSE
    <3>1. PICK h \in 1..L : Free(g, 0, h) /\ new[q] = lines[h]
      BY <1>3, <2>5, <2>7
    <3>2. lines[h].origin = lines[p].origin /\ lines[h].origin # 0
      BY <2>5, <2>7, <3>1
    <3>3. h = p
      BY <2>4, <3>2 DEF Unique, L
    <3> QED
      BY <2>6, <3>1, <3>3
  <2>8. Through(at, g) = Refused
    <3>1. DOMAIN g = 1..Len(g)
      BY <1>2
    <3> QED
      BY <1>9, <3>1 DEF Through
  <2>9. Placed(Refused, first, last, new)
    BY <2>5, <2>7 DEF Placed, Refused
  <2> QED
    BY <2>8, <2>9 DEF g, new
<1>10. CASE at.ok /\ ~ \E i \in 1..Len(g) : Meets(g[i], at.first, at.last)
  <2> DEFINE shift == ShiftOf(g, at.first)
             now == [ok |-> TRUE, first |-> at.first + shift, last |-> at.last + shift]
  <2>1. Through(at, g) = now
    <3>1. DOMAIN g = 1..Len(g)
      BY <1>2
    <3> QED
      BY <1>10, <3>1 DEF Through
  <2>2. /\ 1 <= at.first /\ at.last = at.first + (last - first) /\ at.last <= L
        /\ \A p \in at.first..at.last : lines[p].origin = first + (p - at.first)
    BY <1>10 DEF Placed, L
  <2>3. shift \in Int
    <3>1. Len(g) \in 0..Len(g)
      BY <1>2
    <3> QED
      BY <1>2, <3>1, ShiftsTyped DEF ShiftOf
  <2>4. ASSUME NEW i \in 1..Len(g) PROVE at.last < g[i].first \/ g[i].last < at.first
    <3>1. ~(g[i].first <= at.last /\ at.first <= g[i].last)
      BY <1>10 DEF Meets
    <3> QED
      BY <1>4, <1>5, <3>1
  <2>5. ASSUME NEW p \in at.first..at.last
        PROVE  /\ p \in 1..L /\ Free(g, 0, p) /\ ShiftOf(g, p) = shift
    <3>1. p \in Int /\ at.first <= p /\ p <= at.last /\ p \in 1..L
      BY <1>1, <1>5, <2>2
    <3>2. ASSUME NEW i \in 1..Len(g)
          PROVE  /\ ~(g[i].first <= p /\ p <= g[i].last)
                 /\ g[i].last < p <=> g[i].last < at.first
      <4>1. g[i].first \in Int /\ g[i].last \in Int /\ g[i].first <= g[i].last
        BY <1>4
      <4> QED
        BY <1>5, <2>4, <3>1, <4>1
    <3>3. Free(g, 0, p)
      BY <1>7, <3>2
    <3>4. ShiftOf(g, p) = shift
      BY <1>2, <3>2, MoveTogether
    <3> QED
      BY <3>1, <3>3, <3>4
  <2> HIDE DEF shift
  <2>6. ASSUME NEW p \in at.first..at.last
        PROVE  p + shift \in 1..Len(new) /\ new[p + shift].origin = first + (p - at.first)
    <3>1. p + ShiftOf(g, p) \in 1..Len(new) /\ new[p + ShiftOf(g, p)] = lines[p]
      BY <1>3, <2>5
    <3> QED
      BY <2>2, <2>5, <3>1
  <2>7. at.first \in at.first..at.last /\ at.last \in at.first..at.last
    BY <1>5, <2>2
  <2>8. 1 <= at.first + shift /\ at.last + shift <= Len(new)
    BY <1>6, <2>6, <2>7
  <2>9. at.last + shift = (at.first + shift) + (last - first)
    BY <1>5, <2>2, <2>3
  <2>10. ASSUME NEW q \in (at.first + shift)..(at.last + shift)
         PROVE  new[q].origin = first + (q - (at.first + shift))
    <3> DEFINE p == q - shift
    <3>1. p \in at.first..at.last /\ p + shift = q
          /\ first + (p - at.first) = first + (q - (at.first + shift))
      BY <1>5, <2>3
    <3> HIDE DEF p
    <3>2. new[p + shift].origin = first + (p - at.first)
      BY <2>6, <3>1
    <3> QED
      BY <3>1, <3>2
  <2>11. Placed(now, first, last, new)
    BY <2>8, <2>9, <2>10 DEF Placed
  <2> HIDE DEF now
  <2> QED
    BY <2>1, <2>11 DEF g, new
<1> QED
  BY <1>5, <1>8, <1>9, <1>10

LEMMA SplicedUnique ==
    ASSUME NEW lines \in Seq(Line), NEW reps, Fits(reps, Len(lines)), Unique(lines)
    PROVE  Unique(Spliced(lines, reps))
<1> DEFINE new == Spliced(lines, reps)
           g == Generation(reps)
<1>1. \A q \in 1..Len(new) : new[q].origin # 0 =>
         \E p \in 1..Len(lines) :
            Free(g, 0, p) /\ q = p + ShiftOf(g, p) /\ new[q] = lines[p]
  BY SplicedKeepsOrigins
<1> HIDE DEF new, g
<1>2. ASSUME NEW p \in 1..Len(new), NEW q \in 1..Len(new),
             new[p].origin # 0, new[p].origin = new[q].origin
      PROVE  p = q
  <2>1. PICK i \in 1..Len(lines) : p = i + ShiftOf(g, i) /\ new[p] = lines[i]
    BY <1>1, <1>2
  <2>2. PICK j \in 1..Len(lines) : q = j + ShiftOf(g, j) /\ new[q] = lines[j]
    BY <1>1, <1>2
  <2>3. i = j
    BY <1>2, <2>1, <2>2 DEF Unique
  <2> QED
    BY <2>1, <2>2, <2>3
<1> QED
  BY <1>2 DEF Unique, new

(* One more generation is one more step of the walk. *)
LEMMA WalkAppend ==
    ASSUME NEW generations, NEW S, generations \in Seq(S), NEW generation \in S,
           NEW first, NEW last
    PROVE  /\ Len(Append(generations, generation)) = Len(generations) + 1
           /\ Walk(Append(generations, generation), first, last)[Len(generations) + 1] =
                Through(Walk(generations, first, last)[Len(generations)], generation)
<1> DEFINE N == Len(generations)
           more == Append(generations, generation)
           f == Walk(generations, first, last)
           h == Walk(more, first, last)
           T == {n \in 0..N : f[n] = h[n]}
<1>1. /\ N \in Nat /\ Len(more) = N + 1 /\ more[N + 1] = generation
      /\ \A n \in 1..N : more[n] = generations[n]
  OBVIOUS
<1>2. N + 1 \in Nat /\ N + 1 \in 1..(N + 1) /\ (N + 1) - 1 = N /\ N \in 0..N
  BY <1>1
<1>3. f[0] = h[0]
  <2>1. f[0] = [ok |-> TRUE, first |-> first, last |-> last]
    BY <1>1, WalkBegins
  <2>2. Len(more) \in Nat
    BY <1>1, <1>2
  <2> HIDE DEF more
  <2>3. h[0] = [ok |-> TRUE, first |-> first, last |-> last]
    BY <2>2, WalkBegins
  <2> QED
    BY <2>1, <2>3
<1>4. ASSUME NEW n \in 1..N PROVE f[n] = Through(f[n-1], generations[n])
  BY <1>1, WalkGoesOn
<1>5. ASSUME NEW n \in 1..(N + 1) PROVE h[n] = Through(h[n-1], more[n])
  <2>1. Len(more) \in Nat /\ n \in 1..Len(more)
    BY <1>1, <1>2
  <2> HIDE DEF more
  <2> QED
    BY <2>1, WalkGoesOn
<1> HIDE DEF f, h, more, N
<1>6. ASSUME NEW n \in 0..(N - 1), n \in T PROVE n + 1 \in T
  <2>1. n + 1 \in 1..N /\ n + 1 \in 1..(N + 1) /\ (n + 1) - 1 = n /\ n + 1 \in 0..N
    BY <1>1
  <2>2. f[n + 1] = Through(f[n], generations[n + 1])
    BY <1>4, <2>1
  <2>3. h[n + 1] = Through(h[n], more[n + 1])
    BY <1>5, <2>1
  <2>4. f[n] = h[n] /\ more[n + 1] = generations[n + 1]
    BY <1>1, <1>6, <2>1
  <2> QED
    BY <2>1, <2>2, <2>3, <2>4
<1>7. N \in T
  <2>1. 0 \in T
    BY <1>1, <1>3
  <2> HIDE DEF T
  <2>2. 0..N \subseteq T
    BY <1>1, <1>6, <2>1, UpTo
  <2> QED
    BY <1>2, <2>2
<1>8. h[N + 1] = Through(f[N], generation)
  BY <1>1, <1>2, <1>5, <1>7
<1> QED
  BY <1>1, <1>8 DEF f, h, more, N

-----------------------------------------------------------------------------
(* What a step leaves typed. *)

LEMMA AsReadIs ==
    ASSUME NEW texts \in Seq(Texts)
    PROVE  /\ AsRead(texts) \in Seq(Line) /\ Len(AsRead(texts)) = Len(texts)
           /\ \A p \in 1..Len(texts) : AsRead(texts)[p].origin = p
<1>1. Len(texts) \in Nat /\ DOMAIN texts = 1..Len(texts)
  OBVIOUS
<1>2. \A p \in 1..Len(texts) : texts[p] \in Texts /\ p \in Nat
  OBVIOUS
<1>3. \A p \in 1..Len(texts) : [text |-> texts[p], origin |-> p] \in Line
  BY <1>2 DEF Line
<1>4. AsRead(texts) = [p \in 1..Len(texts) |-> [text |-> texts[p], origin |-> p]]
  BY <1>1 DEF AsRead
<1>5. AsRead(texts) \in [1..Len(texts) -> Line]
  BY <1>3, <1>4
<1>6. AsRead(texts) \in Seq(Line)
  BY <1>1, <1>5, SeqDef
<1> QED
  BY <1>1, <1>4, <1>5, <1>6

LEMMA FilesTyped == Files \subseteq Seq(Texts)
<1> SUFFICES ASSUME NEW lines \in Files PROVE lines \in Seq(Texts)
  OBVIOUS
<1>1. PICK n \in 1..MaxLines : lines \in [1..n -> Texts]
  BY DEF Files
<1>2. n \in Nat
  BY HashedEditAssumption
<1> QED
  BY <1>1, <1>2, SeqDef

LEMMA RequestsTyped ==
    ASSUME seen \in Seq(Texts)
    PROVE  Requests \subseteq Replacement
<1> SUFFICES ASSUME NEW r \in Requests PROVE r \in Replacement
  OBVIOUS
<1>1. PICK i \in Intervals, new \in NewTexts : r = Address(i[1], i[2], new)
  BY DEF Requests
<1>2. i[1] \in 1..Len(seen) /\ i[2] \in 1..Len(seen)
  BY <1>1 DEF Intervals
<1>3. i[1] \in Int /\ i[2] \in Int /\ seen[i[1]] \in Texts /\ seen[i[2]] \in Texts
  BY <1>2
<1>4. new \in Seq(Texts)
  <2>1. PICK n \in 0..MaxNew : new \in [1..n -> Texts]
    BY <1>1 DEF NewTexts
  <2>2. n \in Nat
    BY HashedEditAssumption
  <2> QED
    BY <2>1, <2>2, SeqDef
<1> QED
  BY <1>1, <1>3, <1>4 DEF Address, Replacement

LEMMA GenerationTyped ==
    ASSUME NEW reps, NEW L \in Nat, Fits(reps, L)
    PROVE  Generation(reps) \in Seq(Edit)
<1>1. Records(Generation(reps), Ascending(reps))
  BY GenerationIs
<1> QED
  BY <1>1 DEF Records

LEMMA KeptTyped ==
    ASSUME Typed
    PROVE  Kept \in [there : BOOLEAN, fingerprint : Seq(Texts), generations : Seq(Seq(Edit))]
<1>1. NoMap \in [there : BOOLEAN, fingerprint : Seq(Texts), generations : Seq(Seq(Edit))]
  <2>1. <<>> \in Seq(Texts) /\ <<>> \in Seq(Seq(Edit))
    OBVIOUS
  <2> QED
    BY <2>1 DEF NoMap
<1>2. map \in [there : BOOLEAN, fingerprint : Seq(Texts), generations : Seq(Seq(Edit))]
  BY DEF Typed
<1>3. Kept = map \/ Kept = NoMap
  BY DEF Kept
<1> QED
  BY <1>1, <1>2, <1>3

LEMMA NoCallTyped ==
    NoCall \in [at : {"idle", "loaded"}, lines : Seq(Line), reps : SUBSET Replacement]
<1>1. <<>> \in Seq(Line) /\ {} \in SUBSET Replacement
  OBVIOUS
<1> QED
  BY <1>1 DEF NoCall

(* A person's change leaves lines. *)
LEMMA OutsideTyped ==
    ASSUME Typed, NEW i \in DOMAIN file, Outside(i)
    PROVE  file' \in Seq(Line)
<1>1. file \in Seq(Line) /\ i \in 1..Len(file) /\ Len(file) \in Nat
  BY DEF Typed
<1>2. /\ SubSeq(file, 1, i - 1) \in Seq(Line) /\ SubSeq(file, i + 1, Len(file)) \in Seq(Line)
      /\ SubSeq(file, i, Len(file)) \in Seq(Line)
  <2>1. \A p \in 1..Len(file) : file[p] \in Line
    BY <1>1
  <2>2. /\ i - 1 \in Int /\ i + 1 \in Int
        /\ \A p \in 1..(i-1) : p \in 1..Len(file)
        /\ \A p \in (i+1)..Len(file) : p \in 1..Len(file)
        /\ \A p \in i..Len(file) : p \in 1..Len(file)
    BY <1>1
  <2> QED
    BY <1>1, <2>1, <2>2, SubSeqProperties
<1>3. RemoveAt(file, i) \in Seq(Line)
  BY <1>2 DEF RemoveAt
<1>4. ASSUME NEW text \in Texts PROVE InsertAt(file, i, New(text)) \in Seq(Line)
  <2>1. New(text) \in Line
    BY DEF New, Line
  <2>2. <<New(text)>> \in Seq(Line)
    BY <2>1
  <2> HIDE DEF New
  <2> QED
    BY <1>2, <2>2 DEF InsertAt
<1> QED
  BY <1>3, <1>4 DEF Outside

LEMMA InitTyped == Init => Typed
<1> SUFFICES ASSUME Init PROVE Typed
  OBVIOUS
<1>1. seen \in Seq(Texts)
  BY FilesTyped DEF Init
<1>2. file \in Seq(Line)
  BY <1>1, AsReadIs DEF Init
<1>3. NoMap \in [there : BOOLEAN, fingerprint : Seq(Texts), generations : Seq(Seq(Edit))]
  <2>1. <<>> \in Seq(Texts) /\ <<>> \in Seq(Seq(Edit))
    OBVIOUS
  <2> QED
    BY <2>1 DEF NoMap
<1> QED
  BY <1>1, <1>2, <1>3, NoCallTyped DEF Init, Typed

LEMMA StepTyped == Typed /\ [Next]_vars => Typed'
<1> SUFFICES ASSUME Typed, [Next]_vars PROVE Typed'
  OBVIOUS
<1>1. CASE Read
  <2>1. seen' \in Seq(Texts)
    BY <1>1, TextualIs DEF Read, Typed
  <2>2. file' \in Seq(Line)
    BY <1>1, <2>1, AsReadIs DEF Read
  <2>3. NoMap \in [there : BOOLEAN, fingerprint : Seq(Texts), generations : Seq(Seq(Edit))]
    <3>1. <<>> \in Seq(Texts) /\ <<>> \in Seq(Seq(Edit))
      OBVIOUS
    <3> QED
      BY <3>1 DEF NoMap
  <2>4. call' = call /\ map' = NoMap /\ whole' = TRUE /\ calls' = calls /\ outside' = outside
    BY <1>1 DEF Read
  <2>5. /\ call \in [at : {"idle", "loaded"}, lines : Seq(Line), reps : SUBSET Replacement]
        /\ calls \in Nat /\ outside \in Nat
    BY DEF Typed
  <2> HIDE DEF NoMap
  <2> QED
    BY <2>1, <2>2, <2>3, <2>4, <2>5 DEF Typed
<1>2. CASE \E i \in DOMAIN file : Outside(i)
  <2>1. PICK i \in DOMAIN file : Outside(i)
    BY <1>2
  <2>2. file' \in Seq(Line)
    BY <2>1, OutsideTyped
  <2>3. /\ outside' = outside + 1 /\ whole' = FALSE
        /\ seen' = seen /\ map' = map /\ call' = call /\ calls' = calls
    BY <2>1 DEF Outside
  <2>4. outside' \in Nat
    <3>1. outside \in Nat /\ outside' = outside + 1
      BY <2>3 DEF Typed
    <3> QED
      BY <3>1
  <2>5. whole' \in BOOLEAN
    BY <2>3, Zenon
  <2>6. /\ seen' \in Seq(Texts) /\ calls' \in Nat
        /\ map' \in [there : BOOLEAN, fingerprint : Seq(Texts), generations : Seq(Seq(Edit))]
        /\ call' \in [at : {"idle", "loaded"}, lines : Seq(Line), reps : SUBSET Replacement]
    BY <2>3 DEF Typed
  <2> QED
    BY <2>2, <2>4, <2>5, <2>6, Zenon DEF Typed
<1>3. ASSUME NEW n \in Nat, NEW asked \in [1..n -> Requests], Load(Range(asked)) PROVE Typed'
  <2>1. Range(asked) \subseteq Replacement
    <3>1. Range(asked) \subseteq Requests
      BY DEF Range
    <3> QED
      BY <3>1, RequestsTyped DEF Typed
  <2> DEFINE reps == Range(asked)
  <2> HIDE DEF reps
  <2>2. call' = [at |-> "loaded", lines |-> file, reps |-> reps]
    BY <1>3 DEF Load, reps
  <2>3. call' \in [at : {"idle", "loaded"}, lines : Seq(Line), reps : SUBSET Replacement]
    BY <2>1, <2>2 DEF Typed, reps
  <2> QED
    BY <1>3, <2>3 DEF Load, Typed
<1>4. CASE Write
  <2>1. /\ Fits(Edits, Len(call.lines)) /\ call.lines \in Seq(Line)
    BY <1>4, EditsFit DEF Write
  <2>2. file' \in Seq(Line)
    BY <1>4, <2>1, SplicedKeepsOrigins DEF Write
  <2>3. PICK texts \in Seq(Texts) : texts = Textual(file')
    BY <2>2, TextualIs
  <2>4. PICK generation \in Seq(Edit) : generation = Generation(Edits)
    <3>1. Len(call.lines) \in Nat
      BY <2>1
    <3> QED
      BY <2>1, <3>1, GenerationTyped
  <2>5. Kept.generations \in Seq(Seq(Edit))
    BY KeptTyped
  <2>6. Append(Kept.generations, generation) \in Seq(Seq(Edit))
    BY <2>5, AppendProperties
  <2>7. map' = [there |-> TRUE, fingerprint |-> texts,
                generations |-> Append(Kept.generations, generation)]
    BY <1>4, <2>3, <2>4 DEF Write
  <2>8. map' \in [there : BOOLEAN, fingerprint : Seq(Texts), generations : Seq(Seq(Edit))]
    BY <2>6, <2>7
  <2>9. whole' \in BOOLEAN /\ call' = NoCall
        /\ seen' = seen /\ calls' = calls /\ outside' = outside
    BY <1>4 DEF Write, Typed
  <2> QED
    BY <2>2, <2>8, <2>9, NoCallTyped DEF Typed
<1>5. CASE Refuse
  <2>1. /\ whole' \in BOOLEAN /\ call' = NoCall /\ map' = Kept
        /\ seen' = seen /\ file' = file /\ calls' = calls /\ outside' = outside
    BY <1>5 DEF Refuse
  <2> QED
    BY <2>1, KeptTyped, NoCallTyped DEF Typed
<1>6. ASSUME NEW landed \in BOOLEAN, Cut(landed) PROVE Typed'
  <2>1. /\ Fits(Edits, Len(call.lines)) /\ call.lines \in Seq(Line)
    BY <1>6, EditsFit DEF Cut
  <2>2. Spliced(call.lines, Edits) \in Seq(Line)
    BY <2>1, SplicedKeepsOrigins
  <2>3. file' \in Seq(Line)
    BY <1>6, <2>2 DEF Cut, Typed
  <2>4. /\ whole' \in BOOLEAN /\ call' = NoCall /\ map' = Kept
        /\ seen' = seen /\ calls' = calls /\ outside' = outside
    BY <1>6 DEF Cut
  <2> QED
    BY <2>3, <2>4, KeptTyped, NoCallTyped DEF Typed
<1>7. CASE UNCHANGED vars
  BY <1>7 DEF vars, Typed
<1>8. CASE \E n \in 1..(IF calls < MaxPairs THEN MaxReps ELSE 1) :
              \E asked \in [1..n -> Requests] : Load(Range(asked))
  <2>1. (IF calls < MaxPairs THEN MaxReps ELSE 1) \in Nat
    BY HashedEditAssumption
  <2>2. 1..(IF calls < MaxPairs THEN MaxReps ELSE 1) \subseteq Nat
    BY <2>1
  <2> QED
    BY <1>3, <1>8, <2>2
<1> QED
  BY <1>1, <1>2, <1>4, <1>5, <1>6, <1>7, <1>8 DEF Next

-----------------------------------------------------------------------------
(* While the map has every change since the read, the walk through its     *)
(* generations leads from where lines were read to where they are, and a   *)
(* call that is in flight has loaded the file that is there.               *)
Traced ==
    whole =>
       /\ call.at = "loaded" => call.lines = file
       /\ Unique(file)
       /\ \A first, last \in 1..Len(seen) : first <= last =>
             Placed(Walk(map.generations, first, last)[Len(map.generations)],
                    first, last, file)

(* Right after a read, every line is where it was read. *)
LEMMA FreshlyRead ==
    ASSUME NEW texts \in Seq(Texts)
    PROVE  /\ Unique(AsRead(texts))
           /\ \A first, last \in 1..Len(texts) : first <= last =>
                 Placed(Walk(<<>>, first, last)[Len(<<>>)], first, last, AsRead(texts))
<1> DEFINE lines == AsRead(texts)
<1>1. /\ lines \in Seq(Line) /\ Len(lines) = Len(texts) /\ Len(texts) \in Nat
      /\ \A p \in 1..Len(texts) : lines[p].origin = p
  BY AsReadIs
<1> HIDE DEF lines
<1>2. Unique(lines)
  BY <1>1 DEF Unique
<1>3. ASSUME NEW first \in 1..Len(texts), NEW last \in 1..Len(texts), first <= last
      PROVE  Placed(Walk(<<>>, first, last)[Len(<<>>)], first, last, lines)
  <2>1. Len(<<>>) = 0
    OBVIOUS
  <2>2. Len(<<>>) \in Nat
    OBVIOUS
  <2>3. Walk(<<>>, first, last)[0] = [ok |-> TRUE, first |-> first, last |-> last]
    BY <2>2, WalkBegins
  <2> DEFINE at == [ok |-> TRUE, first |-> first, last |-> last]
  <2>4. at.ok /\ at.first = first /\ at.last = last
    OBVIOUS
  <2>5. 1 <= first /\ last = first + (last - first) /\ last <= Len(lines)
    BY <1>1
  <2>6. ASSUME NEW p \in first..last PROVE lines[p].origin = first + (p - first)
    <3>1. p \in 1..Len(texts) /\ first + (p - first) = p
      BY <1>1
    <3> QED
      BY <1>1, <3>1
  <2> HIDE DEF at
  <2>7. Placed(at, first, last, lines)
    BY <2>4, <2>5, <2>6 DEF Placed
  <2> QED
    BY <2>1, <2>3, <2>7 DEF at
<1> QED
  BY <1>2, <1>3 DEF lines

LEMMA InitTraced == Init => Traced
<1> SUFFICES ASSUME Init PROVE Traced
  OBVIOUS
<1>1. seen \in Seq(Texts)
  BY FilesTyped DEF Init
<1>2. file = AsRead(seen) /\ map.generations = <<>> /\ call.at = "idle"
  BY DEF Init, NoMap, NoCall
<1> QED
  BY <1>1, <1>2, FreshlyRead DEF Traced

LEMMA WriteTraced ==
    ASSUME Typed, Traced, Write
    PROVE  Traced'
<1> SUFFICES ASSUME whole'
             PROVE  /\ call'.at = "loaded" => call'.lines = file'
                    /\ Unique(file')
                    /\ \A first, last \in 1..Len(seen') : first <= last =>
                          Placed(Walk(map'.generations, first, last)[Len(map'.generations)],
                                 first, last, file')
  BY DEF Traced
<1>1. /\ whole /\ Kept = map /\ call.at = "loaded" /\ call'.at = "idle" /\ seen' = seen
      /\ map'.generations = Append(map.generations, Generation(Edits))
      /\ file' = Spliced(call.lines, Edits)
  BY DEF Write, NoCall
<1>2. /\ Fits(Edits, Len(call.lines)) /\ call.lines \in Seq(Line)
  BY EditsFit DEF Write
<1>3. call.lines = file /\ Unique(file) /\ file' = Spliced(file, Edits)
  BY <1>1 DEF Traced
<1>4. file \in Seq(Line) /\ Fits(Edits, Len(file)) /\ Len(file) \in Nat
  BY <1>2, <1>3
<1>5. Unique(file')
  BY <1>3, <1>4, SplicedUnique
<1>6. PICK generation \in Seq(Edit) : generation = Generation(Edits)
  BY <1>4, GenerationTyped
<1>7. map.generations \in Seq(Seq(Edit)) /\ seen \in Seq(Texts)
  BY DEF Typed
<1>8. ASSUME NEW first \in 1..Len(seen), NEW last \in 1..Len(seen), first <= last
      PROVE  Placed(Walk(map'.generations, first, last)[Len(map'.generations)],
                    first, last, file')
  <2>1. first \in Int /\ last \in Int /\ 1 <= first /\ Len(map.generations) \in 0..Len(map.generations)
    BY <1>7
  <2>2. PICK at \in Place : at = Walk(map.generations, first, last)[Len(map.generations)]
    BY <1>7, <2>1, WalkTyped
  <2>3. Placed(at, first, last, file)
    BY <1>1, <1>8, <2>2 DEF Traced
  <2>4. Placed(Through(at, generation), first, last, file')
    BY <1>3, <1>4, <1>6, <1>8, <2>1, <2>3, ThroughPlaces
  <2>5. map'.generations = Append(map.generations, generation)
    BY <1>1, <1>6
  <2>6. /\ Len(map'.generations) = Len(map.generations) + 1
        /\ Walk(map'.generations, first, last)[Len(map.generations) + 1] = Through(at, generation)
    BY <1>7, <2>2, <2>5, WalkAppend
  <2> QED
    BY <2>4, <2>6
<1> QED
  BY <1>1, <1>5, <1>8

LEMMA StepTraced == Typed /\ Traced /\ [Next]_vars => Traced'
<1> SUFFICES ASSUME Typed, Traced, [Next]_vars PROVE Traced'
  OBVIOUS
<1>1. CASE Read
  <2>1. seen' \in Seq(Texts)
    BY <1>1, TextualIs DEF Read, Typed
  <2>2. file' = AsRead(seen') /\ map'.generations = <<>> /\ call'.at = "idle"
    BY <1>1 DEF Read, NoMap, NoCall
  <2> QED
    BY <2>1, <2>2, FreshlyRead DEF Traced
<1>2. CASE \E i \in DOMAIN file : Outside(i)
  BY <1>2 DEF Outside, Traced
<1>3. ASSUME NEW reps, Load(reps) PROVE Traced'
  BY <1>3 DEF Load, Traced
<1>4. CASE Write
  BY <1>4, WriteTraced
<1>5. CASE Refuse
  BY <1>5 DEF Refuse, NoCall, Traced
<1>6. ASSUME NEW landed \in BOOLEAN, Cut(landed) PROVE Traced'
  BY <1>6 DEF Cut, NoCall, Traced
<1>7. CASE UNCHANGED vars
  BY <1>7 DEF vars, Traced
<1> QED
  BY <1>1, <1>2, <1>3, <1>4, <1>5, <1>6, <1>7 DEF Next

(* What a walk comes to is a place, or refused. *)
LEMMA WalkEnds ==
    ASSUME NEW generations \in Seq(Seq(Edit)), NEW first \in Int, NEW last \in Int,
           NEW at, at = Walk(generations, first, last)[Len(generations)], ~at.ok
    PROVE  at = Refused
<1> DEFINE N == Len(generations)
<1>1. N \in Nat
  OBVIOUS
<1>2. CASE N = 0
  <2>1. at = [ok |-> TRUE, first |-> first, last |-> last]
    BY <1>1, <1>2, WalkBegins
  <2> QED
    BY <2>1
<1>3. CASE N # 0
  <2> DEFINE walk == Walk(generations, first, last)
  <2>1. N \in 1..Len(generations)
    BY <1>1, <1>3
  <2>2. walk[N] = Through(walk[N - 1], generations[N])
    BY <1>1, <2>1, WalkGoesOn
  <2> HIDE DEF walk, N
  <2>3. Through(walk[N - 1], generations[N]).ok \/ Through(walk[N - 1], generations[N]) = Refused
    BY DEF Through
  <2> QED
    BY <2>2, <2>3 DEF walk, N
<1> QED
  BY <1>2, <1>3

(* Where lines are found is where they are placed, and nowhere else. *)
LEMMA FoundWherePlaced ==
    ASSUME NEW lines \in Seq(Line), Unique(lines),
           NEW first \in Int, NEW last \in Int, 1 <= first, first <= last,
           NEW at \in Place, Placed(at, first, last, lines)
    PROVE  {p \in 1..(Len(lines) - (last - first)) :
               \A k \in 0..(last - first) : lines[p + k].origin = first + k}
             = IF at.ok THEN {at.first} ELSE {}
<1> DEFINE P == {p \in 1..(Len(lines) - (last - first)) :
                    \A k \in 0..(last - first) : lines[p + k].origin = first + k}
<1>1. Len(lines) \in Nat
  OBVIOUS
<1>2. CASE at.ok
  <2>1. at.first \in Int /\ at.last \in Int
    BY DEF Place
  <2>2. /\ 1 <= at.first /\ at.last = at.first + (last - first) /\ at.last <= Len(lines)
        /\ \A p \in at.first..at.last : lines[p].origin = first + (p - at.first)
    BY <1>2 DEF Placed
  <2>3. at.first \in 1..(Len(lines) - (last - first)) /\ at.first \in 1..Len(lines)
    BY <1>1, <2>1, <2>2
  <2>4. ASSUME NEW k \in 0..(last - first)
        PROVE  lines[at.first + k].origin = first + k
    <3>1. at.first + k \in at.first..at.last /\ first + ((at.first + k) - at.first) = first + k
      BY <2>1, <2>2
    <3> QED
      BY <2>2, <3>1
  <2>5. 0 \in 0..(last - first) /\ first + 0 = first /\ first # 0 /\ at.first + 0 = at.first
    BY <2>1
  <2>6. lines[at.first].origin = first
    BY <2>4, <2>5
  <2>7. ASSUME NEW p \in P PROVE p = at.first
    <3>1. p \in 1..(Len(lines) - (last - first)) /\ lines[p + 0].origin = first + 0
      BY <2>5
    <3>2. p \in 1..Len(lines) /\ p + 0 = p
      BY <1>1, <3>1
    <3>3. lines[p].origin = first
      BY <2>5, <3>1, <3>2
    <3> QED
      BY <2>3, <2>5, <2>6, <3>2, <3>3 DEF Unique
  <2>8. at.first \in P
    BY <2>3, <2>4
  <2> HIDE DEF P
  <2>9. P = {at.first}
    BY <2>7, <2>8
  <2> QED
    BY <1>2, <2>9 DEF P
<1>3. CASE ~at.ok
  <2>1. PICK o \in first..last : \A p \in 1..Len(lines) : lines[p].origin # o
    BY <1>3 DEF Placed
  <2>2. ASSUME NEW p \in P PROVE FALSE
    <3>1. p \in 1..(Len(lines) - (last - first)) /\ o - first \in 0..(last - first)
      BY <2>1
    <3>2. lines[p + (o - first)].origin = first + (o - first)
      BY <3>1
    <3>3. p + (o - first) \in 1..Len(lines) /\ first + (o - first) = o
      BY <1>1, <2>1, <3>1
    <3> QED
      BY <2>1, <3>2, <3>3
  <2> HIDE DEF P
  <2>3. P = {}
    BY <2>2
  <2> QED
    BY <1>3, <2>3 DEF P
<1> QED
  BY <1>2, <1>3

LEMMA LongestOfOne ==
    ASSUME NEW w \in Nat
    PROVE  Longest({w}) = w
<1>1. w \in {w} \union {0} /\ \A m \in {w} : m <= w
  OBVIOUS
<1>2. \A k \in {w} \union {0} : (\A m \in {w} : m <= k) => k = w
  OBVIOUS
<1> QED
  BY <1>1, <1>2 DEF Longest

LEMMA TracedIsExact == Typed /\ Traced => TranslationIsExact
<1> SUFFICES ASSUME Typed, Traced, whole, NEW i \in Intervals
             PROVE  Translate(map.generations, i[1], i[2]) = Whereabouts(i[1], i[2])
  BY DEF TranslationIsExact
<1> DEFINE first == i[1]
           last == i[2]
           N == Len(map.generations)
<1>1. first \in 1..Len(seen) /\ last \in 1..Len(seen) /\ first <= last
  BY DEF Intervals
<1> HIDE DEF first, last
<1>2. /\ map.generations \in Seq(Seq(Edit)) /\ seen \in Seq(Texts) /\ file \in Seq(Line)
      /\ N \in Nat
  BY DEF Typed
<1>3. first \in Int /\ last \in Int /\ 1 <= first /\ N \in 0..N
  BY <1>1, <1>2
<1>4. PICK at \in Place : at = Walk(map.generations, first, last)[N]
  BY <1>2, <1>3, WalkTyped
<1>5. Placed(at, first, last, file) /\ Unique(file)
  BY <1>1, <1>4 DEF Traced
<1> DEFINE places == {p \in 1..(Len(file) - (last - first)) :
                         \A k \in 0..(last - first) : file[p + k].origin = first + k}
           start == [ok |-> TRUE, first |-> first, last |-> last]
<1>6. places = IF at.ok THEN {at.first} ELSE {}
  BY <1>1, <1>2, <1>3, <1>5, FoundWherePlaced
<1>7. Walk(map.generations, first, last)[0] = start
  BY <1>2, WalkBegins
<1>8. Translate(map.generations, first, last) = IF at = start THEN Refused ELSE at
  BY <1>4, <1>7 DEF Translate
<1>9. Whereabouts(first, last) =
        IF places \subseteq {first} THEN Refused
        ELSE [ok |-> TRUE, first |-> Longest(places), last |-> Longest(places) + last - first]
  BY DEF Whereabouts
<1> HIDE DEF places
<1>10. CASE at.ok
  <2>1. /\ at.first \in Int /\ at.last \in Int /\ at.first >= 1
        /\ at.last = at.first + (last - first)
        /\ at = [ok |-> TRUE, first |-> at.first, last |-> at.last]
    BY <1>5, <1>10 DEF Place, Placed
  <2>2. CASE at.first = first
    <3>1. at.last = last
      BY <1>3, <2>1, <2>2
    <3>2. at = start
      BY <2>1, <2>2, <3>1
    <3>3. places \subseteq {first}
      BY <1>6, <1>10, <2>2
    <3> QED
      BY <1>8, <1>9, <3>2, <3>3 DEF first, last
  <2>3. CASE at.first # first
    <3>1. at # start
      BY <2>3
    <3>2. ~(places \subseteq {first}) /\ places = {at.first}
      BY <1>6, <1>10, <2>3
    <3>3. Longest(places) = at.first
      <4>1. at.first \in Nat
        BY <2>1
      <4> QED
        BY <3>2, <4>1, LongestOfOne
    <3>4. at.first + last - first = at.last
      BY <1>3, <2>1
    <3> QED
      BY <1>8, <1>9, <2>1, <3>1, <3>2, <3>3, <3>4 DEF first, last
  <2> QED
    BY <2>2, <2>3
<1>11. CASE ~at.ok
  <2>1. at = Refused
    BY <1>2, <1>3, <1>4, <1>11, WalkEnds
  <2>2. places \subseteq {first}
    BY <1>6, <1>11
  <2>3. Translate(map.generations, first, last) = Refused
    BY <1>8, <2>1
  <2> QED
    BY <1>9, <2>2, <2>3 DEF first, last
<1> QED
  BY <1>10, <1>11

(* "deterministically re-pointed at its moved line" (_hashed_core.py): for  *)
(* files of any length and any number of calls and replacements, while the *)
(* map has every change since the read, a stale address is followed to the *)
(* very lines that were read, or refused when one of them is gone.         *)
THEOREM AddressesFollowed == Spec => []TranslationIsExact
<1>1. Init => Typed /\ Traced
  BY InitTyped, InitTraced
<1>2. Typed /\ Traced /\ [Next]_vars => (Typed /\ Traced)'
  BY StepTyped, StepTraced
<1> QED
  BY <1>1, <1>2, TracedIsExact, PTL DEF Spec

-----------------------------------------------------------------------------
(* What a call writes. *)

(* No edit of the recorded generation covers a line that no replacement     *)
(* covers.                                                                 *)
LEMMA NotCoveredIsFree ==
    ASSUME NEW reps, NEW L \in Nat, Fits(reps, L), NEW p \in Int, p \notin Covered(reps)
    PROVE  Free(Generation(reps), 0, p)
<1> DEFINE g == Generation(reps)
           asc == Ascending(reps)
<1>1. Sorted(asc, Cardinality(reps), reps) /\ Records(g, asc) /\ Len(g) = Cardinality(reps)
  BY GenerationIs
<1> HIDE DEF g, asc
<1>2. Len(g) \in Nat
  BY <1>1 DEF Records
<1>3. ASSUME NEW k \in (0+1)..Len(g), g[k].first <= p, p <= g[k].last PROVE FALSE
  <2>1. k \in 1..Len(g)
    BY <1>2
  <2>2. asc[k] \in reps
    BY <1>1, <2>1 DEF Sorted
  <2>3. /\ g[k].first = asc[k].first /\ g[k].last = asc[k].last
        /\ asc[k].first \in Int /\ asc[k].last \in Int
    BY <1>1, <2>1, RecordIs
  <2>4. p \in asc[k].first..asc[k].last
    BY <1>3, <2>3
  <2> QED
    BY <2>2, <2>4 DEF Covered
<1> QED
  BY <1>3 DEF Free, g

LEMMA NewLinesLand ==
    ASSUME NEW lines \in Seq(Line), NEW reps, Fits(reps, Len(lines)), NEW r \in reps,
           NEW i \in DOMAIN r.new
    PROVE  Spliced(lines, reps)[r.first + ShiftOf(Generation(reps), r.first) + i - 1]
             = New(r.new[i])
<1> DEFINE g == Generation(reps)
           asc == Ascending(reps)
           new == Spliced(lines, reps)
<1>1. Half(lines, asc, g, 0, new)
  BY SplicedIs
<1>2. Sorted(asc, Cardinality(reps), reps) /\ Records(g, asc) /\ Len(g) = Cardinality(reps)
  <2>1. Len(lines) \in Nat
    OBVIOUS
  <2> QED
    BY <2>1, GenerationIs
<1>3. r \in Replacement
  BY DEF Fits
<1> HIDE DEF g, asc, new
<1>4. g \in Seq(Edit)
  BY <1>2 DEF Records
<1>5. \A p : After(g, 0, p) = ShiftOf(g, p)
  BY <1>4, AfterUnfolds
<1>6. PICK k \in 1..Len(g) : asc[k] = r
  BY <1>2 DEF Sorted
<1>7. k \in (0+1)..Len(g)
  BY <1>6
<1>8. i \in 1..Len(asc[k].new)
  <2>1. r.new \in Seq(Texts)
    BY <1>3 DEF Replacement
  <2> QED
    BY <1>6, <2>1
<1>9. new[asc[k].first + After(g, 0, asc[k].first) + i - 1] = New(asc[k].new[i])
  BY <1>1, <1>7, <1>8 DEF Half
<1> QED
  BY <1>5, <1>6, <1>9 DEF g, new

(* A call puts its replacements where their addresses were resolved to, and *)
(* leaves every other line as it was, however many replacements it has.     *)
THEOREM OnlyAddressed == Spec => OnlyAddressedChange
<1> DEFINE Changes ==
        /\ Len(file') = Len(call.lines) + MovedBy(Len(call.lines) + 1)
        /\ \A i \in DOMAIN call.lines \ Covered(Edits) :
              file'[i + MovedBy(i)] = call.lines[i]
        /\ \A r \in Edits :
              /\ \A k \in DOMAIN r.new : file'[r.first + MovedBy(r.first) + k - 1] = New(r.new[k])
              /\ \E g \in call.reps : r.head = g.head /\ r.tail = g.tail
                                      /\ (g.new = <<>> <=> r.new = <<>>)
<1>1. Typed /\ [Next]_vars => [Write => Changes]_vars
  <2> SUFFICES ASSUME Typed, Write PROVE Changes
    OBVIOUS
  <2>1. /\ Fits(Edits, Len(call.lines)) /\ call.lines \in Seq(Line)
        /\ \A e \in Edits : \E g \in call.reps :
              e.head = g.head /\ e.tail = g.tail /\ (g.new = <<>> <=> e.new = <<>>)
    BY EditsFit DEF Write
  <2>2. file' = Spliced(call.lines, Edits)
    BY DEF Write
  <2>3. Len(call.lines) \in Nat /\ DOMAIN call.lines = 1..Len(call.lines)
    BY <2>1
  <2>4. /\ Len(file') = Len(call.lines) + MovedBy(Len(call.lines) + 1)
        /\ \A p \in 1..Len(call.lines) : Free(Generation(Edits), 0, p) =>
              file'[p + MovedBy(p)] = call.lines[p]
    BY <2>1, <2>2, SplicedKeepsOrigins DEF MovedBy
  <2>5. ASSUME NEW i \in DOMAIN call.lines \ Covered(Edits)
        PROVE  file'[i + MovedBy(i)] = call.lines[i]
    <3>1. i \in Int /\ i \notin Covered(Edits) /\ i \in 1..Len(call.lines)
      BY <2>3
    <3>2. Free(Generation(Edits), 0, i)
      BY <2>1, <2>3, <3>1, NotCoveredIsFree
    <3> QED
      BY <2>4, <3>1, <3>2
  <2>6. ASSUME NEW r \in Edits, NEW k \in DOMAIN r.new
        PROVE  file'[r.first + MovedBy(r.first) + k - 1] = New(r.new[k])
    BY <2>1, <2>2, NewLinesLand DEF MovedBy
  <2> QED
    BY <2>1, <2>4, <2>5, <2>6
<1>2. Spec => []Typed
  BY InitTyped, StepTyped, PTL DEF Spec
<1>3. Spec => [][Write => Changes]_vars
  BY <1>1, <1>2, PTL DEF Spec
<1> QED
  BY <1>3 DEF OnlyAddressedChange

=============================================================================
