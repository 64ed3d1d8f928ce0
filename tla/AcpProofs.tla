------------------------------- MODULE AcpProofs -------------------------------
(***************************************************************************)
(* One turn over a stored session, for every bound, with an editor that    *)
(* waits for its answers and opens no session twice.                       *)
(***************************************************************************)
EXTENDS Acp, TLAPS

USE DEF None, Ids, Loops, Prompts, Perms, InTurn

Live(p) == at[p] \in InTurn \union {"over"}

(* A prompt in progress runs on the loop its session has now. *)
AtHome == \A p \in Prompts : Live(p) =>
    target[p] \in Ids /\ on[p] \in Loops /\ sessions[target[p]] = on[p]

(* ... and sits in the slot until the editor cancels it. *)
InSlot == \A p \in Prompts : Live(p) /\ p \notin wanted => slot[on[p]] = p

OnePerId == \A p, q \in Prompts : Live(p) /\ Live(q) /\ target[p] = target[q] => p = q

(* Two ids are two loops, and these write two stored sessions. *)
Apart == \A i, j \in Ids :
    i # j /\ sessions[i] # None /\ sessions[j] # None => dir[sessions[i]] # dir[sessions[j]]

(* The loop of a mode change goes by no other id. *)
OwnId == \A s \in setting :
    dir[s.loop] # None /\ \A i \in Ids : sessions[i] = s.loop => i = s.id

Named == \A i \in Ids : sessions[i] # None => i <= made

(* A loop that has an id asks in the name of its own session. *)
OwnName == \A i \in Ids : sessions[i] # None => callback[sessions[i]] \in {sessions[i], None}

Begun == \A p \in cancelled : at[p] # "none"

IInv == TypeOK /\ AtHome /\ InSlot /\ OnePerId /\ Apart /\ OwnId /\ Named /\ OwnName /\ Begun

(* A loop goes by one id. *)
LEMMA OneId ==
    ASSUME IInv, NEW i \in Ids, NEW j \in Ids, sessions[i] # None, sessions[i] = sessions[j]
    PROVE  i = j
  BY DEF IInv, Apart

LEMMA Start == Init => IInv
  BY AcpAssumption DEF Init, IInv, TypeOK, AtHome, InSlot, OnePerId, Apart, OwnId, Named, OwnName, Begun,
                         Live

(* The invariant gives the property: two turns have two ids. *)
LEMMA Implied == IInv => OneTurnPerSession
<1> SUFFICES ASSUME IInv, NEW p \in Prompts, NEW q \in Prompts, p # q,
                    at[p] \in InTurn, at[q] \in InTurn
             PROVE  dir[on[p]] # dir[on[q]]
  BY DEF OneTurnPerSession
<1>1. Live(p) /\ Live(q)
  BY DEF Live
<1>2. target[p] # target[q]
  BY <1>1 DEF IInv, OnePerId
<1> QED
  BY <1>1, <1>2 DEF IInv, AtHome, Apart

-----------------------------------------------------------------------------
(* A new loop: nothing that lives is on it. *)
LEMMA Installing ==
    ASSUME IInv, Races = {}, NEW id \in Ids, NEW k \in Loops, Install(id, k),
           id \in 1..made', made' \in {made, made + 1}, made' <= MaxDirs,
           \A p \in Prompts : Live(p) => target[p] # id,
           \A i \in Ids \ {id} : sessions[i] # None => dir[sessions[i]] # id,
           stored' = stored, UNCHANGED <<mode, setting, modes, turnVars>>
    PROVE  IInv'
<1> USE DEF Install, turnVars
<1>0. made \in Nat /\ MaxDirs \in Nat
  BY AcpAssumption DEF IInv, TypeOK
<1>1. \A i \in Ids : sessions[i] # k
  BY DEF IInv, TypeOK
<1>2. \A p \in Prompts : Live(p) => on[p] # k
  BY <1>1 DEF IInv, AtHome
<1>3. \A p \in Prompts : Live(p)' = Live(p)
  BY DEF Live
<1>4. AtHome'
  BY <1>2, <1>3 DEF IInv, AtHome, TypeOK
<1>5. InSlot' /\ OnePerId'
  BY <1>3 DEF IInv, InSlot, OnePerId
<1>6. Apart'
  <2> SUFFICES ASSUME NEW i \in Ids, NEW j \in Ids, i # j,
                      sessions'[i] # None, sessions'[j] # None
               PROVE  dir'[sessions'[i]] # dir'[sessions'[j]]
    BY DEF Apart
  <2>1. dir' = [dir EXCEPT ![k] = id] /\ sessions' = [sessions EXCEPT ![id] = k]
    OBVIOUS
  <2>2. sessions \in [Ids -> Loops \union {0}] /\ dir \in [Loops -> 0..made]
    BY DEF IInv, TypeOK
  <2>3. CASE i = id
    BY <1>1, <2>1, <2>2, <2>3
  <2>4. CASE j = id
    BY <1>1, <2>1, <2>2, <2>4
  <2>5. CASE i # id /\ j # id
    BY <1>1, <2>1, <2>2, <2>5 DEF IInv, Apart
  <2> QED
    BY <2>3, <2>4, <2>5
<1>7. OwnId'
  BY <1>1 DEF IInv, OwnId, TypeOK
<1>8. TypeOK'
  <2>1. /\ made' \in 0..MaxDirs /\ stored' \subseteq 1..made'
        /\ sessions' \in [Ids -> Loops \union {None}]
        /\ dir' \in [Loops -> 0..made']
    BY <1>0 DEF IInv, TypeOK
  <2>2. \A i \in Ids : sessions'[i] # None => dir'[sessions'[i]] # None
    BY <1>0, <1>1 DEF IInv, TypeOK
  <2>3. \A p \in Prompts : at'[p] \in InTurn => callback'[on'[p]] \in {on'[p], None}
    <3> SUFFICES ASSUME NEW p \in Prompts, at[p] \in InTurn
                 PROVE  callback'[on[p]] \in {on[p], None}
      OBVIOUS
    <3>1. on[p] # k /\ on[p] \in Loops
      BY <1>2 DEF Live, IInv, AtHome
    <3> QED
      BY <3>1 DEF IInv, TypeOK
  <2>4. callback' \in [Loops -> Loops \union {None}]
    BY DEF IInv, TypeOK
  <2> QED
    BY <2>1, <2>2, <2>3, <2>4 DEF IInv, TypeOK
<1>9. Named' /\ Begun'
  BY <1>0 DEF IInv, Named, Begun, TypeOK
<1>10. OwnName'
  BY <1>1 DEF IInv, OwnName, TypeOK
<1> QED
  BY <1>4, <1>5, <1>6, <1>7, <1>8, <1>9, <1>10 DEF IInv

LEMMA NewKeeps == ASSUME IInv, Races = {}, NewSession PROVE IInv'
<1>0. made \in Nat /\ MaxDirs \in Nat /\ made' = made + 1 /\ made < MaxDirs
  BY AcpAssumption DEF IInv, TypeOK, NewSession
<1>1. PICK k \in Loops : Install(made', k)
  BY DEF NewSession
<1>2. \A i \in Ids : sessions[i] # None => dir[sessions[i]] # made'
  BY <1>0 DEF IInv, TypeOK
<1>3. \A p \in Prompts : Live(p) => target[p] # made'
  <2> SUFFICES ASSUME NEW p \in Prompts, Live(p), target[p] = made'
               PROVE  FALSE
    OBVIOUS
  <2> QED
    BY <1>0 DEF IInv, AtHome, Named
<1> QED
  BY <1>0, <1>1, <1>2, <1>3, Installing DEF NewSession

LEMMA LoadKeeps == ASSUME IInv, Races = {}, NEW id \in Ids, LoadSession(id) PROVE IInv'
<1>0. made \in Nat /\ MaxDirs \in Nat /\ made' = made /\ made <= MaxDirs
  BY AcpAssumption DEF IInv, TypeOK, LoadSession
<1>1. PICK k \in Loops : Install(id, k)
  BY DEF LoadSession
<1>2. \A i \in Ids \ {id} : sessions[i] # None => dir[sessions[i]] # id
  BY DEF LoadSession
<1>3. \A p \in Prompts : Live(p) => target[p] # id
  BY DEF LoadSession, Outstanding, Live
<1>4. id \in 1..made
  BY DEF LoadSession, IInv, TypeOK
<1> QED
  BY <1>0, <1>1, <1>2, <1>3, <1>4, Installing DEF LoadSession

-----------------------------------------------------------------------------
(* The handlers of prompt and cancel. *)

LEMMA PromptKeeps ==
    ASSUME IInv, Races = {}, NEW id \in Ids, NEW p \in Prompts, Prompt(id, p)
    PROVE  IInv'
<1> DEFINE k == sessions[id]
<1> USE DEF Prompt, sessionVars, modeVars
<1>1. k \in Loops /\ slot[k] = 0
  BY DEF IInv, TypeOK, Accepts
<1>2. \A q \in Prompts : Live(q) => target[q] # id
  BY <1>1 DEF IInv, AtHome, InSlot, Outstanding, Live
<1>3. /\ at' = [at EXCEPT ![p] = "created"] /\ target' = [target EXCEPT ![p] = id]
      /\ on' = [on EXCEPT ![p] = k] /\ slot' = [slot EXCEPT ![k] = p]
      /\ at \in [Prompts -> InTurn \union {"none", "over", "answered"}]
      /\ target \in [Prompts -> 0..MaxDirs] /\ on \in [Prompts -> Loops \union {None}]
      /\ slot \in [Loops -> Prompts \union {None}]
  BY DEF IInv, TypeOK
<1>4. ~Live(p) /\ Live(p)' /\ \A q \in Prompts \ {p} : Live(q)' = Live(q)
  BY <1>3 DEF Live
<1>5. AtHome'
  BY <1>1, <1>3, <1>4 DEF IInv, AtHome
<1>6. InSlot'
  <2> SUFFICES ASSUME NEW q \in Prompts, q # p, Live(q), q \notin wanted
               PROVE  slot'[on'[q]] = q
    BY <1>1, <1>3, <1>4 DEF InSlot
  <2>1. on'[q] = on[q] /\ on[q] # k /\ on[q] \in Loops
    BY <1>1, <1>2, <1>3, OneId DEF IInv, AtHome
  <2> QED
    BY <2>1, <1>3 DEF IInv, InSlot
<1>7. OnePerId'
  BY <1>2, <1>3, <1>4 DEF IInv, OnePerId
<1>8. Apart' /\ OwnId' /\ Named' /\ OwnName' /\ Begun'
  BY <1>3 DEF IInv, Apart, OwnId, Named, OwnName, Begun, TypeOK
<1>9. TypeOK'
  <2>1. \A j \in Loops : slot'[j] # None =>
           on'[slot'[j]] = j /\ slot'[j] \notin cancelled' /\ at'[slot'[j]] \in InTurn \union {"over"}
    <3>1. p \notin cancelled
      BY DEF IInv, Begun
    <3> QED
      BY <3>1, <1>1, <1>3 DEF IInv, TypeOK
  <2>2. \A q \in Prompts : at'[q] \in InTurn => callback[on'[q]] \in {on'[q], None}
    BY <1>1, <1>3 DEF IInv, TypeOK, OwnName
  <2> QED
    BY <2>1, <2>2, <1>1, <1>3 DEF IInv, TypeOK
<1> QED
  BY <1>5, <1>6, <1>7, <1>8, <1>9 DEF IInv

LEMMA RespondKeeps == ASSUME IInv, Races = {}, NEW p \in Prompts, Respond(p) PROVE IInv'
<1> USE DEF Respond, SlotAfter, sessionVars, modeVars
<1>1. /\ at' = [at EXCEPT ![p] = "answered"] /\ slot' = [slot EXCEPT ![on[p]] = None]
      /\ at \in [Prompts -> InTurn \union {"none", "over", "answered"}]
      /\ slot \in [Loops -> Prompts \union {None}]
  BY DEF IInv, TypeOK
<1>2. Live(p) /\ ~Live(p)' /\ \A q \in Prompts \ {p} : Live(q)' = Live(q)
  BY <1>1 DEF Live, Respond
<1>3. on[p] \in Loops
  BY <1>2 DEF IInv, AtHome
<1>4. AtHome' /\ OnePerId'
  BY <1>2 DEF IInv, AtHome, OnePerId
<1>5. InSlot'
  <2> SUFFICES ASSUME NEW q \in Prompts, q # p, Live(q), q \notin wanted
               PROVE  slot'[on[q]] = q
    BY <1>2 DEF InSlot
  <2>1. on[q] # on[p] /\ on[q] \in Loops
    BY <1>2, OneId DEF IInv, AtHome, OnePerId
  <2> QED
    BY <2>1, <1>1 DEF IInv, InSlot
<1>6. Apart' /\ OwnId' /\ Named' /\ OwnName' /\ Begun'
  BY <1>1 DEF IInv, Apart, OwnId, Named, OwnName, Begun, TypeOK
<1>7. TypeOK'
  BY <1>1, <1>3 DEF IInv, TypeOK
<1> QED
  BY <1>4, <1>5, <1>6, <1>7 DEF IInv

LEMMA CancelKeeps == ASSUME IInv, Races = {}, NEW id \in Ids, Cancel(id) PROVE IInv'
<1> DEFINE k == sessions[id]
<1>1. /\ k \in Loops /\ slot \in [Loops -> Prompts \union {None}]
      /\ UNCHANGED <<at, on, target, sessionVars, modeVars>>
      /\ wanted' = wanted \union Outstanding(id)
  BY DEF Cancel, IInv, TypeOK
<1>2. \/ slot' = slot /\ cancelled' = cancelled
      \/ slot' = [slot EXCEPT ![k] = None] /\ Live(slot[k]) /\ slot[k] \in Prompts
            /\ cancelled' = cancelled \union {slot[k]}
  BY <1>1 DEF Cancel, Stopped, Live
<1>3. \A q \in Prompts : Live(q)' = Live(q)
  BY <1>1 DEF Live
<1>4. AtHome' /\ OnePerId'
  BY <1>1, <1>3 DEF IInv, AtHome, OnePerId, sessionVars
<1>5. InSlot'
  <2> SUFFICES ASSUME NEW q \in Prompts, Live(q), q \notin wanted'
               PROVE  slot'[on[q]] = q
    BY <1>1, <1>3 DEF InSlot
  <2>1. target[q] # id
    BY <1>1 DEF Outstanding, Live
  <2>2. on[q] # k /\ on[q] \in Loops
    BY <2>1, OneId DEF IInv, AtHome
  <2> QED
    BY <2>2, <1>1, <1>2 DEF IInv, InSlot
<1>6. Apart' /\ OwnId' /\ Named' /\ OwnName' /\ Begun'
  BY <1>1, <1>2 DEF IInv, Apart, OwnId, Named, OwnName, Begun, Live, sessionVars, modeVars
<1>7. TypeOK'
  <2>1. wanted' \subseteq Prompts
    BY <1>1 DEF IInv, TypeOK, Outstanding
  <2>2. /\ cancelled' \subseteq Prompts /\ slot' \in [Loops -> Prompts \union {None}]
        /\ \A j \in Loops : slot'[j] # None =>
             on[slot'[j]] = j /\ slot'[j] \notin cancelled' /\ at[slot'[j]] \in InTurn \union {"over"}
    <3>1. /\ cancelled \subseteq Prompts
          /\ \A j \in Loops : slot[j] # None =>
               on[slot[j]] = j /\ slot[j] \notin cancelled /\ at[slot[j]] \in InTurn \union {"over"}
      BY DEF IInv, TypeOK
    <3>2. CASE slot' = slot /\ cancelled' = cancelled
      BY <3>1, <3>2, <1>1
    <3>3. CASE /\ slot' = [slot EXCEPT ![k] = None] /\ slot[k] \in Prompts
               /\ cancelled' = cancelled \union {slot[k]}
      BY <3>1, <3>3, <1>1
    <3> QED
      BY <3>2, <3>3, <1>2
  <2> QED
    BY <2>1, <2>2, <1>1 DEF IInv, TypeOK, sessionVars, modeVars
<1> QED
  BY <1>4, <1>5, <1>6, <1>7 DEF IInv

-----------------------------------------------------------------------------
(* What a turn does: it stays alive, or is over. *)

LEMMA TurnMoves ==
    ASSUME IInv, Races = {}, NEW p \in Prompts, NEW to \in InTurn \union {"over"},
           Live(p), at' = [at EXCEPT ![p] = to],
           UNCHANGED <<slot, target, on, cancelled, wanted, sessionVars, modeVars>>
    PROVE  IInv'
<1> USE DEF sessionVars, modeVars
<1>1. at \in [Prompts -> InTurn \union {"none", "over", "answered"}]
  BY DEF IInv, TypeOK
<1>2. \A q \in Prompts : Live(q)' = Live(q)
  BY <1>1 DEF Live
<1>3. AtHome' /\ OnePerId' /\ InSlot'
  BY <1>2 DEF IInv, AtHome, OnePerId, InSlot
<1>4. Apart' /\ OwnId' /\ Named' /\ OwnName' /\ Begun'
  BY <1>1 DEF IInv, Apart, OwnId, Named, OwnName, Begun, TypeOK
<1>5. \A q \in Prompts : at'[q] \in InTurn => callback[on[q]] \in {on[q], None}
  <2> SUFFICES ASSUME NEW q \in Prompts, Live(q)
               PROVE  callback[on[q]] \in {on[q], None}
    BY <1>2 DEF Live
  <2> QED
    BY DEF IInv, AtHome, OwnName
<1>6. TypeOK'
  BY <1>1, <1>5 DEF IInv, TypeOK, Live
<1> QED
  BY <1>3, <1>4, <1>6 DEF IInv

LEMMA TurnKeeps ==
    ASSUME IInv, Races = {}, NEW p \in Prompts,
           \/ TurnStarts(p) \/ TurnOver(p) \/ Unwound(p) \/ Answer(p)
           \/ \E perm \in Perms : AskEditor(p, perm)
    PROVE  IInv'
  BY TurnMoves DEF TurnStarts, TurnOver, Unwound, Answer, AskEditor, Running, Live

(* A compaction gives its loop a stored session nobody has. *)
LEMMA DiskKeeps ==
    ASSUME IInv, Races = {}, NEW p \in Prompts, Saves(p) \/ Compacts(p)
    PROVE  IInv'
<1> USE DEF Running, modeVars, turnVars
<1>0. made \in Nat /\ MaxDirs \in Nat
  BY AcpAssumption DEF IInv, TypeOK
<1>1. \A q \in Prompts : Live(q)' = Live(q)
  BY DEF Live, Saves, Compacts
<1>2. Live(p)
  BY DEF Live, Saves, Compacts
<1>3. on[p] \in Loops /\ dir[on[p]] \in 1..made
  <2>1. sessions[target[p]] = on[p] /\ target[p] \in Ids /\ on[p] \in Loops
    BY <1>2 DEF IInv, AtHome
  <2> QED
    BY <2>1, <1>0 DEF IInv, TypeOK
<1>4. AtHome' /\ OnePerId' /\ InSlot' /\ OwnName' /\ Begun'
  BY <1>1 DEF IInv, AtHome, OnePerId, InSlot, OwnName, Begun, Saves, Compacts
<1>5. CASE Saves(p)
  <2>1. stored' = stored \union {dir[on[p]]} /\ UNCHANGED <<sessions, dir, made, setting>>
    BY <1>5 DEF Saves
  <2>2. Apart' /\ OwnId' /\ Named'
    BY <2>1 DEF IInv, Apart, OwnId, Named
  <2>3. stored' \subseteq 1..made
    BY <2>1, <1>3 DEF IInv, TypeOK
  <2>4. TypeOK'
    BY <2>1, <2>3, <1>5 DEF IInv, TypeOK, Saves
  <2> QED
    BY <1>4, <2>2, <2>4 DEF IInv
<1>6. CASE Compacts(p)
  <2>1. /\ made' = made + 1 /\ made < MaxDirs /\ sessions' = sessions
        /\ dir' = [dir EXCEPT ![on[p]] = made + 1] /\ dir \in [Loops -> 0..made]
        /\ sessions \in [Ids -> Loops \union {0}]
    BY <1>6 DEF Compacts, IInv, TypeOK
  <2>2. Apart'
    BY <2>1, <1>0 DEF IInv, Apart
  <2>3. OwnId' /\ Named'
    <3>1. Named'
      BY <2>1, <1>0 DEF IInv, Named
    <3>2. setting' = setting /\ \A s \in setting : s.loop \in Loops
      BY <1>6 DEF Compacts, IInv, TypeOK
    <3> QED
      BY <2>1, <1>0, <3>1, <3>2 DEF IInv, OwnId
  <2>4. made' \in 0..MaxDirs /\ stored' \subseteq 1..made' /\ dir' \in [Loops -> 0..made']
    <3>1. made' \in 0..MaxDirs /\ 1..made \subseteq 1..made' /\ 0..made \subseteq 0..made'
          /\ made + 1 \in 0..made'
      BY <2>1, <1>0
    <3>2. stored' = stored \union {dir[on[p]]} /\ stored \subseteq 1..made
      BY <1>6 DEF Compacts, IInv, TypeOK
    <3> QED
      BY <3>1, <3>2, <2>1, <1>3
  <2>5. \A i \in Ids : sessions[i] # None => dir'[sessions[i]] # None
    BY <2>1, <1>0 DEF IInv, TypeOK
  <2>6. TypeOK'
    BY <2>1, <2>4, <2>5, <1>6 DEF Compacts, IInv, TypeOK
  <2> QED
    BY <2>2, <2>3, <2>6, <1>4 DEF IInv
<1> QED
  BY <1>5, <1>6

-----------------------------------------------------------------------------
(* Mode changes. *)

LEMMA ModeKeeps ==
    ASSUME IInv, Races = {},
           \/ \E id \in Ids, m \in {"default", "auto"} : SetMode(id, m)
           \/ \E s \in setting : ModeSet(s) \/ ModeSaveFails(s)
    PROVE  IInv'
<1> USE DEF sessionVars, turnVars
<1>1. UNCHANGED <<sessionVars, turnVars>>
  BY DEF SetMode, ModeSet, ModeSaveFails
<1>2. \A q \in Prompts : Live(q)' = Live(q)
  BY <1>1 DEF Live
<1>3. AtHome' /\ OnePerId' /\ InSlot' /\ Apart' /\ Named' /\ Begun'
  BY <1>1, <1>2 DEF IInv, AtHome, OnePerId, InSlot, Apart, Named, Begun
<1>4. OwnId'
  <2>1. CASE \E id \in Ids, m \in {"default", "auto"} : SetMode(id, m)
    <3>1. PICK id \in Ids : \E m \in {"default", "auto"} : SetMode(id, m)
      BY <2>1
    <3>2. setting' \subseteq setting \union {[id |-> id, loop |-> sessions[id]]}
      BY <3>1 DEF SetMode
    <3>3. sessions[id] # None /\ dir[sessions[id]] # None
      BY <3>1 DEF SetMode, IInv, TypeOK
    <3>4. \A i \in Ids : sessions[i] = sessions[id] => i = id
      BY <3>3, OneId
    <3> QED
      BY <1>1, <3>2, <3>3, <3>4 DEF IInv, OwnId
  <2>2. CASE \E s \in setting : ModeSet(s) \/ ModeSaveFails(s)
    BY <1>1, <2>2 DEF IInv, OwnId, ModeSet, ModeSaveFails
  <2> QED
    BY <2>1, <2>2
<1>5. OwnName' /\ callback' \in [Loops -> Loops \union {None}]
  <2>1. CASE \E id \in Ids, m \in {"default", "auto"} : SetMode(id, m)
    <3>1. PICK id \in Ids : \E m \in {"default", "auto"} : SetMode(id, m)
      BY <2>1
    <3>2. sessions[id] \in Loops
          /\ \/ callback' = callback
             \/ callback' = [callback EXCEPT ![sessions[id]] = CallbackOf(sessions[id], id)]
      BY <3>1 DEF SetMode, IInv, TypeOK
    <3>3. /\ CallbackOf(sessions[id], id) \in {sessions[id], None} /\ sessions' = sessions
          /\ callback \in [Loops -> Loops \union {None}]
          /\ sessions \in [Ids -> Loops \union {None}]
      BY <1>1 DEF IInv, TypeOK, CallbackOf
    <3>4. OwnName
      BY DEF IInv
    <3>5. CASE callback' = callback
      BY <3>3, <3>4, <3>5 DEF OwnName
    <3>6. CASE callback' = [callback EXCEPT ![sessions[id]] = CallbackOf(sessions[id], id)]
      BY <3>2, <3>3, <3>4, <3>6 DEF OwnName
    <3> QED
      BY <3>2, <3>5, <3>6
  <2>2. CASE \E s \in setting : ModeSet(s) \/ ModeSaveFails(s)
    <3>1. PICK s \in setting : ModeSet(s) \/ ModeSaveFails(s)
      BY <2>2
    <3>2. CASE ModeSaveFails(s)
      BY <3>2, <1>1 DEF IInv, TypeOK, OwnName, ModeSaveFails
    <3>3. CASE ModeSet(s)
      <4>1. /\ callback' = [callback EXCEPT ![s.loop] = CallbackOf(s.loop, s.id)]
            /\ s.loop \in Loops /\ s.id \in Ids
        BY <3>3 DEF ModeSet, IInv, TypeOK
      <4>2. \A i \in Ids : sessions[i] = s.loop => i = s.id
        BY DEF IInv, OwnId
      <4> QED
        BY <4>1, <4>2, <1>1 DEF IInv, TypeOK, OwnName, CallbackOf
    <3> QED
      BY <3>1, <3>2, <3>3
  <2> QED
    BY <2>1, <2>2
<1>6. mode' \in [Loops -> {"default", "auto"}]
  BY DEF IInv, TypeOK, SetMode, ModeSet, ModeSaveFails
<1>7. setting' \subseteq [id : Ids, loop : Loops] /\ modes' \in 0..MaxModes
  BY AcpAssumption DEF IInv, TypeOK, SetMode, ModeSet, ModeSaveFails
<1>8. \A q \in Prompts : at'[q] \in InTurn => callback'[on'[q]] \in {on'[q], None}
  <2> SUFFICES ASSUME NEW q \in Prompts, Live(q)
               PROVE  callback'[on[q]] \in {on[q], None}
    BY <1>1 DEF Live
  <2> QED
    BY <1>1, <1>5 DEF IInv, AtHome, OwnName
<1>9. TypeOK'
  BY <1>1, <1>5, <1>6, <1>7, <1>8 DEF IInv, TypeOK
<1> QED
  BY <1>3, <1>4, <1>5, <1>9 DEF IInv

-----------------------------------------------------------------------------
LEMMA StepKeeps == ASSUME IInv, Races = {}, [Next]_vars PROVE IInv'
<1>1. CASE NewSession
  BY <1>1, NewKeeps
<1>2. CASE \E id \in Ids : LoadSession(id) \/ Cancel(id) \/ \E p \in Prompts : Prompt(id, p)
  BY <1>2, LoadKeeps, CancelKeeps, PromptKeeps
<1>3. CASE \E p \in Prompts : \/ TurnStarts(p) \/ TurnOver(p) \/ Unwound(p) \/ Answer(p)
                              \/ \E perm \in Perms : AskEditor(p, perm)
  BY <1>3, TurnKeeps
<1>4. CASE \E p \in Prompts : Saves(p) \/ Compacts(p) \/ Respond(p)
  BY <1>4, DiskKeeps, RespondKeeps
<1>5. CASE \/ \E id \in Ids, m \in {"default", "auto"} : SetMode(id, m)
           \/ \E s \in setting : ModeSet(s) \/ ModeSaveFails(s)
  BY <1>5, ModeKeeps
<1>6. CASE UNCHANGED vars
  BY <1>6 DEF vars, sessionVars, modeVars, turnVars, IInv, TypeOK, AtHome, InSlot, OnePerId,
              Apart, OwnId, Named, OwnName, Begun, Live
<1> QED
  BY <1>1, <1>2, <1>3, <1>4, <1>5, <1>6 DEF Next, EditorStep, TurnStep, ServerStep

(* With an editor that waits, the server's tables fit each other: a session  *)
(* is behind its id, a slot holds a turn of its own that nobody cancelled,   *)
(* and a running turn asks in its own session's name.                        *)
THEOREM TypeCorrect == ASSUME Races = {} PROVE Spec => []TypeOK
<1>1. Init => IInv
  BY Start
<1>2. IInv /\ [Next]_vars => IInv'
  BY StepKeeps
<1>3. IInv => TypeOK
  BY DEF IInv
<1> QED
  BY <1>1, <1>2, <1>3, PTL DEF Spec

(* With an editor that waits for its answers and opens no session twice, two *)
(* turns never write one stored session: prompt refuses a second one, and a  *)
(* compaction and a load give a loop a session nobody is writing.            *)
THEOREM OneTurnAtATime == ASSUME Races = {} PROVE Spec => []OneTurnPerSession
<1>1. Init => IInv
  BY Start
<1>2. IInv /\ [Next]_vars => IInv'
  BY StepKeeps
<1> QED
  BY <1>1, <1>2, Implied, PTL DEF Spec
================================================================================
