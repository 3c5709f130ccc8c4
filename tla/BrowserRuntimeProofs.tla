----------------------- MODULE BrowserRuntimeProofs -----------------------
(***************************************************************************)
(* Proofs about the tabs of a browser, for any number of tabs, reads,      *)
(* accounts and operations: a known hash is kept, what a read shows is the  *)
(* wallet's account, a read that was overtaken shows nothing, the operation *)
(* a tab watches gives way to no older one, and an operation is submitted   *)
(* only within one session.                                                *)
(***************************************************************************)
EXTENDS BrowserRuntime, TLAPS

-----------------------------------------------------------------------------
(* The invariant *)

\* The stages in which a tab works on an operation, and those in which its
\* hash is written down.
Worked == Stages \ {"unused", "kept", "unrecorded", "over"}
Hashed == {"registering", "kept"}

\* The phases of a read whose account is the session's.
Knows == {"opened", "shown", "reading", "asking", "ambiguous", "exit", "publishing"}

\* An operation has its owner and its tab; and if no wallet event was
\* noticed by one that listens, there has been none.
OperationOK(p) ==
    /\ p.stage \notin {"unused", "over"} => p.owner \in Accounts /\ p.intent \in Intents
    /\ IF p.stage \in Worked THEN p.tab \in Tabs ELSE p.tab = None
    /\ p.stage \in Listening /\ ~p.changed => p.quiet

\* What a read holds by itself ...
ReadOK(x) ==
    /\ x.phase # "idle" => x.tab \in Tabs
    /\ x.phase = "asking" => x.queue # <<>>
    /\ x.phase \in Knows \cup {"opening"} => x.account \in Accounts

\* ... and as its tab's current one: no wallet event has met it, and the
\* session is that of the account it was begun for.
CurrentOK(r) ==
    IsCurrent(r) =>
       /\ read[r].quiet
       /\ read[r].phase \in Knows => tab[read[r].tab].session = read[r].account

\* An operation is saved once, and no tab works on it but to register it.
JournalOK(a) ==
    /\ \A i, j \in DOMAIN journal[a] : journal[a][i] = journal[a][j] => i = j
    /\ \A o \in Saved(a) : op[o].stage \in Hashed

OperationsInv == \A o \in Operations : OperationOK(op[o])
ReadsInv == \A r \in Reads : ReadOK(read[r]) /\ CurrentOK(r)
JournalInv == (\A a \in Accounts : JournalOK(a)) /\ KnownHashIsKept

BrowserInv == TypeOK /\ OperationsInv /\ ReadsInv /\ JournalInv

-----------------------------------------------------------------------------
(* The journal *)

\* A journal without an operation is the journal without its entry.
LEMMA WithoutOne ==
    ASSUME NEW s \in Seq(Operations), NEW o,
           \A i, j \in DOMAIN s : s[i] = s[j] => i = j
    PROVE  /\ Without(s, o) \in Seq(Operations)
           /\ Len(Without(s, o)) <= Len(s)
           /\ ToSet(Without(s, o)) = ToSet(s) \ {o}
           /\ \A i, j \in DOMAIN Without(s, o) : Without(s, o)[i] = Without(s, o)[j] => i = j
<1>1. CASE ~(\E i \in DOMAIN s : s[i] = o)
  BY <1>1 DEF Without, ToSet
<1>2. CASE \E i \in DOMAIN s : s[i] = o
  <2>1. PICK k \in DOMAIN s : s[k] = o /\ Without(s, o) = RemoveAt(s, k)
    BY <1>2 DEF Without
  <2> DEFINE w == Without(s, o)
  <2>2. k \in 1 .. Len(s) /\ Len(s) \in Nat
    OBVIOUS
  <2>3. /\ w \in Seq(Operations) /\ Len(w) = Len(s) - 1
        /\ \A i \in 1 .. Len(s) - 1 : w[i] = IF i < k THEN s[i] ELSE s[i + 1]
    <3> DEFINE u == SubSeq(s, 1, k - 1)
               v == SubSeq(s, k + 1, Len(s))
    <3>1. /\ u \in Seq(Operations) /\ Len(u) = k - 1
          /\ \A i \in 1 .. k - 1 : u[i] = s[i]
      BY <2>2
    <3>2. /\ v \in Seq(Operations) /\ Len(v) = Len(s) - k
          /\ \A i \in 1 .. Len(s) - k : v[i] = s[k + i]
      BY <2>2
    <3>3. w = u \o v
      BY <2>1 DEF RemoveAt
    <3> HIDE DEF u, v, w
    <3>4. /\ w \in Seq(Operations) /\ Len(w) = Len(s) - 1
          /\ \A i \in 1 .. Len(s) - 1 : w[i] = IF i <= k - 1 THEN u[i] ELSE v[i - (k - 1)]
      BY <3>1, <3>2, <3>3, <2>2
    <3>5. ASSUME NEW i \in 1 .. Len(s) - 1
          PROVE  w[i] = IF i < k THEN s[i] ELSE s[i + 1]
      <4>1. CASE i < k
        BY <4>1, <3>1, <3>4, <2>2
      <4>2. CASE ~(i < k)
        <5>1. i - (k - 1) \in 1 .. Len(s) - k /\ k + (i - (k - 1)) = i + 1 /\ ~(i <= k - 1)
          BY <4>2, <2>2
        <5> QED
          BY <4>2, <5>1, <3>2, <3>4
      <4> QED
        BY <4>1, <4>2
    <3> QED
      BY <3>4, <3>5
  <2>4. \A i, j \in DOMAIN w : w[i] = w[j] => i = j
    BY <2>2, <2>3
  <2>5. \A i \in DOMAIN w : w[i] \in ToSet(s) \ {o}
    BY <2>1, <2>2, <2>3 DEF ToSet
  <2>6. ASSUME NEW i \in DOMAIN s, s[i] # o
        PROVE  \E j \in DOMAIN w : w[j] = s[i]
    <3>1. i \in 1 .. Len(s) /\ i # k
      BY <2>1, <2>6
    <3>2. CASE i < k
      BY <3>1, <3>2, <2>2, <2>3
    <3>3. CASE i > k
      <4>1. i - 1 \in 1 .. Len(s) - 1 /\ ~(i - 1 < k) /\ (i - 1) + 1 = i
        BY <3>1, <3>3, <2>2
      <4>2. w[i - 1] = s[i] /\ i - 1 \in DOMAIN w
        BY <4>1, <2>3
      <4> QED
        BY <4>2
    <3> QED
      BY <3>1, <3>2, <3>3, <2>2
  <2>7. ToSet(w) = ToSet(s) \ {o}
    BY <2>5, <2>6 DEF ToSet
  <2> QED
    BY <2>3, <2>4, <2>7
<1> QED
  BY <1>1, <1>2

\* A new entry comes last.
LEMMA OneMore ==
    ASSUME NEW s \in Seq(Operations), NEW o \in Operations, o \notin ToSet(s),
           \A i, j \in DOMAIN s : s[i] = s[j] => i = j
    PROVE  /\ Append(s, o) \in Seq(Operations)
           /\ Len(Append(s, o)) = Len(s) + 1
           /\ ToSet(Append(s, o)) = ToSet(s) \cup {o}
           /\ \A i, j \in DOMAIN Append(s, o) : Append(s, o)[i] = Append(s, o)[j] => i = j
<1> DEFINE w == Append(s, o)
<1>1. /\ w \in Seq(Operations) /\ Len(w) = Len(s) + 1 /\ Len(s) \in Nat
      /\ \A i \in 1 .. Len(s) : w[i] = s[i]
      /\ w[Len(s) + 1] = o
  OBVIOUS
<1>2. \A i \in 1 .. Len(s) : s[i] # o
  BY DEF ToSet
<1>3. \A i, j \in DOMAIN w : w[i] = w[j] => i = j
  BY <1>1, <1>2
<1>4. ToSet(w) = ToSet(s) \cup {o}
  <2>1. \A i \in DOMAIN w : w[i] \in ToSet(s) \cup {o}
    BY <1>1 DEF ToSet
  <2>2. \A i \in DOMAIN s : i \in DOMAIN w /\ w[i] = s[i]
    BY <1>1
  <2>3. o \in ToSet(w)
    BY <1>1 DEF ToSet
  <2> QED
    BY <2>1, <2>2, <2>3 DEF ToSet
<1> QED
  BY <1>1, <1>3, <1>4

-----------------------------------------------------------------------------
(* How operations move *)

\* A hash is written down, or known, before a step iff it is after it; one
\* that could not be written down stays so.
SameHash(p, q) ==
    /\ p.stage \in Hashed <=> q.stage \in Hashed
    /\ p.stage \in Hashed => q.owner = p.owner
    /\ p.stage = "unrecorded" => q.stage = "unrecorded"

OperationsMove ==
    /\ op' \in [Operations -> OperationStates]
    /\ \A o \in Operations : OperationOK(op'[o]) /\ SameHash(op[o], op'[o])

\* The journal holds what it must when no hash comes or goes ...
LEMMA JournalStands ==
    ASSUME BrowserInv, OperationsMove, UNCHANGED journal, ended \subseteq ended'
    PROVE  JournalInv'
<1>1. \A a \in Accounts : JournalOK(a)'
  BY DEF BrowserInv, TypeOK, JournalInv, JournalOK, OperationsMove, SameHash, Saved, ToSet
<1>2. ASSUME NEW o \in Operations, op'[o].stage \in Hashed
      PROVE  o \in Saved(op[o].owner)' \cup ended'
  <2>1. op[o].stage \in Hashed /\ op'[o].owner = op[o].owner
    BY <1>2 DEF OperationsMove, SameHash
  <2>2. o \in Saved(op[o].owner) \cup ended
    BY <2>1 DEF BrowserInv, JournalInv, KnownHashIsKept, Hashed
  <2>3. Saved(op[o].owner)' = Saved(op[o].owner)
    BY <2>1 DEF Saved
  <2> QED
    BY <2>2, <2>3
<1> QED
  BY <1>1, <1>2 DEF JournalInv, KnownHashIsKept, Hashed

\* ... or when that of an operation goes whose evidence is there.
LEMMA JournalForgets ==
    ASSUME BrowserInv, OperationsMove, NEW o, Forget(o), ended' = ended \cup {o}
    PROVE  /\ JournalInv'
           /\ journal' \in [Accounts -> Seq(Operations)]
           /\ \A a \in Accounts : Len(journal'[a]) <= JournalLimit
<1> DEFINE b == op[o].owner
<1>1. ASSUME NEW a \in Accounts
      PROVE  /\ journal'[a] \in Seq(Operations)
             /\ Len(journal'[a]) <= JournalLimit
             /\ ToSet(journal[a]) \ {o} \subseteq ToSet(journal'[a])
             /\ ToSet(journal'[a]) \subseteq ToSet(journal[a])
             /\ \A i, j \in DOMAIN journal'[a] : journal'[a][i] = journal'[a][j] => i = j
  <2>1. /\ journal[a] \in Seq(Operations) /\ Len(journal[a]) <= JournalLimit /\ JournalLimit \in Nat
        /\ \A i, j \in DOMAIN journal[a] : journal[a][i] = journal[a][j] => i = j
    BY BrowserAssumption DEF BrowserInv, TypeOK, JournalInv, JournalOK
  <2>2. CASE a # b
    <3>1. journal'[a] = journal[a]
      BY <2>2 DEF Forget, BrowserInv, TypeOK
    <3> QED
      BY <2>1, <3>1
  <2>3. CASE a = b
    <3>1. journal'[a] = Without(journal[a], o)
      BY <2>3 DEF Forget, BrowserInv, TypeOK
    <3>2. /\ Without(journal[a], o) \in Seq(Operations)
          /\ Len(Without(journal[a], o)) <= Len(journal[a])
          /\ ToSet(Without(journal[a], o)) = ToSet(journal[a]) \ {o}
          /\ \A i, j \in DOMAIN Without(journal[a], o) :
                Without(journal[a], o)[i] = Without(journal[a], o)[j] => i = j
      BY <2>1, WithoutOne
    <3> HIDE DEF b
    <3>3. Len(journal'[a]) <= JournalLimit
      BY <2>1, <3>1, <3>2
    <3> QED
      BY <3>1, <3>2, <3>3
  <2> QED
    BY <2>2, <2>3
<1>2. journal' \in [Accounts -> Seq(Operations)]
  BY <1>1 DEF Forget, BrowserInv, TypeOK
<1>3. JournalInv'
  <2>1. ASSUME NEW a \in Accounts
        PROVE  JournalOK(a)'
    <3>1. \A p \in ToSet(journal'[a]) : op'[p].stage \in Hashed
      <4>1. \A p \in ToSet(journal[a]) : p \in Operations /\ op[p].stage \in Hashed
        BY DEF BrowserInv, TypeOK, JournalInv, JournalOK, Saved, ToSet
      <4> QED
        BY <1>1, <4>1 DEF OperationsMove, SameHash
    <3> QED
      BY <1>1, <3>1 DEF JournalOK, Saved
  <2>2. ASSUME NEW p \in Operations, op'[p].stage \in Hashed
        PROVE  p \in Saved(op[p].owner)' \cup ended'
    <3>1. op[p].stage \in Hashed /\ op'[p].owner = op[p].owner
      BY <2>2 DEF OperationsMove, SameHash
    <3>2. p \in ToSet(journal[op[p].owner]) \cup ended /\ op[p].owner \in Accounts
      BY <3>1 DEF BrowserInv, JournalInv, KnownHashIsKept, Hashed, Saved, OperationsInv, OperationOK
    <3>3. p # o => p \in ToSet(journal'[op[p].owner]) \cup ended
      BY <1>1, <3>2
    <3> QED
      BY <3>1, <3>3 DEF Saved
  <2> QED
    BY <2>1, <2>2 DEF JournalInv, KnownHashIsKept, Hashed
<1> QED
  BY <1>1, <1>2, <1>3

\* Reviews that are voided, and listeners that notice.
LEMMA ReviewsAreVoided ==
    ASSUME TypeOK, OperationsInv, NEW t \in Tabs
    PROVE  \A o \in Operations :
              /\ Voided(t, op[o]) \in OperationStates
              /\ OperationOK(Voided(t, op[o]))
              /\ SameHash(op[o], Voided(t, op[o]))
BY DEF TypeOK, OperationsInv, OperationOK, SameHash, Hashed, Voided, Over, Unused, OperationStates,
       Stages, Worked, Listening

\* One that listens notices.
LEMMA ListenersNotice ==
    ASSUME NEW t \in Tabs, NEW p \in OperationStates, OperationOK(p)
    PROVE  /\ Noticed(t, p) \in OperationStates
           /\ OperationOK(Noticed(t, p))
           /\ SameHash(p, Noticed(t, p))
BY DEF OperationOK, SameHash, Hashed, Noticed, OperationStates, Stages, Worked, Listening

\* A step of something else.
LEMMA NoOperationMoves ==
    ASSUME TypeOK, OperationsInv, UNCHANGED op
    PROVE  OperationsMove
BY DEF TypeOK, OperationsInv, OperationsMove, SameHash

\* An invalidated tab voids its reviews ...
LEMMA InvalidateMoves ==
    ASSUME TypeOK, OperationsInv, NEW t \in Tabs, Invalidate(t)
    PROVE  OperationsMove
BY ReviewsAreVoided DEF OperationsMove, Invalidate

\* ... a wallet event does too, and is noticed ...
LEMMA EventMoves ==
    ASSUME TypeOK, OperationsInv, NEW t \in Tabs, WalletEvent(t)
    PROVE  OperationsMove
<1>1. ASSUME NEW o \in Operations
      PROVE  /\ op'[o] \in OperationStates
             /\ OperationOK(op'[o])
             /\ SameHash(op[o], op'[o])
  <2>1. CASE op'[o] = Noticed(t, Voided(t, op[o]))
    BY <2>1, ReviewsAreVoided, ListenersNotice DEF SameHash
  <2>2. CASE op'[o] = Noticed(t, op[o])
    BY <2>2, ListenersNotice DEF TypeOK, OperationsInv
  <2> QED
    BY <2>1, <2>2 DEF WalletEvent
<1> QED
  BY <1>1 DEF WalletEvent, OperationsMove

\* ... and a reload ends what no hash is known of.
LEMMA ReloadMoves ==
    ASSUME TypeOK, OperationsInv, NEW t \in Tabs, Reload(t)
    PROVE  OperationsMove
<1>1. ASSUME NEW o \in Operations
      PROVE  /\ op'[o] \in OperationStates
             /\ OperationOK(op'[o])
             /\ SameHash(op[o], op'[o])
  <2> op'[o] = Left(t, op[o]) /\ op[o] \in OperationStates /\ OperationOK(op[o])
    BY DEF Reload, TypeOK, OperationsInv
  <2>1. CASE op[o].tab # t
    BY <2>1 DEF Left, SameHash
  <2>2. CASE op[o].tab = t
    <3>1. op[o].stage \in Worked
      BY <2>2, BrowserAssumption DEF OperationOK
    <3>2. op'[o] = IF op[o].stage = "registering" THEN Keep(op[o], "kept") ELSE Over
      BY <2>2 DEF Left
    <3> QED
      BY <3>1, <3>2 DEF Keep, Over, Unused, OperationOK, SameHash, Hashed, OperationStates,
                        Stages, Worked, Listening
  <2> QED
    BY <2>1, <2>2
<1> QED
  BY <1>1 DEF Reload, OperationsMove

-----------------------------------------------------------------------------
(* The steps of an operation *)

OperationSteps(o) ==
    op' = [op EXCEPT ![o] = op'[o]] /\ op'[o] \in OperationStates /\ OperationOK(op'[o])

\* One operation that moves to a good state.
LEMMA OneOperationMoves ==
    ASSUME TypeOK, OperationsInv, NEW o \in Operations, OperationSteps(o), SameHash(op[o], op'[o])
    PROVE  OperationsMove
BY DEF TypeOK, OperationsInv, OperationsMove, OperationSteps, SameHash

\* What a step of an operation leaves alone: reads, and of a tab its
\* session and its current read.
OperationFrame ==
    /\ UNCHANGED <<wallet, ended, read>>
    /\ tab' \in [Tabs -> TabStates]
    /\ \A t \in Tabs : tab'[t].session = tab[t].session /\ tab'[t].current = tab[t].current
    /\ backend' \subseteq Operations

\* A step that changes no tab, and one that changes what one tab shows.
LEMMA NoTabMoves ==
    ASSUME TypeOK, UNCHANGED <<wallet, journal, backend, ended, tab, read>>
    PROVE  OperationFrame
BY DEF TypeOK, OperationFrame

LEMMA OneTabMoves ==
    ASSUME TypeOK, NEW u \in Tabs, UNCHANGED <<wallet, ended, read>>, backend' \subseteq Operations,
           tab' = [tab EXCEPT ![u] = tab'[u]], tab'[u] \in TabStates,
           tab'[u].session = tab[u].session, tab'[u].current = tab[u].current
    PROVE  OperationFrame
BY DEF TypeOK, OperationFrame

\* Every step of an operation; only Retain writes a hash down.
LEMMA OperationMoves ==
    ASSUME BrowserInv, NEW o \in Operations, OperationStep(o)
    PROVE  /\ OperationFrame
           /\ Retain(o) \/ (OperationsMove /\ UNCHANGED journal)
<1> USE BrowserAssumption
<1>0. /\ TypeOK /\ OperationsInv
      /\ op[o] \in OperationStates /\ OperationOK(op[o])
      /\ tab \in [Tabs -> TabStates] /\ \A t \in Tabs : tab[t] \in TabStates
  BY DEF BrowserInv, TypeOK, OperationsInv
<1> DEFINE Goal == OperationFrame /\ (Retain(o) \/ (OperationsMove /\ UNCHANGED journal))
<1> SUFFICES Goal
  OBVIOUS
<1> DEFINE Simple ==
      /\ UNCHANGED <<wallet, journal, backend, ended, tab, read>>
      /\ OperationSteps(o) /\ SameHash(op[o], op'[o])
<1>s. ASSUME Simple PROVE Goal
  BY <1>s, <1>0, OneOperationMoves, NoTabMoves
<1> HIDE DEF Goal
<1>1. ASSUME NEW t \in Tabs, NEW i \in Intents, BeginReview(t, o, i) PROVE Goal
  <2>1. tab[t].session \in Accounts
    BY <1>0, <1>1 DEF BeginReview, TabStates
  <2> QED
    BY <1>0, <1>1, <1>s, <2>1 DEF BeginReview, OperationSteps, OperationOK, SameHash, Unused,
         OperationStates, Stages, Worked, Listening, Hashed, TypeOK
<1>r. CASE ReadCanonical(o)
  BY <1>0, <1>r, <1>s DEF ReadCanonical, OperationSteps, OperationOK, SameHash,
       OperationStates, Stages, Worked, Listening, Hashed, TypeOK
<1>2. CASE ReadAllowance(o)
  <2>1. /\ wallet \in Accounts \cup {Nobody, WrongChain} /\ op[o].tab \in Tabs
        /\ wallet = Session(o) /\ Session(o) # None
    BY <1>0, <1>2 DEF ReadAllowance, TypeOK, OperationOK, Worked, Stages
  <2>2. Session(o) \in Accounts \cup {None}
    BY <1>0, <2>1 DEF Session, TabStates, OperationStates
  <2>3. PICK owner \in Accounts : owner = Session(o)
    BY <2>1, <2>2
  <2>4. /\ op' = [op EXCEPT ![o].stage = "authorizing", ![o].owner = owner, ![o].quiet = TRUE]
        /\ op[o].stage = "snapshot"
        /\ UNCHANGED <<wallet, journal, backend, ended, tab, read>>
    BY <1>2, <2>3 DEF ReadAllowance
  <2> QED
    BY <1>0, <1>s, <2>4 DEF OperationSteps, OperationOK, SameHash,
         OperationStates, Stages, Worked, Listening, Hashed, TypeOK
<1>d. ASSUME Draft(o), op[o].stage \in {"reviewing", "authorizing"}
      PROVE  OperationSteps(o) /\ SameHash(op[o], op'[o])
  <2>1. tab[op[o].tab].flow \in Accounts
    BY <1>0, <1>d DEF Draft, OperationOK, Worked, Stages, TabStates
  <2> QED
    BY <1>0, <1>d, <2>1 DEF Draft, OperationSteps, OperationOK, SameHash,
         OperationStates, Stages, Worked, Listening, Hashed, TypeOK
<1>3. CASE ShowAllowance(o)
  <2>1. OperationSteps(o) /\ SameHash(op[o], op'[o])
    <3>1. CASE op[o].intent \in Deposits
      BY <1>3, <1>d, <3>1 DEF ShowAllowance
    <3>2. CASE op[o].intent \notin Deposits
      <4>1. op[o].stage = "authorizing" /\ Heard(o, "reviewed")
        BY <1>3, <3>2 DEF ShowAllowance
      <4> QED
        BY <1>0, <4>1 DEF Heard, OperationSteps, OperationOK, SameHash,
             OperationStates, Stages, Worked, Listening, Hashed, TypeOK
    <3> QED
      BY <3>1, <3>2
  <2>2. OperationFrame
    <3>1. PICK u \in Tabs, a \in Accounts :
             u = op[o].tab /\ a = Session(o)
      BY <1>0, <1>3 DEF ShowAllowance, Session, OperationOK, Worked, Stages, TabStates, OperationStates
    <3>2. PICK open \in BOOLEAN :
             tab' = [tab EXCEPT ![u].status = "CONNECTED", ![u].account = a, ![u].open = open]
      BY <1>3, <3>1 DEF ShowAllowance, MayOpen
    <3>3. UNCHANGED <<wallet, journal, backend, ended, read>>
      BY <1>3 DEF ShowAllowance
    <3>4. /\ tab' = [tab EXCEPT ![u] = tab'[u]] /\ tab'[u] \in TabStates
          /\ tab'[u].session = tab[u].session /\ tab'[u].current = tab[u].current
      <4>1. /\ tab' = [tab EXCEPT ![u] = [tab[u] EXCEPT !.status = "CONNECTED", !.account = a,
                                                       !.open = open]]
            /\ tab[u] \in TabStates /\ tab \in [Tabs -> TabStates]
        BY <1>0, <3>2
      <4>2. tab'[u] = [tab[u] EXCEPT !.status = "CONNECTED", !.account = a, !.open = open]
        BY <4>1
      <4> QED
        BY <4>1, <4>2 DEF TabStates, Statuses
    <3> QED
      BY <1>0, <3>1, <3>3, <3>4, OneTabMoves DEF TypeOK
  <2> QED
    BY <1>0, <1>3, <2>1, <2>2, OneOperationMoves DEF ShowAllowance, Goal
<1>4. CASE StartDraft(o)
  BY <1>4, <1>d, <1>s DEF StartDraft
<1>5. ASSUME NEW stage \in Worked \ Hashed, Stage(o, stage), op[o].stage \in Worked \ Hashed,
             stage \in Listening => op[o].stage \in Listening
      PROVE  OperationSteps(o) /\ SameHash(op[o], op'[o])
  BY <1>0, <1>5 DEF Stage, OperationSteps, OperationOK, SameHash,
       OperationStates, Stages, Worked, Listening, Hashed, TypeOK
<1>6. CASE FinishReview(o)
  BY <1>5, <1>6, <1>s DEF FinishReview, Worked, Stages, Hashed, Listening
<1>7. CASE Confirm(o)
  BY <1>5, <1>7, <1>s DEF Confirm, Worked, Stages, Hashed, Listening
<1>8. CASE MatchSession(o)
  BY <1>5, <1>8, <1>s DEF MatchSession, Worked, Stages, Hashed, Listening
<1>9. CASE CheckJournal(o)
  BY <1>0, <1>9, <1>s DEF CheckJournal, OperationSteps, OperationOK, SameHash,
       OperationStates, Stages, Worked, Listening, Hashed, TypeOK
<1>10. CASE Simulate(o)
  BY <1>5, <1>10, <1>s DEF Simulate, Worked, Stages, Hashed, Listening
<1>11. CASE Send(o)
  BY <1>5, <1>11, <1>s DEF Send, Worked, Stages, Hashed, Listening
<1>12. ASSUME End(o), op[o].stage \in Worked \ Hashed
       PROVE  OperationSteps(o) /\ SameHash(op[o], op'[o])
  BY <1>0, <1>12 DEF End, Over, Unused, OperationSteps, OperationOK, SameHash,
       OperationStates, Stages, Worked, Listening, Hashed, TypeOK
<1>13. CASE WalletAnswers(o)
  BY <1>5, <1>12, <1>13, <1>s DEF WalletAnswers, Worked, Stages, Hashed, Listening
<1>14. CASE ShowApproval(o)
  BY <1>12, <1>14, <1>s DEF ShowApproval, Worked, Stages, Hashed
<1>15. CASE Abandon(o)
  BY <1>12, <1>15, <1>s DEF Abandon, Worked, Stages, Hashed
<1>16. CASE Retain(o)
  <2>1. PICK u \in Tabs : u = op[o].tab
    BY <1>0, <1>16 DEF Retain, OperationOK, Worked, Stages
  <2>2. tab' = [tab EXCEPT ![u].pending = o] /\ UNCHANGED <<wallet, backend, ended, read>>
    BY <1>16, <2>1 DEF Retain
  <2>3. /\ tab' = [tab EXCEPT ![u] = tab'[u]] /\ tab'[u] \in TabStates
        /\ tab'[u].session = tab[u].session /\ tab'[u].current = tab[u].current
    <3>1. /\ tab' = [tab EXCEPT ![u] = [tab[u] EXCEPT !.pending = o]]
          /\ tab[u] \in TabStates /\ tab \in [Tabs -> TabStates]
      BY <1>0, <2>2
    <3>2. tab'[u] = [tab[u] EXCEPT !.pending = o]
      BY <3>1
    <3> QED
      BY <3>1, <3>2 DEF TabStates
  <2>4. OperationFrame
    BY <1>0, <2>1, <2>2, <2>3, OneTabMoves DEF TypeOK
  <2> QED
    BY <1>16, <2>4 DEF Goal
<1>17. CASE RegisterSubmission(o)
  <2>0. PICK u \in Tabs : u = op[o].tab
    BY <1>0, <1>17 DEF RegisterSubmission, OperationOK, Worked, Stages
  <2>1. UNCHANGED <<wallet, journal, ended, read>>
    BY <1>17 DEF RegisterSubmission
  <2>2. OperationSteps(o) /\ SameHash(op[o], op'[o])
    BY <1>0, <1>17 DEF RegisterSubmission, EndWithHash, Keep, OperationSteps, OperationOK, SameHash,
         OperationStates, Stages, Worked, Listening, Hashed, TypeOK
  <2>3. backend' \subseteq Operations
    BY <1>0, <1>17 DEF RegisterSubmission, TypeOK
  <2>4. ASSUME UNCHANGED tab PROVE OperationFrame
    BY <1>0, <2>1, <2>3, <2>4 DEF OperationFrame, TypeOK
  <2>5. ASSUME tab' = [tab EXCEPT ![u].registered = @ \cup {o}] PROVE OperationFrame
    <3>1. /\ tab' = [tab EXCEPT ![u] = tab'[u]] /\ tab'[u] \in TabStates
          /\ tab'[u].session = tab[u].session /\ tab'[u].current = tab[u].current
      <4>1. /\ tab' = [tab EXCEPT ![u] = [tab[u] EXCEPT !.registered = @ \cup {o}]]
            /\ tab[u] \in TabStates /\ tab \in [Tabs -> TabStates]
        BY <1>0, <2>5
      <4>2. tab'[u] = [tab[u] EXCEPT !.registered = @ \cup {o}]
        BY <4>1
      <4> QED
        BY <4>1, <4>2 DEF TabStates
    <3> QED
      BY <1>0, <2>1, <2>3, <3>1, OneTabMoves
  <2>6. OperationFrame
    BY <1>17, <2>0, <2>4, <2>5 DEF RegisterSubmission
  <2> QED
    BY <1>0, <2>1, <2>2, <2>6, OneOperationMoves DEF Goal
<1> QED
  BY <1>1, <1>r, <1>2, <1>3, <1>4, <1>6, <1>7, <1>8, <1>9, <1>10, <1>11, <1>13, <1>14, <1>15, <1>16,
     <1>17 DEF OperationStep

-----------------------------------------------------------------------------
(* The steps of a read *)

\* What a step of the read r does to the reads ...
ReadMoves(r) ==
    /\ read' \in [Reads -> ReadStates]
    /\ \A q \in Reads : q # r => read'[q] = read[q]
    /\ ReadOK(read'[r])
    /\ read'[r].phase # "idle" => read'[r].tab = read[r].tab /\ read'[r].quiet = read[r].quiet

\* ... and, as the current one of the tab u, to the tabs: what they show
\* changes as it goes on, it shows as open only what was shown before or the
\* wallet's account, and it watches another operation, a saved one, only in
\* place of another owner's.
Watches(s, x) ==
    /\ \/ x.pending = s.pending
       \/ s.pending = None
       \/ op[s.pending].owner # s.session
    /\ x.pending \in {s.pending, None} \/ op[x.pending].stage \in Hashed

TabMoves(r, u) ==
    /\ tab' \in [Tabs -> TabStates]
    /\ \A t \in Tabs : t # u => tab'[t] = tab[t]
    /\ tab'[u].current \in {r, None}
    /\ tab'[u].current = r /\ read'[r].phase \in Knows => tab'[u].session = read'[r].account
    /\ tab'[u].open => \/ tab[u].open /\ tab'[u].account = tab[u].account
                       \/ tab'[u].account = wallet
    /\ Shown(tab'[u]) = Shown(tab[u]) \/ read'[r].phase # read[r].phase
    /\ Watches(tab[u], tab'[u])

\* Such a step leaves every current read with its tab.
LEMMA ReadsAreKept ==
    ASSUME BrowserInv, NEW r \in Reads, NEW u \in Tabs, u = read[r].tab,
           IsCurrent(r), ReadMoves(r), TabMoves(r, u)
    PROVE  ReadsInv'
<1> USE BrowserAssumption
<1>1. ASSUME NEW q \in Reads
      PROVE  ReadOK(read'[q])
  BY DEF BrowserInv, ReadsInv, ReadMoves
<1>2. ASSUME NEW q \in Reads, read'[q].phase # "idle", tab'[read'[q].tab].current = q
      PROVE  /\ read'[q].quiet
             /\ read'[q].phase \in Knows => tab'[read'[q].tab].session = read'[q].account
  <2>1. CASE q = r
    <3>1. read'[r].tab = u /\ read'[r].quiet = read[r].quiet
      BY <1>2, <2>1 DEF ReadMoves
    <3>2. read[r].quiet
      BY DEF BrowserInv, ReadsInv, CurrentOK
    <3> QED
      BY <1>2, <2>1, <3>1, <3>2 DEF TabMoves
  <2>2. CASE q # r
    <3>1. read'[q] = read[q] /\ read[q].tab \in Tabs
      BY <1>2, <2>2 DEF ReadMoves, BrowserInv, ReadsInv, ReadOK
    <3>2. read[q].tab # u
      BY <1>2, <2>2, <3>1 DEF TabMoves
    <3>3. tab'[read[q].tab] = tab[read[q].tab]
      BY <3>1, <3>2 DEF TabMoves
    <3>4. IsCurrent(q)
      BY <1>2, <3>1, <3>3 DEF IsCurrent
    <3> QED
      BY <3>1, <3>3, <3>4 DEF BrowserInv, ReadsInv, CurrentOK
  <2> QED
    BY <2>1, <2>2
<1> QED
  BY <1>1, <1>2 DEF ReadsInv, CurrentOK, IsCurrent, ReadOK

\* A read goes to its next phase, ends, or asks about the next operation.
LEMMA GoMoves ==
    ASSUME TypeOK, NEW r \in Reads, NEW phase \in Phases, Go(r, phase)
    PROVE  /\ read' \in [Reads -> ReadStates]
           /\ \A q \in Reads : q # r => read'[q] = read[q]
           /\ read'[r] = [read[r] EXCEPT !.phase = phase]
           /\ read'[r].phase = phase /\ read'[r].tab = read[r].tab
           /\ read'[r].account = read[r].account /\ read'[r].quiet = read[r].quiet
           /\ read'[r].queue = read[r].queue
<1>1. read \in [Reads -> ReadStates] /\ read[r] \in ReadStates
  BY DEF TypeOK
<1>2. read' = [read EXCEPT ![r] = [read[r] EXCEPT !.phase = phase]]
  BY DEF Go
<1>3. [read[r] EXCEPT !.phase = phase] \in ReadStates
  BY <1>1 DEF ReadStates
<1>4. read'[r] = [read[r] EXCEPT !.phase = phase]
  BY <1>1, <1>2
<1> QED
  BY <1>1, <1>2, <1>3, <1>4 DEF ReadStates

LEMMA StopMoves ==
    ASSUME TypeOK, NEW r \in Reads, Stop(r)
    PROVE  ReadMoves(r) /\ read'[r] = Idle
<1>1. Idle \in ReadStates /\ ReadOK(Idle) /\ Idle.phase = "idle"
  BY DEF Idle, ReadStates, Phases, ReadOK, Knows
<1> QED
  BY <1>1 DEF Stop, TypeOK, ReadMoves

\* The queue holds operations.
LEMMA RestOfQueue ==
    ASSUME NEW s \in Seq(Operations), s # <<>>
    PROVE  Head(s) \in Operations /\ Tail(s) \in Seq(Operations)
OBVIOUS

LEMMA NextIsAsked ==
    ASSUME TypeOK, NEW r \in Reads, read' = [read EXCEPT ![r] = Asked(@)], ReadOK(read[r]),
           read[r].phase = "asking"
    PROVE  /\ ReadMoves(r) /\ read'[r].account = read[r].account
           /\ read'[r].phase \in {"asking", "publishing"}
<1>1. read \in [Reads -> ReadStates] /\ read[r] \in ReadStates
  BY DEF TypeOK
<1>2. read[r].queue \in Seq(Operations) /\ read[r].queue # <<>>
  BY <1>1 DEF ReadOK, ReadStates
<1>3. PICK queue \in Seq(Operations) : queue = Tail(read[r].queue)
  BY <1>2, RestOfQueue
<1>4. Asked(read[r]) = [read[r] EXCEPT !.queue = queue,
                                       !.phase = IF queue = <<>> THEN "publishing" ELSE "asking"]
  BY <1>3 DEF Asked
<1>5. PICK phase \in {"asking", "publishing"} :
         /\ phase = IF queue = <<>> THEN "publishing" ELSE "asking"
         /\ read'[r] = [read[r] EXCEPT !.queue = queue, !.phase = phase]
  BY <1>1, <1>4
<1>6. /\ read'[r] \in ReadStates /\ read'[r].phase = phase /\ read'[r].queue = queue
      /\ read'[r].tab = read[r].tab /\ read'[r].quiet = read[r].quiet
      /\ read'[r].account = read[r].account
  BY <1>1, <1>5 DEF ReadStates, Phases
<1>7. ReadOK(read'[r])
  BY <1>5, <1>6 DEF ReadOK, Knows
<1>8. read' \in [Reads -> ReadStates] /\ \A q \in Reads : q # r => read'[q] = read[q]
  BY <1>1, <1>6
<1> QED
  BY <1>5, <1>6, <1>7, <1>8 DEF ReadMoves

\* A tab that is closed, and one that is left as it is.
LEMMA ClosedTab ==
    ASSUME TypeOK, NEW u \in Tabs, NEW r \in Reads, tab' = [tab EXCEPT ![u] = Closed(@)],
           read'[r].phase # read[r].phase
    PROVE  TabMoves(r, u)
<1>1. tab \in [Tabs -> TabStates] /\ tab[u] \in TabStates
  BY DEF TypeOK
<1>2. /\ tab'[u] \in TabStates /\ tab'[u].current = None
      /\ tab'[u].open = FALSE /\ tab'[u].pending = tab[u].pending
  <2>1. tab'[u] = Closed(tab[u])
    BY <1>1
  <2> QED
    BY <1>1, <2>1 DEF Closed, TabStates, Statuses
<1> QED
  BY <1>1, <1>2, BrowserAssumption DEF TabMoves, Watches

LEMMA SameTab ==
    ASSUME TypeOK, NEW u \in Tabs, NEW r \in Reads, UNCHANGED tab, tab[u].current = r,
           read'[r].phase \in Knows => tab[u].session = read'[r].account
    PROVE  TabMoves(r, u)
BY DEF TypeOK, TabMoves, Watches

\* The last operation saved for an account has its hash written down.
LEMMA LastIsSaved ==
    ASSUME BrowserInv, NEW a \in Accounts
    PROVE  /\ LastSaved(a) \in Operations \cup {None}
           /\ LastSaved(a) # None => op[LastSaved(a)].stage \in Hashed
<1>1. journal[a] \in Seq(Operations) /\ \A o \in ToSet(journal[a]) : op[o].stage \in Hashed
  BY DEF BrowserInv, TypeOK, JournalInv, JournalOK, Saved
<1>2. ASSUME NEW s \in Seq(Operations), s # <<>>
      PROVE  Last(s) \in Operations /\ Last(s) \in ToSet(s)
  BY <1>2 DEF Last, ToSet
<1>3. CASE journal[a] = <<>>
  BY <1>3 DEF LastSaved
<1>4. CASE journal[a] # <<>>
  BY <1>1, <1>2, <1>4 DEF LastSaved
<1> QED
  BY <1>3, <1>4

\* Every step of a current read; that which restores the operation to watch
\* is below.
LEMMA CurrentReadMoves ==
    ASSUME BrowserInv, NEW r \in Reads, NEW u \in Tabs, u = read[r].tab, IsCurrent(r), ReadStep(r),
           ~RestoreOperation(r)
    PROVE  /\ ReadMoves(r) /\ TabMoves(r, u) /\ OperationsMove
           /\ backend' \subseteq Operations /\ UNCHANGED wallet
           /\ \/ UNCHANGED <<journal, ended>>
              \/ \E o : Forget(o) /\ ended' = ended \cup {o} /\ o \in Operations
<1> USE BrowserAssumption
<1>0. /\ TypeOK /\ OperationsInv
      /\ read[r] \in ReadStates /\ ReadOK(read[r]) /\ read[r].quiet
      /\ read[r].phase \in Knows => tab[u].session = read[r].account
      /\ read[r].phase # "idle" /\ tab[u].current = r
      /\ tab \in [Tabs -> TabStates] /\ tab[u] \in TabStates
      /\ read \in [Reads -> ReadStates]
  BY DEF BrowserInv, TypeOK, ReadsInv, CurrentOK, IsCurrent
<1>go. ASSUME NEW phase \in Phases, Go(r, phase),
              phase # "asking", phase \in Knows => read[r].phase \in Knows, phase # "opening"
       PROVE  /\ ReadMoves(r) /\ read'[r].account = read[r].account /\ read'[r].phase = phase
  <2>1. ReadOK(read'[r])
    BY <1>0, <1>go, GoMoves DEF ReadOK, Knows
  <2> QED
    BY <1>0, <1>go, <2>1, GoMoves DEF ReadMoves
<1>p. ASSUME NEW phase \in Phases, Go(r, phase), phase # "asking", phase # "opening",
             phase \in Knows => read[r].phase \in Knows, UNCHANGED tab
      PROVE  ReadMoves(r) /\ TabMoves(r, u)
  BY <1>0, <1>p, <1>go, SameTab
<1>s. ASSUME UNCHANGED <<wallet, journal, backend, ended>>
      PROVE  /\ backend' \subseteq Operations /\ UNCHANGED wallet
             /\ \/ UNCHANGED <<journal, ended>>
                \/ \E o : Forget(o) /\ ended' = ended \cup {o} /\ o \in Operations
  BY <1>0, <1>s DEF TypeOK
<1>e. ASSUME Stop(r) PROVE ReadMoves(r) /\ read'[r].phase = "idle" /\ read'[r].phase # read[r].phase
  BY <1>0, <1>e, StopMoves DEF Idle
<1>i. ASSUME Invalidate(u), Stop(r)
      PROVE  ReadMoves(r) /\ TabMoves(r, u) /\ OperationsMove
  BY <1>0, <1>e, <1>i, InvalidateMoves, ClosedTab DEF Invalidate
<1>1. ASSUME NEW t \in Tabs, StartConnect(t, r) \/ StartRefresh(t, r)
      PROVE  FALSE
  BY <1>0, <1>1 DEF StartConnect, StartRefresh, Begin
<1>2. CASE ConnectAnswered(r)
  <2>1. /\ wallet \in Accounts /\ UNCHANGED tab
        /\ read' = [read EXCEPT ![r] = [read[r] EXCEPT !.phase = "opening", !.account = wallet]]
        /\ UNCHANGED <<wallet, journal, backend, ended, op>>
    BY <1>2 DEF ConnectAnswered
  <2>2. read'[r] = [read[r] EXCEPT !.phase = "opening", !.account = wallet]
    BY <1>0, <2>1
  <2>3. /\ read'[r] \in ReadStates /\ ReadOK(read'[r]) /\ read'[r].phase = "opening"
        /\ read'[r].tab = read[r].tab /\ read'[r].quiet = read[r].quiet
    BY <1>0, <2>1, <2>2 DEF ReadStates, Phases, ReadOK, Knows
  <2>4. ReadMoves(r)
    BY <1>0, <2>1, <2>3 DEF ReadMoves
  <2>5. TabMoves(r, u)
    BY <1>0, <2>1, <2>3, SameTab DEF Knows
  <2> QED
    BY <1>0, <1>s, <2>1, <2>4, <2>5, NoOperationMoves
<1>3. CASE ConnectRead(r)
  <2>1. /\ Go(r, "opened") /\ read[r].phase = "opening"
        /\ tab' = [tab EXCEPT ![u] = [tab[u] EXCEPT !.session = read[r].account,
                                                    !.flow = read[r].account]]
        /\ UNCHANGED <<wallet, journal, backend, ended, op>>
    BY <1>3 DEF ConnectRead, At
  <2>2. PICK a \in Accounts : a = read[r].account
    BY <1>0, <2>1 DEF ReadOK
  <2>3. /\ read' \in [Reads -> ReadStates] /\ \A q \in Reads : q # r => read'[q] = read[q]
        /\ read'[r].phase = "opened" /\ read'[r].account = a
        /\ read'[r].tab = read[r].tab /\ read'[r].quiet = read[r].quiet
    BY <1>0, <2>1, <2>2, GoMoves DEF Phases
  <2>4. ReadMoves(r)
    BY <1>0, <2>2, <2>3 DEF ReadMoves, ReadOK
  <2>5. tab'[u] = [tab[u] EXCEPT !.session = a, !.flow = a]
    BY <1>0, <2>1, <2>2
  <2>6. /\ tab'[u] \in TabStates /\ tab'[u].session = a /\ tab'[u].current = r
        /\ tab'[u].open = tab[u].open /\ tab'[u].account = tab[u].account
        /\ tab'[u].pending = tab[u].pending
    BY <1>0, <2>5 DEF TabStates
  <2>7. TabMoves(r, u)
    BY <1>0, <2>1, <2>3, <2>6 DEF TabMoves, Watches
  <2> QED
    BY <1>0, <1>s, <2>1, <2>4, <2>7, NoOperationMoves
\* A connection is shown.
<1>c. ASSUME NEW a \in Accounts, NEW open \in BOOLEAN, NEW c \in {r, None}, a = wallet,
             tab' = [tab EXCEPT ![u] = [tab[u] EXCEPT !.status = "CONNECTED", !.account = a,
                                          !.open = open, !.current = c]],
             c = r /\ read'[r].phase \in Knows => tab[u].session = read'[r].account,
             read'[r].phase # read[r].phase
      PROVE  TabMoves(r, u)
  <2>1. tab'[u] = [tab[u] EXCEPT !.status = "CONNECTED", !.account = a, !.open = open, !.current = c]
    BY <1>0, <1>c
  <2>2. /\ tab'[u] \in TabStates /\ tab'[u].current = c /\ tab'[u].session = tab[u].session
        /\ tab'[u].account = a /\ tab'[u].pending = tab[u].pending
    <3>0. PICK s \in TabStates : s = tab[u]
      BY <1>0
    <3>1. PICK x : x = tab'[u]
      OBVIOUS
    <3>2. x = [s EXCEPT !.status = "CONNECTED", !.account = a, !.open = open, !.current = c]
      BY <2>1, <3>0, <3>1
    <3>3. /\ x \in TabStates /\ x.current = c /\ x.session = s.session
          /\ x.account = a /\ x.pending = s.pending
      BY <3>2 DEF TabStates, Statuses
    <3> QED
      BY <3>0, <3>1, <3>3
  <2> QED
    BY <1>0, <1>c, <2>2 DEF TabMoves, Watches
<1>4. CASE PublishConnection(r)
  <2>1. PICK a \in Accounts : a = read[r].account /\ a = tab[u].session
    BY <1>0, <1>4 DEF PublishConnection, At, ReadOK, Knows
  <2>2. PICK open \in BOOLEAN : tab' = [tab EXCEPT ![u] = Connected(tab[u], r, open)]
    BY <1>4, <2>1 DEF PublishConnection, MayOpen
  <2>3. /\ a = wallet /\ read[r].phase = "opened" /\ Go(r, "shown")
        /\ UNCHANGED <<wallet, journal, backend, ended, op>>
    BY <1>4, <2>1 DEF PublishConnection, At, Matches
  <2>4. ReadMoves(r) /\ read'[r].account = a /\ read'[r].phase = "shown"
    BY <1>go, <2>1, <2>3 DEF Phases, Knows
  <2>5. tab' = [tab EXCEPT ![u] = [tab[u] EXCEPT !.status = "CONNECTED", !.account = a,
                                     !.open = open, !.current = r]]
    <3>1. Connected(tab[u], r, open) =
             [tab[u] EXCEPT !.status = "CONNECTED", !.account = a, !.open = open, !.current = r]
      BY <1>0, <2>1 DEF Connected, TabStates
    <3> QED
      BY <2>2, <3>1
  <2>6. TabMoves(r, u)
    BY <1>c, <2>1, <2>3, <2>4, <2>5
  <2> QED
    BY <1>0, <1>s, <2>3, <2>4, <2>6, NoOperationMoves
<1>5. CASE PublishRestored(r)
  <2>1. /\ UNCHANGED <<wallet, journal, backend, ended, op>> /\ read[r].phase = "restoring"
        /\ wallet = read[r].account
    BY <1>5 DEF PublishRestored, At, Matches
  <2>2. PICK a \in Accounts : a = read[r].account
    <3>1. wallet \in Accounts \cup {Nobody, WrongChain} /\ wallet \in Accounts \cup {None}
      BY <1>0, <2>1 DEF TypeOK, ReadStates
    <3> QED
      BY <2>1, <3>1
  <2>3. PICK open \in BOOLEAN : open = read[r].open
    BY <1>0 DEF ReadStates
  <2>4. PICK s : s = Connected(tab[u], r, open)
    OBVIOUS
  <2>5. /\ s = [tab[u] EXCEPT !.status = "CONNECTED", !.account = a, !.open = open, !.current = r]
        /\ [s EXCEPT !.current = None] =
              [tab[u] EXCEPT !.status = "CONNECTED", !.account = a, !.open = open, !.current = None]
    BY <1>0, <2>2, <2>4 DEF Connected, TabStates
  <2>6. ASSUME Go(r, "observing"), tab' = [tab EXCEPT ![u] = s]
        PROVE  ReadMoves(r) /\ TabMoves(r, u)
    <3>1. ReadMoves(r) /\ read'[r].phase = "observing"
      BY <1>go, <2>6 DEF Phases, Knows
    <3>2. tab' = [tab EXCEPT ![u] = [tab[u] EXCEPT !.status = "CONNECTED", !.account = a,
                                                   !.open = open, !.current = r]]
      BY <2>5, <2>6
    <3>3. read'[r].phase \notin Knows /\ read'[r].phase # read[r].phase
      BY <2>1, <3>1 DEF Knows
    <3> QED
      BY <1>c, <2>1, <2>2, <3>1, <3>2, <3>3
  <2>7. ASSUME Stop(r), tab' = [tab EXCEPT ![u] = [s EXCEPT !.current = None]]
        PROVE  ReadMoves(r) /\ TabMoves(r, u)
    <3>1. tab' = [tab EXCEPT ![u] = [tab[u] EXCEPT !.status = "CONNECTED", !.account = a,
                                                   !.open = open, !.current = None]]
      BY <2>5, <2>7
    <3>2. ReadMoves(r) /\ read'[r].phase \notin Knows /\ read'[r].phase # read[r].phase
      BY <1>e, <2>7 DEF Knows
    <3>3. TabMoves(r, u)
      BY <1>c, <2>1, <2>2, <3>1, <3>2
    <3> QED
      BY <3>2, <3>3
  <2>8. ReadMoves(r) /\ TabMoves(r, u)
    BY <1>5, <2>3, <2>4, <2>6, <2>7 DEF PublishRestored
  <2> QED
    BY <1>0, <1>s, <2>1, <2>8, NoOperationMoves
<1>6. CASE RefreshObserved(r)
  <2>1. /\ read[r].phase = "observing" /\ wallet = tab[u].session
        /\ UNCHANGED <<wallet, journal, backend, ended, tab, op>>
        /\ read' = [read EXCEPT ![r] = [read[r] EXCEPT !.phase = "reading", !.account = wallet]]
    BY <1>6 DEF RefreshObserved, At
  <2>2. PICK a \in Accounts : a = wallet
    <3>1. wallet \in Accounts \cup {Nobody, WrongChain} /\ wallet \in Accounts \cup {None}
      BY <1>0, <2>1 DEF TypeOK, TabStates
    <3> QED
      BY <3>1
  <2>3. read'[r] = [read[r] EXCEPT !.phase = "reading", !.account = a]
    BY <1>0, <2>1, <2>2
  <2>4. /\ read'[r] \in ReadStates /\ ReadOK(read'[r]) /\ read'[r].account = wallet
        /\ read'[r].tab = read[r].tab /\ read'[r].quiet = read[r].quiet
    <3>1. /\ read'[r] \in ReadStates /\ read'[r].account = a /\ read'[r].phase = "reading"
          /\ read'[r].tab = read[r].tab /\ read'[r].quiet = read[r].quiet
      <4>0. PICK x \in ReadStates : x = read[r]
        BY <1>0
      <4>1. PICK y : y = read'[r]
        OBVIOUS
      <4>2. y = [x EXCEPT !.phase = "reading", !.account = a] /\ "reading" \in Phases
        BY <2>3, <4>0, <4>1 DEF Phases
      <4>3. y \in ReadStates
        BY <4>2 DEF ReadStates
      <4>4. /\ y.account = a /\ y.phase = "reading" /\ y.tab = x.tab /\ y.quiet = x.quiet
        BY <4>2 DEF ReadStates
      <4> QED
        BY <4>0, <4>1, <4>3, <4>4
    <3> QED
      BY <1>0, <2>2, <3>1 DEF ReadOK
  <2>5. ReadMoves(r)
    BY <1>0, <2>1, <2>4 DEF ReadMoves
  <2>6. TabMoves(r, u)
    BY <1>0, <2>1, <2>4, SameTab
  <2> QED
    BY <1>0, <1>s, <2>1, <2>5, <2>6, NoOperationMoves
<1>7. CASE RefreshFindsChange(r)
  <2>1. Stop(r) /\ UNCHANGED <<wallet, journal, backend, ended>>
    BY <1>7 DEF RefreshFindsChange
  <2>2. CASE Invalidate(u)
    BY <1>i, <1>s, <2>1, <2>2
  <2>3. CASE /\ \E s \in RefreshClosed(tab[u]) : tab' = [tab EXCEPT ![u] = [s EXCEPT !.current = None]]
             /\ UNCHANGED op
    <3>1. PICK s \in RefreshClosed(tab[u]) : tab' = [tab EXCEPT ![u] = [s EXCEPT !.current = None]]
      BY <2>3
    <3>2. /\ s \in TabStates
          /\ s.pending = tab[u].pending
          /\ s.open => s.account = wallet
      <4>1. PICK x \in TabStates : x = tab[u]
        BY <1>0
      <4>c. PICK closed : closed = [x EXCEPT !.open = FALSE]
        OBVIOUS
      <4>2. closed \in TabStates /\ closed.pending = x.pending /\ closed.open = FALSE
        BY <4>c DEF TabStates
      <4>g. PICK gone : gone = [closed EXCEPT !.session = None]
        OBVIOUS
      <4>3. gone \in TabStates /\ gone.pending = x.pending /\ gone.open = FALSE
        BY <4>2, <4>g DEF TabStates
      <4>4. wallet \in Accounts \cup {Nobody, WrongChain} /\ Observed \subseteq Accounts
        BY <1>0 DEF TypeOK, Observed
      <4>5. CASE s = [gone EXCEPT !.status = "DISCONNECTED", !.account = None]
        BY <4>1, <4>3, <4>5 DEF TabStates, Statuses
      <4>6. ASSUME NEW a \in Accounts,
                   \/ s = [closed EXCEPT !.status = "WRONG_CHAIN", !.account = a]
                   \/ s = [gone EXCEPT !.status = "ACCOUNT_CHANGED", !.account = a]
            PROVE  s \in TabStates /\ s.pending = x.pending /\ s.open = FALSE
        <5>1. CASE s = [closed EXCEPT !.status = "WRONG_CHAIN", !.account = a]
          BY <4>2, <5>1 DEF TabStates, Statuses
        <5>2. CASE s = [gone EXCEPT !.status = "ACCOUNT_CHANGED", !.account = a]
          BY <4>3, <5>2 DEF TabStates, Statuses
        <5> QED
          BY <4>6, <5>1, <5>2
      <4>7. CASE wallet \in Accounts /\ s = [x EXCEPT !.status = "CONNECTED", !.account = wallet]
        <5>1. PICK a \in Accounts : a = wallet
          BY <4>7
        <5>2. s = [x EXCEPT !.status = "CONNECTED", !.account = a]
          BY <4>7, <5>1
        <5>3. s \in TabStates /\ s.pending = x.pending /\ s.account = a
          BY <5>2 DEF TabStates, Statuses
        <5> QED
          BY <4>1, <5>1, <5>3
      <4>8. \/ s = [gone EXCEPT !.status = "DISCONNECTED", !.account = None]
            \/ \E a \in Observed :
                  \/ s = [closed EXCEPT !.status = "WRONG_CHAIN", !.account = a]
                  \/ s = [gone EXCEPT !.status = "ACCOUNT_CHANGED", !.account = a]
            \/ wallet \in Accounts /\ s = [x EXCEPT !.status = "CONNECTED", !.account = wallet]
        BY <3>1, <4>1, <4>c, <4>g, <4>4 DEF RefreshClosed
      <4> QED
        BY <4>1, <4>4, <4>5, <4>6, <4>7, <4>8
    <3>3. tab'[u] = [s EXCEPT !.current = None]
      BY <1>0, <3>1
    <3>4. /\ tab'[u] \in TabStates /\ tab'[u].current = None
          /\ tab'[u].open = s.open /\ tab'[u].account = s.account /\ tab'[u].pending = tab[u].pending
      BY <3>2, <3>3 DEF TabStates
    <3>5. TabMoves(r, u)
      BY <1>0, <1>e, <2>1, <3>1, <3>2, <3>4 DEF TabMoves, Watches
    <3> QED
      BY <1>0, <1>e, <1>s, <2>1, <2>3, <3>5, NoOperationMoves
  <2> QED
    BY <1>7, <2>2, <2>3 DEF RefreshFindsChange
<1>8. CASE RefreshRead(r)
  <2>1. read[r].phase = "reading" /\ UNCHANGED <<wallet, journal, backend, ended, op>>
    BY <1>8 DEF RefreshRead, At
  <2>2. PICK a \in Accounts : a = read[r].account /\ a = tab[u].session
    BY <1>0, <2>1 DEF ReadOK, Knows
  <2>3. PICK p \in Operations \cup {None} : p = Rediscovered(tab[u], a)
    BY <1>0, LastIsSaved DEF Rediscovered, Restored, TabStates
  <2>5. PICK queue \in Seq(Operations) :
           queue = Without(journal[a], p) \o (IF p # None /\ op[p].owner = a THEN <<p>> ELSE <<>>)
    <3>1. Without(journal[a], p) \in Seq(Operations)
      BY <1>0, WithoutOne DEF BrowserInv, TypeOK, JournalInv, JournalOK
    <3>2. (IF p # None /\ op[p].owner = a THEN <<p>> ELSE <<>>) \in Seq(Operations)
      <4>1. p # None => p \in Operations
        BY <2>3
      <4> QED
        BY <4>1
    <3>3. PICK s \in Seq(Operations), e \in Seq(Operations) :
             /\ s = Without(journal[a], p)
             /\ e = IF p # None /\ op[p].owner = a THEN <<p>> ELSE <<>>
      BY <3>1, <3>2
    <3>4. s \o e \in Seq(Operations)
      OBVIOUS
    <3> QED
      BY <3>3, <3>4
  <2>6. PICK phase \in {"publishing", "asking"}, watch \in Operations \cup {None} :
           /\ phase = IF queue = <<>> THEN "publishing" ELSE "asking"
           /\ watch = IF p # None /\ op[p].owner = a THEN p ELSE None
    OBVIOUS
  <2>7. /\ tab' = [tab EXCEPT ![u] = [tab[u] EXCEPT !.pending = p]]
        /\ read' = [read EXCEPT ![r] = [read[r] EXCEPT !.phase = phase, !.queue = queue,
                                                       !.watch = watch]]
    BY <1>8, <2>2, <2>3, <2>5, <2>6 DEF RefreshRead
  <2>8. read'[r] = [read[r] EXCEPT !.phase = phase, !.queue = queue, !.watch = watch]
    BY <1>0, <2>7
  <2>9. /\ read'[r] \in ReadStates /\ read'[r].phase = phase /\ read'[r].queue = queue
        /\ read'[r].tab = read[r].tab /\ read'[r].quiet = read[r].quiet /\ read'[r].account = a
    <3>1. PICK x \in ReadStates : x = read[r]
      BY <1>0
    <3>2. PICK y : y = read'[r]
      OBVIOUS
    <3>3. y = [x EXCEPT !.phase = phase, !.queue = queue, !.watch = watch] /\ phase \in Phases
      BY <2>6, <2>8, <3>1, <3>2 DEF Phases
    <3>4. /\ y.phase = phase /\ y.queue = queue
          /\ y.tab = x.tab /\ y.quiet = x.quiet /\ y.account = x.account
      BY <3>3 DEF ReadStates
    <3>5. y \in ReadStates
      BY <2>2, <2>6, <3>3 DEF ReadStates
    <3> QED
      BY <2>2, <3>1, <3>2, <3>4, <3>5
  <2>10. ReadOK(read'[r])
    BY <1>0, <2>6, <2>9 DEF ReadOK
  <2>11. ReadMoves(r)
    BY <1>0, <2>7, <2>9, <2>10 DEF ReadMoves
  <2>12. tab'[u] = [tab[u] EXCEPT !.pending = p]
    BY <1>0, <2>7
  <2>13. /\ tab'[u] \in TabStates /\ tab'[u].pending = p /\ tab'[u].session = tab[u].session
         /\ tab'[u].current = r /\ tab'[u].open = tab[u].open /\ tab'[u].account = tab[u].account
    BY <1>0, <2>12 DEF TabStates
  <2>14. Watches(tab[u], tab'[u])
    BY <2>2, <2>3, <2>13, LastIsSaved DEF Watches, Rediscovered, Restored
  <2>15. TabMoves(r, u)
    BY <1>0, <2>1, <2>2, <2>6, <2>7, <2>9, <2>13, <2>14 DEF TabMoves
  <2> QED
    BY <1>0, <1>s, <2>1, <2>11, <2>15, NoOperationMoves
\* What an answer about an operation does to the read.
<1>a. ASSUME read[r].phase = "asking"
      PROVE  /\ read[r].queue \in Seq(Operations) /\ Head(read[r].queue) \in Operations
             /\ read[r].account = tab[u].session
  <2>1. read[r].queue \in Seq(Operations) /\ read[r].queue # <<>>
    BY <1>0, <1>a DEF ReadOK, ReadStates
  <2> QED
    BY <1>0, <1>a, <2>1, RestOfQueue DEF Knows
<1>n. ASSUME read[r].phase = "asking", read' = [read EXCEPT ![r] = Asked(@)], UNCHANGED tab
      PROVE  ReadMoves(r) /\ TabMoves(r, u)
  <2>1. ReadMoves(r) /\ read'[r].account = read[r].account
    BY <1>0, <1>n, NextIsAsked
  <2> QED
    BY <1>0, <1>a, <1>n, <2>1, SameTab
<1>9. CASE Register(r)
  <2>1. PICK o \in Operations : o = Head(read[r].queue)
    BY <1>9, <1>a DEF Register, At
  <2>2. read[r].phase = "asking" /\ UNCHANGED <<wallet, journal, ended, op>>
    BY <1>9 DEF Register, At
  <2>3. backend' \subseteq Operations
    BY <1>0, <1>9, <2>1 DEF Register, TypeOK
  <2>4. ASSUME tab' = [tab EXCEPT ![u] = [tab[u] EXCEPT !.registered = @ \cup {o}]], UNCHANGED read
        PROVE  ReadMoves(r) /\ TabMoves(r, u)
    <3>1. tab'[u] = [tab[u] EXCEPT !.registered = @ \cup {o}]
      BY <1>0, <2>4
    <3>2. /\ tab'[u] \in TabStates /\ tab'[u].pending = tab[u].pending
          /\ tab'[u].session = tab[u].session /\ tab'[u].current = r
          /\ tab'[u].open = tab[u].open /\ tab'[u].account = tab[u].account
          /\ tab'[u].status = tab[u].status
      BY <1>0, <3>1 DEF TabStates
    <3> QED
      BY <1>0, <2>4, <3>2 DEF TabMoves, ReadMoves, Shown, Watches
  <2>5. ASSUME Go(r, "ambiguous"), UNCHANGED tab
        PROVE  ReadMoves(r) /\ TabMoves(r, u)
    BY <1>p, <2>2, <2>5 DEF Phases, Knows
  <2>6. ReadMoves(r) /\ TabMoves(r, u)
    BY <1>9, <1>n, <2>1, <2>2, <2>4, <2>5 DEF Register
  <2> QED
    BY <1>0, <2>2, <2>3, <2>6, NoOperationMoves
<1>10. CASE ReadEvidence(r)
  <2>1. PICK o \in Operations : o = Head(read[r].queue)
    BY <1>10, <1>a DEF ReadEvidence, At
  <2>2. read[r].phase = "asking" /\ UNCHANGED <<wallet, backend, tab, op>>
    BY <1>10 DEF ReadEvidence, At
  <2>3. \/ UNCHANGED <<journal, ended>>
        \/ Forget(o) /\ ended' = ended \cup {o}
    BY <1>10, <2>1 DEF ReadEvidence, Evidence
  <2>4. ASSUME Go(r, "exit")
        PROVE  ReadMoves(r) /\ TabMoves(r, u)
    BY <1>p, <2>2, <2>4 DEF Phases, Knows
  <2>5. ReadMoves(r) /\ TabMoves(r, u)
    BY <1>10, <1>n, <2>2, <2>4 DEF ReadEvidence
  <2>6. backend' \subseteq Operations
    BY <1>0, <2>2 DEF TypeOK
  <2> QED
    BY <1>0, <2>1, <2>2, <2>3, <2>5, <2>6, NoOperationMoves
<1>11. CASE PublishAmbiguous(r)
  <2>1. /\ read[r].phase = "ambiguous" /\ Go(r, "exit")
        /\ UNCHANGED <<wallet, journal, backend, ended, op>> /\ wallet = read[r].account
    BY <1>11 DEF PublishAmbiguous, At, Matches
  <2>2. PICK a \in Accounts : a = read[r].account /\ a = tab[u].session
    BY <1>0, <2>1 DEF ReadOK, Knows
  <2>3. PICK open \in BOOLEAN : tab' = [tab EXCEPT ![u] = Connected(tab[u], r, open)]
    BY <1>11 DEF PublishAmbiguous, MayOpen
  <2>4. ReadMoves(r) /\ read'[r].account = a /\ read'[r].phase = "exit"
    BY <1>go, <2>1, <2>2 DEF Phases, Knows
  <2>5. Connected(tab[u], r, open) =
           [tab[u] EXCEPT !.status = "CONNECTED", !.account = a, !.open = open, !.current = r]
    BY <1>0, <2>2 DEF Connected, TabStates
  <2>6. tab' = [tab EXCEPT ![u] = [tab[u] EXCEPT !.status = "CONNECTED", !.account = a,
                                     !.open = open, !.current = r]]
    BY <2>3, <2>5
  <2>7. TabMoves(r, u)
    BY <1>c, <2>1, <2>2, <2>4, <2>6
  <2> QED
    BY <1>0, <1>s, <2>1, <2>4, <2>7, NoOperationMoves
<1>12. CASE ReadLiveExit(r)
  <2>1. /\ read[r].phase = "exit" /\ Go(r, "publishing")
        /\ UNCHANGED <<wallet, journal, backend, ended, tab, op>>
    BY <1>12 DEF ReadLiveExit, At
  <2> QED
    BY <1>0, <1>p, <1>s, <2>1, NoOperationMoves DEF Phases, Knows
<1>13. CASE PublishRefresh(r)
  <2>1. /\ read[r].phase = "publishing" /\ Stop(r)
        /\ UNCHANGED <<wallet, journal, backend, ended, op>> /\ wallet = read[r].account
    BY <1>13 DEF PublishRefresh, At, Matches
  <2>2. PICK a \in Accounts : a = read[r].account
    BY <1>0, <2>1 DEF ReadOK, Knows
  <2>3. PICK open \in BOOLEAN :
           tab' = [tab EXCEPT ![u] = [Connected(tab[u], r, open) EXCEPT !.current = None]]
    BY <1>13 DEF PublishRefresh, MayOpen
  <2>4. [Connected(tab[u], r, open) EXCEPT !.current = None] =
           [tab[u] EXCEPT !.status = "CONNECTED", !.account = a, !.open = open, !.current = None]
    BY <1>0, <2>2 DEF Connected, TabStates
  <2>5. tab' = [tab EXCEPT ![u] = [tab[u] EXCEPT !.status = "CONNECTED", !.account = a,
                                     !.open = open, !.current = None]]
    BY <2>3, <2>4
  <2>6. TabMoves(r, u)
    BY <1>0, <1>c, <1>e, <2>1, <2>2, <2>5 DEF IsCurrent, Knows
  <2> QED
    BY <1>0, <1>e, <1>s, <2>1, <2>6, NoOperationMoves
\* A read that fails.
<1>f. ASSUME NEW s \in TabStates, CloseIfOpen(u, s), Stop(r), s.pending = tab[u].pending,
             s.open = tab[u].open
      PROVE  ReadMoves(r) /\ TabMoves(r, u) /\ OperationsMove
  <2>1. CASE tab[u].open \/ s.status = "CONNECTING"
    BY <1>f, <1>i, <2>1 DEF CloseIfOpen
  <2>2. CASE ~(tab[u].open \/ s.status = "CONNECTING")
    <3>1. tab' = [tab EXCEPT ![u] = [s EXCEPT !.current = None]] /\ UNCHANGED op
      BY <1>f, <2>2 DEF CloseIfOpen
    <3>2. tab'[u] = [s EXCEPT !.current = None]
      BY <1>0, <3>1
    <3>3. /\ tab'[u] \in TabStates /\ tab'[u].current = None /\ tab'[u].open = s.open
          /\ tab'[u].pending = s.pending
      BY <3>2 DEF TabStates
    <3>4. TabMoves(r, u)
      BY <1>0, <1>e, <1>f, <2>2, <3>1, <3>3 DEF TabMoves, Watches
    <3> QED
      BY <1>0, <1>e, <1>f, <3>1, <3>4, NoOperationMoves
  <2> QED
    BY <2>1, <2>2
<1>14. CASE ConnectFails(r)
  <2>0. PICK a \in Accounts \cup {None} :
           CloseIfOpen(u, [tab[u] EXCEPT !.status = "DISCONNECTED", !.account = a])
    BY <1>14 DEF ConnectFails, Observed
  <2>1. PICK s : s = [tab[u] EXCEPT !.status = "DISCONNECTED", !.account = a]
    OBVIOUS
  <2>2. s \in TabStates /\ s.pending = tab[u].pending /\ s.open = tab[u].open
    BY <1>0, <2>1 DEF TabStates, Statuses
  <2>3. CloseIfOpen(u, s) /\ Stop(r) /\ UNCHANGED <<wallet, journal, backend, ended>>
    BY <1>14, <2>0, <2>1 DEF ConnectFails
  <2> QED
    BY <1>f, <1>s, <2>2, <2>3
<1>15. CASE RefreshFails(r)
  <2>1. PICK s \in TabStates : s = tab[u]
    BY <1>0
  <2>2. CloseIfOpen(u, s) /\ Stop(r) /\ UNCHANGED <<wallet, journal, backend, ended>>
    BY <1>15, <2>1 DEF RefreshFails
  <2> QED
    BY <1>f, <1>s, <2>1, <2>2
<1>16. CASE Mismatch(r)
  BY <1>16, <1>i, <1>s DEF Mismatch
<1>17. CASE DropSuperseded(r)
  BY <1>17 DEF DropSuperseded
<1> QED
  BY <1>1, <1>2, <1>3, <1>4, <1>5, <1>6, <1>7, <1>8, <1>9, <1>10, <1>11, <1>12, <1>13, <1>14, <1>15,
     <1>16, <1>17 DEF ReadStep

-----------------------------------------------------------------------------
(* The invariant is inductive *)

\* A hash that is written down is new to the journal.
LEMMA RetainKeeps ==
    ASSUME BrowserInv, NEW o \in Operations, Retain(o)
    PROVE  /\ OperationsInv' /\ op' \in [Operations -> OperationStates] /\ JournalInv'
           /\ journal' \in [Accounts -> Seq(Operations)]
           /\ \A a \in Accounts : Len(journal'[a]) <= JournalLimit
<1> USE BrowserAssumption
<1>0. /\ TypeOK /\ OperationsInv /\ JournalInv
      /\ op \in [Operations -> OperationStates] /\ op[o] \in OperationStates /\ OperationOK(op[o])
      /\ journal \in [Accounts -> Seq(Operations)] /\ JournalLimit \in Nat
      /\ \A a \in Accounts : Len(journal[a]) <= JournalLimit
      /\ op[o].stage = "checking" /\ UNCHANGED ended
  BY DEF BrowserInv, TypeOK, OperationsInv, Retain
<1>1. PICK b \in Accounts : b = op[o].owner
  BY <1>0 DEF OperationOK
<1>2. ASSUME Heard(o, "registering") \/ EndWithHash(o, "kept") \/ EndWithHash(o, "unrecorded")
      PROVE  /\ OperationSteps(o) /\ op'[o].owner = b
             /\ ~EndWithHash(o, "unrecorded") => op'[o].stage \in Hashed
             /\ EndWithHash(o, "unrecorded") => SameHash(op[o], op'[o])
  <2>1. ASSUME Heard(o, "registering") PROVE OperationSteps(o) /\ op'[o].owner = b /\ op'[o].stage \in Hashed
    BY <1>0, <1>1, <2>1 DEF Heard, OperationSteps, OperationOK, OperationStates, Stages, Worked,
                       Listening, Hashed
  <2>2. ASSUME EndWithHash(o, "kept") PROVE OperationSteps(o) /\ op'[o].owner = b /\ op'[o].stage \in Hashed
    BY <1>0, <1>1, <2>2 DEF EndWithHash, Keep, OperationSteps, OperationOK, OperationStates, Stages,
                       Worked, Listening, Hashed
  <2>3. ASSUME EndWithHash(o, "unrecorded")
        PROVE  OperationSteps(o) /\ op'[o].owner = b /\ SameHash(op[o], op'[o])
    BY <1>0, <1>1, <2>3 DEF EndWithHash, Keep, OperationSteps, OperationOK, OperationStates, Stages,
                       Worked, Listening, Hashed, SameHash
  <2> QED
    BY <1>2, <2>1, <2>2, <2>3
<1>3. CASE EndWithHash(o, "unrecorded") /\ UNCHANGED journal
  <2>1. OperationsMove
    BY <1>0, <1>2, <1>3, OneOperationMoves
  <2>2. JournalInv'
    BY <1>0, <1>3, <2>1, JournalStands
  <2> QED
    BY <1>0, <1>3, <2>1, <2>2 DEF OperationsMove, OperationsInv
<1>4. CASE CanRecord(o) /\ Record(o) /\ (Heard(o, "registering") \/ EndWithHash(o, "kept"))
  <2>1. /\ OperationSteps(o) /\ op'[o].owner = b
        /\ op' \in [Operations -> OperationStates] /\ OperationsInv'
        /\ \A p \in Operations : p # o => op'[p] = op[p]
    BY <1>0, <1>2, <1>4 DEF OperationSteps, OperationsInv
  <2>2. op'[o].stage \in Hashed
    <3>1. CASE Heard(o, "registering")
      BY <1>0, <3>1 DEF Heard, Hashed, OperationStates
    <3>2. CASE EndWithHash(o, "kept")
      BY <1>0, <3>2 DEF EndWithHash, Keep, Hashed, OperationStates
    <3> QED
      BY <1>4, <3>1, <3>2
  <2>3. /\ journal' = [journal EXCEPT ![b] = Append(journal[b], o)]
        /\ Len(journal[b]) < JournalLimit
    BY <1>1, <1>4 DEF CanRecord, Record
  <2>4. o \notin ToSet(journal[b])
    BY <1>0 DEF JournalInv, JournalOK, Saved, Hashed
  <2>5. /\ Append(journal[b], o) \in Seq(Operations)
        /\ Len(Append(journal[b], o)) = Len(journal[b]) + 1
        /\ ToSet(Append(journal[b], o)) = ToSet(journal[b]) \cup {o}
        /\ \A i, j \in DOMAIN Append(journal[b], o) :
              Append(journal[b], o)[i] = Append(journal[b], o)[j] => i = j
    BY <1>0, <2>4, OneMore DEF JournalInv, JournalOK
  <2>6. ASSUME NEW a \in Accounts
        PROVE  /\ journal'[a] \in Seq(Operations) /\ Len(journal'[a]) <= JournalLimit
               /\ ToSet(journal'[a]) = ToSet(journal[a]) \cup (IF a = b THEN {o} ELSE {})
               /\ \A i, j \in DOMAIN journal'[a] : journal'[a][i] = journal'[a][j] => i = j
    <3>1. CASE a = b
      <4>1. journal'[a] = Append(journal[b], o)
        BY <1>0, <2>3, <3>1
      <4>2. Len(journal[b]) \in Nat
        BY <1>0
      <4>3. Len(Append(journal[b], o)) <= JournalLimit
        BY <1>0, <2>3, <2>5, <4>2
      <4> QED
        BY <2>5, <3>1, <4>1, <4>3
    <3>2. CASE a # b
      <4>1. journal'[a] = journal[a]
        BY <1>0, <2>3, <3>2
      <4> QED
        BY <1>0, <3>2, <4>1 DEF JournalInv, JournalOK
    <3> QED
      BY <3>1, <3>2
  <2>7. journal' \in [Accounts -> Seq(Operations)]
    BY <1>0, <2>3, <2>6
  <2>8. ASSUME NEW a \in Accounts
        PROVE  JournalOK(a)'
    <3>1. ASSUME NEW p \in ToSet(journal'[a])
          PROVE  op'[p].stage \in Hashed
      <4>1. CASE p = o
        BY <2>2, <4>1
      <4>2. CASE p # o
        <5>1. p \in ToSet(journal[a])
          BY <2>6, <3>1, <4>2
        <5>2. p \in Operations /\ op[p].stage \in Hashed
          BY <1>0, <5>1 DEF JournalInv, JournalOK, Saved, ToSet
        <5> QED
          BY <2>1, <4>2, <5>2
      <4> QED
        BY <4>1, <4>2
    <3> QED
      BY <2>6, <3>1 DEF JournalOK, Saved
  <2>9. ASSUME NEW p \in Operations, op'[p].stage \in Hashed
        PROVE  p \in ToSet(journal'[op'[p].owner]) \cup ended'
    <3>1. CASE p = o
      BY <2>1, <2>6, <3>1
    <3>2. CASE p # o
      <4>1. op'[p] = op[p] /\ op[p].owner \in Accounts
        BY <1>0, <2>1, <2>9, <3>2 DEF OperationsInv, OperationOK, Hashed
      <4>2. p \in ToSet(journal[op[p].owner]) \cup ended
        BY <1>0, <2>9, <4>1 DEF JournalInv, KnownHashIsKept, Hashed, Saved
      <4> QED
        BY <1>0, <2>6, <4>1, <4>2
    <3> QED
      BY <3>1, <3>2
  <2>10. JournalInv'
    BY <2>8, <2>9 DEF JournalInv, KnownHashIsKept, Hashed, Saved
  <2> QED
    BY <2>1, <2>6, <2>7, <2>10
<1> QED
  BY <1>3, <1>4 DEF Retain

\* At first nothing is known.
LEMMA BrowserStarts == Init => BrowserInv
<1> USE BrowserAssumption
<1> SUFFICES ASSUME Init PROVE BrowserInv
  OBVIOUS
<1>1. Fresh \in TabStates /\ Idle \in ReadStates /\ Unused \in OperationStates
  BY DEF Fresh, TabStates, Statuses, Idle, ReadStates, Phases, Unused, OperationStates, Stages
<1>2. TypeOK
  BY <1>1 DEF Init, TypeOK
<1>3. OperationsInv
  BY DEF Init, OperationsInv, OperationOK, Unused, Worked, Stages, Listening
<1>4. ReadsInv
  BY DEF Init, ReadsInv, ReadOK, CurrentOK, IsCurrent, Idle, Knows
<1>5. JournalInv
  BY DEF Init, JournalInv, JournalOK, KnownHashIsKept, Saved, ToSet, Unused
<1> QED
  BY <1>2, <1>3, <1>4, <1>5 DEF BrowserInv

\* Nothing changes for the reads if no tab changes its session or its current read.
LEMMA ReadsStand ==
    ASSUME BrowserInv, UNCHANGED read,
           \A t \in Tabs : tab'[t].session = tab[t].session /\ tab'[t].current = tab[t].current
    PROVE  ReadsInv'
BY DEF BrowserInv, ReadsInv, ReadOK, CurrentOK, IsCurrent

\* A read that begins takes the place of the tab's current one.
LEMMA BeginsMove ==
    ASSUME BrowserInv, NEW r \in Reads, NEW t \in Tabs, StartConnect(t, r) \/ StartRefresh(t, r)
    PROVE  /\ ReadsInv' /\ read' \in [Reads -> ReadStates]
           /\ tab' \in [Tabs -> TabStates] /\ \A u \in Tabs : u # t => tab'[u] = tab[u]
           /\ tab'[t].current = r /\ tab'[t].pending = tab[t].pending
           /\ tab'[t].open => tab'[t] = [tab[t] EXCEPT !.current = r]
           /\ UNCHANGED <<wallet, journal, backend, ended, op>>
           /\ read[r].phase = "idle" /\ read'[r].phase # "idle"
           /\ \A q \in Reads : q # r => read'[q] = read[q]
<1> USE BrowserAssumption
<1>0. /\ tab \in [Tabs -> TabStates] /\ tab[t] \in TabStates /\ read \in [Reads -> ReadStates]
  BY DEF BrowserInv, TypeOK
<1>1. PICK phase \in {"connecting", "observing"}, s \in TabStates :
         /\ Begin(t, r, phase, s) /\ s.pending = tab[t].pending
         /\ s.open => s = tab[t]
  <2>1. CASE StartConnect(t, r)
    <3>1. PICK s : s = [tab[t] EXCEPT !.session = None, !.flow = None, !.status = "CONNECTING",
                                      !.account = None, !.open = FALSE]
      OBVIOUS
    <3>2. s \in TabStates /\ s.pending = tab[t].pending /\ s.open = FALSE
      BY <1>0, <3>1 DEF TabStates, Statuses
    <3> QED
      BY <2>1, <3>1, <3>2 DEF StartConnect
  <2>2. CASE StartRefresh(t, r)
    BY <1>0, <2>2 DEF StartRefresh
  <2> QED
    BY <2>1, <2>2
<1>2. PICK x : x = [Idle EXCEPT !.phase = phase, !.tab = t, !.quiet = TRUE]
  OBVIOUS
<1>3. /\ x \in ReadStates /\ x.phase = phase /\ x.tab = t /\ x.quiet
  <2>1. x = [phase |-> phase, tab |-> t, account |-> None, open |-> FALSE,
           queue |-> <<>>, watch |-> None, quiet |-> TRUE]
    BY <1>2 DEF Idle
  <2>2. phase \in Phases /\ <<>> \in Seq(Operations)
    BY DEF Phases
  <2> QED
    BY <2>1, <2>2 DEF ReadStates
<1>4. /\ read' = [read EXCEPT ![r] = x] /\ read[r].phase = "idle"
      /\ tab' = [tab EXCEPT ![t] = [s EXCEPT !.current = r]]
      /\ UNCHANGED <<wallet, journal, backend, ended, op>>
  BY <1>1, <1>2 DEF Begin
<1>5. tab'[t] = [s EXCEPT !.current = r]
  BY <1>0, <1>4
<1>6. /\ tab'[t] \in TabStates /\ tab'[t].current = r /\ tab'[t].pending = s.pending
      /\ tab'[t].open = s.open
  BY <1>5 DEF TabStates
<1>7. /\ read'[r] = x /\ read' \in [Reads -> ReadStates]
      /\ \A q \in Reads : q # r => read'[q] = read[q]
      /\ tab' \in [Tabs -> TabStates] /\ \A u \in Tabs : u # t => tab'[u] = tab[u]
  BY <1>0, <1>3, <1>4, <1>6
<1>8. ASSUME NEW q \in Reads
      PROVE  ReadOK(read'[q])
  <2>1. CASE q = r
    BY <1>3, <1>7, <2>1 DEF ReadOK, Knows
  <2>2. CASE q # r
    BY <1>7, <2>2 DEF BrowserInv, ReadsInv
  <2> QED
    BY <2>1, <2>2
<1>9. ASSUME NEW q \in Reads, read'[q].phase # "idle", tab'[read'[q].tab].current = q
      PROVE  /\ read'[q].quiet
             /\ read'[q].phase \in Knows => tab'[read'[q].tab].session = read'[q].account
  <2>1. CASE q = r
    BY <1>3, <1>7, <2>1 DEF Knows
  <2>2. CASE q # r
    <3>1. read'[q] = read[q] /\ read[q].tab \in Tabs
      BY <1>7, <1>9, <2>2 DEF BrowserInv, ReadsInv, ReadOK
    <3>2. tab'[read[q].tab] = tab[read[q].tab]
      BY <1>6, <1>7, <1>9, <2>2, <3>1
    <3>3. IsCurrent(q)
      BY <1>9, <3>1, <3>2 DEF IsCurrent
    <3> QED
      BY <3>1, <3>2, <3>3 DEF BrowserInv, ReadsInv, CurrentOK
  <2> QED
    BY <2>1, <2>2
<1>10. ReadsInv'
  BY <1>8, <1>9 DEF ReadsInv, CurrentOK, IsCurrent, ReadOK
<1>11. tab'[t].open => tab'[t] = [tab[t] EXCEPT !.current = r]
  BY <1>1, <1>5, <1>6
<1> QED
  BY <1>1, <1>3, <1>4, <1>6, <1>7, <1>10, <1>11

\* A read that was overtaken only ends, but for what follows.
LEMMA DroppedReads ==
    ASSUME BrowserInv, NEW r \in Reads, ~IsCurrent(r), ReadStep(r), read[r].phase # "idle",
           ~RestoreOperation(r)
    PROVE  /\ DropSuperseded(r) /\ ReadsInv' /\ read' \in [Reads -> ReadStates]
           /\ backend' \subseteq Operations
<1>1. DropSuperseded(r)
  BY DEF ReadStep, At, StartConnect, StartRefresh, Begin, ConnectAnswered, ConnectRead,
         PublishConnection, RestoreOperation, PublishRestored, RefreshObserved, RefreshFindsChange, RefreshRead,
         Register, ReadEvidence, PublishAmbiguous, ReadLiveExit, PublishRefresh, ConnectFails,
         RefreshFails, Mismatch
<1>2. ReadMoves(r) /\ read'[r] = Idle /\ UNCHANGED tab
  BY <1>1, StopMoves DEF BrowserInv, DropSuperseded
<1>3. ReadsInv'
  <2>1. Idle.phase = "idle"
    BY DEF Idle
  <2>2. ASSUME NEW q \in Reads
        PROVE  ReadOK(read'[q])
    BY <1>2 DEF BrowserInv, ReadsInv, ReadMoves
  <2>3. ASSUME NEW q \in Reads, read'[q].phase # "idle", tab'[read'[q].tab].current = q
        PROVE  /\ read'[q].quiet
               /\ read'[q].phase \in Knows => tab'[read'[q].tab].session = read'[q].account
    <3>1. q # r /\ read'[q] = read[q]
      BY <1>2, <2>1, <2>3 DEF ReadMoves
    <3> QED
      BY <1>2, <2>3, <3>1 DEF BrowserInv, ReadsInv, CurrentOK, IsCurrent
  <2> QED
    BY <2>2, <2>3 DEF ReadsInv, CurrentOK, IsCurrent, ReadOK
<1>4. backend' \subseteq Operations
  <2>1. read[r].phase = "asking" => Head(read[r].queue) \in Operations
    <3>1. ASSUME read[r].phase = "asking"
          PROVE  read[r].queue \in Seq(Operations) /\ read[r].queue # <<>>
      BY <3>1 DEF BrowserInv, TypeOK, ReadStates, ReadsInv, ReadOK
    <3> QED
      BY <3>1, RestOfQueue
  <2> QED
    BY <1>1, <2>1 DEF DropSuperseded, BrowserInv, TypeOK
<1> QED
  BY <1>1, <1>2, <1>3, <1>4 DEF ReadMoves

\* The read that restores the operation to watch, be it current or not,
\* changes nothing else.
OnlyWatches(r, u) ==
    /\ read[r].phase = "shown"
    /\ tab' \in [Tabs -> TabStates] /\ \A t \in Tabs : t # u => tab'[t] = tab[t]
    /\ Shown(tab'[u]) = Shown(tab[u]) /\ tab'[u].current = tab[u].current
    /\ tab'[u].pending # tab[u].pending =>
          \/ tab[u].pending = None
          \/ op[tab[u].pending].owner # tab[u].session
          \/ tab[u].session = None
    /\ tab'[u].pending \in {tab[u].pending, None} \/ op[tab'[u].pending].stage \in Hashed

LEMMA RestoresWatch ==
    ASSUME BrowserInv, NEW r \in Reads, RestoreOperation(r)
    PROVE  /\ ReadsInv' /\ read' \in [Reads -> ReadStates]
           /\ \A q \in Reads : q # r => read'[q] = read[q]
           /\ \E u \in Tabs : u = read[r].tab /\ OnlyWatches(r, u)
           /\ UNCHANGED <<wallet, journal, backend, ended, op>>
<1> USE BrowserAssumption
<1>0. /\ tab \in [Tabs -> TabStates] /\ read \in [Reads -> ReadStates] /\ read[r] \in ReadStates
      /\ ReadOK(read[r]) /\ read[r].phase = "shown"
  BY DEF BrowserInv, TypeOK, ReadsInv, RestoreOperation
<1>1. PICK u \in Tabs, a \in Accounts : u = read[r].tab /\ a = read[r].account
  BY <1>0 DEF ReadOK, Knows
<1>2. PICK x \in TabStates : x = tab[u]
  BY <1>0
<1>3. PICK p \in Operations \cup {None} :
         /\ p = Restored(x, a)
         /\ p = x.pending \/ x.pending = None \/ op[x.pending].owner # a
         /\ p \in {x.pending, None} \/ op[p].stage \in Hashed
  <2>1. Restored(x, a) \in Operations \cup {None}
    BY LastIsSaved DEF Restored, TabStates
  <2> QED
    BY <2>1, LastIsSaved DEF Restored
<1>4. /\ tab' = [tab EXCEPT ![u] = [x EXCEPT !.pending = p]]
      /\ read' = [read EXCEPT ![r] = [read[r] EXCEPT !.phase = "restoring", !.watch = p,
                                         !.account = x.account, !.open = x.open]]
      /\ x.session \in {None, a} /\ UNCHANGED <<wallet, journal, backend, ended, op>>
  BY <1>1, <1>2, <1>3 DEF RestoreOperation
<1>5. PICK y \in TabStates :
         /\ y = tab'[u] /\ y.pending = p /\ Shown(y) = Shown(x)
         /\ y.session = x.session /\ y.current = x.current
  <2>1. PICK y : y = [x EXCEPT !.pending = p]
    OBVIOUS
  <2>2. /\ y \in TabStates /\ y.pending = p /\ y.current = x.current /\ y.session = x.session
        /\ Shown(y) = Shown(x)
    BY <2>1 DEF TabStates, Shown
  <2>3. y = tab'[u]
    BY <1>0, <1>4, <2>1
  <2> QED
    BY <2>2, <2>3
<1>6. PICK z \in ReadStates :
         /\ z = read'[r] /\ z.phase = "restoring" /\ z.tab = u /\ z.quiet = read[r].quiet
  <2>1. PICK w \in ReadStates : w = read[r]
    BY <1>0
  <2>2. PICK z : z = [w EXCEPT !.phase = "restoring", !.watch = p, !.account = x.account, !.open = x.open]
    OBVIOUS
  <2>3. x.account \in Accounts \cup {None} /\ x.open \in BOOLEAN /\ "restoring" \in Phases
    BY DEF TabStates, Phases
  <2>4. z \in ReadStates
    BY <2>2, <2>3 DEF ReadStates
  <2>5. z.phase = "restoring" /\ z.tab = w.tab /\ z.quiet = w.quiet
    BY <2>2 DEF ReadStates
  <2>6. z = read'[r]
    BY <1>0, <1>4, <2>1, <2>2
  <2> QED
    BY <1>1, <2>1, <2>4, <2>5, <2>6
<1>7. /\ read' \in [Reads -> ReadStates] /\ \A q \in Reads : q # r => read'[q] = read[q]
      /\ tab' \in [Tabs -> TabStates] /\ \A t \in Tabs : t # u => tab'[t] = tab[t]
  BY <1>0, <1>4, <1>5, <1>6
<1>8. \A t \in Tabs : tab'[t].session = tab[t].session /\ tab'[t].current = tab[t].current
  BY <1>2, <1>5, <1>7
<1>9. ASSUME NEW q \in Reads
      PROVE  /\ ReadOK(read'[q])
             /\ read'[q].tab = read[q].tab /\ read'[q].quiet = read[q].quiet
             /\ q = r \/ read'[q] = read[q]
  <2>1. CASE q = r
    BY <1>1, <1>6, <2>1 DEF ReadOK, Knows
  <2>2. CASE q # r
    BY <1>7, <2>2 DEF BrowserInv, ReadsInv
  <2> QED
    BY <2>1, <2>2
<1>10. ReadsInv'
  <2>1. ASSUME NEW q \in Reads, read'[q].phase # "idle", tab'[read'[q].tab].current = q
        PROVE  /\ read'[q].quiet
               /\ read'[q].phase \in Knows => tab'[read'[q].tab].session = read'[q].account
    <3>1. read[q].phase # "idle" /\ read[q].tab \in Tabs
      BY <1>0, <1>9, <2>1 DEF BrowserInv, ReadsInv, ReadOK
    <3>2. IsCurrent(q)
      BY <1>8, <1>9, <2>1, <3>1 DEF IsCurrent
    <3>3. CASE q = r
      BY <1>6, <1>9, <3>2, <3>3 DEF BrowserInv, ReadsInv, CurrentOK, Knows
    <3>4. CASE q # r
      BY <1>8, <1>9, <3>1, <3>2, <3>4 DEF BrowserInv, ReadsInv, CurrentOK
    <3> QED
      BY <3>3, <3>4
  <2> QED
    BY <1>9, <2>1 DEF ReadsInv, CurrentOK, IsCurrent, ReadOK
<1>11. OnlyWatches(r, u)
  BY <1>0, <1>2, <1>3, <1>4, <1>5, <1>7 DEF OnlyWatches
<1> QED
  BY <1>1, <1>4, <1>7, <1>10, <1>11

\* After a wallet event the tab has no current read.
LEMMA EventsKeep ==
    ASSUME BrowserInv, NEW t \in Tabs, WalletEvent(t)
    PROVE  /\ ReadsInv' /\ read' \in [Reads -> ReadStates] /\ tab' \in [Tabs -> TabStates]
           /\ \A u \in Tabs : u # t => tab'[u] = tab[u]
           /\ tab'[t].pending = tab[t].pending
           /\ tab'[t].open => tab'[t] = tab[t]
           /\ tab'[t] = tab[t] \/ (tab[t].current # None /\ tab'[t] = Closed(tab[t]))
           /\ \A q \in Reads : read'[q].phase = read[q].phase
<1> USE BrowserAssumption
<1>0. /\ tab \in [Tabs -> TabStates] /\ tab[t] \in TabStates /\ read \in [Reads -> ReadStates]
  BY DEF BrowserInv, TypeOK
<1>1. /\ tab' \in [Tabs -> TabStates] /\ \A u \in Tabs : u # t => tab'[u] = tab[u]
      /\ tab'[t].pending = tab[t].pending /\ tab'[t].current = None
      /\ tab'[t].open => tab'[t] = tab[t]
  <2>1. CASE tab[t].current = None
    <3>1. UNCHANGED tab
      BY <2>1 DEF WalletEvent
    <3> QED
      BY <1>0, <2>1, <3>1
  <2>2. CASE tab[t].current # None
    <3>1. tab' = [tab EXCEPT ![t] = Closed(tab[t])]
      BY <2>2 DEF WalletEvent
    <3>2. tab'[t] = Closed(tab[t])
      BY <1>0, <3>1
    <3>3. tab'[t] \in TabStates /\ tab'[t].pending = tab[t].pending /\ tab'[t].current = None
          /\ tab'[t].open = FALSE
      BY <1>0, <3>2 DEF Closed, TabStates, Statuses
    <3> QED
      BY <1>0, <3>1, <3>3
  <2> QED
    BY <2>1, <2>2
<1>2. ASSUME NEW q \in Reads
      PROVE  /\ read'[q] \in ReadStates /\ ReadOK(read'[q])
             /\ read[q].tab # t => read'[q] = read[q]
             /\ read'[q].tab = read[q].tab /\ read'[q].phase = read[q].phase
  <2>1. CASE read[q].tab = t
    <3>1. read'[q] = [read[q] EXCEPT !.quiet = FALSE]
      BY <2>1 DEF WalletEvent
    <3>2. read[q] \in ReadStates /\ ReadOK(read[q])
      BY <1>0 DEF BrowserInv, ReadsInv
    <3>3. /\ read'[q] \in ReadStates /\ read'[q].phase = read[q].phase /\ read'[q].tab = read[q].tab
          /\ read'[q].queue = read[q].queue /\ read'[q].account = read[q].account
      BY <3>1, <3>2 DEF ReadStates
    <3> QED
      BY <2>1, <3>2, <3>3 DEF ReadOK
  <2>2. CASE read[q].tab # t
    BY <1>0, <2>2 DEF WalletEvent, BrowserInv, ReadsInv
  <2> QED
    BY <2>1, <2>2
<1>3. ASSUME NEW q \in Reads, read'[q].phase # "idle", tab'[read'[q].tab].current = q
      PROVE  /\ read'[q].quiet
             /\ read'[q].phase \in Knows => tab'[read'[q].tab].session = read'[q].account
  <2>1. read[q].tab # t
    BY <1>1, <1>2, <1>3
  <2>2. read'[q] = read[q] /\ read[q].tab \in Tabs
    BY <1>2, <1>3, <2>1 DEF BrowserInv, ReadsInv, ReadOK
  <2>3. tab'[read[q].tab] = tab[read[q].tab]
    BY <1>1, <2>1, <2>2
  <2>4. IsCurrent(q)
    BY <1>3, <2>2, <2>3 DEF IsCurrent
  <2> QED
    BY <2>2, <2>3, <2>4 DEF BrowserInv, ReadsInv, CurrentOK
<1>4. ReadsInv'
  BY <1>2, <1>3 DEF ReadsInv, CurrentOK, IsCurrent, ReadOK
<1>5. read' \in [Reads -> ReadStates]
  BY <1>2 DEF WalletEvent
<1>6. tab'[t] = tab[t] \/ (tab[t].current # None /\ tab'[t] = Closed(tab[t]))
  BY <1>0 DEF WalletEvent
<1> QED
  BY <1>1, <1>2, <1>4, <1>5, <1>6

\* A tab that is reloaded has no reads.
LEMMA ReloadKeeps ==
    ASSUME BrowserInv, NEW t \in Tabs, Reload(t)
    PROVE  ReadsInv' /\ read' \in [Reads -> ReadStates] /\ tab' \in [Tabs -> TabStates]
<1> USE BrowserAssumption
<1>0. /\ tab \in [Tabs -> TabStates] /\ tab[t] \in TabStates /\ read \in [Reads -> ReadStates]
  BY DEF BrowserInv, TypeOK
<1>1. /\ Fresh \in TabStates /\ Idle \in ReadStates /\ Idle.phase = "idle" /\ ReadOK(Idle)
  BY DEF Fresh, TabStates, Statuses, Idle, ReadStates, Phases, ReadOK, Knows
<1>2. /\ tab' \in [Tabs -> TabStates] /\ \A u \in Tabs : u # t => tab'[u] = tab[u]
      /\ read' \in [Reads -> ReadStates]
      /\ \A q \in Reads : read'[q] = IF read[q].tab = t THEN Idle ELSE read[q]
  BY <1>0, <1>1 DEF Reload
<1>3. ASSUME NEW q \in Reads
      PROVE  ReadOK(read'[q])
  BY <1>1, <1>2 DEF BrowserInv, ReadsInv
<1>4. ASSUME NEW q \in Reads, read'[q].phase # "idle", tab'[read'[q].tab].current = q
      PROVE  /\ read'[q].quiet
             /\ read'[q].phase \in Knows => tab'[read'[q].tab].session = read'[q].account
  <2>1. read'[q] = read[q] /\ read[q].tab # t
    BY <1>1, <1>2, <1>4
  <2>2. read[q].tab \in Tabs
    BY <1>4, <2>1 DEF BrowserInv, ReadsInv, ReadOK
  <2>3. tab'[read[q].tab] = tab[read[q].tab]
    BY <1>2, <2>1, <2>2
  <2>4. IsCurrent(q)
    BY <1>4, <2>1, <2>3 DEF IsCurrent
  <2> QED
    BY <2>1, <2>3, <2>4 DEF BrowserInv, ReadsInv, CurrentOK
<1>5. ReadsInv'
  BY <1>3, <1>4 DEF ReadsInv, CurrentOK, IsCurrent, ReadOK
<1> QED
  BY <1>2, <1>5

\* Every step keeps the invariant.
LEMMA BrowserKeeps == BrowserInv /\ [Next]_vars => BrowserInv'
<1> USE BrowserAssumption
<1> SUFFICES ASSUME BrowserInv, [Next]_vars PROVE BrowserInv'
  OBVIOUS
<1>0. TypeOK /\ OperationsInv /\ ReadsInv /\ JournalInv
  BY DEF BrowserInv
\* What is left to show when the journal and the operations are settled.
<1>w. ASSUME OperationsMove, JournalInv', ReadsInv', wallet' \in Accounts \cup WalletShows,
             journal' \in [Accounts -> Seq(Operations)],
             \A a \in Accounts : Len(journal'[a]) <= JournalLimit,
             backend' \subseteq Operations, ended' \subseteq Operations,
             tab' \in [Tabs -> TabStates], read' \in [Reads -> ReadStates]
      PROVE  BrowserInv'
  BY <1>w DEF BrowserInv, TypeOK, OperationsInv, OperationsMove, OperationOK
<1>j. ASSUME OperationsMove, UNCHANGED <<journal, ended>>
      PROVE  /\ JournalInv' /\ journal' \in [Accounts -> Seq(Operations)]
             /\ \A a \in Accounts : Len(journal'[a]) <= JournalLimit
             /\ ended' \subseteq Operations
  BY <1>0, <1>j, JournalStands DEF TypeOK
<1>1. CASE UNCHANGED vars
  <2>1. OperationsMove /\ ReadsInv'
    BY <1>0, <1>1, NoOperationMoves, ReadsStand DEF vars
  <2> QED
    BY <1>0, <1>1, <1>w, <1>j, <2>1 DEF vars, TypeOK
<1>2. CASE WalletSwitch
  <2>1. OperationsMove /\ ReadsInv'
    BY <1>0, <1>2, NoOperationMoves, ReadsStand DEF WalletSwitch
  <2> QED
    BY <1>0, <1>2, <1>w, <1>j, <2>1 DEF WalletSwitch, TypeOK
<1>3. ASSUME NEW t \in Tabs, WalletEvent(t)
      PROVE  BrowserInv'
  <2>1. OperationsMove /\ UNCHANGED <<wallet, journal, backend, ended>>
    BY <1>0, <1>3, EventMoves DEF WalletEvent
  <2> QED
    BY <1>0, <1>3, <1>w, <1>j, <2>1, EventsKeep DEF TypeOK
<1>4. ASSUME NEW t \in Tabs, Reload(t)
      PROVE  BrowserInv'
  <2>1. OperationsMove /\ UNCHANGED <<wallet, journal, backend, ended>>
    BY <1>0, <1>4, ReloadMoves DEF Reload
  <2> QED
    BY <1>0, <1>4, <1>w, <1>j, <2>1, ReloadKeeps DEF TypeOK
<1>5. ASSUME NEW r \in Reads, ReadStep(r)
      PROVE  BrowserInv'
  <2>1. CASE read[r].phase = "idle"
    <3>1. PICK t \in Tabs : StartConnect(t, r) \/ StartRefresh(t, r)
      BY <1>5, <2>1 DEF ReadStep, At, IsCurrent, ConnectAnswered, ConnectRead,
         PublishConnection, RestoreOperation, PublishRestored, RefreshObserved, RefreshFindsChange, RefreshRead,
         Register, ReadEvidence, PublishAmbiguous, ReadLiveExit, PublishRefresh, ConnectFails,
         RefreshFails, Mismatch, DropSuperseded
    <3>2. /\ ReadsInv' /\ read' \in [Reads -> ReadStates] /\ tab' \in [Tabs -> TabStates]
          /\ UNCHANGED <<wallet, journal, backend, ended, op>>
      BY <3>1, BeginsMove
    <3>3. OperationsMove
      BY <1>0, <3>2, NoOperationMoves
    <3> QED
      BY <1>0, <1>w, <1>j, <3>2, <3>3 DEF TypeOK
  <2>r. CASE RestoreOperation(r)
    <3>1. /\ ReadsInv' /\ read' \in [Reads -> ReadStates] /\ tab' \in [Tabs -> TabStates]
          /\ UNCHANGED <<wallet, journal, backend, ended, op>>
      BY <2>r, RestoresWatch DEF OnlyWatches
    <3>2. OperationsMove
      BY <1>0, <3>1, NoOperationMoves
    <3> QED
      BY <1>0, <1>w, <1>j, <3>1, <3>2 DEF TypeOK
  <2>2. CASE read[r].phase # "idle" /\ ~IsCurrent(r) /\ ~RestoreOperation(r)
    <3>1. /\ ReadsInv' /\ read' \in [Reads -> ReadStates] /\ backend' \subseteq Operations
          /\ UNCHANGED <<wallet, journal, ended, tab, op>>
      BY <1>5, <2>2, DroppedReads DEF DropSuperseded
    <3>2. OperationsMove
      BY <1>0, <3>1, NoOperationMoves
    <3> QED
      BY <1>0, <1>w, <1>j, <3>1, <3>2 DEF TypeOK
  <2>3. CASE IsCurrent(r) /\ ~RestoreOperation(r)
    <3>1. PICK u \in Tabs : u = read[r].tab
      BY <1>0, <2>3 DEF ReadsInv, ReadOK, IsCurrent
    <3>2. /\ ReadMoves(r) /\ TabMoves(r, u) /\ OperationsMove
          /\ backend' \subseteq Operations /\ UNCHANGED wallet
          /\ \/ UNCHANGED <<journal, ended>>
             \/ \E o : Forget(o) /\ ended' = ended \cup {o} /\ o \in Operations
      BY <1>5, <2>3, <3>1, CurrentReadMoves
    <3>3. ReadsInv'
      BY <2>3, <3>1, <3>2, ReadsAreKept
    <3>4. /\ JournalInv' /\ journal' \in [Accounts -> Seq(Operations)]
          /\ \A a \in Accounts : Len(journal'[a]) <= JournalLimit
          /\ ended' \subseteq Operations
      <4>1. CASE UNCHANGED <<journal, ended>>
        BY <1>j, <3>2, <4>1
      <4>2. CASE \E o : Forget(o) /\ ended' = ended \cup {o} /\ o \in Operations
        BY <1>0, <3>2, <4>2, JournalForgets DEF TypeOK
      <4> QED
        BY <3>2, <4>1, <4>2
    <3> QED
      BY <1>0, <1>w, <3>2, <3>3, <3>4 DEF TypeOK, ReadMoves, TabMoves
  <2> QED
    BY <2>1, <2>r, <2>2, <2>3
<1>6. ASSUME NEW o \in Operations, OperationStep(o)
      PROVE  BrowserInv'
  <2>1. OperationFrame /\ (Retain(o) \/ (OperationsMove /\ UNCHANGED journal))
    BY <1>6, OperationMoves
  <2>2. ReadsInv'
    BY <2>1, ReadsStand DEF OperationFrame
  <2>3. CASE OperationsMove /\ UNCHANGED journal
    BY <1>0, <1>w, <1>j, <2>1, <2>2, <2>3 DEF OperationFrame, TypeOK
  <2>4. CASE Retain(o)
    BY <1>0, <2>1, <2>2, <2>4, RetainKeeps DEF OperationFrame, BrowserInv, TypeOK
  <2> QED
    BY <2>1, <2>3, <2>4
<1> QED
  BY <1>1, <1>2, <1>3, <1>4, <1>5, <1>6 DEF Next

\* The invariant holds in every state of the tabs and of their storage.
THEOREM BrowserInvariant == Spec => []BrowserInv
BY BrowserStarts, BrowserKeeps, PTL DEF Spec

\* The runtimes, reads, operations and the journal keep their shape; no
\* journal exceeds its limit.
THEOREM BrowserTypeCorrect == Spec => []TypeOK
<1>1. BrowserInv => TypeOK
  BY DEF BrowserInv
<1> QED
  BY <1>1, BrowserInvariant, PTL

\* A hash a tab has written down stays in the journal, through the records,
\* removals and reloads of all tabs, until its operation's evidence was
\* ready or terminal (record and remove, m3-submission-journal.ts).
THEOREM HashesAreKept == Spec => []KnownHashIsKept
<1>1. BrowserInv => KnownHashIsKept
  BY DEF BrowserInv, JournalInv
<1> QED
  BY <1>1, BrowserInvariant, PTL

-----------------------------------------------------------------------------
(* What no step does *)

\* A step of a tab is one of these.
LEMMA ReadKinds ==
    ASSUME BrowserInv, NEW r \in Reads, ReadStep(r)
    PROVE  \/ \E t \in Tabs : StartConnect(t, r) \/ StartRefresh(t, r)
           \/ DropSuperseded(r)
           \/ RestoreOperation(r)
           \/ /\ IsCurrent(r)
              /\ \E u \in Tabs : u = read[r].tab /\ ReadMoves(r) /\ TabMoves(r, u)
              /\ OperationsMove
<1>1. CASE read[r].phase = "idle"
  BY <1>1 DEF ReadStep, At, IsCurrent, ConnectAnswered, ConnectRead,
       PublishConnection, RestoreOperation, PublishRestored, RefreshObserved, RefreshFindsChange, RefreshRead,
       Register, ReadEvidence, PublishAmbiguous, ReadLiveExit, PublishRefresh, ConnectFails,
       RefreshFails, Mismatch, DropSuperseded
<1>2. CASE read[r].phase # "idle" /\ ~IsCurrent(r) /\ ~RestoreOperation(r)
  BY <1>2, DroppedReads
<1>3. CASE IsCurrent(r) /\ ~RestoreOperation(r)
  <2>1. PICK u \in Tabs : u = read[r].tab
    BY <1>3 DEF BrowserInv, ReadsInv, ReadOK, IsCurrent
  <2>2. ReadMoves(r) /\ TabMoves(r, u) /\ OperationsMove
    BY <1>3, <2>1, CurrentReadMoves
  <2> QED
    BY <1>3, <2>1, <2>2
<1> QED
  BY <1>1, <1>2, <1>3

\* What the step of an operation does to what its tab watches and shows.
LEMMA OperationsShow ==
    ASSUME BrowserInv, NEW o \in Operations, OperationStep(o), NEW t \in Tabs
    PROVE  /\ tab'[t].pending = tab[t].pending \/ (Retain(o) /\ tab'[t].pending = o)
           /\ \/ Shown(tab'[t]) = Shown(tab[t])
              \/ op[o].tab = t /\ op[o].stage = "authorizing" /\ op'[o].stage # "authorizing"
           /\ UNCHANGED read /\ tab'[t].session = tab[t].session
<1>1. tab \in [Tabs -> TabStates] /\ tab[t] \in TabStates /\ op \in [Operations -> OperationStates]
      /\ op[o] \in OperationStates
  BY DEF BrowserInv, TypeOK
<1>2. UNCHANGED read /\ tab'[t].session = tab[t].session
  BY OperationMoves DEF OperationFrame
<1>3. CASE UNCHANGED tab
  BY <1>2, <1>3
<1>4. CASE ShowAllowance(o)
  <2>1. op[o].stage = "authorizing" /\ op'[o].stage \in {"drafting", "reviewed"}
    BY <1>1, <1>4 DEF ShowAllowance, Draft, Heard, OperationStates
  <2>2. PICK u, a, open :
           /\ u = op[o].tab
           /\ tab' = [tab EXCEPT ![u] = [tab[u] EXCEPT !.status = "CONNECTED", !.account = a,
                                                      !.open = open]]
    <3>1. op[o].tab \in Tabs
      BY <1>4 DEF ShowAllowance, BrowserInv, OperationsInv, OperationOK, Worked, Stages
    <3>2. PICK u \in Tabs : u = op[o].tab
      BY <3>1
    <3>3. PICK a : a = Session(o)
      OBVIOUS
    <3>4. PICK open \in MayOpen(a) :
             tab' = [tab EXCEPT ![u].status = "CONNECTED", ![u].account = a, ![u].open = open]
      BY <1>4, <3>2, <3>3 DEF ShowAllowance
    <3>5. tab' = [tab EXCEPT ![u] = [tab[u] EXCEPT !.status = "CONNECTED", !.account = a, !.open = open]]
      BY <1>1, <3>4
    <3> QED
      BY <3>2, <3>5
  <2>3. tab'[t].pending = tab[t].pending /\ (t = u \/ tab'[t] = tab[t])
    <3>1. CASE t = u
      <4>1. tab'[t] = [tab[t] EXCEPT !.status = "CONNECTED", !.account = a, !.open = open]
        BY <1>1, <2>2, <3>1
      <4>2. tab'[t].pending = tab[t].pending
        BY <1>1, <4>1 DEF TabStates
      <4> QED
        BY <3>1, <4>2
    <3>2. CASE t # u
      BY <1>1, <2>2, <3>2
    <3> QED
      BY <3>1, <3>2
  <2> QED
    BY <1>2, <2>1, <2>2, <2>3
<1>5. CASE Retain(o)
  <2>1. tab' = [tab EXCEPT ![op[o].tab] = [tab[op[o].tab] EXCEPT !.pending = o]]
    BY <1>5 DEF Retain
  <2>2. CASE t = op[o].tab
    <3>1. tab'[t] = [tab[t] EXCEPT !.pending = o]
      BY <1>1, <2>1, <2>2
    <3>2. tab'[t].pending = o /\ Shown(tab'[t]) = Shown(tab[t])
      BY <1>1, <3>1 DEF TabStates, Shown
    <3> QED
      BY <1>2, <1>5, <3>2
  <2>3. CASE t # op[o].tab
    BY <1>1, <1>2, <2>1, <2>3
  <2> QED
    BY <2>2, <2>3
<1>6. CASE RegisterSubmission(o) /\ ~UNCHANGED tab
  <2>1. tab' = [tab EXCEPT ![op[o].tab] = [tab[op[o].tab] EXCEPT !.registered = @ \cup {o}]]
    BY <1>6 DEF RegisterSubmission
  <2>2. CASE t = op[o].tab
    <3>1. tab'[t] = [tab[t] EXCEPT !.registered = @ \cup {o}]
      BY <1>1, <2>1, <2>2
    <3>2. tab'[t].pending = tab[t].pending /\ Shown(tab'[t]) = Shown(tab[t])
      BY <1>1, <3>1 DEF TabStates, Shown
    <3> QED
      BY <1>2, <3>2
  <2>3. CASE t # op[o].tab
    BY <1>1, <1>2, <2>1, <2>3
  <2> QED
    BY <2>2, <2>3
<1> QED
  BY <1>3, <1>4, <1>5, <1>6 DEF OperationStep, BeginReview, ReadCanonical, ReadAllowance, StartDraft, FinishReview,
     Confirm, MatchSession, CheckJournal, Simulate, Send, WalletAnswers, ShowApproval, Abandon

\* An operation a tab watches is one whose wallet answered a hash.
Sent == Hashed \cup {"unrecorded"}
WatchedInv == \A t \in Tabs : tab[t].pending # None => op[tab[t].pending].stage \in Sent

\* Such an operation stays one ...
LEMMA SentStays ==
    ASSUME BrowserInv, [Next]_vars, NEW o \in Operations, op[o].stage \in Sent
    PROVE  op'[o].stage \in Sent
<1>0. TypeOK /\ OperationsInv /\ op \in [Operations -> OperationStates]
  BY DEF BrowserInv, TypeOK
<1>m. ASSUME OperationsMove PROVE op'[o].stage \in Sent
  BY <1>m DEF OperationsMove, SameHash, Sent
<1>1. CASE UNCHANGED vars \/ WalletSwitch
  BY <1>1 DEF vars, WalletSwitch
<1>2. ASSUME NEW t \in Tabs, WalletEvent(t) \/ Reload(t)
      PROVE  OperationsMove
  BY <1>0, <1>2, EventMoves, ReloadMoves
<1>3. ASSUME NEW r \in Reads, ReadStep(r)
      PROVE  OperationsMove
  <2>1. ASSUME NEW t \in Tabs, StartConnect(t, r) \/ StartRefresh(t, r)
        PROVE  UNCHANGED op
    BY <2>1, BeginsMove
  <2>2. DropSuperseded(r) \/ RestoreOperation(r) => UNCHANGED op
    BY DEF DropSuperseded, RestoreOperation
  <2> QED
    BY <1>0, <1>3, <2>1, <2>2, ReadKinds, NoOperationMoves
<1>4. ASSUME NEW p \in Operations, OperationStep(p), ~OperationsMove
      PROVE  op'[o].stage \in Sent
  <2>1. Retain(p)
    BY <1>4, OperationMoves
  <2>2. p # o /\ op'[o] = op[o]
    BY <1>0, <2>1 DEF Retain, Heard, EndWithHash, Sent, Hashed
  <2> QED
    BY <2>2
<1> QED
  BY <1>1, <1>2, <1>3, <1>4, <1>m DEF Next

\* ... and only such operations come to be watched.
LEMMA WatchedStep ==
    ASSUME BrowserInv, WatchedInv, [Next]_vars, NEW t \in Tabs, tab'[t].pending # None
    PROVE  op'[tab'[t].pending].stage \in Sent
<1>0. tab \in [Tabs -> TabStates] /\ tab[t] \in TabStates /\ op \in [Operations -> OperationStates]
  BY DEF BrowserInv, TypeOK
<1> DEFINE Known(p) == p \in Operations /\ op[p].stage \in Sent
<1>k. ASSUME Known(tab'[t].pending) PROVE op'[tab'[t].pending].stage \in Sent
  BY <1>k, SentStays
<1>s. ASSUME tab'[t].pending = tab[t].pending PROVE Known(tab'[t].pending)
  BY <1>0, <1>s DEF WatchedInv, TabStates
<1>1. CASE UNCHANGED vars \/ WalletSwitch
  BY <1>1, <1>s, <1>k DEF vars, WalletSwitch
<1>2. ASSUME NEW u \in Tabs, WalletEvent(u)
      PROVE  tab'[t].pending = tab[t].pending
  BY <1>2, EventsKeep
<1>3. ASSUME NEW u \in Tabs, Reload(u)
      PROVE  tab'[t].pending = tab[t].pending
  <2>1. tab'[t] = Fresh \/ tab'[t] = tab[t]
    BY <1>3 DEF Reload, BrowserInv, TypeOK
  <2> QED
    BY <2>1 DEF Fresh
<1>4. ASSUME NEW r \in Reads, ReadStep(r)
      PROVE  Known(tab'[t].pending)
  <2>1. ASSUME NEW u \in Tabs, StartConnect(u, r) \/ StartRefresh(u, r)
        PROVE  tab'[t].pending = tab[t].pending
    BY <2>1, BeginsMove
  <2>2. CASE DropSuperseded(r)
    BY <1>s, <2>2 DEF DropSuperseded
  <2>3. ASSUME NEW u \in Tabs, TabMoves(r, u) \/ OnlyWatches(r, u)
        PROVE  Known(tab'[t].pending)
    <3>1. CASE t # u
      BY <1>s, <2>3, <3>1 DEF TabMoves, OnlyWatches
    <3>2. CASE t = u
      <4>1. tab'[t].pending = tab[t].pending \/ op[tab'[t].pending].stage \in Hashed
        BY <2>3, <3>2 DEF TabMoves, OnlyWatches, Watches
      <4>2. tab'[t] \in TabStates
        BY <2>3 DEF TabMoves, OnlyWatches
      <4>3. tab'[t].pending \in Operations
        BY <4>2 DEF TabStates
      <4> QED
        BY <1>s, <4>1, <4>3 DEF Sent
    <3> QED
      BY <3>1, <3>2
  <2> QED
    BY <1>4, <1>s, <2>1, <2>2, <2>3, ReadKinds, RestoresWatch
<1>5. ASSUME NEW o \in Operations, OperationStep(o)
      PROVE  op'[tab'[t].pending].stage \in Sent
  <2>1. CASE tab'[t].pending = tab[t].pending
    BY <1>s, <1>k, <2>1
  <2>2. CASE Retain(o) /\ tab'[t].pending = o
    <3>1. PICK x \in OperationStates : x = op[o]
      BY <1>0
    <3>2. \/ op'[o] = [x EXCEPT !.stage = "registering", !.changed = FALSE, !.quiet = FALSE]
          \/ op'[o] = Keep(x, "kept")
          \/ op'[o] = Keep(x, "unrecorded")
      BY <1>0, <2>2, <3>1 DEF Retain, Heard, EndWithHash
    <3>3. [x EXCEPT !.stage = "registering", !.changed = FALSE, !.quiet = FALSE].stage = "registering"
      BY DEF OperationStates
    <3>4. Keep(x, "kept").stage = "kept" /\ Keep(x, "unrecorded").stage = "unrecorded"
      BY DEF Keep, OperationStates
    <3> QED
      BY <2>2, <3>2, <3>3, <3>4 DEF Sent, Hashed
  <2> QED
    BY <1>5, <2>1, <2>2, OperationsShow
<1> QED
  BY <1>1, <1>2, <1>3, <1>4, <1>5, <1>s, <1>k DEF Next

LEMMA WatchedAreSent == Spec => [](BrowserInv /\ WatchedInv)
<1>1. Init => WatchedInv
  BY DEF Init, WatchedInv, Fresh
<1>2. BrowserInv /\ WatchedInv /\ [Next]_vars => WatchedInv'
  BY WatchedStep DEF WatchedInv
<1> QED
  BY <1>1, <1>2, BrowserInvariant, PTL DEF Spec

\* The operation a tab watches gives way to no older one, however reads,
\* submissions and reloads of the tabs interleave (connect, refresh and
\* #retainSubmission, m3-browser-runtime.ts).
THEOREM WatchStays == Spec => WatchedOperationStays
<1> USE BrowserAssumption
<1> DEFINE Stays(t) ==
      LET p == tab[t].pending
      IN  p # None /\ tab'[t].pending # p =>
             \/ tab'[t] = Fresh
             \/ tab'[t].pending # None /\ op[tab'[t].pending].stage = "checking"
             \/ op[p].owner # tab[t].session
<1>1. ASSUME BrowserInv, WatchedInv, [Next]_vars, NEW t \in Tabs
      PROVE  Stays(t)
  <2>1. CASE UNCHANGED vars \/ WalletSwitch
    BY <2>1 DEF vars, WalletSwitch
  <2>2. ASSUME NEW u \in Tabs, WalletEvent(u)
        PROVE  tab'[t].pending = tab[t].pending
    BY <1>1, <2>2, EventsKeep
  <2>3. ASSUME NEW u \in Tabs, Reload(u)
        PROVE  tab'[t] = Fresh \/ tab'[t] = tab[t]
    BY <1>1, <2>3 DEF Reload, BrowserInv, TypeOK
  <2>4. ASSUME NEW r \in Reads, ReadStep(r)
        PROVE  Stays(t)
    <3>1. ASSUME NEW u \in Tabs, StartConnect(u, r) \/ StartRefresh(u, r)
          PROVE  tab'[t].pending = tab[t].pending
      BY <1>1, <3>1, BeginsMove
    <3>2. CASE DropSuperseded(r)
      BY <3>2 DEF DropSuperseded
    <3>3. ASSUME NEW u \in Tabs, TabMoves(r, u)
          PROVE  Stays(t)
      BY <1>1, <3>3 DEF TabMoves, Watches
    <3>4. ASSUME NEW u \in Tabs, OnlyWatches(r, u)
          PROVE  Stays(t)
      <4>1. tab[t].pending # None => op[tab[t].pending].owner \in Accounts
        BY <1>1 DEF WatchedInv, Sent, Hashed, BrowserInv, TypeOK, TabStates, OperationsInv, OperationOK
      <4> QED
        BY <1>1, <3>4, <4>1 DEF OnlyWatches
    <3> QED
      BY <1>1, <2>4, <3>1, <3>2, <3>3, <3>4, ReadKinds, RestoresWatch
  <2>5. ASSUME NEW o \in Operations, OperationStep(o)
        PROVE  Stays(t)
    <3>1. tab'[t].pending = tab[t].pending \/ (Retain(o) /\ tab'[t].pending = o)
      BY <1>1, <2>5, OperationsShow
    <3>2. Retain(o) => op[o].stage = "checking" /\ o # None
      BY DEF Retain
    <3> QED
      BY <3>1, <3>2
  <2> QED
    BY <1>1, <2>1, <2>2, <2>3, <2>4, <2>5 DEF Next
<1>2. BrowserInv /\ WatchedInv /\ [Next]_vars => \A t \in Tabs : Stays(t)
  BY <1>1
<1> QED
  BY <1>2, WatchedAreSent, PTL DEF Spec, WatchedOperationStays

\* What a read shows as open is the account the wallet answers at that
\* moment, and no wallet event has met the tab since it began (publish and
\* invalidate, m3-browser-runtime.ts).
THEOREM ShownIsTheWallets == Spec => ReadsShowTheWallet
<1> USE BrowserAssumption
<1> DEFINE Shows(r) ==
      LET t == read[r].tab
      IN  /\ read[r].phase # "idle"
          /\ read'[r] # read[r]
          /\ tab'[t].open /\ tab'[t] # tab[t]
          /\ <<tab'[t].account, tab'[t].open>> # <<tab[t].account, tab[t].open>>
          => read[r].quiet /\ tab'[t].account = wallet
<1>1. ASSUME BrowserInv, [Next]_vars, NEW r \in Reads
      PROVE  Shows(r)
  <2> SUFFICES ASSUME NEW t \in Tabs, t = read[r].tab, read[r].phase # "idle", read'[r] # read[r],
                      tab'[t].open, tab'[t] # tab[t],
                      <<tab'[t].account, tab'[t].open>> # <<tab[t].account, tab[t].open>>
               PROVE  read[r].quiet /\ tab'[t].account = wallet
    BY <1>1 DEF BrowserInv, ReadsInv, ReadOK
  <2>1. CASE UNCHANGED vars \/ WalletSwitch
    BY <2>1 DEF vars, WalletSwitch
  <2>2. ASSUME NEW u \in Tabs, WalletEvent(u)
        PROVE  FALSE
    BY <1>1, <2>2, EventsKeep
  <2>3. ASSUME NEW u \in Tabs, Reload(u)
        PROVE  FALSE
    <3>1. tab'[t] = Fresh \/ tab'[t] = tab[t]
      BY <1>1, <2>3 DEF Reload, BrowserInv, TypeOK
    <3> QED
      BY <3>1 DEF Fresh
  <2>4. ASSUME NEW q \in Reads, ReadStep(q)
        PROVE  read[r].quiet /\ tab'[t].account = wallet
    <3>1. ASSUME NEW u \in Tabs, StartConnect(u, q) \/ StartRefresh(u, q)
          PROVE  FALSE
      BY <1>1, <3>1, BeginsMove
    <3>2. CASE DropSuperseded(q)
      BY <3>2 DEF DropSuperseded
    <3>3. ASSUME IsCurrent(q), NEW u \in Tabs, u = read[q].tab, ReadMoves(q), TabMoves(q, u)
          PROVE  read[r].quiet /\ tab'[t].account = wallet
      <4>1. q = r /\ u = t
        BY <3>3 DEF ReadMoves
      <4>2. read[r].quiet
        BY <1>1, <3>3, <4>1 DEF BrowserInv, ReadsInv, CurrentOK
      <4>3. (tab[t].open /\ tab'[t].account = tab[t].account) \/ tab'[t].account = wallet
        BY <3>3, <4>1 DEF TabMoves
      <4>4. tab[t].open \in BOOLEAN /\ tab'[t].open \in BOOLEAN
        BY <1>1, <3>3 DEF BrowserInv, TypeOK, TabMoves, TabStates
      <4> QED
        BY <4>2, <4>3, <4>4
    <3>4. ASSUME NEW u \in Tabs, OnlyWatches(q, u)
          PROVE  FALSE
      BY <3>4 DEF OnlyWatches, Shown
    <3> QED
      BY <1>1, <2>4, <3>1, <3>2, <3>3, <3>4, ReadKinds, RestoresWatch
  <2>5. ASSUME NEW o \in Operations, OperationStep(o)
        PROVE  FALSE
    BY <1>1, <2>5, OperationsShow
  <2> QED
    BY <1>1, <2>1, <2>2, <2>3, <2>4, <2>5 DEF Next
<1>2. BrowserInv /\ [Next]_vars => \A r \in Reads : Shows(r)
  BY <1>1
<1> QED
  BY <1>2, BrowserInvariant, PTL DEF Spec, ReadsShowTheWallet

\* What a tab shows of the wallet stands: its session, the status, the
\* account and the rights it shows change only as its current read goes on,
\* by a wallet event that closes them, by its own review or by a reload,
\* and never by a read that was overtaken (assertCurrent and invalidate,
\* m3-browser-runtime.ts).
THEOREM ConnectionsStand == Spec => ConnectionStands
<1> USE BrowserAssumption
<1> DEFINE Stands(t) ==
      Shown(tab'[t]) # Shown(tab[t]) =>
          \/ tab'[t] = Fresh
          \/ \E r \in Reads :
                r \in {tab[t].current, tab'[t].current} /\ read'[r].phase # read[r].phase
          \/ /\ tab[t].current # None /\ tab'[t] = Closed(tab[t])
             /\ \A r \in Reads : read'[r].phase = read[r].phase
          \/ \E o \in Operations :
                op[o].tab = t /\ op[o].stage = "authorizing" /\ op'[o].stage # "authorizing"
<1>1. ASSUME BrowserInv, [Next]_vars, NEW t \in Tabs
      PROVE  Stands(t)
  <2>1. CASE UNCHANGED vars \/ WalletSwitch
    BY <2>1 DEF vars, WalletSwitch
  <2>2. ASSUME NEW u \in Tabs, WalletEvent(u)
        PROVE  Stands(t)
    BY <1>1, <2>2, EventsKeep
  <2>3. ASSUME NEW u \in Tabs, Reload(u)
        PROVE  tab'[t] = Fresh \/ tab'[t] = tab[t]
    BY <1>1, <2>3 DEF Reload, BrowserInv, TypeOK
  <2>4. ASSUME NEW r \in Reads, ReadStep(r)
        PROVE  Stands(t)
    <3>1. ASSUME NEW u \in Tabs, StartConnect(u, r) \/ StartRefresh(u, r)
          PROVE  Stands(t)
      <4>1. CASE u = t
        <5>1. tab'[t].current = r /\ read'[r].phase # read[r].phase
          BY <1>1, <3>1, <4>1, BeginsMove
        <5> QED
          BY <5>1
      <4>2. CASE u # t
        BY <1>1, <3>1, <4>2, BeginsMove
      <4> QED
        BY <4>1, <4>2
    <3>2. CASE DropSuperseded(r)
      BY <3>2 DEF DropSuperseded
    <3>3. ASSUME IsCurrent(r), NEW u \in Tabs, u = read[r].tab, TabMoves(r, u)
          PROVE  Stands(t)
      BY <3>3 DEF IsCurrent, TabMoves
    <3>4. ASSUME NEW u \in Tabs, OnlyWatches(r, u)
          PROVE  Stands(t)
      BY <3>4 DEF OnlyWatches
    <3> QED
      BY <1>1, <2>4, <3>1, <3>2, <3>3, <3>4, ReadKinds, RestoresWatch
  <2>5. ASSUME NEW o \in Operations, OperationStep(o)
        PROVE  Stands(t)
    BY <1>1, <2>5, OperationsShow
  <2> QED
    BY <1>1, <2>1, <2>2, <2>3, <2>4, <2>5 DEF Next
<1>2. BrowserInv /\ [Next]_vars => \A t \in Tabs : Stands(t)
  BY <1>1
<1> QED
  BY <1>2, BrowserInvariant, PTL DEF Spec, ConnectionStands

\* An operation is submitted only when no wallet event came between the
\* journal's consent and the wallet's answer (chain-wallet.ts, and
\* #retainSubmission).
THEOREM SubmissionsAreOneSession == Spec => SubmittedInOneSession
<1> USE BrowserAssumption
<1> DEFINE One(o) ==
          /\ op[o].stage = "checking"
          /\ op'[o].stage = "registering"
          => op[o].quiet /\ wallet = op[o].owner
<1>1. ASSUME BrowserInv, [Next]_vars, NEW o \in Operations
      PROVE  One(o)
  <2> SUFFICES ASSUME op[o].stage = "checking", op'[o].stage = "registering"
               PROVE  op[o].quiet /\ wallet = op[o].owner
    OBVIOUS
  <2>0. TypeOK /\ OperationsInv /\ op \in [Operations -> OperationStates] /\ ~OperationsMove
    BY <1>1 DEF BrowserInv, TypeOK, OperationsMove, SameHash, Hashed
  <2>1. CASE UNCHANGED vars \/ WalletSwitch
    BY <2>1 DEF vars, WalletSwitch
  <2>2. ASSUME NEW u \in Tabs, WalletEvent(u) \/ Reload(u)
        PROVE  FALSE
    BY <2>0, <2>2, EventMoves, ReloadMoves
  <2>3. ASSUME NEW r \in Reads, ReadStep(r)
        PROVE  FALSE
    <3>1. ASSUME NEW u \in Tabs, StartConnect(u, r) \/ StartRefresh(u, r)
          PROVE  UNCHANGED op
      BY <1>1, <3>1, BeginsMove
    <3>2. DropSuperseded(r) \/ RestoreOperation(r) => UNCHANGED op
      BY DEF DropSuperseded, RestoreOperation
    <3> QED
      BY <1>1, <2>0, <2>3, <3>1, <3>2, ReadKinds, NoOperationMoves
  <2>4. ASSUME NEW p \in Operations, OperationStep(p)
        PROVE  op[o].quiet /\ wallet = op[o].owner
    <3>1. Retain(p)
      BY <1>1, <2>0, <2>4, OperationMoves
    <3>2. CASE SessionHolds(p) /\ Heard(p, "registering")
      <4>1. p = o
        BY <2>0, <3>2 DEF Heard
      <4> QED
        BY <2>0, <3>2, <4>1 DEF SessionHolds, OperationsInv, OperationOK, Listening
    <3>3. CASE EndWithHash(p, "kept") \/ EndWithHash(p, "unrecorded")
      <4>1. CASE p = o
        <5>1. op'[o] = Keep(op[o], "kept") \/ op'[o] = Keep(op[o], "unrecorded")
          BY <2>0, <3>3, <4>1 DEF EndWithHash
        <5>2. op'[o].stage \in {"kept", "unrecorded"}
          <6>1. PICK x \in OperationStates : x = op[o]
            BY <2>0
          <6>2. Keep(x, "kept").stage = "kept" /\ Keep(x, "unrecorded").stage = "unrecorded"
            BY DEF Keep, OperationStates
          <6> QED
            BY <5>1, <6>1, <6>2
        <5> QED
          BY <5>2
      <4>2. CASE p # o
        BY <2>0, <3>3, <4>2 DEF EndWithHash
      <4> QED
        BY <4>1, <4>2
    <3> QED
      BY <3>1, <3>2, <3>3 DEF Retain
  <2> QED
    BY <1>1, <2>1, <2>2, <2>3, <2>4 DEF Next
<1>2. BrowserInv /\ [Next]_vars => \A o \in Operations : One(o)
  BY <1>1
<1> QED
  BY <1>2, BrowserInvariant, PTL DEF Spec, SubmittedInOneSession
=============================================================================
