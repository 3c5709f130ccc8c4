------------------------- MODULE LocalClientProofs -------------------------
(***************************************************************************)
(* Proofs about the tabs of one browser before the local ledger, for any    *)
(* number of tabs, ids, commands and sessions: the browser never loses      *)
(* sight of a command, and it confirms one only where it shows it.          *)
(***************************************************************************)
EXTENDS LocalClient, LocalLedgerProofs

-----------------------------------------------------------------------------
(* The invariant *)

Owners == {Nobody, Alice, "bob"}

Views ==
    [pc : {"idle", "session", "snapshot", "read", "login", "post", "answered"},
     user : Owners, revision : Nat, needsRefresh : BOOLEAN, rejectionRefreshed : BOOLEAN,
     as : Owners, next : {"show", "showLogin", "confirm", "retry"},
     request : Requests \cup {NoRequest}, token : Nat, seen : Nat,
     answer : {"none", "done", "refused", "notFound", "unauthorized"}]

ClientTypeOK ==
    /\ sessions \in Seq(Owners)
    /\ cookie \in 0..Len(sessions)
    /\ stored \in [request : Requests \cup {NoRequest},
                   rejection : {"none", "refused", "notFound"}]
    /\ tab \in [Tabs -> Views]
    /\ \A t \in Tabs : tab[t].token <= Len(sessions)
    /\ late \subseteq [request : Requests, token : 0..Len(sessions)]
    /\ fate \in [OwnIds -> [request : Requests \cup {NoRequest},
                            outcome : {"unused", "open", "confirmed", "refused", "notFound"}]]

\* The commands this browser ever stored: each id has one request.
Sent(request) ==
    /\ request \in Requests
    /\ request.id \in OwnIds
    /\ fate[request.id].request = request
    /\ fate[request.id].outcome # "unused"
    /\ request.expectedRevision <= revision

\* Refused at the revision it names or after it: no copy can be applied.
RefusedForGood(request) == ~Known(request) /\ ~Acceptable(request)

\* A tab works on a command of this browser and for alice.  It holds the
\* answer "done", or reads in order to confirm, only when the command is in
\* the ledger, and then what it reads shows it; and it holds a refusal only
\* of a command refused for good.
TabOK(t) ==
    /\ tab[t].pc \in {"post", "answered"} \/ tab[t].next \in {"confirm", "retry"}
         => Sent(tab[t].request)
    /\ tab[t].next \in {"confirm", "retry"} => tab[t].as = Alice
    /\ tab[t].next = "confirm" => Known(tab[t].request)
    /\ tab[t].next = "confirm" /\ tab[t].pc = "read"
         => receipts[tab[t].request.id].revision <= tab[t].seen
    /\ tab[t].pc = "answered" /\ tab[t].answer = "done" => Known(tab[t].request)
    /\ tab[t].pc = "answered" /\ tab[t].answer = "refused" => RefusedForGood(tab[t].request)
    /\ tab[t].seen <= revision
    /\ tab[t].revision <= revision

\* What is stored is the one open command, and a rejection stored with it is
\* final.
StoredOK ==
    stored # NoPending =>
        /\ Sent(stored.request)
        /\ fate[stored.request.id].outcome = "open"
        /\ stored.rejection = "refused" => RefusedForGood(stored.request)

FateOK(id) ==
    /\ fate[id].outcome # "unused" => Sent(fate[id].request) /\ fate[id].request.id = id
    /\ fate[id].outcome = "open" => stored.request = fate[id].request
    /\ fate[id].outcome = "confirmed" => id \in DOMAIN receipts
    /\ fate[id].outcome = "refused" => RefusedForGood(fate[id].request)

\* Nobody else's command has an id of this browser.
ReceiptsOK ==
    \A id \in OwnIds \cap DOMAIN receipts :
        fate[id].outcome # "unused" /\ receipts[id].fingerprint = fate[id].request

ClientInv ==
    /\ HistoryInv
    /\ ClientTypeOK
    /\ \A t \in Tabs : TabOK(t)
    /\ StoredOK
    /\ \A copy \in late : Sent(copy.request)
    /\ \A id \in OwnIds : FateOK(id)
    /\ ReceiptsOK

-----------------------------------------------------------------------------
(* Types *)

LEMMA NoRequestIsNone == NoRequest \notin Requests
  <1>1. \A request \in Requests : "command" \in DOMAIN request
    BY DEF Requests
  <1>2. "command" \notin DOMAIN NoRequest
    BY DEF NoRequest
  <1> QED BY <1>1, <1>2

\* What a tab may become.
LEMMA ViewTypes ==
  ASSUME ClientTypeOK, NEW t \in Tabs
  PROVE  /\ tab[t] \in Views
         /\ Failed(t) \in Views /\ Failed(t).token = 0
         /\ Cleared(t) \in Views /\ Cleared(t).token = 0
         /\ Loaded \in Views /\ Loaded.token = 0
  BY DEF ClientTypeOK, Views, Failed, Cleared, Loaded, Owners, Nobody

\* One tab's view changes, and the rest stays what it may be.
LEMMA ViewChanges ==
  ASSUME ClientTypeOK, NEW t \in Tabs, NEW view \in Views, Becomes(t, view)
  PROVE  /\ tab' \in [Tabs -> Views]
         /\ tab'[t] = view
         /\ \A u \in Tabs \ {t} : tab'[u] = tab[u]
  BY DEF ClientTypeOK, Becomes

LEMMA SessionOwners ==
  ASSUME ClientTypeOK, NEW token \in 0..Len(sessions)
  PROVE  SessionOf(token) \in Owners
  <1>1. sessions \in Seq(Owners) /\ Nobody \in Owners
    BY DEF ClientTypeOK, Owners
  <1>2. token # 0 => sessions[token] \in Owners
    BY <1>1, LenProperties, ElementOfSeq
  <1> QED BY <1>1, <1>2 DEF SessionOf

\* The sessions only become more, and only end.
LEMMA SessionTypes ==
  ASSUME ClientTypeOK, NEW user \in Owners,
         \/ sessions' = Append([k \in DOMAIN sessions |->
                                  IF k = cookie THEN Nobody ELSE sessions[k]], user)
         \/ \E k \in DOMAIN sessions : sessions' = [sessions EXCEPT ![k] = Nobody]
         \/ UNCHANGED sessions
  PROVE  /\ sessions' \in Seq(Owners)
         /\ Len(sessions) \in Nat
         /\ Len(sessions') \in Len(sessions)..Len(sessions) + 1
         /\ sessions' = Append([k \in DOMAIN sessions |->
                                  IF k = cookie THEN Nobody ELSE sessions[k]], user)
              => Len(sessions') = Len(sessions) + 1
  <1>0. sessions \in Seq(Owners) /\ Nobody \in Owners
    BY DEF ClientTypeOK, Owners
  <1>1. sessions \in Seq(Owners) /\ Nobody \in Owners /\ Len(sessions) \in Nat
    BY <1>0, LenProperties
  <1>2. CASE sessions' = Append([k \in DOMAIN sessions |->
                                  IF k = cookie THEN Nobody ELSE sessions[k]], user)
    <2> DEFINE ended == [k \in DOMAIN sessions |-> IF k = cookie THEN Nobody ELSE sessions[k]]
    <2>1. ended \in Seq(Owners) /\ Len(ended) = Len(sessions)
      BY <1>1
    <2> HIDE DEF ended
    <2>2. sessions' = Append(ended, user)
      BY <1>2 DEF ended
    <2> QED BY <1>1, <2>1, <2>2, AppendProperties
  <1>3. CASE \E k \in DOMAIN sessions : sessions' = [sessions EXCEPT ![k] = Nobody]
    <2>1. sessions' \in Seq(Owners) /\ Len(sessions') = Len(sessions)
      BY <1>1, <1>3
    <2> QED BY <1>1, <2>1
  <1> QED BY <1>1, <1>2, <1>3

-----------------------------------------------------------------------------
(* What no step takes back *)

\* The ledger only grows, what was sent stays sent, and what was refused for
\* good stays refused.
Later ==
    /\ HistoryInv'
    /\ revision \in Nat /\ revision' \in Nat /\ revision <= revision'
    /\ \A id \in DOMAIN receipts : id \in DOMAIN receipts' /\ receipts'[id] = receipts[id]
    /\ \A request \in Requests :
          Sent(request) =>
             /\ Sent(request)'
             /\ RefusedForGood(request) => RefusedForGood(request)'
    /\ ReceiptsOK'

\* A step of the browser alone.
LEMMA LedgerRests ==
  ASSUME ClientInv, UNCHANGED vars,
         \A id \in OwnIds : fate[id].outcome # "unused" =>
            fate'[id].request = fate[id].request /\ fate'[id].outcome # "unused"
  PROVE  Later
  <1>1. HistoryInv' /\ revision' = revision /\ receipts' = receipts /\ UNCHANGED <<accounts, events>>
    BY NextHistory DEF ClientInv, vars, history
  <1>2. revision \in Nat
    BY CommandsAreWellFormed DEF ClientInv, HistoryInv
  <1>3. \A request \in Requests : Sent(request) => Sent(request)'
    BY <1>1 DEF Sent
  <1>4. ASSUME NEW request \in Requests, RefusedForGood(request)
        PROVE  RefusedForGood(request)'
    BY <1>1, <1>4
    DEF RefusedForGood, Known, Acceptable, AtItsRevision, HistoryOpen, Allowed, accounts, fees,
        position, CanAllocate, CanDeallocate, CanRequestWithdrawal, IsPending, CanStart, CanReserve,
        HasOrder, HasPosition, CanSettle, CanPayFees, ActiveNet, Reserved, Available, NoOrders
  <1>5. ReceiptsOK'
    BY <1>1 DEF ClientInv, ReceiptsOK
  <1> QED BY <1>1, <1>2, <1>3, <1>4, <1>5 DEF Later

\* The ledger applies a command: one that this browser sent, or one with an
\* id of somebody else's.
LEMMA LedgerApplies ==
  ASSUME ClientInv, NEW request \in Requests, Receive(request), fate' = fate,
         request.id \in OwnIds => Sent(request)
  PROVE  /\ Later
         /\ request.id \in DOMAIN receipts'
  <1>1. /\ HistoryInv'
        /\ revision \in Nat /\ revision' = revision + 1
        /\ DOMAIN receipts' = DOMAIN receipts \cup {request.id}
        /\ receipts'[request.id] = [fingerprint |-> request, revision |-> revision + 1]
        /\ request.id \notin DOMAIN receipts
        /\ \A id \in DOMAIN receipts : receipts'[id] = receipts[id]
    BY ReceiveHistory, CommandsAreWellFormed DEF ClientInv, HistoryInv, Receive
  <1>2. \A other \in Requests : Sent(other) => Sent(other)'
    <2>1. \A other \in Requests : other.expectedRevision \in Nat
      BY CommandsAreWellFormed DEF Requests
    <2> QED BY <1>1, <2>1 DEF Sent
  <1>3. ASSUME NEW other \in Requests, Sent(other), RefusedForGood(other)
        PROVE  RefusedForGood(other)'
    <2>1. other.id # request.id
      BY <1>3 DEF Sent, RefusedForGood, Receive
    <2>2. ~Known(other)'
      BY <1>1, <1>3, <2>1 DEF RefusedForGood, Known
    <2>3. other.expectedRevision \in Nat /\ other.expectedRevision <= revision
      BY <1>3, CommandsAreWellFormed DEF Sent, Requests
    <2> QED BY <1>1, <2>2, <2>3 DEF RefusedForGood, Acceptable, AtItsRevision
  <1>4. ReceiptsOK'
    BY <1>1 DEF ClientInv, ReceiptsOK, Sent
  <1> QED BY <1>1, <1>2, <1>3, <1>4 DEF Later

\* A tab that does nothing keeps what it may rely on.
LEMMA OthersKeep ==
  ASSUME ClientInv, Later, NEW t \in Tabs, tab'[t] = tab[t]
  PROVE  TabOK(t)'
  <1>1. TabOK(t) /\ tab[t] \in Views
    BY ViewTypes DEF ClientInv
  <1>2. tab[t].seen \in Nat /\ tab[t].revision \in Nat
    BY <1>1 DEF Views
  <1>3. /\ tab[t].pc \in {"post", "answered"} \/ tab[t].next \in {"confirm", "retry"}
             => Sent(tab[t].request) /\ tab[t].request \in Requests
        /\ tab[t].next = "confirm" => Sent(tab[t].request)
    BY <1>1 DEF TabOK, Sent
  <1> QED BY <1>1, <1>2, <1>3 DEF TabOK, Later, Known

LEMMA FateKeeps ==
  ASSUME ClientInv, Later, NEW id \in OwnIds, fate'[id] = fate[id],
         fate[id].outcome = "open" => stored'.request = stored.request
  PROVE  FateOK(id)'
  <1>1. FateOK(id)
    BY DEF ClientInv
  <1>2. fate[id].outcome # "unused" => fate[id].request \in Requests /\ Sent(fate[id].request)
    BY <1>1 DEF FateOK, Sent
  <1> QED BY <1>1, <1>2 DEF FateOK, Later

LEMMA StoreKeeps ==
  ASSUME ClientInv, Later, UNCHANGED <<stored, fate>>
  PROVE  StoredOK' /\ \A id \in OwnIds : FateOK(id)'
  <1>1. StoredOK'
    <2>1. StoredOK
      BY DEF ClientInv
    <2>2. stored # NoPending => stored.request \in Requests
      BY <2>1 DEF StoredOK, Sent
    <2> QED BY <2>1, <2>2 DEF StoredOK, Later
  <1> QED BY <1>1, FateKeeps

\* What is left to show of a step of one tab: its own view, what is stored
\* and the fates.
StoredTypeOK ==
    /\ stored \in [request : Requests \cup {NoRequest},
                   rejection : {"none", "refused", "notFound"}]
    /\ fate \in [OwnIds -> [request : Requests \cup {NoRequest},
                            outcome : {"unused", "open", "confirmed", "refused", "notFound"}]]

LEMMA TabSteps ==
  ASSUME ClientInv, Later, NEW t \in Tabs, NEW view \in Views, Becomes(t, view), TabOK(t)',
         sessions' \in Seq(Owners), Len(sessions) \in Nat, Len(sessions') \in Nat,
         Len(sessions) <= Len(sessions'),
         view.token <= Len(sessions'), cookie' \in 0..Len(sessions'),
         late' \subseteq late \cup Unanswered(t),
         StoredTypeOK', StoredOK', \A id \in OwnIds : FateOK(id)'
  PROVE  ClientInv'
  <1>1. ClientTypeOK /\ tab[t] \in Views /\ TabOK(t)
    BY ViewTypes DEF ClientInv
  <1>2. /\ tab' \in [Tabs -> Views]
        /\ tab'[t] = view
        /\ \A u \in Tabs \ {t} : tab'[u] = tab[u]
    BY <1>1, ViewChanges
  <1>3. \A u \in Tabs : TabOK(u)'
    BY <1>2, OthersKeep
  <1>4. \A u \in Tabs : tab'[u].token <= Len(sessions')
    <2>1. \A u \in Tabs : tab[u].token <= Len(sessions) /\ tab[u].token \in Nat
      BY <1>1 DEF ClientTypeOK, Views
    <2> QED BY <1>2, <2>1
  <1>5. \A copy \in late' : copy \in [request : Requests, token : 0..Len(sessions')] /\ Sent(copy.request)'
    <2> SUFFICES ASSUME NEW copy \in late'
                 PROVE  copy \in [request : Requests, token : 0..Len(sessions')] /\ Sent(copy.request)'
      OBVIOUS
    <2>1. CASE copy \in late
      <3>1. copy \in [request : Requests, token : 0..Len(sessions)] /\ Sent(copy.request)
        BY <2>1 DEF ClientInv, ClientTypeOK
      <3> QED BY <3>1 DEF Later
    <2>2. CASE copy \in Unanswered(t)
      <3>1. tab[t].pc = "post" /\ copy = [request |-> tab[t].request, token |-> tab[t].token]
        BY <2>2 DEF Unanswered
      <3>2. Sent(tab[t].request) /\ tab[t].request \in Requests
        BY <1>1, <3>1 DEF TabOK, Sent
      <3>3. tab[t].token \in 0..Len(sessions')
        <4>1. tab[t].token \in Nat
          BY <1>1 DEF Views
        <4>2. tab[t].token <= Len(sessions)
          BY <1>1 DEF ClientTypeOK
        <4> QED BY <4>1, <4>2
      <3> QED BY <3>1, <3>2, <3>3 DEF Later
    <2> QED BY <2>1, <2>2
  <1>6. ClientTypeOK'
    BY <1>2, <1>4, <1>5 DEF ClientTypeOK, StoredTypeOK
  <1> QED BY <1>3, <1>5, <1>6 DEF ClientInv, Later

\* A step that only changes the view of one tab.
LEMMA ViewSteps ==
  ASSUME ClientInv, UNCHANGED <<vars, sessions, cookie, stored, late, fate>>,
         NEW t \in Tabs, NEW view \in Views, Becomes(t, view), view.token <= Len(sessions), TabOK(t)'
  PROVE  ClientInv'
  <1>1. Later
    BY LedgerRests
  <1>2. /\ sessions \in Seq(Owners) /\ cookie \in 0..Len(sessions)
        /\ StoredTypeOK'
    BY DEF ClientInv, ClientTypeOK, StoredTypeOK
  <1>3. Len(sessions) \in Nat
    BY <1>2, LenProperties
  <1>4. StoredOK' /\ \A id \in OwnIds : FateOK(id)'
    BY <1>1, StoreKeeps
  <1> QED BY <1>1, <1>2, <1>3, <1>4, TabSteps

\* A tab that awaits nothing, or only what a mere load awaits, relies on
\* nothing.
LEMMA RestingTab ==
  ASSUME ClientInv, Later, NEW t \in Tabs, NEW view \in Views, Becomes(t, view),
         view.pc \notin {"post", "answered"}, view.next \in {"show", "showLogin"},
         view.seen = 0, view.revision = 0
  PROVE  TabOK(t)'
  <1>1. tab'[t] = view
    BY ViewChanges DEF ClientInv
  <1>2. revision' \in Nat /\ 0 <= revision'
    BY DEF Later
  <1> QED BY <1>1, <1>2 DEF TabOK

\* A load begins: for a command only of one that the tab may rely on.
LEMMA LoadingTab ==
  ASSUME ClientInv, Later, NEW t \in Tabs, NEW owner \in Owners,
         NEW next \in {"show", "showLogin", "confirm", "retry"},
         NEW request \in Requests \cup {NoRequest}, Load(t, owner, next, request),
         next \in {"confirm", "retry"} => owner = Alice /\ Sent(request)' /\ request \in Requests,
         next = "confirm" => Known(request)'
  PROVE  \E view \in Views : Becomes(t, view) /\ view.token = 0 /\ TabOK(t)'
  <1> DEFINE view == [Failed(t) EXCEPT !.pc = "session", !.as = owner, !.next = next,
                                       !.request = request]
  <1>1. /\ view \in Views /\ view.token = 0
        /\ view.pc = "session" /\ view.as = owner /\ view.next = next /\ view.request = request
        /\ view.seen = 0 /\ view.revision = 0
    BY DEF ClientInv, ClientTypeOK, Views, Failed, Loaded, Owners, Nobody
  <1>2. Becomes(t, view)
    BY DEF Load
  <1> HIDE DEF view
  <1>3. tab'[t] = view
    BY <1>1, <1>2, ViewChanges DEF ClientInv
  <1>4. revision' \in Nat /\ 0 <= revision'
    BY DEF Later
  <1>5. TabOK(t)'
    BY <1>1, <1>3, <1>4 DEF TabOK
  <1> QED BY <1>1, <1>2, <1>5

-----------------------------------------------------------------------------
(* The steps of a tab that reads *)

LEMMA TabFacts ==
  ASSUME ClientInv, NEW t \in Tabs
  PROVE  /\ ClientTypeOK /\ TabOK(t)
         /\ tab[t] \in Views /\ tab[t].token \in Nat /\ tab[t].token <= Len(sessions)
         /\ tab[t].seen \in Nat /\ tab[t].revision \in Nat
         /\ Failed(t) \in Views /\ Failed(t).token = 0
         /\ Cleared(t) \in Views /\ Cleared(t).token = 0
         /\ Loaded \in Views /\ Loaded.token = 0
         /\ sessions \in Seq(Owners) /\ Len(sessions) \in Nat
         /\ cookie \in 0..Len(sessions) /\ SessionOf(cookie) \in Owners
         /\ revision \in Nat
  <1>1. ClientTypeOK /\ TabOK(t) /\ revision \in Nat
    BY CommandsAreWellFormed DEF ClientInv, HistoryInv
  <1>2. /\ sessions \in Seq(Owners) /\ cookie \in 0..Len(sessions) /\ tab[t].token <= Len(sessions)
        /\ tab[t] \in Views
    BY <1>1 DEF ClientTypeOK
  <1>3. tab[t].token \in Nat /\ tab[t].seen \in Nat /\ tab[t].revision \in Nat
    BY <1>2 DEF Views
  <1> QED BY <1>1, <1>2, <1>3, ViewTypes, SessionOwners, LenProperties

\* What a tab falls back to when a step fails, is refused or is done.
LEMMA FallsBack ==
  ASSUME ClientInv, UNCHANGED <<vars, sessions, cookie, stored, late, fate>>, NEW t \in Tabs,
         Becomes(t, Failed(t)) \/ Becomes(t, Cleared(t))
  PROVE  ClientInv'
  <1>1. Later
    BY LedgerRests
  <1>2. /\ Failed(t).pc = "idle" /\ Failed(t).next = "show"
        /\ Failed(t).seen = 0 /\ Failed(t).revision = 0
        /\ Cleared(t).pc = "idle" /\ Cleared(t).next = "show"
        /\ Cleared(t).seen = 0 /\ Cleared(t).revision = 0
    BY DEF Failed, Cleared, Loaded
  <1>3. PICK view \in {Failed(t), Cleared(t)} : Becomes(t, view)
    OBVIOUS
  <1>4. view \in Views /\ view.token = 0 /\ 0 <= Len(sessions)
    BY <1>3, TabFacts
  <1>5. TabOK(t)'
    BY <1>1, <1>2, <1>3, <1>4, RestingTab
  <1> QED BY <1>3, <1>4, <1>5, ViewSteps

LEMMA LoadBegins ==
  ASSUME ClientInv, UNCHANGED <<vars, sessions, cookie, stored, late, fate>>, NEW t \in Tabs,
         NEW owner \in Owners,
         NEW next \in {"show", "showLogin", "confirm", "retry"},
         NEW request \in Requests \cup {NoRequest}, Load(t, owner, next, request),
         next \in {"confirm", "retry"} => owner = Alice /\ Sent(request) /\ request \in Requests,
         next = "confirm" => Known(request)
  PROVE  ClientInv'
  <1>1. Later
    BY LedgerRests
  <1>2. next = "confirm" => Known(request)'
    BY DEF Known, vars, history
  <1>3. request \in Requests /\ Sent(request) => Sent(request)'
    BY <1>1 DEF Later
  <1>4. PICK view \in Views : Becomes(t, view) /\ view.token = 0 /\ TabOK(t)'
    BY <1>1, <1>2, <1>3, LoadingTab
  <1> QED BY <1>4, TabFacts, ViewSteps

LEMMA RefreshInv ==
  ASSUME ClientInv, NEW t \in Tabs, Refresh(t)
  PROVE  ClientInv'
  BY LoadBegins DEF Refresh, Owners

LEMMA RetryInv ==
  ASSUME ClientInv, NEW t \in Tabs, Retry(t)
  PROVE  ClientInv'
  <1>1. Sent(stored.request) /\ stored.request \in Requests
    BY DEF Retry, ClientInv, StoredOK, Sent
  <1> QED BY <1>1, LoadBegins DEF Retry, Owners

LEMMA ReadSessionInv ==
  ASSUME ClientInv, NEW t \in Tabs, ReadSession(t)
  PROVE  ClientInv'
  <1> DEFINE owner == SessionOf(cookie)
             view == [tab[t] EXCEPT !.pc = "snapshot", !.as = owner,
                                    !.user = IF @ = owner THEN owner ELSE Nobody]
  <1>0. UNCHANGED <<vars, sessions, cookie, stored, late, fate>> /\ tab[t].pc = "session"
    BY DEF ReadSession
  <1>1. CASE owner # Nobody /\ tab[t].as \in {Nobody, owner} /\ Becomes(t, view)
    <2>1. Later
      BY <1>0, LedgerRests
    <2>2. /\ view \in Views /\ view.pc = "snapshot" /\ view.as = owner
          /\ view.next = tab[t].next /\ view.request = tab[t].request /\ view.token = tab[t].token
          /\ view.seen = tab[t].seen /\ view.revision = tab[t].revision
      <3>1. owner \in Owners /\ tab[t] \in Views /\ Nobody \in Owners
        BY TabFacts DEF Owners
      <3> HIDE DEF owner
      <3> QED BY <3>1 DEF Views
    <2> HIDE DEF view
    <2>3. tab'[t] = view
      BY <1>1, <2>2, ViewChanges DEF ClientInv
    <2>4. TabOK(t)'
      <3>1. tab[t].next \in {"confirm", "retry"} =>
               tab[t].request \in Requests /\ Sent(tab[t].request)
        BY TabFacts DEF TabOK, Sent
      <3>2. revision' = revision /\ receipts' = receipts
        BY <1>0 DEF vars, history
      <3>3. tab[t].next \in {"confirm", "retry"} => Sent(tab[t].request)'
        BY <2>1, <2>2, <2>3, <3>1 DEF Later
      <3> QED BY <1>1, <2>2, <2>3, <3>2, <3>3, TabFacts DEF TabOK, Known, Alice, Nobody
    <2> QED BY <1>0, <1>1, <2>2, <2>4, TabFacts, ViewSteps
  <1>2. CASE Becomes(t, Cleared(t))
    BY <1>0, <1>2, FallsBack
  <1> QED BY <1>1, <1>2 DEF ReadSession

LEMMA ReadSnapshotInv ==
  ASSUME ClientInv, NEW t \in Tabs, ReadSnapshot(t)
  PROVE  ClientInv'
  <1> DEFINE view == [tab[t] EXCEPT !.pc = "read", !.seen = revision]
  <1>0. UNCHANGED <<vars, sessions, cookie, stored, late, fate>> /\ tab[t].pc = "snapshot"
    BY DEF ReadSnapshot
  <1>1. CASE Becomes(t, view)
    <2>1. Later
      BY <1>0, LedgerRests
    <2>2. /\ view \in Views /\ view.pc = "read" /\ view.as = tab[t].as
          /\ view.next = tab[t].next /\ view.request = tab[t].request /\ view.token = tab[t].token
          /\ view.seen = revision /\ view.revision = tab[t].revision
      BY TabFacts DEF Views
    <2> HIDE DEF view
    <2>3. tab'[t] = view
      BY <1>1, <2>2, ViewChanges DEF ClientInv
    <2>4. TabOK(t)'
      <3>1. tab[t].next \in {"confirm", "retry"} =>
               tab[t].request \in Requests /\ Sent(tab[t].request)
        BY TabFacts DEF TabOK, Sent
      <3>2. revision' = revision /\ receipts' = receipts
        BY <1>0 DEF vars, history
      <3>3. tab[t].next \in {"confirm", "retry"} => Sent(tab[t].request)'
        BY <2>1, <2>2, <2>3, <3>1 DEF Later
      <3>4. tab[t].next = "confirm" => receipts[tab[t].request.id].revision <= revision
        BY TabFacts DEF TabOK, Known, ClientInv, HistoryInv
      <3> QED BY <2>2, <2>3, <3>2, <3>3, <3>4, TabFacts DEF TabOK, Known
    <2> QED BY <1>0, <1>1, <2>2, <2>4, TabFacts, ViewSteps
  <1>2. CASE Becomes(t, Cleared(t)) \/ Becomes(t, Failed(t))
    BY <1>0, <1>2, FallsBack
  <1> QED BY <1>1, <1>2 DEF ReadSnapshot

LEMMA ReadFailsInv ==
  ASSUME ClientInv, NEW t \in Tabs, ReadFails(t)
  PROVE  ClientInv'
  BY FallsBack DEF ReadFails

-----------------------------------------------------------------------------
(* Sessions, and answers that are not awaited any more *)

\* What a step needs to show when it neither stores anything nor settles a
\* command.
LEMMA StoredRests ==
  ASSUME ClientInv, Later, UNCHANGED <<stored, fate>>
  PROVE  StoredTypeOK' /\ StoredOK' /\ \A id \in OwnIds : FateOK(id)'
  <1>1. StoredTypeOK'
    BY DEF ClientInv, ClientTypeOK, StoredTypeOK
  <1> QED BY <1>1, StoreKeeps

\* A tab gives up what it awaits.
LEMMA AbandonInv ==
  ASSUME ClientInv, UNCHANGED <<vars, sessions, cookie, stored, fate>>, NEW t \in Tabs,
         late' = StillLate(late \cup Unanswered(t)),
         Becomes(t, Failed(t)) \/ Becomes(t, Loaded)
  PROVE  ClientInv'
  <1>1. Later
    BY LedgerRests
  <1>2. /\ Failed(t).pc = "idle" /\ Failed(t).next = "show"
        /\ Failed(t).seen = 0 /\ Failed(t).revision = 0
        /\ Loaded.pc = "idle" /\ Loaded.next = "show"
        /\ Loaded.seen = 0 /\ Loaded.revision = 0
    BY DEF Failed, Loaded
  <1>3. PICK view \in {Failed(t), Loaded} : Becomes(t, view)
    OBVIOUS
  <1>4. view \in Views /\ view.token = 0 /\ 0 <= Len(sessions)
    BY <1>3, TabFacts
  <1>5. TabOK(t)'
    BY <1>1, <1>2, <1>3, <1>4, RestingTab
  <1>6. late' \subseteq late \cup Unanswered(t)
    BY DEF StillLate
  <1>7. /\ sessions' \in Seq(Owners) /\ Len(sessions) \in Nat /\ Len(sessions') \in Nat
        /\ Len(sessions) <= Len(sessions') /\ view.token <= Len(sessions')
        /\ cookie' \in 0..Len(sessions')
    BY <1>4, TabFacts
  <1> QED BY <1>1, <1>3, <1>4, <1>5, <1>6, <1>7, StoredRests, TabSteps

LEMMA GiveUpInv ==
  ASSUME ClientInv, NEW t \in Tabs, GiveUp(t) \/ Reload(t)
  PROVE  ClientInv'
  BY AbandonInv DEF GiveUp, Reload

LEMMA SelectIdentityInv ==
  ASSUME ClientInv, NEW t \in Tabs, NEW user \in {Alice, "bob"}, SelectIdentity(t, user)
  PROVE  ClientInv'
  <1>1. /\ UNCHANGED <<vars, cookie, stored, fate>> /\ late' = StillLate(late)
    BY DEF SelectIdentity
  <1>2. Later
    BY <1>1, LedgerRests
  <1>3. user \in Owners
    BY DEF Owners
  <1>4. late' \subseteq late \cup Unanswered(t)
    BY <1>1 DEF StillLate
  <1> DEFINE begun == [Cleared(t) EXCEPT !.pc = "login", !.as = user, !.token = Len(sessions) + 1]
  <1>5. PICK view \in {begun, Cleared(t)} :
           /\ Becomes(t, view)
           /\ view = begun =>
                sessions' = Append([k \in DOMAIN sessions |->
                                       IF k = cookie THEN Nobody ELSE sessions[k]], user)
           /\ view # begun => UNCHANGED sessions
    <2>1. CASE /\ sessions' = Append([k \in DOMAIN sessions |->
                                        IF k = cookie THEN Nobody ELSE sessions[k]], user)
               /\ Becomes(t, begun)
      BY <2>1
    <2>2. CASE UNCHANGED sessions /\ Becomes(t, Cleared(t))
      <3>1. begun.pc = "login" /\ Cleared(t).pc = "idle"
        BY DEF Cleared, Loaded
      <3> HIDE DEF begun
      <3> QED BY <2>2, <3>1
    <2> QED BY <2>1, <2>2 DEF SelectIdentity
  <1>6. /\ begun \in Views /\ begun.pc = "login" /\ begun.token = Len(sessions) + 1
        /\ begun.next = "show" /\ begun.seen = 0 /\ begun.revision = 0
        /\ Cleared(t) \in Views /\ Cleared(t).pc = "idle" /\ Cleared(t).token = 0
        /\ Cleared(t).next = "show" /\ Cleared(t).seen = 0 /\ Cleared(t).revision = 0
    <2>1. Len(sessions) + 1 \in Nat
      BY TabFacts
    <2> QED BY <1>3, <2>1, TabFacts DEF Views, Cleared, Loaded, Nobody, Owners
  <1> HIDE DEF begun
  <1>7. /\ sessions' \in Seq(Owners) /\ Len(sessions) \in Nat /\ Len(sessions') \in Nat
        /\ Len(sessions) <= Len(sessions') /\ view.token <= Len(sessions')
        /\ cookie' \in 0..Len(sessions')
    <2>1. ClientTypeOK /\ Len(sessions) \in Nat /\ cookie \in 0..Len(sessions)
      BY TabFacts
    <2>2. /\ sessions' \in Seq(Owners)
          /\ Len(sessions') \in Len(sessions)..Len(sessions) + 1
          /\ view = begun => Len(sessions') = Len(sessions) + 1
      BY <1>3, <1>5, <2>1, SessionTypes
    <2> QED BY <1>1, <1>5, <1>6, <2>1, <2>2
  <1>8. TabOK(t)'
    BY <1>2, <1>5, <1>6, RestingTab
  <1> QED BY <1>1, <1>2, <1>4, <1>5, <1>6, <1>7, <1>8, StoredRests, TabSteps

LEMMA LoginAnsweredInv ==
  ASSUME ClientInv, NEW t \in Tabs, LoginAnswered(t)
  PROVE  ClientInv'
  <1>1. UNCHANGED <<vars, sessions, stored, late, fate>>
    BY DEF LoginAnswered
  <1>2. CASE cookie' = tab[t].token /\ Load(t, tab[t].as, "showLogin", NoRequest)
    <2>1. Later
      BY <1>1, LedgerRests
    <2>2. tab[t].as \in Owners
      BY TabFacts DEF Views
    <2>3. PICK view \in Views : Becomes(t, view) /\ view.token = 0 /\ TabOK(t)'
      BY <1>2, <2>1, <2>2, LoadingTab
    <2>4. /\ sessions' \in Seq(Owners) /\ Len(sessions) \in Nat /\ Len(sessions') = Len(sessions)
          /\ cookie' \in 0..Len(sessions')
      BY <1>1, <1>2, TabFacts
    <2>5. late' \subseteq late \cup Unanswered(t)
      BY <1>1
    <2> QED BY <1>1, <2>1, <2>3, <2>4, <2>5, StoredRests, TabSteps
  <1>3. CASE Becomes(t, Failed(t)) /\ UNCHANGED cookie
    BY <1>1, <1>3, FallsBack
  <1> QED BY <1>2, <1>3 DEF LoginAnswered

LEMMA SessionEndsInv ==
  ASSUME ClientInv, SessionEnds
  PROVE  ClientInv'
  <1>1. UNCHANGED <<vars, cookie, stored, tab, fate>> /\ late' \subseteq late
    BY DEF SessionEnds, StillLate
  <1>2. Later
    BY <1>1, LedgerRests
  <1>3. ClientTypeOK /\ sessions \in Seq(Owners) /\ Nobody \in Owners
    BY DEF ClientInv, ClientTypeOK, Owners
  <1>4. sessions' \in Seq(Owners) /\ Len(sessions') = Len(sessions)
    BY <1>3 DEF SessionEnds
  <1>5. ClientTypeOK'
    BY <1>1, <1>3, <1>4 DEF ClientTypeOK
  <1>6. \A t \in Tabs : TabOK(t)'
    BY <1>1, <1>2, OthersKeep
  <1>7. \A copy \in late' : Sent(copy.request)'
    <2>1. \A copy \in late : copy.request \in Requests /\ Sent(copy.request)
      BY DEF ClientInv, Sent
    <2> QED BY <1>1, <1>2, <2>1 DEF Later
  <1> QED BY <1>1, <1>2, <1>5, <1>6, <1>7, StoredRests DEF ClientInv, Later

-----------------------------------------------------------------------------
(* Commands *)

LEMMA ServeCommandInv ==
  ASSUME ClientInv, NEW t \in Tabs, ServeCommand(t)
  PROVE  ClientInv'
  <1> SUFFICES ASSUME NEW request \in Requests, request = tab[t].request
               PROVE  ClientInv'
    BY TabFacts DEF ServeCommand, TabOK, Sent
  <1>0. /\ UNCHANGED <<sessions, cookie, stored, late, fate>> /\ tab[t].pc = "post"
        /\ Sent(request)
    BY TabFacts DEF ServeCommand, TabOK, Sent
  <1>1. PICK answer \in {"unauthorized", "notFound", "done", "refused"} :
           /\ Answered(t, answer)
           /\ \/ UNCHANGED vars /\ answer # "done"
              \/ Receive(request) /\ answer = "done"
              \/ UNCHANGED vars /\ Known(request)
           /\ answer = "refused" => RefusedForGood(request)
    <2>1. /\ AnswerAgain(request.id) => UNCHANGED vars /\ Known(request)
          /\ ~Known(request) /\ ~Acceptable(request) => RefusedForGood(request)
      BY DEF AnswerAgain, Known, RefusedForGood
    <2> QED BY <2>1 DEF ServeCommand
  <1> DEFINE view == [tab[t] EXCEPT !.pc = "answered", !.answer = answer]
  <1>2. Becomes(t, view)
    BY <1>1 DEF Answered
  <1>3. /\ view \in Views /\ view.pc = "answered" /\ view.answer = answer
        /\ view.next = tab[t].next /\ view.request = request /\ view.token = tab[t].token
        /\ view.seen = tab[t].seen /\ view.revision = tab[t].revision /\ view.as = tab[t].as
    BY TabFacts DEF Views
  <1> HIDE DEF view
  <1>4. Later /\ (answer = "done" => Known(request)')
    <2>1. CASE UNCHANGED vars /\ (answer # "done" \/ Known(request))
      <3>1. Later
        BY <1>0, <2>1, LedgerRests
      <3>2. Known(request)' <=> Known(request)
        BY <2>1 DEF Known, vars, history
      <3> QED BY <2>1, <3>1, <3>2
    <2>2. CASE Receive(request)
      BY <1>0, <2>2, LedgerApplies DEF Known
    <2> QED BY <1>1, <2>1, <2>2
  <1>5. tab'[t] = view
    BY <1>2, <1>3, ViewChanges DEF ClientInv
  <1>6. TabOK(t)'
    <2>1. Sent(request)' /\ (answer = "refused" => RefusedForGood(request)')
      BY <1>0, <1>1, <1>4 DEF Later
    <2>2. tab[t].next = "confirm" => Known(request)'
      BY <1>4, TabFacts DEF TabOK, Later, Known
    <2>3. revision \in Nat /\ revision' \in Nat /\ revision <= revision'
      BY <1>4 DEF Later
    <2>4. TabOK(t) /\ tab[t].seen \in Nat /\ tab[t].revision \in Nat
      BY TabFacts
    <2>5. tab'[t].seen <= revision' /\ tab'[t].revision <= revision'
      BY <1>3, <1>5, <2>3, <2>4 DEF TabOK
    <2> QED BY <1>3, <1>4, <1>5, <2>1, <2>2, <2>4, <2>5 DEF TabOK
  <1>7. /\ sessions' \in Seq(Owners) /\ Len(sessions) \in Nat /\ Len(sessions') \in Nat
        /\ Len(sessions) <= Len(sessions') /\ view.token <= Len(sessions')
        /\ cookie' \in 0..Len(sessions')
    BY <1>0, <1>3, TabFacts
  <1>8. late' \subseteq late \cup Unanswered(t)
    BY <1>0
  <1> QED BY <1>0, <1>2, <1>3, <1>4, <1>6, <1>7, <1>8, StoredRests, TabSteps

\* The ledger applies a late copy, or a command of somebody else's.
LEMMA LedgerSteps ==
  ASSUME ClientInv, ArrivesLate \/ OtherClient
  PROVE  ClientInv'
  <1>1. UNCHANGED browser
    BY DEF ArrivesLate, OtherClient
  <1>2. PICK request \in Requests : Receive(request) /\ (request.id \in OwnIds => Sent(request))
    <2>1. CASE ArrivesLate
      BY <2>1 DEF ArrivesLate, ClientInv, Sent
    <2>2. CASE OtherClient
      BY <2>2 DEF OtherClient
    <2> QED BY <2>1, <2>2
  <1>3. Later
    BY <1>1, <1>2, LedgerApplies DEF browser
  <1>4. \A t \in Tabs : TabOK(t)'
    BY <1>1, <1>3, OthersKeep DEF browser
  <1>5. \A copy \in late' : Sent(copy.request)'
    <2>1. \A copy \in late : copy.request \in Requests /\ Sent(copy.request)
      BY DEF ClientInv, Sent
    <2> QED BY <1>1, <1>3, <2>1 DEF Later, browser
  <1>6. ClientTypeOK'
    BY <1>1 DEF ClientInv, ClientTypeOK, browser
  <1>7. UNCHANGED <<stored, fate>>
    BY <1>1 DEF browser
  <1> QED BY <1>3, <1>4, <1>5, <1>6, <1>7, StoredRests DEF ClientInv, Later

\* The stored command is the one whose fate is open.
LEMMA StoredIsOpen ==
  ASSUME ClientInv, NEW request \in Requests, stored.request = request
  PROVE  /\ stored # NoPending
         /\ Sent(request) /\ fate[request.id].outcome = "open"
         /\ \A id \in OwnIds \ {request.id} : fate[id].outcome # "open"
  <1>1. stored # NoPending
    BY NoRequestIsNone DEF NoPending
  <1>2. Sent(request) /\ fate[request.id].outcome = "open"
    BY <1>1 DEF ClientInv, StoredOK
  <1>3. \A id \in OwnIds : fate[id].outcome = "open" => fate[id].request = request /\ fate[id].request.id = id
    BY DEF ClientInv, FateOK
  <1> QED BY <1>1, <1>2, <1>3

\* The browser learns what became of the stored command, and lets it go.
LEMMA LetsGo ==
  ASSUME ClientInv, UNCHANGED <<vars, sessions, cookie, late>>, NEW t \in Tabs,
         NEW request \in Requests, stored.request = request, stored' = NoPending,
         NEW outcome \in {"confirmed", "refused", "notFound"},
         fate' = [fate EXCEPT ![request.id].outcome = outcome],
         outcome = "confirmed" => Known(request),
         outcome = "refused" => RefusedForGood(request),
         NEW view \in Views, Becomes(t, view), view.token = 0,
         view.pc = "idle", view.next = "show", view.seen = 0, view.revision <= revision
  PROVE  ClientInv'
  <1>1. /\ Sent(request) /\ fate[request.id].outcome = "open" /\ request.id \in OwnIds
        /\ \A id \in OwnIds \ {request.id} : fate[id].outcome # "open"
    BY StoredIsOpen DEF Sent
  <1>2. fate \in [OwnIds -> [request : Requests \cup {NoRequest},
                             outcome : {"unused", "open", "confirmed", "refused", "notFound"}]]
    BY DEF ClientInv, ClientTypeOK
  <1>3. /\ fate' \in [OwnIds -> [request : Requests \cup {NoRequest},
                                 outcome : {"unused", "open", "confirmed", "refused", "notFound"}]]
        /\ fate'[request.id].request = fate[request.id].request
        /\ fate'[request.id].outcome = outcome
        /\ \A id \in OwnIds \ {request.id} : fate'[id] = fate[id]
    BY <1>1, <1>2
  <1>4. Later
    BY <1>1, <1>3, LedgerRests
  <1>5. \A id \in OwnIds : FateOK(id)'
    <2>1. \A id \in OwnIds \ {request.id} : FateOK(id)'
      BY <1>1, <1>3, <1>4, FateKeeps
    <2>2. FateOK(request.id)'
      <3>1. fate[request.id].request = request /\ Sent(request)'
        BY <1>1, <1>4 DEF Sent, Later
      <3>2. (outcome = "confirmed" => Known(request)') /\ (outcome = "refused" => RefusedForGood(request)')
        BY <1>1, <1>4 DEF Later, Known, vars, history
      <3> QED BY <1>3, <3>1, <3>2 DEF FateOK, Known
    <2> QED BY <2>1, <2>2
  <1>6. StoredTypeOK' /\ StoredOK'
    BY <1>3 DEF StoredTypeOK, StoredOK, NoPending
  <1>7. TabOK(t)'
    <2>1. tab'[t] = view /\ revision' = revision /\ 0 <= revision
      BY ViewChanges, TabFacts DEF ClientInv, vars, history
    <2> QED BY <2>1 DEF TabOK
  <1>8. /\ sessions' \in Seq(Owners) /\ Len(sessions) \in Nat /\ Len(sessions') \in Nat
        /\ Len(sessions) <= Len(sessions') /\ view.token <= Len(sessions')
        /\ cookie' \in 0..Len(sessions')
    BY TabFacts
  <1>9. late' \subseteq late \cup Unanswered(t)
    OBVIOUS
  <1> QED BY <1>4, <1>5, <1>6, <1>7, <1>8, <1>9, TabSteps

LEMMA DismissRejectedInv ==
  ASSUME ClientInv, NEW t \in Tabs, DismissRejected(t)
  PROVE  ClientInv'
  <1>1. stored # NoPending
    BY DEF DismissRejected, NoPending
  <1>2. /\ stored.request \in Requests
        /\ stored.rejection \in {"refused", "notFound"}
        /\ stored.rejection = "refused" => RefusedForGood(stored.request)
    BY <1>1 DEF ClientInv, ClientTypeOK, StoredOK, Sent, DismissRejected
  <1>3. /\ Failed(t) \in Views /\ Failed(t).token = 0 /\ Failed(t).pc = "idle"
        /\ Failed(t).next = "show" /\ Failed(t).seen = 0 /\ Failed(t).revision = 0
        /\ 0 <= revision
    <2>1. /\ Failed(t).pc = "idle" /\ Failed(t).next = "show"
          /\ Failed(t).seen = 0 /\ Failed(t).revision = 0
      BY DEF Failed, Loaded
    <2> QED BY <2>1, TabFacts
  <1>4. /\ UNCHANGED <<vars, sessions, cookie, late>> /\ stored' = NoPending
        /\ fate' = [fate EXCEPT ![stored.request.id].outcome = stored.rejection]
        /\ Becomes(t, Failed(t))
    BY DEF DismissRejected
  <1> QED BY <1>2, <1>3, <1>4, LetsGo

\* The view after a load shows no more than was read.
LEMMA ViewIsRead ==
  ASSUME ClientInv, NEW t \in Tabs
  PROVE  /\ View(t) \in Views /\ View(t).token = 0 /\ View(t).user = tab[t].as
         /\ View(t).pc = "idle" /\ View(t).next = "show" /\ View(t).seen = 0
         /\ View(t).revision <= revision
         /\ tab[t].as = Alice => View(t).revision = tab[t].seen
  <1>1. /\ tab[t].as \in Owners /\ tab[t].seen \in Nat /\ tab[t].seen <= revision
        /\ revision \in Nat
    BY TabFacts DEF Views, TabOK
  <1>2. \A flag \in BOOLEAN, r \in Nat, owner \in Owners :
           /\ [Loaded EXCEPT !.user = owner, !.revision = r, !.needsRefresh = FALSE,
                             !.rejectionRefreshed = flag] \in Views
    BY DEF Views, Loaded, Owners, Nobody
  <1>3. PICK flag \in BOOLEAN : flag = (stored.rejection # "none" /\ tab[t].as = Alice)
    OBVIOUS
  <1>4. PICK r \in Nat : /\ r = IF tab[t].as = Alice THEN tab[t].seen ELSE 0
                         /\ r <= revision
    BY <1>1
  <1>5. View(t) = [Loaded EXCEPT !.user = tab[t].as, !.revision = r, !.needsRefresh = FALSE,
                                 !.rejectionRefreshed = flag]
    BY <1>3, <1>4 DEF View
  <1>6. View(t) \in Views
    <2>1. [Loaded EXCEPT !.user = tab[t].as, !.revision = r, !.needsRefresh = FALSE,
                         !.rejectionRefreshed = flag] \in Views
      BY <1>1, <1>2
    <2> QED BY <1>5, <2>1
  <1>7. /\ View(t).token = 0 /\ View(t).user = tab[t].as
        /\ View(t).pc = "idle" /\ View(t).next = "show" /\ View(t).seen = 0
        /\ View(t).revision = r
    BY <1>5 DEF Loaded
  <1> QED BY <1>4, <1>6, <1>7

LEMMA PostingTab ==
  ASSUME ClientInv, Later, NEW t \in Tabs, NEW request \in Requests, Posting(t, request),
         Sent(request)'
  PROVE  \E view \in Views : Becomes(t, view) /\ view.token = cookie /\ TabOK(t)'
  <1> DEFINE view == [Failed(t) EXCEPT !.pc = "post", !.request = request, !.token = cookie]
  <1>1. /\ view \in Views /\ view.token = cookie
        /\ view.pc = "post" /\ view.next = "show" /\ view.request = request
        /\ view.seen = 0 /\ view.revision = 0
    <2>1. cookie \in Nat
      BY TabFacts
    <2>2. tab[t].user \in Owners
      BY TabFacts DEF Views
    <2> QED BY <2>1, <2>2 DEF Views, Failed, Loaded, Owners, Nobody
  <1>2. Becomes(t, view)
    BY DEF Posting
  <1> HIDE DEF view
  <1>3. tab'[t] = view
    BY <1>1, <1>2, ViewChanges DEF ClientInv
  <1>4. revision' \in Nat /\ 0 <= revision'
    BY DEF Later
  <1>5. TabOK(t)'
    BY <1>1, <1>3, <1>4 DEF TabOK
  <1> QED BY <1>1, <1>2, <1>5

LEMMA ConfirmInv ==
  ASSUME ClientInv, UNCHANGED <<vars, sessions, cookie, late>>, NEW t \in Tabs,
         NEW request \in Requests, request = tab[t].request, Known(request), Confirm(t)
  PROVE  ClientInv'
  <1>1. CASE StillPending(request)
    <2>1. /\ stored.request = request
          /\ stored' = NoPending
          /\ fate' = [fate EXCEPT ![request.id].outcome = "confirmed"]
          /\ Becomes(t, View(t))
      BY <1>1 DEF Confirm, StillPending
    <2> QED BY <2>1, ViewIsRead, LetsGo
  <1>2. CASE ~StillPending(request)
    BY <1>2, FallsBack DEF Confirm
  <1> QED BY <1>1, <1>2

LEMMA TakeSnapshotInv ==
  ASSUME ClientInv, NEW t \in Tabs, TakeSnapshot(t)
  PROVE  ClientInv'
  <1>1. UNCHANGED <<vars, sessions, cookie, late>> /\ tab[t].pc = "read"
    BY DEF TakeSnapshot
  <1>2. TabOK(t) /\ (tab[t].next \in {"confirm", "retry"} =>
                        Sent(tab[t].request) /\ tab[t].request \in Requests)
    BY TabFacts DEF TabOK, Sent
  <1>3. CASE Becomes(t, View(t)) /\ UNCHANGED <<stored, fate>>
    <2>1. Later
      BY <1>1, <1>3, LedgerRests
    <2>2. TabOK(t)'
      <3>1. tab'[t] = View(t) /\ revision' = revision /\ 0 <= revision
        BY <1>1, <1>3, ViewIsRead, ViewChanges, TabFacts DEF ClientInv, vars, history
      <3> QED BY <3>1, ViewIsRead DEF TabOK
    <2>3. View(t).token <= Len(sessions)
      BY ViewIsRead, TabFacts
    <2> QED BY <1>1, <1>3, <2>2, <2>3, ViewIsRead, ViewSteps
  <1>4. CASE tab[t].next = "confirm" /\ Confirm(t)
    BY <1>1, <1>2, <1>4, ConfirmInv DEF TabOK
  <1>5. CASE tab[t].next = "retry" /\ AuditShows(tab[t].request.id, tab[t].seen) /\ Confirm(t)
    BY <1>1, <1>2, <1>5, ConfirmInv DEF AuditShows, Known
  <1>6. CASE /\ tab[t].next = "retry" /\ Posting(t, tab[t].request)
             /\ UNCHANGED <<stored, fate>>
    <2>1. Later
      BY <1>1, <1>6, LedgerRests
    <2>2. PICK request \in Requests : request = tab[t].request /\ Sent(request)
      BY <1>2, <1>6
    <2>3. Sent(request)'
      BY <2>1, <2>2 DEF Later
    <2>4. PICK view \in Views : Becomes(t, view) /\ view.token = cookie /\ TabOK(t)'
      BY <1>6, <2>1, <2>2, <2>3, PostingTab
    <2>5. view.token <= Len(sessions)
      BY <2>4, TabFacts
    <2> QED BY <1>1, <1>6, <2>4, <2>5, ViewSteps
  <1> QED BY <1>3, <1>4, <1>5, <1>6 DEF TakeSnapshot

LEMMA SendNewInv ==
  ASSUME ClientInv, NEW t \in Tabs, SendNew(t)
  PROVE  ClientInv'
  <1>1. UNCHANGED <<vars, sessions, cookie, late>> /\ stored = NoPending
    BY DEF SendNew, Prepared
  <1>2. PICK request \in Requests :
           /\ request.id \in OwnIds /\ request.expectedRevision <= revision
           /\ fate[request.id].outcome = "unused"
           /\ stored' = [request |-> request, rejection |-> "none"]
           /\ fate' = [fate EXCEPT ![request.id] = [request |-> request, outcome |-> "open"]]
           /\ Posting(t, request)
    <2>1. tab[t].revision \in 0..HistoryLimit /\ tab[t].revision <= revision
      <3>1. revision \in 0..HistoryLimit
        BY DEF ClientInv, HistoryInv
      <3>2. tab[t].revision \in Nat /\ tab[t].revision <= revision
        BY TabFacts DEF TabOK
      <3> QED BY <3>1, <3>2, CommandsAreWellFormed
    <2>2. OwnIds \subseteq CommandIds
      BY ClientConstants
    <2> QED BY <2>1, <2>2 DEF SendNew, Requests
  <1>3. /\ fate' \in [OwnIds -> [request : Requests \cup {NoRequest},
                                 outcome : {"unused", "open", "confirmed", "refused", "notFound"}]]
        /\ fate'[request.id] = [request |-> request, outcome |-> "open"]
        /\ \A id \in OwnIds \ {request.id} : fate'[id] = fate[id]
    BY <1>2 DEF ClientInv, ClientTypeOK
  <1>4. Later
    <2>1. \A id \in OwnIds : fate[id].outcome # "unused" =>
             fate'[id].request = fate[id].request /\ fate'[id].outcome # "unused"
      BY <1>2, <1>3
    <2> QED BY <1>1, <2>1, LedgerRests
  <1>5. \A id \in OwnIds : fate[id].outcome # "open"
    BY <1>1, NoRequestIsNone DEF ClientInv, FateOK, Sent, NoPending
  <1>6. Sent(request)'
    <2>1. revision' = revision
      BY <1>1 DEF vars, history
    <2> QED BY <1>2, <1>3, <2>1 DEF Sent
  <1>7. \A id \in OwnIds : FateOK(id)'
    <2>1. \A id \in OwnIds \ {request.id} : FateOK(id)'
      BY <1>3, <1>4, <1>5, FateKeeps
    <2>2. FateOK(request.id)'
      BY <1>2, <1>3, <1>6 DEF FateOK
    <2> QED BY <2>1, <2>2
  <1>8. StoredTypeOK' /\ StoredOK'
    BY <1>2, <1>3, <1>6 DEF StoredTypeOK, StoredOK
  <1>9. PICK view \in Views : Becomes(t, view) /\ view.token = cookie /\ TabOK(t)'
    BY <1>2, <1>4, <1>6, PostingTab
  <1>10. /\ sessions' \in Seq(Owners) /\ Len(sessions) \in Nat /\ Len(sessions') \in Nat
         /\ Len(sessions) <= Len(sessions') /\ view.token <= Len(sessions')
         /\ cookie' \in 0..Len(sessions')
    BY <1>1, <1>9, TabFacts
  <1>11. late' \subseteq late \cup Unanswered(t)
    BY <1>1
  <1> QED BY <1>4, <1>7, <1>8, <1>9, <1>10, <1>11, TabSteps

LEMMA TakeAnswerInv ==
  ASSUME ClientInv, NEW t \in Tabs, TakeAnswer(t)
  PROVE  ClientInv'
  <1>1. UNCHANGED <<vars, sessions, cookie, late, fate>> /\ tab[t].pc = "answered"
    BY DEF TakeAnswer
  <1>2. PICK request \in Requests : request = tab[t].request /\ Sent(request)
    BY <1>1, TabFacts DEF TabOK, Sent
  <1>3. /\ tab[t].answer = "done" => Known(request)
        /\ tab[t].answer = "refused" => RefusedForGood(request)
    BY <1>1, <1>2, TabFacts DEF TabOK
  <1>4. CASE tab[t].answer = "done" /\ Load(t, Alice, "confirm", request) /\ UNCHANGED stored
    BY <1>1, <1>2, <1>3, <1>4, LoadBegins DEF Owners
  <1>5. CASE UNCHANGED stored /\ (Becomes(t, Failed(t)) \/ Becomes(t, Cleared(t)))
    BY <1>1, <1>5, FallsBack
  <1>6. CASE /\ tab[t].answer \in Rejections
             /\ StillPending(request) /\ stored' = [stored EXCEPT !.rejection = tab[t].answer]
             /\ Becomes(t, Failed(t))
    <2>1. Later
      BY <1>1, LedgerRests
    <2>2. /\ stored.request = request /\ stored'.request = request
          /\ stored'.rejection = tab[t].answer
          /\ stored' \in [request : Requests \cup {NoRequest},
                          rejection : {"none", "refused", "notFound"}]
      BY <1>6 DEF StillPending, Rejections
    <2>3. Sent(request)' /\ (tab[t].answer = "refused" => RefusedForGood(request)')
      BY <1>2, <1>3, <2>1 DEF Later
    <2>4. fate[request.id].outcome = "open"
      BY <2>2, StoredIsOpen
    <2>5. StoredTypeOK' /\ StoredOK'
      BY <1>1, <2>2, <2>3, <2>4 DEF StoredTypeOK, StoredOK, ClientInv, ClientTypeOK
    <2>6. \A id \in OwnIds : FateOK(id)'
      BY <1>1, <2>1, <2>2, FateKeeps
    <2>7. /\ Failed(t).pc = "idle" /\ Failed(t).next = "show"
          /\ Failed(t).seen = 0 /\ Failed(t).revision = 0
      BY DEF Failed, Loaded
    <2>8. TabOK(t)'
      BY <1>6, <2>1, <2>7, TabFacts, RestingTab
    <2>9. /\ sessions' \in Seq(Owners) /\ Len(sessions) \in Nat /\ Len(sessions') \in Nat
          /\ Len(sessions) <= Len(sessions') /\ Failed(t).token <= Len(sessions')
          /\ cookie' \in 0..Len(sessions') /\ Failed(t) \in Views
      BY <1>1, TabFacts
    <2>10. late' \subseteq late \cup Unanswered(t)
      BY <1>1
    <2> QED BY <1>6, <2>1, <2>5, <2>6, <2>8, <2>9, <2>10, TabSteps
  <1> QED BY <1>2, <1>4, <1>5, <1>6 DEF TakeAnswer

-----------------------------------------------------------------------------
(* The theorems *)

LEMMA InitClient == ClientInit => ClientInv
  <1> SUFFICES ASSUME ClientInit PROVE ClientInv
    OBVIOUS
  <1>1. HistoryInv /\ revision = 0 /\ receipts = [id \in {} |-> 0]
    BY InitHistory DEF ClientInit, Init
  <1>2. sessions \in Seq(Owners) /\ Len(sessions) = 1 /\ cookie \in 0..Len(sessions)
    BY DEF ClientInit, Owners
  <1>3. /\ Loaded \in Views /\ Loaded.token = 0 /\ Loaded.pc = "idle" /\ Loaded.next = "show"
        /\ Loaded.seen = 0 /\ Loaded.revision = 0
    BY DEF Views, Loaded, Owners, Nobody
  <1>4. /\ tab \in [Tabs -> Views]
        /\ \A t \in Tabs : tab[t] = Loaded
    BY <1>3 DEF ClientInit
  <1>5. ClientTypeOK
    BY <1>2, <1>3, <1>4 DEF ClientInit, ClientTypeOK, NoPending
  <1>6. \A t \in Tabs : TabOK(t)
    BY <1>1, <1>3, <1>4 DEF TabOK
  <1>7. StoredOK /\ (\A copy \in late : Sent(copy.request)) /\ (\A id \in OwnIds : FateOK(id)) /\ ReceiptsOK
    BY <1>1 DEF ClientInit, StoredOK, FateOK, ReceiptsOK
  <1> QED BY <1>1, <1>5, <1>6, <1>7 DEF ClientInv

LEMMA NextClient == ClientInv /\ [ClientNext]_clientVars => ClientInv'
  <1> SUFFICES ASSUME ClientInv, [ClientNext]_clientVars PROVE ClientInv'
    OBVIOUS
  <1>1. ASSUME NEW t \in Tabs,
               \/ Refresh(t) \/ ReadSession(t) \/ ReadSnapshot(t) \/ ReadFails(t) \/ TakeSnapshot(t)
               \/ \E user \in {Alice, "bob"} : SelectIdentity(t, user)
               \/ LoginAnswered(t)
               \/ SendNew(t) \/ Retry(t) \/ ServeCommand(t) \/ TakeAnswer(t) \/ GiveUp(t)
               \/ Reload(t) \/ DismissRejected(t)
        PROVE  ClientInv'
    BY <1>1, RefreshInv, ReadSessionInv, ReadSnapshotInv, ReadFailsInv, TakeSnapshotInv,
       SelectIdentityInv, LoginAnsweredInv, SendNewInv, RetryInv, ServeCommandInv, TakeAnswerInv,
       GiveUpInv, DismissRejectedInv
  <1>2. CASE SessionEnds
    BY <1>2, SessionEndsInv
  <1>3. CASE ArrivesLate \/ OtherClient
    BY <1>3, LedgerSteps
  <1>4. CASE UNCHANGED clientVars
    <2>1. UNCHANGED vars /\ UNCHANGED browser
      BY <1>4 DEF clientVars
    <2>2. Later
      BY <2>1, LedgerRests DEF browser
    <2>3. \A t \in Tabs : TabOK(t)'
      BY <2>1, <2>2, OthersKeep DEF browser
    <2>4. \A copy \in late' : Sent(copy.request)'
      <3>1. \A copy \in late : copy.request \in Requests /\ Sent(copy.request)
        BY DEF ClientInv, Sent
      <3> QED BY <2>1, <2>2, <3>1 DEF Later, browser
    <2>5. ClientTypeOK' /\ UNCHANGED <<stored, fate>>
      BY <2>1 DEF ClientInv, ClientTypeOK, browser
    <2> QED BY <2>2, <2>3, <2>4, <2>5, StoredRests DEF ClientInv, Later
  <1> QED BY <1>1, <1>2, <1>3, <1>4 DEF ClientNext

\* The tabs keep their types: what a tab works on is always a command it, or
\* another tab of the browser, has stored.
THEOREM ClientTypeCorrect == ClientSpec => []ClientTypeOK
  <1>1. ClientInv => ClientTypeOK
    BY DEF ClientInv
  <1> QED BY <1>1, InitClient, NextClient, PTL DEF ClientSpec

\* Whatever the tabs and the other clients do, the ledger only ever sees
\* requests: all that is proved of the ledger holds behind the tabs.
THEOREM TabsUseTheLedger == ClientSpec => Spec
  <1>1. ClientInit => Init
    BY DEF ClientInit
  <1>2. ClientInv /\ [ClientNext]_clientVars => [Next]_vars
    <2> SUFFICES ASSUME ClientInv, ClientNext, ~UNCHANGED vars PROVE Next
      BY DEF clientVars
    <2>1. ASSUME NEW t \in Tabs, ServeCommand(t)
          PROVE  Next
      <3>1. tab[t].request \in Requests /\ Receive(tab[t].request)
        BY <2>1, TabFacts DEF ServeCommand, AnswerAgain, TabOK, Sent
      <3> QED BY <3>1 DEF Next
    <2>2. CASE ArrivesLate \/ OtherClient
      <3>1. \E request \in Requests : Receive(request)
        BY <2>2 DEF ArrivesLate, OtherClient, ClientInv, Sent
      <3> QED BY <3>1 DEF Next
    <2>3. \/ \E t \in Tabs : ServeCommand(t)
          \/ ArrivesLate \/ OtherClient
      BY DEF ClientNext, Refresh, ReadSession, ReadSnapshot, ReadFails, TakeSnapshot, SelectIdentity,
             LoginAnswered, SendNew, Retry, TakeAnswer, GiveUp, Reload, DismissRejected, SessionEnds
    <2> QED BY <2>1, <2>2, <2>3
  <1> QED BY <1>1, <1>2, InitClient, NextClient, PTL DEF ClientSpec, Spec

\* The browser never loses sight of a command: the open one is stored, a
\* confirmed one is in the ledger, a refused one will never be there.
THEOREM NoCommandIsLost == ClientSpec => []FateIsKnown
  <1>1. ClientInv => FateIsKnown
    <2> SUFFICES ASSUME ClientInv, NEW id \in OwnIds
                 PROVE  LET request == fate[id].request
                        IN  /\ fate[id].outcome = "open" => stored.request = request
                            /\ fate[id].outcome = "confirmed" =>
                                 id \in DOMAIN receipts /\ receipts[id].fingerprint = request
                            /\ fate[id].outcome = "refused" => ~Known(request) /\ ~Acceptable(request)
      BY DEF FateIsKnown
    <2>1. FateOK(id) /\ ReceiptsOK
      BY DEF ClientInv
    <2> QED BY <2>1 DEF FateOK, ReceiptsOK, RefusedForGood
  <1> QED BY <1>1, InitClient, NextClient, PTL DEF ClientSpec

\* A tab that tells its user that a command is done shows the vault with it.
THEOREM DoneIsShown == ClientSpec => ConfirmedIsShown
  <1>1. ASSUME ClientInv, [ClientNext]_clientVars, NEW id \in OwnIds,
               fate[id].outcome # "confirmed", fate'[id].outcome = "confirmed"
        PROVE  \E t \in Tabs :
                 /\ tab'[t] # tab[t]
                 /\ tab'[t].user = Alice
                 /\ tab'[t].revision >= receipts[id].revision
    <2>0. fate \in [OwnIds -> [request : Requests \cup {NoRequest},
                               outcome : {"unused", "open", "confirmed", "refused", "notFound"}]]
      BY <1>1 DEF ClientInv, ClientTypeOK
    <2>1. \A t \in Tabs : ~SendNew(t)
      <3> SUFFICES ASSUME NEW t \in Tabs, SendNew(t) PROVE FALSE
        OBVIOUS
      <3>1. PICK own, request :
               /\ own \in OwnIds
               /\ fate' = [fate EXCEPT ![own] = [request |-> request, outcome |-> "open"]]
        BY DEF SendNew
      <3> QED BY <1>1, <2>0, <3>1
    <2>2. \A t \in Tabs : ~DismissRejected(t)
      <3> SUFFICES ASSUME NEW t \in Tabs, DismissRejected(t) PROVE FALSE
        OBVIOUS
      <3>1. /\ fate' = [fate EXCEPT ![stored.request.id].outcome = stored.rejection]
            /\ stored.rejection # "confirmed"
        BY <1>1 DEF DismissRejected, ClientInv, ClientTypeOK
      <3> QED BY <1>1, <2>0, <3>1
    <2>3. PICK t \in Tabs : TakeSnapshot(t)
      BY <1>1, <2>1, <2>2
      DEF ClientNext, clientVars, browser, Refresh, ReadSession, ReadSnapshot, ReadFails, SelectIdentity,
          LoginAnswered, Retry, ServeCommand, TakeAnswer, GiveUp, Reload, SessionEnds,
          ArrivesLate, OtherClient
    <2>4. PICK request : request = tab[t].request
      OBVIOUS
    <2>5. /\ tab[t].pc = "read" /\ tab[t].next \in {"confirm", "retry"}
          /\ tab[t].next = "retry" => AuditShows(request.id, tab[t].seen)
          /\ StillPending(request)
          /\ fate' = [fate EXCEPT ![request.id].outcome = "confirmed"]
          /\ Becomes(t, View(t))
      BY <1>1, <2>3, <2>4 DEF TakeSnapshot, Confirm
    <2>6. tab[t].as = Alice /\ receipts[request.id].revision <= tab[t].seen
      BY <1>1, <2>4, <2>5, TabFacts DEF TabOK, AuditShows
    <2>7. id = request.id
      BY <1>1, <2>0, <2>5
    <2>8. tab'[t] = View(t) /\ View(t).pc = "idle" /\ View(t).user = Alice /\ View(t).revision = tab[t].seen
      BY <1>1, <2>5, <2>6, ViewIsRead, ViewChanges DEF ClientInv
    <2>9. receipts[id].revision \in Nat /\ tab[t].seen \in Nat
      <3>1. id \in DOMAIN receipts
        BY <1>1, <2>4, <2>5, <2>7, TabFacts DEF TabOK, AuditShows, Known
      <3> QED BY <1>1, <3>1, TabFacts, CommandsAreWellFormed DEF ClientInv, HistoryInv
    <2> QED BY <2>5, <2>6, <2>7, <2>8, <2>9
  <1>2. ClientInv /\ [ClientNext]_clientVars
          => [\A id \in OwnIds :
                fate[id].outcome # "confirmed" /\ fate'[id].outcome = "confirmed" =>
                   \E t \in Tabs :
                       /\ tab'[t] # tab[t]
                       /\ tab'[t].user = Alice
                       /\ tab'[t].revision >= receipts[id].revision]_clientVars
    BY <1>1
  <1> QED BY <1>2, InitClient, NextClient, PTL DEF ClientSpec, ConfirmedIsShown
=============================================================================
