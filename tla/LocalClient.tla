---------------------------- MODULE LocalClient ----------------------------
(***************************************************************************)
(* The tabs of one browser before the local ledger (apps/web/src:            *)
(* product-client.ts over product-adapter.ts and api.ts; the routes of       *)
(* apps/server/src/app.ts).  The tabs share the session cookie and the one    *)
(* stored command; each keeps its own view.  A command is stored before it    *)
(* is sent, and stays stored until the tab that works on it has seen what     *)
(* became of it; any answer may be lost, and what was given up may arrive.    *)
(*                                                                         *)
(* A step is the code between two awaits.  Every answer but a command's is    *)
(* taken as soon as the server gives it, or is lost.  The ledger is that of   *)
(* one vault of alice; bob is the other identity a tab may select.  Claiming  *)
(* a vault and choosing among several are left out.                          *)
(***************************************************************************)
EXTENDS LocalLedger

CONSTANTS
    Tabs,
    OwnIds,       \* the ids the commands of these tabs draw, each once
    MaxSessions   \* bound: sessions ever created

Alice == "alice"
Nobody == "nobody"
NoRequest == [id |-> "none"]
NoPending == [request |-> NoRequest, rejection |-> "none"]

ASSUME ClientConstants ==
    /\ OwnIds \subseteq CommandIds
    /\ MaxSessions \in Nat \ {0}

VARIABLES
    sessions, \* the server's: whose session each token was given, Nobody once it is over
    cookie,   \* the token in the browser's cookie
    stored,   \* the stored command, and the rejection recorded with it
    tab,
    late,     \* commands given up on, with their token, that may still arrive
    fate      \* history: of every command of this browser its request and what became of it

browser == <<sessions, cookie, stored, tab, late, fate>>
clientVars == <<vars, browser>>

\* pc names the answer a tab awaits; as is the owner it loads for, Nobody
\* until the session says so, and next what it does after the load; seen is
\* the revision of the answer in its hands.
Loaded == [pc |-> "idle", user |-> Nobody, revision |-> 0, needsRefresh |-> TRUE,
           rejectionRefreshed |-> FALSE, as |-> Nobody, next |-> "show", request |-> NoRequest,
           token |-> 0, seen |-> 0, answer |-> "none"]

-----------------------------------------------------------------------------
(* Control of one tab *)

Reading(t) == tab[t].pc \in {"session", "snapshot", "read"}

\* busy refuses everything else; a mere refresh is superseded by what comes.
Free(t) == tab[t].pc = "idle" \/ (Reading(t) /\ tab[t].next = "show")

\* The tab awaits nothing any more and must load again before anything is
\* reviewed or dismissed.  (What it shows until then is of no consequence.)
Failed(t) == [Loaded EXCEPT !.user = tab[t].user]
Cleared(t) == Loaded
Becomes(t, view) == tab' = [tab EXCEPT ![t] = view]

\* A load begins: for whoever the session belongs to, or for the one owner
\* the tab works for.
Load(t, owner, next, request) ==
    Becomes(t, [Failed(t) EXCEPT !.pc = "session", !.as = owner, !.next = next,
                                 !.request = request])

SessionOf(token) == IF token = 0 THEN Nobody ELSE sessions[token]

Refresh(t) ==
    /\ Free(t)
    /\ Load(t, Nobody, "show", NoRequest)
    /\ UNCHANGED <<vars, sessions, cookie, stored, late, fate>>

-----------------------------------------------------------------------------
(* Sessions *)

\* A copy of a command whose session is over can no longer do anything.
StillLate(copies) == {copy \in copies : sessions'[copy.token] # Nobody}

\* The server ends the session of the cookie that came with the request and
\* begins another.  The request may as well be lost.
SelectIdentity(t, user) ==
    /\ Free(t)
    /\ \/ /\ Len(sessions) < MaxSessions
          /\ sessions' = Append([k \in DOMAIN sessions |->
                                   IF k = cookie THEN Nobody ELSE sessions[k]], user)
          /\ Becomes(t, [Cleared(t) EXCEPT !.pc = "login", !.as = user,
                                           !.token = Len(sessions) + 1])
       \/ Becomes(t, Cleared(t)) /\ UNCHANGED sessions
    /\ late' = StillLate(late)
    /\ UNCHANGED <<vars, cookie, stored, fate>>

LoginAnswered(t) ==
    /\ tab[t].pc = "login"
    /\ \/ cookie' = tab[t].token /\ Load(t, tab[t].as, "showLogin", NoRequest)
       \/ Becomes(t, Failed(t)) /\ UNCHANGED cookie
    /\ UNCHANGED <<vars, sessions, stored, late, fate>>

\* A session expires, or the server restarts.
SessionEnds ==
    /\ \E k \in DOMAIN sessions : sessions' = [sessions EXCEPT ![k] = Nobody]
    /\ late' = StillLate(late)
    /\ UNCHANGED <<vars, cookie, stored, tab, fate>>

-----------------------------------------------------------------------------
(* load *)

ReadSession(t) ==
    LET owner == SessionOf(cookie)
    IN  /\ tab[t].pc = "session"
        /\ \/ owner = Nobody /\ Becomes(t, Cleared(t))
           \/ /\ owner # Nobody
              /\ tab[t].as \in {Nobody, owner}
              /\ Becomes(t, [tab[t] EXCEPT !.pc = "snapshot", !.as = owner,
                        !.user = IF @ = owner THEN owner ELSE Nobody])
           \/ /\ owner # Nobody
              /\ tab[t].as \notin {Nobody, owner}
              /\ Becomes(t, Cleared(t))
        /\ UNCHANGED <<vars, sessions, cookie, stored, late, fate>>

\* One read transaction of the server answers with the vaults and the whole
\* audit; an answer for another owner is refused.
ReadSnapshot(t) ==
    /\ tab[t].pc = "snapshot"
    /\ \/ /\ SessionOf(cookie) = tab[t].as
          /\ Becomes(t, [tab[t] EXCEPT !.pc = "read", !.seen = revision])
       \/ SessionOf(cookie) = Nobody /\ Becomes(t, Cleared(t))
       \/ SessionOf(cookie) \notin {Nobody, tab[t].as} /\ Becomes(t, Failed(t))
    /\ UNCHANGED <<vars, sessions, cookie, stored, late, fate>>

ReadFails(t) ==
    /\ Reading(t)
    /\ Becomes(t, Failed(t))
    /\ UNCHANGED <<vars, sessions, cookie, stored, late, fate>>

\* The tab's view after the load.
ViewOfBefore(t) == [tab[t] EXCEPT !.pc = "idle", !.user = tab[t].as, !.needsRefresh = FALSE]
View(t) ==
    [Loaded EXCEPT !.user = tab[t].as,
                   !.revision = IF tab[t].as = Alice THEN tab[t].seen ELSE 0,
                   !.needsRefresh = FALSE,
                   !.rejectionRefreshed = stored.rejection # "none" /\ tab[t].as = Alice]

\* Only the command the tab worked on is taken out of storage.
AnyPending(request) == stored # NoPending
StillPending(request) == stored = [request |-> request, rejection |-> "none"]

Confirm(t) ==
    LET request == tab[t].request
    IN  \/ /\ StillPending(request)
           /\ stored' = NoPending
           /\ fate' = [fate EXCEPT ![request.id].outcome = "confirmed"]
           /\ Becomes(t, View(t))
        \/ /\ ~StillPending(request)
           /\ Becomes(t, Failed(t))
           /\ UNCHANGED <<stored, fate>>

AuditShows(id, seen) == id \in DOMAIN receipts /\ receipts[id].revision <= seen

Posting(t, request) ==
    Becomes(t, [Failed(t) EXCEPT !.pc = "post", !.request = request, !.token = cookie])

TakeSnapshot(t) ==
    /\ tab[t].pc = "read"
    /\ \/ /\ tab[t].next \in {"show", "showLogin"}
          /\ Becomes(t, View(t))
          /\ UNCHANGED <<stored, fate>>
       \/ tab[t].next = "confirm" /\ Confirm(t)
       \/ tab[t].next = "retry" /\ AuditShows(tab[t].request.id, tab[t].seen) /\ Confirm(t)
       \/ /\ tab[t].next = "retry"
          /\ ~AuditShows(tab[t].request.id, tab[t].seen)
          /\ Posting(t, tab[t].request)
          /\ UNCHANGED <<stored, fate>>
    /\ UNCHANGED <<vars, sessions, cookie, late>>

-----------------------------------------------------------------------------
(* Commands *)

\* A review is of the last view loaded, and nothing may be stored: checking,
\* storing and sending is one step.
Prepared(t) ==
    /\ tab[t].pc = "idle"
    /\ tab[t].user = Alice
    /\ ~tab[t].needsRefresh
    /\ stored = NoPending

SendNew(t) ==
    /\ Prepared(t)
    /\ \E id \in OwnIds, c \in Commands :
         LET request == [id |-> id, expectedRevision |-> tab[t].revision, command |-> c]
         IN  /\ fate[id].outcome = "unused"
             /\ stored' = [request |-> request, rejection |-> "none"]
             /\ fate' = [fate EXCEPT ![id] = [request |-> request, outcome |-> "open"]]
             /\ Posting(t, request)
    /\ UNCHANGED <<vars, sessions, cookie, late>>

Retry(t) ==
    /\ Free(t)
    /\ stored # NoPending
    /\ stored.rejection = "none"
    /\ tab[t].user = Alice
    /\ Load(t, Alice, "retry", stored.request)
    /\ UNCHANGED <<vars, sessions, cookie, stored, late, fate>>

\* The server answers a command.  Every refusal by the ledger is a 409; the
\* vault of another identity is not found.
Answered(t, answer) == Becomes(t, [tab[t] EXCEPT !.pc = "answered", !.answer = answer])

ServeCommand(t) ==
    LET request == tab[t].request
        owner == SessionOf(tab[t].token)
    IN  /\ tab[t].pc = "post"
        /\ \/ owner = Nobody /\ Answered(t, "unauthorized") /\ UNCHANGED vars
           \/ owner \notin {Nobody, Alice} /\ Answered(t, "notFound") /\ UNCHANGED vars
           \/ owner = Alice /\ Receive(request) /\ Answered(t, "done")
           \/ owner = Alice /\ AnswerAgain(request.id) /\ Answered(t, "done")
           \/ /\ owner = Alice /\ ~Known(request) /\ ~Acceptable(request)
              /\ Answered(t, "refused") /\ UNCHANGED vars
        /\ UNCHANGED <<sessions, cookie, stored, late, fate>>

\* Only a 4xx other than 401 and 429 is recorded as a rejection.
Rejections == {"refused", "notFound"}

TakeAnswer(t) ==
    LET answer == tab[t].answer
        request == tab[t].request
    IN  /\ tab[t].pc = "answered"
        /\ \/ answer = "done" /\ Load(t, Alice, "confirm", request) /\ UNCHANGED stored
           \/ /\ answer \in Rejections
              /\ \/ StillPending(request) /\ stored' = [stored EXCEPT !.rejection = answer]
                 \/ ~StillPending(request) /\ UNCHANGED stored
              /\ Becomes(t, Failed(t))
           \/ /\ answer \notin Rejections \cup {"done"}
              /\ Becomes(t, Cleared(t)) /\ UNCHANGED stored
        /\ UNCHANGED <<vars, sessions, cookie, late, fate>>

\* The tab waits ten seconds, or is closed or reloaded: the command may still
\* be on its way, or its answer.
Unanswered(t) ==
    IF tab[t].pc = "post" THEN {[request |-> tab[t].request, token |-> tab[t].token]} ELSE {}

GiveUp(t) ==
    /\ tab[t].pc \in {"post", "answered"}
    /\ UNCHANGED <<vars, sessions, cookie, stored, fate>>
    /\ late' = StillLate(late \cup Unanswered(t))
    /\ Becomes(t, Failed(t))

Reload(t) ==
    /\ UNCHANGED <<vars, sessions, cookie, stored, fate>>
    /\ late' = StillLate(late \cup Unanswered(t))
    /\ Becomes(t, Loaded)

ArrivesLate ==
    /\ \E copy \in late : SessionOf(copy.token) = Alice /\ Receive(copy.request)
    /\ UNCHANGED browser

\* The user lets a rejected command go, after a refresh.
DismissRejected(t) ==
    /\ tab[t].pc = "idle"
    /\ stored.rejection # "none"
    /\ tab[t].user = Alice
    /\ tab[t].rejectionRefreshed /\ ~tab[t].needsRefresh
    /\ stored' = NoPending
    /\ fate' = [fate EXCEPT ![stored.request.id].outcome = stored.rejection]
    /\ Becomes(t, Failed(t))
    /\ UNCHANGED <<vars, sessions, cookie, late>>

\* Another device of alice's, and the simulator's other clients.
OtherClient ==
    /\ \E request \in Requests : request.id \notin OwnIds /\ Receive(request)
    /\ UNCHANGED browser

-----------------------------------------------------------------------------

ClientInit ==
    /\ Init
    /\ sessions = <<Alice>>
    /\ cookie = 1
    /\ stored = NoPending
    /\ tab = [t \in Tabs |-> Loaded]
    /\ late = {}
    /\ fate = [id \in OwnIds |-> [request |-> NoRequest, outcome |-> "unused"]]

ClientNext ==
    \/ \E t \in Tabs :
         \/ Refresh(t) \/ ReadSession(t) \/ ReadSnapshot(t) \/ ReadFails(t) \/ TakeSnapshot(t)
         \/ \E user \in {Alice, "bob"} : SelectIdentity(t, user)
         \/ LoginAnswered(t)
         \/ SendNew(t) \/ Retry(t) \/ ServeCommand(t) \/ TakeAnswer(t) \/ GiveUp(t)
         \/ Reload(t) \/ DismissRejected(t)
    \/ SessionEnds \/ ArrivesLate \/ OtherClient

ClientSpec == ClientInit /\ [][ClientNext]_clientVars

-----------------------------------------------------------------------------
(* Properties *)

\* The browser never loses sight of a command: one whose fate is open is the
\* stored one, whichever tabs retried, confirmed or dismissed it; one it
\* confirmed is in the ledger; and one it let go because the ledger refused
\* it is not there and will never be, however late a copy arrives.
FateIsKnown ==
    \A id \in OwnIds :
        LET request == fate[id].request
        IN  /\ fate[id].outcome = "open" => stored.request = request
            /\ fate[id].outcome = "confirmed" =>
                 id \in DOMAIN receipts /\ receipts[id].fingerprint = request
            /\ fate[id].outcome = "refused" => ~Known(request) /\ ~Acceptable(request)

\* A command is confirmed to the user in a tab that shows the vault with it.
ConfirmedIsShown ==
    [][\A id \in OwnIds :
         fate[id].outcome # "confirmed" /\ fate'[id].outcome = "confirmed" =>
            \E t \in Tabs :
                /\ tab'[t] # tab[t]
                /\ tab'[t].user = Alice
                /\ tab'[t].revision >= receipts[id].revision]_clientVars
=============================================================================
