----------------------------- MODULE ChainRuntime -----------------------------
(***************************************************************************)
(* The process around one synchronizer: the runtime of one vault and its     *)
(* Pass (apps/server/src/m3-chain-runtime.ts) in the queue and under the      *)
(* timer of m3-runtime-lifecycle.ts, as m3-startup.ts starts and stops it.    *)
(*                                                                         *)
(* The synchronizer of the vault is ChainSync's, step by step.  That of the   *)
(* Pass contract works on rows of its own and follows it in every pass; here  *)
(* its whole pass is one step, with the three ways it can end.  A crash       *)
(* forgets what the process keeps, and the process starts again.             *)
(***************************************************************************)
EXTENDS ChainSync, Sequences

CONSTANTS
    Server,      \* the one synchronizer
    Rank,        \* the order of the operations' ids
    MaxTracked,  \* how many operations one pass tracks
    MaxCalls     \* bound: passes asked for besides the timer's

ASSUME RuntimeConstants ==
    /\ Owners = {Server}
    /\ Rank \in [Ops -> 1..Cardinality(Ops)]
    /\ \A o, q \in Ops : Rank[o] = Rank[q] => o = q
    /\ MaxTracked \in Nat \ {0}
    /\ MaxCalls \in Nat

VARIABLES
    queue,        \* who asked for the passes of the queue; the first one runs or is next
    timer,        \* whether it is set
    closed, calls,
    cursor,       \* the rank of the operation tracked last, 0 without one
    attempt,      \* how the last pass ended
    observed,     \* the head of the last pass
    passCaughtUp  \* whether the Pass contract's rows reached that head

lifecycle == <<queue, timer, closed, calls>>
runtime == <<cursor, attempt, observed, passCaughtUp>>
runtimeVars == <<vars, lifecycle, runtime>>

-----------------------------------------------------------------------------
(* Which operations a pass tracks: trackableOperationIds *)

\* The ids after the cursor come first, then those up to it.
Turn(o) == IF Rank[o] > cursor THEN Rank[o] ELSE Rank[o] + Cardinality(Ops)
Before(o) == {q \in TrackableOps : Turn(q) < Turn(o)}

FirstOfAll == {o \in TrackableOps :
                 Cardinality({q \in TrackableOps : Rank[q] < Rank[o]}) < MaxTracked}
Batch == {o \in TrackableOps : Cardinality(Before(o)) < MaxTracked}
LastOf(batch) ==
    IF batch = {} THEN cursor
    ELSE Rank[CHOOSE o \in batch : \A q \in batch : Turn(q) <= Turn(o)]

-----------------------------------------------------------------------------
(* A pass: syncToHead *)

\* Whoever waited for the pass goes on.  The startup and the timer's own call
\* set the timer again, however the pass ended, unless the server is stopped.
SetsAgainAnyway(asker) == asker # "caller"
SetsAgain(asker) == asker # "caller" /\ ~closed

Ends(outcome) ==
    /\ attempt' = outcome
    /\ queue' = Tail(queue)
    /\ timer' = (timer \/ SetsAgain(Head(queue)))
    /\ UNCHANGED <<closed, calls, cursor, observed, passCaughtUp>>

GoesOn == UNCHANGED <<lifecycle, runtime>>

BeginPass ==
    /\ queue # <<>>
    /\ Begin(Server)
    /\ observed' = remote
    /\ passCaughtUp' = FALSE
    /\ UNCHANGED <<lifecycle, cursor, attempt>>

\* The vault's part.  When its blocks were too many for one pass, the Pass
\* contract is synchronized nevertheless, and may fail.
CutShort == At(Server, "fetch") /\ lease' = NoLease

SyncVault ==
    /\ ~At(Server, "idle")
    /\ SyncStep(Server)
    /\ \/ ~At(Server, "idle")' /\ GoesOn
       \/ At(Server, "idle")' /\ CutShort /\ \E outcome \in {"SUCCEEDED", "FAILED"} : Ends(outcome)
       \/ At(Server, "idle")' /\ ~CutShort /\ Ends("FAILED")

\* The Pass contract's part.  Only when both have reached the head the pass
\* goes on to the operations.
SyncPass ==
    /\ SelectBatch(Server, Batch)
    /\ passCaughtUp' = TRUE
    /\ cursor' = LastOf(Batch)
    /\ UNCHANGED <<lifecycle, attempt, observed>>

PassLags ==
    /\ At(Server, "batch")
    /\ Stop(Server) /\ UNCHANGED storeVars /\ Fault
    /\ Ends("SUCCEEDED")

\* The failure of one operation's tracking is not the pass's.
TrackOperations ==
    /\ TrackBatch(Server)
    /\ \/ ~EndOfPass(Server) /\ GoesOn
       \/ EndOfPass(Server) /\ Ends("SUCCEEDED")

Tracking == proc[Server].pc \in {"track", "receipt", "reconcile"}
PassFails == Abort(Server) /\ ~Tracking /\ Ends("FAILED")

-----------------------------------------------------------------------------
(* The process *)

\* A process starts with a pass of its own, and sets the timer after it.
StartedWith(asked, set, last, outcome, head, reached) ==
    /\ asked = <<"startup">> /\ set = FALSE /\ last = 0
    /\ outcome = "NOT_RUN" /\ head = NoBlock /\ reached = FALSE

Crash ==
    /\ ~closed
    /\ Fault
    /\ Stop(Server) /\ UNCHANGED storeVars
    /\ StartedWith(queue', timer', cursor', attempt', observed', passCaughtUp')
    /\ UNCHANGED <<closed, calls>>

TimerFires ==
    /\ timer
    /\ timer' = FALSE
    /\ queue' = IF closed THEN queue ELSE Append(queue, "timer")
    /\ UNCHANGED <<vars, closed, calls, runtime>>

\* syncNow, by somebody other than the timer
SyncNow ==
    /\ ~closed
    /\ calls < MaxCalls
    /\ calls' = calls + 1
    /\ queue' = Append(queue, "caller")
    /\ UNCHANGED <<vars, timer, closed, runtime>>

\* stop: the timer is cleared, and whoever stops waits for the queue.
StopServer ==
    /\ ~closed
    /\ closed' = TRUE
    /\ timer' = FALSE
    /\ UNCHANGED <<vars, queue, calls, runtime>>

-----------------------------------------------------------------------------
(* The specification *)

RuntimeInit ==
    /\ Init
    /\ StartedWith(queue, timer, cursor, attempt, observed, passCaughtUp)
    /\ closed = FALSE
    /\ calls = 0

PassStep == BeginPass \/ SyncVault \/ SyncPass \/ TrackOperations

RuntimeNext ==
    \/ PassStep \/ PassLags \/ PassFails \/ Crash \/ TimerFires \/ SyncNow \/ StopServer
    \/ (Advance \/ Jump \/ \E o \in Ops : Submit(o) \/ Decide(o)) /\ GoesOn

\* RPC calls are answered or time out, timers fire, and the chain goes on
\* growing.  Nobody has to stop the server or to ask for a pass.
RuntimeSpec ==
    /\ RuntimeInit /\ [][RuntimeNext]_runtimeVars
    /\ WF_runtimeVars(Advance /\ GoesOn)
    /\ WF_runtimeVars(PassStep)
    /\ WF_runtimeVars(TimerFires)

-----------------------------------------------------------------------------
(* Properties *)

\* caughtUp, by which the server reports that it is ready
CaughtUpByRows == At(Server, "idle") /\ observed # NoBlock /\ checkpoint = observed /\ projected = observed
CaughtUp ==
    /\ ~closed
    /\ At(Server, "idle")
    /\ attempt = "SUCCEEDED"
    /\ observed # NoBlock
    /\ checkpoint = observed /\ projected = observed
    /\ passCaughtUp

\* While the server reports that it is caught up its projection can be read,
\* whatever pass failed, was cut short or died before.
CaughtUpIsReadable == CaughtUp => Readable

\* Once stop has waited for the queue, no pass runs or will run, and no timer
\* is set that would keep the process or touch a closed store.
StopIsFinal == closed /\ queue = <<>> => At(Server, "idle") /\ ~timer

\* What the server repairs by itself.  The rest needs somebody to repair the
\* database (docs/M3-CHAIN-ADAPTER.md:104, 106): a chain that leaves the indexed
\* one further back than the search goes, or has no block in common with it,
\* and an event that comes back with another payload; and a chain lower than
\* what a pass already asked for is refused until it has grown.
WithinSearch ==
    checkpoint # NoBlock =>
        \E b \in Canonical \cap ChainTo[remote] : Height[checkpoint] - Height[b] <= ReorgSearchLimit
PayloadsAgree ==
    \A b \in ChainTo[remote] : \A log \in Logs[b], row \in events :
        SameEvent(row, log) => row.log.payload = log.payload
Repairable == WithinSearch /\ PayloadsAgree /\ RequiredTarget <= Height[remote]

\* Once the chain stops changing forks, on one the server can repair its rows
\* for, it catches up with the head again and again, whatever pass failed,
\* died or was cut short before, and until it is stopped.
CatchesUp == <>[]Repairable => []<>(closed \/ (CaughtUp /\ observed = remote))

\* An operation its sender reported, of a transaction that such a chain
\* includes deep enough, is in the end confirmed, however many others are
\* tracked with it.
DeepEnough(o) ==
    \E b \in ReceiptBlock(OpTx[o]) : Height[remote] - Height[b] + 1 >= SoftReadyDepth
Settled(o) == ops[o].state \in {"CONFIRMED", "REPLACED", "DROPPED"}
OperationsSettle ==
    \A o \in {q \in Ops : OpClaim[q] = "genuine"} :
        <>[](Repairable /\ DeepEnough(o)) => (ops[o].state = "SUBMITTED" ~> (closed \/ Settled(o)))
=============================================================================
