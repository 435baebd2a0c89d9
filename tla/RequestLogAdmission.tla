------------------------ MODULE RequestLogAdmission ------------------------
(***************************************************************************)
(* The admission of request-log records: whether a record was accepted, is *)
(* written, or was turned away.  Raw traces of the same request arrive at  *)
(* another time and ask for it, so that nothing is kept of a request whose *)
(* record was turned away.                                                 *)
(*                                                                         *)
(* Every process that runs the gateway has a runtime of its own.  They     *)
(* share two SQLite files: the request logs and the admissions.  A runtime *)
(* writes its decisions through a bounded list of operations, retried in   *)
(* order after an error; until one is written its decision is read from    *)
(* an overlay in memory.  A lease, renewed by heartbeats, tells whether a  *)
(* runtime is alive; what a runtime without a lease left pending is        *)
(* decided by another one.                                                 *)
(*                                                                         *)
(* A record has at most one decision of each state, so the state stands    *)
(* for the version of an overlay entry.                                    *)
(***************************************************************************)
EXTENDS Integers, Sequences, FiniteSets

CONSTANTS Runtimes,
          Records,
          Owner,       \* the runtime that serves the request of a record
          None,
          MaxOps,      \* admissionMaxPendingOperations
          MaxFaults,   \* bound: SQLite errors
          MaxExpiries, \* bound: entries dropped for their age or the overlay's cap
          MaxStalls    \* bound: running runtimes that miss their heartbeats

ASSUME AdmissionAssumption ==
    /\ Owner \in [Records -> Runtimes]
    /\ None \notin Records \union Runtimes
    /\ MaxOps \in Nat \ {0}
    /\ {MaxFaults, MaxExpiries, MaxStalls} \subseteq Nat

VARIABLES
    status,     \* of each runtime
    connected,  \* this.admissionStore
    ops,        \* this.admissionOperations
    backoff,    \* is admissionRetryTimer armed?
    overlay,    \* this.admissionOverlay of each record's owner
    fate,       \* what the queue of the owner did with the record
    rows,       \* records in request_logs
    admission,  \* request_log_admissions
    waiting,    \* request_log_raw_admission_pending
    lease,      \* request_log_admission_runtimes
    told,       \* history: final answers to raw traces
    evicted,    \* history: records with an operation or overlay entry given up
    lapsed,     \* history: runtimes that lost their lease while running
    faults, expiries, stalls

runtimeVars == <<status, connected, ops, backoff, overlay, evicted>>
queueVars == <<fate, rows>>
sharedVars == <<admission, waiting, lease>>
budget == <<faults, expiries, stalls>>
vars == <<runtimeVars, queueVars, sharedVars, told, lapsed, budget>>

States == {"none", "pending", "committed", "rejected"}
Operation == [record : Records \union {None}, state : States]
Heartbeat == [record |-> None, state |-> "none"]

TypeOK ==
    /\ status \in [Runtimes -> {"new", "running", "closed", "crashed"}]
    /\ connected \in [Runtimes -> BOOLEAN] /\ backoff \in [Runtimes -> BOOLEAN]
    /\ ops \in [Runtimes -> Seq(Operation)] /\ \A g \in Runtimes : Len(ops[g]) <= MaxOps
    /\ overlay \in [Records -> States]
    /\ fate \in [Records -> {"new", "accepted", "acked", "dropped", "refused"}]
    /\ rows \subseteq Records /\ waiting \subseteq Records
    /\ admission \in [Records -> [state : States, by : Runtimes \union {None}]]
    /\ lease \in [Runtimes -> {"none", "valid", "expired"}]
    /\ told \in [Records -> SUBSET {"committed", "rejected"}]
    /\ evicted \subseteq Records /\ lapsed \subseteq Runtimes

Init ==
    /\ status = [g \in Runtimes |-> "new"]
    /\ connected = [g \in Runtimes |-> FALSE]
    /\ ops = [g \in Runtimes |-> <<>>]
    /\ backoff = [g \in Runtimes |-> FALSE]
    /\ overlay = [r \in Records |-> "none"]
    /\ fate = [r \in Records |-> "new"]
    /\ rows = {}
    /\ admission = [r \in Records |-> [state |-> "none", by |-> None]]
    /\ waiting = {}
    /\ lease = [g \in Runtimes |-> "none"]
    /\ told = [r \in Records |-> {}]
    /\ evicted = {} /\ lapsed = {}
    /\ faults = 0 /\ expiries = 0 /\ stalls = 0

-----------------------------------------------------------------------------
(* The list of operations and the overlay.                                 *)

\* An overlay entry goes whatever the version of the settled operation is.
SettledAnyVersion(ov, op) ==
    IF op.record # None THEN [ov EXCEPT ![op.record] = "none"] ELSE ov

\* settleAdmissionOperation: the overlay entry goes if it is the operation's.
Settled(ov, op) ==
    IF op.record # None /\ ov[op.record] = op.state
    THEN [ov EXCEPT ![op.record] = "none"]
    ELSE ov

Concerned(op) == {op.record} \intersect Records

\* A list without a bound.
SubmitUnbounded(g, op, ov) ==
    /\ ops' = [ops EXCEPT ![g] = Append(@, op)]
    /\ overlay' = ov
    /\ UNCHANGED evicted

\* submitAdmissionOperation: beyond the bound the oldest operation is given up.
Submit(g, op, ov) ==
    LET all == Append(ops[g], op)
    IN IF Len(all) <= MaxOps
       THEN ops' = [ops EXCEPT ![g] = all] /\ overlay' = ov /\ UNCHANGED evicted
       ELSE /\ ops' = [ops EXCEPT ![g] = Tail(all)]
            /\ overlay' = Settled(ov, Head(all))
            /\ evicted' = evicted \union Concerned(Head(all))

\* rememberRecordAdmission, and the same for markRecordAdmissionsCommitted.
Decide(r, state) ==
    Submit(Owner[r], [record |-> r, state |-> state], [overlay EXCEPT ![r] = state])

HeartbeatTimer(g) ==
    /\ status[g] = "running" /\ connected[g]
    /\ \A i \in DOMAIN ops[g] : ops[g][i] # Heartbeat
    /\ Submit(g, Heartbeat, overlay)
    /\ UNCHANGED <<status, connected, backoff, queueVars, sharedVars, told, lapsed, budget>>

BackoffEnds(g) ==
    /\ backoff[g]
    /\ backoff' = [backoff EXCEPT ![g] = FALSE]
    /\ UNCHANGED <<status, connected, ops, overlay, evicted, queueVars, sharedVars, told,
                   lapsed, budget>>

-----------------------------------------------------------------------------
(* The admission store.                                                    *)

\* Others' pending admissions are decided without a look at their leases.
InterruptedAnyLease(r, g) == admission[r].state = "pending" /\ admission[r].by # g

\* A pending admission of a runtime that has no lease, or an expired one.
Interrupted(r, g) ==
    /\ admission[r].state = "pending" /\ admission[r].by # g
    /\ lease[admission[r].by] # "valid"

\* The request logs are not consulted.
ReconciledBlindly(g) ==
    [r \in Records |-> IF Interrupted(r, g) THEN [admission[r] EXCEPT !.state = "committed"]
                       ELSE admission[r]]

\* reconcileInterruptedAdmissions
Reconciled(g) ==
    [r \in Records |->
        IF Interrupted(r, g)
        THEN [admission[r] EXCEPT !.state = IF r \in rows THEN "committed" ELSE "rejected"]
        ELSE admission[r]]

\* heartbeat() that renews the lease and leaves others' admissions alone.
BeatOnly(g) ==
    /\ lease' = [lease EXCEPT ![g] = "valid"]
    /\ UNCHANGED <<admission, faults>>

\* heartbeat(): a reconciliation that fails leaves everything pending.
Beat(g) ==
    /\ lease' = [lease EXCEPT ![g] = "valid"]
    /\ \/ admission' = Reconciled(g) /\ UNCHANGED faults
       \/ faults < MaxFaults /\ faults' = faults + 1 /\ UNCHANGED admission

\* ensureAdmissionStore, for a raw trace that asks or for an operation.
Connect(g) ==
    /\ ~connected[g]
    /\ status[g] = "running" \/ (status[g] = "closed" /\ ops[g] # <<>> /\ ~backoff[g])
    /\ connected' = [connected EXCEPT ![g] = TRUE]
    /\ Beat(g)
    /\ UNCHANGED <<status, ops, backoff, overlay, evicted, queueVars, waiting, told, lapsed,
                   expiries, stalls>>

\* The transaction of an operation: remember(), markCommitted() or heartbeat().
Perform(g, op) ==
    \/ op = Heartbeat /\ Beat(g) /\ UNCHANGED waiting
    \/ /\ op.state \in {"pending", "rejected"}
       /\ admission' = [admission EXCEPT ![op.record] = [state |-> op.state, by |-> g]]
       /\ waiting' = waiting \ {op.record}
       /\ UNCHANGED <<lease, faults>>
    \/ /\ op.state = "committed"
       /\ admission' = [admission EXCEPT ![op.record].state =
                           IF admission[op.record] = [state |-> "pending", by |-> g]
                           THEN "committed" ELSE @]
       /\ UNCHANGED <<waiting, lease, faults>>

\* drainAdmissionOperations, one operation at a time: a time slice may end it.
RunOperation(g) ==
    /\ ops[g] # <<>> /\ ~backoff[g] /\ connected[g]
    /\ Perform(g, Head(ops[g]))
    /\ ops' = [ops EXCEPT ![g] = Tail(@)]
    /\ overlay' = Settled(overlay, Head(ops[g]))
    /\ UNCHANGED <<status, connected, backoff, evicted, queueVars, told, lapsed,
                   expiries, stalls>>

\* An operation, or an overlay entry, that is older than ten minutes, or the
\* oldest of too many overlay entries, is given up.
OperationExpires(g) ==
    /\ expiries < MaxExpiries /\ expiries' = expiries + 1
    /\ ops[g] # <<>> /\ ~backoff[g]
    /\ ops' = [ops EXCEPT ![g] = Tail(@)]
    /\ overlay' = Settled(overlay, Head(ops[g]))
    /\ evicted' = evicted \union Concerned(Head(ops[g]))
    /\ UNCHANGED <<status, connected, backoff, queueVars, sharedVars, told, lapsed,
                   faults, stalls>>

OverlayForgets(r) ==
    /\ expiries < MaxExpiries /\ expiries' = expiries + 1
    /\ overlay[r] # "none"
    /\ overlay' = [overlay EXCEPT ![r] = "none"]
    /\ evicted' = evicted \union {r}
    /\ UNCHANGED <<status, connected, ops, backoff, queueVars, sharedVars, told, lapsed,
                   faults, stalls>>

\* handleAdmissionFailure: unless a lock was in the way the store is closed,
\* which deletes the lease (if that works), and opened anew at its next use.
StoreFails(g) ==
    /\ faults < MaxFaults /\ faults' = faults + 1
    /\ \/ UNCHANGED <<connected, lease, lapsed>>
       \/ /\ connected' = [connected EXCEPT ![g] = FALSE]
          /\ \/ UNCHANGED <<lease, lapsed>>
             \/ /\ connected[g]
                /\ lease' = [lease EXCEPT ![g] = "none"]
                /\ lapsed' = lapsed \union {g}

OperationFails(g) ==
    /\ ops[g] # <<>> /\ ~backoff[g]
    /\ StoreFails(g)
    /\ backoff' = [backoff EXCEPT ![g] = TRUE]
    /\ UNCHANGED <<status, ops, overlay, evicted, queueVars, admission, waiting, told,
                   expiries, stalls>>

ReadFails(g) ==
    /\ status[g] = "running"
    /\ StoreFails(g)
    /\ UNCHANGED <<status, ops, backoff, overlay, evicted, queueVars, admission, waiting,
                   told, expiries, stalls>>

-----------------------------------------------------------------------------
(* Records, as the queue of their owner treats them.                       *)

Runs(r) == status[Owner[r]] = "running"

Enqueue(r) ==
    /\ fate[r] = "new" /\ Runs(r)
    /\ fate' = [fate EXCEPT ![r] = "accepted"]
    /\ Decide(r, "pending")
    /\ UNCHANGED <<status, connected, backoff, rows, sharedVars, told, lapsed, budget>>

\* The queue is full or closed, or the request was not sampled.
Refuse(r) ==
    /\ fate[r] = "new" /\ status[Owner[r]] \in {"running", "closed"}
    /\ fate' = [fate EXCEPT ![r] = "refused"]
    /\ Decide(r, "rejected")
    /\ UNCHANGED <<status, connected, backoff, rows, sharedVars, told, lapsed, budget>>

\* The writer thread commits the record's batch.
Store(r) ==
    /\ fate[r] = "accepted" /\ Runs(r)
    /\ rows' = rows \union {r}
    /\ UNCHANGED <<runtimeVars, fate, sharedVars, told, lapsed, budget>>

Ack(r) ==
    /\ fate[r] = "accepted" /\ r \in rows /\ Runs(r)
    /\ fate' = [fate EXCEPT ![r] = "acked"]
    /\ Decide(r, "committed")
    /\ UNCHANGED <<status, connected, backoff, rows, sharedVars, told, lapsed, budget>>

\* The last attempt to write failed, even if an earlier one did not and only
\* its ack was lost.
Drop(r) ==
    /\ fate[r] = "accepted" /\ Runs(r)
    /\ fate' = [fate EXCEPT ![r] = "dropped"]
    /\ Decide(r, "rejected")
    /\ UNCHANGED <<status, connected, backoff, rows, sharedVars, told, lapsed, budget>>

-----------------------------------------------------------------------------
(* Raw traces.                                                             *)

\* What runtime g says of a record: its own overlay, then the store's answer.
View(g, r) ==
    IF g = Owner[r] /\ overlay[r] # "none" THEN overlay[r]
    ELSE IF r \in rows /\ admission[r].state # "rejected" THEN "committed"
    ELSE admission[r].state

Asks(g, r) == status[g] = "running" /\ (connected[g] \/ (g = Owner[r] /\ overlay[r] # "none"))

\* enqueueRawTrace with a final answer.
Answer(g, r) ==
    /\ Asks(g, r)
    /\ View(g, r) \in {"committed", "rejected"}
    /\ told' = [told EXCEPT ![r] = @ \union {View(g, r)}]
    /\ UNCHANGED <<runtimeVars, queueVars, sharedVars, lapsed, budget>>

\* resolveForRawTrace of a request nobody knows: wait, and in the end reject.
AskUnknown(g, r) ==
    /\ Asks(g, r) /\ View(g, r) = "none"
    /\ \/ /\ r \notin waiting
          /\ waiting' = waiting \union {r}
          /\ UNCHANGED <<admission, told>>
       \/ /\ r \in waiting      \* for longer than pendingAdmissionTtlMs
          /\ admission' = [admission EXCEPT ![r] = [state |-> "rejected", by |-> g]]
          /\ waiting' = waiting \ {r}
          /\ told' = [told EXCEPT ![r] = @ \union {"rejected"}]
    /\ UNCHANGED <<runtimeVars, queueVars, lease, lapsed, budget>>

-----------------------------------------------------------------------------
(* Runtimes and their leases.                                              *)

Start(g) ==
    /\ status[g] = "new"
    /\ status' = [status EXCEPT ![g] = "running"]
    /\ UNCHANGED <<connected, ops, backoff, overlay, evicted, queueVars, sharedVars, told,
                   lapsed, budget>>

\* What a runtime has in memory is gone.
Emptied(g) ==
    /\ connected' = [connected EXCEPT ![g] = FALSE]
    /\ ops' = [ops EXCEPT ![g] = <<>>]
    /\ backoff' = [backoff EXCEPT ![g] = FALSE]
    /\ overlay' = [r \in Records |-> IF Owner[r] = g THEN "none" ELSE overlay[r]]
    /\ evicted' = evicted \union UNION {Concerned(ops[g][i]) : i \in DOMAIN ops[g]}

\* close() once the queue was flushed and the list had time to drain.
Close(g) ==
    /\ status[g] = "running"
    /\ ops[g] # <<>> => backoff[g]
    /\ status' = [status EXCEPT ![g] = "closed"]
    /\ Emptied(g)
    /\ lease' = IF connected[g] THEN [lease EXCEPT ![g] = "none"] ELSE lease
    /\ UNCHANGED <<queueVars, admission, waiting, told, lapsed, budget>>

Crash(g) ==
    /\ status[g] \in {"running", "closed"}
    /\ status' = [status EXCEPT ![g] = "crashed"]
    /\ Emptied(g)
    /\ UNCHANGED <<queueVars, sharedVars, told, lapsed, budget>>

\* Thirty seconds without a heartbeat.
LeaseRunsOut(g) ==
    /\ lease[g] = "valid" /\ status[g] # "running"
    /\ lease' = [lease EXCEPT ![g] = "expired"]
    /\ UNCHANGED <<runtimeVars, queueVars, admission, waiting, told, lapsed, budget>>

\* A blocked event loop, a suspended machine, or a lock held that long.
Stall(g) ==
    /\ stalls < MaxStalls /\ stalls' = stalls + 1
    /\ lease[g] = "valid" /\ status[g] = "running"
    /\ lease' = [lease EXCEPT ![g] = "expired"]
    /\ lapsed' = lapsed \union {g}
    /\ UNCHANGED <<runtimeVars, queueVars, admission, waiting, told, faults, expiries>>

RuntimeStep(g) ==
    \/ HeartbeatTimer(g) \/ BackoffEnds(g) \/ Connect(g) \/ RunOperation(g)
    \/ OperationExpires(g) \/ OperationFails(g) \/ ReadFails(g)
    \/ Start(g) \/ Close(g) \/ Crash(g) \/ LeaseRunsOut(g) \/ Stall(g)

RecordStep(r) == Enqueue(r) \/ Refuse(r) \/ Store(r) \/ Ack(r) \/ Drop(r) \/ OverlayForgets(r)

TraceStep(g, r) == Answer(g, r) \/ AskUnknown(g, r)

Next ==
    \/ \E g \in Runtimes : RuntimeStep(g)
    \/ \E r \in Records : RecordStep(r)
    \/ \E g \in Runtimes, r \in Records : TraceStep(g, r)

Spec == Init /\ [][Next]_vars

\* Timers fire and operations run; the queue settles what it accepted; the spool
\* offers a raw trace again until it has a final answer; a lease runs out.
Fairness ==
    /\ \A g \in Runtimes :
        /\ WF_vars(Start(g)) /\ WF_vars(Connect(g)) /\ WF_vars(HeartbeatTimer(g))
        /\ WF_vars(BackoffEnds(g)) /\ WF_vars(RunOperation(g)) /\ WF_vars(LeaseRunsOut(g))
    /\ \A r \in Records :
        /\ WF_vars(Ack(r) \/ Drop(r))
        /\ WF_vars(\E g \in Runtimes : TraceStep(g, r))
FairSpec == Spec /\ Fairness

-----------------------------------------------------------------------------
(* Properties.                                                             *)

\* A raw trace is admitted only for a record that is in the request logs; no
\* interleaving of runtimes, retries and crashes commits an admission earlier.
CommittedIsStored ==
    \A r \in Records :
        (admission[r].state = "committed" \/ overlay[r] = "committed"
            \/ "committed" \in told[r]) => r \in rows

Decision(r) ==
    CASE fate[r] = "accepted" -> {"pending", "committed"}
      [] fate[r] = "acked" -> {"committed"}
      [] fate[r] \in {"dropped", "refused"} -> {"rejected"}
      [] OTHER -> States

\* What a runtime decided of its record is what it answers from then on, while
\* the decision waits to be written as well as afterwards, as long as it kept
\* its lease and nothing of the record was given up.  A record that is still in
\* the queue may be seen as committed, if it already is in the request logs.
DecisionStands ==
    \A r \in Records :
        (Runs(r) /\ Owner[r] \notin lapsed /\ r \notin evicted) =>
            View(Owner[r], r) \in Decision(r)

\* A record in the request logs is not on file as rejected, crashes of its owner
\* included, but for the known causes: the queue dropped it, its owner had lost
\* the lease, or an operation of it was given up or has yet to run.
StoredNotRejected ==
    \A r \in rows : admission[r].state = "rejected" =>
        \/ fate[r] = "dropped" \/ Owner[r] \in lapsed \/ r \in evicted
        \/ \E i \in DOMAIN ops[Owner[r]] : ops[Owner[r]][i].record = r

\* While any runtime goes on running, a raw trace that keeps asking gets a final
\* answer, whoever owned its record and whatever became of the owner.
EveryTraceAnswered ==
    \A r \in Records :
        <>(told[r] # {} \/ r \in evicted \/ \A g \in Runtimes : status[g] \in {"closed", "crashed"})
=============================================================================
