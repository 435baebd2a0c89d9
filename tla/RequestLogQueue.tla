-------------------------- MODULE RequestLogQueue --------------------------
(***************************************************************************)
(* The bounded queue of RequestLogRuntime, the writer worker thread behind *)
(* it and the transaction the worker runs on the SQLite request log.       *)
(*                                                                         *)
(* Two schedulers meet here.  The runtime lives on the event loop: a       *)
(* macrotask (a timer, a message, an 'error' event) runs to completion     *)
(* together with the microtasks it queued, so every macrotask below waits  *)
(* for microtasks = <<>>.  enqueueRecord is itself called from promise     *)
(* continuations and may run between two microtasks.  The worker thread    *)
(* runs in parallel with all of it and may die at any point.               *)
(***************************************************************************)
EXTENDS Integers, Sequences, FiniteSets

CONSTANTS Records,        \* events of kind "record"
          Traces,         \* events of kind "raw-trace-update"
          Of,             \* the record a trace refines (same request id)
          Ordinary,       \* events with a 2xx or 3xx status and no error
          Deferred,       \* traces with deferOutcomeUntilRecord set
          TooLarge,       \* traces above the size of a parked update
          Poison,         \* events whose write always throws
          FullSize,       \* estimated bytes with bodies
          BareSize,       \* estimated bytes once the bodies are removed
          QueueMaxBytes, QueueMaxItems, BatchMaxBytes, BatchMaxItems,
          MaxAttempts,    \* maxCommandWriteAttempts
          MaxCrashes,     \* bound: how often the worker thread dies
          MaxFaults,      \* bound: writes of healthy batches that throw
          MaxDays         \* bound: days that end with rows in the log

Events == Records \union Traces

ASSUME EventAssumption ==
    /\ IsFiniteSet(Events)
    /\ Records \intersect Traces = {}
    /\ Of \in [Traces -> Records]
    /\ Ordinary \subseteq Events
    /\ Poison \subseteq Events
    /\ Deferred \subseteq Traces
    /\ TooLarge \subseteq Traces

ASSUME SizeAssumption ==
    /\ FullSize \in [Events -> Nat \ {0}]
    /\ BareSize \in [Events -> Nat \ {0}]
    /\ \A e \in Events : BareSize[e] <= FullSize[e]

ASSUME LimitAssumption ==
    /\ {QueueMaxBytes, QueueMaxItems, BatchMaxBytes, BatchMaxItems, MaxAttempts}
         \subseteq Nat \ {0}
    /\ {MaxCrashes, MaxFaults, MaxDays} \subseteq Nat

VARIABLES
    fate,             \* what became of each event
    bare,             \* records admitted without their bodies
    queue,            \* entries waiting to be sent
    inFlight,         \* entries sent and not answered, in batch order
    batchId,          \* the last batch id handed out
    outstandingBytes, \* bytes charged against QueueMaxBytes
    flushTimer,       \* is the batchMaxWaitMs timer armed?
    restartTimers,    \* restart timers armed by handleWriterFailure
    microtasks,       \* microtasks queued on the event loop
    awaiting,         \* continuations suspended on a writer that is starting
    writer,           \* the runtime's view: writerWorkerReady / writerWorker;
                      \* "gone": the promise is resolved, the worker closed
    thread,           \* the worker thread itself
    inbox,            \* batches posted to the worker thread
    written,          \* has the head of inbox been committed already?
    mailbox,          \* answers the worker posted and nobody handled yet
    rows,             \* request_logs: rows per record
    pendingTraces,    \* request_log_pending_updates
    applied,          \* how often each trace was taken to its row
    replaced,         \* history: parked traces overwritten by another attempt's
    discarded,        \* history: traces too large to park or pruned, records
                      \* of an earlier day
    phase,            \* "open", then "closing", then "closed"
    crashes, faults, days \* how much of the bounds is used up

runtimeVars == <<fate, bare, queue, inFlight, batchId, outstandingBytes,
                 flushTimer, restartTimers, microtasks, awaiting, writer, phase>>
storeVars == <<rows, pendingTraces, applied, replaced, discarded>>
threadVars == <<thread, inbox, written>>
budget == <<crashes, faults, days>>
vars == <<runtimeVars, threadVars, mailbox, storeVars, budget>>

Entry == [event : Events, size : Nat, attempts : Nat, isolated : BOOLEAN,
          batch : Nat]
Batch == [id : Nat, commands : Seq(Events)]
Answer == [id : Nat, kind : {"ack", "batch-error"}]

TypeOK ==
    /\ fate \in [Events -> {"new", "refused", "accepted", "acked", "dropped",
                        "abandoned"}]
    /\ bare \subseteq Records
    /\ queue \in Seq(Entry)
    /\ inFlight \in Seq(Entry)
    /\ batchId \in Nat
    /\ outstandingBytes \in Nat
    /\ flushTimer \in BOOLEAN
    /\ restartTimers \in Nat
    /\ microtasks \in Seq({"pump", "send", "kick"})
    /\ awaiting \in Seq({"send", "kick"})
    /\ writer \in {"none", "starting", "ready", "gone"}
    /\ thread \in {"none", "starting", "ready", "dead"}
    /\ inbox \in Seq(Batch)
    /\ written \in BOOLEAN
    /\ mailbox \in Seq(Answer)
    /\ rows \in [Records -> Nat]
    /\ pendingTraces \subseteq Traces
    /\ applied \in [Traces -> Nat]
    /\ replaced \subseteq Traces /\ discarded \subseteq Events
    /\ phase \in {"open", "closing", "closed"}
    /\ crashes \in 0 .. MaxCrashes
    /\ faults \in 0 .. MaxFaults
    /\ days \in 0 .. MaxDays

Init ==
    /\ fate = [e \in Events |-> "new"]
    /\ bare = {}
    /\ queue = <<>>
    /\ inFlight = <<>>
    /\ batchId = 0
    /\ outstandingBytes = 0
    /\ flushTimer = FALSE
    /\ restartTimers = 0
    /\ microtasks = <<>>
    /\ awaiting = <<>>
    /\ writer = "none"
    /\ thread = "none"
    /\ inbox = <<>>
    /\ written = FALSE
    /\ mailbox = <<>>
    /\ rows = [r \in Records |-> 0]
    /\ pendingTraces = {}
    /\ applied = [t \in Traces |-> 0]
    /\ replaced = {} /\ discarded = {}
    /\ phase = "open"
    /\ crashes = 0
    /\ faults = 0
    /\ days = 0

-----------------------------------------------------------------------------
(* Sizes and pressure.                                                     *)

\* The bytes of the first n entries of s, and of all of them.
PrefixBytes(s, n) ==
    LET upTo[i \in 0 .. Len(s)] == IF i = 0 THEN 0 ELSE upTo[i - 1] + s[i].size
    IN  upTo[n]

Bytes(s) == PrefixBytes(s, Len(s))

Items == Len(queue) + Len(inFlight)

PressureAtLeast(percent) ==
    \/ 100 * outstandingBytes >= percent * QueueMaxBytes
    \/ 100 * Items >= percent * QueueMaxItems

-----------------------------------------------------------------------------
(* The pump: schedulePump, its timer and its microtasks.                   *)

MayPump(q, flight) == q # <<>> /\ flight = <<>>

\* Mutant: nothing is scheduled.
PumpForgotten(q, flight) == UNCHANGED <<microtasks, flushTimer>>

\* schedulePump(true): the timer is replaced by a microtask.
PumpNow(q, flight) ==
    IF MayPump(q, flight)
      THEN /\ microtasks' = Append(microtasks, "pump")
           /\ flushTimer' = FALSE
      ELSE UNCHANGED <<microtasks, flushTimer>>

\* schedulePump(false): at most one timer is armed.
PumpLater(q, flight) ==
    /\ flushTimer' = (flushTimer \/ MayPump(q, flight))
    /\ UNCHANGED microtasks

\* ensureWriter creates the worker unless one exists or is starting.
EnsureWriter ==
    IF writer = "none"
      THEN /\ writer' = "starting"
           /\ thread' = "starting"
           /\ inbox' = <<>>
           /\ written' = FALSE
      ELSE UNCHANGED <<writer, threadVars>>

Macrotask == microtasks = <<>>

-----------------------------------------------------------------------------
(* Admission into the queue.                                               *)

Refuse(e) ==
    /\ fate' = [fate EXCEPT ![e] = "refused"]
    /\ UNCHANGED <<queue, outstandingBytes, microtasks, flushTimer, writer,
                   threadVars>>

\* Mutant: the item cap is tested with <= instead of <.
FitsOneTooMany(size) ==
    /\ phase = "open"
    /\ outstandingBytes + size <= QueueMaxBytes
    /\ Items <= QueueMaxItems

Fits(size) ==
    /\ phase = "open"
    /\ outstandingBytes + size <= QueueMaxBytes
    /\ Items < QueueMaxItems

\* RequestLogRuntime.enqueue
Offer(e, size) ==
    \/ ~Fits(size) /\ Refuse(e)
    \/ LET q == Append(queue, [event |-> e, size |-> size, attempts |-> 0,
                               isolated |-> FALSE, batch |-> 0])
       IN  /\ Fits(size)
           /\ fate' = [fate EXCEPT ![e] = "accepted"]
           /\ queue' = q
           /\ outstandingBytes' = outstandingBytes + size
           /\ EnsureWriter
           /\ IF Len(q) >= BatchMaxItems \/ Bytes(q) >= BatchMaxBytes
                THEN PumpNow(q, inFlight)
                ELSE PumpLater(q, inFlight)

EnqueueRecord(r) ==
    /\ fate[r] = "new"
    /\ \/ /\ PressureAtLeast(95) /\ r \in Ordinary
          /\ Refuse(r)
          /\ UNCHANGED bare
       \/ /\ ~(PressureAtLeast(95) /\ r \in Ordinary)
          /\ LET removeBodies == PressureAtLeast(70) /\ r \in Ordinary
             IN  /\ Offer(r, IF removeBodies THEN BareSize[r] ELSE FullSize[r])
                 /\ bare' = IF removeBodies THEN bare \union {r} ELSE bare
    /\ UNCHANGED <<inFlight, batchId, restartTimers, awaiting, phase,
                   mailbox, storeVars, budget>>

\* Mutant: a record counts as committed once it is in the queue.
AdmissionTooSoon(r) ==
    CASE fate[r] = "new" -> {"unknown"}
      [] fate[r] \in {"refused", "dropped"} -> {"rejected", "unknown"}
      [] OTHER -> {"committed", "unknown"}

\* The admission of a record, as far as a trace can tell: "pending" until its
\* row is known to be there, "unknown" when it cannot be read.  The row may be
\* pruned after it was read.
Admission(r) ==
    CASE fate[r] = "new" -> {"unknown"}
      [] fate[r] \in {"refused", "dropped"} -> {"rejected", "unknown"}
      [] \/ fate[r] = "acked"
         \/ fate[r] \in {"accepted", "abandoned"} /\ (rows[r] > 0 \/ r \in discarded) ->
           {"committed", "pending", "unknown"}
      [] OTHER -> {"pending", "unknown"}

\* A deferred trace whose record is pending or unknown is answered
\* "record_pending", stays in the spool and is offered again later.
EnqueueTrace(t) ==
    /\ fate[t] = "new"
    /\ \E admission \in Admission(Of[t]) :
         /\ t \in Deferred => admission \in {"rejected", "committed"}
         /\ \/ /\ admission = "rejected"
               /\ Refuse(t)
            \/ /\ admission = "unknown" /\ PressureAtLeast(95) /\ t \in Ordinary
               /\ Refuse(t)
            \/ /\ admission \in {"pending", "committed"}
               /\ Offer(t, IF Of[t] \in bare THEN BareSize[t] ELSE FullSize[t])
            \/ /\ admission = "unknown"
               /\ ~(PressureAtLeast(95) /\ t \in Ordinary)
               /\ Offer(t, FullSize[t])
    /\ UNCHANGED <<bare, inFlight, batchId, restartTimers, awaiting, phase,
                   mailbox, storeVars, budget>>

-----------------------------------------------------------------------------
(* Pumping: one action per microtask and per timer.                        *)

FlushTimerFires ==
    /\ Macrotask /\ flushTimer
    /\ flushTimer' = FALSE
    /\ microtasks' = <<"pump">>
    /\ UNCHANGED <<fate, bare, queue, inFlight, batchId, outstandingBytes,
                   restartTimers, awaiting, writer, phase, threadVars, mailbox,
                   storeVars, budget>>

\* pump, up to its await of ensureWriter.
PumpEnters ==
    /\ microtasks # <<>> /\ Head(microtasks) = "pump"
    /\ \/ /\ ~MayPump(queue, inFlight)
          /\ microtasks' = Tail(microtasks)
          /\ UNCHANGED <<writer, threadVars, awaiting>>
       \/ /\ MayPump(queue, inFlight) /\ writer \in {"ready", "gone"}
          /\ microtasks' = Append(Tail(microtasks), "send")
          /\ UNCHANGED <<writer, threadVars, awaiting>>
       \/ /\ MayPump(queue, inFlight) /\ writer \in {"none", "starting"}
          /\ EnsureWriter
          /\ awaiting' = Append(awaiting, "send")
          /\ microtasks' = Tail(microtasks)
    /\ UNCHANGED <<fate, bare, queue, inFlight, batchId, outstandingBytes,
                   flushTimer, restartTimers, phase, mailbox, storeVars, budget>>

\* The first n entries of the queue may travel together.
Together(n) ==
    /\ n <= BatchMaxItems
    /\ n > 1 => /\ \A i \in 1 .. n : ~queue[i].isolated
                /\ PrefixBytes(queue, n) <= BatchMaxBytes

IsNextBatch(n) ==
    /\ n \in 1 .. Len(queue)
    /\ Together(n)
    /\ n < Len(queue) => ~Together(n + 1)

EventsOf(s) == {s[i].event : i \in DOMAIN s}

\* The commands of a batch.
Commands(s) == [i \in DOMAIN s |-> s[i].event]
Contents(c) == {c[i] : i \in DOMAIN c}

\* Entries on their way to the worker, as batch id.
Sent(s, id) ==
    [i \in 1 .. Len(s) |-> [s[i] EXCEPT !.attempts = @ + 1, !.batch = id]]

\* pump, after the await: inFlight is not looked at again.
PumpSends ==
    /\ microtasks # <<>> /\ Head(microtasks) = "send"
    /\ microtasks' = Tail(microtasks)
    /\ \/ /\ queue = <<>>
          /\ UNCHANGED <<fate, queue, inFlight, batchId, inbox>>
       \/ \E n \in 1 .. Len(queue) :
            LET taken == SubSeq(queue, 1, n)
            IN  /\ IsNextBatch(n)
                /\ queue' = SubSeq(queue, n + 1, Len(queue))
                /\ \/ /\ writer = "gone"
                      /\ fate' = [e \in Events |-> IF e \in EventsOf(taken)
                                                     THEN "abandoned" ELSE fate[e]]
                      /\ UNCHANGED <<inFlight, batchId, inbox>>
                   \/ /\ writer # "gone"
                      /\ batchId' = batchId + 1
                      /\ inFlight' = inFlight \o Sent(taken, batchId')
                      /\ inbox' = IF thread = "dead" THEN inbox
                                  ELSE Append(inbox, [id |-> batchId',
                                                      commands |-> Commands(taken)])
                      /\ UNCHANGED fate
    /\ UNCHANGED <<bare, outstandingBytes, flushTimer, restartTimers, awaiting,
                   writer, phase, thread, written, mailbox, storeVars, budget>>

\* The continuation of a restart: ensureWriter().then(() => schedulePump(true)).
Kick ==
    /\ microtasks # <<>> /\ Head(microtasks) = "kick"
    /\ IF MayPump(queue, inFlight)
         THEN /\ microtasks' = Append(Tail(microtasks), "pump")
              /\ flushTimer' = FALSE
         ELSE /\ microtasks' = Tail(microtasks)
              /\ UNCHANGED flushTimer
    /\ UNCHANGED <<fate, bare, queue, inFlight, batchId, outstandingBytes,
                   restartTimers, awaiting, writer, phase, threadVars, mailbox,
                   storeVars, budget>>

-----------------------------------------------------------------------------
(* What the runtime hears from the worker.                                 *)

\* resolve() queues the suspended continuations before the pump's microtask.
WriterReady ==
    /\ Macrotask /\ writer = "starting" /\ thread = "starting"
    /\ writer' = "ready"
    /\ thread' = "ready"
    /\ awaiting' = <<>>
    /\ microtasks' = awaiting \o
                       (IF MayPump(queue, inFlight) THEN <<"pump">> ELSE <<>>)
    /\ flushTimer' = (flushTimer /\ ~MayPump(queue, inFlight))
    /\ UNCHANGED <<fate, bare, queue, inFlight, batchId, outstandingBytes,
                   restartTimers, phase, inbox, written, mailbox, storeVars, budget>>

\* Entries lo .. hi of inFlight are exactly batch id.
IsBatch(id, lo, hi) ==
    \A i \in DOMAIN inFlight : inFlight[i].batch = id <=> i \in lo .. hi

Without(lo, hi) ==
    SubSeq(inFlight, 1, lo - 1) \o SubSeq(inFlight, hi + 1, Len(inFlight))

\* Mutant: what was in flight is forgotten.
RequeuedForgets(s, isolate) == <<>>

\* Entries go back to the front of the queue; they keep their attempts.
Requeued(s, isolate) ==
    [i \in 1 .. Len(s) |-> [s[i] EXCEPT !.isolated = @ \/ isolate, !.batch = 0]]

\* Mutant: the operands of the subtraction are swapped.
ReleaseSwapped(bytes) == bytes - outstandingBytes

Release(bytes) == IF bytes \in 0 .. outstandingBytes THEN outstandingBytes - bytes ELSE 0

Settle(lo, hi, outcome) ==
    /\ inFlight' = Without(lo, hi)
    /\ outstandingBytes' = Release(Bytes(SubSeq(inFlight, lo, hi)))
    /\ fate' = [e \in Events |->
                  IF e \in EventsOf(SubSeq(inFlight, lo, hi)) THEN outcome ELSE fate[e]]
    /\ UNCHANGED queue
    /\ PumpNow(queue, Without(lo, hi))

PutBack(lo, hi) ==
    LET q == Requeued(SubSeq(inFlight, lo, hi), TRUE) \o queue
    IN  /\ inFlight' = Without(lo, hi)
        /\ queue' = q
        /\ UNCHANGED <<outstandingBytes, fate>>
        /\ PumpNow(q, Without(lo, hi))

\* The next answer is about entries lo .. hi of inFlight.
Hears(kind, lo, hi) ==
    /\ Macrotask /\ mailbox # <<>>
    /\ Head(mailbox).kind = kind
    /\ lo <= hi /\ IsBatch(Head(mailbox).id, lo, hi)
    /\ mailbox' = Tail(mailbox)
    /\ UNCHANGED <<bare, batchId, restartTimers, awaiting, writer, phase,
                   threadVars, storeVars, budget>>

HandleAck(lo, hi) ==
    /\ Hears("ack", lo, hi)
    /\ Settle(lo, hi, "acked")

\* Mutant: a failed batch of several entries is dropped instead of split.
HandleBatchErrorDrops(lo, hi) ==
    /\ Hears("batch-error", lo, hi)
    /\ \/ lo = hi /\ inFlight[lo].attempts < MaxAttempts /\ PutBack(lo, hi)
       \/ (lo < hi \/ inFlight[lo].attempts >= MaxAttempts) /\ Settle(lo, hi, "dropped")

\* A failed batch is split: each of its entries is tried again on its own.
HandleBatchError(lo, hi) ==
    /\ Hears("batch-error", lo, hi)
    /\ \/ lo < hi /\ PutBack(lo, hi)
       \/ lo = hi /\ inFlight[lo].attempts < MaxAttempts /\ PutBack(lo, hi)
       \/ lo = hi /\ inFlight[lo].attempts >= MaxAttempts /\ Settle(lo, hi, "dropped")

\* An answer about a batch that was put back when its worker failed.
IgnoreStaleAnswer ==
    /\ Macrotask /\ mailbox # <<>>
    /\ \A i \in DOMAIN inFlight : inFlight[i].batch # Head(mailbox).id
    /\ mailbox' = Tail(mailbox)
    /\ UNCHANGED <<runtimeVars, threadVars, storeVars, budget>>

HandleWriterFailure ==
    /\ Macrotask /\ thread = "dead" /\ writer \in {"starting", "ready"}
    /\ writer' = "none"
    /\ thread' = "none"
    /\ queue' = Requeued(inFlight, FALSE) \o queue
    /\ inFlight' = <<>>
    /\ awaiting' = <<>>
    /\ restartTimers' = IF phase = "open" THEN restartTimers + 1 ELSE restartTimers
    /\ UNCHANGED <<fate, bare, batchId, outstandingBytes, flushTimer, microtasks,
                   phase, inbox, written, mailbox, storeVars, budget>>

RestartTimerFires ==
    /\ Macrotask /\ restartTimers > 0
    /\ restartTimers' = restartTimers - 1
    /\ EnsureWriter
    /\ IF writer \in {"ready", "gone"}
         THEN microtasks' = <<"kick">> /\ UNCHANGED awaiting
         ELSE awaiting' = Append(awaiting, "kick") /\ UNCHANGED microtasks
    /\ UNCHANGED <<fate, bare, queue, inFlight, batchId, outstandingBytes,
                   flushTimer, phase, mailbox, storeVars, budget>>

\* close, up to flush's wait: the timer is cleared and the queue pumped.
Close ==
    /\ Macrotask /\ phase = "open"
    /\ phase' = "closing"
    /\ flushTimer' = FALSE
    /\ microtasks' = IF MayPump(queue, inFlight) THEN <<"pump">> ELSE <<>>
    /\ UNCHANGED <<fate, bare, queue, inFlight, batchId, outstandingBytes,
                   restartTimers, awaiting, writer, threadVars, mailbox,
                   storeVars, budget>>

\* close, after flush drained or timed out: shutdownWorker.  The restart timer
\* is left armed and writerWorkerReady left resolved.
FinishClose ==
    /\ Macrotask /\ phase = "closing"
    /\ phase' = "closed"
    /\ writer' = IF writer = "ready" THEN "gone" ELSE writer
    /\ thread' = "none"
    /\ inbox' = <<>>
    /\ written' = FALSE
    /\ UNCHANGED <<fate, bare, queue, inFlight, batchId, outstandingBytes,
                   flushTimer, restartTimers, microtasks, awaiting, mailbox,
                   storeVars, budget>>

-----------------------------------------------------------------------------
(* The worker thread and its store.                                        *)

\* Mutant: a plain INSERT.
InsertAlways(n) == n + 1

\* INSERT OR IGNORE on the event id.
InsertOrIgnore(n) == IF n = 0 THEN 1 ELSE n

\* Command i of a batch is a trace whose bundle was not processed before, and
\* finds its row, there already or written by an earlier command, or does not.
Fresh(c) == {i \in DOMAIN c : c[i] \in Traces /\ applied[c[i]] = 0}
FindsRow(c, i) == rows[Of[c[i]]] > 0 \/ \E j \in 1 .. i - 1 : c[j] = Of[c[i]]

Late(c) == {c[i] : i \in {k \in Fresh(c) : FindsRow(c, k)}}
Early(c) == {i \in Fresh(c) : ~FindsRow(c, i)}
Parks(c) == {i \in Early(c) : c[i] \notin TooLarge}

\* One update is parked per record: a later one overwrites an earlier one, which
\* may be acknowledged; one that is too large is not parked and overwrites nothing.
Parked(c) ==
    ({c[i] : i \in {k \in Parks(c) : \A j \in Parks(c) : Of[c[j]] = Of[c[k]] => j <= k}}
       \union {t \in pendingTraces : \A i \in Parks(c) : Of[c[i]] # Of[t]}) \ Late(c)

NotParked(c) == (pendingTraces \union {c[i] : i \in Early(c)}) \ (Parked(c) \union Late(c))

\* Every attempt to park prunes what is parked, by age, number and bytes; it may
\* be any update that its record has not taken with it by then.
Prunable(c) ==
    {t \in Parked(c) : \E i \in Early(c) : \A j \in DOMAIN c : c[j] = Of[t] => i < j}

\* Mutant: a record does not look for a parked trace.
TakenNone(c, S) == {}

\* The parked traces that the records of a batch take with them.
Taken(c, S) == {t \in S : Of[t] \in Contents(c)}

\* writeBatch, in one transaction, command after command.
StoreBatch(c) ==
    \E pruned \in SUBSET Prunable(c) :
        LET kept == Parked(c) \ pruned
        IN  /\ rows' = [r \in Records |-> IF r \in Contents(c) THEN InsertOrIgnore(rows[r])
                                                              ELSE rows[r]]
            /\ applied' = [t \in Traces |-> IF t \in Late(c) \union Taken(c, kept)
                                              THEN applied[t] + 1 ELSE applied[t]]
            /\ pendingTraces' = kept \ Taken(c, kept)
            /\ replaced' = replaced \union (NotParked(c) \ TooLarge)
            /\ discarded' = discarded \union pruned \union (NotParked(c) \intersect TooLarge)

ThreadCommits ==
    /\ thread = "ready" /\ inbox # <<>> /\ ~written
    /\ Contents(Head(inbox).commands) \intersect Poison = {}
    /\ StoreBatch(Head(inbox).commands)
    /\ written' = TRUE
    /\ UNCHANGED <<runtimeVars, thread, inbox, mailbox, budget>>

\* Mutant: the ack is posted before the transaction has committed.
ThreadAcksEarly ==
    /\ thread = "ready" /\ inbox # <<>>
    /\ mailbox' = Append(mailbox, [id |-> Head(inbox).id, kind |-> "ack"])
    /\ inbox' = Tail(inbox)
    /\ written' = FALSE
    /\ UNCHANGED <<runtimeVars, thread, storeVars, budget>>

ThreadAcks ==
    /\ thread = "ready" /\ written
    /\ mailbox' = Append(mailbox, [id |-> Head(inbox).id, kind |-> "ack"])
    /\ inbox' = Tail(inbox)
    /\ written' = FALSE
    /\ UNCHANGED <<runtimeVars, thread, storeVars, budget>>

\* The transaction is rolled back and the error posted.
ThreadRejects ==
    /\ thread = "ready" /\ inbox # <<>> /\ ~written
    /\ mailbox' = Append(mailbox, [id |-> Head(inbox).id, kind |-> "batch-error"])
    /\ inbox' = Tail(inbox)
    /\ \/ Contents(Head(inbox).commands) \intersect Poison # {} /\ UNCHANGED faults
       \/ Contents(Head(inbox).commands) \intersect Poison = {} /\ faults < MaxFaults
          /\ faults' = faults + 1
    /\ UNCHANGED <<runtimeVars, thread, written, storeVars, crashes, days>>

ThreadDies ==
    /\ thread \in {"starting", "ready"} /\ crashes < MaxCrashes
    /\ thread' = "dead"
    /\ inbox' = <<>>
    /\ written' = FALSE
    /\ crashes' = crashes + 1
    /\ UNCHANGED <<runtimeVars, mailbox, storeVars, faults, days>>

\* The first command or query of a day removes the rows of earlier days.
PruneOldRequestLogs ==
    /\ thread = "ready" /\ days < MaxDays
    /\ days' = days + 1
    /\ \E old \in SUBSET {r \in Records : rows[r] > 0} \ {{}} :
          /\ rows' = [r \in Records |-> IF r \in old THEN 0 ELSE rows[r]]
          /\ discarded' = discarded \union old
    /\ UNCHANGED <<runtimeVars, threadVars, mailbox, pendingTraces, applied, replaced,
                   crashes, faults>>

-----------------------------------------------------------------------------
Microtask == PumpEnters \/ PumpSends \/ Kick

HearAnswer ==
    \/ \E lo, hi \in DOMAIN inFlight : HandleAck(lo, hi) \/ HandleBatchError(lo, hi)
    \/ IgnoreStaleAnswer

Next ==
    \/ \E r \in Records : EnqueueRecord(r)
    \/ \E t \in Traces : EnqueueTrace(t)
    \/ FlushTimerFires
    \/ PumpEnters
    \/ PumpSends
    \/ Kick
    \/ WriterReady
    \/ \E lo, hi \in DOMAIN inFlight : HandleAck(lo, hi)
    \/ \E lo, hi \in DOMAIN inFlight : HandleBatchError(lo, hi)
    \/ IgnoreStaleAnswer
    \/ HandleWriterFailure
    \/ RestartTimerFires
    \/ Close
    \/ FinishClose
    \/ ThreadCommits
    \/ ThreadAcks
    \/ ThreadRejects
    \/ ThreadDies
    \/ PruneOldRequestLogs

Spec == Init /\ [][Next]_vars

\* handleMessage of the worker: it answers every batch it is given.
HandleMessage == ThreadCommits \/ ThreadAcks \/ ThreadRejects

\* The event loop and a live worker thread keep running; callers, crashes and
\* close() need not happen.
Fairness ==
    /\ WF_vars(Microtask)
    /\ WF_vars(FlushTimerFires)
    /\ WF_vars(RestartTimerFires)
    /\ WF_vars(WriterReady)
    /\ WF_vars(HearAnswer)
    /\ WF_vars(HandleWriterFailure)
    /\ WF_vars(HandleMessage)

FairSpec == Spec /\ Fairness

-----------------------------------------------------------------------------
(* Properties.                                                             *)

\* What the database holds: rows, parked traces, and the traces taken to a row
\* that was not pruned since.
Stored == {r \in Records : rows[r] > 0} \union pendingTraces
            \union {t \in Traces : applied[t] > 0 /\ Of[t] \notin discarded}

\* What it held, or was given, and gave up by its own policies.
GivenUp == replaced \union discarded
             \union {t \in Traces : applied[t] > 0 /\ Of[t] \in discarded}

Outstanding == EventsOf(queue) \union EventsOf(inFlight)

Distinct(s) == \A i, j \in DOMAIN s : s[i].event = s[j].event => i = j

\* Every event that enqueue accepted and that nobody answered for yet is in
\* exactly one place of the queue or of a batch in flight, through every
\* split, retry, crash and double pump; nothing is abandoned before close()
\* has given up waiting.
NoneLost ==
    /\ Outstanding = {e \in Events : fate[e] = "accepted"}
    /\ Distinct(queue) /\ Distinct(inFlight)
    /\ EventsOf(queue) \intersect EventsOf(inFlight) = {}
    /\ phase # "closed" => \A e \in Events : fate[e] # "abandoned"

\* The bytes charged in enqueue are given back exactly once, so the queue's
\* two caps hold however batches are retried, and never leak capacity.
CapsHold ==
    /\ Items <= QueueMaxItems
    /\ outstandingBytes <= QueueMaxBytes
    /\ phase # "closed" => outstandingBytes = Bytes(queue) + Bytes(inFlight)

\* What handleWriterMessage counts as committed was written, even when batch
\* ids, replays and answers of a dead worker mix: a record has its row until its
\* day is over, and a trace is parked or at its row unless the store replaced,
\* refused or pruned its parked update.  None of that happens to a deferred
\* trace, whose bundle is then deleted from the spool: while its record is kept
\* it was taken to its row.
AckedIsStored ==
    /\ \A e \in Events : fate[e] = "acked" => e \in Stored \union GivenUp
    /\ \A t \in Deferred : fate[t] = "acked" => applied[t] > 0 \/ Of[t] \in discarded

\* A batch replayed after a crash between COMMIT and its ack leaves one row per
\* record (INSERT OR IGNORE on the event id) and refines it once (bundle id).
WrittenOnce ==
    /\ \A r \in Records : rows[r] <= 1
    /\ \A t \in Traces : applied[t] <= 1

\* A record and its raw traces find each other whichever is committed first, and
\* whatever attempts are replayed: no trace stays parked beside the row it was
\* meant for, and a parked trace is only overwritten by another attempt's that
\* is parked in its place, taken to the row, or pruned.
TraceMeetsRecord ==
    /\ \A t \in pendingTraces : rows[Of[t]] = 0
    /\ \A t \in replaced : \E u \in Traces :
          Of[u] = Of[t] /\ (u \in pendingTraces \union discarded \/ applied[u] > 0)

\* Splitting a failed batch confines the damage: while no healthy write
\* fails, only an event that can never be written is dropped.
OnlyPoisonDropped ==
    faults = 0 => \A e \in Events : fate[e] = "dropped" => e \in Poison

\* While the runtime is open every accepted event is answered for, however
\* batches fail and workers die in between (finitely often): an answered event
\* stays so, so nothing is left unanswered once all of them are.
EveryEventSettles ==
    []<>(phase = "open" => \A e \in Events : fate[e] # "accepted")

\* The durable log this implements.
Owner == [e \in Events |-> IF e \in Records THEN e ELSE Of[e]]

Log == INSTANCE DurableLog WITH stored <- Stored, given <- GivenUp,
                                Weak <- Traces \ Deferred

ImplementsDurableLog == Log!Spec

=============================================================================
