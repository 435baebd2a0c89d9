------------------------- MODULE RouteScriptRuntime -------------------------
(***************************************************************************)
(* The worker pool that runs routing scripts: RouteScriptRuntime with its  *)
(* circuit breakers, and one RouteScriptWorkerSlot per worker thread.      *)
(*                                                                         *)
(* Calls to a slot form a line: rpc awaits the turn of the call before it. *)
(* The call at the head waits for the worker, posts its request and waits  *)
(* for the answer or for its hard timer.  A worker thread may fail at any  *)
(* point; the events it has posted by then are still delivered.            *)
(***************************************************************************)
EXTENDS Integers, Sequences, FiniteSets

CONSTANTS Calls,       \* calls of execute and validate
          Validations, \* the calls of validate
          Guarded,     \* executions whose circuit breaker is not switched off
          KeyOf,       \* circuit key (rule and script version) of a call
          SlotCount,   \* number of worker slots
          MaxPending,  \* maxPendingRequests
          Threshold,   \* circuitFailureThreshold
          Window,      \* circuitWindowMs
          OpenFor,     \* circuitOpenMs
          MaxTime,     \* bound on the clock
          MaxErrors,   \* bound: uncaught errors of workers
          MaxCloses    \* bound: calls of close()

Slots == 1 .. SlotCount
Keys == {KeyOf[c] : c \in Calls}

ASSUME CallAssumption ==
    /\ IsFiniteSet(Calls)
    /\ Validations \subseteq Calls
    /\ Guarded \subseteq Calls \ Validations
    /\ DOMAIN KeyOf = Calls

ASSUME NumberAssumption ==
    /\ {SlotCount, MaxPending, Threshold, Window, OpenFor} \subseteq Nat \ {0}
    /\ {MaxTime, MaxErrors, MaxCloses} \subseteq Nat

VARIABLES
    now,        \* Date.now()
    circuit,    \* circuitStates; an absent entry is NoCircuit
    status,     \* where each call is, or how it ended
    slotOf,     \* the slot a call was given to, 0 before
    genOf,      \* the generation of its slot that the call saw
    line,       \* per slot: the calls that are inside rpc, in turn order
    generation, \* per slot
    current,    \* per slot: this.worker, an index into threads, or 0
    threads,    \* per slot: every worker thread ever started
    replies,    \* answers posted by workers and not delivered yet
    closing,    \* is a close() waiting?
    awaited,    \* the calls and the workers (by slot) it waits for
    errors, closes

closeVars == <<closing, awaited>>
vars == <<now, circuit, status, slotOf, genOf, line, generation, current,
          threads, replies, closeVars, errors, closes>>

Nothing == [calls |-> {}, workers |-> [s \in Slots |-> 0]]

NoCircuit == [failures |-> <<>>, openUntil |-> 0]

\* A thread: its state, the call it evaluates, whether it became ready.
Thread == [state : {"starting", "ready", "erring", "stopping", "gone"},
           ready : BOOLEAN, job : SUBSET Calls]

\* "error" stands for the results "error" and "timeout", which differ in name.
Failing == {"error", "queue-full"}
Waiting == {"queued", "starting", "sent"}

TypeOK ==
    /\ now \in 0 .. MaxTime
    /\ circuit \in [Keys -> [failures : Seq(0 .. MaxTime),
                            openUntil : 0 .. MaxTime + OpenFor]]
    /\ status \in [Calls -> {"new", "ok", "circuit-open"} \union Failing \union Waiting]
    /\ slotOf \in [Calls -> 0 .. SlotCount]
    /\ genOf \in [Calls -> Nat]
    /\ line \in [Slots -> Seq(Calls)]
    /\ generation \in [Slots -> Nat]
    /\ threads \in [Slots -> Seq(Thread)]
    /\ current \in [Slots -> Nat]
    /\ \A s \in Slots : current[s] <= Len(threads[s])
    /\ replies \subseteq Calls \X {"ok", "error"}
    /\ closing \in BOOLEAN
    /\ awaited \in [calls : SUBSET Calls, workers : [Slots -> Nat]]
    /\ errors \in 0 .. MaxErrors
    /\ closes \in 0 .. MaxCloses

Init ==
    /\ now = 0
    /\ circuit = [k \in Keys |-> NoCircuit]
    /\ status = [c \in Calls |-> "new"]
    /\ slotOf = [c \in Calls |-> 0]
    /\ genOf = [c \in Calls |-> 0]
    /\ line = [s \in Slots |-> <<>>]
    /\ generation = [s \in Slots |-> 0]
    /\ current = [s \in Slots |-> 0]
    /\ threads = [s \in Slots |-> <<>>]
    /\ replies = {}
    /\ closing = FALSE
    /\ awaited = Nothing
    /\ errors = 0
    /\ closes = 0

Tick ==
    /\ now < MaxTime
    /\ now' = now + 1
    /\ UNCHANGED <<circuit, status, slotOf, genOf, line, generation, current,
                   threads, replies, closeVars, errors, closes>>

-----------------------------------------------------------------------------
(* The circuit breaker.                                                    *)

IsOpen(k) == circuit[k].openUntil > now

\* The failures within the window; they are in the order of their times.
Recent(failures) ==
    LET old == {i \in DOMAIN failures : now - failures[i] > Window}
    IN  SubSeq(failures, Cardinality(old) + 1, Len(failures))

\* Mutant: the time already spent in the window is added to the pause.
AfterFailuresLong(st, n) ==
    IF n = 0 THEN st ELSE [failures |-> <<now>>, openUntil |-> now + OpenFor + Window]

\* n failures at the present time on top of state st.
AfterFailures(st, n) ==
    LET all == Recent(st.failures) \o [i \in 1 .. n |-> now]
    IN  IF n = 0 THEN st
        ELSE [failures  |-> all,
              openUntil |-> IF Len(all) >= Threshold THEN now + OpenFor ELSE 0]

\* Mutant: a test run with the circuit breaker switched off counts.
RecordAlways(c, outcome) ==
    circuit' = IF outcome = "ok"
                 THEN [circuit EXCEPT ![KeyOf[c]] = NoCircuit]
                 ELSE [circuit EXCEPT ![KeyOf[c]] = AfterFailures(@, 1)]

\* recordSuccess and recordFailure.
Record(c, outcome) ==
    IF c \notin Guarded THEN UNCHANGED circuit
    ELSE circuit' = IF outcome = "ok"
                      THEN [circuit EXCEPT ![KeyOf[c]] = NoCircuit]
                      ELSE [circuit EXCEPT ![KeyOf[c]] = AfterFailures(@, 1)]

\* The call at the head leaves rpc: the counter drops, the turn is released.
Leave(s, c, outcome) ==
    /\ status' = [status EXCEPT ![c] = outcome]
    /\ line' = [line EXCEPT ![s] = Tail(@)]
    /\ Record(c, outcome)

-----------------------------------------------------------------------------
(* Calls.                                                                  *)

PendingCount == LET InFlight == {c \in Calls : status[c] \in Waiting}
                IN  Cardinality(InFlight)

\* The first slot with the fewest calls in flight.
IsNextSlot(s) ==
    \A t \in Slots : /\ Len(line[s]) <= Len(line[t])
                     /\ t < s => Len(line[s]) < Len(line[t])

Enter(c, s) ==
    /\ IsNextSlot(s)
    /\ status' = [status EXCEPT ![c] = "queued"]
    /\ slotOf' = [slotOf EXCEPT ![c] = s]
    /\ genOf' = [genOf EXCEPT ![c] = generation[s]]
    /\ line' = [line EXCEPT ![s] = Append(@, c)]
    /\ UNCHANGED circuit

QueueFull == PendingCount >= MaxPending

\* execute, from the clock reading on: nothing is awaited before rpc.
Execute(c) ==
    /\ status[c] = "new" /\ c \notin Validations
    /\ \/ /\ c \in Guarded /\ IsOpen(KeyOf[c])
          /\ status' = [status EXCEPT ![c] = "circuit-open"]
          /\ UNCHANGED <<circuit, slotOf, genOf, line>>
       \/ /\ ~(c \in Guarded /\ IsOpen(KeyOf[c]))
          /\ QueueFull
          /\ status' = [status EXCEPT ![c] = "queue-full"]
          /\ Record(c, "queue-full")
          /\ UNCHANGED <<slotOf, genOf, line>>
       \/ /\ ~(c \in Guarded /\ IsOpen(KeyOf[c]))
          /\ ~QueueFull
          /\ \E s \in Slots : Enter(c, s)
    /\ UNCHANGED <<now, generation, current, threads, replies, closeVars, errors,
                   closes>>

\* validate: no circuit breaker and no limit.
Validate(c) ==
    /\ status[c] = "new" /\ c \in Validations
    /\ \E s \in Slots : Enter(c, s)
    /\ UNCHANGED <<now, generation, current, threads, replies, closeVars, errors,
                   closes>>

HasTurn(s, c) == line[s] # <<>> /\ c = Head(line[s])

\* rpc, after its turn came: ensureReady starts a worker if there is none.
TakeTurn(s, c) ==
    /\ HasTurn(s, c) /\ status[c] = "queued"
    /\ \/ /\ genOf[c] # generation[s]
          /\ Leave(s, c, "error")
          /\ UNCHANGED <<current, threads>>
       \/ /\ genOf[c] = generation[s]
          /\ status' = [status EXCEPT ![c] = "starting"]
          /\ IF current[s] # 0
               THEN UNCHANGED <<current, threads>>
               ELSE /\ threads' = [threads EXCEPT ![s] =
                                     Append(@, [state |-> "starting", ready |-> FALSE,
                                                job |-> {}])]
                    /\ current' = [current EXCEPT ![s] = Len(threads'[s])]
          /\ UNCHANGED <<circuit, line>>
    /\ UNCHANGED <<now, slotOf, genOf, generation, replies, closeVars, errors, closes>>

\* The worker whose start the head of the line awaits: the last one started.
Awaited(s) == threads[s][Len(threads[s])]

\* rpc, after ensureReady: the request is posted and the hard timer armed.
Send(s, c) ==
    /\ HasTurn(s, c) /\ status[c] = "starting" /\ Awaited(s).ready
    /\ \/ /\ current[s] = 0
          /\ Leave(s, c, "error")
          /\ UNCHANGED threads
       \/ /\ current[s] # 0
          /\ status' = [status EXCEPT ![c] = "sent"]
          /\ threads' = [threads EXCEPT ![s][current[s]].job = @ \union {c}]
          /\ UNCHANGED <<circuit, line>>
    /\ UNCHANGED <<now, slotOf, genOf, generation, current, replies, closeVars, errors,
                   closes>>

-----------------------------------------------------------------------------
(* Worker threads.                                                         *)

\* The 'ready' message, which a worker just terminated may have posted before.
WorkerReady(s, w) ==
    /\ threads[s][w].state \in {"starting", "stopping"} /\ ~threads[s][w].ready
    /\ threads' = [threads EXCEPT
          ![s][w].state = IF @ = "starting" THEN "ready" ELSE @, ![s][w].ready = TRUE]
    /\ UNCHANGED <<now, circuit, status, slotOf, genOf, line, generation, current,
                   replies, closeVars, errors, closes>>

\* The worker answers; a terminated worker may have answered just before.
WorkerReplies(s, w, c, outcome) ==
    /\ threads[s][w].state \in {"ready", "stopping"} /\ c \in threads[s][w].job
    /\ threads' = [threads EXCEPT ![s][w].job = @ \ {c}]
    /\ replies' = replies \union {<<c, outcome>>}
    /\ UNCHANGED <<now, circuit, status, slotOf, genOf, line, generation, current,
                   closeVars, errors, closes>>

\* An uncaught error or an exhausted heap, also while starting.
WorkerErrs(s, w) ==
    /\ threads[s][w].state \in {"starting", "ready", "stopping"}
    /\ errors < MaxErrors
    /\ errors' = errors + 1
    /\ threads' = [threads EXCEPT ![s][w].state = "erring", ![s][w].job = {}]
    /\ UNCHANGED <<now, circuit, status, slotOf, genOf, line, generation, current,
                   replies, closeVars, closes>>

\* failWorker gives up the slot's present worker, whichever event it handles;
\* ts are the slot's threads.
GiveUp(s, ts) ==
    /\ current' = [current EXCEPT ![s] = 0]
    /\ threads' = [threads EXCEPT ![s] =
          [w \in 1 .. Len(ts) |->
             IF w = current[s] /\ ts[w].state \in {"starting", "ready"}
               THEN [ts[w] EXCEPT !.state = "stopping"] ELSE ts[w]]]

\* rejectPending: at most the head of the line has been sent.
RejectSent(s) ==
    IF line[s] # <<>> /\ status[Head(line[s])] = "sent"
      THEN Leave(s, Head(line[s]), "error")
      ELSE UNCHANGED <<status, line, circuit>>

\* Mutant: an answer settles whatever call is pending in the slot.
AnsweredByAny(c) == {d \in Calls : status[d] = "sent" /\ slotOf[d] = slotOf[c]}

\* this.pending.get(message.requestId)
AnsweredBy(c) == {d \in Calls : d = c /\ status[d] = "sent"}

HandleReply(c, outcome) ==
    /\ <<c, outcome>> \in replies
    /\ replies' = replies \ {<<c, outcome>>}
    /\ \/ \E d \in AnsweredBy(c) : Leave(slotOf[d], d, outcome)
       \/ AnsweredBy(c) = {} /\ UNCHANGED <<status, line, circuit>>
    /\ UNCHANGED <<now, slotOf, genOf, generation, current, threads, closeVars, errors,
                   closes>>

\* The hard timer, timeoutMs + 250 after the request was posted.
HardTimeout(s, c) ==
    /\ HasTurn(s, c) /\ status[c] = "sent"
    /\ Leave(s, c, "error")
    /\ GiveUp(s, threads[s])
    /\ UNCHANGED <<now, slotOf, genOf, generation, replies, closeVars, errors, closes>>

\* The head of the line waits for worker w to become ready.
AwaitsStart(s, w) ==
    /\ line[s] # <<>> /\ status[Head(line[s])] = "starting"
    /\ w = Len(threads[s]) /\ ~threads[s][w].ready

\* The 'error' event.  The call that waits for this worker to start fails.
HandleError(s, w) ==
    /\ threads[s][w].state = "erring"
    /\ GiveUp(s, [threads[s] EXCEPT ![w].state = "gone"])
    /\ IF AwaitsStart(s, w) THEN Leave(s, Head(line[s]), "error") ELSE RejectSent(s)
    /\ UNCHANGED <<now, slotOf, genOf, generation, replies, closeVars, errors, closes>>

\* Mutant: nothing is rejected when a worker ends before it became ready.
HandleExitSilent(s, w) ==
    /\ threads[s][w].state = "stopping"
    /\ threads' = [threads EXCEPT ![s][w].state = "gone", ![s][w].job = {}]
    /\ UNCHANGED <<now, circuit, status, slotOf, genOf, line, generation, current,
                   replies, closeVars, errors, closes>>

\* The 'exit' event of a terminated worker.  If it never became ready, the
\* call that waits for it fails.
HandleExit(s, w) ==
    /\ threads[s][w].state = "stopping"
    /\ IF threads[s][w].ready
         THEN /\ threads' = [threads EXCEPT ![s][w].state = "gone", ![s][w].job = {}]
              /\ UNCHANGED <<current, status, line, circuit>>
         ELSE /\ GiveUp(s, [threads[s] EXCEPT ![w].state = "gone", ![w].job = {}])
              /\ IF AwaitsStart(s, w) THEN Leave(s, Head(line[s]), "error")
                                      ELSE RejectSent(s)
    /\ UNCHANGED <<now, slotOf, genOf, generation, replies, closeVars, errors, closes>>

-----------------------------------------------------------------------------
(* close().                                                                *)

\* The circuits are cleared, every slot forgets its worker and rejects the
\* call that is pending; its failure is recorded after the clearing.
Close ==
    /\ closes < MaxCloses /\ ~closing
    /\ closes' = closes + 1
    /\ closing' = TRUE
    /\ awaited' = [calls |-> {c \in Calls : status[c] \in Waiting}, workers |-> current]
    /\ generation' = [s \in Slots |-> generation[s] + 1]
    /\ LET rejected == {c \in Calls : status[c] = "sent"}
       IN  /\ status' = [c \in Calls |-> IF c \in rejected THEN "error" ELSE status[c]]
           /\ line' = [s \in Slots |-> IF line[s] # <<>> /\ Head(line[s]) \in rejected
                                         THEN Tail(line[s]) ELSE line[s]]
           /\ circuit' = [k \in Keys |->
                 AfterFailures(NoCircuit,
                               Cardinality({c \in rejected \intersect Guarded : KeyOf[c] = k}))]
    /\ current' = [s \in Slots |-> 0]
    /\ threads' = [s \in Slots |->
          [w \in 1 .. Len(threads[s]) |->
             IF w = current[s] /\ threads[s][w].state \in {"starting", "ready"}
               THEN [threads[s][w] EXCEPT !.state = "stopping"] ELSE threads[s][w]]]
    /\ UNCHANGED <<now, slotOf, genOf, replies, errors>>

Settled(c) == status[c] \notin Waiting \union {"new"}

\* The workers have been terminated and every slot's last turn released.
CloseReturns ==
    /\ closing
    /\ \A c \in awaited.calls : Settled(c)
    /\ \A s \in Slots : awaited.workers[s] # 0 =>
                           threads[s][awaited.workers[s]].state = "gone"
    /\ closing' = FALSE
    /\ awaited' = Nothing

CloseEnds ==
    /\ CloseReturns
    /\ circuit' = [k \in Keys |-> NoCircuit]
    /\ UNCHANGED <<now, status, slotOf, genOf, line, generation, current, threads,
                   replies, errors, closes>>

-----------------------------------------------------------------------------
SlotStep(s) ==
    \/ \E c \in Calls : TakeTurn(s, c) \/ Send(s, c)
    \/ \E w \in DOMAIN threads[s] : WorkerReady(s, w) \/ HandleError(s, w)
                                     \/ HandleExit(s, w)

Next ==
    \/ Tick
    \/ \E c \in Calls : Execute(c)
    \/ \E c \in Calls : Validate(c)
    \/ \E s \in Slots, c \in Calls : TakeTurn(s, c)
    \/ \E s \in Slots, c \in Calls : Send(s, c)
    \/ \E s \in Slots : \E w \in DOMAIN threads[s] : WorkerReady(s, w)
    \/ \E s \in Slots : \E w \in DOMAIN threads[s] :
          \E c \in threads[s][w].job, outcome \in {"ok", "error"} :
             WorkerReplies(s, w, c, outcome)
    \/ \E s \in Slots : \E w \in DOMAIN threads[s] : WorkerErrs(s, w)
    \/ \E r \in replies : HandleReply(r[1], r[2])
    \/ \E s \in Slots, c \in Calls : HardTimeout(s, c)
    \/ \E s \in Slots : \E w \in DOMAIN threads[s] : HandleError(s, w)
    \/ \E s \in Slots : \E w \in DOMAIN threads[s] : HandleExit(s, w)
    \/ Close
    \/ CloseEnds

Spec == Init /\ [][Next]_vars

\* The event loop runs, timers fire, threads start or end.  A script need not
\* end and nobody needs to call anything.
Fairness ==
    /\ \A s \in Slots : WF_vars(SlotStep(s))
    /\ \A s \in Slots : WF_vars(\E c \in Calls : HardTimeout(s, c))
    /\ WF_vars(CloseEnds)

FairSpec == Spec /\ Fairness

-----------------------------------------------------------------------------
(* Properties.                                                             *)

\* A call that ended well was answered by the evaluation of its own script:
\* the late answer of a terminated worker never settles a younger call.
AnswersItsOwn ==
    \A c \in Calls : status[c] = "ok" =>
        /\ \A s \in Slots : \A w \in DOMAIN threads[s] : c \notin threads[s][w].job
        /\ \A r \in replies : r[1] # c

FailuresOf(k) ==
    Cardinality({c \in Guarded : KeyOf[c] = k /\ status[c] \in Failing})

\* A circuit opens only after as many failed executions of that rule version;
\* test runs and validations do not count.
OpensOnFailures == \A k \in Keys : IsOpen(k) => FailuresOf(k) >= Threshold

\* Every call of execute and validate returns, whatever happens to the worker
\* it was given to and to the calls before it in line.
EveryCallReturns == \A c \in Calls : []<>(status[c] \notin Waiting)

\* An open circuit stays open until its time is over.
StaysOpen ==
    [][\A k \in Keys : circuit[k].openUntil > now' =>
                        circuit'[k].openUntil >= circuit[k].openUntil]_vars

=============================================================================
