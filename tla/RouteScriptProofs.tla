-------------------------- MODULE RouteScriptProofs --------------------------
(***************************************************************************)
(* Theorems about RouteScriptRuntime: its types, that no call is answered  *)
(* for another one, and that a circuit opens on failures of its own.       *)
(***************************************************************************)
EXTENDS RouteScriptRuntime, FiniteSetTheorems, SequenceTheorems, TLAPS

(***************************************************************************)
(* The inductive invariant.                                                *)
(***************************************************************************)

\* The line of a slot has exactly its calls in flight, each once, and only its
\* head has had its turn.
LinesOK ==
    /\ \A s \in Slots : \A i, j \in DOMAIN line[s] :
          /\ slotOf[line[s][i]] = s
          /\ status[line[s][i]] \in Waiting
          /\ i > 1 => status[line[s][i]] = "queued"
          /\ line[s][i] = line[s][j] => i = j
    /\ \A c \in Calls : status[c] \in Waiting =>
          /\ slotOf[c] \in Slots
          /\ \E i \in DOMAIN line[slotOf[c]] : line[slotOf[c]][i] = c

\* The calls that no worker has been asked about.
Unasked == {"new", "queued", "starting"}

\* What a worker evaluates, or has answered, was asked once, and not yet
\* answered well.
AnswersOK ==
    /\ \A s, t \in Slots : \A v \in DOMAIN threads[s], w \in DOMAIN threads[t] :
          \A c \in threads[s][v].job \intersect threads[t][w].job : s = t /\ v = w
    /\ \A s \in Slots : \A w \in DOMAIN threads[s] : \A c \in threads[s][w].job :
          /\ status[c] \notin Unasked \union {"ok"}
          /\ \A r \in replies : r[1] # c
    /\ \A r \in replies : status[r[1]] \notin Unasked \union {"ok"}
    /\ \A q, r \in replies : q[1] = r[1] => q = r

\* A circuit counts no failure that did not happen, and opens at Threshold.
CircuitsOK ==
    \A k \in Keys : /\ Len(circuit[k].failures) <= FailuresOf(k)
                    /\ circuit[k].openUntil # 0 => Len(circuit[k].failures) >= Threshold

RuntimeInv == TypeOK /\ LinesOK /\ AnswersOK /\ CircuitsOK

(***************************************************************************)
(* Types and the circuit breaker.                                          *)
(***************************************************************************)

LEMMA Numbers ==
    /\ SlotCount \in Nat \ {0} /\ Threshold \in Nat \ {0} /\ OpenFor \in Nat \ {0}
    /\ Window \in Nat \ {0}
    /\ MaxTime \in Nat /\ MaxErrors \in Nat /\ MaxCloses \in Nat
BY NumberAssumption

CircuitState == [failures : Seq(0 .. MaxTime), openUntil : 0 .. MaxTime + OpenFor]

LEMMA RecentType ==
    ASSUME NEW f \in Seq(0 .. MaxTime), now \in 0 .. MaxTime
    PROVE  Recent(f) \in Seq(0 .. MaxTime) /\ Len(Recent(f)) <= Len(f)
<1> DEFINE old == {i \in DOMAIN f : now - f[i] > Window}
           n == Cardinality(old)
           len == Len(f)
<1>1. len \in Nat /\ DOMAIN f = 1 .. len
  OBVIOUS
<1>2. Recent(f) = SubSeq(f, n + 1, len)
  BY DEF Recent
<1>3. \A i \in 1 .. len : f[i] \in 0 .. MaxTime
  BY <1>1, ElementOfSeq
<1> HIDE DEF len
<1>4. n \in Nat /\ n <= len
  <2>1. IsFiniteSet(1 .. len) /\ Cardinality(1 .. len) = len
    BY <1>1, FS_Interval
  <2>2. IsFiniteSet(old) /\ n <= Cardinality(1 .. len)
    BY <1>1, <2>1, FS_Subset
  <2> QED BY <2>1, <2>2, FS_CardinalityType
<1> HIDE DEF n
<1>5. /\ SubSeq(f, n + 1, len) \in Seq(0 .. MaxTime)
      /\ Len(SubSeq(f, n + 1, len)) = IF n + 1 <= len THEN len - (n + 1) + 1 ELSE 0
  <2>1. n + 1 \in Int /\ len \in Int /\ \A i \in (n + 1) .. len : f[i] \in 0 .. MaxTime
    BY <1>1, <1>3, <1>4
  <2> QED BY <2>1, SubSeqProperties
<1>6. Len(SubSeq(f, n + 1, len)) <= len
  BY <1>1, <1>4, <1>5
<1> QED BY <1>2, <1>5, <1>6 DEF len

\* n failures more: the state is well-formed, and opens only at Threshold.
LEMMA AfterFailuresType ==
    ASSUME NEW st \in CircuitState, NEW n \in Nat, now \in 0 .. MaxTime,
           st.openUntil # 0 => Len(st.failures) >= Threshold
    PROVE  LET next == AfterFailures(st, n)
           IN  /\ next \in CircuitState
               /\ Len(next.failures) <= Len(st.failures) + n
               /\ next.openUntil # 0 => Len(next.failures) >= Threshold
<1> DEFINE new == [i \in 1 .. n |-> now]
           all == Recent(st.failures) \o new
<1>1. CASE n = 0
  BY <1>1 DEF AfterFailures, CircuitState
<1>2. CASE n # 0
  <2>1. st.failures \in Seq(0 .. MaxTime) /\ Len(st.failures) \in Nat
    BY DEF CircuitState
  <2>2. Recent(st.failures) \in Seq(0 .. MaxTime) /\ Len(Recent(st.failures)) <= Len(st.failures)
    BY <2>1, RecentType
  <2>3. new \in Seq(0 .. MaxTime) /\ Len(new) = n
    OBVIOUS
  <2> HIDE DEF new
  <2>4. all \in Seq(0 .. MaxTime) /\ Len(all) = Len(Recent(st.failures)) + n
    BY <2>2, <2>3
  <2>5. AfterFailures(st, n) = [failures |-> all,
                               openUntil |-> IF Len(all) >= Threshold THEN now + OpenFor ELSE 0]
    BY <1>2 DEF AfterFailures, new
  <2>6. Len(all) \in Nat /\ Len(Recent(st.failures)) \in Nat
    BY <2>2, <2>4
  <2> HIDE DEF all
  <2>7. (IF Len(all) >= Threshold THEN now + OpenFor ELSE 0) \in 0 .. MaxTime + OpenFor
    BY Numbers
  <2>8. AfterFailures(st, n) \in CircuitState /\ AfterFailures(st, n).failures = all
    BY <2>4, <2>5, <2>7 DEF CircuitState
  <2>9. AfterFailures(st, n).openUntil # 0 => Len(all) >= Threshold
    BY <2>5
  <2> QED BY <2>1, <2>2, <2>4, <2>6, <2>8, <2>9
<1> QED BY <1>1, <1>2

LEMMA NoCircuitType ==
    NoCircuit \in CircuitState /\ Len(NoCircuit.failures) = 0 /\ NoCircuit.openUntil = 0
BY Numbers DEF NoCircuit, CircuitState

\* Failures are counted: some more calls failed, and none less.
LEMMA FailuresGrow ==
    ASSUME TypeOK, NEW k \in Keys, NEW S \in SUBSET Guarded,
           \A c \in Calls : status[c] \in Failing => status'[c] \in Failing,
           \A c \in S : KeyOf[c] = k /\ status[c] \notin Failing /\ status'[c] \in Failing
    PROVE  /\ FailuresOf(k) \in Nat /\ FailuresOf(k)' \in Nat
           /\ FailuresOf(k) + Cardinality(S) <= FailuresOf(k)'
<1> DEFINE F == {c \in Guarded : KeyOf[c] = k /\ status[c] \in Failing}
           G == {c \in Guarded : KeyOf[c] = k /\ status'[c] \in Failing}
<1>1. Guarded \subseteq Calls /\ IsFiniteSet(Guarded)
  BY CallAssumption, FS_Subset
<1>2. IsFiniteSet(F) /\ IsFiniteSet(G) /\ IsFiniteSet(S)
  BY <1>1, FS_Subset
<1>3. F \intersect S = {} /\ F \union S \subseteq G
  BY <1>1
<1>4. Cardinality(F \union S) = Cardinality(F) + Cardinality(S)
  <2>1. Cardinality(F \union S) = Cardinality(F) + Cardinality(S) - Cardinality(F \intersect S)
    BY <1>2, FS_Union
  <2>2. Cardinality(F \intersect S) = 0
    BY <1>3, FS_EmptySet
  <2>3. Cardinality(F) \in Nat /\ Cardinality(S) \in Nat
    BY <1>2, FS_CardinalityType
  <2> HIDE DEF F
  <2> QED BY <2>1, <2>2, <2>3
<1>5. Cardinality(F \union S) <= Cardinality(G)
  BY <1>2, <1>3, FS_Subset
<1>6. Cardinality(F) \in Nat /\ Cardinality(G) \in Nat /\ Cardinality(S) \in Nat
  BY <1>2, FS_CardinalityType
<1>7. FailuresOf(k) = Cardinality(F) /\ FailuresOf(k)' = Cardinality(G)
  BY DEF FailuresOf
<1> HIDE DEF F, G
<1> QED BY <1>4, <1>5, <1>6, <1>7

\* Without a new failure and with the same circuits nothing changes.
LEMMA CircuitsKept ==
    ASSUME TypeOK, CircuitsOK, UNCHANGED circuit,
           \A c \in Calls : status[c] \in Failing => status'[c] \in Failing
    PROVE  CircuitsOK'
<1> SUFFICES ASSUME NEW k \in Keys
             PROVE  /\ Len(circuit[k].failures) <= FailuresOf(k)'
                    /\ circuit[k].openUntil # 0 => Len(circuit[k].failures) >= Threshold
  BY DEF CircuitsOK
<1>1. FailuresOf(k) + Cardinality({}) <= FailuresOf(k)' /\ FailuresOf(k) \in Nat /\ FailuresOf(k)' \in Nat
  <2>1. {} \in SUBSET Guarded
    OBVIOUS
  <2> QED BY <2>1, FailuresGrow
<1>2. Cardinality({}) = 0
  BY FS_EmptySet
<1>3. Len(circuit[k].failures) \in Nat
  BY DEF TypeOK
<1>4. Len(circuit[k].failures) <= FailuresOf(k)
  BY DEF CircuitsOK
<1> QED BY <1>1, <1>2, <1>3, <1>4 DEF CircuitsOK

\* A call ends; its circuit is told.
LEMMA RecordKeeps ==
    ASSUME TypeOK, CircuitsOK, NEW c \in Calls, NEW outcome \in {"ok", "error", "queue-full"},
           status[c] \notin Failing, status' = [status EXCEPT ![c] = outcome],
           Record(c, outcome)
    PROVE  circuit' \in [Keys -> CircuitState] /\ CircuitsOK'
<1>1. circuit \in [Keys -> CircuitState] /\ now \in 0 .. MaxTime
  BY DEF TypeOK, CircuitState
<1>2. \A d \in Calls : status[d] \in Failing => status'[d] \in Failing
  BY DEF TypeOK
<1>3. CASE c \notin Guarded
  BY <1>1, <1>2, <1>3, CircuitsKept DEF Record
<1>4. CASE c \in Guarded
  <2> DEFINE key == KeyOf[c]
  <2>1. key \in Keys
    BY DEF Keys
  <2>2. \A k \in Keys \ {key} : circuit'[k] = circuit[k]
    BY <1>1, <1>4 DEF Record
  <2>3. ASSUME NEW k \in Keys PROVE FailuresOf(k) \in Nat /\ FailuresOf(k)' \in Nat /\ FailuresOf(k) <= FailuresOf(k)'
    <3>1. {} \in SUBSET Guarded /\ Cardinality({}) = 0
      BY FS_EmptySet
    <3> QED BY <1>2, <3>1, FailuresGrow
  <2>4. \A k \in Keys : /\ Len(circuit[k].failures) <= FailuresOf(k)
                        /\ Len(circuit[k].failures) \in Nat
                        /\ circuit[k].openUntil # 0 => Len(circuit[k].failures) >= Threshold
    BY <1>1 DEF CircuitsOK, CircuitState
  <2>5. CASE outcome = "ok"
    <3>1. circuit' = [circuit EXCEPT ![key] = NoCircuit]
      BY <1>4, <2>5 DEF Record
    <3> HIDE DEF key
    <3> QED BY <1>1, <2>1, <2>2, <2>3, <2>4, <3>1, NoCircuitType DEF CircuitsOK
  <2>6. CASE outcome # "ok"
    <3> DEFINE next == AfterFailures(circuit[key], 1)
    <3>1. circuit' = [circuit EXCEPT ![key] = next]
      BY <1>4, <2>6 DEF Record
    <3>2. FailuresOf(key) + 1 <= FailuresOf(key)'
      <4>1. {c} \in SUBSET Guarded /\ Cardinality({c}) = 1
        BY <1>4, FS_Singleton
      <4>2. \A d \in {c} : KeyOf[d] = key /\ status[d] \notin Failing /\ status'[d] \in Failing
        BY <2>6 DEF TypeOK, Failing
      <4> QED BY <1>2, <2>1, <4>1, <4>2, FailuresGrow
    <3>3. /\ next \in CircuitState
          /\ Len(next.failures) <= Len(circuit[key].failures) + 1
          /\ next.openUntil # 0 => Len(next.failures) >= Threshold
      BY <1>1, <2>1, <2>4, AfterFailuresType
    <3>4. Len(next.failures) \in Nat
      BY <3>3 DEF CircuitState
    <3> HIDE DEF key, next
    <3> QED BY <1>1, <2>1, <2>2, <2>3, <2>4, <3>1, <3>2, <3>3, <3>4 DEF CircuitsOK
  <2> QED BY <2>5, <2>6
<1> QED BY <1>3, <1>4

(***************************************************************************)
(* The lines of the slots.                                                 *)
(***************************************************************************)

Statuses == {"new", "ok", "circuit-open"} \union Failing \union Waiting

LEMMA InLine ==
    ASSUME TypeOK, LinesOK, NEW s \in Slots, NEW i \in DOMAIN line[s]
    PROVE  line[s][i] \in Calls /\ status[line[s][i]] \in Waiting
<1>1. line[s] \in Seq(Calls)
  BY DEF TypeOK
<1> QED BY <1>1 DEF LinesOK

LEMMA HeadOfLine ==
    ASSUME TypeOK, LinesOK, NEW s \in Slots, line[s] # <<>>
    PROVE  /\ Head(line[s]) = line[s][1] /\ 1 \in DOMAIN line[s] /\ Head(line[s]) \in Calls
           /\ status[Head(line[s])] \in Waiting /\ slotOf[Head(line[s])] = s
<1>1. line[s] \in Seq(Calls)
  BY DEF TypeOK
<1>2. Head(line[s]) = line[s][1] /\ 1 \in DOMAIN line[s] /\ Head(line[s]) \in Calls
  BY <1>1
<1> QED BY <1>2 DEF LinesOK

\* A call that was sent is at the head of its line.
LEMMA SentIsHead ==
    ASSUME TypeOK, LinesOK, NEW c \in Calls, status[c] \in {"starting", "sent"}
    PROVE  slotOf[c] \in Slots /\ line[slotOf[c]] # <<>> /\ c = Head(line[slotOf[c]])
<1>1. slotOf[c] \in Slots
  BY DEF LinesOK, Waiting
<1>2. PICK i \in DOMAIN line[slotOf[c]] : line[slotOf[c]][i] = c
  BY DEF LinesOK, Waiting
<1>3. line[slotOf[c]] \in Seq(Calls)
  BY <1>1 DEF TypeOK
<1>4. ~(i > 1)
  BY <1>1, <1>2 DEF LinesOK
<1>5. i = 1
  BY <1>2, <1>3, <1>4
<1> QED BY <1>1, <1>2, <1>3, <1>5

\* Heads of some lines leave at once: the calls of S, which get other states.
LEMMA HeadsLeave ==
    ASSUME TypeOK, LinesOK, UNCHANGED slotOf,
           NEW S \in SUBSET Calls,
           \A c \in S : \E s \in Slots : line[s] # <<>> /\ c = Head(line[s]),
           \A c \in S : status'[c] \notin Waiting,
           \A c \in Calls \ S : status'[c] = status[c],
           line' = [s \in Slots |-> IF line[s] # <<>> /\ Head(line[s]) \in S
                                    THEN Tail(line[s]) ELSE line[s]]
    PROVE  line' \in [Slots -> Seq(Calls)] /\ LinesOK'
<1>1. \A s \in Slots : line[s] \in Seq(Calls)
  BY DEF TypeOK
<1>2. \A s \in Slots : \/ line'[s] = line[s] /\ (line[s] = <<>> \/ Head(line[s]) \notin S)
                       \/ line[s] # <<>> /\ line'[s] = Tail(line[s]) /\ Head(line[s]) \in S
  OBVIOUS
<1>3. line' \in [Slots -> Seq(Calls)]
  BY <1>1
<1>4. ASSUME NEW s \in Slots, NEW i \in DOMAIN line'[s], NEW j \in DOMAIN line'[s]
      PROVE  /\ slotOf'[line'[s][i]] = s
             /\ status'[line'[s][i]] \in Waiting
             /\ i > 1 => status'[line'[s][i]] = "queued"
             /\ line'[s][i] = line'[s][j] => i = j
  <2>0. /\ \A k \in DOMAIN line[s] : /\ line[s][k] \in Calls /\ slotOf[line[s][k]] = s
                                     /\ status[line[s][k]] \in Waiting
                                     /\ k > 1 => status[line[s][k]] = "queued"
        /\ \A k, l \in DOMAIN line[s] : line[s][k] = line[s][l] => k = l
    BY <1>1 DEF LinesOK
  <2>1. ASSUME NEW d \in S, slotOf[d] = s PROVE line[s] # <<>> /\ d = Head(line[s])
    <3>1. PICK t \in Slots : line[t] # <<>> /\ d = Head(line[t])
      OBVIOUS
    <3> QED BY <2>1, <3>1, HeadOfLine
  <2>2. CASE line'[s] = line[s] /\ (line[s] = <<>> \/ Head(line[s]) \notin S)
    <3> DEFINE e == line[s][i]
    <3>1. /\ i \in DOMAIN line[s] /\ j \in DOMAIN line[s] /\ line'[s][i] = e
          /\ line'[s][j] = line[s][j]
      BY <2>2
    <3>2. e \in Calls /\ slotOf[e] = s /\ status[e] \in Waiting
      BY <2>0, <3>1
    <3>3. e \notin S
      BY <2>1, <2>2, <3>2
    <3>4. status'[e] = status[e] /\ slotOf'[e] = slotOf[e]
      BY <3>2, <3>3
    <3> QED BY <2>0, <3>1, <3>2, <3>4
  <2>3. CASE line[s] # <<>> /\ line'[s] = Tail(line[s]) /\ Head(line[s]) \in S
    <3> DEFINE e == line[s][i + 1]
    <3>1. /\ i \in Nat \ {0} /\ j \in Nat \ {0} /\ 1 \in DOMAIN line[s]
          /\ i + 1 \in DOMAIN line[s] /\ j + 1 \in DOMAIN line[s]
          /\ line'[s][i] = e /\ line'[s][j] = line[s][j + 1]
          /\ Head(line[s]) = line[s][1]
      BY <1>1, <2>3, HeadTailProperties
    <3>2. i + 1 # 1 /\ i + 1 > 1
      BY <3>1
    <3>3. e \in Calls /\ slotOf[e] = s /\ status[e] = "queued"
      BY <2>0, <3>1, <3>2
    <3>4. e # Head(line[s])
      BY <2>0, <3>1, <3>2
    <3>5. status'[e] = status[e] /\ slotOf'[e] = slotOf[e]
      BY <2>1, <3>3, <3>4
    <3>6. e = line[s][j + 1] => i + 1 = j + 1
      BY <2>0, <3>1
    <3> HIDE DEF e
    <3>7. line'[s][i] = line'[s][j] => i = j
      BY <3>1, <3>6
    <3> QED BY <3>1, <3>3, <3>5, <3>7 DEF Waiting
  <2> QED BY <1>2, <2>2, <2>3
<1>5. ASSUME NEW c \in Calls, status'[c] \in Waiting
      PROVE  /\ slotOf'[c] \in Slots
             /\ \E i \in DOMAIN line'[slotOf'[c]] : line'[slotOf'[c]][i] = c
  <2> DEFINE s == slotOf[c]
  <2>0. slotOf'[c] = s
    OBVIOUS
  <2>1. c \notin S /\ status[c] \in Waiting
    BY <1>5
  <2>2. s \in Slots
    BY <2>1 DEF LinesOK
  <2>3. PICK i \in DOMAIN line[s] : line[s][i] = c
    BY <2>1 DEF LinesOK
  <2> HIDE DEF s
  <2>4. CASE line'[s] = line[s]
    BY <2>0, <2>2, <2>3, <2>4
  <2>5. CASE line[s] # <<>> /\ line'[s] = Tail(line[s]) /\ Head(line[s]) \in S
    <3>1. Head(line[s]) = line[s][1] /\ i \in 1 .. Len(line[s]) /\ Len(line[s]) \in Nat
      BY <1>1, <2>2, <2>3, <2>5, HeadTailProperties
    <3>2. i # 1
      BY <2>1, <2>3, <2>5, <3>1
    <3>3. /\ Len(line'[s]) = Len(line[s]) - 1 /\ DOMAIN line'[s] = 1 .. Len(line'[s])
          /\ \A k \in 1 .. Len(line'[s]) : line'[s][k] = line[s][k + 1]
      BY <1>1, <1>3, <2>2, <2>5, HeadTailProperties
    <3>4. i - 1 \in DOMAIN line'[s] /\ line'[s][i - 1] = c
      BY <2>3, <3>1, <3>2, <3>3
    <3> QED BY <2>0, <2>2, <3>4
  <2> QED BY <1>2, <2>2, <2>4, <2>5
<1> QED BY <1>3, <1>4, <1>5 DEF LinesOK

LEMMA LeaveKeeps ==
    ASSUME TypeOK, LinesOK, CircuitsOK, UNCHANGED slotOf,
           NEW s \in Slots, line[s] # <<>>, NEW c, c = Head(line[s]),
           NEW outcome \in {"ok", "error"}, Leave(s, c, outcome)
    PROVE  /\ c \in Calls /\ status[c] \in Waiting
           /\ status' = [status EXCEPT ![c] = outcome] /\ status' \in [Calls -> Statuses]
           /\ line' \in [Slots -> Seq(Calls)] /\ LinesOK'
           /\ circuit' \in [Keys -> CircuitState] /\ CircuitsOK'
<1>1. c \in Calls /\ status[c] \in Waiting /\ slotOf[c] = s
  BY HeadOfLine
<1>2. status' = [status EXCEPT ![c] = outcome] /\ status \in [Calls -> Statuses]
  BY DEF Leave, TypeOK, Statuses
<1>3. status' \in [Calls -> Statuses]
  BY <1>2 DEF Statuses, Failing
<1>4. circuit' \in [Keys -> CircuitState] /\ CircuitsOK'
  BY <1>1, <1>2, RecordKeeps DEF Leave, Waiting, Failing
<1>5. line' = [t \in Slots |-> IF line[t] # <<>> /\ Head(line[t]) \in {c}
                               THEN Tail(line[t]) ELSE line[t]]
  <2>1. line' = [line EXCEPT ![s] = Tail(@)] /\ line \in [Slots -> Seq(Calls)]
    BY DEF Leave, TypeOK
  <2>2. \A t \in Slots \ {s} : line[t] # <<>> => Head(line[t]) # c
    BY <1>1, HeadOfLine
  <2>3. \A t \in Slots : line'[t] = IF line[t] # <<>> /\ Head(line[t]) \in {c}
                                   THEN Tail(line[t]) ELSE line[t]
    BY <2>1, <2>2
  <2>4. DOMAIN line' = Slots
    BY <2>1
  <2>5. line' = [t \in Slots |-> line'[t]]
    BY <2>1, <2>4
  <2> QED BY <2>3, <2>5, Zenon
<1>6. line' \in [Slots -> Seq(Calls)] /\ LinesOK'
  <2>1. {c} \in SUBSET Calls /\ \A d \in {c} : status'[d] \notin Waiting
    BY <1>1, <1>2 DEF Waiting
  <2>2. \A d \in Calls \ {c} : status'[d] = status[d]
    BY <1>2
  <2> QED BY <1>5, <2>1, <2>2, HeadsLeave
<1> QED BY <1>1, <1>2, <1>3, <1>4, <1>6

LEMMA EnterKeeps ==
    ASSUME TypeOK, LinesOK, CircuitsOK, NEW s \in Slots,
           NEW c \in Calls, status[c] = "new", Enter(c, s)
    PROVE  /\ status' = [status EXCEPT ![c] = "queued"] /\ status' \in [Calls -> Statuses]
           /\ slotOf' \in [Calls -> 0 .. SlotCount] /\ genOf' \in [Calls -> Nat]
           /\ line' \in [Slots -> Seq(Calls)] /\ LinesOK'
           /\ UNCHANGED circuit /\ CircuitsOK'
<1>1. /\ status' = [status EXCEPT ![c] = "queued"] /\ slotOf' = [slotOf EXCEPT ![c] = s]
      /\ genOf' = [genOf EXCEPT ![c] = generation[s]]
      /\ line' = [line EXCEPT ![s] = Append(line[s], c)] /\ UNCHANGED circuit
  BY DEF Enter
<1>2. /\ status \in [Calls -> Statuses] /\ line \in [Slots -> Seq(Calls)]
      /\ slotOf \in [Calls -> 0 .. SlotCount] /\ genOf \in [Calls -> Nat]
      /\ generation \in [Slots -> Nat]
  BY DEF TypeOK, Statuses
<1>3. /\ status' \in [Calls -> Statuses] /\ line' \in [Slots -> Seq(Calls)]
      /\ slotOf' \in [Calls -> 0 .. SlotCount] /\ genOf' \in [Calls -> Nat]
  <2>1. "queued" \in Statuses /\ s \in 0 .. SlotCount
    BY Numbers DEF Statuses, Waiting, Slots
  <2> QED BY <1>1, <1>2, <2>1
<1>4. CircuitsOK'
  <2>1. \A d \in Calls : status[d] \in Failing => status'[d] \in Failing
    BY <1>1, <1>2 DEF Failing
  <2> QED BY <1>1, <2>1, CircuitsKept
<1>5. ASSUME NEW t \in Slots, NEW i \in DOMAIN line[t]
      PROVE  line[t][i] \in Calls \ {c} /\ i \in Nat \ {0} /\ i <= Len(line[t])
  <2>1. status[line[t][i]] \in Waiting /\ line[t] \in Seq(Calls)
    BY <1>2 DEF LinesOK
  <2> QED BY <2>1 DEF Waiting
<1>6. LinesOK'
  <2> DEFINE l == Len(line[s])
  <2>1. /\ line'[s] = Append(line[s], c) /\ DOMAIN line[s] = 1 .. l /\ l \in Nat
        /\ DOMAIN line'[s] = 1 .. (l + 1) /\ line'[s][l + 1] = c
        /\ \A i \in 1 .. l : line'[s][i] = line[s][i]
    BY <1>1, <1>2
  <2>2. \A t \in Slots \ {s} : line'[t] = line[t]
    BY <1>1, <1>2
  <2> HIDE DEF l
  <2>3. \A d \in Calls \ {c} : status'[d] = status[d] /\ slotOf'[d] = slotOf[d]
    BY <1>1, <1>2
  <2>4. status'[c] = "queued" /\ slotOf'[c] = s
    BY <1>1, <1>2
  <2>5. ASSUME NEW t \in Slots, NEW i \in DOMAIN line'[t], NEW j \in DOMAIN line'[t]
        PROVE  /\ slotOf'[line'[t][i]] = t
               /\ status'[line'[t][i]] \in Waiting
               /\ i > 1 => status'[line'[t][i]] = "queued"
               /\ line'[t][i] = line'[t][j] => i = j
    <3>1. CASE t # s
      BY <1>5, <2>2, <2>3, <3>1 DEF LinesOK
    <3>2. CASE t = s /\ i = l + 1
      <4>1. j # l + 1 => line'[s][j] # c
        BY <1>5, <2>1, <3>2
      <4> QED BY <2>1, <2>4, <3>2, <4>1 DEF Waiting
    <3>3. CASE t = s /\ i # l + 1
      <4>1. i \in 1 .. l /\ line'[s][i] = line[s][i] /\ line[s][i] \in Calls \ {c}
        BY <1>5, <2>1, <3>3
      <4>2. line'[s][i] = line'[s][j] => j \in 1 .. l /\ line'[s][j] = line[s][j]
        BY <2>1, <3>3, <4>1
      <4>3. /\ slotOf[line[s][i]] = s /\ status[line[s][i]] \in Waiting
            /\ i > 1 => status[line[s][i]] = "queued"
            /\ j \in 1 .. l /\ line[s][i] = line[s][j] => i = j
        BY <2>1, <4>1 DEF LinesOK
      <4>4. slotOf'[line[s][i]] = slotOf[line[s][i]] /\ status'[line[s][i]] = status[line[s][i]]
        BY <2>3, <4>1
      <4> QED BY <3>3, <4>1, <4>2, <4>3, <4>4
    <3> QED BY <3>1, <3>2, <3>3
  <2>6. ASSUME NEW d \in Calls, status'[d] \in Waiting
        PROVE  slotOf'[d] \in Slots /\ \E i \in DOMAIN line'[slotOf'[d]] : line'[slotOf'[d]][i] = d
    <3>1. CASE d = c
      <4>1. l + 1 \in DOMAIN line'[s]
        BY <2>1
      <4> QED BY <2>1, <2>4, <3>1, <4>1
    <3>2. CASE d # c
      <4>1. slotOf'[d] = slotOf[d] /\ slotOf[d] \in Slots
        BY <2>3, <2>6, <3>2 DEF LinesOK
      <4>2. PICK i \in DOMAIN line[slotOf[d]] : line[slotOf[d]][i] = d
        BY <2>3, <2>6, <3>2 DEF LinesOK
      <4>3. i \in DOMAIN line'[slotOf[d]] /\ line'[slotOf[d]][i] = d
        <5>1. CASE slotOf[d] # s
          BY <2>2, <4>1, <4>2, <5>1
        <5>2. CASE slotOf[d] = s
          BY <2>1, <4>2, <5>2
        <5> QED BY <5>1, <5>2
      <4> QED BY <4>1, <4>3
    <3> QED BY <3>1, <3>2
  <2> QED BY <2>5, <2>6 DEF LinesOK
<1> QED BY <1>1, <1>3, <1>4, <1>6

(***************************************************************************)
(* Answers.                                                                *)
(***************************************************************************)

\* Workers evaluate nothing new, no answer is new, and who was asked is not
\* unasked again nor, but for the calls that are done with, answered well.
LEMMA AnswersKept ==
    ASSUME TypeOK, AnswersOK, NEW done,
           \A s \in Slots : \A w \in DOMAIN threads'[s] : \A c \in threads'[s][w].job :
              w \in DOMAIN threads[s] /\ c \in threads[s][w].job /\ c \notin done,
           \A r \in replies' : r \in replies /\ r[1] \notin done,
           \A c \in Calls \ done : status[c] \notin Unasked \union {"ok"} =>
                                   status'[c] \notin Unasked \union {"ok"}
    PROVE  AnswersOK'
<1> HIDE DEF Unasked
<1>1. ASSUME NEW s \in Slots, NEW w \in DOMAIN threads[s], NEW c \in threads[s][w].job
      PROVE  c \in Calls
  <2>1. threads[s][w] \in Thread
    BY DEF TypeOK
  <2> QED BY <2>1 DEF Thread
<1>2. \A r \in replies : r[1] \in Calls
  BY DEF TypeOK
<1>3. \A s, t \in Slots : \A v \in DOMAIN threads'[s], w \in DOMAIN threads'[t] :
         \A c \in threads'[s][v].job \intersect threads'[t][w].job : s = t /\ v = w
  BY DEF AnswersOK
<1>4. ASSUME NEW s \in Slots, NEW w \in DOMAIN threads'[s], NEW c \in threads'[s][w].job
      PROVE  /\ status'[c] \notin Unasked \union {"ok"}
             /\ \A r \in replies' : r[1] # c
  <2>1. w \in DOMAIN threads[s] /\ c \in threads[s][w].job /\ c \in Calls \ done
    BY <1>1
  <2>2. status[c] \notin Unasked \union {"ok"} /\ \A r \in replies : r[1] # c
    BY <2>1 DEF AnswersOK
  <2> QED BY <2>1, <2>2
<1>5. \A r \in replies' : status'[r[1]] \notin Unasked \union {"ok"}
  BY <1>2 DEF AnswersOK
<1>6. \A q, r \in replies' : q[1] = r[1] => q = r
  BY DEF AnswersOK
<1> QED BY <1>3, <1>4, <1>5, <1>6 DEF AnswersOK

\* The threads of the slots, of which only those of slot s change.
LEMMA ThreadsOfOne ==
    ASSUME TypeOK, NEW s \in Slots, NEW ts \in Seq(Thread), Len(ts) >= Len(threads[s]),
           threads' = [threads EXCEPT ![s] = ts]
    PROVE  /\ threads' \in [Slots -> Seq(Thread)] /\ threads'[s] = ts
           /\ \A t \in Slots \ {s} : threads'[t] = threads[t]
           /\ \A t \in Slots : Len(threads[t]) \in Nat /\ Len(threads'[t]) >= Len(threads[t])
<1>1. threads \in [Slots -> Seq(Thread)]
  BY DEF TypeOK
<1>2. threads' \in [Slots -> Seq(Thread)] /\ threads'[s] = ts /\ \A t \in Slots \ {s} : threads'[t] = threads[t]
  BY <1>1
<1>3. \A t \in Slots : Len(threads[t]) \in Nat
  BY <1>1
<1> QED BY <1>2, <1>3

\* One thread gets another state, and evaluates no more than before.
LEMMA OneThread ==
    ASSUME TypeOK, NEW s \in Slots, NEW w \in DOMAIN threads[s], NEW th \in Thread,
           th.job \subseteq threads[s][w].job
    PROVE  LET ts == [threads[s] EXCEPT ![w] = th]
           IN  /\ ts \in Seq(Thread) /\ Len(ts) = Len(threads[s])
               /\ DOMAIN ts = DOMAIN threads[s]
               /\ \A v \in DOMAIN ts : ts[v].job \subseteq threads[s][v].job
<1>1. threads[s] \in Seq(Thread)
  BY DEF TypeOK
<1> QED BY <1>1

\* Giving a worker up: its types, and no worker evaluates more than before.
LEMMA GiveUpKeeps ==
    ASSUME TypeOK, NEW s \in Slots, NEW ts \in Seq(Thread), Len(ts) = Len(threads[s]),
           DOMAIN ts = DOMAIN threads[s],
           \A v \in DOMAIN ts : ts[v].job \subseteq threads[s][v].job,
           GiveUp(s, ts)
    PROVE  /\ threads' \in [Slots -> Seq(Thread)] /\ current' \in [Slots -> Nat]
           /\ \A t \in Slots : current'[t] <= Len(threads'[t])
           /\ \A t \in Slots : \A w \in DOMAIN threads'[t] : \A c \in threads'[t][w].job :
                 w \in DOMAIN threads[t] /\ c \in threads[t][w].job
<1> DEFINE us == [w \in 1 .. Len(ts) |->
                    IF w = current[s] /\ ts[w].state \in {"starting", "ready"}
                      THEN [ts[w] EXCEPT !.state = "stopping"] ELSE ts[w]]
<1>1. threads' = [threads EXCEPT ![s] = us] /\ current' = [current EXCEPT ![s] = 0]
  BY DEF GiveUp
<1>2. \A w \in 1 .. Len(ts) : ts[w] \in Thread
  OBVIOUS
<1>3. \A w \in 1 .. Len(ts) : us[w] \in Thread /\ us[w].job = ts[w].job
  BY <1>2 DEF Thread
<1>4. us \in Seq(Thread) /\ Len(us) = Len(ts) /\ DOMAIN us = DOMAIN ts
  <2> DEFINE len == Len(ts)
  <2>1. len \in Nat /\ DOMAIN ts = 1 .. len
    OBVIOUS
  <2>2. DOMAIN us = 1 .. len /\ us = [w \in 1 .. len |-> us[w]]
    OBVIOUS
  <2>3. \A w \in 1 .. len : us[w] \in Thread
    BY <1>3
  <2> HIDE DEF us, len
  <2>4. us \in [1 .. len -> Thread]
    BY <2>2, <2>3
  <2>5. us \in Seq(Thread) /\ Len(us) = len
    BY <2>1, <2>4
  <2> QED BY <2>1, <2>2, <2>5 DEF len
<1> HIDE DEF us
<1>5. Len(us) >= Len(threads[s])
  BY <1>4 DEF TypeOK
<1>6. /\ threads' \in [Slots -> Seq(Thread)] /\ threads'[s] = us
      /\ \A t \in Slots \ {s} : threads'[t] = threads[t]
      /\ \A t \in Slots : Len(threads[t]) \in Nat /\ Len(threads'[t]) >= Len(threads[t])
  BY <1>1, <1>4, <1>5, ThreadsOfOne
<1>7. current' \in [Slots -> Nat] /\ \A t \in Slots : current'[t] <= current[t]
  BY <1>1 DEF TypeOK
<1>8. \A t \in Slots : current[t] <= Len(threads[t]) /\ current[t] \in Nat
  BY DEF TypeOK
<1>9. \A t \in Slots : current'[t] <= Len(threads'[t])
  <2> SUFFICES ASSUME NEW t \in Slots PROVE current'[t] <= Len(threads'[t])
    OBVIOUS
  <2>1. Len(threads'[t]) \in Nat
    BY <1>6
  <2>2. /\ current'[t] \in Nat /\ current[t] \in Nat /\ Len(threads[t]) \in Nat
        /\ current'[t] <= current[t] /\ current[t] <= Len(threads[t])
        /\ Len(threads[t]) <= Len(threads'[t])
    BY <1>6, <1>7, <1>8
  <2> QED BY <2>1, <2>2
<1>10. ASSUME NEW t \in Slots, NEW w \in DOMAIN threads'[t], NEW c \in threads'[t][w].job
       PROVE  w \in DOMAIN threads[t] /\ c \in threads[t][w].job
  <2>1. CASE t = s
    <3>1. w \in DOMAIN ts /\ w \in 1 .. Len(ts) /\ c \in us[w].job
      BY <1>4, <1>6, <1>10, <2>1
    <3> QED BY <1>3, <2>1, <3>1
  <2>2. CASE t # s
    BY <1>6, <1>10, <2>2
  <2> QED BY <2>1, <2>2
<1> QED BY <1>6, <1>7, <1>9, <1>10

\* What a failing worker does to the head of the line of its slot.
LEMMA HeadFails ==
    ASSUME TypeOK, LinesOK, CircuitsOK, UNCHANGED slotOf, NEW s \in Slots,
           \/ line[s] # <<>> /\ Leave(s, Head(line[s]), "error")
           \/ RejectSent(s)
    PROVE  /\ status' \in [Calls -> Statuses] /\ line' \in [Slots -> Seq(Calls)]
           /\ circuit' \in [Keys -> CircuitState] /\ LinesOK' /\ CircuitsOK'
           /\ \A c \in Calls : status'[c] \in {status[c], "error"}
<1>1. CASE line[s] # <<>> /\ Leave(s, Head(line[s]), "error")
  <2>1. /\ Head(line[s]) \in Calls
        /\ status' = [status EXCEPT ![Head(line[s])] = "error"] /\ status' \in [Calls -> Statuses]
        /\ line' \in [Slots -> Seq(Calls)] /\ LinesOK'
        /\ circuit' \in [Keys -> CircuitState] /\ CircuitsOK'
    BY <1>1, LeaveKeeps
  <2> QED BY <2>1 DEF TypeOK
<1>2. CASE UNCHANGED <<status, line, circuit>>
  <2>1. CircuitsOK'
    BY <1>2, CircuitsKept
  <2>2. LinesOK'
    BY <1>2 DEF LinesOK
  <2> QED BY <1>2, <2>1, <2>2 DEF TypeOK, Statuses, CircuitState
<1> QED BY <1>1, <1>2 DEF RejectSent

(***************************************************************************)
(* The invariant, action by action.                                        *)
(***************************************************************************)

LEMMA InitInv == Init => RuntimeInv
<1> SUFFICES ASSUME Init PROVE RuntimeInv
  OBVIOUS
<1>1. TypeOK
  <2> USE DEF Init
  <2>1. now \in 0 .. MaxTime /\ errors \in 0 .. MaxErrors /\ closes \in 0 .. MaxCloses
    BY Numbers
  <2>2. circuit \in [Keys -> CircuitState]
    BY NoCircuitType
  <2>3. slotOf \in [Calls -> 0 .. SlotCount] /\ genOf \in [Calls -> Nat]
    BY Numbers
  <2>4. /\ line \in [Slots -> Seq(Calls)] /\ threads \in [Slots -> Seq(Thread)]
        /\ generation \in [Slots -> Nat] /\ current \in [Slots -> Nat]
        /\ \A s \in Slots : current[s] <= Len(threads[s])
    OBVIOUS
  <2>5. awaited \in [calls : SUBSET Calls, workers : [Slots -> Nat]]
    BY DEF Nothing
  <2> QED BY <2>1, <2>2, <2>3, <2>4, <2>5 DEF TypeOK, CircuitState
<1>2. LinesOK
  BY DEF Init, LinesOK, Waiting
<1>3. AnswersOK
  BY DEF Init, AnswersOK
<1>4. CircuitsOK
  <2>1. \A k \in Keys : FailuresOf(k) = 0
    <3> SUFFICES ASSUME NEW k \in Keys PROVE FailuresOf(k) = 0
      OBVIOUS
    <3>1. Guarded \subseteq Calls
      BY CallAssumption
    <3>2. {c \in Guarded : KeyOf[c] = k /\ status[c] \in Failing} = {}
      BY <3>1 DEF Init, Failing
    <3> QED BY <3>2, FS_EmptySet DEF FailuresOf
  <2> QED BY <2>1, NoCircuitType DEF Init, CircuitsOK
<1> QED BY <1>1, <1>2, <1>3, <1>4 DEF RuntimeInv

\* Nothing but the clock, or the counters of close() and errors, changes.
LEMMA OtherKeeps ==
    ASSUME RuntimeInv, Tick \/ UNCHANGED vars
    PROVE  RuntimeInv'
<1> USE DEF RuntimeInv
<1>1. UNCHANGED <<circuit, status, slotOf, line, threads, replies>>
  BY DEF Tick, vars
<1>2. TypeOK'
  BY Numbers DEF TypeOK, Tick, vars, closeVars
<1>3. LinesOK'
  BY <1>1 DEF LinesOK
<1>4. AnswersOK'
  BY <1>1 DEF AnswersOK
<1>5. CircuitsOK'
  BY <1>1, CircuitsKept
<1> QED BY <1>2, <1>3, <1>4, <1>5

LEMMA CloseEndsKeeps == RuntimeInv /\ CloseEnds => RuntimeInv'
<1> SUFFICES ASSUME RuntimeInv, CloseEnds PROVE RuntimeInv'
  OBVIOUS
<1> USE DEF RuntimeInv
<1>1. /\ circuit' = [k \in Keys |-> NoCircuit] /\ closing' = FALSE /\ awaited' = Nothing
      /\ UNCHANGED <<now, status, slotOf, genOf, line, generation, current, threads,
                     replies, errors, closes>>
  BY DEF CloseEnds, CloseReturns
<1>2. TypeOK'
  BY <1>1, NoCircuitType DEF TypeOK, CircuitState, Nothing
<1>3. LinesOK'
  BY <1>1 DEF LinesOK
<1>4. AnswersOK'
  BY <1>1 DEF AnswersOK
<1>5. CircuitsOK'
  <2>1. ASSUME NEW k \in Keys PROVE FailuresOf(k)' \in Nat
    <3>1. {} \in SUBSET Guarded
      OBVIOUS
    <3> QED BY <1>1, <3>1, FailuresGrow
  <2> QED BY <1>1, <2>1, NoCircuitType DEF CircuitsOK
<1> QED BY <1>2, <1>3, <1>4, <1>5

\* The state of an answer does not change by what happens to an unasked call.
LEMMA UnaskedMoves ==
    ASSUME RuntimeInv, UNCHANGED <<threads, replies>>, NEW c, NEW new,
           status' = [status EXCEPT ![c] = new], status[c] \in Unasked
    PROVE  AnswersOK'
<1> USE DEF RuntimeInv
<1> HIDE DEF Unasked
<1>1. \A s \in Slots : \A w \in DOMAIN threads[s] : c \notin threads[s][w].job
  BY DEF AnswersOK
<1>2. \A r \in replies : r[1] # c
  BY DEF AnswersOK
<1>3. \A d \in Calls \ {c} : status'[d] = status[d]
  BY DEF TypeOK
<1> DEFINE done == {c}
<1>4. /\ \A s \in Slots : \A w \in DOMAIN threads'[s] : \A d \in threads'[s][w].job :
            w \in DOMAIN threads[s] /\ d \in threads[s][w].job /\ d \notin done
      /\ \A r \in replies' : r \in replies /\ r[1] \notin done
  BY <1>1, <1>2
<1>5. \A d \in Calls \ done : status[d] \notin Unasked \union {"ok"} =>
                                  status'[d] \notin Unasked \union {"ok"}
  BY <1>3
<1> HIDE DEF done
<1> QED BY <1>4, <1>5, AnswersKept

LEMMA ExecuteKeeps ==
    ASSUME RuntimeInv, NEW c \in Calls, Execute(c) \/ Validate(c)
    PROVE  RuntimeInv'
<1> USE DEF RuntimeInv
<1>0. /\ status[c] = "new" /\ status[c] \in Unasked
      /\ UNCHANGED <<now, generation, current, threads, replies, closing, awaited, errors, closes>>
  BY DEF Execute, Validate, Unasked, closeVars
<1>1. ASSUME NEW s \in Slots, Enter(c, s) PROVE RuntimeInv'
  <2>1. /\ status' = [status EXCEPT ![c] = "queued"] /\ status' \in [Calls -> Statuses]
        /\ slotOf' \in [Calls -> 0 .. SlotCount] /\ genOf' \in [Calls -> Nat]
        /\ line' \in [Slots -> Seq(Calls)] /\ LinesOK' /\ UNCHANGED circuit /\ CircuitsOK'
    BY <1>0, <1>1, EnterKeeps
  <2>2. TypeOK'
    BY <1>0, <2>1 DEF TypeOK, Statuses
  <2>3. AnswersOK'
    BY <1>0, <2>1, UnaskedMoves
  <2> QED BY <2>1, <2>2, <2>3
<1>2. CASE /\ status' = [status EXCEPT ![c] = "circuit-open"]
           /\ UNCHANGED <<circuit, slotOf, genOf, line>>
  <2>1. TypeOK'
    BY <1>0, <1>2 DEF TypeOK
  <2>2. \A d \in Calls : d # c => status'[d] = status[d]
    BY <1>2 DEF TypeOK
  <2>3. status'[c] \notin Waiting \union Failing
    BY <1>2 DEF TypeOK, Waiting, Failing
  <2>4. AnswersOK'
    BY <1>0, <1>2, UnaskedMoves
  <2>5. CircuitsOK'
    <3>1. \A d \in Calls : status[d] \in Failing => status'[d] \in Failing
      BY <1>0, <2>2 DEF Failing
    <3> QED BY <1>2, <3>1, CircuitsKept
  <2>6. LinesOK'
    <3>1. \A s \in Slots : \A i \in DOMAIN line[s] : line[s][i] \in Calls /\ line[s][i] # c
      BY <1>0, InLine DEF Waiting
    <3> QED BY <1>2, <2>2, <2>3, <3>1 DEF LinesOK
  <2> QED BY <2>1, <2>4, <2>5, <2>6
<1>3. CASE /\ status' = [status EXCEPT ![c] = "queue-full"] /\ Record(c, "queue-full")
           /\ UNCHANGED <<slotOf, genOf, line>>
  <2>1. circuit' \in [Keys -> CircuitState] /\ CircuitsOK'
    BY <1>0, <1>3, RecordKeeps DEF Failing
  <2>2. TypeOK'
    BY <1>0, <1>3, <2>1 DEF TypeOK, CircuitState, Failing
  <2>3. AnswersOK'
    BY <1>0, <1>3, UnaskedMoves
  <2>4. LinesOK'
    <3>1. \A s \in Slots : \A i \in DOMAIN line[s] : line[s][i] \in Calls /\ line[s][i] # c
      BY <1>0, InLine DEF Waiting
    <3>2. \A d \in Calls : d # c => status'[d] = status[d]
      BY <1>3 DEF TypeOK
    <3>3. status'[c] \notin Waiting
      BY <1>3 DEF TypeOK, Waiting
    <3> QED BY <1>3, <3>1, <3>2, <3>3 DEF LinesOK
  <2> QED BY <2>1, <2>2, <2>3, <2>4
<1>4. \/ \E s \in Slots : Enter(c, s)
      \/ /\ status' = [status EXCEPT ![c] = "circuit-open"]
         /\ UNCHANGED <<circuit, slotOf, genOf, line>>
      \/ /\ status' = [status EXCEPT ![c] = "queue-full"] /\ Record(c, "queue-full")
         /\ UNCHANGED <<slotOf, genOf, line>>
  BY DEF Execute, Validate
<1> QED BY <1>1, <1>2, <1>3, <1>4

\* The head of a line has its turn, or its request is posted.
LEMMA HeadMoves ==
    ASSUME RuntimeInv, NEW s \in Slots, NEW c \in Calls, HasTurn(s, c),
           NEW new \in {"starting", "sent"}, status' = [status EXCEPT ![c] = new],
           UNCHANGED <<slotOf, line, circuit>>
    PROVE  status' \in [Calls -> Statuses] /\ LinesOK' /\ CircuitsOK'
<1> USE DEF RuntimeInv
<1>1. /\ line[s] # <<>> /\ c = line[s][1] /\ 1 \in DOMAIN line[s]
      /\ status[c] \in Waiting /\ slotOf[c] = s
  BY HeadOfLine DEF HasTurn
<1>2. status' \in [Calls -> Statuses] /\ status'[c] \in Waiting /\ status'[c] = new
  BY DEF TypeOK, Statuses, Waiting
<1>3. \A d \in Calls \ {c} : status'[d] = status[d]
  BY DEF TypeOK
<1>4. CircuitsOK'
  <2>1. status[c] \notin Failing
    BY <1>1 DEF Failing, Waiting
  <2>2. \A d \in Calls : status[d] \in Failing => status'[d] \in Failing
    BY <1>3, <2>1
  <2> QED BY <2>2, CircuitsKept
<1>5. LinesOK'
  <2>1. ASSUME NEW t \in Slots, NEW i \in DOMAIN line[t], NEW j \in DOMAIN line[t]
        PROVE  /\ slotOf[line[t][i]] = t
               /\ status'[line[t][i]] \in Waiting
               /\ i > 1 => status'[line[t][i]] = "queued"
               /\ line[t][i] = line[t][j] => i = j
    <3>1. /\ slotOf[line[t][i]] = t /\ status[line[t][i]] \in Waiting
          /\ i > 1 => status[line[t][i]] = "queued"
          /\ line[t][i] = line[t][j] => i = j
      BY DEF LinesOK
    <3>2. line[t][i] \in Calls
      BY InLine
    <3>3. CASE line[t][i] = c
      <4>1. t = s
        BY <1>1, <3>1, <3>3
      <4>2. i = 1
        BY <1>1, <3>3, <4>1 DEF LinesOK
      <4> QED BY <1>2, <3>1, <3>3, <4>2
    <3>4. CASE line[t][i] # c
      BY <1>3, <3>1, <3>2, <3>4
    <3> QED BY <3>3, <3>4
  <2>2. ASSUME NEW d \in Calls, status'[d] \in Waiting
        PROVE  slotOf[d] \in Slots /\ \E i \in DOMAIN line[slotOf[d]] : line[slotOf[d]][i] = d
    <3>1. status[d] \in Waiting
      BY <1>1, <1>3, <2>2
    <3> QED BY <3>1 DEF LinesOK
  <2>3. line' = line /\ slotOf' = slotOf
    OBVIOUS
  <2> QED BY <2>1, <2>2, <2>3 DEF LinesOK
<1> QED BY <1>2, <1>4, <1>5

\* A call fails, or several do, while nothing is asked or answered.
LEMMA FailuresKeepAnswers ==
    ASSUME RuntimeInv,
           \A s \in Slots : \A w \in DOMAIN threads'[s] : \A c \in threads'[s][w].job :
              w \in DOMAIN threads[s] /\ c \in threads[s][w].job,
           replies' \subseteq replies,
           \A c \in Calls : status'[c] \in {status[c], "error"}
    PROVE  AnswersOK'
<1> USE DEF RuntimeInv
<1>1. \A c \in Calls \ {} : status[c] \notin Unasked \union {"ok"} =>
                            status'[c] \notin Unasked \union {"ok"}
  BY DEF Unasked
<1>2. /\ \A s \in Slots : \A w \in DOMAIN threads'[s] : \A c \in threads'[s][w].job :
            w \in DOMAIN threads[s] /\ c \in threads[s][w].job /\ c \notin {}
      /\ \A r \in replies' : r \in replies /\ r[1] \notin {}
  OBVIOUS
<1> DEFINE none == {}
<1>3. /\ \A s \in Slots : \A w \in DOMAIN threads'[s] : \A c \in threads'[s][w].job :
            w \in DOMAIN threads[s] /\ c \in threads[s][w].job /\ c \notin none
      /\ \A r \in replies' : r \in replies /\ r[1] \notin none
      /\ \A c \in Calls \ none : status[c] \notin Unasked \union {"ok"} =>
                                 status'[c] \notin Unasked \union {"ok"}
  BY <1>1, <1>2
<1> HIDE DEF none
<1> QED BY <1>3, AnswersKept

LEMMA TakeTurnKeeps ==
    ASSUME RuntimeInv, NEW s \in Slots, NEW c \in Calls, TakeTurn(s, c)
    PROVE  RuntimeInv'
<1> USE DEF RuntimeInv
<1>0. /\ HasTurn(s, c) /\ status[c] = "queued" /\ status[c] \in Unasked
      /\ UNCHANGED <<now, slotOf, genOf, generation, replies, closing, awaited, errors, closes>>
  BY DEF TakeTurn, closeVars, Unasked
<1>1. CASE Leave(s, c, "error") /\ UNCHANGED <<current, threads>>
  <2>1. /\ status' = [status EXCEPT ![c] = "error"] /\ status' \in [Calls -> Statuses]
        /\ line' \in [Slots -> Seq(Calls)] /\ LinesOK'
        /\ circuit' \in [Keys -> CircuitState] /\ CircuitsOK'
    BY <1>0, <1>1, LeaveKeeps DEF HasTurn
  <2>2. AnswersOK'
    BY <1>0, <1>1, <2>1, UnaskedMoves
  <2>3. TypeOK'
    BY <1>0, <1>1, <2>1 DEF TypeOK, Statuses, CircuitState
  <2> QED BY <2>1, <2>2, <2>3
<1>2. CASE status' = [status EXCEPT ![c] = "starting"] /\ UNCHANGED <<circuit, line>>
  <2>1. status' \in [Calls -> Statuses] /\ LinesOK' /\ CircuitsOK'
    BY <1>0, <1>2, HeadMoves
  <2>2. CASE UNCHANGED <<current, threads>>
    <3>1. AnswersOK'
      BY <1>0, <1>2, <2>2, UnaskedMoves
    <3>2. TypeOK'
      BY <1>0, <1>2, <2>1, <2>2 DEF TypeOK, Statuses
    <3> QED BY <2>1, <3>1, <3>2
  <2>3. CASE /\ threads' = [threads EXCEPT ![s] =
                    Append(@, [state |-> "starting", ready |-> FALSE, job |-> {}])]
             /\ current' = [current EXCEPT ![s] = Len(threads'[s])]
    <3> DEFINE new == [state |-> "starting", ready |-> FALSE, job |-> {}]
               ts == Append(threads[s], new)
    <3>1. threads[s] \in Seq(Thread) /\ new \in Thread
      BY DEF TypeOK, Thread
    <3>2. /\ ts \in Seq(Thread) /\ Len(ts) = Len(threads[s]) + 1 /\ Len(threads[s]) \in Nat
          /\ DOMAIN ts = 1 .. (Len(threads[s]) + 1) /\ DOMAIN threads[s] = 1 .. Len(threads[s])
          /\ \A w \in DOMAIN threads[s] : ts[w] = threads[s][w]
          /\ ts[Len(threads[s]) + 1] = new
      BY <3>1
    <3>3. new.job = {}
      OBVIOUS
    <3> HIDE DEF new
    <3>4. threads' = [threads EXCEPT ![s] = ts]
      BY <2>3 DEF new
    <3> HIDE DEF ts
    <3>5. Len(ts) >= Len(threads[s])
      BY <3>2
    <3>6. /\ threads' \in [Slots -> Seq(Thread)] /\ threads'[s] = ts
          /\ \A t \in Slots \ {s} : threads'[t] = threads[t]
          /\ \A t \in Slots : Len(threads[t]) \in Nat /\ Len(threads'[t]) >= Len(threads[t])
      BY <3>2, <3>4, <3>5, ThreadsOfOne
    <3>7. current' \in [Slots -> Nat] /\ \A t \in Slots : current'[t] <= Len(threads'[t])
      <4>1. current \in [Slots -> Nat] /\ \A t \in Slots : current[t] <= Len(threads[t])
        BY DEF TypeOK
      <4>2. Len(threads'[s]) \in Nat
        BY <3>2, <3>6
      <4> QED BY <2>3, <3>6, <4>1, <4>2
    <3>8. \A t \in Slots : \A w \in DOMAIN threads'[t] : \A d \in threads'[t][w].job :
             w \in DOMAIN threads[t] /\ d \in threads[t][w].job
      <4> SUFFICES ASSUME NEW t \in Slots, NEW w \in DOMAIN threads'[t],
                          NEW d \in threads'[t][w].job
                   PROVE  w \in DOMAIN threads[t] /\ d \in threads[t][w].job
        OBVIOUS
      <4>1. CASE t = s
        <5>1. w \in DOMAIN ts /\ d \in ts[w].job
          BY <3>6, <4>1
        <5>2. w # Len(threads[s]) + 1
          BY <3>2, <3>3, <5>1
        <5>3. w \in DOMAIN threads[s]
          BY <3>2, <5>1, <5>2
        <5> QED BY <3>2, <4>1, <5>1, <5>3
      <4>2. CASE t # s
        BY <3>6, <4>2
      <4> QED BY <4>1, <4>2
    <3>9. AnswersOK'
      <4> DEFINE done == {c}
      <4>1. \A t \in Slots : \A w \in DOMAIN threads[t] : c \notin threads[t][w].job
        BY <1>0 DEF AnswersOK
      <4>2. \A r \in replies : r[1] # c
        BY <1>0 DEF AnswersOK
      <4>3. \A d \in Calls \ done : status'[d] = status[d]
        BY <1>2 DEF TypeOK
      <4>4. /\ \A t \in Slots : \A w \in DOMAIN threads'[t] : \A d \in threads'[t][w].job :
                  w \in DOMAIN threads[t] /\ d \in threads[t][w].job /\ d \notin done
            /\ \A r \in replies' : r \in replies /\ r[1] \notin done
        BY <1>0, <3>8, <4>1, <4>2
      <4> HIDE DEF done
      <4> QED BY <4>3, <4>4, AnswersKept
    <3>10. TypeOK'
      BY <1>0, <1>2, <2>1, <3>6, <3>7 DEF TypeOK, Statuses
    <3> QED BY <2>1, <3>9, <3>10
  <2> QED BY <1>2, <2>2, <2>3 DEF TakeTurn, Leave
<1> QED BY <1>1, <1>2 DEF TakeTurn

LEMMA SendKeeps ==
    ASSUME RuntimeInv, NEW s \in Slots, NEW c \in Calls, Send(s, c)
    PROVE  RuntimeInv'
<1> USE DEF RuntimeInv
<1>0. /\ HasTurn(s, c) /\ status[c] = "starting" /\ status[c] \in Unasked
      /\ UNCHANGED <<now, slotOf, genOf, generation, current, replies, closing, awaited,
                     errors, closes>>
  BY DEF Send, closeVars, Unasked
<1>1. CASE Leave(s, c, "error") /\ UNCHANGED threads
  <2>1. /\ status' = [status EXCEPT ![c] = "error"] /\ status' \in [Calls -> Statuses]
        /\ line' \in [Slots -> Seq(Calls)] /\ LinesOK'
        /\ circuit' \in [Keys -> CircuitState] /\ CircuitsOK'
    BY <1>0, <1>1, LeaveKeeps DEF HasTurn
  <2>2. AnswersOK'
    BY <1>0, <1>1, <2>1, UnaskedMoves
  <2>3. TypeOK'
    BY <1>0, <1>1, <2>1 DEF TypeOK, Statuses, CircuitState
  <2> QED BY <2>1, <2>2, <2>3
<1>2. CASE /\ current[s] # 0 /\ status' = [status EXCEPT ![c] = "sent"]
           /\ threads' = [threads EXCEPT ![s][current[s]].job = @ \union {c}]
           /\ UNCHANGED <<circuit, line>>
  <2> DEFINE w == current[s]
             th == [threads[s][w] EXCEPT !.job = @ \union {c}]
             ts == [threads[s] EXCEPT ![w] = th]
  <2>1. status' \in [Calls -> Statuses] /\ LinesOK' /\ CircuitsOK'
    BY <1>0, <1>2, HeadMoves
  <2>2. threads[s] \in Seq(Thread) /\ w \in DOMAIN threads[s]
    <3>1. threads[s] \in Seq(Thread) /\ w \in Nat /\ w # 0 /\ w <= Len(threads[s])
      BY <1>2 DEF TypeOK
    <3> QED BY <3>1
  <2>3. th \in Thread /\ th.job = threads[s][w].job \union {c}
    <3>1. threads[s][w] \in Thread
      BY <2>2
    <3> HIDE DEF w
    <3> QED BY <3>1 DEF Thread
  <2> HIDE DEF th
  <2>4. /\ ts \in Seq(Thread) /\ Len(ts) = Len(threads[s]) /\ DOMAIN ts = DOMAIN threads[s]
        /\ ts[w] = th /\ \A v \in DOMAIN ts \ {w} : ts[v] = threads[s][v]
    BY <2>2, <2>3
  <2>5. threads' = [threads EXCEPT ![s] = ts]
    BY <1>2 DEF th
  <2> HIDE DEF ts
  <2>6. Len(ts) >= Len(threads[s])
    BY <2>2, <2>4
  <2>7. /\ threads' \in [Slots -> Seq(Thread)] /\ threads'[s] = ts
        /\ \A t \in Slots \ {s} : threads'[t] = threads[t]
        /\ \A t \in Slots : Len(threads[t]) \in Nat /\ Len(threads'[t]) >= Len(threads[t])
    BY <2>4, <2>5, <2>6, ThreadsOfOne
  <2>8. \A t \in Slots : current'[t] <= Len(threads'[t])
    <3> SUFFICES ASSUME NEW t \in Slots PROVE current'[t] <= Len(threads'[t])
      OBVIOUS
    <3>1. CASE t = s
      BY <1>0, <2>4, <2>7, <3>1 DEF TypeOK
    <3>2. CASE t # s
      BY <1>0, <2>7, <3>2 DEF TypeOK
    <3> QED BY <3>1, <3>2
  <2>9. TypeOK'
    BY <1>0, <1>2, <2>1, <2>7, <2>8 DEF TypeOK, Statuses
  <2>10. AnswersOK'
    <3> HIDE DEF Unasked
    <3>1. ASSUME NEW t \in Slots, NEW v \in DOMAIN threads'[t], NEW d \in threads'[t][v].job
          PROVE  /\ v \in DOMAIN threads[t]
                 /\ \/ d = c /\ t = s /\ v = w
                    \/ d # c /\ d \in threads[t][v].job /\ d \in Calls
      <4>1. \A u \in DOMAIN threads[t] : c \notin threads[t][u].job
        BY <1>0 DEF AnswersOK
      <4>2. CASE t = s
        <5>1. threads'[t] = ts /\ v \in DOMAIN threads[s]
          BY <2>4, <2>7, <4>2
        <5>2. CASE v = w
          <6>1. threads[s][w] \in Thread
            BY <2>2
          <6>2. threads[s][w].job \subseteq Calls
            BY <6>1 DEF Thread
          <6>3. d \in threads[s][w].job \union {c}
            BY <2>3, <2>4, <3>1, <5>1, <5>2
          <6> QED BY <4>2, <5>1, <5>2, <6>2, <6>3
        <5>3. CASE v # w
          <6>1. threads[s][v] \in Thread
            BY <2>2, <5>1
          <6>2. threads[s][v].job \subseteq Calls
            BY <6>1 DEF Thread
          <6>3. ts[v] = threads[s][v]
            BY <2>4, <5>1, <5>3
          <6>4. d \in threads[s][v].job
            BY <3>1, <5>1, <6>3
          <6>5. d # c /\ d \in Calls
            BY <4>1, <4>2, <5>1, <6>2, <6>4
          <6>6. v \in DOMAIN threads[t] /\ d \in threads[t][v].job
            BY <4>2, <5>1, <6>4
          <6> QED BY <6>5, <6>6
        <5> QED BY <5>2, <5>3
      <4>3. CASE t # s
        <5>1. threads'[t] = threads[t] /\ v \in DOMAIN threads[t] /\ d \in threads[t][v].job
          BY <2>7, <3>1, <4>3
        <5>2. threads[t] \in Seq(Thread)
          BY DEF TypeOK
        <5>3. threads[t][v] \in Thread
          BY <5>1, <5>2
        <5>4. d \in Calls
          BY <5>1, <5>3 DEF Thread
        <5> QED BY <4>1, <5>1, <5>4
      <4> QED BY <4>2, <4>3
    <3>2. status'[c] \notin Unasked \union {"ok"} /\ \A d \in Calls \ {c} : status'[d] = status[d]
      BY <1>2 DEF TypeOK, Unasked
    <3>3. \A r \in replies : r[1] # c /\ r[1] \in Calls
      BY <1>0 DEF AnswersOK, TypeOK
    <3>4. \A t, u \in Slots : \A v \in DOMAIN threads'[t], x \in DOMAIN threads'[u] :
             \A d \in threads'[t][v].job \intersect threads'[u][x].job : t = u /\ v = x
      <4> SUFFICES ASSUME NEW t \in Slots, NEW u \in Slots, NEW v \in DOMAIN threads'[t],
                          NEW x \in DOMAIN threads'[u], NEW d \in threads'[t][v].job,
                          d \in threads'[u][x].job
                   PROVE  t = u /\ v = x
        OBVIOUS
      <4>1. CASE d = c
        BY <3>1, <4>1
      <4>2. CASE d # c
        <5>1. /\ v \in DOMAIN threads[t] /\ d \in threads[t][v].job
              /\ x \in DOMAIN threads[u] /\ d \in threads[u][x].job
          BY <3>1, <4>2
        <5> QED BY <5>1 DEF AnswersOK
      <4> QED BY <4>1, <4>2
    <3>5. ASSUME NEW t \in Slots, NEW v \in DOMAIN threads'[t], NEW d \in threads'[t][v].job
          PROVE  status'[d] \notin Unasked \union {"ok"} /\ \A r \in replies' : r[1] # d
      <4>1. replies' = replies
        BY <1>0
      <4>2. CASE d = c
        BY <3>2, <3>3, <4>1, <4>2
      <4>3. CASE d # c
        <5>1. v \in DOMAIN threads[t] /\ d \in threads[t][v].job /\ d \in Calls
          BY <3>1, <4>3
        <5>2. status[d] \notin Unasked \union {"ok"} /\ \A r \in replies : r[1] # d
          BY <5>1 DEF AnswersOK
        <5> QED BY <3>2, <4>1, <4>3, <5>1, <5>2
      <4> QED BY <4>2, <4>3
    <3>6. /\ \A r \in replies' : status'[r[1]] \notin Unasked \union {"ok"}
          /\ \A q, r \in replies' : q[1] = r[1] => q = r
      BY <1>0, <3>2, <3>3 DEF AnswersOK
    <3> QED BY <3>4, <3>5, <3>6 DEF AnswersOK
  <2> QED BY <2>1, <2>9, <2>10
<1> QED BY <1>1, <1>2 DEF Send

\* Types of the actions that change one thread of one slot.
LEMMA ThreadStep ==
    ASSUME RuntimeInv, NEW s \in Slots, NEW w \in DOMAIN threads[s], NEW th \in Thread,
           th.job \subseteq threads[s][w].job,
           threads' = [threads EXCEPT ![s] = [threads[s] EXCEPT ![w] = th]], UNCHANGED current
    PROVE  /\ threads' \in [Slots -> Seq(Thread)] /\ \A t \in Slots : current'[t] <= Len(threads'[t])
           /\ \A t \in Slots : \A v \in DOMAIN threads'[t] :
                 /\ v \in DOMAIN threads[t]
                 /\ threads'[t][v].job \subseteq threads[t][v].job
                 /\ t = s /\ v = w => threads'[t][v] = th
<1> USE DEF RuntimeInv
<1> DEFINE ts == [threads[s] EXCEPT ![w] = th]
<1>1. /\ ts \in Seq(Thread) /\ Len(ts) = Len(threads[s]) /\ DOMAIN ts = DOMAIN threads[s]
      /\ \A v \in DOMAIN ts : ts[v].job \subseteq threads[s][v].job
  BY OneThread
<1>2. ts[w] = th
  BY DEF TypeOK
<1> HIDE DEF ts
<1>3. threads' = [threads EXCEPT ![s] = ts]
  BY DEF ts
<1>4. Len(ts) >= Len(threads[s])
  BY <1>1 DEF TypeOK
<1>5. /\ threads' \in [Slots -> Seq(Thread)] /\ threads'[s] = ts
      /\ \A t \in Slots \ {s} : threads'[t] = threads[t]
      /\ \A t \in Slots : Len(threads[t]) \in Nat /\ Len(threads'[t]) >= Len(threads[t])
  BY <1>1, <1>3, <1>4, ThreadsOfOne
<1>6. \A t \in Slots : current'[t] <= Len(threads'[t])
  <2> SUFFICES ASSUME NEW t \in Slots PROVE current'[t] <= Len(threads'[t])
    OBVIOUS
  <2>1. Len(threads[t]) \in Nat /\ Len(threads'[t]) >= Len(threads[t])
    BY <1>5
  <2>2. Len(threads'[t]) \in Nat
    BY <1>5
  <2>3. current'[t] \in Nat /\ current'[t] <= Len(threads[t])
    BY DEF TypeOK
  <2> QED BY <2>1, <2>2, <2>3
<1>7. ASSUME NEW t \in Slots, NEW v \in DOMAIN threads'[t]
      PROVE  /\ v \in DOMAIN threads[t]
             /\ threads'[t][v].job \subseteq threads[t][v].job
             /\ t = s /\ v = w => threads'[t][v] = th
  <2>1. CASE t = s
    BY <1>1, <1>2, <1>5, <1>7, <2>1
  <2>2. CASE t # s
    BY <1>5, <1>7, <2>2
  <2> QED BY <2>1, <2>2
<1> QED BY <1>5, <1>6, <1>7

LEMMA WorkerReadyKeeps ==
    ASSUME RuntimeInv, NEW s \in Slots, NEW w \in DOMAIN threads[s],
           WorkerReady(s, w) \/ WorkerErrs(s, w)
    PROVE  RuntimeInv'
<1> USE DEF RuntimeInv
<1>1. threads[s][w] \in Thread
  BY DEF TypeOK
<1>2. \E th \in Thread : /\ th.job \subseteq threads[s][w].job
                         /\ threads' = [threads EXCEPT ![s] = [threads[s] EXCEPT ![w] = th]]
  <2>1. CASE WorkerReady(s, w)
    <3> DEFINE th == [threads[s][w] EXCEPT
                        !.state = IF @ = "starting" THEN "ready" ELSE @, !.ready = TRUE]
    <3>1. threads' = [threads EXCEPT ![s] = [threads[s] EXCEPT ![w] = th]]
      BY <2>1 DEF WorkerReady, TypeOK
    <3>2. th \in Thread /\ th.job = threads[s][w].job
      BY <1>1 DEF Thread
    <3> QED BY <3>1, <3>2
  <2>2. CASE WorkerErrs(s, w)
    <3> DEFINE th == [threads[s][w] EXCEPT !.state = "erring", !.job = {}]
    <3>1. threads' = [threads EXCEPT ![s] = [threads[s] EXCEPT ![w] = th]]
      BY <2>2 DEF WorkerErrs, TypeOK
    <3>2. th \in Thread /\ th.job = {}
      BY <1>1 DEF Thread
    <3> QED BY <3>1, <3>2
  <2> QED BY <2>1, <2>2
<1>3. UNCHANGED <<now, circuit, status, slotOf, genOf, line, generation, current,
                  replies, closing, awaited, closes>> /\ errors' \in 0 .. MaxErrors
  <2>1. errors \in 0 .. MaxErrors
    BY DEF TypeOK
  <2>2. CASE WorkerReady(s, w)
    BY <2>1, <2>2 DEF WorkerReady, closeVars
  <2>3. CASE WorkerErrs(s, w)
    <3>1. errors < MaxErrors /\ errors' = errors + 1
      BY <2>3 DEF WorkerErrs
    <3>2. errors' \in 0 .. MaxErrors
      BY <2>1, <3>1, Numbers
    <3> QED BY <2>3, <3>2 DEF WorkerErrs, closeVars
  <2> QED BY <2>2, <2>3
<1>4. PICK th \in Thread : /\ th.job \subseteq threads[s][w].job
                           /\ threads' = [threads EXCEPT ![s] = [threads[s] EXCEPT ![w] = th]]
  BY <1>2
<1>5. /\ threads' \in [Slots -> Seq(Thread)] /\ \A t \in Slots : current'[t] <= Len(threads'[t])
      /\ \A t \in Slots : \A v \in DOMAIN threads'[t] :
            v \in DOMAIN threads[t] /\ threads'[t][v].job \subseteq threads[t][v].job
  BY <1>3, <1>4, ThreadStep
<1>6. TypeOK'
  BY <1>3, <1>5 DEF TypeOK
<1>7. AnswersOK'
  BY <1>3, <1>5, FailuresKeepAnswers DEF TypeOK
<1>8. LinesOK'
  BY <1>3 DEF LinesOK
<1>9. CircuitsOK'
  BY <1>3, CircuitsKept
<1> QED BY <1>6, <1>7, <1>8, <1>9

LEMMA WorkerRepliesKeeps ==
    ASSUME RuntimeInv, NEW s \in Slots, NEW w \in DOMAIN threads[s],
           NEW c \in threads[s][w].job, NEW outcome \in {"ok", "error"},
           WorkerReplies(s, w, c, outcome)
    PROVE  RuntimeInv'
<1> USE DEF RuntimeInv
<1> DEFINE th == [threads[s][w] EXCEPT !.job = @ \ {c}]
<1>1. threads[s][w] \in Thread
  BY DEF TypeOK
<1>2. th \in Thread /\ th.job = threads[s][w].job \ {c} /\ c \in Calls
  BY <1>1 DEF Thread
<1>3. /\ threads' = [threads EXCEPT ![s] = [threads[s] EXCEPT ![w] = th]]
      /\ replies' = replies \union {<<c, outcome>>}
      /\ UNCHANGED <<now, circuit, status, slotOf, genOf, line, generation, current,
                     closing, awaited, errors, closes>>
  BY DEF WorkerReplies, closeVars, TypeOK
<1> HIDE DEF th
<1>4. /\ threads' \in [Slots -> Seq(Thread)] /\ \A t \in Slots : current'[t] <= Len(threads'[t])
      /\ \A t \in Slots : \A v \in DOMAIN threads'[t] :
            /\ v \in DOMAIN threads[t] /\ threads'[t][v].job \subseteq threads[t][v].job
            /\ t = s /\ v = w => threads'[t][v] = th
  BY <1>2, <1>3, ThreadStep
<1>5. TypeOK'
  <2>1. replies' \subseteq Calls \X {"ok", "error"}
    BY <1>2, <1>3 DEF TypeOK
  <2> QED BY <1>3, <1>4, <2>1 DEF TypeOK
<1>6. AnswersOK'
  <2> HIDE DEF Unasked
  <2>1. \A t \in Slots : \A v \in DOMAIN threads[t] : c \in threads[t][v].job => t = s /\ v = w
    BY DEF AnswersOK
  <2>2. ASSUME NEW t \in Slots, NEW v \in DOMAIN threads'[t], NEW d \in threads'[t][v].job
        PROVE  v \in DOMAIN threads[t] /\ d \in threads[t][v].job /\ d # c
    <3>1. v \in DOMAIN threads[t] /\ d \in threads[t][v].job
      BY <1>4
    <3>2. CASE t = s /\ v = w
      BY <1>2, <1>4, <3>1, <3>2
    <3>3. CASE ~(t = s /\ v = w)
      BY <2>1, <3>1, <3>3
    <3> QED BY <3>1, <3>2, <3>3
  <2>3. status[c] \notin Unasked \union {"ok"} /\ \A r \in replies : r[1] # c
    BY DEF AnswersOK
  <2>4. \A s1, t \in Slots : \A v \in DOMAIN threads'[s1], x \in DOMAIN threads'[t] :
           \A d \in threads'[s1][v].job \intersect threads'[t][x].job : s1 = t /\ v = x
    BY <2>2 DEF AnswersOK
  <2>5. ASSUME NEW t \in Slots, NEW v \in DOMAIN threads'[t], NEW d \in threads'[t][v].job
        PROVE  status'[d] \notin Unasked \union {"ok"} /\ \A r \in replies' : r[1] # d
    <3>1. v \in DOMAIN threads[t] /\ d \in threads[t][v].job /\ d # c
      BY <2>2
    <3>2. status[d] \notin Unasked \union {"ok"} /\ \A r \in replies : r[1] # d
      BY <3>1 DEF AnswersOK
    <3> QED BY <1>3, <3>1, <3>2
  <2>6. \A r \in replies' : status'[r[1]] \notin Unasked \union {"ok"}
    BY <1>3, <2>3 DEF AnswersOK
  <2>7. \A q, r \in replies' : q[1] = r[1] => q = r
    BY <1>3, <2>3 DEF AnswersOK
  <2> QED BY <2>4, <2>5, <2>6, <2>7 DEF AnswersOK
<1>7. LinesOK'
  BY <1>3 DEF LinesOK
<1>8. CircuitsOK'
  BY <1>3, CircuitsKept
<1> QED BY <1>5, <1>6, <1>7, <1>8

LEMMA HandleReplyKeeps ==
    ASSUME RuntimeInv, NEW r \in replies, HandleReply(r[1], r[2])
    PROVE  RuntimeInv'
<1> USE DEF RuntimeInv
<1> DEFINE c == r[1]
           outcome == r[2]
<1>1. c \in Calls /\ outcome \in {"ok", "error"} /\ r = <<c, outcome>>
  BY DEF TypeOK
<1>2. /\ replies' = replies \ {r}
      /\ UNCHANGED <<now, slotOf, genOf, generation, current, threads, closing, awaited,
                     errors, closes>>
  BY <1>1 DEF HandleReply, closeVars
<1>3. CASE AnsweredBy(c) = {} /\ UNCHANGED <<status, line, circuit>>
  <2>1. TypeOK' /\ LinesOK'
    BY <1>2, <1>3 DEF TypeOK, LinesOK
  <2>2. AnswersOK'
    BY <1>2, <1>3, FailuresKeepAnswers
  <2>3. CircuitsOK'
    BY <1>3, CircuitsKept
  <2> QED BY <2>1, <2>2, <2>3
<1>4. CASE \E d \in AnsweredBy(c) : Leave(slotOf[d], d, outcome)
  <2>1. status[c] = "sent" /\ Leave(slotOf[c], c, outcome)
    BY <1>4 DEF AnsweredBy
  <2>2. slotOf[c] \in Slots /\ line[slotOf[c]] # <<>> /\ c = Head(line[slotOf[c]])
    BY <1>1, <2>1, SentIsHead
  <2>3. /\ status' = [status EXCEPT ![c] = outcome] /\ status' \in [Calls -> Statuses]
        /\ line' \in [Slots -> Seq(Calls)] /\ LinesOK'
        /\ circuit' \in [Keys -> CircuitState] /\ CircuitsOK'
    BY <1>1, <1>2, <2>1, <2>2, LeaveKeeps
  <2>4. TypeOK'
    BY <1>2, <2>3 DEF TypeOK, Statuses, CircuitState
  <2>5. AnswersOK'
    <3> HIDE DEF Unasked
    <3> DEFINE done == {c}
    <3>1. \A t \in Slots : \A w \in DOMAIN threads[t] : c \notin threads[t][w].job
      BY DEF AnswersOK
    <3>2. \A q \in replies' : q \in replies /\ q[1] # c
      BY <1>2 DEF AnswersOK
    <3>3. \A d \in Calls \ done : status'[d] = status[d]
      BY <2>3 DEF TypeOK
    <3>4. /\ \A t \in Slots : \A w \in DOMAIN threads'[t] : \A d \in threads'[t][w].job :
                w \in DOMAIN threads[t] /\ d \in threads[t][w].job /\ d \notin done
          /\ \A q \in replies' : q \in replies /\ q[1] \notin done
      BY <1>2, <3>1, <3>2
    <3> HIDE DEF done, c, outcome
    <3> QED BY <3>3, <3>4, AnswersKept
  <2> QED BY <2>3, <2>4, <2>5
<1> QED BY <1>3, <1>4 DEF HandleReply

\* A worker is given up, and the head of the line may fail.
LEMMA GivenUp ==
    ASSUME RuntimeInv, NEW s \in Slots, NEW ts \in Seq(Thread), Len(ts) = Len(threads[s]),
           DOMAIN ts = DOMAIN threads[s],
           \A v \in DOMAIN ts : ts[v].job \subseteq threads[s][v].job,
           GiveUp(s, ts),
           \/ line[s] # <<>> /\ Leave(s, Head(line[s]), "error")
           \/ RejectSent(s),
           UNCHANGED <<now, slotOf, genOf, generation, replies, closing, awaited, errors, closes>>
    PROVE  RuntimeInv'
<1> USE DEF RuntimeInv
<1>1. /\ threads' \in [Slots -> Seq(Thread)] /\ current' \in [Slots -> Nat]
      /\ \A t \in Slots : current'[t] <= Len(threads'[t])
      /\ \A t \in Slots : \A w \in DOMAIN threads'[t] : \A c \in threads'[t][w].job :
            w \in DOMAIN threads[t] /\ c \in threads[t][w].job
  BY GiveUpKeeps
<1>2. /\ status' \in [Calls -> Statuses] /\ line' \in [Slots -> Seq(Calls)]
      /\ circuit' \in [Keys -> CircuitState] /\ LinesOK' /\ CircuitsOK'
      /\ \A c \in Calls : status'[c] \in {status[c], "error"}
  BY HeadFails
<1>3. TypeOK'
  BY <1>1, <1>2 DEF TypeOK, Statuses, CircuitState
<1>4. AnswersOK'
  BY <1>1, <1>2, FailuresKeepAnswers
<1> QED BY <1>2, <1>3, <1>4

LEMMA HardTimeoutKeeps ==
    ASSUME RuntimeInv, NEW s \in Slots, NEW c \in Calls, HardTimeout(s, c)
    PROVE  RuntimeInv'
<1> DEFINE ts == threads[s]
<1>1. /\ ts \in Seq(Thread) /\ Len(ts) = Len(threads[s]) /\ DOMAIN ts = DOMAIN threads[s]
      /\ \A v \in DOMAIN ts : ts[v].job \subseteq threads[s][v].job
  BY DEF RuntimeInv, TypeOK
<1>2. /\ GiveUp(s, ts) /\ line[s] # <<>> /\ Leave(s, Head(line[s]), "error")
      /\ UNCHANGED <<now, slotOf, genOf, generation, replies, closing, awaited, errors, closes>>
  BY DEF HardTimeout, HasTurn, closeVars
<1> HIDE DEF ts
<1> QED BY <1>1, <1>2, GivenUp

LEMMA HandleErrorKeeps ==
    ASSUME RuntimeInv, NEW s \in Slots, NEW w \in DOMAIN threads[s],
           HandleError(s, w) \/ HandleExit(s, w)
    PROVE  RuntimeInv'
<1>1. threads[s][w] \in Thread /\ threads[s] \in Seq(Thread)
  BY DEF RuntimeInv, TypeOK
<1> DEFINE th1 == [threads[s][w] EXCEPT !.state = "gone"]
           th2 == [threads[s][w] EXCEPT !.state = "gone", !.job = {}]
<1>2. /\ th1 \in Thread /\ th1.job \subseteq threads[s][w].job
      /\ th2 \in Thread /\ th2.job \subseteq threads[s][w].job
  BY <1>1 DEF Thread
<1>3. ASSUME NEW th \in {th1, th2}, GiveUp(s, [threads[s] EXCEPT ![w] = th]),
             \/ line[s] # <<>> /\ Leave(s, Head(line[s]), "error")
             \/ RejectSent(s),
             UNCHANGED <<now, slotOf, genOf, generation, replies, closing, awaited, errors, closes>>
      PROVE  RuntimeInv'
  <2> DEFINE ts == [threads[s] EXCEPT ![w] = th]
  <2>1. th \in Thread /\ th.job \subseteq threads[s][w].job
    BY <1>2
  <2> HIDE DEF th1, th2
  <2>2. /\ ts \in Seq(Thread) /\ Len(ts) = Len(threads[s]) /\ DOMAIN ts = DOMAIN threads[s]
        /\ \A v \in DOMAIN ts : ts[v].job \subseteq threads[s][v].job
    BY <2>1, OneThread DEF RuntimeInv
  <2>3. GiveUp(s, ts)
    BY <1>3
  <2> HIDE DEF ts
  <2> QED BY <1>3, <2>2, <2>3, GivenUp
<1>4. CASE HandleError(s, w)
  <2>1. GiveUp(s, [threads[s] EXCEPT ![w] = th1])
    BY <1>1, <1>4 DEF HandleError
  <2>2. \/ line[s] # <<>> /\ Leave(s, Head(line[s]), "error")
        \/ RejectSent(s)
    BY <1>4 DEF HandleError, AwaitsStart
  <2>3. UNCHANGED <<now, slotOf, genOf, generation, replies, closing, awaited, errors, closes>>
    BY <1>4 DEF HandleError, closeVars
  <2> QED BY <1>3, <2>1, <2>2, <2>3
<1>5. CASE HandleExit(s, w) /\ ~threads[s][w].ready
  <2>1. GiveUp(s, [threads[s] EXCEPT ![w] = th2])
    BY <1>1, <1>5 DEF HandleExit
  <2>2. \/ line[s] # <<>> /\ Leave(s, Head(line[s]), "error")
        \/ RejectSent(s)
    BY <1>5 DEF HandleExit, AwaitsStart
  <2>3. UNCHANGED <<now, slotOf, genOf, generation, replies, closing, awaited, errors, closes>>
    BY <1>5 DEF HandleExit, closeVars
  <2> QED BY <1>3, <2>1, <2>2, <2>3
<1>6. CASE HandleExit(s, w) /\ threads[s][w].ready
  <2> USE DEF RuntimeInv
  <2>0. threads \in [Slots -> Seq(Thread)] /\ threads[s] \in Seq(Thread)
    BY DEF TypeOK
  <2>1. /\ threads' = [threads EXCEPT ![s] = [threads[s] EXCEPT ![w] = th2]]
        /\ UNCHANGED <<now, circuit, status, slotOf, genOf, line, generation, current,
                       replies, closing, awaited, errors, closes>>
    <3>1. threads' = [threads EXCEPT ![s] = [threads[s] EXCEPT ![w] = th2]]
      BY <1>6, <2>0 DEF HandleExit
    <3>2. UNCHANGED <<now, circuit, status, slotOf, genOf, line, generation, current,
                      replies, closing, awaited, errors, closes>>
      BY <1>6 DEF HandleExit, closeVars
    <3> QED BY <3>1, <3>2
  <2> HIDE DEF th1, th2
  <2>2. /\ threads' \in [Slots -> Seq(Thread)] /\ \A t \in Slots : current'[t] <= Len(threads'[t])
        /\ \A t \in Slots : \A v \in DOMAIN threads'[t] :
              v \in DOMAIN threads[t] /\ threads'[t][v].job \subseteq threads[t][v].job
    BY <1>2, <2>1, ThreadStep
  <2>3. TypeOK'
    BY <2>1, <2>2 DEF TypeOK
  <2>6. LinesOK'
    BY <2>1 DEF LinesOK
  <2>4. AnswersOK'
    BY <2>1, <2>2, FailuresKeepAnswers DEF TypeOK
  <2>5. CircuitsOK'
    BY <2>1, CircuitsKept
  <2> QED BY <2>3, <2>6, <2>4, <2>5
<1> QED BY <1>4, <1>5, <1>6

\* close(): the calls that were sent fail, each at the head of its line, and
\* are counted by circuits that have just been cleared.
LEMMA CloseKeeps == RuntimeInv /\ Close => RuntimeInv'
<1> SUFFICES ASSUME RuntimeInv, Close PROVE RuntimeInv'
  OBVIOUS
<1> USE DEF RuntimeInv
<1> DEFINE rejected == {c \in Calls : status[c] = "sent"}
           counted(k) == {c \in rejected \intersect Guarded : KeyOf[c] = k}
           given(s) == [w \in 1 .. Len(threads[s]) |->
                          IF w = current[s] /\ threads[s][w].state \in {"starting", "ready"}
                            THEN [threads[s][w] EXCEPT !.state = "stopping"]
                            ELSE threads[s][w]]
<1>1. /\ closes < MaxCloses /\ closes' = closes + 1 /\ closing' = TRUE
      /\ awaited' = [calls |-> {c \in Calls : status[c] \in Waiting}, workers |-> current]
      /\ generation' = [s \in Slots |-> generation[s] + 1]
      /\ status' = [c \in Calls |-> IF c \in rejected THEN "error" ELSE status[c]]
      /\ line' = [s \in Slots |-> IF line[s] # <<>> /\ Head(line[s]) \in rejected
                                    THEN Tail(line[s]) ELSE line[s]]
      /\ circuit' = [k \in Keys |-> AfterFailures(NoCircuit, Cardinality(counted(k)))]
      /\ current' = [s \in Slots |-> 0]
      /\ threads' = [s \in Slots |-> given(s)]
      /\ UNCHANGED <<now, slotOf, genOf, replies, errors>>
  BY DEF Close
<1>2. /\ status' \in [Calls -> Statuses]
      /\ \A c \in Calls : status'[c] \in {status[c], "error"}
      /\ \A c \in Calls : status[c] \in Failing => status'[c] \in Failing
      /\ \A c \in rejected : status[c] \notin Failing /\ status'[c] \in Failing \ Waiting
      /\ \A c \in Calls \ rejected : status'[c] = status[c]
  BY <1>1 DEF TypeOK, Statuses, Failing, Waiting
<1>3. line' \in [Slots -> Seq(Calls)] /\ LinesOK'
  <2>1. \A c \in rejected : \E s \in Slots : line[s] # <<>> /\ c = Head(line[s])
    BY SentIsHead
  <2>2. rejected \in SUBSET Calls
    OBVIOUS
  <2>3. line' = [s \in Slots |-> IF line[s] # <<>> /\ Head(line[s]) \in rejected
                                   THEN Tail(line[s]) ELSE line[s]] /\ slotOf' = slotOf
    BY <1>1
  <2> HIDE DEF rejected
  <2> QED BY <1>2, <2>1, <2>2, <2>3, HeadsLeave
<1>4. ASSUME NEW s \in Slots
      PROVE  /\ given(s) \in Seq(Thread) /\ Len(given(s)) \in Nat
             /\ \A w \in DOMAIN given(s) : w \in DOMAIN threads[s] /\ given(s)[w].job = threads[s][w].job
  <2> DEFINE len == Len(threads[s])
             us == given(s)
  <2>1. threads[s] \in Seq(Thread) /\ len \in Nat /\ DOMAIN threads[s] = 1 .. len
    BY DEF TypeOK
  <2>2. \A w \in 1 .. len : threads[s][w] \in Thread
    BY <2>1
  <2>3. \A w \in 1 .. len : us[w] \in Thread /\ us[w].job = threads[s][w].job
    BY <2>2 DEF Thread
  <2>4. DOMAIN us = 1 .. len /\ us = [w \in 1 .. len |-> us[w]]
    OBVIOUS
  <2> HIDE DEF us, len
  <2>5. us \in [1 .. len -> Thread]
    BY <2>3, <2>4
  <2>6. us \in Seq(Thread) /\ Len(us) \in Nat
    BY <2>1, <2>5
  <2>7. \A w \in DOMAIN us : w \in DOMAIN threads[s] /\ us[w].job = threads[s][w].job
    BY <2>1, <2>3, <2>4
  <2> QED BY <2>6, <2>7 DEF us
<1> HIDE DEF given
<1>5. /\ threads' \in [Slots -> Seq(Thread)]
      /\ \A s \in Slots : current'[s] <= Len(threads'[s])
      /\ \A s \in Slots : \A w \in DOMAIN threads'[s] : \A c \in threads'[s][w].job :
            w \in DOMAIN threads[s] /\ c \in threads[s][w].job
  BY <1>1, <1>4
<1>6. ASSUME NEW k \in Keys
      PROVE  /\ circuit'[k] \in CircuitState
             /\ Len(circuit'[k].failures) <= FailuresOf(k)'
             /\ circuit'[k].openUntil # 0 => Len(circuit'[k].failures) >= Threshold
  <2> DEFINE S == counted(k)
             n == Cardinality(S)
             next == AfterFailures(NoCircuit, n)
  <2>1. S \in SUBSET Guarded /\ \A c \in S : c \in rejected /\ KeyOf[c] = k
    OBVIOUS
  <2>2. circuit'[k] = next
    BY <1>1
  <2> HIDE DEF S, rejected
  <2>3. n \in Nat
    BY <2>1, CallAssumption, FS_Subset, FS_CardinalityType
  <2>4. \A c \in S : KeyOf[c] = k /\ status[c] \notin Failing /\ status'[c] \in Failing
    BY <1>2, <2>1
  <2>5. FailuresOf(k) \in Nat /\ FailuresOf(k)' \in Nat /\ FailuresOf(k) + n <= FailuresOf(k)'
    BY <1>2, <2>1, <2>4, FailuresGrow
  <2>6. now \in 0 .. MaxTime
    BY DEF TypeOK
  <2> HIDE DEF n
  <2>7. /\ next \in CircuitState /\ Len(next.failures) <= Len(NoCircuit.failures) + n
        /\ next.openUntil # 0 => Len(next.failures) >= Threshold
    BY <2>3, <2>6, NoCircuitType, AfterFailuresType
  <2>8. Len(next.failures) \in Nat
    BY <2>7 DEF CircuitState
  <2> HIDE DEF next
  <2> QED BY <2>2, <2>3, <2>5, <2>7, <2>8, NoCircuitType
<1>7. circuit' \in [Keys -> CircuitState] /\ CircuitsOK'
  <2>1. DOMAIN circuit' = Keys /\ circuit' = [k \in Keys |-> circuit'[k]]
    BY <1>1
  <2> QED BY <1>6, <2>1 DEF CircuitsOK
<1>8. TypeOK'
  <2>1. generation' \in [Slots -> Nat] /\ current' \in [Slots -> Nat]
    BY <1>1 DEF TypeOK
  <2>2. closes' \in 0 .. MaxCloses
    BY <1>1, Numbers DEF TypeOK
  <2>3. awaited' \in [calls : SUBSET Calls, workers : [Slots -> Nat]]
    BY <1>1 DEF TypeOK
  <2>4. /\ now' \in 0 .. MaxTime /\ slotOf' \in [Calls -> 0 .. SlotCount]
        /\ genOf' \in [Calls -> Nat] /\ replies' \subseteq Calls \X {"ok", "error"}
        /\ errors' \in 0 .. MaxErrors /\ closing' \in BOOLEAN
    BY <1>1 DEF TypeOK
  <2> HIDE DEF rejected
  <2> QED BY <1>2, <1>3, <1>5, <1>7, <2>1, <2>2, <2>3, <2>4 DEF TypeOK, Statuses, CircuitState
<1>9. AnswersOK'
  BY <1>1, <1>2, <1>5, FailuresKeepAnswers
<1> QED BY <1>3, <1>7, <1>8, <1>9

LEMMA InvStep == RuntimeInv /\ [Next]_vars => RuntimeInv'
<1> SUFFICES ASSUME RuntimeInv, [Next]_vars PROVE RuntimeInv'
  OBVIOUS
<1>1. CASE Tick \/ UNCHANGED vars
  BY <1>1, OtherKeeps
<1>2. ASSUME NEW c \in Calls, Execute(c) \/ Validate(c) PROVE RuntimeInv'
  BY <1>2, ExecuteKeeps
<1>3. ASSUME NEW s \in Slots, NEW c \in Calls, TakeTurn(s, c) PROVE RuntimeInv'
  BY <1>3, TakeTurnKeeps
<1>4. ASSUME NEW s \in Slots, NEW c \in Calls, Send(s, c) PROVE RuntimeInv'
  BY <1>4, SendKeeps
<1>5. ASSUME NEW s \in Slots, NEW w \in DOMAIN threads[s], WorkerReady(s, w) \/ WorkerErrs(s, w)
      PROVE  RuntimeInv'
  BY <1>5, WorkerReadyKeeps
<1>6. ASSUME NEW s \in Slots, NEW w \in DOMAIN threads[s], NEW c \in threads[s][w].job,
             NEW outcome \in {"ok", "error"}, WorkerReplies(s, w, c, outcome)
      PROVE  RuntimeInv'
  BY <1>6, WorkerRepliesKeeps
<1>7. ASSUME NEW r \in replies, HandleReply(r[1], r[2]) PROVE RuntimeInv'
  BY <1>7, HandleReplyKeeps
<1>8. ASSUME NEW s \in Slots, NEW c \in Calls, HardTimeout(s, c) PROVE RuntimeInv'
  BY <1>8, HardTimeoutKeeps
<1>9. ASSUME NEW s \in Slots, NEW w \in DOMAIN threads[s], HandleError(s, w) \/ HandleExit(s, w)
      PROVE  RuntimeInv'
  BY <1>9, HandleErrorKeeps
<1>10. CASE Close
  BY <1>10, CloseKeeps
<1>11. CASE CloseEnds
  BY <1>11, CloseEndsKeeps
<1> QED BY <1>1, <1>2, <1>3, <1>4, <1>5, <1>6, <1>7, <1>8, <1>9, <1>10, <1>11 DEF Next

LEMMA Invariant == Spec => []RuntimeInv
<1>1. Init => RuntimeInv
  BY InitInv
<1>2. RuntimeInv /\ [Next]_vars => RuntimeInv'
  BY InvStep
<1> QED BY <1>1, <1>2, PTL DEF Spec

(***************************************************************************)
(* The theorems.                                                           *)
(***************************************************************************)

\* Every variable of RouteScriptRuntime keeps its type.
THEOREM TypesHold == Spec => []TypeOK
<1>1. RuntimeInv => TypeOK
  BY DEF RuntimeInv
<1> QED BY <1>1, Invariant, PTL

\* A call that ended well was answered by the evaluation of its own script:
\* whatever workers were terminated, replaced or answered late, no worker
\* still evaluates it and no second answer to it is on its way.
THEOREM CallsAreAnsweredTheirOwn == Spec => []AnswersItsOwn
<1>1. RuntimeInv => AnswersItsOwn
  <2> SUFFICES ASSUME RuntimeInv, NEW c \in Calls, status[c] = "ok"
               PROVE  /\ \A s \in Slots : \A w \in DOMAIN threads[s] : c \notin threads[s][w].job
                      /\ \A r \in replies : r[1] # c
    BY DEF AnswersItsOwn
  <2> QED BY DEF RuntimeInv, AnswersOK
<1> QED BY <1>1, Invariant, PTL

\* A circuit of execute() is open only if as many executions of that rule
\* version failed as the threshold says, whatever close() cleared before.
THEOREM CircuitsOpenOnFailures == Spec => []OpensOnFailures
<1>1. RuntimeInv => OpensOnFailures
  <2> SUFFICES ASSUME RuntimeInv, NEW k \in Keys, IsOpen(k)
               PROVE  FailuresOf(k) >= Threshold
    BY DEF OpensOnFailures
  <2>1. FailuresOf(k) \in Nat
    <3>1. Guarded \subseteq Calls /\ IsFiniteSet(Guarded)
      BY CallAssumption, FS_Subset
    <3> QED BY <3>1, FS_Subset, FS_CardinalityType DEF FailuresOf
  <2>2. now \in Nat /\ circuit[k].openUntil # 0
    BY DEF RuntimeInv, TypeOK, IsOpen
  <2>3. Len(circuit[k].failures) <= FailuresOf(k) /\ Len(circuit[k].failures) >= Threshold
    BY <2>2 DEF RuntimeInv, CircuitsOK
  <2>4. Len(circuit[k].failures) \in Nat
    BY DEF RuntimeInv, TypeOK
  <2> QED BY <2>1, <2>3, <2>4, Numbers
<1> QED BY <1>1, Invariant, PTL

=============================================================================
