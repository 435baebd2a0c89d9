--------------------- MODULE RequestLogAdmissionProofs ---------------------
(***************************************************************************)
(* TypeOK, CommittedIsStored, DecisionStands and StoredNotRejected for     *)
(* every number of runtimes, records, errors, stalls and crashes.          *)
(***************************************************************************)
EXTENDS RequestLogAdmission, SequenceTheorems, TLAPS

Op(r, s) == [record |-> r, state |-> s]
Has(list, op) == \E i \in DOMAIN list : list[i] = op
Names(list, r) == \E i \in DOMAIN list : list[i].record = r

\* The fates of a record whose runtime has decided the state s at some time,
\* and the decision that belongs to a fate.
Fates(s) == CASE s = "pending" -> {"accepted", "acked", "dropped"}
              [] s = "committed" -> {"acked"}
              [] s = "rejected" -> {"dropped", "refused"}
              [] OTHER -> {}
Latest(f) == CASE f = "new" -> "none"
               [] f = "accepted" -> "pending"
               [] f = "acked" -> "committed"
               [] OTHER -> "rejected"

\* The operations of g are heartbeats and decisions on records of its own.
Sound(list, g, f) ==
    \A i \in DOMAIN list :
        \/ list[i] = Heartbeat
        \/ /\ list[i].record \in Records /\ Owner[list[i].record] = g
           /\ f[list[i].record] \in Fates(list[i].state)

\* Of two decisions on a record the first one is "pending".
InOrder(list) ==
    \A i, j \in DOMAIN list :
        i < j /\ list[i].record = list[j].record /\ list[i].record \in Records =>
            list[i].state = "pending" /\ list[j].state # "pending"

ListInv == \A g \in Runtimes : Sound(ops[g], g, fate) /\ InOrder(ops[g])

FateInv ==
    \A r \in Records : /\ fate[r] \in {"new", "refused"} => r \notin rows
                       /\ fate[r] = "acked" => r \in rows

AdmissionInv ==
    \A r \in Records :
        /\ admission[r].state = "pending" =>
             admission[r].by = Owner[r] /\ fate[r] \in Fates("pending")
        /\ admission[r].state = "committed" \/ "committed" \in told[r] => r \in rows

\* Who has not started has done nothing; who runs and kept its lease has it, or
\* has not used its store.
LeaseInv ==
    \A g \in Runtimes :
        /\ status[g] = "new" \/ (status[g] = "running" /\ g \notin lapsed /\ lease[g] # "valid") =>
             ~connected[g] /\ \A r \in Records : admission[r].by # g
        /\ status[g] = "new" => ops[g] = <<>>

\* An overlay entry is the latest decision, and stays until that is written.
OverlayInv ==
    \A r \in Records :
        /\ overlay[r] \in {"none", Latest(fate[r])}
        /\ r \notin evicted /\ Names(ops[Owner[r]], r) =>
             overlay[r] # "none" /\ Has(ops[Owner[r]], Op(r, Latest(fate[r])))

\* The decision on a record is on its way to the store, or has been there.
WrittenInv ==
    \A r \in Records : r \notin evicted =>
        /\ fate[r] \in {"accepted", "acked"} =>
             Has(ops[Owner[r]], Op(r, "pending")) \/ admission[r].state # "none"
        /\ fate[r] \in {"dropped", "refused"} =>
             Has(ops[Owner[r]], Op(r, "rejected")) \/ admission[r].state = "rejected"

\* What is on file as rejected was never accepted, or dropped, or will be
\* overwritten, or its owner ended before it was stored.
RejectedInv ==
    \A r \in Records :
        admission[r].state = "rejected" /\ r \notin evicted /\ Owner[r] \notin lapsed =>
            \/ fate[r] \in {"new", "refused", "dropped"}
            \/ Has(ops[Owner[r]], Op(r, "pending"))
            \/ r \notin rows /\ status[Owner[r]] \in {"closed", "crashed"}

IInv == /\ TypeOK /\ ListInv /\ FateInv /\ AdmissionInv /\ LeaseInv
        /\ OverlayInv /\ WrittenInv /\ RejectedInv

-----------------------------------------------------------------------------
(* Lists of operations.                                                    *)

\* What a list holds after an operation was appended.
LEMMA AppendList ==
    ASSUME NEW s \in Seq(Operation), NEW o \in Operation
    PROVE  /\ Append(s, o) \in Seq(Operation) /\ Append(s, o) # <<>>
           /\ Len(Append(s, o)) = Len(s) + 1
           /\ \A p : Has(Append(s, o), p) <=> Has(s, p) \/ p = o
           /\ \A r : Names(Append(s, o), r) <=> Names(s, r) \/ o.record = r
           /\ \A i \in DOMAIN s : Append(s, o)[i] = s[i]
           /\ Append(s, o)[Len(s) + 1] = o
           /\ DOMAIN Append(s, o) = DOMAIN s \union {Len(s) + 1}
           /\ DOMAIN s = 1 .. Len(s) /\ Len(s) \in Nat
<1>1. /\ Append(s, o) \in Seq(Operation) /\ Len(Append(s, o)) = Len(s) + 1
      /\ \A i \in 1 .. Len(s) : Append(s, o)[i] = s[i]
      /\ Append(s, o)[Len(s) + 1] = o /\ Len(s) \in Nat
  BY AppendProperties, LenProperties
<1>2. DOMAIN s = 1 .. Len(s) /\ DOMAIN Append(s, o) = 1 .. Len(s) + 1
  BY <1>1, LenProperties
<1>3. DOMAIN Append(s, o) = DOMAIN s \union {Len(s) + 1}
  BY <1>1, <1>2
<1>4. \A p : Has(Append(s, o), p) <=> Has(s, p) \/ p = o
  BY <1>1, <1>2, <1>3 DEF Has
<1>5. \A r : Names(Append(s, o), r) <=> Names(s, r) \/ o.record = r
  BY <1>1, <1>2, <1>3 DEF Names
<1> QED
  BY <1>1, <1>2, <1>3, <1>4, <1>5, AppendProperties

\* An operation may be appended: it is a heartbeat, or a decision its fate allows
\* on a record that has none in the list, or only the decision "pending".
Fits(list, g, f, op) ==
    \/ op = Heartbeat
    \/ /\ op.record \in Records /\ Owner[op.record] = g
       /\ f[op.record] \in Fates(op.state)
       /\ \A i \in DOMAIN list : list[i].record = op.record =>
             list[i].state = "pending" /\ op.state # "pending"

\* An operation that fits keeps a list sound and in order.
LEMMA AppendKeeps ==
    ASSUME NEW s \in Seq(Operation), NEW o \in Operation, NEW g, NEW f,
           Sound(s, g, f), InOrder(s),
           Fits(s, g, f, o)
    PROVE  Sound(Append(s, o), g, f) /\ InOrder(Append(s, o))
<1> DEFINE t == Append(s, o)
           n == Len(s) + 1
<1>1. /\ DOMAIN t = DOMAIN s \union {n} /\ DOMAIN s = 1 .. Len(s) /\ Len(s) \in Nat
      /\ \A i \in DOMAIN s : t[i] = s[i]
      /\ t[n] = o
  BY AppendList
<1>2. Sound(t, g, f)
  <2> SUFFICES ASSUME NEW i \in DOMAIN t
               PROVE  \/ t[i] = Heartbeat
                      \/ /\ t[i].record \in Records /\ Owner[t[i].record] = g
                         /\ f[t[i].record] \in Fates(t[i].state)
    BY DEF Sound
  <2>1. CASE i \in DOMAIN s
    BY <1>1, <2>1 DEF Sound
  <2>2. CASE i = n
    BY <1>1, <2>2 DEF Fits
  <2> QED
    BY <1>1, <2>1, <2>2
<1>3. InOrder(t)
  <2> SUFFICES ASSUME NEW i \in DOMAIN t, NEW j \in DOMAIN t,
                      i < j, t[i].record = t[j].record, t[i].record \in Records
               PROVE  t[i].state = "pending" /\ t[j].state # "pending"
    BY DEF InOrder
  <2>1. i \in DOMAIN s
    BY <1>1
  <2>2. CASE j \in DOMAIN s
    BY <1>1, <2>1, <2>2 DEF InOrder
  <2>3. CASE j = n
    <3>1. o # Heartbeat
      BY <1>1, <2>3, AdmissionAssumption DEF Heartbeat
    <3> QED
      BY <1>1, <2>1, <2>3, <3>1 DEF Fits
  <2> QED
    BY <1>1, <2>2, <2>3
<1> QED
  BY <1>2, <1>3

\* What a list holds after its first operation was removed.
LEMMA TailList ==
    ASSUME NEW s \in Seq(Operation), s # <<>>
    PROVE  /\ Tail(s) \in Seq(Operation) /\ Len(Tail(s)) = Len(s) - 1 /\ Len(s) \in Nat
           /\ Head(s) \in Operation /\ Has(s, Head(s))
           /\ \A p : Has(s, p) <=> p = Head(s) \/ Has(Tail(s), p)
           /\ \A r : Names(s, r) <=> Head(s).record = r \/ Names(Tail(s), r)
           /\ \A g, f : Sound(s, g, f) => Sound(Tail(s), g, f)
           /\ InOrder(s) => InOrder(Tail(s))
           /\ InOrder(s) => \A i \in DOMAIN Tail(s) :
                 Tail(s)[i].record = Head(s).record /\ Head(s).record \in Records =>
                     Head(s).state = "pending" /\ Tail(s)[i].state # "pending"
<1> DEFINE t == Tail(s)
<1>1. /\ t \in Seq(Operation) /\ Len(t) = Len(s) - 1 /\ Len(s) \in Nat
      /\ \A i \in 1 .. Len(t) : t[i] = s[i + 1]
      /\ Head(s) = s[1] /\ Head(s) \in Operation /\ Len(s) >= 1
  BY HeadTailProperties, LenProperties, EmptySeq
<1>2. DOMAIN s = 1 .. Len(s) /\ DOMAIN t = 1 .. Len(s) - 1
  BY <1>1, LenProperties
<1>3. \A i \in DOMAIN t : t[i] = s[i + 1] /\ i + 1 \in DOMAIN s
  BY <1>1, <1>2
<1>4. \A i \in DOMAIN s : i = 1 \/ (i - 1 \in DOMAIN t /\ t[i - 1] = s[i])
  <2> TAKE i \in DOMAIN s
  <2>1. i # 1 => i - 1 \in DOMAIN t /\ (i - 1) + 1 = i
    BY <1>1, <1>2
  <2> QED
    BY <1>3, <2>1
<1>5. \A p : Has(s, p) <=> p = Head(s) \/ Has(t, p)
  BY <1>1, <1>2, <1>3, <1>4 DEF Has
<1>6. \A r : Names(s, r) <=> Head(s).record = r \/ Names(t, r)
  <2> TAKE r
  <2>1. ASSUME Names(s, r) PROVE Head(s).record = r \/ Names(t, r)
    <3>1. PICK i \in DOMAIN s : s[i].record = r
      BY <2>1 DEF Names
    <3>2. CASE i = 1
      BY <1>1, <3>1, <3>2
    <3>3. CASE i - 1 \in DOMAIN t /\ t[i - 1] = s[i]
      BY <3>1, <3>3 DEF Names
    <3> QED
      BY <1>4, <3>2, <3>3
  <2>2. ASSUME Head(s).record = r PROVE Names(s, r)
    BY <1>1, <1>2, <2>2 DEF Names
  <2>3. ASSUME Names(t, r) PROVE Names(s, r)
    <3>1. PICK i \in DOMAIN t : t[i].record = r
      BY <2>3 DEF Names
    <3> QED
      BY <1>3, <3>1 DEF Names
  <2> QED
    BY <2>1, <2>2, <2>3
<1>7. \A g, f : Sound(s, g, f) => Sound(t, g, f)
  BY <1>3 DEF Sound
<1>8. InOrder(s) => InOrder(t)
  <2>1. \A i, j \in DOMAIN t : i < j => i + 1 < j + 1
    BY <1>2
  <2> QED
    BY <1>3, <2>1 DEF InOrder
<1>9. InOrder(s) => \A i \in DOMAIN t :
         t[i].record = Head(s).record /\ Head(s).record \in Records =>
             Head(s).state = "pending" /\ t[i].state # "pending"
  <2>1. 1 \in DOMAIN s /\ \A i \in DOMAIN t : 1 < i + 1
    BY <1>1, <1>2
  <2> QED
    BY <1>1, <1>3, <2>1 DEF InOrder
<1> QED
  BY <1>1, <1>5, <1>6, <1>7, <1>8, <1>9

\* What Submit leaves of the lists, the overlay and what is not given up.
Submitted(g, op, ov) ==
    /\ \A h \in Runtimes : h # g => ops'[h] = ops[h]
    /\ evicted \subseteq evicted'
    /\ Sound(ops'[g], g, fate') /\ InOrder(ops'[g])
    /\ \A r \in Records : overlay'[r] \in {"none", ov[r]}
    /\ \A r \in Records : r \notin evicted' => overlay'[r] = ov[r]
    /\ \A r \in Records : r \notin evicted' =>
         \A s : Has(ops'[g], Op(r, s)) <=> Has(ops[g], Op(r, s)) \/ op = Op(r, s)
    /\ \A r \in Records : r \notin evicted' =>
         (Names(ops'[g], r) <=> Names(ops[g], r) \/ op.record = r)

\* Submit keeps the list sound and in order under the new fates.
LEMMA SubmitLists ==
    ASSUME TypeOK, NEW g \in Runtimes, NEW op \in Operation, NEW ov \in [Records -> States],
           Submit(g, op, ov), Sound(ops[g], g, fate'), InOrder(ops[g]),
           Fits(ops[g], g, fate', op)
    PROVE  Submitted(g, op, ov)
<1> DEFINE old == ops[g]
           all == Append(old, op)
           first == Head(all)
<1>1. old \in Seq(Operation) /\ Len(old) <= MaxOps
  BY DEF TypeOK
<1>2. /\ all \in Seq(Operation) /\ all # <<>> /\ Len(all) = Len(old) + 1 /\ Len(old) \in Nat
      /\ \A p : Has(all, p) <=> Has(old, p) \/ p = op
      /\ \A r : Names(all, r) <=> Names(old, r) \/ op.record = r
  BY <1>1, AppendList
<1>3. Sound(all, g, fate') /\ InOrder(all)
  BY <1>1, AppendKeeps
<1>4. CASE Len(all) <= MaxOps
  <2>1. ops' = [ops EXCEPT ![g] = all] /\ overlay' = ov /\ evicted' = evicted
    BY <1>4 DEF Submit
  <2> QED
    BY <1>2, <1>3, <1>4, <2>1 DEF Submitted, TypeOK
<1>5. CASE ~(Len(all) <= MaxOps)
  <2>1. /\ ops' = [ops EXCEPT ![g] = Tail(all)] /\ overlay' = Settled(ov, first)
        /\ evicted' = evicted \union Concerned(first)
    BY <1>5 DEF Submit
  <2>2. /\ Tail(all) \in Seq(Operation) /\ Len(Tail(all)) = Len(all) - 1 /\ first \in Operation
        /\ \A p : Has(all, p) <=> p = first \/ Has(Tail(all), p)
        /\ \A r : Names(all, r) <=> first.record = r \/ Names(Tail(all), r)
        /\ Sound(Tail(all), g, fate') /\ InOrder(Tail(all))
    BY <1>2, <1>3, TailList
  <2>3. ops'[g] = Tail(all) /\ \A h \in Runtimes : h # g => ops'[h] = ops[h]
    BY <2>1 DEF TypeOK
  <2>4. \A r \in Records : overlay'[r] \in {"none", ov[r]}
    BY <2>1, <2>2 DEF Settled
  <2>6. evicted \subseteq evicted'
    BY <2>1
  <2>7. ASSUME NEW r \in Records, r \notin evicted'
        PROVE  /\ overlay'[r] = ov[r]
               /\ \A s : Has(ops'[g], Op(r, s)) <=> Has(old, Op(r, s)) \/ op = Op(r, s)
               /\ Names(ops'[g], r) <=> Names(old, r) \/ op.record = r
    <3>1. first.record # r
      BY <2>1, <2>7 DEF Concerned
    <3>2. overlay'[r] = ov[r]
      BY <2>1, <3>1 DEF Settled
    <3>3. \A s : first # Op(r, s)
      BY <3>1 DEF Op
    <3> QED
      BY <1>2, <2>2, <2>3, <3>1, <3>2, <3>3
  <2> QED
    BY <2>2, <2>3, <2>4, <2>6, <2>7 DEF Submitted
<1> QED
  BY <1>4, <1>5

-----------------------------------------------------------------------------
(* Every step keeps the types.                                             *)

\* A list of a typed runtime is a sequence, and so is what follows its head.
LEMMA OpsTyped ==
    ASSUME TypeOK, NEW g \in Runtimes
    PROVE  /\ ops[g] \in Seq(Operation) /\ Len(ops[g]) \in Nat /\ Len(ops[g]) <= MaxOps
           /\ <<>> \in Seq(Operation) /\ Len(<<>>) = 0
           /\ ops[g] # <<>> =>
                /\ Head(ops[g]) \in Operation
                /\ Tail(ops[g]) \in Seq(Operation) /\ Len(Tail(ops[g])) <= MaxOps
<1>1. ops[g] \in Seq(Operation) /\ Len(ops[g]) <= MaxOps /\ Len(ops[g]) \in Nat
  BY LenProperties DEF TypeOK
<1>2. ops[g] # <<>> => /\ Head(ops[g]) \in Operation /\ Tail(ops[g]) \in Seq(Operation)
                       /\ Len(Tail(ops[g])) = Len(ops[g]) - 1
  BY <1>1, HeadTailProperties
<1> QED
  BY <1>1, <1>2, AdmissionAssumption, EmptySeq

\* The latest operations of the list and the overlay stay typed.
LEMMA SubmitTyped ==
    ASSUME TypeOK, NEW g \in Runtimes, NEW op \in Operation, NEW ov \in [Records -> States],
           Submit(g, op, ov)
    PROVE  /\ ops' \in [Runtimes -> Seq(Operation)] /\ \A h \in Runtimes : Len(ops'[h]) <= MaxOps
           /\ overlay' \in [Records -> States] /\ evicted' \subseteq Records
<1> DEFINE all == Append(ops[g], op)
<1>1. all \in Seq(Operation) /\ all # <<>> /\ Len(all) = Len(ops[g]) + 1
  BY AppendList, OpsTyped
<1>2. Tail(all) \in Seq(Operation) /\ Len(Tail(all)) = Len(all) - 1 /\ Head(all) \in Operation
  BY <1>1, TailList
<1>3. CASE Len(all) <= MaxOps
  <2>1. ops' = [ops EXCEPT ![g] = all] /\ overlay' = ov /\ evicted' = evicted
    BY <1>3 DEF Submit
  <2> QED
    BY <1>1, <1>3, <2>1 DEF TypeOK
<1>4. CASE ~(Len(all) <= MaxOps)
  <2>1. /\ ops' = [ops EXCEPT ![g] = Tail(all)] /\ overlay' = Settled(ov, Head(all))
        /\ evicted' = evicted \union Concerned(Head(all))
    BY <1>4 DEF Submit
  <2>2. ops' \in [Runtimes -> Seq(Operation)] /\ \A h \in Runtimes : Len(ops'[h]) <= MaxOps
    BY <1>1, <1>2, <2>1, OpsTyped DEF TypeOK
  <2>3. overlay' \in [Records -> States] /\ evicted' \subseteq Records
    BY <1>2, <2>1 DEF Settled, Concerned, States, TypeOK
  <2> QED
    BY <2>2, <2>3
<1> QED
  BY <1>3, <1>4

\* A connection or a heartbeat leaves typed leases and admissions.
LEMMA BeatTyped ==
    ASSUME TypeOK, NEW g \in Runtimes, Beat(g)
    PROVE  /\ lease' \in [Runtimes -> {"none", "valid", "expired"}]
           /\ admission' \in [Records -> [state : States, by : Runtimes \union {None}]]
<1> DEFINE Entry == [state : States, by : Runtimes \union {None}]
<1>1. lease' \in [Runtimes -> {"none", "valid", "expired"}]
  BY DEF Beat, TypeOK
<1>2. Reconciled(g) \in [Records -> Entry]
  <2> SUFFICES ASSUME NEW r \in Records
               PROVE  (IF Interrupted(r, g)
                       THEN [admission[r] EXCEPT !.state = IF r \in rows THEN "committed" ELSE "rejected"]
                       ELSE admission[r]) \in Entry
    BY DEF Reconciled
  <2>1. admission[r] \in Entry
    BY DEF TypeOK
  <2>2. \A s \in States : [admission[r] EXCEPT !.state = s] \in Entry
    BY <2>1
  <2> QED
    BY <2>1, <2>2 DEF States
<1> QED
  BY <1>1, <1>2 DEF Beat, TypeOK

\* Every step of a runtime keeps the types.
LEMMA RuntimeTyped ==
    ASSUME TypeOK, NEW g \in Runtimes, RuntimeStep(g)
    PROVE  TypeOK'
<1> USE DEF runtimeVars, queueVars, sharedVars, budget
<1>1. CASE HeartbeatTimer(g)
  <2>1. Heartbeat \in Operation /\ overlay \in [Records -> States]
    BY DEF Heartbeat, Operation, States, TypeOK
  <2>2. Submit(g, Heartbeat, overlay)
    BY <1>1 DEF HeartbeatTimer
  <2> QED
    BY <1>1, <2>1, <2>2, SubmitTyped DEF HeartbeatTimer, TypeOK
<1>2. CASE BackoffEnds(g)
  BY <1>2 DEF BackoffEnds, TypeOK
<1>3. CASE Connect(g)
  BY <1>3, BeatTyped DEF Connect, TypeOK
<1>4. CASE RunOperation(g)
  <2> DEFINE op == Head(ops[g])
  <2>1. /\ ops[g] # <<>> /\ Perform(g, op) /\ ops' = [ops EXCEPT ![g] = Tail(ops[g])]
        /\ overlay' = Settled(overlay, op)
    BY <1>4 DEF RunOperation
  <2>2. /\ op \in Operation /\ op.record \in Records \union {None} /\ op.state \in States
        /\ Tail(ops[g]) \in Seq(Operation) /\ Len(Tail(ops[g])) <= MaxOps
    BY <2>1, OpsTyped DEF Operation
  <2>3. ops' \in [Runtimes -> Seq(Operation)] /\ \A h \in Runtimes : Len(ops'[h]) <= MaxOps
    BY <2>1, <2>2 DEF TypeOK
  <2>4. overlay' \in [Records -> States]
    BY <2>1, <2>2 DEF Settled, States, TypeOK
  <2>5. /\ lease' \in [Runtimes -> {"none", "valid", "expired"}]
        /\ admission' \in [Records -> [state : States, by : Runtimes \union {None}]]
        /\ waiting' \subseteq Records
    <3>1. CASE op = Heartbeat /\ Beat(g) /\ UNCHANGED waiting
      BY <3>1, BeatTyped DEF TypeOK
    <3>2. CASE /\ op.state \in {"pending", "rejected"}
               /\ admission' = [admission EXCEPT ![op.record] = [state |-> op.state, by |-> g]]
               /\ waiting' = waiting \ {op.record}
               /\ UNCHANGED <<lease, faults>>
      BY <2>2, <3>2 DEF TypeOK, States
    <3>3. CASE /\ op.state = "committed"
               /\ admission' = [admission EXCEPT ![op.record].state =
                                   IF admission[op.record] = [state |-> "pending", by |-> g]
                                   THEN "committed" ELSE @]
               /\ UNCHANGED <<waiting, lease, faults>>
      <4> DEFINE Entry == [state : States, by : Runtimes \union {None}]
                 s == IF admission[op.record] = [state |-> "pending", by |-> g]
                      THEN "committed" ELSE admission[op.record].state
      <4>1. admission \in [Records -> Entry]
        BY DEF TypeOK
      <4>2. CASE op.record \in Records
        <5>1. [admission[op.record] EXCEPT !.state = s] \in Entry
          BY <4>1, <4>2 DEF States
        <5>2. admission' = [admission EXCEPT ![op.record] = [admission[op.record] EXCEPT !.state = s]]
          BY <3>3
        <5> QED
          BY <3>3, <4>1, <4>2, <5>1, <5>2, SMTT(30) DEF TypeOK
      <4>3. CASE op.record \notin Records
        BY <3>3, <4>1, <4>3 DEF TypeOK
      <4> QED
        BY <4>2, <4>3
    <3> QED
      BY <2>1, <3>1, <3>2, <3>3 DEF Perform
  <2> QED
    BY <1>4, <2>3, <2>4, <2>5 DEF RunOperation, TypeOK
<1>5. CASE OperationExpires(g)
  <2> DEFINE op == Head(ops[g])
  <2>1. /\ ops[g] # <<>> /\ ops' = [ops EXCEPT ![g] = Tail(ops[g])]
        /\ overlay' = Settled(overlay, op) /\ evicted' = evicted \union Concerned(op)
    BY <1>5 DEF OperationExpires
  <2>2. op \in Operation /\ Tail(ops[g]) \in Seq(Operation) /\ Len(Tail(ops[g])) <= MaxOps
    BY <2>1, OpsTyped
  <2>3. ops' \in [Runtimes -> Seq(Operation)] /\ \A h \in Runtimes : Len(ops'[h]) <= MaxOps
    BY <2>1, <2>2 DEF TypeOK
  <2>4. overlay' \in [Records -> States] /\ evicted' \subseteq Records
    BY <2>1, <2>2 DEF Settled, Concerned, States, TypeOK
  <2> QED
    BY <1>5, <2>3, <2>4 DEF OperationExpires, TypeOK
<1>6. CASE OperationFails(g)
  BY <1>6 DEF OperationFails, StoreFails, TypeOK
<1>7. CASE ReadFails(g)
  BY <1>7 DEF ReadFails, StoreFails, TypeOK
<1>8. CASE Start(g)
  BY <1>8 DEF Start, TypeOK
<1>9. ASSUME Emptied(g)
      PROVE  /\ ops' \in [Runtimes -> Seq(Operation)] /\ \A h \in Runtimes : Len(ops'[h]) <= MaxOps
             /\ overlay' \in [Records -> States] /\ evicted' \subseteq Records
             /\ connected' \in [Runtimes -> BOOLEAN] /\ backoff' \in [Runtimes -> BOOLEAN]
  <2>1. ops' = [ops EXCEPT ![g] = <<>>]
    BY <1>9 DEF Emptied
  <2>2. ops' \in [Runtimes -> Seq(Operation)] /\ \A h \in Runtimes : Len(ops'[h]) <= MaxOps
    BY <2>1, OpsTyped, AdmissionAssumption DEF TypeOK
  <2> QED
    BY <1>9, <2>2 DEF Emptied, Concerned, States, TypeOK
<1>10. CASE Close(g)
  BY <1>9, <1>10 DEF Close, TypeOK
<1>11. CASE Crash(g)
  BY <1>9, <1>11 DEF Crash, TypeOK
<1>12. CASE LeaseRunsOut(g)
  BY <1>12 DEF LeaseRunsOut, TypeOK
<1>13. CASE Stall(g)
  BY <1>13 DEF Stall, TypeOK
<1> QED
  BY <1>1, <1>2, <1>3, <1>4, <1>5, <1>6, <1>7, <1>8, <1>10, <1>11, <1>12, <1>13
     DEF RuntimeStep

\* Every step of a record or of a raw trace keeps the types.
LEMMA RecordTyped ==
    ASSUME TypeOK, NEW r \in Records, RecordStep(r) \/ \E g \in Runtimes : TraceStep(g, r)
    PROVE  TypeOK'
<1> USE DEF runtimeVars, queueVars, sharedVars, budget
<1>1. ASSUME NEW s \in States, Decide(r, s)
      PROVE  /\ ops' \in [Runtimes -> Seq(Operation)] /\ \A h \in Runtimes : Len(ops'[h]) <= MaxOps
             /\ overlay' \in [Records -> States] /\ evicted' \subseteq Records
  <2>1. /\ Owner[r] \in Runtimes /\ [record |-> r, state |-> s] \in Operation
        /\ [overlay EXCEPT ![r] = s] \in [Records -> States]
    BY AdmissionAssumption DEF Operation, TypeOK
  <2>2. Submit(Owner[r], [record |-> r, state |-> s], [overlay EXCEPT ![r] = s])
    BY <1>1 DEF Decide
  <2> QED
    BY <2>1, <2>2, SubmitTyped
<1>2. CASE Enqueue(r)
  BY <1>1, <1>2 DEF Enqueue, TypeOK, States
<1>3. CASE Refuse(r)
  BY <1>1, <1>3 DEF Refuse, TypeOK, States
<1>4. CASE Store(r)
  BY <1>4 DEF Store, TypeOK
<1>5. CASE Ack(r)
  BY <1>1, <1>5 DEF Ack, TypeOK, States
<1>6. CASE Drop(r)
  BY <1>1, <1>6 DEF Drop, TypeOK, States
<1>7. CASE OverlayForgets(r)
  BY <1>7 DEF OverlayForgets, TypeOK, States
<1>8. ASSUME NEW g \in Runtimes, Answer(g, r) PROVE TypeOK'
  BY <1>8 DEF Answer, TypeOK
<1>9. ASSUME NEW g \in Runtimes, AskUnknown(g, r) PROVE TypeOK'
  <2>1. /\ waiting' \subseteq Records
        /\ admission' \in [Records -> [state : States, by : Runtimes \union {None}]]
        /\ told' \in [Records -> SUBSET {"committed", "rejected"}]
    <3>1. CASE waiting' = waiting \union {r} /\ UNCHANGED <<admission, told>>
      BY <3>1 DEF TypeOK
    <3>2. CASE /\ admission' = [admission EXCEPT ![r] = [state |-> "rejected", by |-> g]]
               /\ waiting' = waiting \ {r}
               /\ told' = [told EXCEPT ![r] = @ \union {"rejected"}]
      BY <3>2 DEF TypeOK, States
    <3> QED
      BY <1>9, <3>1, <3>2 DEF AskUnknown
  <2> QED
    BY <1>9, <2>1 DEF AskUnknown, TypeOK
<1> QED
  BY <1>2, <1>3, <1>4, <1>5, <1>6, <1>7, <1>8, <1>9 DEF RecordStep, TraceStep

\* The types hold in every reachable state.
THEOREM AdmissionTyped == Spec => []TypeOK
<1>1. Init => TypeOK
  BY EmptySeq, AdmissionAssumption DEF Init, TypeOK, States
<1>2. TypeOK /\ [Next]_vars => TypeOK'
  <2> SUFFICES ASSUME TypeOK, [Next]_vars PROVE TypeOK'
    OBVIOUS
  <2>1. CASE UNCHANGED vars
    BY <2>1 DEF vars, runtimeVars, queueVars, sharedVars, budget, TypeOK
  <2> QED
    BY <2>1, RuntimeTyped, RecordTyped DEF Next
<1> QED
  BY <1>1, <1>2, PTL DEF Spec

-----------------------------------------------------------------------------
(* Decisions of the queue: Enqueue, Refuse, Ack and Drop.                  *)

\* What a list says of a record agrees with its fate.
LEMMA ListSays ==
    ASSUME NEW list, NEW g, NEW f, Sound(list, g, f), NEW r \in Records
    PROVE  /\ \A i \in DOMAIN list : list[i].record = r => f[r] \in Fates(list[i].state)
           /\ \A s : Has(list, Op(r, s)) => f[r] \in Fates(s) /\ Names(list, r)
           /\ Names(list, r) => Owner[r] = g
<1>1. r # Heartbeat.record
  BY AdmissionAssumption DEF Heartbeat
<1> QED
  BY <1>1 DEF Sound, Has, Names, Op

\* A fate that stays or follows another keeps every list sound.
LEMMA SoundStays ==
    ASSUME NEW list, NEW g, NEW f, NEW h, Sound(list, g, f),
           \A r \in Records : \A s : f[r] \in Fates(s) => h[r] \in Fates(s)
    PROVE  Sound(list, g, h)
  BY DEF Sound

\* A decision on a record of a runtime that has started keeps the invariant.
LEMMA DecideKeeps ==
    ASSUME IInv, TypeOK', NEW r \in Records, NEW s \in States, NEW f,
           Decide(r, s), fate' = [fate EXCEPT ![r] = f], s = Latest(f),
           UNCHANGED <<status, connected, rows, sharedVars, told, lapsed>>,
           \/ fate[r] = "new" /\ f = "accepted"
           \/ fate[r] = "new" /\ f = "refused"
           \/ fate[r] = "accepted" /\ f = "acked" /\ r \in rows
           \/ fate[r] = "accepted" /\ f = "dropped",
           status[Owner[r]] # "new"
    PROVE  IInv'
<1> USE DEF sharedVars
<1> DEFINE g == Owner[r]
           op == [record |-> r, state |-> s]
           ov == [overlay EXCEPT ![r] = s]
<1>1. g \in Runtimes /\ op \in Operation /\ ov \in [Records -> States] /\ op = Op(r, s)
  BY AdmissionAssumption, ZenonT(60) DEF Operation, Op, IInv, TypeOK
<1>2. /\ fate'[r] = f /\ \A q \in Records : q # r => fate'[q] = fate[q]
      /\ f \in Fates(s) /\ s # "none"
  BY DEF IInv, TypeOK, Latest, Fates
<1>3. \A q \in Records : \A t : fate[q] \in Fates(t) => fate'[q] \in Fates(t)
  BY <1>2 DEF Fates
<1>4. \A h \in Runtimes : Sound(ops[h], h, fate') /\ InOrder(ops[h]) /\ Sound(ops[h], h, fate)
  BY <1>3, SoundStays DEF IInv, ListInv
<1>5. \A i \in DOMAIN ops[g] : ops[g][i].record = r => ops[g][i].state = "pending" /\ s # "pending"
  <2> TAKE i \in DOMAIN ops[g]
  <2>1. ops[g][i].record = r => fate[r] \in Fates(ops[g][i].state)
    BY <1>1, <1>4, ListSays
  <2> QED
    BY <2>1 DEF Fates, Latest
<1>6. Submit(g, op, ov)
  BY DEF Decide
<1>7. Submitted(g, op, ov)
  <2>1. Fits(ops[g], g, fate', op)
    BY <1>2, <1>5 DEF Fits
  <2>2. TypeOK /\ Sound(ops[g], g, fate') /\ InOrder(ops[g])
    BY <1>1, <1>4 DEF IInv
  <2> HIDE DEF g, op, ov
  <2> QED
    BY <1>1, <1>6, <2>1, <2>2, SubmitLists
<1>8. ListInv'
  BY <1>4, <1>7 DEF Submitted, ListInv
<1>9. FateInv'
  BY <1>2 DEF IInv, FateInv
<1>10. AdmissionInv'
  BY <1>3 DEF IInv, AdmissionInv
<1>11. LeaseInv'
  BY <1>7 DEF Submitted, IInv, LeaseInv
<1>12. \A q \in Records : q \notin evicted' =>
          /\ \A t : Has(ops[Owner[q]], Op(q, t)) => Has(ops'[Owner[q]], Op(q, t))
          /\ q # r => /\ \A t : Has(ops'[Owner[q]], Op(q, t)) => Has(ops[Owner[q]], Op(q, t))
                      /\ Names(ops'[Owner[q]], q) => Names(ops[Owner[q]], q)
          /\ q = r => Has(ops'[Owner[q]], op)
  <2> TAKE q \in Records
  <2>1. CASE Owner[q] = g
    BY <1>1, <1>7, <2>1 DEF Submitted, Op
  <2>2. CASE Owner[q] # g
    BY <1>7, <2>2, AdmissionAssumption DEF Submitted
  <2> QED
    BY <2>1, <2>2
<1>13. OverlayInv'
  <2> SUFFICES ASSUME NEW q \in Records
               PROVE  /\ overlay'[q] \in {"none", Latest(fate'[q])}
                      /\ q \notin evicted' /\ Names(ops'[Owner[q]], q) =>
                           /\ overlay'[q] # "none"
                           /\ Has(ops'[Owner[q]], Op(q, Latest(fate'[q])))
    BY DEF OverlayInv
  <2>1. CASE q = r
    <3>1. ov[q] = s /\ fate'[q] = f
      BY <1>2, <2>1 DEF IInv, TypeOK
    <3> QED
      BY <1>1, <1>2, <1>7, <1>12, <2>1, <3>1 DEF Submitted
  <2>2. CASE q # r
    <3>1. ov[q] = overlay[q] /\ fate'[q] = fate[q]
      BY <1>2, <2>2 DEF IInv, TypeOK
    <3>2. overlay[q] \in {"none", Latest(fate[q])}
      BY DEF IInv, OverlayInv
    <3>3. q \notin evicted' /\ Names(ops'[Owner[q]], q) =>
            overlay[q] # "none" /\ Has(ops'[Owner[q]], Op(q, Latest(fate[q])))
      BY <1>7, <1>12, <2>2 DEF Submitted, IInv, OverlayInv
    <3> QED
      BY <1>7, <3>1, <3>2, <3>3 DEF Submitted
  <2> QED
    BY <2>1, <2>2
<1>14. WrittenInv'
  <2> SUFFICES ASSUME NEW q \in Records, q \notin evicted'
               PROVE  /\ fate'[q] \in {"accepted", "acked"} =>
                           Has(ops'[Owner[q]], Op(q, "pending")) \/ admission[q].state # "none"
                      /\ fate'[q] \in {"dropped", "refused"} =>
                           Has(ops'[Owner[q]], Op(q, "rejected")) \/ admission[q].state = "rejected"
    BY DEF WrittenInv
  <2>1. /\ fate[q] \in {"accepted", "acked"} =>
             Has(ops'[Owner[q]], Op(q, "pending")) \/ admission[q].state # "none"
        /\ fate[q] \in {"dropped", "refused"} =>
             Has(ops'[Owner[q]], Op(q, "rejected")) \/ admission[q].state = "rejected"
    BY <1>7, <1>12 DEF Submitted, IInv, WrittenInv
  <2>2. CASE q # r
    BY <1>2, <2>1, <2>2
  <2>3. CASE q = r
    BY <1>1, <1>2, <1>12, <2>1, <2>3 DEF Latest
  <2> QED
    BY <2>2, <2>3
<1>15. RejectedInv'
  <2> SUFFICES ASSUME NEW q \in Records, admission[q].state = "rejected", q \notin evicted',
                      Owner[q] \notin lapsed
               PROVE  \/ fate'[q] \in {"new", "refused", "dropped"}
                      \/ Has(ops'[Owner[q]], Op(q, "pending"))
                      \/ q \notin rows /\ status[Owner[q]] \in {"closed", "crashed"}
    BY DEF RejectedInv
  <2>1. \/ fate[q] \in {"new", "refused", "dropped"}
        \/ Has(ops'[Owner[q]], Op(q, "pending"))
        \/ q \notin rows /\ status[Owner[q]] \in {"closed", "crashed"}
    BY <1>7, <1>12 DEF Submitted, IInv, RejectedInv
  <2>2. CASE q # r
    BY <1>2, <2>1, <2>2
  <2>3. CASE q = r
    BY <1>1, <1>2, <1>12, <2>1, <2>3 DEF Latest
  <2> QED
    BY <2>2, <2>3
<1> QED
  BY <1>8, <1>9, <1>10, <1>11, <1>13, <1>14, <1>15 DEF IInv

-----------------------------------------------------------------------------
(* The other steps.                                                        *)

\* A heartbeat at the end of a list, or in place of its head, changes nothing
\* that is said of records.
LEMMA HeartbeatKeeps ==
    ASSUME IInv, TypeOK', NEW g \in Runtimes, HeartbeatTimer(g)
    PROVE  IInv'
<1>1. /\ Submit(g, Heartbeat, overlay)
      /\ UNCHANGED <<status, connected, fate, rows, admission, waiting, lease, told, lapsed>>
      /\ status[g] = "running"
  BY DEF HeartbeatTimer, queueVars, sharedVars
<1>2. /\ Heartbeat \in Operation /\ overlay \in [Records -> States]
      /\ \A q \in Records : \A t : Heartbeat # Op(q, t) /\ Heartbeat.record # q
  BY AdmissionAssumption DEF Heartbeat, Operation, Op, States, IInv, TypeOK
<1>3. Submitted(g, Heartbeat, overlay)
  <2>1. Sound(ops[g], g, fate') /\ InOrder(ops[g]) /\ Fits(ops[g], g, fate', Heartbeat)
    BY <1>1 DEF IInv, ListInv, Fits
  <2>2. TypeOK
    BY DEF IInv
  <2> QED
    BY <1>1, <1>2, <2>1, <2>2, SubmitLists
<1>4. evicted \subseteq evicted'
      /\ \A q \in Records : q \notin evicted' =>
          /\ overlay'[q] = overlay[q]
          /\ \A t : Has(ops'[Owner[q]], Op(q, t)) <=> Has(ops[Owner[q]], Op(q, t))
          /\ Names(ops'[Owner[q]], q) <=> Names(ops[Owner[q]], q)
  <2>1. evicted \subseteq evicted'
    BY <1>3 DEF Submitted
  <2>2. ASSUME NEW q \in Records, q \notin evicted'
        PROVE  /\ overlay'[q] = overlay[q]
               /\ \A t : Has(ops'[Owner[q]], Op(q, t)) <=> Has(ops[Owner[q]], Op(q, t))
               /\ Names(ops'[Owner[q]], q) <=> Names(ops[Owner[q]], q)
    <3>1. CASE Owner[q] = g
      BY <1>2, <1>3, <2>2, <3>1 DEF Submitted
    <3>2. CASE Owner[q] # g
      BY <1>3, <2>2, <3>2, AdmissionAssumption DEF Submitted
    <3> QED
      BY <3>1, <3>2
  <2> QED
    BY <2>1, <2>2
<1>5. ListInv'
  BY <1>1, <1>3 DEF Submitted, IInv, ListInv
<1>6. FateInv' /\ AdmissionInv'
  BY <1>1 DEF IInv, FateInv, AdmissionInv
<1>7. LeaseInv'
  BY <1>1, <1>3 DEF Submitted, IInv, LeaseInv
<1>8. OverlayInv'
  <2>1. \A q \in Records : overlay'[q] \in {"none", overlay[q]}
    BY <1>3 DEF Submitted
  <2> QED
    BY <1>1, <1>4, <2>1 DEF IInv, OverlayInv
<1>9. WrittenInv'
  BY <1>1, <1>4 DEF IInv, WrittenInv
<1>10. RejectedInv'
  BY <1>1, <1>4 DEF IInv, RejectedInv
<1> QED
  BY <1>5, <1>6, <1>7, <1>8, <1>9, <1>10 DEF IInv

\* A list whose head was taken off and has done its work, or was given up.
LEMMA TailLists ==
    ASSUME IInv, NEW g \in Runtimes, ops[g] # <<>>,
           ops' = [ops EXCEPT ![g] = Tail(@)], overlay' = Settled(overlay, Head(ops[g])),
           UNCHANGED fate
    PROVE  /\ ListInv'
           /\ \A h \in Runtimes : h # g => ops'[h] = ops[h]
           /\ \A q \in Records :
                /\ overlay'[q] \in {"none", overlay[q]}
                /\ Head(ops[g]).record # q => overlay'[q] = overlay[q]
                /\ Owner[q] # g => Head(ops[g]).record # q
           /\ \A q \in Records : \A t :
                /\ Has(ops'[Owner[q]], Op(q, t)) => Has(ops[Owner[q]], Op(q, t))
                /\ Has(ops[Owner[q]], Op(q, t)) =>
                     Has(ops'[Owner[q]], Op(q, t)) \/ Head(ops[g]) = Op(q, t)
           /\ \A q \in Records : Names(ops'[Owner[q]], q) => Names(ops[Owner[q]], q)
<1> DEFINE head == Head(ops[g])
<1>1. /\ ops[g] \in Seq(Operation) /\ head \in Operation /\ head.record \in Records \union {None}
      /\ ops \in [Runtimes -> Seq(Operation)] /\ overlay \in [Records -> States]
  BY OpsTyped DEF IInv, TypeOK, Operation
<1>2. /\ ops'[g] = Tail(ops[g]) /\ \A h \in Runtimes : h # g => ops'[h] = ops[h]
  BY <1>1
<1>3. /\ Has(ops[g], head)
      /\ \A p : Has(ops[g], p) <=> p = head \/ Has(ops'[g], p)
      /\ \A r : Names(ops[g], r) <=> head.record = r \/ Names(ops'[g], r)
      /\ \A f : Sound(ops[g], g, f) => Sound(ops'[g], g, f)
      /\ InOrder(ops[g]) => InOrder(ops'[g])
  BY <1>1, <1>2, TailList
<1>4. ListInv'
  BY <1>2, <1>3 DEF IInv, ListInv
<1>5. \A q \in Records : /\ overlay'[q] \in {"none", overlay[q]}
                         /\ head.record # q => overlay'[q] = overlay[q]
  BY <1>1 DEF Settled
<1>6. \A q \in Records : Owner[q] # g => head.record # q
  <2>1. Sound(ops[g], g, fate)
    BY DEF IInv, ListInv
  <2>2. \A q \in Records : Names(ops[g], q) => Owner[q] = g
    BY <2>1, ListSays
  <2> QED
    BY <1>3, <2>2
<1>7. ASSUME NEW q \in Records
      PROVE  /\ \A t : /\ Has(ops'[Owner[q]], Op(q, t)) => Has(ops[Owner[q]], Op(q, t))
                       /\ Has(ops[Owner[q]], Op(q, t)) =>
                            Has(ops'[Owner[q]], Op(q, t)) \/ head = Op(q, t)
             /\ Names(ops'[Owner[q]], q) => Names(ops[Owner[q]], q)
  <2>1. CASE Owner[q] = g
    BY <1>3, <2>1
  <2>2. CASE Owner[q] # g
    BY <1>2, <2>2, AdmissionAssumption
  <2> QED
    BY <2>1, <2>2
<1> QED
  BY <1>2, <1>4, <1>5, <1>6, <1>7

\* A reconciliation decides what is pending of owners that are gone, or that had
\* lost their lease.
Reconciles(q) ==
    /\ admission[q].state = "pending" /\ admission'[q].by = admission[q].by
    /\ admission'[q].state = IF q \in rows THEN "committed" ELSE "rejected"
    /\ Owner[q] \in lapsed \/ status[Owner[q]] \in {"closed", "crashed"}

\* What a heartbeat, or a connection, does to the admissions.
LEMMA BeatDecides ==
    ASSUME IInv, NEW g \in Runtimes, Beat(g)
    PROVE  /\ lease' = [lease EXCEPT ![g] = "valid"]
           /\ \A q \in Records : admission'[q] = admission[q] \/ Reconciles(q)
<1>1. CASE admission' = Reconciled(g)
  <2> SUFFICES ASSUME NEW q \in Records
               PROVE  admission'[q] = admission[q] \/ Reconciles(q)
    BY DEF Beat
  <2>1. CASE Interrupted(q, g)
    <3>1. admission[q].state = "pending" /\ lease[admission[q].by] # "valid"
      BY <2>1 DEF Interrupted
    <3>2. admission[q].by = Owner[q] /\ Owner[q] \in Runtimes
      BY <3>1, AdmissionAssumption DEF IInv, AdmissionInv
    <3>3. ~(status[Owner[q]] = "new"
             \/ (status[Owner[q]] = "running" /\ Owner[q] \notin lapsed /\ lease[Owner[q]] # "valid"))
      BY <3>2 DEF IInv, LeaseInv
    <3>4. status[Owner[q]] \in {"new", "running", "closed", "crashed"}
      BY <3>2 DEF IInv, TypeOK
    <3>5. admission'[q] = [admission[q] EXCEPT !.state = IF q \in rows THEN "committed" ELSE "rejected"]
      BY <1>1, <2>1 DEF Reconciled
    <3>6. admission[q] \in [state : States, by : Runtimes \union {None}]
      BY DEF IInv, TypeOK
    <3> QED
      BY <3>1, <3>2, <3>3, <3>4, <3>5, <3>6 DEF Reconciles
  <2>2. CASE ~Interrupted(q, g)
    BY <1>1, <2>2 DEF Reconciled
  <2> QED
    BY <2>1, <2>2
<1>2. CASE UNCHANGED admission
  BY <1>2 DEF Beat
<1> QED
  BY <1>1, <1>2 DEF Beat

\* A connection keeps the invariant: whom it takes for gone is gone.
LEMMA ConnectKeeps ==
    ASSUME IInv, TypeOK', NEW g \in Runtimes, Connect(g)
    PROVE  IInv'
<1>1. /\ UNCHANGED <<status, ops, overlay, evicted, fate, rows, told, lapsed>>
      /\ connected' = [connected EXCEPT ![g] = TRUE]
      /\ status[g] \in {"running", "closed"}
  BY DEF Connect, queueVars
<1>2. /\ lease' = [lease EXCEPT ![g] = "valid"]
      /\ \A q \in Records : admission'[q] = admission[q] \/ Reconciles(q)
  BY BeatDecides DEF Connect
<1>3. ListInv' /\ FateInv' /\ OverlayInv'
  BY <1>1 DEF IInv, ListInv, FateInv, OverlayInv
<1>4. AdmissionInv'
  BY <1>1, <1>2 DEF IInv, AdmissionInv, Reconciles
<1>5. LeaseInv'
  <2> SUFFICES ASSUME NEW h \in Runtimes
               PROVE  /\ status[h] = "new" \/ (status[h] = "running" /\ h \notin lapsed /\ lease'[h] # "valid")
                           => ~connected'[h] /\ \A r \in Records : admission'[r].by # h
                      /\ status[h] = "new" => ops[h] = <<>>
    BY <1>1 DEF LeaseInv
  <2>1. lease \in [Runtimes -> {"none", "valid", "expired"}] /\ connected \in [Runtimes -> BOOLEAN]
    BY DEF IInv, TypeOK
  <2>2. \A r \in Records : admission'[r].by = admission[r].by
    BY <1>2 DEF Reconciles
  <2>3. CASE h = g
    BY <1>1, <1>2, <2>1, <2>3
  <2>4. CASE h # g
    BY <1>1, <1>2, <2>1, <2>2, <2>4 DEF IInv, LeaseInv
  <2> QED
    BY <2>3, <2>4
<1>6. WrittenInv'
  BY <1>1, <1>2 DEF IInv, WrittenInv, Reconciles
<1>7. RejectedInv'
  <2> SUFFICES ASSUME NEW q \in Records, admission'[q].state = "rejected", q \notin evicted,
                      Owner[q] \notin lapsed
               PROVE  \/ fate[q] \in {"new", "refused", "dropped"}
                      \/ Has(ops[Owner[q]], Op(q, "pending"))
                      \/ q \notin rows /\ status[Owner[q]] \in {"closed", "crashed"}
    BY <1>1 DEF RejectedInv
  <2>1. CASE admission'[q] = admission[q]
    BY <2>1 DEF IInv, RejectedInv
  <2>2. CASE Reconciles(q)
    BY <2>2 DEF Reconciles
  <2> QED
    BY <1>2, <2>1, <2>2
<1> QED
  BY <1>3, <1>4, <1>5, <1>6, <1>7 DEF IInv

\* What the transaction of the first operation does to the admission of q.
Performs(g, q) ==
    LET op == Head(ops[g])
    IN \/ admission'[q] = admission[q] /\ op # Op(q, "pending") /\ op # Op(q, "rejected")
       \/ Reconciles(q) /\ op = Heartbeat
       \/ /\ \/ op = Op(q, "pending") /\ fate[q] \in Fates("pending")
             \/ op = Op(q, "rejected") /\ fate[q] \in Fates("rejected")
          /\ admission'[q] = [state |-> op.state, by |-> g] /\ Owner[q] = g
       \/ /\ op = Op(q, "committed") /\ fate[q] = "acked"
          /\ admission[q].state = "pending" /\ admission'[q].state = "committed"
          /\ admission'[q].by = admission[q].by

\* A transaction does what its operation says, and nothing to other records.
LEMMA OperationDecides ==
    ASSUME IInv, NEW g \in Runtimes, ops[g] # <<>>, Perform(g, Head(ops[g])), NEW q \in Records
    PROVE  Performs(g, q)
<1> DEFINE op == Head(ops[g])
<1>1. /\ op \in Operation /\ Has(ops[g], op) /\ Sound(ops[g], g, fate)
      /\ op = [record |-> op.record, state |-> op.state] /\ op.state \in States
  <2>1. ops[g] \in Seq(Operation) /\ Sound(ops[g], g, fate)
    BY DEF IInv, TypeOK, ListInv
  <2>2. op \in Operation /\ Has(ops[g], op)
    BY <2>1, TailList
  <2> QED
    BY <2>1, <2>2 DEF Operation
<1>2. \A r \in Records : \A s : op = Op(r, s) => fate[r] \in Fates(s) /\ Owner[r] = g
  BY <1>1, ListSays
<1>3. \/ op = Heartbeat
      \/ op.record \in Records
  BY <1>1 DEF Sound, Has
<1>4. admission[q] \in [state : States, by : Runtimes \union {None}] /\ DOMAIN admission = Records
      /\ admission \in [Records -> [state : States, by : Runtimes \union {None}]]
  BY DEF IInv, TypeOK
<1>5. CASE op = Heartbeat /\ Beat(g)
  <2>1. op # Op(q, "pending") /\ op # Op(q, "rejected")
    BY <1>5 DEF Heartbeat, Op
  <2>2. admission'[q] = admission[q] \/ Reconciles(q)
    BY <1>5, BeatDecides
  <2> QED
    BY <1>5, <2>1, <2>2 DEF Performs
<1>6. CASE /\ op.state \in {"pending", "rejected"}
           /\ admission' = [admission EXCEPT ![op.record] = [state |-> op.state, by |-> g]]
  <2>1. op.record \in Records
    BY <1>3, <1>6 DEF Heartbeat
  <2>2. CASE op.record = q
    <3>1. op = Op(q, op.state)
      BY <1>1, <2>2 DEF Op
    <3>2. admission'[q] = [state |-> op.state, by |-> g]
      BY <1>4, <1>6, <2>2
    <3> QED
      BY <1>2, <1>6, <3>1, <3>2 DEF Performs
  <2>3. CASE op.record # q
    <3>1. op # Op(q, "pending") /\ op # Op(q, "rejected")
      BY <2>3 DEF Op
    <3>2. admission'[q] = admission[q]
      BY <1>4, <1>6, <2>3
    <3> QED
      BY <3>1, <3>2 DEF Performs
  <2> QED
    BY <2>2, <2>3
<1>7. CASE /\ op.state = "committed"
           /\ admission' = [admission EXCEPT ![op.record].state =
                               IF admission[op.record] = [state |-> "pending", by |-> g]
                               THEN "committed" ELSE @]
  <2>1. op # Op(q, "pending") /\ op # Op(q, "rejected")
    BY <1>7 DEF Op
  <2>2. CASE op.record = q /\ admission[q] = [state |-> "pending", by |-> g]
    <3>1. op = Op(q, "committed")
      BY <1>1, <1>7, <2>2 DEF Op
    <3>2. fate[q] = "acked"
      BY <1>2, <3>1 DEF Fates
    <3>3. admission'[q] = [admission[q] EXCEPT !.state = "committed"]
      BY <1>4, <1>7, <2>2
    <3> QED
      BY <1>4, <2>2, <3>1, <3>2, <3>3 DEF Performs
  <2>3. CASE ~(op.record = q /\ admission[q] = [state |-> "pending", by |-> g])
    <3>1. admission'[q] = admission[q]
      <4>1. CASE op.record # q
        BY <1>4, <1>7, <4>1
      <4>2. CASE op.record = q
        <5>1. admission'[q] = [admission[q] EXCEPT !.state = admission[q].state]
          BY <1>4, <1>7, <2>3, <4>2
        <5> QED
          BY <1>4, <5>1
      <4> QED
        BY <4>1, <4>2
    <3> QED
      BY <2>1, <3>1 DEF Performs
  <2> QED
    BY <2>2, <2>3
<1> QED
  BY <1>5, <1>6, <1>7 DEF Perform

\* A finished operation keeps the invariant: what it said is on file now.
LEMMA RunKeeps ==
    ASSUME IInv, TypeOK', NEW g \in Runtimes, RunOperation(g)
    PROVE  IInv'
<1> DEFINE op == Head(ops[g])
<1>1. /\ ops[g] # <<>> /\ connected[g] /\ Perform(g, op)
      /\ ops' = [ops EXCEPT ![g] = Tail(@)] /\ overlay' = Settled(overlay, op)
      /\ UNCHANGED <<status, connected, evicted, fate, rows, told, lapsed>>
  BY DEF RunOperation, queueVars
<1>2. \A q \in Records : Performs(g, q)
  BY <1>1, OperationDecides
<1>3. /\ ListInv'
      /\ \A h \in Runtimes : h # g => ops'[h] = ops[h]
      /\ \A q \in Records :
           /\ overlay'[q] \in {"none", overlay[q]}
           /\ op.record # q => overlay'[q] = overlay[q]
           /\ Owner[q] # g => op.record # q
      /\ \A q \in Records : \A t :
           /\ Has(ops'[Owner[q]], Op(q, t)) => Has(ops[Owner[q]], Op(q, t))
           /\ Has(ops[Owner[q]], Op(q, t)) => Has(ops'[Owner[q]], Op(q, t)) \/ op = Op(q, t)
      /\ \A q \in Records : Names(ops'[Owner[q]], q) => Names(ops[Owner[q]], q)
  BY <1>1, TailLists
<1>4. FateInv'
  BY <1>1 DEF IInv, FateInv
<1>5. AdmissionInv'
  <2> SUFFICES ASSUME NEW q \in Records
               PROVE  /\ admission'[q].state = "pending" =>
                           admission'[q].by = Owner[q] /\ fate[q] \in Fates("pending")
                      /\ admission'[q].state = "committed" \/ "committed" \in told[q] => q \in rows
    BY <1>1 DEF AdmissionInv
  <2>1. /\ admission[q].state = "pending" => admission[q].by = Owner[q] /\ fate[q] \in Fates("pending")
        /\ admission[q].state = "committed" \/ "committed" \in told[q] => q \in rows
        /\ fate[q] = "acked" => q \in rows
    BY DEF IInv, AdmissionInv, FateInv
  <2>2. CASE admission'[q] = admission[q]
    BY <2>1, <2>2
  <2>3. CASE Reconciles(q)
    BY <2>1, <2>3 DEF Reconciles
  <2>4. CASE /\ op = Op(q, "pending") /\ fate[q] \in Fates("pending")
             /\ admission'[q] = [state |-> op.state, by |-> g] /\ Owner[q] = g
    BY <2>1, <2>4 DEF Op
  <2>5. CASE op = Op(q, "rejected") /\ admission'[q] = [state |-> op.state, by |-> g]
    BY <2>1, <2>5 DEF Op
  <2>6. CASE fate[q] = "acked" /\ admission'[q].state = "committed"
    BY <2>1, <2>6
  <2> QED
    BY <1>2, <2>2, <2>3, <2>4, <2>5, <2>6 DEF Performs
<1>6. LeaseInv'
  <2> SUFFICES ASSUME NEW h \in Runtimes
               PROVE  /\ status[h] = "new" \/ (status[h] = "running" /\ h \notin lapsed /\ lease'[h] # "valid")
                           => ~connected[h] /\ \A r \in Records : admission'[r].by # h
                      /\ status[h] = "new" => ops'[h] = <<>>
    BY <1>1 DEF LeaseInv
  <2>1. lease'[h] # "valid" => lease[h] # "valid"
    <3>1. lease' = lease \/ lease' = [lease EXCEPT ![g] = "valid"]
      BY <1>1 DEF Perform, Beat
    <3>2. lease \in [Runtimes -> {"none", "valid", "expired"}]
      BY DEF IInv, TypeOK
    <3> QED
      BY <3>1, <3>2
  <2>2. CASE status[h] = "new" \/ (status[h] = "running" /\ h \notin lapsed /\ lease'[h] # "valid")
    <3>1. /\ ~connected[h] /\ \A r \in Records : admission[r].by # h
          /\ status[h] = "new" => ops[h] = <<>>
      BY <2>1, <2>2 DEF IInv, LeaseInv
    <3>2. h # g
      BY <1>1, <3>1
    <3>3. \A r \in Records : admission'[r].by \in {admission[r].by, g}
      BY <1>2 DEF Performs, Reconciles
    <3> QED
      BY <1>3, <3>1, <3>2, <3>3
  <2> QED
    BY <2>2
<1>7. OverlayInv'
  <2> SUFFICES ASSUME NEW q \in Records
               PROVE  /\ overlay'[q] \in {"none", Latest(fate[q])}
                      /\ q \notin evicted /\ Names(ops'[Owner[q]], q) =>
                           /\ overlay'[q] # "none"
                           /\ Has(ops'[Owner[q]], Op(q, Latest(fate[q])))
    BY <1>1 DEF OverlayInv
  <2>1. overlay'[q] \in {"none", Latest(fate[q])}
    BY <1>3 DEF IInv, OverlayInv
  <2>2. ASSUME q \notin evicted, Names(ops'[Owner[q]], q)
        PROVE  overlay'[q] # "none" /\ Has(ops'[Owner[q]], Op(q, Latest(fate[q])))
    <3>1. overlay[q] # "none" /\ Has(ops[Owner[q]], Op(q, Latest(fate[q])))
          /\ overlay[q] = Latest(fate[q])
      BY <1>3, <2>2 DEF IInv, OverlayInv
    <3>2. CASE op.record # q
      BY <1>3, <3>1, <3>2 DEF Op
    <3>3. CASE op.record = q
      <4>1. Owner[q] = g /\ ops'[g] = Tail(ops[g])
        BY <1>1, <1>3, <3>3 DEF IInv, TypeOK
      <4>2. /\ \A i \in DOMAIN ops'[g] : ops'[g][i].record = q =>
                  op.state = "pending" /\ ops'[g][i].state # "pending"
            /\ Sound(ops'[g], g, fate)
        <5>1. ops[g] \in Seq(Operation) /\ InOrder(ops[g]) /\ Sound(ops[g], g, fate)
          BY DEF IInv, TypeOK, ListInv
        <5>2. Sound(ops'[g], g, fate)
          BY <1>1, <4>1, <5>1, TailList
        <5>3. \A i \in DOMAIN Tail(ops[g]) : Tail(ops[g])[i].record = op.record /\ op.record \in Records =>
                 op.state = "pending" /\ Tail(ops[g])[i].state # "pending"
          BY <1>1, <5>1, TailList
        <5> QED
          BY <3>3, <4>1, <5>2, <5>3
      <4>3. PICK i \in DOMAIN ops'[g] : ops'[g][i].record = q
        BY <2>2, <4>1 DEF Names
      <4>4. fate[q] \in Fates(ops'[g][i].state)
        BY <4>2, <4>3, ListSays
      <4>5. op.state = "pending" /\ Latest(fate[q]) # "pending"
        BY <4>2, <4>3, <4>4 DEF Fates, Latest
      <4>6. overlay'[q] = overlay[q]
        BY <1>1, <3>1, <3>3, <4>5 DEF Settled
      <4>7. op # Op(q, Latest(fate[q]))
        BY <4>5 DEF Op
      <4> QED
        BY <1>3, <3>1, <4>6, <4>7
    <3> QED
      BY <3>2, <3>3
  <2> QED
    BY <2>1, <2>2
<1>8. WrittenInv'
  <2> SUFFICES ASSUME NEW q \in Records, q \notin evicted
               PROVE  /\ fate[q] \in {"accepted", "acked"} =>
                           Has(ops'[Owner[q]], Op(q, "pending")) \/ admission'[q].state # "none"
                      /\ fate[q] \in {"dropped", "refused"} =>
                           Has(ops'[Owner[q]], Op(q, "rejected")) \/ admission'[q].state = "rejected"
    BY <1>1 DEF WrittenInv
  <2>1. /\ fate[q] \in {"accepted", "acked"} =>
             Has(ops[Owner[q]], Op(q, "pending")) \/ admission[q].state # "none"
        /\ fate[q] \in {"dropped", "refused"} =>
             Has(ops[Owner[q]], Op(q, "rejected")) \/ admission[q].state = "rejected"
    BY DEF IInv, WrittenInv
  <2>2. /\ Has(ops[Owner[q]], Op(q, "pending")) => Has(ops'[Owner[q]], Op(q, "pending")) \/ op = Op(q, "pending")
        /\ Has(ops[Owner[q]], Op(q, "rejected")) => Has(ops'[Owner[q]], Op(q, "rejected")) \/ op = Op(q, "rejected")
    BY <1>3
  <2>3. CASE admission'[q] = admission[q] /\ op # Op(q, "pending") /\ op # Op(q, "rejected")
    BY <2>1, <2>2, <2>3
  <2>4. CASE Reconciles(q) /\ op = Heartbeat
    <3>1. op # Op(q, "pending") /\ op # Op(q, "rejected")
      BY <2>4 DEF Heartbeat, Op
    <3>2. admission[q].state = "pending" /\ admission'[q].state \in {"committed", "rejected"}
      BY <2>4 DEF Reconciles
    <3> QED
      BY <2>1, <2>2, <3>1, <3>2
  <2>5. CASE op = Op(q, "pending") /\ admission'[q] = [state |-> op.state, by |-> g]
    <3>1. admission'[q].state = "pending" /\ Names(ops[Owner[q]], q)
      <4>1. Has(ops[g], op) /\ Sound(ops[g], g, fate)
        BY <1>1, OpsTyped, TailList DEF IInv, ListInv
      <4> QED
        BY <2>5, <4>1, ListSays DEF Op
    <3>2. Has(ops[Owner[q]], Op(q, Latest(fate[q])))
      BY <3>1 DEF IInv, OverlayInv
    <3>3. fate[q] \in {"dropped", "refused"} => Has(ops[Owner[q]], Op(q, "rejected"))
      BY <3>2 DEF Latest
    <3>4. op # Op(q, "rejected")
      BY <2>5 DEF Op
    <3> QED
      BY <2>2, <3>1, <3>3, <3>4
  <2>6. CASE op = Op(q, "rejected") /\ admission'[q] = [state |-> op.state, by |-> g]
    BY <2>6 DEF Op
  <2>7. CASE fate[q] = "acked" /\ admission'[q].state = "committed"
    BY <2>7
  <2> QED
    BY <1>2, <2>3, <2>4, <2>5, <2>6, <2>7 DEF Performs
<1>9. RejectedInv'
  <2> SUFFICES ASSUME NEW q \in Records, admission'[q].state = "rejected", q \notin evicted,
                      Owner[q] \notin lapsed
               PROVE  \/ fate[q] \in {"new", "refused", "dropped"}
                      \/ Has(ops'[Owner[q]], Op(q, "pending"))
                      \/ q \notin rows /\ status[Owner[q]] \in {"closed", "crashed"}
    BY <1>1 DEF RejectedInv
  <2>1. CASE admission'[q] = admission[q] /\ op # Op(q, "pending")
    BY <1>3, <2>1 DEF IInv, RejectedInv
  <2>2. CASE Reconciles(q)
    BY <2>2 DEF Reconciles
  <2>3. CASE op = Op(q, "rejected") /\ fate[q] \in Fates("rejected")
    BY <2>3 DEF Fates
  <2>4. CASE op = Op(q, "pending") /\ admission'[q] = [state |-> op.state, by |-> g]
    BY <2>4 DEF Op
  <2> QED
    BY <1>2, <2>1, <2>2, <2>3, <2>4 DEF Performs
<1> QED
  BY <1>3, <1>4, <1>5, <1>6, <1>7, <1>8, <1>9 DEF IInv

\* An operation that is given up takes its record out of what is promised.
LEMMA ExpireKeeps ==
    ASSUME IInv, TypeOK', NEW g \in Runtimes, OperationExpires(g)
    PROVE  IInv'
<1> DEFINE op == Head(ops[g])
<1>1. /\ ops[g] # <<>>
      /\ ops' = [ops EXCEPT ![g] = Tail(@)] /\ overlay' = Settled(overlay, op)
      /\ evicted' = evicted \union Concerned(op)
      /\ UNCHANGED <<status, connected, fate, rows, admission, waiting, lease, told, lapsed>>
  BY DEF OperationExpires, queueVars, sharedVars
<1>2. /\ ListInv'
      /\ \A h \in Runtimes : h # g => ops'[h] = ops[h]
      /\ \A q \in Records :
           /\ overlay'[q] \in {"none", overlay[q]}
           /\ op.record # q => overlay'[q] = overlay[q]
      /\ \A q \in Records : \A t :
           /\ Has(ops'[Owner[q]], Op(q, t)) => Has(ops[Owner[q]], Op(q, t))
           /\ Has(ops[Owner[q]], Op(q, t)) => Has(ops'[Owner[q]], Op(q, t)) \/ op = Op(q, t)
      /\ \A q \in Records : Names(ops'[Owner[q]], q) => Names(ops[Owner[q]], q)
  BY <1>1, TailLists
<1>3. \A q \in Records : q \notin evicted' =>
         q \notin evicted /\ op.record # q /\ \A t : op # Op(q, t)
  BY <1>1 DEF Concerned, Op
<1>4. FateInv' /\ AdmissionInv'
  BY <1>1 DEF IInv, FateInv, AdmissionInv
<1>5. LeaseInv'
  BY <1>1, <1>2 DEF IInv, LeaseInv
<1>6. OverlayInv'
  <2>1. \A q \in Records : overlay'[q] \in {"none", Latest(fate[q])}
    BY <1>2 DEF IInv, OverlayInv
  <2>2. \A q \in Records : q \notin evicted' /\ Names(ops'[Owner[q]], q) =>
           overlay'[q] # "none" /\ Has(ops'[Owner[q]], Op(q, Latest(fate[q])))
    BY <1>2, <1>3 DEF IInv, OverlayInv
  <2> QED
    BY <1>1, <2>1, <2>2 DEF OverlayInv
<1>7. WrittenInv'
  BY <1>1, <1>2, <1>3 DEF IInv, WrittenInv
<1>8. RejectedInv'
  BY <1>1, <1>2, <1>3 DEF IInv, RejectedInv
<1> QED
  BY <1>2, <1>4, <1>5, <1>6, <1>7, <1>8 DEF IInv

\* A failure of the store loses no operation; a lease lost by it is remembered.
LEMMA FailureKeeps ==
    ASSUME IInv, TypeOK', NEW g \in Runtimes, OperationFails(g) \/ ReadFails(g)
    PROVE  IInv'
<1>1. /\ StoreFails(g)
      /\ UNCHANGED <<status, ops, overlay, evicted, fate, rows, admission, told>>
  BY DEF OperationFails, ReadFails, queueVars
<1>2. /\ connected' \in {connected, [connected EXCEPT ![g] = FALSE]}
      /\ \/ UNCHANGED <<lease, lapsed>>
         \/ lease' = [lease EXCEPT ![g] = "none"] /\ lapsed' = lapsed \union {g}
  BY <1>1 DEF StoreFails
<1>3. lapsed \subseteq lapsed'
  BY <1>2
<1>4. ListInv' /\ FateInv' /\ AdmissionInv' /\ OverlayInv' /\ WrittenInv'
  BY <1>1 DEF IInv, ListInv, FateInv, AdmissionInv, OverlayInv, WrittenInv
<1>5. LeaseInv'
  <2> SUFFICES ASSUME NEW h \in Runtimes
               PROVE  /\ status[h] = "new" \/ (status[h] = "running" /\ h \notin lapsed' /\ lease'[h] # "valid")
                           => ~connected'[h] /\ \A r \in Records : admission[r].by # h
                      /\ status[h] = "new" => ops[h] = <<>>
    BY <1>1 DEF LeaseInv
  <2>1. /\ connected'[h] => connected[h]
        /\ h \notin lapsed' => lease'[h] = lease[h] /\ h \notin lapsed
    BY <1>2 DEF IInv, TypeOK
  <2> QED
    BY <2>1 DEF IInv, LeaseInv
<1>6. RejectedInv'
  BY <1>1, <1>3 DEF IInv, RejectedInv
<1> QED
  BY <1>4, <1>5, <1>6 DEF IInv

\* A runtime that starts has done nothing.
LEMMA StartKeeps ==
    ASSUME IInv, TypeOK', NEW g \in Runtimes, Start(g)
    PROVE  IInv'
<1>1. /\ status[g] = "new" /\ status' = [status EXCEPT ![g] = "running"]
      /\ UNCHANGED <<connected, ops, overlay, evicted, fate, rows, admission, lease, told, lapsed>>
  BY DEF Start, queueVars, sharedVars
<1>2. \A h \in Runtimes : status[h] \in {"closed", "crashed"} => status'[h] = status[h]
  BY <1>1 DEF IInv, TypeOK
<1>3. ListInv' /\ FateInv' /\ AdmissionInv' /\ OverlayInv' /\ WrittenInv'
  BY <1>1 DEF IInv, ListInv, FateInv, AdmissionInv, OverlayInv, WrittenInv
<1>4. LeaseInv'
  BY <1>1 DEF IInv, LeaseInv, TypeOK
<1>5. RejectedInv'
  BY <1>1, <1>2, AdmissionAssumption DEF IInv, RejectedInv
<1> QED
  BY <1>3, <1>4, <1>5 DEF IInv

\* What a runtime has in memory goes when it closes or crashes: of the records it
\* had operations for nothing is promised.
LEMMA EndKeeps ==
    ASSUME IInv, TypeOK', NEW g \in Runtimes, Close(g) \/ Crash(g)
    PROVE  IInv'
<1>1. /\ Emptied(g)
      /\ status' \in {[status EXCEPT ![g] = "closed"], [status EXCEPT ![g] = "crashed"]}
      /\ status[g] \in {"running", "closed"}
      /\ lease' \in {lease, [lease EXCEPT ![g] = "none"]}
      /\ UNCHANGED <<fate, rows, admission, told, lapsed>>
  BY DEF Close, Crash, queueVars, sharedVars
<1>2. /\ connected' = [connected EXCEPT ![g] = FALSE]
      /\ ops'[g] = <<>> /\ \A h \in Runtimes : h # g => ops'[h] = ops[h]
      /\ \A q \in Records : overlay'[q] \in {"none", overlay[q]}
      /\ \A q \in Records : Owner[q] # g => overlay'[q] = overlay[q]
      /\ evicted \subseteq evicted'
  BY <1>1 DEF Emptied, IInv, TypeOK
<1>3. /\ \A h \in Runtimes : h # g => status'[h] = status[h] /\ lease'[h] = lease[h]
      /\ status'[g] \in {"closed", "crashed"}
  BY <1>1 DEF IInv, TypeOK
<1>4. \A p, r : ~Has(<<>>, p) /\ ~Names(<<>>, r)
  BY DEF Has, Names
<1>5. \A q \in Records : q \notin evicted' => \A t :
         /\ Has(ops[Owner[q]], Op(q, t)) <=> Has(ops'[Owner[q]], Op(q, t))
         /\ Names(ops'[Owner[q]], q) => Owner[q] # g
  <2> TAKE q \in Records
  <2> HAVE q \notin evicted'
  <2> TAKE t
  <2>1. CASE Owner[q] = g
    <3>1. \A i \in DOMAIN ops[g] : q \notin Concerned(ops[g][i])
      BY <1>1 DEF Emptied
    <3>2. ~Has(ops[g], Op(q, t))
      BY <3>1 DEF Has, Op, Concerned
    <3> QED
      BY <1>2, <1>4, <2>1, <3>2
  <2>2. CASE Owner[q] # g
    BY <1>2, <2>2, AdmissionAssumption
  <2> QED
    BY <2>1, <2>2
<1>6. ListInv'
  <2>1. Sound(<<>>, g, fate) /\ InOrder(<<>>)
    BY DEF Sound, InOrder
  <2> QED
    BY <1>1, <1>2, <2>1 DEF IInv, ListInv
<1>7. FateInv' /\ AdmissionInv'
  BY <1>1 DEF IInv, FateInv, AdmissionInv
<1>8. LeaseInv'
  <2> SUFFICES ASSUME NEW h \in Runtimes
               PROVE  /\ status'[h] = "new" \/ (status'[h] = "running" /\ h \notin lapsed /\ lease'[h] # "valid")
                           => ~connected'[h] /\ \A r \in Records : admission[r].by # h
                      /\ status'[h] = "new" => ops'[h] = <<>>
    BY <1>1 DEF LeaseInv
  <2>1. CASE h = g
    BY <1>3, <2>1
  <2>2. CASE h # g
    <3>1. connected'[h] = connected[h]
      BY <1>2, <2>2 DEF IInv, TypeOK
    <3> QED
      BY <1>2, <1>3, <2>2, <3>1 DEF IInv, LeaseInv
  <2> QED
    BY <2>1, <2>2
<1>9. OverlayInv'
  <2> SUFFICES ASSUME NEW q \in Records
               PROVE  /\ overlay'[q] \in {"none", Latest(fate[q])}
                      /\ q \notin evicted' /\ Names(ops'[Owner[q]], q) =>
                           /\ overlay'[q] # "none"
                           /\ Has(ops'[Owner[q]], Op(q, Latest(fate[q])))
    BY <1>1 DEF OverlayInv
  <2>1. overlay'[q] \in {"none", Latest(fate[q])}
    BY <1>2 DEF IInv, OverlayInv
  <2>2. ASSUME q \notin evicted', Names(ops'[Owner[q]], q)
        PROVE  overlay'[q] # "none" /\ Has(ops'[Owner[q]], Op(q, Latest(fate[q])))
    <3>1. Owner[q] # g
      BY <1>5, <2>2
    <3>2. ops'[Owner[q]] = ops[Owner[q]] /\ overlay'[q] = overlay[q] /\ q \notin evicted
      BY <1>2, <2>2, <3>1, AdmissionAssumption
    <3> QED
      BY <2>2, <3>2 DEF IInv, OverlayInv
  <2> QED
    BY <2>1, <2>2
<1>10. WrittenInv'
  BY <1>1, <1>2, <1>5 DEF IInv, WrittenInv
<1>11. RejectedInv'
  <2>1. \A q \in Records : status[Owner[q]] \in {"closed", "crashed"} =>
                              status'[Owner[q]] \in {"closed", "crashed"}
    BY <1>3, AdmissionAssumption
  <2> QED
    BY <1>1, <1>2, <1>5, <2>1 DEF IInv, RejectedInv
<1> QED
  BY <1>6, <1>7, <1>8, <1>9, <1>10, <1>11 DEF IInv

\* A lease that ends is that of a runtime that ended, or is remembered.
LEMMA LapseKeeps ==
    ASSUME IInv, TypeOK', NEW g \in Runtimes, LeaseRunsOut(g) \/ Stall(g)
    PROVE  IInv'
<1>1. /\ lease[g] = "valid" /\ lease' = [lease EXCEPT ![g] = "expired"]
      /\ \/ status[g] # "running" /\ lapsed' = lapsed
         \/ lapsed' = lapsed \union {g}
      /\ UNCHANGED <<status, connected, ops, overlay, evicted, fate, rows, admission, told>>
  BY DEF LeaseRunsOut, Stall, runtimeVars, queueVars
<1>2. lapsed \subseteq lapsed'
  BY <1>1
<1>3. ListInv' /\ FateInv' /\ AdmissionInv' /\ OverlayInv' /\ WrittenInv'
  BY <1>1 DEF IInv, ListInv, FateInv, AdmissionInv, OverlayInv, WrittenInv
<1>4. LeaseInv'
  BY <1>1, <1>2 DEF IInv, LeaseInv, TypeOK
<1>5. RejectedInv'
  BY <1>1, <1>2 DEF IInv, RejectedInv
<1> QED
  BY <1>3, <1>4, <1>5 DEF IInv

\* The end of a pause, and an answer to a raw trace.
LEMMA QuietKeeps ==
    ASSUME IInv, TypeOK', NEW g \in Runtimes, BackoffEnds(g) \/ \E r \in Records : Answer(g, r)
    PROVE  IInv'
<1>1. UNCHANGED <<status, connected, ops, overlay, evicted, fate, rows, admission, lease, lapsed>>
  BY DEF BackoffEnds, Answer, runtimeVars, queueVars, sharedVars
<1>2. \A q \in Records : "committed" \in told'[q] => q \in rows
  <2>1. CASE BackoffEnds(g)
    BY <2>1 DEF BackoffEnds, IInv, AdmissionInv
  <2>2. ASSUME NEW r \in Records, Answer(g, r)
        PROVE  \A q \in Records : "committed" \in told'[q] => q \in rows
    <3>1. View(g, r) = "committed" => r \in rows
      <4>1. /\ overlay[r] = "committed" => r \in rows
            /\ admission[r].state = "committed" => r \in rows
        BY DEF IInv, OverlayInv, FateInv, AdmissionInv, Latest
      <4> QED
        BY <4>1 DEF View
    <3>2. told' = [told EXCEPT ![r] = @ \union {View(g, r)}] /\ told \in [Records -> SUBSET {"committed", "rejected"}]
      BY <2>2 DEF Answer, IInv, TypeOK
    <3>3. \A q \in Records : "committed" \in told[q] => q \in rows
      BY DEF IInv, AdmissionInv
    <3> QED
      BY <3>1, <3>2, <3>3
  <2> QED
    BY <2>1, <2>2
<1>3. ListInv' /\ FateInv' /\ LeaseInv' /\ OverlayInv' /\ WrittenInv' /\ RejectedInv'
  BY <1>1 DEF IInv, ListInv, FateInv, LeaseInv, OverlayInv, WrittenInv, RejectedInv
<1>4. AdmissionInv'
  BY <1>1, <1>2 DEF IInv, AdmissionInv
<1> QED
  BY <1>3, <1>4 DEF IInv

\* A batch that is stored is one of a runtime that runs.
LEMMA StoreKeeps ==
    ASSUME IInv, TypeOK', NEW r \in Records, Store(r)
    PROVE  IInv'
<1>1. /\ fate[r] = "accepted" /\ status[Owner[r]] = "running" /\ rows' = rows \union {r}
      /\ UNCHANGED <<status, connected, ops, overlay, evicted, fate, admission, lease, told, lapsed>>
  BY DEF Store, Runs, runtimeVars, sharedVars
<1>2. ListInv' /\ LeaseInv' /\ OverlayInv' /\ WrittenInv'
  BY <1>1 DEF IInv, ListInv, LeaseInv, OverlayInv, WrittenInv
<1>3. FateInv' /\ AdmissionInv'
  BY <1>1 DEF IInv, FateInv, AdmissionInv
<1>4. RejectedInv'
  BY <1>1 DEF IInv, RejectedInv
<1> QED
  BY <1>2, <1>3, <1>4 DEF IInv

\* An overlay entry that is given up takes its record out of what is promised.
LEMMA ForgetKeeps ==
    ASSUME IInv, TypeOK', NEW r \in Records, OverlayForgets(r)
    PROVE  IInv'
<1>1. /\ overlay' = [overlay EXCEPT ![r] = "none"] /\ evicted' = evicted \union {r}
      /\ UNCHANGED <<status, connected, ops, fate, rows, admission, lease, told, lapsed>>
  BY DEF OverlayForgets, queueVars, sharedVars
<1>2. ListInv' /\ FateInv' /\ AdmissionInv' /\ LeaseInv'
  BY <1>1 DEF IInv, ListInv, FateInv, AdmissionInv, LeaseInv
<1>3. OverlayInv'
  BY <1>1 DEF IInv, OverlayInv, TypeOK
<1>4. WrittenInv' /\ RejectedInv'
  BY <1>1 DEF IInv, WrittenInv, RejectedInv
<1> QED
  BY <1>2, <1>3, <1>4 DEF IInv

\* A request is taken for unknown only if nothing of it is stored, on file or, by
\* its owner, on its way.
LEMMA UnknownKeeps ==
    ASSUME IInv, TypeOK', NEW g \in Runtimes, NEW r \in Records, AskUnknown(g, r)
    PROVE  IInv'
<1>1. /\ UNCHANGED <<status, connected, ops, overlay, evicted, fate, rows, lease, lapsed>>
      /\ Asks(g, r) /\ View(g, r) = "none"
      /\ \/ UNCHANGED <<admission, told>>
         \/ /\ admission' = [admission EXCEPT ![r] = [state |-> "rejected", by |-> g]]
            /\ told' = [told EXCEPT ![r] = @ \union {"rejected"}]
  BY DEF AskUnknown, runtimeVars, queueVars
<1>2. admission[r].state = "none" /\ ~(g = Owner[r] /\ overlay[r] # "none")
  <2>1. admission[r].state \in States
    BY DEF IInv, TypeOK
  <2> QED
    BY <1>1, <2>1 DEF View, States
<1>3. status[g] = "running" /\ connected[g]
  BY <1>1, <1>2 DEF Asks
<1>4. /\ admission \in [Records -> [state : States, by : Runtimes \union {None}]]
      /\ told \in [Records -> SUBSET {"committed", "rejected"}]
  BY DEF IInv, TypeOK
<1>5. \A q \in Records :
         /\ admission'[q] = admission[q]
              \/ (q = r /\ admission'[q].state = "rejected" /\ admission'[q].by = g)
         /\ "committed" \in told'[q] => "committed" \in told[q]
  BY <1>1, <1>4
<1>6. ListInv' /\ FateInv' /\ OverlayInv'
  BY <1>1 DEF IInv, ListInv, FateInv, OverlayInv
<1>7. AdmissionInv'
  BY <1>1, <1>5 DEF IInv, AdmissionInv
<1>8. LeaseInv'
  BY <1>1, <1>3, <1>5 DEF IInv, LeaseInv
<1>9. WrittenInv'
  BY <1>1, <1>5 DEF IInv, WrittenInv
<1>10. RejectedInv'
  <2> SUFFICES ASSUME NEW q \in Records, admission'[q].state = "rejected", q \notin evicted,
                      Owner[q] \notin lapsed
               PROVE  \/ fate[q] \in {"new", "refused", "dropped"}
                      \/ Has(ops[Owner[q]], Op(q, "pending"))
                      \/ q \notin rows /\ status[Owner[q]] \in {"closed", "crashed"}
    BY <1>1 DEF RejectedInv
  <2>1. CASE admission'[q] = admission[q]
    BY <2>1 DEF IInv, RejectedInv
  <2>2. CASE q = r
    BY <1>2, <2>2 DEF IInv, TypeOK, WrittenInv
  <2> QED
    BY <1>5, <2>1, <2>2
<1> QED
  BY <1>6, <1>7, <1>8, <1>9, <1>10 DEF IInv

-----------------------------------------------------------------------------
(* The theorems.                                                           *)

\* Initially nothing is decided, stored or promised.
LEMMA InitHolds == Init => IInv
<1> SUFFICES ASSUME Init PROVE IInv
  OBVIOUS
<1>1. TypeOK
  BY EmptySeq, AdmissionAssumption DEF Init, TypeOK, States
<1>2. ListInv
  BY DEF Init, ListInv, Sound, InOrder
<1>3. FateInv /\ AdmissionInv /\ LeaseInv
  BY AdmissionAssumption DEF Init, FateInv, AdmissionInv, LeaseInv
<1>4. OverlayInv /\ WrittenInv /\ RejectedInv
  BY AdmissionAssumption DEF Init, OverlayInv, WrittenInv, RejectedInv, Names
<1> QED
  BY <1>1, <1>2, <1>3, <1>4 DEF IInv

\* A decision of the queue, each one by a runtime that has started.
LEMMA QueueKeeps ==
    ASSUME IInv, TypeOK', NEW r \in Records, Enqueue(r) \/ Refuse(r) \/ Ack(r) \/ Drop(r)
    PROVE  IInv'
<1> USE DEF Runs, Latest, States
<1>1. CASE Enqueue(r)
  <2>1. /\ fate[r] = "new" /\ fate' = [fate EXCEPT ![r] = "accepted"] /\ Decide(r, "pending")
        /\ status[Owner[r]] # "new"
        /\ UNCHANGED <<status, connected, rows, sharedVars, told, lapsed>>
    BY <1>1 DEF Enqueue
  <2>2. "pending" = Latest("accepted") /\ "pending" \in States
    OBVIOUS
  <2> HIDE DEF Latest, States
  <2> QED
    BY <2>1, <2>2, DecideKeeps
<1>2. CASE Refuse(r)
  <2>1. /\ fate[r] = "new" /\ fate' = [fate EXCEPT ![r] = "refused"] /\ Decide(r, "rejected")
        /\ status[Owner[r]] # "new"
        /\ UNCHANGED <<status, connected, rows, sharedVars, told, lapsed>>
    BY <1>2 DEF Refuse
  <2>2. "rejected" = Latest("refused") /\ "rejected" \in States
    OBVIOUS
  <2> HIDE DEF Latest, States
  <2> QED
    BY <2>1, <2>2, DecideKeeps
<1>3. CASE Ack(r)
  <2>1. /\ fate[r] = "accepted" /\ r \in rows
        /\ fate' = [fate EXCEPT ![r] = "acked"] /\ Decide(r, "committed")
        /\ status[Owner[r]] # "new"
        /\ UNCHANGED <<status, connected, rows, sharedVars, told, lapsed>>
    BY <1>3 DEF Ack
  <2>2. "committed" = Latest("acked") /\ "committed" \in States
    OBVIOUS
  <2> HIDE DEF Latest, States
  <2> QED
    BY <2>1, <2>2, DecideKeeps
<1>4. CASE Drop(r)
  <2>1. /\ fate[r] = "accepted" /\ fate' = [fate EXCEPT ![r] = "dropped"] /\ Decide(r, "rejected")
        /\ status[Owner[r]] # "new"
        /\ UNCHANGED <<status, connected, rows, sharedVars, told, lapsed>>
    BY <1>4 DEF Drop
  <2>2. "rejected" = Latest("dropped") /\ "rejected" \in States
    OBVIOUS
  <2> HIDE DEF Latest, States
  <2> QED
    BY <2>1, <2>2, DecideKeeps
<1> QED
  BY <1>1, <1>2, <1>3, <1>4

\* Every step keeps the invariant.
LEMMA StepKeeps == IInv /\ [Next]_vars => IInv'
<1> SUFFICES ASSUME IInv, [Next]_vars PROVE IInv'
  OBVIOUS
<1>1. TypeOK
  BY DEF IInv
<1>2. CASE UNCHANGED vars
  BY <1>2 DEF vars, runtimeVars, queueVars, sharedVars, budget, IInv, TypeOK, ListInv, FateInv,
              AdmissionInv, LeaseInv, OverlayInv, WrittenInv, RejectedInv
<1>3. ASSUME NEW g \in Runtimes, RuntimeStep(g) PROVE IInv'
  <2>1. TypeOK'
    BY <1>1, <1>3, RuntimeTyped
  <2> QED
    BY <1>3, <2>1, HeartbeatKeeps, QuietKeeps, ConnectKeeps, RunKeeps, ExpireKeeps, FailureKeeps,
       StartKeeps, EndKeeps, LapseKeeps DEF RuntimeStep
<1>4. ASSUME NEW r \in Records, RecordStep(r) PROVE IInv'
  <2>1. TypeOK'
    BY <1>1, <1>4, RecordTyped
  <2> QED
    BY <1>4, <2>1, QueueKeeps, StoreKeeps, ForgetKeeps DEF RecordStep
<1>5. ASSUME NEW g \in Runtimes, NEW r \in Records, TraceStep(g, r) PROVE IInv'
  <2>1. TypeOK'
    BY <1>1, <1>5, RecordTyped
  <2> QED
    BY <1>5, <2>1, QuietKeeps, UnknownKeeps DEF TraceStep
<1> QED
  BY <1>2, <1>3, <1>4, <1>5 DEF Next

\* The invariant holds in every reachable state.
LEMMA InvariantHolds == Spec => []IInv
  BY InitHolds, StepKeeps, PTL DEF Spec

\* CommittedIsStored, for any number of runtimes and records: whichever process
\* decides, and whatever failed before, what counts as written is written.
THEOREM CommittedMeansStored == Spec => []CommittedIsStored
<1>1. IInv => CommittedIsStored
  BY DEF IInv, CommittedIsStored, OverlayInv, FateInv, AdmissionInv, Latest
<1> QED
  BY <1>1, InvariantHolds, PTL

\* DecisionStands: a runtime that keeps its lease does not contradict itself.
THEOREM DecisionsStand == Spec => []DecisionStands
<1>1. ASSUME IInv PROVE DecisionStands
  <2> SUFFICES ASSUME NEW r \in Records, status[Owner[r]] = "running", Owner[r] \notin lapsed,
                      r \notin evicted
               PROVE  View(Owner[r], r) \in Decision(r)
    BY DEF DecisionStands, Runs
  <2>1. /\ overlay[r] \in {"none", Latest(fate[r])}
        /\ \A s : Has(ops[Owner[r]], Op(r, s)) => Names(ops[Owner[r]], r)
        /\ Names(ops[Owner[r]], r) => overlay[r] # "none"
    <3>1. Sound(ops[Owner[r]], Owner[r], fate)
      BY <1>1, AdmissionAssumption DEF IInv, ListInv
    <3>2. \A s : Has(ops[Owner[r]], Op(r, s)) => Names(ops[Owner[r]], r)
      BY <3>1, ListSays
    <3> QED
      BY <1>1, <3>2 DEF IInv, OverlayInv
  <2>2. /\ fate[r] \in {"new", "accepted", "acked", "dropped", "refused"}
        /\ admission[r].state \in States /\ overlay[r] \in States
    BY <1>1 DEF IInv, TypeOK
  <2>3. CASE overlay[r] # "none"
    <3>1. View(Owner[r], r) = Latest(fate[r]) /\ Latest(fate[r]) # "none"
      BY <2>1, <2>3 DEF View
    <3>2. Latest(fate[r]) # "none" => Latest(fate[r]) \in Decision(r)
      BY <2>2 DEF Decision, Latest
    <3> QED
      BY <3>1, <3>2
  <2>4. CASE overlay[r] = "none"
    <3>1. \A s : ~Has(ops[Owner[r]], Op(r, s))
      BY <2>1, <2>4
    <3>2. /\ fate[r] \in {"accepted", "acked"} => admission[r].state # "none"
          /\ fate[r] \in {"dropped", "refused"} => admission[r].state = "rejected"
      BY <1>1, <3>1 DEF IInv, WrittenInv
    <3>3. admission[r].state = "rejected" => fate[r] \in {"new", "refused", "dropped"}
      BY <1>1, <3>1 DEF IInv, RejectedInv
    <3>4. fate[r] = "acked" => r \in rows
      BY <1>1 DEF IInv, FateInv
    <3>5. View(Owner[r], r) = IF r \in rows /\ admission[r].state # "rejected"
                              THEN "committed" ELSE admission[r].state
      BY <2>4 DEF View
    <3> QED
      BY <2>2, <3>2, <3>3, <3>4, <3>5 DEF Decision, States
  <2> QED
    BY <2>3, <2>4
<1> QED
  BY <1>1, InvariantHolds, PTL

\* StoredNotRejected: a stored record is turned away for the known causes only.
THEOREM RejectedOnlyIfLost == Spec => []StoredNotRejected
<1>1. ASSUME IInv PROVE StoredNotRejected
  <2> SUFFICES ASSUME NEW r \in rows, admission[r].state = "rejected",
                      fate[r] # "dropped", Owner[r] \notin lapsed, r \notin evicted
               PROVE  Names(ops[Owner[r]], r)
    BY DEF StoredNotRejected, Names
  <2>1. r \in Records
    BY <1>1 DEF IInv, TypeOK
  <2>2. fate[r] \notin {"new", "refused"}
    BY <1>1, <2>1 DEF IInv, FateInv
  <2>3. Has(ops[Owner[r]], Op(r, "pending"))
    BY <1>1, <2>1, <2>2 DEF IInv, RejectedInv
  <2> QED
    BY <2>3 DEF Has, Names, Op
<1> QED
  BY <1>1, InvariantHolds, PTL
=============================================================================
