----------------------- MODULE RequestLogQueueProofs -----------------------
(***************************************************************************)
(* Theorems about RequestLogQueue, for every set of events, every cap and  *)
(* every number of crashes, failed writes, attempts of a record and days:  *)
(* nothing is lost, what is acknowledged was written, replays are          *)
(* idempotent, only poison is dropped, the caps hold, and the queue        *)
(* implements DurableLog.                                                  *)
(***************************************************************************)
EXTENDS RequestLogQueue, OrderLemmas, SequenceTheorems, TLAPS

-----------------------------------------------------------------------------
(* Lemmas about sequences of entries.                                      *)

\* Concatenation joins the events of two sequences; the result repeats no
\* event iff neither part does and they share none.
LEMMA ConcatEvents ==
    ASSUME NEW s \in Seq(Entry), NEW t \in Seq(Entry)
    PROVE  /\ s \o t \in Seq(Entry)
           /\ EventsOf(s \o t) = EventsOf(s) \union EventsOf(t)
           /\ Distinct(s \o t) <=> /\ Distinct(s) /\ Distinct(t)
                                   /\ EventsOf(s) \intersect EventsOf(t) = {}
<1> DEFINE u == s \o t
<1>1. /\ u \in Seq(Entry) /\ Len(u) = Len(s) + Len(t)
      /\ Len(s) \in Nat /\ Len(t) \in Nat
      /\ DOMAIN u = 1 .. Len(s) + Len(t)
      /\ DOMAIN s = 1 .. Len(s) /\ DOMAIN t = 1 .. Len(t)
  BY ConcatProperties, LenProperties
<1>2. \A i \in 1 .. Len(s) : u[i] = s[i]
  BY <1>1, ConcatProperties
<1>3. \A i \in 1 .. Len(t) : u[Len(s) + i] = t[i]
  <2> TAKE i \in 1 .. Len(t)
  <2>1. Len(s) + i \in 1 .. Len(s) + Len(t) /\ ~(Len(s) + i <= Len(s))
        /\ (Len(s) + i) - Len(s) = i
    BY <1>1
  <2> QED BY <2>1, ConcatProperties
<1>4. \A k \in 1 .. Len(s) + Len(t) :
         \/ k \in 1 .. Len(s)
         \/ \E i \in 1 .. Len(t) : k = Len(s) + i
  <2> TAKE k \in 1 .. Len(s) + Len(t)
  <2>1. CASE k <= Len(s)
    BY <2>1, <1>1
  <2>2. CASE ~(k <= Len(s))
    <3>1. k - Len(s) \in 1 .. Len(t) /\ k = Len(s) + (k - Len(s))
      BY <2>2, <1>1
    <3> QED BY <3>1
  <2> QED BY <2>1, <2>2
<1> HIDE DEF u
<1>5. EventsOf(u) = EventsOf(s) \union EventsOf(t)
  <2>1. EventsOf(u) \subseteq EventsOf(s) \union EventsOf(t)
    <3>1. ASSUME NEW k \in DOMAIN u
          PROVE  u[k].event \in EventsOf(s) \union EventsOf(t)
      <4>1. CASE k \in 1 .. Len(s)
        BY <4>1, <1>1, <1>2 DEF EventsOf
      <4>2. CASE k \notin 1 .. Len(s)
        <5>1. PICK i \in 1 .. Len(t) : k = Len(s) + i
          BY <4>2, <1>1, <1>4
        <5>2. u[k].event = t[i].event
          BY <5>1, <1>3
        <5> QED BY <5>2, <1>1 DEF EventsOf
      <4> QED BY <4>1, <4>2
    <3> QED BY <3>1 DEF EventsOf
  <2>2. EventsOf(s) \subseteq EventsOf(u)
    BY <1>1, <1>2 DEF EventsOf
  <2>3. EventsOf(t) \subseteq EventsOf(u)
    <3>1. \A i \in 1 .. Len(t) : Len(s) + i \in 1 .. Len(s) + Len(t)
      BY <1>1
    <3> QED BY <3>1, <1>1, <1>3 DEF EventsOf
  <2> QED BY <2>1, <2>2, <2>3
<1>6. ASSUME Distinct(u)
      PROVE  /\ Distinct(s) /\ Distinct(t)
             /\ EventsOf(s) \intersect EventsOf(t) = {}
  <2>1. Distinct(s)
    BY <1>1, <1>2, <1>6 DEF Distinct
  <2>2. Distinct(t)
    <3>1. ASSUME NEW i \in DOMAIN t, NEW j \in DOMAIN t, t[i].event = t[j].event
          PROVE  i = j
      <4>1. Len(s) + i \in DOMAIN u /\ Len(s) + j \in DOMAIN u
        BY <1>1
      <4>2. u[Len(s) + i].event = u[Len(s) + j].event
        BY <1>1, <1>3, <3>1
      <4>3. Len(s) + i = Len(s) + j
        BY <4>1, <4>2, <1>6 DEF Distinct
      <4> QED BY <4>3, <1>1
    <3> QED BY <3>1 DEF Distinct
  <2>3. ASSUME NEW i \in DOMAIN s, NEW j \in DOMAIN t, s[i].event = t[j].event
        PROVE  FALSE
    <3>1. i \in DOMAIN u /\ Len(s) + j \in DOMAIN u /\ i # Len(s) + j
      BY <1>1
    <3>2. u[i].event = u[Len(s) + j].event
      BY <1>1, <1>2, <1>3, <2>3
    <3> QED BY <3>1, <3>2, <1>6 DEF Distinct
  <2> QED BY <2>1, <2>2, <2>3 DEF EventsOf
<1>7. ASSUME Distinct(s), Distinct(t), EventsOf(s) \intersect EventsOf(t) = {},
             NEW i \in DOMAIN u, NEW j \in DOMAIN u, u[i].event = u[j].event
      PROVE  i = j
  <2>1. CASE i \in 1 .. Len(s) /\ j \in 1 .. Len(s)
    BY <2>1, <1>1, <1>2, <1>7 DEF Distinct
  <2>2. CASE i \in 1 .. Len(s) /\ j \notin 1 .. Len(s)
    <3>1. PICK b \in 1 .. Len(t) : j = Len(s) + b
      BY <2>2, <1>1, <1>4
    <3>2. s[i].event = t[b].event
      BY <2>2, <3>1, <1>2, <1>3, <1>7
    <3> QED BY <2>2, <3>2, <1>1, <1>7 DEF EventsOf
  <2>3. CASE i \notin 1 .. Len(s) /\ j \in 1 .. Len(s)
    <3>1. PICK a \in 1 .. Len(t) : i = Len(s) + a
      BY <2>3, <1>1, <1>4
    <3>2. s[j].event = t[a].event
      BY <2>3, <3>1, <1>2, <1>3, <1>7
    <3> QED BY <2>3, <3>2, <1>1, <1>7 DEF EventsOf
  <2>4. CASE i \notin 1 .. Len(s) /\ j \notin 1 .. Len(s)
    <3>1. PICK a \in 1 .. Len(t) : i = Len(s) + a
      BY <2>4, <1>1, <1>4
    <3>2. PICK b \in 1 .. Len(t) : j = Len(s) + b
      BY <2>4, <1>1, <1>4
    <3>3. t[a].event = t[b].event
      BY <3>1, <3>2, <1>3, <1>7
    <3> QED BY <3>1, <3>2, <3>3, <1>1, <1>7 DEF Distinct
  <2> QED BY <2>1, <2>2, <2>3, <2>4
<1>8. (/\ Distinct(s) /\ Distinct(t)
       /\ EventsOf(s) \intersect EventsOf(t) = {}) => Distinct(u)
  BY <1>7 DEF Distinct
<1> QED BY <1>1, <1>5, <1>6, <1>8 DEF u


\* A part of a sequence of entries is a sequence of entries.
LEMMA PartIsSeq ==
    ASSUME NEW s \in Seq(Entry), NEW m \in 1 .. Len(s) + 1, NEW n \in 0 .. Len(s)
    PROVE  SubSeq(s, m, n) \in Seq(Entry)
<1>1. \A i \in m .. n : s[i] \in Entry
  BY ElementOfSeq, LenProperties
<1> QED BY <1>1, SubSeqProperties, LenProperties

\* Cutting lo .. hi out of a sequence separates its events into two parts.
LEMMA CutEvents ==
    ASSUME NEW s \in Seq(Entry), NEW lo \in 1 .. Len(s), NEW hi \in lo .. Len(s),
           Distinct(s)
    PROVE  LET mid  == SubSeq(s, lo, hi)
               rest == SubSeq(s, 1, lo - 1) \o SubSeq(s, hi + 1, Len(s))
           IN  /\ mid \in Seq(Entry) /\ rest \in Seq(Entry)
               /\ Distinct(mid) /\ Distinct(rest)
               /\ EventsOf(mid) \intersect EventsOf(rest) = {}
               /\ EventsOf(mid) \union EventsOf(rest) = EventsOf(s)
<1> DEFINE front == SubSeq(s, 1, lo - 1)
           mid   == SubSeq(s, lo, hi)
           back  == SubSeq(s, hi + 1, Len(s))
<1>0. Len(s) \in Nat
  BY LenProperties
<1>1. front \in Seq(Entry) /\ mid \in Seq(Entry) /\ back \in Seq(Entry)
  BY <1>0, PartIsSeq
<1>2. front \o mid = SubSeq(s, 1, hi)
  BY <1>0, ConcatAdjacentSubSeq
<1>3. SubSeq(s, 1, hi) \o back = s
  <2>1. 1 \in 1 .. Len(s) + 1 /\ hi \in 1 - 1 .. Len(s) /\ Len(s) \in hi .. Len(s)
    BY <1>0
  <2>2. SubSeq(s, 1, hi) \o back = SubSeq(s, 1, Len(s))
    BY <2>1, ConcatAdjacentSubSeq
  <2>3. SubSeq(s, 1, Len(s)) = s
    BY SubSeqFull
  <2> HIDE DEF back
  <2> QED BY <2>2, <2>3
<1> HIDE DEF front, mid, back
<1>4. (front \o mid) \o back = s
  BY <1>2, <1>3
<1>5. /\ front \o mid \in Seq(Entry) /\ front \o back \in Seq(Entry)
      /\ EventsOf(front \o mid) = EventsOf(front) \union EventsOf(mid)
      /\ EventsOf(front \o back) = EventsOf(front) \union EventsOf(back)
  BY <1>1, ConcatEvents
<1>6. /\ EventsOf(s) = EventsOf(front \o mid) \union EventsOf(back)
      /\ Distinct(front \o mid) /\ Distinct(back)
      /\ EventsOf(front \o mid) \intersect EventsOf(back) = {}
  BY <1>1, <1>4, <1>5, ConcatEvents
<1>7. /\ Distinct(front) /\ Distinct(mid)
      /\ EventsOf(front) \intersect EventsOf(mid) = {}
  BY <1>1, <1>6, ConcatEvents
<1>8. Distinct(front \o back)
  BY <1>1, <1>5, <1>6, <1>7, ConcatEvents
<1>9. /\ EventsOf(mid) \intersect EventsOf(front \o back) = {}
      /\ EventsOf(mid) \union EventsOf(front \o back) = EventsOf(s)
  BY <1>5, <1>6, <1>7
<1> QED BY <1>1, <1>5, <1>7, <1>8, <1>9 DEF front, mid, back

\* Every entry that is left after a cut was there before it.
LEMMA CutKeeps ==
    ASSUME NEW s \in Seq(Entry), NEW lo \in 1 .. Len(s), NEW hi \in lo .. Len(s)
    PROVE  LET rest == SubSeq(s, 1, lo - 1) \o SubSeq(s, hi + 1, Len(s))
           IN  \A k \in DOMAIN rest : \E i \in DOMAIN s : rest[k] = s[i]
<1> DEFINE front == SubSeq(s, 1, lo - 1)
           back  == SubSeq(s, hi + 1, Len(s))
<1>0. Len(s) \in Nat /\ DOMAIN s = 1 .. Len(s)
  BY LenProperties
<1>1. front \in Seq(Entry) /\ back \in Seq(Entry)
  BY <1>0, PartIsSeq
<1>2. /\ Len(front) = lo - 1 /\ \A i \in 1 .. lo - 1 : front[i] = s[i]
      /\ Len(back) = Len(s) - hi /\ \A i \in 1 .. Len(s) - hi : back[i] = s[hi + i]
  <2>1. /\ \A i \in 1 .. lo - 1 : s[i] \in Entry
        /\ \A i \in hi + 1 .. Len(s) : s[i] \in Entry
    BY <1>0, ElementOfSeq
  <2>2. Len(front) = lo - 1 /\ \A i \in 1 .. lo - 1 : front[i] = s[1 + i - 1]
    BY <1>0, <2>1, SubSeqProperties
  <2>3. Len(back) = Len(s) - hi /\ \A i \in 1 .. Len(s) - hi : back[i] = s[hi + i]
    <3> DEFINE m == hi + 1
    <3>1. m \in Int /\ Len(s) \in Int /\ \A i \in m .. Len(s) : s[i] \in Entry
      BY <1>0, <2>1
    <3>0. m = hi + 1
      OBVIOUS
    <3>a. hi \in Int /\ hi <= Len(s)
      BY <1>0
    <3> HIDE DEF m
    <3>2. /\ Len(SubSeq(s, m, Len(s))) = IF m <= Len(s) THEN Len(s) - m + 1 ELSE 0
          /\ \A i \in 1 .. Len(s) - m + 1 : SubSeq(s, m, Len(s))[i] = s[m + i - 1]
      BY <3>1, SubSeqProperties
    <3>3. Len(back) = Len(s) - hi
      <4>1. (IF m <= Len(s) THEN Len(s) - m + 1 ELSE 0) = Len(s) - hi
        BY <3>0, <3>a, <3>1
      <4> QED BY <3>0, <3>2, <4>1
    <3>4. ASSUME NEW i \in 1 .. Len(s) - hi
          PROVE  back[i] = s[hi + i]
      <4>1. i \in 1 .. Len(s) - m + 1 /\ m + i - 1 = hi + i
        BY <1>0, <3>0
      <4> QED BY <3>0, <3>2, <4>1
    <3> QED BY <3>3, <3>4
  <2>4. \A i \in 1 .. lo - 1 : 1 + i - 1 = i
    OBVIOUS
  <2> QED BY <2>2, <2>3, <2>4
<1> HIDE DEF front, back
<1>3. /\ Len(front) \in Nat /\ Len(back) \in Nat
      /\ DOMAIN (front \o back) = 1 .. Len(front) + Len(back)
      /\ \A k \in 1 .. Len(front) + Len(back) : (front \o back)[k] =
            IF k <= Len(front) THEN front[k] ELSE back[k - Len(front)]
  BY <1>1, ConcatProperties, LenProperties
<1>4. ASSUME NEW k \in DOMAIN (front \o back)
      PROVE  \E i \in DOMAIN s : (front \o back)[k] = s[i]
  <2>1. CASE k <= Len(front)
    <3>1. k \in DOMAIN s /\ (front \o back)[k] = s[k]
      BY <1>0, <1>2, <1>3, <2>1
    <3> QED BY <3>1
  <2>2. CASE ~(k <= Len(front))
    <3>1. k - Len(front) \in 1 .. Len(s) - hi
      BY <1>0, <1>2, <1>3, <2>2
    <3>2. hi + (k - Len(front)) \in DOMAIN s
      BY <1>0, <3>1
    <3>3. (front \o back)[k] = s[hi + (k - Len(front))]
      BY <1>2, <1>3, <2>2, <3>1
    <3> QED BY <3>2, <3>3
  <2> QED BY <2>1, <2>2
<1> QED BY <1>4 DEF front, back

\* Putting entries back keeps their events and their order.
LEMMA RequeuedEvents ==
    ASSUME NEW s \in Seq(Entry), NEW isolate \in BOOLEAN
    PROVE  /\ Requeued(s, isolate) \in Seq(Entry)
           /\ EventsOf(Requeued(s, isolate)) = EventsOf(s)
           /\ Distinct(s) => Distinct(Requeued(s, isolate))
<1> DEFINE r == Requeued(s, isolate)
<1>1. Len(s) \in Nat /\ DOMAIN s = 1 .. Len(s) /\ \A i \in 1 .. Len(s) : s[i] \in Entry
  BY LenProperties, ElementOfSeq
<1>2. DOMAIN r = 1 .. Len(s)
      /\ \A i \in 1 .. Len(s) : r[i] \in Entry /\ r[i].event = s[i].event
  BY <1>1 DEF Requeued, Entry
<1>3. r \in Seq(Entry)
  <2>1. r = [i \in 1 .. Len(s) |-> r[i]]
    BY DEF Requeued
  <2> QED BY <1>1, <1>2, <2>1, IsASeq
<1> HIDE DEF r
<1>4. EventsOf(r) = EventsOf(s)
  BY <1>1, <1>2 DEF EventsOf
<1>5. Distinct(s) => Distinct(r)
  BY <1>1, <1>2 DEF Distinct
<1> QED BY <1>3, <1>4, <1>5 DEF r


-----------------------------------------------------------------------------
(* The inductive invariant.                                                *)

\* What the database holds or held: rows, parked traces, traces at their rows,
\* and what it gave up.
Written == {r \in Records : rows[r] > 0} \union pendingTraces
             \union {t \in Traces : applied[t] > 0} \union replaced \union discarded

AckedIsWritten == \A e \in Events : fate[e] = "acked" => e \in Written

\* A batch id is never handed out twice, so what is in the inbox or in the
\* mailbox is about the entries in flight with its id, or about none.
Numbered == \A i \in DOMAIN inFlight : inFlight[i].batch <= batchId

Inboxed ==
    \A k \in DOMAIN inbox :
        /\ inbox[k].id <= batchId
        /\ \A i \in DOMAIN inFlight :
              inFlight[i].batch = inbox[k].id => inFlight[i].event \in Contents(inbox[k].commands)

\* The batch the worker has committed and not answered yet is stored.
Committed == written => inbox # <<>> /\ Contents(Head(inbox).commands) \subseteq Written

\* An ack that is still to be handled speaks of stored events.
Answered ==
    \A k \in DOMAIN mailbox :
        /\ mailbox[k].id <= batchId
        /\ mailbox[k].kind = "ack" =>
              \A i \in DOMAIN inFlight :
                  inFlight[i].batch = mailbox[k].id => inFlight[i].event \in Written

GoneWhenClosed == writer = "gone" => phase = "closed"

IInv ==
    /\ TypeOK
    /\ NoneLost
    /\ AckedIsWritten
    /\ Numbered
    /\ Inboxed
    /\ Committed
    /\ Answered
    /\ GoneWhenClosed

LEMMA InitInv == Init => IInv
<1> SUFFICES ASSUME Init PROVE IInv
  OBVIOUS
<1> USE DEF Init
<1>1. TypeOK
  <2>1. MaxCrashes \in Nat /\ MaxFaults \in Nat /\ MaxDays \in Nat
    BY LimitAssumption
  <2>2. 0 \in 0 .. MaxCrashes /\ 0 \in 0 .. MaxFaults /\ 0 \in 0 .. MaxDays
    BY <2>1
  <2>3. /\ queue \in Seq(Entry) /\ inFlight \in Seq(Entry) /\ inbox \in Seq(Batch)
        /\ mailbox \in Seq(Answer)
        /\ microtasks \in Seq({"pump", "send", "kick"})
        /\ awaiting \in Seq({"send", "kick"})
    BY EmptySeq
  <2> QED BY <2>2, <2>3 DEF TypeOK
<1>2. NoneLost
  BY DEF NoneLost, Outstanding, EventsOf, Distinct
<1> QED BY <1>1, <1>2 DEF IInv, AckedIsWritten, Numbered, Inboxed, Committed,
       Answered, GoneWhenClosed

\* What the database holds or gave up is what it ever held.
LEMMA WrittenIs ==
    ASSUME TypeOK
    PROVE  Written = Stored \union GivenUp
BY EventAssumption DEF Written, Stored, GivenUp, TypeOK

\* What a transaction does, said for one record and one trace.
LEMMA StoreBatchFacts ==
    ASSUME TypeOK, NEW c \in Seq(Events), StoreBatch(c)
    PROVE  \E pruned \in SUBSET Prunable(c), taken \in SUBSET Parked(c) :
              /\ taken = Taken(c, Parked(c) \ pruned)
              /\ rows' = [r \in Records |-> IF r \in Contents(c) THEN InsertOrIgnore(rows[r])
                                                              ELSE rows[r]]
              /\ applied' = [t \in Traces |-> IF t \in Late(c) \union taken
                                                THEN applied[t] + 1 ELSE applied[t]]
              /\ pendingTraces' = (Parked(c) \ pruned) \ taken
              /\ replaced' = replaced \union (NotParked(c) \ TooLarge)
              /\ discarded' = discarded \union pruned \union (NotParked(c) \intersect TooLarge)
BY DEF StoreBatch, Taken

\* The traces a transaction is about.
LEMMA BatchTraces ==
    ASSUME TypeOK, NEW c \in Seq(Events)
    PROVE  /\ Contents(c) \in SUBSET Events
           /\ \A i \in Early(c) : /\ c[i] \in Traces \intersect Contents(c)
                                  /\ applied[c[i]] = 0 /\ ~(rows[Of[c[i]]] > 0)
           /\ Late(c) \subseteq {t \in Traces \intersect Contents(c) : applied[t] = 0}
           /\ Parked(c) \subseteq pendingTraces \union {c[i] : i \in Early(c)}
           /\ NotParked(c) \subseteq pendingTraces \union {c[i] : i \in Early(c)}
           /\ Prunable(c) \subseteq Parked(c)
           /\ Parked(c) \intersect Late(c) = {} /\ NotParked(c) \intersect Late(c) = {}
           /\ Parked(c) \intersect NotParked(c) = {}
           /\ \A t \in pendingTraces \union {c[i] : i \in Early(c)} :
                 t \in Parked(c) \union NotParked(c) \union Late(c)
           /\ \A t \in Traces \intersect Contents(c) :
                 applied[t] = 0 => t \in Late(c) \union {c[i] : i \in Early(c)}
<1>1. Contents(c) \in SUBSET Events
  <2>1. \A i \in DOMAIN c : c[i] \in Events
    BY ElementOfSeq, LenProperties
  <2> QED BY <2>1 DEF Contents
<1>2. \A i \in Fresh(c) : i \in DOMAIN c /\ c[i] \in Traces \intersect Contents(c) /\ applied[c[i]] = 0
  BY DEF Fresh, Contents
<1>3. \A i \in Early(c) : i \in Fresh(c) /\ ~(rows[Of[c[i]]] > 0)
  BY DEF Early, FindsRow
<1>4. Late(c) \subseteq {t \in Traces \intersect Contents(c) : applied[t] = 0}
  BY <1>2 DEF Late
<1>5. Parks(c) \subseteq Early(c)
  BY DEF Parks
<1>6. Parked(c) \subseteq pendingTraces \union {c[i] : i \in Early(c)}
  BY <1>5 DEF Parked
<1>7. \A t \in Traces \intersect Contents(c) :
         applied[t] = 0 => t \in Late(c) \union {c[i] : i \in Early(c)}
  BY DEF Contents, Late, Early, Fresh
<1> QED BY <1>1, <1>2, <1>3, <1>4, <1>6, <1>7 DEF Parked, NotParked, Prunable

\* A transaction writes the events of its batch, keeps what was written, and
\* ends with every trace parked, at its row, replaced or discarded.
LEMMA StoreBatchStores ==
    ASSUME TypeOK, NEW c \in Seq(Events), StoreBatch(c)
    PROVE  /\ rows' \in [Records -> Nat] /\ applied' \in [Traces -> Nat]
           /\ pendingTraces' \subseteq Traces
           /\ replaced' \subseteq Traces /\ discarded' \subseteq Events
           /\ Written \subseteq Written' /\ Contents(c) \subseteq Written'
<1> DEFINE early == {c[i] : i \in Early(c)}
<1>1. PICK pruned \in SUBSET Prunable(c), taken \in SUBSET Parked(c) :
              /\ rows' = [r \in Records |-> IF r \in Contents(c) THEN InsertOrIgnore(rows[r])
                                                              ELSE rows[r]]
              /\ applied' = [t \in Traces |-> IF t \in Late(c) \union taken
                                                THEN applied[t] + 1 ELSE applied[t]]
              /\ pendingTraces' = (Parked(c) \ pruned) \ taken
              /\ replaced' = replaced \union (NotParked(c) \ TooLarge)
              /\ discarded' = discarded \union pruned \union (NotParked(c) \intersect TooLarge)
  BY StoreBatchFacts
<1>2. /\ rows \in [Records -> Nat] /\ applied \in [Traces -> Nat]
      /\ pendingTraces \subseteq Traces /\ replaced \subseteq Traces /\ discarded \subseteq Events
  BY DEF TypeOK
<1>3. /\ rows' \in [Records -> Nat]
      /\ \A r \in Records : rows[r] > 0 \/ r \in Contents(c) => rows'[r] > 0
  BY <1>1, <1>2 DEF InsertOrIgnore
<1>4. /\ applied' \in [Traces -> Nat]
      /\ \A t \in Traces : applied[t] > 0 \/ t \in Late(c) \union taken => applied'[t] > 0
  BY <1>1, <1>2
<1>5. /\ early \subseteq Traces
      /\ Parked(c) \subseteq Traces /\ NotParked(c) \subseteq Traces /\ Late(c) \subseteq Traces
      /\ Prunable(c) \subseteq Parked(c)
  BY <1>2, BatchTraces
<1>6. /\ pendingTraces' \subseteq Traces /\ replaced' \subseteq Traces
      /\ discarded' \subseteq Events
  BY <1>1, <1>2, <1>5 DEF Events
<1>7. \A t \in pendingTraces \union early : t \in Written'
  <2>1. \A t \in pendingTraces \union early : t \in Parked(c) \union NotParked(c) \union Late(c)
    BY BatchTraces
  <2> HIDE DEF early
  <2> QED BY <1>1, <1>4, <1>5, <2>1 DEF Written
<1>8. Written \subseteq Written'
  BY <1>1, <1>3, <1>4, <1>7 DEF Written
<1>9. ASSUME NEW e \in Contents(c) PROVE e \in Written'
  <2>1. e \in Events
    BY BatchTraces
  <2>2. CASE e \in Records
    BY <1>3, <2>2 DEF Written
  <2>3. CASE e \in Traces
    <3>1. applied[e] = 0 \/ applied[e] > 0
      BY <1>2, <2>3
    <3>2. applied[e] = 0 => e \in Late(c) \union early
      BY <2>3, BatchTraces
    <3> HIDE DEF early
    <3> QED BY <1>4, <1>7, <2>3, <3>1, <3>2 DEF Written
  <2> QED BY <2>1, <2>2, <2>3 DEF Events
<1> QED BY <1>3, <1>4, <1>6, <1>8, <1>9


-----------------------------------------------------------------------------
(* What a step keeps when it leaves parts of the state alone.              *)

\* The worker's inbox is left alone or thrown away with the worker.
InboxKept ==
    \/ inbox' = inbox /\ written' = written
    \/ inbox' = <<>> /\ written' = FALSE

LEMMA TailKeeps ==
    ASSUME NEW S, NEW s \in Seq(S), s # <<>>
    PROVE  /\ Head(s) \in S /\ Head(s) = s[1] /\ 1 \in DOMAIN s
           /\ Tail(s) \in Seq(S)
           /\ \A k \in DOMAIN Tail(s) : k + 1 \in DOMAIN s /\ Tail(s)[k] = s[k + 1]
<1>1. /\ Head(s) \in S /\ Tail(s) \in Seq(S) /\ Len(Tail(s)) = Len(s) - 1
      /\ \A k \in 1 .. Len(Tail(s)) : Tail(s)[k] = s[k + 1]
  BY HeadTailProperties
<1>2. Len(s) \in Nat /\ Len(s) # 0 /\ DOMAIN s = 1 .. Len(s)
  BY LenProperties, EmptySeq
<1>3. DOMAIN Tail(s) = 1 .. Len(s) - 1
  BY <1>1, LenProperties
<1>4. Head(s) = s[1]
  OBVIOUS
<1> QED BY <1>1, <1>2, <1>3, <1>4

\* A step that keeps what is in flight and what is stored keeps the
\* messages between runtime and worker meaningful.
LEMMA MessagesKept ==
    ASSUME IInv, UNCHANGED <<inFlight, batchId, storeVars>>, InboxKept,
           mailbox' = mailbox \/ (mailbox # <<>> /\ mailbox' = Tail(mailbox))
    PROVE  Numbered' /\ Inboxed' /\ Committed' /\ Answered'
<1>1. Written' = Written
  BY DEF Written, storeVars
<1>2. Numbered'
  BY DEF IInv, Numbered
<1>3. Inboxed'
  <2>1. CASE inbox' = inbox
    BY <2>1 DEF IInv, Inboxed
  <2>2. CASE inbox' = <<>>
    BY <2>2 DEF Inboxed
  <2> QED BY <2>1, <2>2 DEF InboxKept
<1>4. Committed'
  BY <1>1 DEF IInv, Committed, InboxKept
<1>5. Answered'
  <2>1. CASE mailbox' = mailbox
    BY <1>1, <2>1 DEF IInv, Answered
  <2>2. CASE mailbox # <<>> /\ mailbox' = Tail(mailbox)
    <3>1. mailbox \in Seq(Answer)
      BY DEF IInv, TypeOK
    <3>2. \A k \in DOMAIN mailbox' : k + 1 \in DOMAIN mailbox
                                     /\ mailbox'[k] = mailbox[k + 1]
      BY <2>2, <3>1, TailKeeps
    <3> QED BY <1>1, <2>2, <3>2 DEF IInv, Answered
  <2> QED BY <2>1, <2>2
<1> QED BY <1>2, <1>3, <1>4, <1>5

\* A step that moves no event and un-closes nothing keeps the rest.
LEMMA EventsKept ==
    ASSUME IInv, UNCHANGED <<fate, queue, inFlight>>, Written \subseteq Written',
           phase = "closed" => phase' = "closed"
    PROVE  NoneLost' /\ AckedIsWritten'
BY DEF IInv, NoneLost, AckedIsWritten, Outstanding, EventsOf, Distinct

LEMMA EnsureWriterKeeps ==
    ASSUME IInv, EnsureWriter
    PROVE  /\ InboxKept /\ inbox' \in Seq(Batch) /\ written' \in BOOLEAN
           /\ writer' \in {"none", "starting", "ready", "gone"}
           /\ thread' \in {"none", "starting", "ready", "dead"}
           /\ writer' = "gone" => writer = "gone"
<1>1. <<>> \in Seq(Batch)
  BY EmptySeq
<1> QED BY <1>1 DEF IInv, TypeOK, EnsureWriter, InboxKept, threadVars

LEMMA PumpNowTypes ==
    ASSUME IInv, NEW q, NEW flight, PumpNow(q, flight)
    PROVE  microtasks' \in Seq({"pump", "send", "kick"}) /\ flushTimer' \in BOOLEAN
<1>1. Append(microtasks, "pump") \in Seq({"pump", "send", "kick"})
  BY AppendProperties DEF IInv, TypeOK
<1> QED BY <1>1 DEF IInv, TypeOK, PumpNow

-----------------------------------------------------------------------------
(* Admission.                                                              *)

\* Refusing a new event moves nothing.
LEMMA RefuseKeeps ==
    ASSUME IInv, NEW e \in Events, fate[e] = "new", Refuse(e),
           UNCHANGED <<inFlight, phase, storeVars>>
    PROVE  /\ fate' \in [Events -> {"new", "refused", "accepted", "acked",
                                    "dropped", "abandoned"}]
           /\ NoneLost' /\ AckedIsWritten'
<1>1. /\ fate' \in [Events -> {"new", "refused", "accepted", "acked",
                               "dropped", "abandoned"}]
      /\ \A d \in Events : fate'[d] = IF d = e THEN "refused" ELSE fate[d]
  BY DEF IInv, TypeOK, Refuse
<1>2. UNCHANGED <<queue, inFlight, phase>> /\ Written' = Written
  BY DEF Refuse, Written, storeVars
<1>3. Outstanding' = Outstanding
  BY <1>2 DEF Outstanding, EventsOf
<1>4. {d \in Events : fate'[d] = "accepted"} = {d \in Events : fate[d] = "accepted"}
  BY <1>1
<1>5. phase' # "closed" => \A d \in Events : fate'[d] # "abandoned"
  BY <1>1, <1>2 DEF IInv, NoneLost
<1>6. NoneLost'
  BY <1>2, <1>3, <1>4, <1>5 DEF IInv, NoneLost, Distinct, EventsOf
<1>7. AckedIsWritten'
  BY <1>1, <1>2 DEF IInv, AckedIsWritten
<1> QED BY <1>1, <1>6, <1>7

\* Accepting a new event puts it at the end of the queue and nowhere else.
LEMMA AcceptKeeps ==
    ASSUME IInv, NEW e \in Events, fate[e] = "new", NEW size \in Nat,
           fate' = [fate EXCEPT ![e] = "accepted"],
           queue' = Append(queue, [event |-> e, size |-> size, attempts |-> 0,
                                   isolated |-> FALSE, batch |-> 0]),
           UNCHANGED <<inFlight, phase, storeVars>>
    PROVE  /\ fate' \in [Events -> {"new", "refused", "accepted", "acked",
                                    "dropped", "abandoned"}]
           /\ queue' \in Seq(Entry)
           /\ NoneLost' /\ AckedIsWritten'
<1> DEFINE x == [event |-> e, size |-> size, attempts |-> 0,
                 isolated |-> FALSE, batch |-> 0]
<1>1. /\ fate' \in [Events -> {"new", "refused", "accepted", "acked",
                               "dropped", "abandoned"}]
      /\ \A d \in Events : fate'[d] = IF d = e THEN "accepted" ELSE fate[d]
  BY DEF IInv, TypeOK
<1>2. x \in Entry /\ queue \in Seq(Entry)
  BY DEF Entry, IInv, TypeOK
<1>3. <<x>> \in Seq(Entry) /\ queue' = queue \o <<x>>
  <2>1. queue' = Append(queue, x)
    OBVIOUS
  <2> HIDE DEF x
  <2>2. Append(queue, x) = queue \o <<x>>
    BY <1>2, AppendIsConcat
  <2>3. <<x>> \in Seq(Entry)
    BY <1>2
  <2> QED BY <2>1, <2>2, <2>3
<1>4. EventsOf(<<x>>) = {e} /\ Distinct(<<x>>)
  <2>1. x.event = e
    OBVIOUS
  <2> HIDE DEF x
  <2>2. DOMAIN <<x>> = {1} /\ <<x>>[1] = x
    OBVIOUS
  <2> QED BY <2>1, <2>2 DEF EventsOf, Distinct
<1> HIDE DEF x
<1>5. e \notin EventsOf(queue) /\ e \notin EventsOf(inFlight)
  BY DEF IInv, NoneLost, Outstanding
<1>6. /\ queue' \in Seq(Entry) /\ Distinct(queue')
      /\ EventsOf(queue') = EventsOf(queue) \union {e}
  <2>1. Distinct(queue) /\ EventsOf(queue) \intersect EventsOf(<<x>>) = {}
    BY <1>4, <1>5 DEF IInv, NoneLost
  <2>2. /\ queue \o <<x>> \in Seq(Entry)
        /\ EventsOf(queue \o <<x>>) = EventsOf(queue) \union EventsOf(<<x>>)
        /\ Distinct(queue \o <<x>>)
    BY <1>2, <1>3, <1>4, <2>1, ConcatEvents
  <2> QED BY <1>3, <1>4, <2>2
<1>7. Outstanding' = Outstanding \union {e}
  BY <1>6 DEF Outstanding, EventsOf
<1>8. {d \in Events : fate'[d] = "accepted"}
        = {d \in Events : fate[d] = "accepted"} \union {e}
  BY <1>1
<1>9. Distinct(inFlight') /\ Distinct(queue')
      /\ EventsOf(queue') \intersect EventsOf(inFlight') = {}
  <2>1. /\ inFlight' = inFlight /\ Distinct(inFlight)
        /\ EventsOf(queue) \intersect EventsOf(inFlight) = {}
    BY DEF IInv, NoneLost
  <2> QED BY <1>5, <1>6, <2>1
<1>10. phase' # "closed" => \A d \in Events : fate'[d] # "abandoned"
  BY <1>1 DEF IInv, NoneLost
<1>11. NoneLost'
  BY <1>7, <1>8, <1>9, <1>10 DEF IInv, NoneLost
<1>12. AckedIsWritten'
  <2>1. Written' = Written
    BY DEF Written, storeVars
  <2> QED BY <1>1, <2>1 DEF IInv, AckedIsWritten
<1> QED BY <1>1, <1>6, <1>11, <1>12


LEMMA OfferKeeps ==
    ASSUME IInv, NEW e \in Events, fate[e] = "new", NEW size \in Nat, Offer(e, size),
           UNCHANGED <<inFlight, batchId, restartTimers, awaiting, phase,
                       mailbox, storeVars, budget>>,
           bare' \subseteq Records
    PROVE  IInv'
<1>1. CASE Refuse(e)
  <2>1. /\ NoneLost' /\ AckedIsWritten'
        /\ fate' \in [Events -> {"new", "refused", "accepted", "acked",
                                 "dropped", "abandoned"}]
    BY <1>1, RefuseKeeps
  <2>2. TypeOK'
    BY <1>1, <2>1 DEF IInv, TypeOK, Refuse, threadVars, storeVars, budget
  <2>3. Numbered' /\ Inboxed' /\ Committed' /\ Answered'
    BY <1>1, MessagesKept DEF Refuse, InboxKept, threadVars
  <2>4. GoneWhenClosed'
    BY <1>1 DEF IInv, GoneWhenClosed, Refuse
  <2> QED BY <2>1, <2>2, <2>3, <2>4 DEF IInv
<1>2. CASE ~Refuse(e)
  <2> DEFINE q == Append(queue, [event |-> e, size |-> size, attempts |-> 0,
                                 isolated |-> FALSE, batch |-> 0])
  <2>1. /\ fate' = [fate EXCEPT ![e] = "accepted"]
        /\ queue' = q
        /\ outstandingBytes' = outstandingBytes + size
        /\ EnsureWriter
        /\ PumpNow(q, inFlight) \/ PumpLater(q, inFlight)
    BY <1>2 DEF Offer
  <2> HIDE DEF q
  <2>2. /\ fate' \in [Events -> {"new", "refused", "accepted", "acked",
                                 "dropped", "abandoned"}]
        /\ queue' \in Seq(Entry)
        /\ NoneLost' /\ AckedIsWritten'
    BY <2>1, AcceptKeeps DEF q
  <2>3. microtasks' \in Seq({"pump", "send", "kick"}) /\ flushTimer' \in BOOLEAN
    <3>1. CASE PumpNow(q, inFlight)
      BY <3>1, PumpNowTypes
    <3>2. CASE PumpLater(q, inFlight)
      BY <3>2 DEF PumpLater, MayPump, IInv, TypeOK
    <3> QED BY <2>1, <3>1, <3>2
  <2>4. /\ InboxKept /\ inbox' \in Seq(Batch) /\ written' \in BOOLEAN
        /\ writer' \in {"none", "starting", "ready", "gone"}
        /\ thread' \in {"none", "starting", "ready", "dead"}
        /\ writer' = "gone" => writer = "gone"
    BY <2>1, EnsureWriterKeeps
  <2>5. outstandingBytes' \in Nat
    BY <2>1 DEF IInv, TypeOK
  <2>6. TypeOK'
    BY <2>2, <2>3, <2>4, <2>5 DEF IInv, TypeOK, storeVars, budget
  <2>7. Numbered' /\ Inboxed' /\ Committed' /\ Answered'
    BY <2>4, MessagesKept
  <2>8. GoneWhenClosed'
    BY <2>4 DEF IInv, GoneWhenClosed
  <2> QED BY <2>2, <2>6, <2>7, <2>8 DEF IInv
<1> QED BY <1>1, <1>2

LEMMA SizeTypes ==
    \A e \in Events : FullSize[e] \in Nat /\ BareSize[e] \in Nat
BY SizeAssumption

\* Refusing outside of Offer, as the admission checks before it do.
LEMMA RefuseOnlyKeeps ==
    ASSUME IInv, NEW e \in Events, fate[e] = "new", Refuse(e),
           UNCHANGED <<bare, inFlight, batchId, restartTimers, awaiting, phase,
                       mailbox, storeVars, budget>>
    PROVE  IInv'
<1>1. Offer(e, QueueMaxBytes + 1)
  <2>1. QueueMaxBytes \in Nat /\ outstandingBytes \in Nat
    BY LimitAssumption DEF IInv, TypeOK
  <2>2. ~Fits(QueueMaxBytes + 1)
    BY <2>1 DEF Fits
  <2> QED BY <2>2 DEF Offer
<1>2. QueueMaxBytes + 1 \in Nat /\ bare' \subseteq Records
  BY LimitAssumption DEF IInv, TypeOK
<1> QED BY <1>1, <1>2, OfferKeeps

LEMMA EnqueueRecordKeeps ==
    ASSUME IInv, NEW r \in Records, EnqueueRecord(r)
    PROVE  IInv'
<1>1. /\ r \in Events /\ fate[r] = "new"
      /\ UNCHANGED <<inFlight, batchId, restartTimers, awaiting, phase,
                     mailbox, storeVars, budget>>
  BY DEF EnqueueRecord, Events
<1>2. CASE Refuse(r) /\ UNCHANGED bare
  BY <1>1, <1>2, RefuseOnlyKeeps
<1>3. CASE ~(Refuse(r) /\ UNCHANGED bare)
  <2>1. PICK size \in {FullSize[r], BareSize[r]} : Offer(r, size)
    BY <1>3 DEF EnqueueRecord
  <2>2. size \in Nat
    BY <1>1, SizeTypes
  <2>3. bare' \subseteq Records
    BY <1>3 DEF EnqueueRecord, IInv, TypeOK
  <2> QED BY <1>1, <2>1, <2>2, <2>3, OfferKeeps
<1> QED BY <1>2, <1>3

LEMMA EnqueueTraceKeeps ==
    ASSUME IInv, NEW t \in Traces, EnqueueTrace(t)
    PROVE  IInv'
<1>1. /\ t \in Events /\ fate[t] = "new"
      /\ UNCHANGED <<bare, inFlight, batchId, restartTimers, awaiting, phase,
                     mailbox, storeVars, budget>>
  BY DEF EnqueueTrace, Events
<1>2. CASE Refuse(t)
  BY <1>1, <1>2, RefuseOnlyKeeps
<1>3. CASE ~Refuse(t)
  <2>1. PICK size \in {FullSize[t], BareSize[t]} : Offer(t, size)
    BY <1>3 DEF EnqueueTrace
  <2>2. size \in Nat
    BY <1>1, SizeTypes
  <2>3. bare' \subseteq Records
    BY <1>1 DEF IInv, TypeOK
  <2> QED BY <1>1, <2>1, <2>2, <2>3, OfferKeeps
<1> QED BY <1>2, <1>3


-----------------------------------------------------------------------------
(* Steps that move no event: timers, microtasks, restarts, close().        *)

MicroKind == {"pump", "send", "kick"}

LEMMA MicroSeqs ==
    ASSUME IInv
    PROVE  /\ <<>> \in Seq(MicroKind) /\ <<"pump">> \in Seq(MicroKind)
           /\ <<"kick">> \in Seq(MicroKind)
           /\ awaiting \in Seq(MicroKind) /\ microtasks \in Seq(MicroKind)
           /\ microtasks # <<>> =>
                 /\ Tail(microtasks) \in Seq(MicroKind)
                 /\ \A k \in MicroKind : Append(Tail(microtasks), k) \in Seq(MicroKind)
           /\ \A k \in {"send", "kick"} : Append(awaiting, k) \in Seq({"send", "kick"})
<1>1. awaiting \in Seq({"send", "kick"}) /\ microtasks \in Seq(MicroKind)
  BY DEF IInv, TypeOK, MicroKind
<1>2. awaiting \in Seq(MicroKind)
  BY <1>1, SeqMonotonic DEF MicroKind
<1>3. <<>> \in Seq(MicroKind)
  BY EmptySeq
<1>4. <<"pump">> \in Seq(MicroKind) /\ <<"kick">> \in Seq(MicroKind)
  BY DEF MicroKind
<1>5. ASSUME microtasks # <<>>
      PROVE  /\ Tail(microtasks) \in Seq(MicroKind)
             /\ \A k \in MicroKind : Append(Tail(microtasks), k) \in Seq(MicroKind)
  <2>1. Tail(microtasks) \in Seq(MicroKind)
    BY <1>1, <1>5, HeadTailProperties
  <2> QED BY <2>1, AppendProperties
<1>6. \A k \in {"send", "kick"} : Append(awaiting, k) \in Seq({"send", "kick"})
  BY <1>1, AppendProperties
<1> QED BY <1>1, <1>2, <1>3, <1>4, <1>5, <1>6

\* The shape all these steps share.
LEMMA QuietStepKeeps ==
    ASSUME IInv, TypeOK',
           UNCHANGED <<fate, queue, inFlight, batchId, storeVars>>, InboxKept,
           mailbox' = mailbox \/ (mailbox # <<>> /\ mailbox' = Tail(mailbox)),
           phase = "closed" => phase' = "closed",
           GoneWhenClosed'
    PROVE  IInv'
<1>1. Written' = Written
  BY DEF Written, storeVars
<1>2. NoneLost' /\ AckedIsWritten'
  BY <1>1, EventsKept
<1>3. Numbered' /\ Inboxed' /\ Committed' /\ Answered'
  BY MessagesKept
<1> QED BY <1>2, <1>3 DEF IInv

LEMMA FlushTimerFiresKeeps == IInv /\ FlushTimerFires => IInv'
<1> SUFFICES ASSUME IInv, FlushTimerFires PROVE IInv'
  OBVIOUS
<1>1. TypeOK'
  BY MicroSeqs DEF FlushTimerFires, IInv, TypeOK, threadVars, storeVars, budget, MicroKind
<1>2. InboxKept /\ GoneWhenClosed'
  BY DEF FlushTimerFires, InboxKept, threadVars, IInv, GoneWhenClosed
<1> QED BY <1>1, <1>2, QuietStepKeeps DEF FlushTimerFires

LEMMA PumpEntersKeeps == IInv /\ PumpEnters => IInv'
<1> SUFFICES ASSUME IInv, PumpEnters PROVE IInv'
  OBVIOUS
<1>1. /\ InboxKept /\ inbox' \in Seq(Batch) /\ written' \in BOOLEAN
      /\ writer' \in {"none", "starting", "ready", "gone"}
      /\ thread' \in {"none", "starting", "ready", "dead"}
      /\ writer' = "gone" => writer = "gone"
  <2>1. CASE EnsureWriter
    BY <2>1, EnsureWriterKeeps
  <2>2. CASE UNCHANGED <<writer, threadVars>>
    BY <2>2 DEF threadVars, InboxKept, IInv, TypeOK
  <2> QED BY <2>1, <2>2 DEF PumpEnters
<1>2. microtasks' \in Seq(MicroKind) /\ awaiting' \in Seq({"send", "kick"})
  BY MicroSeqs DEF PumpEnters, IInv, TypeOK, MicroKind
<1>3. TypeOK'
  BY <1>1, <1>2 DEF PumpEnters, IInv, TypeOK, storeVars, budget, MicroKind
<1>4. GoneWhenClosed'
  BY <1>1 DEF PumpEnters, IInv, GoneWhenClosed
<1> QED BY <1>1, <1>3, <1>4, QuietStepKeeps DEF PumpEnters

LEMMA KickKeeps == IInv /\ Kick => IInv'
<1> SUFFICES ASSUME IInv, Kick PROVE IInv'
  OBVIOUS
<1>1. microtasks' \in Seq(MicroKind) /\ flushTimer' \in BOOLEAN
  BY MicroSeqs DEF Kick, IInv, TypeOK, MicroKind
<1>2. TypeOK'
  BY <1>1 DEF Kick, IInv, TypeOK, threadVars, storeVars, budget, MicroKind
<1>3. InboxKept /\ GoneWhenClosed'
  BY DEF Kick, InboxKept, threadVars, IInv, GoneWhenClosed
<1> QED BY <1>2, <1>3, QuietStepKeeps DEF Kick

LEMMA WriterReadyKeeps == IInv /\ WriterReady => IInv'
<1> SUFFICES ASSUME IInv, WriterReady PROVE IInv'
  OBVIOUS
<1>1. microtasks' \in Seq(MicroKind) /\ flushTimer' \in BOOLEAN
  <2>1. (IF MayPump(queue, inFlight) THEN <<"pump">> ELSE <<>>) \in Seq(MicroKind)
    BY MicroSeqs
  <2>2. awaiting \in Seq(MicroKind)
    BY MicroSeqs
  <2>3. microtasks' \in Seq(MicroKind)
    BY <2>1, <2>2, ConcatProperties DEF WriterReady
  <2> QED BY <2>3 DEF WriterReady, IInv, TypeOK, MayPump
<1>2. awaiting' \in Seq({"send", "kick"})
  BY EmptySeq DEF WriterReady
<1>3. TypeOK'
  BY <1>1, <1>2 DEF WriterReady, IInv, TypeOK, storeVars, budget, MicroKind
<1>4. InboxKept /\ GoneWhenClosed'
  BY DEF WriterReady, InboxKept, GoneWhenClosed
<1> QED BY <1>3, <1>4, QuietStepKeeps DEF WriterReady

LEMMA IgnoreStaleAnswerKeeps == IInv /\ IgnoreStaleAnswer => IInv'
<1> SUFFICES ASSUME IInv, IgnoreStaleAnswer PROVE IInv'
  OBVIOUS
<1>1. mailbox' \in Seq(Answer)
  BY HeadTailProperties DEF IgnoreStaleAnswer, IInv, TypeOK
<1>2. TypeOK'
  BY <1>1 DEF IgnoreStaleAnswer, IInv, TypeOK, runtimeVars, threadVars, storeVars, budget
<1>3. InboxKept /\ GoneWhenClosed'
  BY DEF IgnoreStaleAnswer, InboxKept, runtimeVars, threadVars, IInv, GoneWhenClosed
<1> QED BY <1>2, <1>3, QuietStepKeeps DEF IgnoreStaleAnswer, runtimeVars

LEMMA RestartTimerFiresKeeps == IInv /\ RestartTimerFires => IInv'
<1> SUFFICES ASSUME IInv, RestartTimerFires PROVE IInv'
  OBVIOUS
<1>1. /\ InboxKept /\ inbox' \in Seq(Batch) /\ written' \in BOOLEAN
      /\ writer' \in {"none", "starting", "ready", "gone"}
      /\ thread' \in {"none", "starting", "ready", "dead"}
      /\ writer' = "gone" => writer = "gone"
  BY EnsureWriterKeeps DEF RestartTimerFires
<1>2. microtasks' \in Seq(MicroKind) /\ awaiting' \in Seq({"send", "kick"})
  BY MicroSeqs DEF RestartTimerFires, IInv, TypeOK, MicroKind
<1>3. restartTimers' \in Nat
  BY DEF RestartTimerFires, IInv, TypeOK
<1>4. TypeOK'
  BY <1>1, <1>2, <1>3 DEF RestartTimerFires, IInv, TypeOK, storeVars, budget, MicroKind
<1>5. GoneWhenClosed'
  BY <1>1 DEF RestartTimerFires, IInv, GoneWhenClosed
<1> QED BY <1>1, <1>4, <1>5, QuietStepKeeps DEF RestartTimerFires

LEMMA CloseKeeps == IInv /\ Close => IInv'
<1> SUFFICES ASSUME IInv, Close PROVE IInv'
  OBVIOUS
<1>1. microtasks' \in Seq(MicroKind)
  BY MicroSeqs DEF Close
<1>2. TypeOK'
  BY <1>1 DEF Close, IInv, TypeOK, threadVars, storeVars, budget, MicroKind
<1>3. InboxKept /\ GoneWhenClosed' /\ (phase = "closed" => phase' = "closed")
  BY DEF Close, InboxKept, threadVars, IInv, GoneWhenClosed
<1> QED BY <1>2, <1>3, QuietStepKeeps DEF Close

LEMMA FinishCloseKeeps == IInv /\ FinishClose => IInv'
<1> SUFFICES ASSUME IInv, FinishClose PROVE IInv'
  OBVIOUS
<1>1. TypeOK'
  BY EmptySeq DEF FinishClose, IInv, TypeOK, storeVars, budget
<1>2. InboxKept /\ GoneWhenClosed'
  BY DEF FinishClose, InboxKept, GoneWhenClosed
<1> QED BY <1>1, <1>2, QuietStepKeeps DEF FinishClose

LEMMA ThreadDiesKeeps == IInv /\ ThreadDies => IInv'
<1> SUFFICES ASSUME IInv, ThreadDies PROVE IInv'
  OBVIOUS
<1>1. crashes' \in 0 .. MaxCrashes
  BY LimitAssumption DEF ThreadDies, IInv, TypeOK
<1>2. TypeOK'
  BY <1>1, EmptySeq DEF ThreadDies, IInv, TypeOK, runtimeVars, storeVars
<1>3. InboxKept /\ GoneWhenClosed'
  BY DEF ThreadDies, InboxKept, IInv, GoneWhenClosed, runtimeVars
<1> QED BY <1>2, <1>3, QuietStepKeeps DEF ThreadDies, runtimeVars

-----------------------------------------------------------------------------
(* Sending a batch.                                                        *)

\* Splitting a sequence after its first n entries separates its events.
LEMMA SplitEvents ==
    ASSUME NEW s \in Seq(Entry), NEW n \in 1 .. Len(s), Distinct(s)
    PROVE  LET front == SubSeq(s, 1, n)
               back  == SubSeq(s, n + 1, Len(s))
           IN  /\ front \in Seq(Entry) /\ back \in Seq(Entry)
               /\ Len(front) = n
               /\ Distinct(front) /\ Distinct(back)
               /\ EventsOf(front) \intersect EventsOf(back) = {}
               /\ EventsOf(front) \union EventsOf(back) = EventsOf(s)
<1> DEFINE front == SubSeq(s, 1, n)
           back  == SubSeq(s, n + 1, Len(s))
<1>0. Len(s) \in Nat /\ n \in 1 .. Len(s) + 1 /\ n \in 0 .. Len(s)
      /\ n + 1 \in 1 .. Len(s) + 1 /\ 1 \in 1 .. Len(s) + 1 /\ Len(s) \in 0 .. Len(s)
  BY LenProperties
<1>1. front \in Seq(Entry) /\ back \in Seq(Entry)
  BY <1>0, PartIsSeq
<1>2. front \o back = s
  <2>1. 1 \in 1 .. Len(s) + 1 /\ n \in 1 - 1 .. Len(s) /\ Len(s) \in n .. Len(s)
    BY <1>0
  <2>2. front \o back = SubSeq(s, 1, Len(s))
    BY <2>1, ConcatAdjacentSubSeq
  <2>3. SubSeq(s, 1, Len(s)) = s
    BY SubSeqFull
  <2> HIDE DEF front, back
  <2> QED BY <2>2, <2>3
<1>3. Len(front) = n
  <2>1. \A i \in 1 .. n : s[i] \in Entry
    BY <1>0, ElementOfSeq
  <2>2. Len(SubSeq(s, 1, n)) = IF 1 <= n THEN n - 1 + 1 ELSE 0
    BY <1>0, <2>1, SubSeqProperties
  <2> QED BY <1>0, <2>2
<1> HIDE DEF front, back
<1>4. /\ Distinct(front) /\ Distinct(back)
      /\ EventsOf(front) \intersect EventsOf(back) = {}
      /\ EventsOf(front) \union EventsOf(back) = EventsOf(s)
  BY <1>1, <1>2, ConcatEvents
<1> QED BY <1>1, <1>3, <1>4 DEF front, back

\* An entry of a concatenation is an entry of one of its parts.
LEMMA ConcatParts ==
    ASSUME NEW S, NEW s \in Seq(S), NEW t \in Seq(S), NEW k \in DOMAIN (s \o t)
    PROVE  \/ k \in DOMAIN s /\ (s \o t)[k] = s[k]
           \/ \E i \in DOMAIN t : (s \o t)[k] = t[i]
<1>1. /\ Len(s) \in Nat /\ Len(t) \in Nat
      /\ DOMAIN s = 1 .. Len(s) /\ DOMAIN t = 1 .. Len(t)
      /\ k \in 1 .. Len(s) + Len(t)
      /\ (s \o t)[k] = IF k <= Len(s) THEN s[k] ELSE t[k - Len(s)]
  BY ConcatProperties, LenProperties

<1>2. CASE k <= Len(s)
  BY <1>1, <1>2
<1>3. CASE ~(k <= Len(s))
  <2>1. k - Len(s) \in DOMAIN t
    BY <1>1, <1>3
  <2> QED BY <1>1, <1>3, <2>1
<1> QED BY <1>2, <1>3

\* What pump puts in flight carries the events it took and the new batch id.
LEMMA SentEvents ==
    ASSUME NEW s \in Seq(Entry), NEW id \in Nat
    PROVE  /\ Sent(s, id) \in Seq(Entry)
           /\ EventsOf(Sent(s, id)) = EventsOf(s)
           /\ Distinct(s) => Distinct(Sent(s, id))
           /\ \A i \in DOMAIN Sent(s, id) :
                 /\ Sent(s, id)[i].batch = id
                 /\ Sent(s, id)[i].event \in EventsOf(s)
<1> DEFINE r == Sent(s, id)
<1>1. Len(s) \in Nat /\ DOMAIN s = 1 .. Len(s) /\ \A i \in 1 .. Len(s) : s[i] \in Entry
  BY LenProperties, ElementOfSeq
<1>2. DOMAIN r = 1 .. Len(s)
      /\ \A i \in 1 .. Len(s) : /\ r[i] \in Entry /\ r[i].event = s[i].event
                                /\ r[i].batch = id
  <2>1. DOMAIN r = 1 .. Len(s)
    BY DEF Sent
  <2>2. ASSUME NEW i \in 1 .. Len(s)
        PROVE  r[i] \in Entry /\ r[i].event = s[i].event /\ r[i].batch = id
    <3>1. r[i] = [s[i] EXCEPT !.attempts = @ + 1, !.batch = id]
      BY DEF Sent
    <3>2. s[i] \in Entry /\ s[i].attempts + 1 \in Nat
      BY <1>1 DEF Entry
    <3> HIDE DEF r
    <3> QED BY <3>1, <3>2 DEF Entry
  <2> QED BY <2>1, <2>2
<1>3. r \in Seq(Entry)
  <2>1. r = [i \in 1 .. Len(s) |-> r[i]]
    BY DEF Sent
  <2> HIDE DEF r
  <2> QED BY <1>1, <1>2, <2>1, IsASeq
<1> HIDE DEF r
<1>4. EventsOf(r) = EventsOf(s)
  BY <1>1, <1>2 DEF EventsOf
<1>5. Distinct(s) => Distinct(r)
  BY <1>1, <1>2 DEF Distinct
<1>6. \A i \in DOMAIN r : r[i].batch = id /\ r[i].event \in EventsOf(s)
  BY <1>1, <1>2 DEF EventsOf
<1> QED BY <1>3, <1>4, <1>5, <1>6 DEF r

\* The commands of a batch are the events of its entries.
LEMMA CommandsOf ==
    ASSUME NEW s \in Seq(Entry)
    PROVE  Commands(s) \in Seq(Events) /\ Contents(Commands(s)) = EventsOf(s)
<1>1. Len(s) \in Nat /\ DOMAIN s = 1 .. Len(s) /\ \A i \in 1 .. Len(s) : s[i] \in Entry
  BY LenProperties, ElementOfSeq
<1>2. \A i \in 1 .. Len(s) : s[i].event \in Events
  BY <1>1 DEF Entry
<1>3. Commands(s) \in Seq(Events)
  BY <1>1, <1>2, IsASeq DEF Commands
<1>4. Contents(Commands(s)) = EventsOf(s)
  BY DEF Contents, Commands, EventsOf
<1> QED BY <1>3, <1>4

LEMMA PumpSendsKeeps == IInv /\ PumpSends => IInv'
<1> SUFFICES ASSUME IInv, PumpSends PROVE IInv'
  OBVIOUS
<1>0. /\ microtasks' \in Seq(MicroKind)
      /\ UNCHANGED <<bare, outstandingBytes, flushTimer, restartTimers, awaiting,
                     writer, phase, thread, written, mailbox, rows, pendingTraces,
                     applied, replaced, discarded, crashes, faults, days>>
      /\ Written' = Written
  BY MicroSeqs DEF PumpSends, storeVars, budget, Written
<1>1. CASE queue = <<>> /\ UNCHANGED <<fate, queue, inFlight, batchId, inbox>>
  <2>1. TypeOK'
    BY <1>0, <1>1 DEF IInv, TypeOK, MicroKind
  <2>2. InboxKept /\ GoneWhenClosed'
    BY <1>0, <1>1 DEF InboxKept, IInv, GoneWhenClosed
  <2> QED BY <1>0, <1>1, <2>1, <2>2, QuietStepKeeps DEF storeVars
<1>2. ASSUME NEW n \in 1 .. Len(queue),
             queue' = SubSeq(queue, n + 1, Len(queue)),
             LET taken == SubSeq(queue, 1, n)
             IN  \/ /\ writer = "gone"
                    /\ fate' = [e \in Events |-> IF e \in EventsOf(taken)
                                                   THEN "abandoned" ELSE fate[e]]
                    /\ UNCHANGED <<inFlight, batchId, inbox>>
                 \/ /\ writer # "gone"
                    /\ batchId' = batchId + 1
                    /\ inFlight' = inFlight \o Sent(taken, batchId')
                    /\ inbox' = IF thread = "dead" THEN inbox
                                ELSE Append(inbox, [id |-> batchId',
                                                    commands |-> Commands(taken)])
                    /\ UNCHANGED fate
      PROVE  IInv'
  <2> DEFINE taken == SubSeq(queue, 1, n)
             left  == SubSeq(queue, n + 1, Len(queue))
             sent  == Sent(taken, batchId')
             posted == [id |-> batchId', commands |-> Commands(taken)]
  <2>1. /\ taken \in Seq(Entry) /\ left \in Seq(Entry) /\ Len(taken) = n
        /\ Distinct(taken) /\ Distinct(left)
        /\ EventsOf(taken) \intersect EventsOf(left) = {}
        /\ EventsOf(taken) \union EventsOf(left) = EventsOf(queue)
    BY SplitEvents DEF IInv, TypeOK, NoneLost
  <2>2. /\ queue' = left
        /\ \/ /\ writer = "gone"
              /\ fate' = [e \in Events |-> IF e \in EventsOf(taken)
                                             THEN "abandoned" ELSE fate[e]]
              /\ UNCHANGED <<inFlight, batchId, inbox>>
           \/ /\ batchId' = batchId + 1
              /\ inFlight' = inFlight \o sent
              /\ inbox' = inbox \/ inbox' = Append(inbox, posted)
              /\ UNCHANGED fate
    BY <1>2
  <2> HIDE DEF taken, left, sent, posted
  <2>3. /\ inFlight \in Seq(Entry) /\ Distinct(inFlight)
        /\ EventsOf(queue) \intersect EventsOf(inFlight) = {}
        /\ EventsOf(queue) \union EventsOf(inFlight)
             = {e \in Events : fate[e] = "accepted"}
    BY DEF IInv, TypeOK, NoneLost, Outstanding
  <2>4. CASE UNCHANGED <<inFlight, batchId, inbox>>
    <3>1. /\ writer = "gone"
          /\ fate' = [e \in Events |-> IF e \in EventsOf(taken)
                                         THEN "abandoned" ELSE fate[e]]
      <4>1. batchId \in Nat
        BY DEF IInv, TypeOK
      <4>2. batchId' # batchId + 1
        BY <2>4, <4>1
      <4> QED BY <2>2, <4>2
    <3>2. /\ fate' \in [Events -> {"new", "refused", "accepted", "acked",
                                   "dropped", "abandoned"}]
          /\ \A e \in Events : fate'[e] = IF e \in EventsOf(taken)
                                            THEN "abandoned" ELSE fate[e]
      BY <3>1 DEF IInv, TypeOK
    <3>3. phase = "closed"
      BY <3>1 DEF IInv, GoneWhenClosed
    <3>4. TypeOK'
      BY <1>0, <2>1, <2>2, <2>4, <3>2 DEF IInv, TypeOK, MicroKind
    <3>5. EventsOf(left) \union EventsOf(inFlight)
            = {e \in Events : fate'[e] = "accepted"}
      BY <2>1, <2>3, <3>2
    <3>6. NoneLost'
      <4>1. /\ EventsOf(queue)' = EventsOf(left)
            /\ EventsOf(inFlight)' = EventsOf(inFlight)
            /\ Distinct(queue)' = Distinct(left)
            /\ Distinct(inFlight)' = Distinct(inFlight)
        BY <2>2, <2>4 DEF EventsOf, Distinct
      <4> QED BY <1>0, <2>1, <2>3, <3>3, <3>5, <4>1 DEF NoneLost, Outstanding
    <3>7. AckedIsWritten'
      BY <1>0, <3>2 DEF IInv, AckedIsWritten
    <3>8. InboxKept
      BY <1>0, <2>4 DEF InboxKept
    <3>9. Numbered' /\ Inboxed' /\ Committed' /\ Answered'
      BY <1>0, <2>4, <3>8, MessagesKept DEF storeVars
    <3>10. GoneWhenClosed'
      BY <1>0 DEF IInv, GoneWhenClosed
    <3> QED BY <3>4, <3>6, <3>7, <3>9, <3>10 DEF IInv
  <2>5. CASE ~UNCHANGED <<inFlight, batchId, inbox>>
    <3>1. /\ batchId' = batchId + 1 /\ batchId \in Nat /\ batchId' \in Nat
          /\ inFlight' = inFlight \o sent
          /\ inbox' = inbox \/ inbox' = Append(inbox, posted)
          /\ fate' = fate
      <4>1. batchId \in Nat
        BY DEF IInv, TypeOK
      <4> QED BY <2>2, <2>5, <4>1
    <3>2. /\ sent \in Seq(Entry) /\ EventsOf(sent) = EventsOf(taken) /\ Distinct(sent)
          /\ \A i \in DOMAIN sent :
                sent[i].batch = batchId' /\ sent[i].event \in EventsOf(taken)
      BY <2>1, <3>1, SentEvents, ZenonT(60) DEF sent
    <3>3. /\ inFlight' \in Seq(Entry)
          /\ EventsOf(inFlight') = EventsOf(inFlight) \union EventsOf(taken)
          /\ Distinct(inFlight')
      <4>1. EventsOf(inFlight) \intersect EventsOf(sent) = {}
        BY <2>1, <2>3, <3>2
      <4> QED BY <2>3, <3>1, <3>2, <4>1, ConcatEvents
    <3>4. \A k \in DOMAIN inFlight' :
             \/ k \in DOMAIN inFlight /\ inFlight'[k] = inFlight[k]
             \/ inFlight'[k].batch = batchId' /\ inFlight'[k].event \in EventsOf(taken)
      BY <2>3, <3>1, <3>2, ConcatParts
    <3>5. posted \in Batch /\ posted.id = batchId' /\ Contents(posted.commands) = EventsOf(taken)
      <4>1. Commands(taken) \in Seq(Events) /\ Contents(Commands(taken)) = EventsOf(taken)
        BY <2>1, CommandsOf
      <4> QED BY <3>1, <4>1 DEF Batch, posted
    <3>6. /\ inbox' \in Seq(Batch)
          /\ \A k \in DOMAIN inbox' : \/ k \in DOMAIN inbox /\ inbox'[k] = inbox[k]
                                      \/ inbox'[k] = posted
          /\ inbox # <<>> => inbox' # <<>> /\ Head(inbox') = Head(inbox)
      <4>1. inbox \in Seq(Batch)
        BY DEF IInv, TypeOK
      <4>2. CASE inbox' = inbox
        BY <4>1, <4>2
      <4>3. CASE inbox' = Append(inbox, posted)
        <5>1. /\ Len(inbox) \in Nat /\ DOMAIN inbox = 1 .. Len(inbox)
              /\ inbox' \in Seq(Batch) /\ Len(inbox') = Len(inbox) + 1
              /\ \A i \in 1 .. Len(inbox) : inbox'[i] = inbox[i]
              /\ inbox'[Len(inbox) + 1] = posted
          BY <3>5, <4>1, <4>3, AppendProperties, LenProperties
        <5>2. DOMAIN inbox' = 1 .. Len(inbox) + 1
          BY <5>1, LenProperties
        <5>3. inbox # <<>> => Len(inbox) > 0
          BY <4>1, <5>1, EmptySeq
        <5>4. inbox # <<>> => inbox' # <<>> /\ inbox'[1] = inbox[1]
          BY <5>1, <5>3, EmptySeq
        <5>5. inbox # <<>> => Head(inbox') = inbox'[1] /\ Head(inbox) = inbox[1]
          OBVIOUS
        <5> QED BY <5>1, <5>2, <5>4, <5>5
      <4> QED BY <3>1, <4>2, <4>3
    <3>7. TypeOK'
      BY <1>0, <2>1, <2>2, <3>1, <3>3, <3>6 DEF IInv, TypeOK, MicroKind
    <3>8. NoneLost'
      <4>1. EventsOf(queue') = EventsOf(left) /\ Distinct(queue')
        BY <2>1, <2>2
      <4>2. EventsOf(queue') \intersect EventsOf(inFlight') = {}
        BY <2>1, <2>3, <3>3, <4>1
      <4>3. EventsOf(queue') \union EventsOf(inFlight')
              = {e \in Events : fate'[e] = "accepted"}
        BY <2>1, <2>3, <3>1, <3>3, <4>1
      <4>4. phase' # "closed" => \A e \in Events : fate'[e] # "abandoned"
        BY <1>0, <3>1 DEF IInv, NoneLost
      <4>5. /\ EventsOf(queue)' = EventsOf(queue') /\ Distinct(queue)' = Distinct(queue')
            /\ EventsOf(inFlight)' = EventsOf(inFlight')
            /\ Distinct(inFlight)' = Distinct(inFlight')
        BY DEF EventsOf, Distinct
      <4> QED BY <3>3, <4>1, <4>2, <4>3, <4>4, <4>5 DEF NoneLost, Outstanding
    <3>9. AckedIsWritten'
      BY <1>0, <3>1 DEF IInv, AckedIsWritten
    <3>10. Numbered'
      <4>1. ASSUME NEW k \in DOMAIN inFlight' PROVE inFlight'[k].batch <= batchId'
        <5>1. CASE k \in DOMAIN inFlight /\ inFlight'[k] = inFlight[k]
          <6>1. inFlight[k].batch <= batchId
            BY <5>1 DEF IInv, Numbered
          <6>2. inFlight[k].batch \in Nat
            <7>1. inFlight[k] \in Entry
              BY <2>3, <5>1, ElementOfSeq, LenProperties
            <7> QED BY <7>1 DEF Entry
          <6> QED BY <3>1, <5>1, <6>1, <6>2
        <5>2. CASE inFlight'[k].batch = batchId'
          BY <3>1, <5>2
        <5> QED BY <3>4, <5>1, <5>2
      <4> QED BY <4>1 DEF Numbered
    <3>11. Inboxed'
      <4>1. ASSUME NEW k \in DOMAIN inbox'
            PROVE  /\ inbox'[k].id <= batchId'
                   /\ \A i \in DOMAIN inFlight' :
                         inFlight'[i].batch = inbox'[k].id
                           => inFlight'[i].event \in Contents(inbox'[k].commands)
        <5>1. CASE k \in DOMAIN inbox /\ inbox'[k] = inbox[k]
          <6>1. /\ inbox[k].id <= batchId
                /\ \A i \in DOMAIN inFlight :
                      inFlight[i].batch = inbox[k].id
                        => inFlight[i].event \in Contents(inbox[k].commands)
            BY <5>1 DEF IInv, Inboxed
          <6>2. inbox[k].id \in Nat
            <7>1. inbox \in Seq(Batch)
              BY DEF IInv, TypeOK
            <7>2. inbox[k] \in Batch
              BY <5>1, <7>1, ElementOfSeq, LenProperties
            <7> QED BY <7>2 DEF Batch
          <6>3. inbox[k].id <= batchId' /\ inbox[k].id # batchId'
            BY <3>1, <6>1, <6>2
          <6> QED BY <3>4, <5>1, <6>1, <6>3
        <5>2. CASE inbox'[k] = posted
          <6>1. inbox'[k].id = batchId' /\ Contents(inbox'[k].commands) = EventsOf(taken)
            BY <3>5, <5>2
          <6>2. \A i \in DOMAIN inFlight : inFlight[i].batch # batchId'
            <7>0. \A i \in DOMAIN inFlight : inFlight[i] \in Entry
              BY <2>3, ElementOfSeq, LenProperties
            <7>1. \A i \in DOMAIN inFlight : inFlight[i].batch \in Nat
              BY <7>0 DEF Entry
            <7> QED BY <3>1, <7>1 DEF IInv, Numbered
          <6>3. batchId' <= batchId'
            BY <3>1
          <6> QED BY <3>4, <6>1, <6>2, <6>3
        <5> QED BY <3>6, <5>1, <5>2
      <4> QED BY <4>1 DEF Inboxed
    <3>12. Committed'
      BY <1>0, <3>6 DEF IInv, Committed
    <3>13. Answered'
      <4>1. ASSUME NEW k \in DOMAIN mailbox
            PROVE  /\ mailbox[k].id <= batchId'
                   /\ mailbox[k].kind = "ack" =>
                        \A i \in DOMAIN inFlight' :
                           inFlight'[i].batch = mailbox[k].id
                             => inFlight'[i].event \in Written
        <5>1. /\ mailbox[k].id <= batchId
              /\ mailbox[k].kind = "ack" =>
                   \A i \in DOMAIN inFlight :
                      inFlight[i].batch = mailbox[k].id
                        => inFlight[i].event \in Written
          BY DEF IInv, Answered
        <5>2. mailbox[k].id \in Nat
          <6>1. mailbox \in Seq(Answer)
            BY DEF IInv, TypeOK
          <6>2. mailbox[k] \in Answer
            BY <6>1, ElementOfSeq, LenProperties
          <6> QED BY <6>2 DEF Answer
        <5>3. mailbox[k].id <= batchId' /\ mailbox[k].id # batchId'
          BY <3>1, <5>1, <5>2
        <5> QED BY <3>4, <5>1, <5>3
      <4> QED BY <1>0, <4>1 DEF Answered
    <3>14. GoneWhenClosed'
      BY <1>0 DEF IInv, GoneWhenClosed
    <3> QED BY <3>7, <3>8, <3>9, <3>10, <3>11, <3>12, <3>13, <3>14 DEF IInv
  <2> QED BY <2>4, <2>5
<1> QED BY <1>1, <1>2 DEF PumpSends

-----------------------------------------------------------------------------
(* Answers and failures.                                                   *)

\* An entry of a part of a sequence is one of the entries of that part.
LEMMA PartEntries ==
    ASSUME NEW s \in Seq(Entry), NEW lo \in 1 .. Len(s), NEW hi \in lo .. Len(s)
    PROVE  \A e \in EventsOf(SubSeq(s, lo, hi)) : \E i \in lo .. hi : s[i].event = e
<1>1. /\ Len(s) \in Nat /\ lo \in Int /\ hi \in Int /\ lo <= hi
      /\ \A i \in lo .. hi : s[i] \in Entry
  BY LenProperties, ElementOfSeq
<1>2. /\ Len(SubSeq(s, lo, hi)) = IF lo <= hi THEN hi - lo + 1 ELSE 0
      /\ \A i \in 1 .. hi - lo + 1 : SubSeq(s, lo, hi)[i] = s[lo + i - 1]
      /\ SubSeq(s, lo, hi) \in Seq(Entry)
  BY <1>1, SubSeqProperties
<1> DEFINE mid == SubSeq(s, lo, hi)
<1>3. DOMAIN mid = 1 .. hi - lo + 1 /\ \A i \in DOMAIN mid : mid[i] = s[lo + i - 1]
  BY <1>1, <1>2, LenProperties
<1> HIDE DEF mid
<1>4. ASSUME NEW k \in DOMAIN mid PROVE \E i \in lo .. hi : s[i].event = mid[k].event
  <2>1. lo + k - 1 \in lo .. hi
    BY <1>1, <1>3
  <2> QED BY <1>3, <2>1
<1> QED BY <1>4 DEF EventsOf, mid

\* What Hears leaves alone, and what it takes from the mailbox.
LEMMA HearsKeeps ==
    ASSUME IInv, NEW kind, NEW lo \in DOMAIN inFlight, NEW hi \in DOMAIN inFlight,
           Hears(kind, lo, hi)
    PROVE  /\ lo \in 1 .. Len(inFlight) /\ hi \in lo .. Len(inFlight)
           /\ mailbox # <<>> /\ mailbox' = Tail(mailbox) /\ mailbox' \in Seq(Answer)
           /\ UNCHANGED <<bare, batchId, restartTimers, awaiting, writer, phase,
                          thread, inbox, written, rows, pendingTraces, applied, replaced, discarded,
                          crashes, faults, days>>
           /\ Written' = Written
           /\ kind = "ack" =>
                 \A i \in lo .. hi : inFlight[i].event \in Written
<1>1. mailbox \in Seq(Answer) /\ inFlight \in Seq(Entry)
  BY DEF IInv, TypeOK
<1>2. DOMAIN inFlight = 1 .. Len(inFlight) /\ Len(inFlight) \in Nat
  BY <1>1, LenProperties
<1>3. lo <= hi /\ mailbox # <<>> /\ mailbox' = Tail(mailbox)
  BY DEF Hears
<1>4. /\ mailbox' \in Seq(Answer) /\ 1 \in DOMAIN mailbox /\ Head(mailbox) = mailbox[1]
  BY <1>1, <1>3, TailKeeps
<1>5. kind = "ack" => \A i \in lo .. hi : inFlight[i].event \in Written
  <2> SUFFICES ASSUME kind = "ack", NEW i \in lo .. hi
               PROVE  inFlight[i].event \in Written
    OBVIOUS
  <2>1. i \in DOMAIN inFlight
    BY <1>2
  <2>2. inFlight[i].batch = mailbox[1].id /\ mailbox[1].kind = "ack"
    BY <1>4, <2>1 DEF Hears, IsBatch
  <2> QED BY <1>4, <2>1, <2>2 DEF IInv, Answered
<1>6. lo \in 1 .. Len(inFlight) /\ hi \in lo .. Len(inFlight)
  BY <1>2, <1>3
<1>7. /\ UNCHANGED <<bare, batchId, restartTimers, awaiting, writer, phase,
                     thread, inbox, written, rows, pendingTraces, applied, replaced, discarded,
                     crashes, faults, days>>
      /\ Written' = Written
  BY DEF Hears, threadVars, storeVars, budget, Written
<1> QED BY <1>3, <1>4, <1>5, <1>6, <1>7

\* With fewer entries in flight and fewer answers waiting, the messages
\* between runtime and worker keep their meaning.
LEMMA FewerInFlight ==
    ASSUME IInv, UNCHANGED <<batchId, inbox, written>>, Written' = Written,
           mailbox' = mailbox \/ (mailbox # <<>> /\ mailbox' = Tail(mailbox)),
           \A k \in DOMAIN inFlight' :
              \E i \in DOMAIN inFlight : inFlight'[k] = inFlight[i]
    PROVE  Numbered' /\ Inboxed' /\ Committed' /\ Answered'
<1>1. Numbered'
  BY DEF IInv, Numbered
<1>2. Inboxed'
  BY DEF IInv, Inboxed
<1>3. Committed'
  BY DEF IInv, Committed
<1>4. \A k \in DOMAIN mailbox' : \E j \in DOMAIN mailbox : mailbox'[k] = mailbox[j]
  <2>1. mailbox \in Seq(Answer)
    BY DEF IInv, TypeOK
  <2> QED BY <2>1, TailKeeps
<1>5. Answered'
  <2> SUFFICES ASSUME NEW k \in DOMAIN mailbox'
               PROVE  /\ mailbox'[k].id <= batchId'
                      /\ mailbox'[k].kind = "ack" =>
                            \A i \in DOMAIN inFlight' :
                               inFlight'[i].batch = mailbox'[k].id
                                 => inFlight'[i].event \in Written'
    BY DEF Answered
  <2>1. PICK j \in DOMAIN mailbox : mailbox'[k] = mailbox[j]
    BY <1>4
  <2>2. /\ mailbox[j].id <= batchId
        /\ mailbox[j].kind = "ack" =>
              \A i \in DOMAIN inFlight :
                 inFlight[i].batch = mailbox[j].id => inFlight[i].event \in Written
    BY DEF IInv, Answered
  <2> QED BY <2>1, <2>2
<1> QED BY <1>1, <1>2, <1>3, <1>5

LEMMA SettleKeeps ==
    ASSUME IInv, NEW kind, NEW lo \in DOMAIN inFlight, NEW hi \in DOMAIN inFlight,
           Hears(kind, lo, hi), NEW outcome \in {"acked", "dropped"},
           outcome = "acked" => kind = "ack", Settle(lo, hi, outcome)
    PROVE  IInv'
<1> DEFINE mid  == SubSeq(inFlight, lo, hi)
           rest == Without(lo, hi)
<1>1. /\ lo \in 1 .. Len(inFlight) /\ hi \in lo .. Len(inFlight)
      /\ mailbox # <<>> /\ mailbox' = Tail(mailbox) /\ mailbox' \in Seq(Answer)
      /\ UNCHANGED <<bare, batchId, restartTimers, awaiting, writer, phase,
                     thread, inbox, written, rows, pendingTraces, applied, replaced, discarded,
                     crashes, faults, days>>
      /\ Written' = Written
      /\ kind = "ack" => \A i \in lo .. hi : inFlight[i].event \in Written
  BY HearsKeeps
<1>2. /\ inFlight \in Seq(Entry) /\ queue \in Seq(Entry)
      /\ Distinct(inFlight) /\ Distinct(queue)
      /\ EventsOf(queue) \intersect EventsOf(inFlight) = {}
      /\ EventsOf(queue) \union EventsOf(inFlight)
           = {e \in Events : fate[e] = "accepted"}
  BY DEF IInv, TypeOK, NoneLost, Outstanding
<1>3. /\ rest \in Seq(Entry) /\ Distinct(rest)
      /\ EventsOf(mid) \intersect EventsOf(rest) = {}
      /\ EventsOf(mid) \union EventsOf(rest) = EventsOf(inFlight)
  BY <1>1, <1>2, CutEvents DEF Without
<1>4. \A k \in DOMAIN rest : \E i \in DOMAIN inFlight : rest[k] = inFlight[i]
  BY <1>1, <1>2, CutKeeps, ZenonT(60) DEF Without
<1>5. \A e \in EventsOf(mid) : \E i \in lo .. hi : inFlight[i].event = e
  BY <1>1, <1>2, PartEntries
<1>6. /\ inFlight' = rest /\ queue' = queue /\ outstandingBytes' \in Nat
      /\ microtasks' \in Seq({"pump", "send", "kick"}) /\ flushTimer' \in BOOLEAN
  <2>1. inFlight' = rest /\ queue' = queue /\ PumpNow(queue, rest)
        /\ outstandingBytes' = Release(Bytes(mid))
    BY DEF Settle
  <2>2. outstandingBytes' \in Nat
    <3> DEFINE b == Bytes(mid)
    <3>1. outstandingBytes' = Release(b) /\ outstandingBytes \in Nat
      BY <2>1 DEF IInv, TypeOK
    <3> HIDE DEF b
    <3> QED BY <3>1 DEF Release
  <2> HIDE DEF rest, mid
  <2> QED BY <2>1, <2>2, PumpNowTypes
<1>7. /\ fate' \in [Events -> {"new", "refused", "accepted", "acked",
                               "dropped", "abandoned"}]
      /\ \A e \in Events : fate'[e] = IF e \in EventsOf(mid) THEN outcome ELSE fate[e]
  BY DEF Settle, IInv, TypeOK
<1> HIDE DEF mid, rest
<1>8. TypeOK'
  BY <1>1, <1>3, <1>6, <1>7 DEF IInv, TypeOK
<1>9. NoneLost'
  <2>1. /\ EventsOf(queue)' = EventsOf(queue) /\ Distinct(queue)' = Distinct(queue)
        /\ EventsOf(inFlight)' = EventsOf(rest)
        /\ Distinct(inFlight)' = Distinct(rest)
    BY <1>6 DEF EventsOf, Distinct
  <2>2. EventsOf(queue) \union EventsOf(rest)
          = {e \in Events : fate'[e] = "accepted"}
    BY <1>2, <1>3, <1>7
  <2>3. phase' # "closed" => \A e \in Events : fate'[e] # "abandoned"
    BY <1>1, <1>7 DEF IInv, NoneLost
  <2> QED BY <1>2, <1>3, <2>1, <2>2, <2>3 DEF NoneLost, Outstanding
<1>10. AckedIsWritten'
  <2> SUFFICES ASSUME NEW e \in Events, fate'[e] = "acked" PROVE e \in Written
    BY <1>1 DEF AckedIsWritten
  <2>1. CASE e \in EventsOf(mid)
    BY <1>1, <1>5, <1>7, <2>1
  <2>2. CASE e \notin EventsOf(mid)
    BY <1>7, <2>2 DEF IInv, AckedIsWritten
  <2> QED BY <2>1, <2>2
<1>11. Numbered' /\ Inboxed' /\ Committed' /\ Answered'
  BY <1>1, <1>4, <1>6, FewerInFlight
<1>12. GoneWhenClosed'
  BY <1>1 DEF IInv, GoneWhenClosed
<1> QED BY <1>8, <1>9, <1>10, <1>11, <1>12 DEF IInv

LEMMA PutBackKeeps ==
    ASSUME IInv, NEW kind, NEW lo \in DOMAIN inFlight, NEW hi \in DOMAIN inFlight,
           Hears(kind, lo, hi), PutBack(lo, hi)
    PROVE  IInv'
<1> DEFINE mid  == SubSeq(inFlight, lo, hi)
           rest == Without(lo, hi)
           back == Requeued(mid, TRUE)
<1>1. /\ lo \in 1 .. Len(inFlight) /\ hi \in lo .. Len(inFlight)
      /\ mailbox # <<>> /\ mailbox' = Tail(mailbox) /\ mailbox' \in Seq(Answer)
      /\ UNCHANGED <<bare, batchId, restartTimers, awaiting, writer, phase,
                     thread, inbox, written, rows, pendingTraces, applied, replaced, discarded,
                     crashes, faults, days>>
      /\ Written' = Written
  BY HearsKeeps
<1>2. /\ inFlight \in Seq(Entry) /\ queue \in Seq(Entry)
      /\ Distinct(inFlight) /\ Distinct(queue)
      /\ EventsOf(queue) \intersect EventsOf(inFlight) = {}
      /\ EventsOf(queue) \union EventsOf(inFlight)
           = {e \in Events : fate[e] = "accepted"}
  BY DEF IInv, TypeOK, NoneLost, Outstanding
<1>3. /\ mid \in Seq(Entry) /\ rest \in Seq(Entry) /\ Distinct(mid) /\ Distinct(rest)
      /\ EventsOf(mid) \intersect EventsOf(rest) = {}
      /\ EventsOf(mid) \union EventsOf(rest) = EventsOf(inFlight)
  BY <1>1, <1>2, CutEvents DEF Without
<1>4. \A k \in DOMAIN rest : \E i \in DOMAIN inFlight : rest[k] = inFlight[i]
  BY <1>1, <1>2, CutKeeps DEF Without
<1>5. /\ inFlight' = rest /\ queue' = back \o queue /\ PumpNow(back \o queue, rest)
      /\ UNCHANGED <<outstandingBytes, fate>>
  BY DEF PutBack
<1> HIDE DEF mid, rest
<1>6. back \in Seq(Entry) /\ EventsOf(back) = EventsOf(mid) /\ Distinct(back)
  BY <1>3, RequeuedEvents
<1> HIDE DEF back
<1>7. /\ queue' \in Seq(Entry) /\ Distinct(queue')
      /\ EventsOf(queue') = EventsOf(mid) \union EventsOf(queue)
  <2>1. EventsOf(back) \intersect EventsOf(queue) = {}
    BY <1>2, <1>3, <1>6
  <2> QED BY <1>2, <1>5, <1>6, <2>1, ConcatEvents
<1>8. microtasks' \in Seq({"pump", "send", "kick"}) /\ flushTimer' \in BOOLEAN
  BY <1>5, PumpNowTypes
<1>9. TypeOK'
  BY <1>1, <1>3, <1>5, <1>7, <1>8 DEF IInv, TypeOK
<1>10. NoneLost'
  <2>1. /\ EventsOf(queue)' = EventsOf(queue') /\ Distinct(queue)' = Distinct(queue')
        /\ EventsOf(inFlight)' = EventsOf(rest)
        /\ Distinct(inFlight)' = Distinct(rest)
    BY <1>5 DEF EventsOf, Distinct
  <2>2. /\ EventsOf(queue') \union EventsOf(rest)
             = {e \in Events : fate'[e] = "accepted"}
        /\ EventsOf(queue') \intersect EventsOf(rest) = {}
    BY <1>2, <1>3, <1>5, <1>7
  <2>3. phase' # "closed" => \A e \in Events : fate'[e] # "abandoned"
    BY <1>1, <1>5 DEF IInv, NoneLost
  <2> QED BY <1>3, <1>7, <2>1, <2>2, <2>3 DEF NoneLost, Outstanding
<1>11. AckedIsWritten'
  BY <1>1, <1>5 DEF IInv, AckedIsWritten
<1>12. Numbered' /\ Inboxed' /\ Committed' /\ Answered'
  BY <1>1, <1>4, <1>5, FewerInFlight
<1>13. GoneWhenClosed'
  BY <1>1 DEF IInv, GoneWhenClosed
<1> QED BY <1>9, <1>10, <1>11, <1>12, <1>13 DEF IInv

LEMMA HandleAckKeeps ==
    ASSUME IInv, NEW lo \in DOMAIN inFlight, NEW hi \in DOMAIN inFlight,
           HandleAck(lo, hi)
    PROVE  IInv'
BY SettleKeeps DEF HandleAck

LEMMA HandleBatchErrorKeeps ==
    ASSUME IInv, NEW lo \in DOMAIN inFlight, NEW hi \in DOMAIN inFlight,
           HandleBatchError(lo, hi)
    PROVE  IInv'
<1>1. Hears("batch-error", lo, hi)
  BY DEF HandleBatchError
<1>2. CASE PutBack(lo, hi)
  BY <1>1, <1>2, PutBackKeeps
<1>3. CASE Settle(lo, hi, "dropped")
  BY <1>1, <1>3, SettleKeeps
<1> QED BY <1>2, <1>3 DEF HandleBatchError

LEMMA HandleWriterFailureKeeps == IInv /\ HandleWriterFailure => IInv'
<1> SUFFICES ASSUME IInv, HandleWriterFailure PROVE IInv'
  OBVIOUS
<1> DEFINE back == Requeued(inFlight, FALSE)
<1>1. /\ queue' = back \o queue /\ inFlight' = <<>> /\ restartTimers' \in Nat
      /\ writer' = "none" /\ thread' = "none" /\ awaiting' = <<>>
      /\ UNCHANGED <<fate, bare, batchId, outstandingBytes, flushTimer, microtasks,
                     phase, inbox, written, mailbox, rows, pendingTraces, applied, replaced, discarded,
                     crashes, faults, days>>
      /\ Written' = Written
  BY DEF HandleWriterFailure, IInv, TypeOK, storeVars, budget, Written
<1>2. /\ inFlight \in Seq(Entry) /\ queue \in Seq(Entry)
      /\ Distinct(inFlight) /\ Distinct(queue)
      /\ EventsOf(queue) \intersect EventsOf(inFlight) = {}
      /\ EventsOf(queue) \union EventsOf(inFlight)
           = {e \in Events : fate[e] = "accepted"}
  BY DEF IInv, TypeOK, NoneLost, Outstanding
<1>3. back \in Seq(Entry) /\ EventsOf(back) = EventsOf(inFlight) /\ Distinct(back)
  BY <1>2, RequeuedEvents
<1> HIDE DEF back
<1>4. /\ queue' \in Seq(Entry) /\ Distinct(queue')
      /\ EventsOf(queue') = EventsOf(inFlight) \union EventsOf(queue)
  BY <1>1, <1>2, <1>3, ConcatEvents
<1>5. EventsOf(inFlight') = {} /\ Distinct(inFlight') /\ inFlight' \in Seq(Entry)
  BY <1>1, EmptySeq DEF EventsOf, Distinct
<1>6. TypeOK'
  BY <1>1, <1>4, <1>5, EmptySeq DEF IInv, TypeOK
<1>7. NoneLost'
  <2>1. /\ EventsOf(queue)' = EventsOf(queue') /\ Distinct(queue)' = Distinct(queue')
        /\ EventsOf(inFlight)' = EventsOf(inFlight')
        /\ Distinct(inFlight)' = Distinct(inFlight')
    BY DEF EventsOf, Distinct
  <2>2. phase' # "closed" => \A e \in Events : fate'[e] # "abandoned"
    BY <1>1 DEF IInv, NoneLost
  <2>3. EventsOf(queue') \union EventsOf(inFlight')
          = {e \in Events : fate'[e] = "accepted"}
    BY <1>1, <1>2, <1>4, <1>5
  <2> QED BY <1>4, <1>5, <2>1, <2>2, <2>3 DEF NoneLost, Outstanding
<1>8. AckedIsWritten'
  BY <1>1 DEF IInv, AckedIsWritten
<1>9. Numbered' /\ Inboxed' /\ Committed' /\ Answered'
  BY <1>1, FewerInFlight
<1>10. GoneWhenClosed'
  BY <1>1 DEF GoneWhenClosed
<1> QED BY <1>6, <1>7, <1>8, <1>9, <1>10 DEF IInv

-----------------------------------------------------------------------------
(* The worker thread.                                                      *)

LEMMA ThreadCommitsKeeps == IInv /\ ThreadCommits => IInv'
<1> SUFFICES ASSUME IInv, ThreadCommits PROVE IInv'
  OBVIOUS
<1>1. /\ inbox # <<>> /\ StoreBatch(Head(inbox).commands) /\ written' = TRUE
      /\ UNCHANGED <<fate, bare, queue, inFlight, batchId, outstandingBytes,
                     flushTimer, restartTimers, microtasks, awaiting, writer, phase,
                     thread, inbox, mailbox, crashes, faults, days>>
  BY DEF ThreadCommits, runtimeVars, budget
<1>2. Head(inbox).commands \in Seq(Events)
  <2>1. inbox \in Seq(Batch)
    BY DEF IInv, TypeOK
  <2>2. Head(inbox) \in Batch
    BY <1>1, <2>1, TailKeeps
  <2> QED BY <2>2 DEF Batch
<1>3. /\ rows' \in [Records -> Nat] /\ applied' \in [Traces -> Nat]
      /\ pendingTraces' \subseteq Traces
      /\ replaced' \subseteq Traces /\ discarded' \subseteq Events
      /\ Written \subseteq Written' /\ Contents(Head(inbox).commands) \subseteq Written'
  BY <1>1, <1>2, StoreBatchStores DEF IInv
<1>4. TypeOK'
  BY <1>1, <1>3 DEF IInv, TypeOK
<1>5. NoneLost' /\ AckedIsWritten'
  BY <1>1, <1>3, EventsKept
<1>6. Numbered' /\ Inboxed'
  BY <1>1 DEF IInv, Numbered, Inboxed
<1>7. Committed'
  BY <1>1, <1>3 DEF Committed
<1>8. Answered'
  BY <1>1, <1>3 DEF IInv, Answered
<1>9. GoneWhenClosed'
  BY <1>1 DEF IInv, GoneWhenClosed
<1> QED BY <1>4, <1>5, <1>6, <1>7, <1>8, <1>9 DEF IInv

\* Answering the head of the inbox: an ack speaks of a committed batch.
LEMMA AnswerKeeps ==
    ASSUME IInv, NEW kind \in {"ack", "batch-error"}, kind = "ack" => written,
           inbox # <<>>,
           mailbox' = Append(mailbox, [id |-> Head(inbox).id, kind |-> kind]),
           inbox' = Tail(inbox), written' = FALSE, TypeOK',
           UNCHANGED <<runtimeVars, storeVars>>
    PROVE  IInv'
<1> DEFINE answer == [id |-> Head(inbox).id, kind |-> kind]
<1>1. inbox \in Seq(Batch) /\ mailbox \in Seq(Answer)
  BY DEF IInv, TypeOK
<1>2. /\ Head(inbox) \in Batch /\ Head(inbox) = inbox[1] /\ 1 \in DOMAIN inbox
      /\ \A k \in DOMAIN inbox' : k + 1 \in DOMAIN inbox /\ inbox'[k] = inbox[k + 1]
  BY <1>1, TailKeeps
<1>3. answer \in Answer /\ answer.id = inbox[1].id /\ answer.kind = kind
  BY <1>2 DEF Batch, Answer
<1>4. /\ UNCHANGED <<fate, queue, inFlight, batchId, phase, writer>>
      /\ Written' = Written /\ mailbox' = Append(mailbox, answer)
  BY DEF runtimeVars, storeVars, Written
<1> HIDE DEF answer
<1>5. \A k \in DOMAIN mailbox' : \/ k \in DOMAIN mailbox /\ mailbox'[k] = mailbox[k]
                                 \/ mailbox'[k] = answer
  <2>1. /\ Len(mailbox) \in Nat /\ DOMAIN mailbox = 1 .. Len(mailbox)
        /\ mailbox' \in Seq(Answer) /\ Len(mailbox') = Len(mailbox) + 1
        /\ \A i \in 1 .. Len(mailbox) : mailbox'[i] = mailbox[i]
        /\ mailbox'[Len(mailbox) + 1] = answer
    BY <1>1, <1>3, <1>4, AppendProperties, LenProperties
  <2>2. DOMAIN mailbox' = 1 .. Len(mailbox) + 1
    BY <2>1, LenProperties
  <2> QED BY <2>1, <2>2
<1>6. NoneLost' /\ AckedIsWritten'
  BY <1>4, EventsKept
<1>7. Numbered'
  BY <1>4 DEF IInv, Numbered
<1>8. Inboxed'
  BY <1>2, <1>4 DEF IInv, Inboxed
<1>9. Committed'
  BY DEF Committed
<1>10. Answered'
  <2>1. /\ answer.id <= batchId
        /\ answer.kind = "ack" =>
              \A i \in DOMAIN inFlight :
                 inFlight[i].batch = answer.id => inFlight[i].event \in Written
    BY <1>2, <1>3 DEF IInv, Inboxed, Committed
  <2>2. \A k \in DOMAIN mailbox :
           /\ mailbox[k].id <= batchId
           /\ mailbox[k].kind = "ack" =>
                 \A i \in DOMAIN inFlight :
                    inFlight[i].batch = mailbox[k].id => inFlight[i].event \in Written
    BY DEF IInv, Answered
  <2>3. ASSUME NEW k \in DOMAIN mailbox'
        PROVE  /\ mailbox'[k].id <= batchId
               /\ mailbox'[k].kind = "ack" =>
                     \A i \in DOMAIN inFlight :
                        inFlight[i].batch = mailbox'[k].id
                          => inFlight[i].event \in Written
    BY <1>5, <2>1, <2>2
  <2> QED BY <1>4, <2>3 DEF Answered
<1>11. GoneWhenClosed'
  BY <1>4 DEF IInv, GoneWhenClosed
<1> QED BY <1>6, <1>7, <1>8, <1>9, <1>10, <1>11 DEF IInv

LEMMA AnswerTypes ==
    ASSUME IInv, inbox # <<>>, NEW kind \in {"ack", "batch-error"}
    PROVE  /\ Append(mailbox, [id |-> Head(inbox).id, kind |-> kind]) \in Seq(Answer)
           /\ Tail(inbox) \in Seq(Batch)
<1>1. inbox \in Seq(Batch) /\ mailbox \in Seq(Answer)
  BY DEF IInv, TypeOK
<1>2. Head(inbox) \in Batch /\ Tail(inbox) \in Seq(Batch)
  BY <1>1, TailKeeps
<1>3. [id |-> Head(inbox).id, kind |-> kind] \in Answer
  BY <1>2 DEF Batch, Answer
<1> QED BY <1>1, <1>2, <1>3, AppendProperties

LEMMA ThreadAcksKeeps == IInv /\ ThreadAcks => IInv'
<1> SUFFICES ASSUME IInv, ThreadAcks PROVE IInv'
  OBVIOUS
<1>1. written /\ inbox # <<>>
  BY DEF ThreadAcks, IInv, Committed
<1>2. mailbox' \in Seq(Answer) /\ inbox' \in Seq(Batch)
  BY <1>1, AnswerTypes DEF ThreadAcks
<1>3. TypeOK'
  BY <1>2 DEF ThreadAcks, IInv, TypeOK, runtimeVars, storeVars, budget
<1> QED BY <1>1, <1>3, AnswerKeeps DEF ThreadAcks

LEMMA ThreadRejectsKeeps == IInv /\ ThreadRejects => IInv'
<1> SUFFICES ASSUME IInv, ThreadRejects PROVE IInv'
  OBVIOUS
<1>1. mailbox' \in Seq(Answer) /\ inbox' \in Seq(Batch)
  BY AnswerTypes DEF ThreadRejects
<1>2. faults' \in 0 .. MaxFaults
  <2>1. MaxFaults \in Nat /\ faults \in 0 .. MaxFaults
    BY LimitAssumption DEF IInv, TypeOK
  <2>2. faults' = faults \/ (faults < MaxFaults /\ faults' = faults + 1)
    BY DEF ThreadRejects
  <2> QED BY <2>1, <2>2
<1>3. TypeOK'
  BY <1>1, <1>2 DEF ThreadRejects, IInv, TypeOK, runtimeVars, storeVars
<1>4. written' = FALSE
  BY DEF ThreadRejects, IInv, TypeOK
<1> QED BY <1>3, <1>4, AnswerKeeps DEF ThreadRejects

\* The rows of earlier days are given up.
LEMMA PruneOldRequestLogsKeeps == IInv /\ PruneOldRequestLogs => IInv'
<1> SUFFICES ASSUME IInv, PruneOldRequestLogs PROVE IInv'
  OBVIOUS
<1>1. PICK old \in SUBSET {r \in Records : rows[r] > 0} :
         /\ rows' = [r \in Records |-> IF r \in old THEN 0 ELSE rows[r]]
         /\ discarded' = discarded \union old
  BY DEF PruneOldRequestLogs
<1>2. /\ days' = days + 1 /\ days < MaxDays
      /\ UNCHANGED <<fate, bare, queue, inFlight, batchId, outstandingBytes,
                     flushTimer, restartTimers, microtasks, awaiting, writer, phase,
                     thread, inbox, written, mailbox, pendingTraces, applied, replaced,
                     crashes, faults>>
  BY DEF PruneOldRequestLogs, runtimeVars, threadVars
<1>3. days' \in 0 .. MaxDays
  BY <1>2, LimitAssumption DEF IInv, TypeOK
<1>4. rows' \in [Records -> Nat] /\ discarded' \subseteq Events
  BY <1>1 DEF IInv, TypeOK, Events
<1>5. TypeOK'
  BY <1>2, <1>3, <1>4 DEF IInv, TypeOK
<1>6. Written \subseteq Written'
  BY <1>1, <1>2 DEF Written
<1>7. NoneLost' /\ AckedIsWritten'
  BY <1>2, <1>6, EventsKept
<1>8. Numbered' /\ Inboxed' /\ GoneWhenClosed'
  BY <1>2 DEF IInv, Numbered, Inboxed, GoneWhenClosed
<1>9. Committed' /\ Answered'
  BY <1>2, <1>6 DEF IInv, Committed, Answered
<1> QED BY <1>5, <1>7, <1>8, <1>9 DEF IInv

-----------------------------------------------------------------------------
LEMMA StutterKeeps == IInv /\ UNCHANGED vars => IInv'
<1> SUFFICES ASSUME IInv, UNCHANGED vars PROVE IInv'
  OBVIOUS
<1> USE DEF vars, runtimeVars, threadVars, storeVars, budget
<1>1. TypeOK'
  BY DEF IInv, TypeOK
<1>2. InboxKept /\ GoneWhenClosed'
  BY DEF InboxKept, IInv, GoneWhenClosed
<1> QED BY <1>1, <1>2, QuietStepKeeps

LEMMA NextKeeps == IInv /\ [Next]_vars => IInv'
BY EnqueueRecordKeeps, EnqueueTraceKeeps, FlushTimerFiresKeeps, PumpEntersKeeps,
   PumpSendsKeeps, KickKeeps, WriterReadyKeeps, HandleAckKeeps,
   HandleBatchErrorKeeps, IgnoreStaleAnswerKeeps, HandleWriterFailureKeeps,
   RestartTimerFiresKeeps, CloseKeeps, FinishCloseKeeps, ThreadCommitsKeeps,
   ThreadAcksKeeps, ThreadRejectsKeeps, ThreadDiesKeeps, PruneOldRequestLogsKeeps,
   StutterKeeps
   DEF Next

\* The inductive invariant holds throughout: an entry is in one place, and the
\* messages between runtime and worker speak of what is in flight.
THEOREM Inductive == Spec => []IInv
BY InitInv, NextKeeps, PTL DEF Spec

\* Every variable of the queue, the worker and the store keeps its type.
THEOREM TypeCorrect == Spec => []TypeOK
BY Inductive, PTL DEF IInv

\* enqueue, pump, batch splitting, worker crashes and close() lose no accepted
\* event and hold none twice, for every set of events and every cap.
THEOREM NothingLost == Spec => []NoneLost
BY Inductive, PTL DEF IInv

-----------------------------------------------------------------------------
(* The store on its own: what one transaction keeps.                       *)

\* Another attempt's update of the same record came in the place of t.
Succeeded(t) == \E u \in Traces :
    Of[u] = Of[t] /\ (u \in pendingTraces \union discarded \/ applied[u] > 0)

\* Rows and refinements happen once, only a trace without a row is parked, and
\* none is overwritten for nothing.
StoreInv ==
    /\ rows \in [Records -> 0 .. 1]
    /\ applied \in [Traces -> 0 .. 1]
    /\ pendingTraces \subseteq Traces
    /\ \A t \in pendingTraces : applied[t] = 0 /\ rows[Of[t]] = 0
    /\ \A t \in replaced : Succeeded(t)

\* The last update a transaction would park for a record is parked or finds
\* the row after all.
LEMMA LastIsParked ==
    ASSUME TypeOK, NEW c \in Seq(Events), NEW x \in NotParked(c) \ TooLarge
    PROVE  \E u \in Parked(c) \union Late(c) : u \in Traces /\ Of[u] = Of[x]
<1> DEFINE P == {k \in Parks(c) : Of[c[k]] = Of[x]}
<1>1. Len(c) \in Nat /\ DOMAIN c = 1 .. Len(c)
  BY LenProperties
<1>2. Parks(c) \subseteq Early(c) /\ Early(c) \subseteq DOMAIN c
  BY DEF Parks, Early, Fresh
<1>3. x \in pendingTraces \union {c[i] : i \in Early(c)} /\ x \notin Parked(c) /\ x \notin Late(c)
      /\ x \notin TooLarge
  BY DEF NotParked
<1>4. P # {}
  <2>1. CASE \E i \in Early(c) : x = c[i]
    BY <1>3, <2>1 DEF Parks
  <2>2. CASE x \in pendingTraces
    <3>1. ~ \A i \in Parks(c) : Of[c[i]] # Of[x]
      BY <1>3, <2>2 DEF Parked
    <3> QED BY <3>1
  <2> QED BY <1>3, <2>1, <2>2
<1>5. P \subseteq 1 .. Len(c)
  BY <1>1, <1>2
<1>6. IsFiniteSet(P)
  <2>1. IsFiniteSet(1 .. Len(c))
    BY <1>1, FS_Interval
  <2> QED BY <1>5, <2>1, FS_Subset
<1>7. PICK g \in P : \A k \in P : k <= g
  <2>1. P \subseteq Int
    BY <1>1, <1>5
  <2> HIDE DEF P
  <2> QED BY <1>4, <1>6, <2>1, GreatestNumber
<1>8. c[g] \in Traces
  BY <1>2, <1>7, BatchTraces
<1>9. \A j \in Parks(c) : Of[c[j]] = Of[c[g]] => j <= g
  BY <1>7
<1>10. c[g] \in Parked(c) \union Late(c)
  BY <1>7, <1>9 DEF Parked
<1> QED BY <1>7, <1>8, <1>10

LEMMA StoreBatchKeepsStoreInv ==
    ASSUME TypeOK, StoreInv, NEW c \in Seq(Events), StoreBatch(c)
    PROVE  StoreInv'
<1> USE EventAssumption
<1> DEFINE early == {c[i] : i \in Early(c)}
<1>1. PICK pruned \in SUBSET Prunable(c), taken \in SUBSET Parked(c) :
         /\ taken = Taken(c, Parked(c) \ pruned)
         /\ rows' = [r \in Records |-> IF r \in Contents(c) THEN InsertOrIgnore(rows[r])
                                                            ELSE rows[r]]
         /\ applied' = [t \in Traces |-> IF t \in Late(c) \union taken
                                           THEN applied[t] + 1 ELSE applied[t]]
         /\ pendingTraces' = (Parked(c) \ pruned) \ taken
         /\ replaced' = replaced \union (NotParked(c) \ TooLarge)
         /\ discarded' = discarded \union pruned \union (NotParked(c) \intersect TooLarge)
  BY StoreBatchFacts
<1>2. /\ \A t \in early : t \in Traces /\ applied[t] = 0 /\ ~(rows[Of[t]] > 0)
      /\ \A t \in Late(c) : t \in Traces /\ applied[t] = 0
      /\ Parked(c) \subseteq pendingTraces \union early
      /\ NotParked(c) \subseteq pendingTraces \union early
      /\ Prunable(c) \subseteq Parked(c) /\ Parked(c) \intersect Late(c) = {}
      /\ \A t \in pendingTraces \union early : t \in Parked(c) \union NotParked(c) \union Late(c)
  BY BatchTraces
<1> HIDE DEF early
<1>3. /\ rows \in [Records -> 0 .. 1] /\ applied \in [Traces -> 0 .. 1]
      /\ pendingTraces \subseteq Traces
      /\ \A t \in pendingTraces : applied[t] = 0 /\ rows[Of[t]] = 0
  BY DEF StoreInv
<1>4. \A t \in Parked(c) \union NotParked(c) :
         t \in Traces /\ applied[t] = 0 /\ Of[t] \in Records /\ rows[Of[t]] = 0
  <2>1. \A t \in pendingTraces \union early :
           t \in Traces /\ applied[t] = 0 /\ Of[t] \in Records /\ rows[Of[t]] = 0
    BY <1>2, <1>3
  <2> QED BY <1>2, <2>1
<1>5. /\ rows' \in [Records -> 0 .. 1]
      /\ \A r \in Records : r \notin Contents(c) => rows'[r] = rows[r]
  BY <1>1, <1>3 DEF InsertOrIgnore
<1>6. /\ applied' \in [Traces -> 0 .. 1]
      /\ \A t \in Traces : applied'[t] = IF t \in Late(c) \union taken THEN applied[t] + 1
                                                                 ELSE applied[t]
  <2>1. \A t \in Late(c) \union taken : t \in Traces /\ applied[t] = 0
    BY <1>2, <1>4
  <2> DEFINE moved == Late(c) \union taken
  <2>2. applied' = [t \in Traces |-> IF t \in moved THEN applied[t] + 1 ELSE applied[t]]
        /\ \A t \in moved : t \in Traces /\ applied[t] = 0
    BY <1>1, <2>1
  <2> HIDE DEF moved
  <2>3. /\ applied' \in [Traces -> 0 .. 1]
        /\ \A t \in Traces : applied'[t] = IF t \in moved THEN applied[t] + 1 ELSE applied[t]
    BY <1>3, <2>2
  <2> QED BY <2>3 DEF moved
<1>7. ASSUME NEW t \in pendingTraces'
      PROVE  t \in Traces /\ applied'[t] = 0 /\ rows'[Of[t]] = 0
  <2>1. t \in Parked(c) \ pruned /\ t \notin taken /\ t \notin Late(c)
    BY <1>1, <1>2, <1>7
  <2>2. Of[t] \notin Contents(c)
    BY <1>1, <2>1 DEF Taken
  <2> QED BY <1>4, <1>5, <1>6, <2>1, <2>2
<1>8. \A u \in Parked(c) \union Late(c) :
         u \in Traces => u \in pendingTraces' \union discarded' \/ applied'[u] > 0
  <2>1. \A u \in Late(c) \union taken : u \in Traces => applied'[u] > 0
    BY <1>3, <1>6
  <2> QED BY <1>1, <2>1
<1>9. \A x \in NotParked(c) \ TooLarge : Succeeded(x)'
  BY <1>8, LastIsParked DEF Succeeded
<1>10. ASSUME NEW x \in replaced PROVE Succeeded(x)'
  <2>1. PICK u \in Traces : /\ Of[u] = Of[x]
                            /\ u \in pendingTraces \union discarded \/ applied[u] > 0
    BY DEF StoreInv, Succeeded
  <2>2. CASE u \in discarded
    BY <1>1, <2>1, <2>2 DEF Succeeded
  <2>3. CASE applied[u] > 0
    <3>1. applied'[u] > 0
      BY <1>3, <1>6, <2>3
    <3> QED BY <2>1, <3>1 DEF Succeeded
  <2>4. CASE u \in pendingTraces
    <3>1. u \in Parked(c) \union Late(c) \/ u \in NotParked(c)
      BY <1>2, <2>4
    <3>2. CASE u \in Parked(c) \union Late(c)
      BY <1>8, <2>1, <3>2 DEF Succeeded
    <3>3. CASE u \in NotParked(c) \intersect TooLarge
      BY <1>1, <2>1, <3>3 DEF Succeeded
    <3>4. CASE u \in NotParked(c) \ TooLarge
      <4>1. Succeeded(u)'
        BY <1>9, <3>4
      <4> QED BY <2>1, <4>1 DEF Succeeded
    <3> QED BY <3>1, <3>2, <3>3, <3>4
  <2> QED BY <2>1, <2>2, <2>3, <2>4
<1>11. \A t \in replaced' : Succeeded(t)'
  BY <1>1, <1>9, <1>10
<1> QED BY <1>5, <1>6, <1>7, <1>11 DEF StoreInv

\* The store changes when a batch is committed and when a day is over.
LEMMA StoreChanges ==
    ASSUME IInv, [Next]_vars
    PROVE  \/ UNCHANGED storeVars
           \/ ThreadCommits
           \/ PruneOldRequestLogs
BY DEF Next, vars, EnqueueRecord, EnqueueTrace, FlushTimerFires, PumpEnters,
   PumpSends, Kick, WriterReady, HandleAck, HandleBatchError, Hears,
   IgnoreStaleAnswer, HandleWriterFailure, RestartTimerFires, Close, FinishClose,
   ThreadAcks, ThreadRejects, ThreadDies

\* What is committed is the batch at the head of the inbox.
LEMMA CommittedBatch ==
    ASSUME IInv, ThreadCommits
    PROVE  /\ StoreBatch(Head(inbox).commands) /\ Head(inbox).commands \in Seq(Events)
           /\ Head(inbox) = inbox[1] /\ 1 \in DOMAIN inbox
<1>1. inbox # <<>> /\ inbox \in Seq(Batch) /\ StoreBatch(Head(inbox).commands)
  BY DEF ThreadCommits, IInv, TypeOK
<1>2. Head(inbox) \in Batch /\ Head(inbox) = inbox[1] /\ 1 \in DOMAIN inbox
  BY <1>1, TailKeeps
<1> QED BY <1>1, <1>2 DEF Batch

LEMMA NextKeepsStoreInv == IInv /\ StoreInv /\ [Next]_vars => StoreInv'
<1> SUFFICES ASSUME IInv, StoreInv, [Next]_vars PROVE StoreInv'
  OBVIOUS
<1>1. CASE UNCHANGED storeVars
  BY <1>1 DEF storeVars, StoreInv, Succeeded
<1>2. CASE ThreadCommits
  BY <1>2, CommittedBatch, StoreBatchKeepsStoreInv DEF IInv
<1>3. CASE PruneOldRequestLogs
  <2>1. PICK old \in SUBSET {r \in Records : rows[r] > 0} :
           /\ rows' = [r \in Records |-> IF r \in old THEN 0 ELSE rows[r]]
           /\ discarded' = discarded \union old
    BY <1>3 DEF PruneOldRequestLogs
  <2>2. UNCHANGED <<pendingTraces, applied, replaced>>
    BY <1>3 DEF PruneOldRequestLogs
  <2>3. \A t \in replaced : Succeeded(t)'
    BY <2>1, <2>2 DEF StoreInv, Succeeded
  <2>4. rows' \in [Records -> 0 .. 1]
    BY <2>1 DEF StoreInv
  <2>5. \A t \in pendingTraces : rows'[Of[t]] = 0
    BY <2>1, EventAssumption DEF StoreInv
  <2> QED BY <2>2, <2>3, <2>4, <2>5 DEF StoreInv
<1> QED BY <1>1, <1>2, <1>3, StoreChanges

LEMMA StoreInvHolds == Spec => []StoreInv
<1>1. Init => StoreInv
  BY DEF Init, StoreInv
<1> QED BY <1>1, Inductive, NextKeepsStoreInv, PTL DEF Spec

\* A batch replayed after a crash between COMMIT and its ack writes one row
\* per record and refines it once, however often the worker dies.
THEOREM ReplayIsIdempotent == Spec => []WrittenOnce
<1>1. StoreInv => WrittenOnce
  BY DEF StoreInv, WrittenOnce
<1> QED BY <1>1, StoreInvHolds, PTL

\* A parked update waits for a row that is not there, and the one another
\* attempt overwrote has its successor parked, at the row, or discarded, for
\* any number of attempts of a record and in whatever order they come.
THEOREM RecordMeetsTrace == Spec => []TraceMeetsRecord
<1>1. StoreInv => TraceMeetsRecord
  BY DEF StoreInv, Succeeded, TraceMeetsRecord
<1> QED BY <1>1, StoreInvHolds, PTL

(***************************************************************************)
(* The byte and item caps of the queue, for every size.                    *)
(***************************************************************************)

-----------------------------------------------------------------------------
(* Sums of sizes.  Facts about them are shown for the least number that    *)
(* would break them.                                                       *)

\* The running sums of the sizes of s, which PrefixBytes looks up.
IsRunningSum(u, s, n) ==
    u = [i \in 0 .. n |-> IF i = 0 THEN 0 ELSE u[i - 1] + s[i].size]
RunningSum(s) == CHOOSE u : IsRunningSum(u, s, Len(s))

LEMMA PrefixIsRunningSum ==
    ASSUME NEW s, NEW n
    PROVE  PrefixBytes(s, n) = RunningSum(s)[n]
BY DEF PrefixBytes, RunningSum, IsRunningSum

LEMMA RunningSumExists ==
    ASSUME NEW s \in Seq(Entry)
    PROVE  IsRunningSum(RunningSum(s), s, Len(s))
<1>1. Len(s) \in Nat
  BY LenProperties
<1> DEFINE Bad == {n \in Nat : n <= Len(s) /\ ~ \E u : IsRunningSum(u, s, n)}
<1>2. CASE Bad = {}
  <2>1. \E u : IsRunningSum(u, s, Len(s))
    BY <1>1, <1>2
  <2> QED BY <2>1 DEF RunningSum
<1>3. CASE Bad # {}
  <2>1. PICK n \in Bad : \A m \in Bad : n <= m
    BY <1>3, LeastNumber
  <2>2. CASE n = 0
    <3>1. IsRunningSum([i \in 0 .. 0 |-> 0], s, 0)
      BY DEF IsRunningSum
    <3> QED BY <2>1, <2>2, <3>1
  <2>3. CASE n # 0
    <3>1. n - 1 \in Nat /\ n - 1 <= Len(s) /\ n - 1 \notin Bad /\ n \in Nat
      BY <1>1, <2>1, <2>3
    <3>2. PICK u : IsRunningSum(u, s, n - 1)
      BY <3>1
    <3> DEFINE w == [i \in 0 .. n |-> IF i = n THEN u[n - 1] + s[n].size ELSE u[i]]
    <3>3. \A i \in 0 .. n - 1 : u[i] = IF i = 0 THEN 0 ELSE u[i - 1] + s[i].size
      BY <3>2 DEF IsRunningSum
    <3>4. \A i \in 0 .. n : w[i] = IF i = 0 THEN 0 ELSE w[i - 1] + s[i].size
      BY <2>3, <3>1, <3>3
    <3>5. w = [i \in 0 .. n |-> w[i]]
      OBVIOUS
    <3> HIDE DEF w
    <3>6. IsRunningSum(w, s, n)
      BY <3>4, <3>5 DEF IsRunningSum
    <3> QED BY <2>1, <3>6
  <2> QED BY <2>2, <2>3
<1> QED BY <1>2, <1>3

\* The recursion PrefixBytes is defined by.
LEMMA PrefixSteps ==
    ASSUME NEW s \in Seq(Entry)
    PROVE  /\ PrefixBytes(s, 0) = 0
           /\ \A i \in 1 .. Len(s) :
                 PrefixBytes(s, i) = PrefixBytes(s, i - 1) + s[i].size
<1> DEFINE u == RunningSum(s)
<1>1. Len(s) \in Nat
  BY LenProperties
<1>2. u = [i \in 0 .. Len(s) |-> IF i = 0 THEN 0 ELSE u[i - 1] + s[i].size]
  BY RunningSumExists DEF IsRunningSum
<1> HIDE DEF u
<1>3. \A i \in 0 .. Len(s) : u[i] = IF i = 0 THEN 0 ELSE u[i - 1] + s[i].size
  BY <1>2
<1>4. \A n : PrefixBytes(s, n) = u[n]
  BY PrefixIsRunningSum DEF u
<1>5. PrefixBytes(s, 0) = 0
  BY <1>1, <1>3, <1>4
<1>6. ASSUME NEW i \in 1 .. Len(s)
      PROVE  PrefixBytes(s, i) = PrefixBytes(s, i - 1) + s[i].size
  <2>1. i \in 0 .. Len(s) /\ i # 0
    BY <1>1
  <2> QED BY <1>3, <1>4, <2>1
<1> QED BY <1>5, <1>6

\* Sizes add up to natural numbers.
LEMMA PrefixTypes ==
    ASSUME NEW s \in Seq(Entry), NEW n \in 0 .. Len(s)
    PROVE  PrefixBytes(s, n) \in Nat
<1>1. Len(s) \in Nat /\ \A i \in 1 .. Len(s) : s[i].size \in Nat
  <2>1. \A i \in 1 .. Len(s) : s[i] \in Entry
    BY ElementOfSeq
  <2> QED BY <2>1, LenProperties DEF Entry
<1> DEFINE Bad == {k \in Nat : k <= Len(s) /\ PrefixBytes(s, k) \notin Nat}
<1>2. CASE Bad = {}
  BY <1>1, <1>2
<1>3. CASE Bad # {}
  <2>1. PICK k \in Bad : \A m \in Bad : k <= m
    BY <1>3, LeastNumber
  <2>2. k # 0
    BY <2>1, PrefixSteps
  <2>3. k \in 1 .. Len(s) /\ k - 1 \in Nat /\ k - 1 <= Len(s) /\ k - 1 \notin Bad
    BY <1>1, <2>1, <2>2
  <2>4. PrefixBytes(s, k) = PrefixBytes(s, k - 1) + s[k].size
    BY <2>3, PrefixSteps
  <2>5. PrefixBytes(s, k - 1) \in Nat
    BY <2>3
  <2> QED BY <1>1, <2>1, <2>3, <2>4, <2>5
<1> QED BY <1>2, <1>3

\* The sizes of s after its first d are the first n sizes of t.
Agree(s, d, t, n) == \A i \in 1 .. n : s[d + i].size = t[i].size

\* Sequences that agree on n sizes, from some place on, add up to the same.
LEMMA SumsShift ==
    ASSUME NEW s \in Seq(Entry), NEW t \in Seq(Entry), NEW d \in Nat,
           NEW n \in Nat, n <= Len(t), NEW e \in Nat, e = d + n, e <= Len(s),
           Agree(s, d, t, n)
    PROVE  PrefixBytes(s, e) = PrefixBytes(s, d) + PrefixBytes(t, n)
<1>1. Len(s) \in Nat /\ Len(t) \in Nat
  BY LenProperties
<1> DEFINE Bad == {k \in Nat : /\ k <= n
                               /\ PrefixBytes(s, d + k) # PrefixBytes(s, d) + PrefixBytes(t, k)}
<1>2. CASE Bad = {}
  <2>1. n \in Nat /\ n <= n /\ n \notin Bad
    BY <1>2
  <2> QED BY <2>1
<1>3. CASE Bad # {}
  <2>1. PICK k \in Bad : \A m \in Bad : k <= m
    BY <1>3, LeastNumber
  <2>2. k # 0
    <3>1. PrefixBytes(t, 0) = 0 /\ PrefixBytes(s, d) \in Nat
      BY <1>1, PrefixSteps, PrefixTypes
    <3>2. d + 0 = d
      OBVIOUS
    <3> QED BY <2>1, <3>1, <3>2
  <2>3. /\ k \in 1 .. n /\ k - 1 \in Nat /\ k - 1 <= n /\ k - 1 \notin Bad
        /\ k \in 1 .. Len(t) /\ d + k \in 1 .. Len(s) /\ (d + k) - 1 = d + (k - 1)
        /\ k - 1 \in 0 .. Len(t) /\ d + (k - 1) \in 0 .. Len(s) /\ d \in 0 .. Len(s)
    BY <1>1, <2>1, <2>2
  <2>4. PrefixBytes(t, k) = PrefixBytes(t, k - 1) + t[k].size
    BY <2>3, PrefixSteps
  <2>5. PrefixBytes(s, d + k) = PrefixBytes(s, d + (k - 1)) + s[d + k].size
    BY <2>3, PrefixSteps
  <2>6. PrefixBytes(s, d + (k - 1)) = PrefixBytes(s, d) + PrefixBytes(t, k - 1)
    BY <2>3
  <2>7. /\ PrefixBytes(s, d) \in Nat /\ PrefixBytes(t, k - 1) \in Nat
        /\ s[d + k].size = t[k].size
    BY <2>3, PrefixTypes DEF Agree
  <2>8. t[k].size \in Nat
    <3>1. t[k] \in Entry
      BY <2>3, ElementOfSeq
    <3> QED BY <3>1 DEF Entry
  <2>9. PrefixBytes(s, d + k) = PrefixBytes(s, d) + PrefixBytes(t, k)
    BY <2>4, <2>5, <2>6, <2>7, <2>8
  <2> QED BY <2>1, <2>9
<1> QED BY <1>2, <1>3

LEMMA BytesTypes ==
    ASSUME NEW s \in Seq(Entry)
    PROVE  Bytes(s) \in Nat
<1>1. Len(s) \in 0 .. Len(s)
  BY LenProperties
<1> QED BY <1>1, PrefixTypes DEF Bytes

\* The sizes of a sequence that has two parts add up.
LEMMA PartsBytes ==
    ASSUME NEW s \in Seq(Entry), NEW t \in Seq(Entry), NEW u \in Seq(Entry),
           Len(u) = Len(s) + Len(t),
           Agree(u, 0, s, Len(s)), Agree(u, Len(s), t, Len(t))
    PROVE  Bytes(u) = Bytes(s) + Bytes(t)
<1>1. /\ 0 \in Nat /\ Len(s) \in Nat /\ Len(t) \in Nat /\ Len(u) \in Nat
      /\ Len(s) <= Len(s) /\ Len(t) <= Len(t) /\ Len(u) <= Len(u)
      /\ Len(s) = 0 + Len(s) /\ Len(s) <= Len(u)
  BY LenProperties
<1>2. PrefixBytes(u, Len(s)) = PrefixBytes(u, 0) + PrefixBytes(s, Len(s))
  BY <1>1, SumsShift, SMTT(30)
<1>3. PrefixBytes(u, Len(u)) = PrefixBytes(u, Len(s)) + PrefixBytes(t, Len(t))
  BY <1>1, SumsShift
<1>4. PrefixBytes(u, 0) = 0 /\ Bytes(s) \in Nat /\ Bytes(t) \in Nat
  BY PrefixSteps, BytesTypes
<1> QED BY <1>2, <1>3, <1>4 DEF Bytes

LEMMA ConcatBytes ==
    ASSUME NEW s \in Seq(Entry), NEW t \in Seq(Entry)
    PROVE  Bytes(s \o t) = Bytes(s) + Bytes(t)
<1> DEFINE u == s \o t
<1>1. /\ u \in Seq(Entry) /\ Len(u) = Len(s) + Len(t)
      /\ Len(s) \in Nat /\ Len(t) \in Nat
  BY ConcatProperties, LenProperties
<1>2. \A i \in 1 .. Len(s) : u[0 + i].size = s[i].size
  BY <1>1, ConcatProperties
<1>3. \A i \in 1 .. Len(t) : u[Len(s) + i].size = t[i].size
  <2> TAKE i \in 1 .. Len(t)
  <2>1. Len(s) + i \in 1 .. Len(s) + Len(t) /\ ~(Len(s) + i <= Len(s))
        /\ (Len(s) + i) - Len(s) = i
    BY <1>1
  <2>2. u[Len(s) + i] = t[i]
    BY <2>1, ConcatProperties
  <2> QED BY <2>2
<1> HIDE DEF u
<1>4. Bytes(u) = Bytes(s) + Bytes(t)
  BY <1>1, <1>2, <1>3, PartsBytes DEF Agree
<1> QED BY <1>4 DEF u

\* Entries that keep their sizes keep their bytes.
LEMMA SameBytes ==
    ASSUME NEW s \in Seq(Entry), NEW t \in Seq(Entry), Len(s) = Len(t),
           \A i \in 1 .. Len(s) : s[i].size = t[i].size
    PROVE  Bytes(s) = Bytes(t)
<1>1. /\ Len(t) \in Nat /\ 0 \in Nat /\ Len(t) <= Len(t) /\ Len(t) <= Len(s)
      /\ Len(t) = 0 + Len(t)
      /\ Agree(s, 0, t, Len(t))
  BY LenProperties DEF Agree
<1>2. PrefixBytes(s, Len(t)) = PrefixBytes(s, 0) + PrefixBytes(t, Len(t))
  BY <1>1, SumsShift
<1>3. PrefixBytes(s, 0) = 0 /\ Bytes(t) \in Nat
  BY PrefixSteps, BytesTypes
<1> QED BY <1>2, <1>3 DEF Bytes

-----------------------------------------------------------------------------
(* What the operations of the queue do to lengths and bytes.               *)

\* The length and the bytes of s are those of t and v together.
MadeOf(s, t, v) == Len(s) = Len(t) + Len(v) /\ Bytes(s) = Bytes(t) + Bytes(v)

LEMMA ConcatSums ==
    ASSUME NEW s \in Seq(Entry), NEW t \in Seq(Entry)
    PROVE  s \o t \in Seq(Entry) /\ MadeOf(s \o t, s, t)
BY ConcatProperties, ConcatBytes DEF MadeOf

LEMMA AppendSums ==
    ASSUME NEW s \in Seq(Entry), NEW x \in Entry
    PROVE  /\ Len(Append(s, x)) = Len(s) + 1
           /\ Bytes(Append(s, x)) = Bytes(s) + x.size
<1> DEFINE u == Append(s, x)
<1>1. /\ u \in Seq(Entry) /\ Len(u) = Len(s) + 1 /\ Len(s) \in Nat
      /\ \A i \in 1 .. Len(s) : u[i] = s[i]
      /\ u[Len(s) + 1] = x
  BY AppendProperties, LenProperties
<1> HIDE DEF u
<1>2. /\ 0 \in Nat /\ Len(s) <= Len(s) /\ Len(s) = 0 + Len(s) /\ Len(s) <= Len(u)
      /\ Agree(u, 0, s, Len(s))
  BY <1>1 DEF Agree
<1>3. PrefixBytes(u, Len(s)) = PrefixBytes(u, 0) + PrefixBytes(s, Len(s))
  BY <1>1, <1>2, SumsShift
<1>4. PrefixBytes(u, 0) = 0 /\ Bytes(s) \in Nat
  BY <1>1, PrefixSteps, BytesTypes
<1>5. Len(u) \in 1 .. Len(u) /\ Len(u) - 1 = Len(s)
  BY <1>1
<1>6. PrefixBytes(u, Len(u)) = PrefixBytes(u, Len(s)) + u[Len(u)].size
  BY <1>1, <1>5, PrefixSteps
<1>7. Bytes(u) = Bytes(s) + x.size
  BY <1>1, <1>3, <1>4, <1>6 DEF Bytes
<1> QED BY <1>1, <1>7 DEF u

LEMMA SplitSums ==
    ASSUME NEW s \in Seq(Entry), NEW n \in 1 .. Len(s)
    PROVE  LET front == SubSeq(s, 1, n)
               back  == SubSeq(s, n + 1, Len(s))
           IN  front \in Seq(Entry) /\ back \in Seq(Entry) /\ MadeOf(s, front, back)
<1> DEFINE front == SubSeq(s, 1, n)
           back  == SubSeq(s, n + 1, Len(s))
<1>0. Len(s) \in Nat /\ n \in 1 .. Len(s) + 1 /\ n \in 0 .. Len(s)
      /\ n + 1 \in 1 .. Len(s) + 1 /\ 1 \in 1 .. Len(s) + 1 /\ Len(s) \in 0 .. Len(s)
  BY LenProperties
<1>1. front \in Seq(Entry) /\ back \in Seq(Entry)
  BY <1>0, PartIsSeq
<1>2. front \o back = s
  <2>1. 1 \in 1 .. Len(s) + 1 /\ n \in 1 - 1 .. Len(s) /\ Len(s) \in n .. Len(s)
    BY <1>0
  <2>2. front \o back = SubSeq(s, 1, Len(s))
    BY <2>1, ConcatAdjacentSubSeq
  <2>3. SubSeq(s, 1, Len(s)) = s
    BY SubSeqFull
  <2> HIDE DEF front, back
  <2> QED BY <2>2, <2>3
<1> HIDE DEF front, back
<1>3. MadeOf(s, front, back)
  BY <1>1, <1>2, ConcatSums
<1> QED BY <1>1, <1>3 DEF front, back

LEMMA CutSums ==
    ASSUME NEW s \in Seq(Entry), NEW lo \in 1 .. Len(s), NEW hi \in lo .. Len(s)
    PROVE  LET mid  == SubSeq(s, lo, hi)
               rest == SubSeq(s, 1, lo - 1) \o SubSeq(s, hi + 1, Len(s))
           IN  mid \in Seq(Entry) /\ rest \in Seq(Entry) /\ MadeOf(s, mid, rest)
<1> DEFINE front == SubSeq(s, 1, lo - 1)
           mid   == SubSeq(s, lo, hi)
           back  == SubSeq(s, hi + 1, Len(s))
<1>0. Len(s) \in Nat
  BY LenProperties
<1>1. front \in Seq(Entry) /\ mid \in Seq(Entry) /\ back \in Seq(Entry)
  BY <1>0, PartIsSeq
<1>2. front \o mid = SubSeq(s, 1, hi)
  BY <1>0, ConcatAdjacentSubSeq
<1>3. /\ SubSeq(s, 1, hi) \in Seq(Entry)
      /\ MadeOf(s, SubSeq(s, 1, hi), back)
  <2>1. hi \in 1 .. Len(s)
    BY <1>0
  <2> QED BY <2>1, SplitSums
<1> HIDE DEF front, mid, back
<1>4. MadeOf(front \o mid, front, mid) /\ front \o back \in Seq(Entry)
      /\ MadeOf(front \o back, front, back)
  BY <1>1, ConcatSums
<1>5. /\ Len(front) \in Nat /\ Len(mid) \in Nat /\ Len(back) \in Nat
      /\ Bytes(front) \in Nat /\ Bytes(mid) \in Nat /\ Bytes(back) \in Nat
  BY <1>1, LenProperties, BytesTypes
<1>6. MadeOf(s, mid, front \o back)
  BY <1>2, <1>3, <1>4, <1>5 DEF MadeOf
<1> QED BY <1>1, <1>4, <1>6 DEF front, mid, back

LEMMA RequeuedSums ==
    ASSUME NEW s \in Seq(Entry), NEW isolate \in BOOLEAN
    PROVE  /\ Requeued(s, isolate) \in Seq(Entry)
           /\ Len(Requeued(s, isolate)) = Len(s)
           /\ Bytes(Requeued(s, isolate)) = Bytes(s)
<1> DEFINE r == Requeued(s, isolate)
<1>1. Len(s) \in Nat /\ DOMAIN s = 1 .. Len(s) /\ \A i \in 1 .. Len(s) : s[i] \in Entry
  BY LenProperties, ElementOfSeq
<1>2. DOMAIN r = 1 .. Len(s) /\ \A i \in 1 .. Len(s) : r[i].size = s[i].size
  BY <1>1 DEF Requeued, Entry
<1>3. r \in Seq(Entry)
  BY RequeuedEvents
<1> HIDE DEF r
<1>4. Len(r) = Len(s)
  BY <1>1, <1>2, <1>3, LenProperties
<1>5. Bytes(r) = Bytes(s)
  BY <1>2, <1>3, <1>4, SameBytes
<1> QED BY <1>3, <1>4, <1>5 DEF r

LEMMA SentSums ==
    ASSUME NEW s \in Seq(Entry), NEW id \in Nat
    PROVE  /\ Sent(s, id) \in Seq(Entry)
           /\ Len(Sent(s, id)) = Len(s)
           /\ Bytes(Sent(s, id)) = Bytes(s)
<1> DEFINE r == Sent(s, id)
<1>1. Len(s) \in Nat /\ DOMAIN s = 1 .. Len(s) /\ \A i \in 1 .. Len(s) : s[i] \in Entry
  BY LenProperties, ElementOfSeq
<1>2. DOMAIN r = 1 .. Len(s) /\ \A i \in 1 .. Len(s) : r[i].size = s[i].size
  BY <1>1 DEF Sent, Entry
<1>3. r \in Seq(Entry)
  BY SentEvents
<1> HIDE DEF r
<1>4. Len(r) = Len(s)
  BY <1>1, <1>2, <1>3, LenProperties
<1>5. Bytes(r) = Bytes(s)
  BY <1>2, <1>3, <1>4, SameBytes
<1> QED BY <1>3, <1>4, <1>5 DEF r

-----------------------------------------------------------------------------
(* The caps.                                                               *)

\* A step that moves entries between queue and flight and charges nothing.
LEMMA MovedSums ==
    ASSUME IInv, CapsHold, UNCHANGED outstandingBytes,
           queue' \in Seq(Entry), inFlight' \in Seq(Entry),
           Len(queue') + Len(inFlight') <= Len(queue) + Len(inFlight),
           phase' # "closed" =>
               /\ phase # "closed"
               /\ Bytes(queue') + Bytes(inFlight') = Bytes(queue) + Bytes(inFlight)
    PROVE  CapsHold'
<1>1. /\ Len(queue) \in Nat /\ Len(inFlight) \in Nat /\ Len(queue') \in Nat
      /\ Len(inFlight') \in Nat /\ QueueMaxItems \in Nat
  BY LenProperties, LimitAssumption DEF IInv, TypeOK
<1>2. Items' = Len(queue') + Len(inFlight')
  BY DEF Items
<1>3. Items' <= QueueMaxItems
  BY <1>1, <1>2 DEF CapsHold, Items
<1>4. (Bytes(queue) + Bytes(inFlight))' = Bytes(queue') + Bytes(inFlight')
  BY DEF Bytes, PrefixBytes
<1> QED BY <1>3, <1>4 DEF CapsHold

LEMMA OfferHoldsCaps ==
    ASSUME IInv, CapsHold, NEW e \in Events, NEW size \in Nat, Offer(e, size),
           UNCHANGED <<inFlight, phase>>
    PROVE  CapsHold'
<1>1. CASE Refuse(e)
  <2>1. UNCHANGED <<queue, outstandingBytes>>
    BY <1>1 DEF Refuse
  <2> QED BY <2>1 DEF CapsHold, Items, Bytes, PrefixBytes
<1>2. CASE ~Refuse(e)
  <2> DEFINE x == [event |-> e, size |-> size, attempts |-> 0,
                   isolated |-> FALSE, batch |-> 0]
  <2>1. /\ Fits(size) /\ queue' = Append(queue, x)
        /\ outstandingBytes' = outstandingBytes + size
    BY <1>2 DEF Offer
  <2>2. x \in Entry /\ x.size = size
    BY DEF Entry
  <2> HIDE DEF x
  <2>3. /\ queue \in Seq(Entry) /\ inFlight \in Seq(Entry) /\ outstandingBytes \in Nat
        /\ Len(queue) \in Nat /\ Len(inFlight) \in Nat /\ QueueMaxItems \in Nat
        /\ Bytes(queue) \in Nat /\ Bytes(inFlight) \in Nat
    BY LenProperties, BytesTypes, LimitAssumption DEF IInv, TypeOK
  <2>4. Len(queue') = Len(queue) + 1 /\ Bytes(queue') = Bytes(queue) + size
    BY <2>1, <2>2, <2>3, AppendSums
  <2>5. /\ Items < QueueMaxItems /\ outstandingBytes' <= QueueMaxBytes
        /\ phase = "open"
    BY <2>1 DEF Fits
  <2>6. Items' <= QueueMaxItems
    BY <2>3, <2>4, <2>5 DEF Items
  <2>7. outstandingBytes' = Bytes(queue') + Bytes(inFlight')
    BY <2>1, <2>3, <2>4, <2>5 DEF CapsHold
  <2>8. (Bytes(queue) + Bytes(inFlight))' = Bytes(queue') + Bytes(inFlight')
    BY DEF Bytes, PrefixBytes
  <2> QED BY <2>5, <2>6, <2>7, <2>8 DEF CapsHold
<1> QED BY <1>1, <1>2

LEMMA EnqueueHoldsCaps ==
    ASSUME IInv, CapsHold,
           (\E r \in Records : EnqueueRecord(r)) \/ (\E t \in Traces : EnqueueTrace(t))
    PROVE  CapsHold'
<1>1. UNCHANGED <<inFlight, phase>>
  BY DEF EnqueueRecord, EnqueueTrace
<1>2. \/ \E e \in Events : Refuse(e)
      \/ \E e \in Events : Offer(e, BareSize[e]) \/ Offer(e, FullSize[e])
  BY DEF EnqueueRecord, EnqueueTrace, Events
<1>3. CASE \E e \in Events : Refuse(e)
  <2>1. UNCHANGED <<queue, outstandingBytes>>
    BY <1>3 DEF Refuse
  <2> QED BY <1>1, <2>1 DEF CapsHold, Items, Bytes, PrefixBytes
<1>4. \A e \in Events : BareSize[e] \in Nat /\ FullSize[e] \in Nat
  BY SizeAssumption
<1> QED BY <1>1, <1>2, <1>3, <1>4, OfferHoldsCaps

\* Sending moves entries from the queue into flight.
LEMMA PumpSendsHoldsCaps ==
    ASSUME IInv, CapsHold, PumpSends
    PROVE  CapsHold'
<1>1. UNCHANGED <<outstandingBytes, phase>>
  BY DEF PumpSends
<1>2. queue \in Seq(Entry) /\ inFlight \in Seq(Entry) /\ batchId \in Nat
  BY DEF IInv, TypeOK
<1>3. CASE UNCHANGED <<queue, inFlight>>
  BY <1>1, <1>3 DEF CapsHold, Items, Bytes, PrefixBytes
<1>4. ASSUME NEW n \in 1 .. Len(queue),
             queue' = SubSeq(queue, n + 1, Len(queue)),
             \/ writer = "gone" /\ UNCHANGED inFlight
             \/ batchId' = batchId + 1
                /\ inFlight' = inFlight \o Sent(SubSeq(queue, 1, n), batchId')
      PROVE  CapsHold'
  <2> DEFINE taken == SubSeq(queue, 1, n)
             left  == SubSeq(queue, n + 1, Len(queue))
             sent  == Sent(taken, batchId')
  <2>1. taken \in Seq(Entry) /\ left \in Seq(Entry) /\ MadeOf(queue, taken, left)
    BY <1>2, SplitSums
  <2>2. queue' = left
    BY <1>4
  <2>3. \/ writer = "gone" /\ UNCHANGED inFlight
        \/ batchId' \in Nat /\ inFlight' = inFlight \o sent
    BY <1>2, <1>4
  <2>4. batchId' \in Nat => sent \in Seq(Entry) /\ Len(sent) = Len(taken)
                            /\ Bytes(sent) = Bytes(taken)
    BY <2>1, SentSums
  <2> HIDE DEF taken, left, sent
  <2>5. /\ Len(queue) \in Nat /\ Len(inFlight) \in Nat /\ Len(taken) \in Nat
        /\ Len(left) \in Nat /\ Bytes(taken) \in Nat /\ Bytes(left) \in Nat
        /\ Bytes(inFlight) \in Nat
    BY <1>2, <2>1, LenProperties, BytesTypes
  <2>6. CASE writer = "gone" /\ UNCHANGED inFlight
    <3>1. phase' = "closed"
      BY <1>1, <2>6 DEF IInv, GoneWhenClosed
    <3>2. Len(queue') + Len(inFlight') <= Len(queue) + Len(inFlight)
      BY <2>1, <2>2, <2>5, <2>6 DEF MadeOf
    <3> QED BY <1>1, <1>2, <2>1, <2>2, <2>6, <3>1, <3>2, MovedSums
  <2>7. CASE batchId' \in Nat /\ inFlight' = inFlight \o sent
    <3>1. inFlight' \in Seq(Entry) /\ MadeOf(inFlight', inFlight, sent)
      BY <1>2, <2>4, <2>7, ConcatSums
    <3>2. /\ Len(queue') + Len(inFlight') <= Len(queue) + Len(inFlight)
          /\ Bytes(queue') + Bytes(inFlight') = Bytes(queue) + Bytes(inFlight)
      BY <2>1, <2>2, <2>4, <2>5, <2>7, <3>1 DEF MadeOf
    <3> QED BY <1>1, <1>2, <2>1, <2>2, <3>1, <3>2, MovedSums
  <2> QED BY <2>3, <2>6, <2>7
<1> QED BY <1>3, <1>4 DEF PumpSends

\* Settling gives back exactly the bytes of what was settled.
LEMMA SettleHoldsCaps ==
    ASSUME IInv, CapsHold, NEW kind, NEW lo \in DOMAIN inFlight, NEW hi \in DOMAIN inFlight,
           Hears(kind, lo, hi), NEW outcome, Settle(lo, hi, outcome)
    PROVE  CapsHold'
<1> DEFINE mid  == SubSeq(inFlight, lo, hi)
           rest == Without(lo, hi)
<1>1. queue \in Seq(Entry) /\ inFlight \in Seq(Entry) /\ outstandingBytes \in Nat
      /\ QueueMaxBytes \in Nat /\ QueueMaxItems \in Nat
  BY LimitAssumption DEF IInv, TypeOK
<1>2. lo \in 1 .. Len(inFlight) /\ hi \in lo .. Len(inFlight) /\ phase' = phase
  BY HearsKeeps
<1>3. mid \in Seq(Entry) /\ rest \in Seq(Entry) /\ MadeOf(inFlight, mid, rest)
  BY <1>1, <1>2, CutSums DEF Without
<1>4. /\ inFlight' = rest /\ queue' = queue
      /\ outstandingBytes' = Release(Bytes(mid))
  BY DEF Settle
<1> HIDE DEF mid, rest
<1>5. /\ Len(queue) \in Nat /\ Len(inFlight) \in Nat /\ Len(mid) \in Nat
      /\ Len(rest) \in Nat /\ Bytes(mid) \in Nat /\ Bytes(rest) \in Nat
      /\ Bytes(queue) \in Nat
  BY <1>1, <1>3, LenProperties, BytesTypes
<1>6. Items' <= QueueMaxItems
  BY <1>1, <1>3, <1>4, <1>5 DEF CapsHold, Items, MadeOf
<1>7. outstandingBytes' <= QueueMaxBytes
  BY <1>1, <1>4, <1>5 DEF CapsHold, Release
<1>8. phase' # "closed" => outstandingBytes' = Bytes(queue') + Bytes(inFlight')
  BY <1>1, <1>2, <1>3, <1>4, <1>5, SMTT(30) DEF CapsHold, MadeOf, Release
<1>9. (Bytes(queue) + Bytes(inFlight))' = Bytes(queue') + Bytes(inFlight')
  BY DEF Bytes, PrefixBytes
<1> QED BY <1>6, <1>7, <1>8, <1>9 DEF CapsHold

LEMMA PutBackHoldsCaps ==
    ASSUME IInv, CapsHold, NEW kind, NEW lo \in DOMAIN inFlight, NEW hi \in DOMAIN inFlight,
           Hears(kind, lo, hi), PutBack(lo, hi)
    PROVE  CapsHold'
<1> DEFINE mid  == SubSeq(inFlight, lo, hi)
           rest == Without(lo, hi)
           back == Requeued(mid, TRUE)
<1>1. queue \in Seq(Entry) /\ inFlight \in Seq(Entry)
  BY DEF IInv, TypeOK
<1>2. lo \in 1 .. Len(inFlight) /\ hi \in lo .. Len(inFlight) /\ phase' = phase
  BY HearsKeeps
<1>3. mid \in Seq(Entry) /\ rest \in Seq(Entry) /\ MadeOf(inFlight, mid, rest)
  BY <1>1, <1>2, CutSums DEF Without
<1>4. /\ inFlight' = rest /\ queue' = back \o queue
      /\ outstandingBytes' = outstandingBytes
  BY DEF PutBack
<1>5. back \in Seq(Entry) /\ Len(back) = Len(mid) /\ Bytes(back) = Bytes(mid)
  BY <1>3, RequeuedSums
<1> HIDE DEF mid, rest, back
<1>6. queue' \in Seq(Entry) /\ MadeOf(queue', back, queue)
  BY <1>1, <1>4, <1>5, ConcatSums
<1>7. /\ Len(queue) \in Nat /\ Len(mid) \in Nat /\ Len(rest) \in Nat
      /\ Bytes(mid) \in Nat /\ Bytes(rest) \in Nat /\ Bytes(queue) \in Nat
  BY <1>1, <1>3, LenProperties, BytesTypes
<1>8. /\ Len(queue') + Len(inFlight') <= Len(queue) + Len(inFlight)
      /\ Bytes(queue') + Bytes(inFlight') = Bytes(queue) + Bytes(inFlight)
  BY <1>3, <1>4, <1>5, <1>6, <1>7 DEF MadeOf
<1> QED BY <1>2, <1>3, <1>4, <1>6, <1>8, MovedSums

LEMMA FailureHoldsCaps ==
    ASSUME IInv, CapsHold, HandleWriterFailure
    PROVE  CapsHold'
<1> DEFINE back == Requeued(inFlight, FALSE)
<1>1. queue \in Seq(Entry) /\ inFlight \in Seq(Entry)
  BY DEF IInv, TypeOK
<1>2. /\ inFlight' = <<>> /\ queue' = back \o queue
      /\ outstandingBytes' = outstandingBytes /\ phase' = phase
  BY DEF HandleWriterFailure
<1>3. back \in Seq(Entry) /\ Len(back) = Len(inFlight) /\ Bytes(back) = Bytes(inFlight)
  BY <1>1, RequeuedSums
<1> HIDE DEF back
<1>4. queue' \in Seq(Entry) /\ MadeOf(queue', back, queue)
  BY <1>1, <1>2, <1>3, ConcatSums
<1>5. /\ inFlight' \in Seq(Entry) /\ Len(inFlight') = 0 /\ Bytes(inFlight') = 0
  <2>1. <<>> \in Seq(Entry) /\ Len(<<>>) = 0
    BY EmptySeq
  <2>2. PrefixBytes(<<>>, 0) = 0
    BY <2>1, PrefixSteps
  <2> QED BY <1>2, <2>1, <2>2 DEF Bytes
<1>6. /\ Len(queue) \in Nat /\ Len(inFlight) \in Nat
      /\ Bytes(queue) \in Nat /\ Bytes(inFlight) \in Nat
  BY <1>1, LenProperties, BytesTypes
<1>7. /\ Len(queue') + Len(inFlight') <= Len(queue) + Len(inFlight)
      /\ Bytes(queue') + Bytes(inFlight') = Bytes(queue) + Bytes(inFlight)
  BY <1>3, <1>4, <1>5, <1>6 DEF MadeOf
<1> QED BY <1>2, <1>4, <1>5, <1>7, MovedSums

LEMMA InitHoldsCaps == Init => CapsHold
<1> SUFFICES ASSUME Init PROVE CapsHold
  OBVIOUS
<1>1. <<>> \in Seq(Entry) /\ Len(<<>>) = 0
  BY EmptySeq
<1>2. PrefixBytes(<<>>, 0) = 0
  BY <1>1, PrefixSteps
<1>3. Bytes(queue) = 0 /\ Bytes(inFlight) = 0 /\ Items = 0
  BY <1>1, <1>2 DEF Init, Bytes, Items
<1>4. QueueMaxItems \in Nat /\ QueueMaxBytes \in Nat
  BY LimitAssumption
<1> QED BY <1>3, <1>4 DEF Init, CapsHold

LEMMA NextHoldsCaps == IInv /\ CapsHold /\ [Next]_vars => CapsHold'
<1> SUFFICES ASSUME IInv, CapsHold, [Next]_vars PROVE CapsHold'
  OBVIOUS
<1>1. CASE \/ FlushTimerFires \/ PumpEnters \/ Kick \/ WriterReady
           \/ IgnoreStaleAnswer \/ RestartTimerFires \/ Close \/ FinishClose
           \/ ThreadCommits \/ ThreadAcks \/ ThreadRejects \/ ThreadDies
           \/ PruneOldRequestLogs \/ UNCHANGED vars
  <2>1. /\ UNCHANGED <<queue, inFlight, outstandingBytes>>
        /\ phase' # "closed" => phase # "closed"
    BY <1>1 DEF FlushTimerFires, PumpEnters, Kick, WriterReady, IgnoreStaleAnswer,
       RestartTimerFires, Close, FinishClose, ThreadCommits, ThreadAcks,
       ThreadRejects, ThreadDies, PruneOldRequestLogs, vars, runtimeVars
  <2> QED BY <2>1 DEF CapsHold, Items, Bytes, PrefixBytes
<1>2. CASE \E lo, hi \in DOMAIN inFlight : HandleAck(lo, hi) \/ HandleBatchError(lo, hi)
  <2>1. PICK lo, hi \in DOMAIN inFlight : HandleAck(lo, hi) \/ HandleBatchError(lo, hi)
    BY <1>2
  <2>2. CASE HandleAck(lo, hi)
    BY <2>2, SettleHoldsCaps DEF HandleAck
  <2>3. CASE HandleBatchError(lo, hi)
    <3>1. Hears("batch-error", lo, hi)
      BY <2>3 DEF HandleBatchError
    <3>2. PutBack(lo, hi) \/ Settle(lo, hi, "dropped")
      BY <2>3 DEF HandleBatchError
    <3> QED BY <3>1, <3>2, PutBackHoldsCaps, SettleHoldsCaps
  <2> QED BY <2>1, <2>2, <2>3
<1> QED BY <1>1, <1>2, EnqueueHoldsCaps, PumpSendsHoldsCaps, FailureHoldsCaps DEF Next

\* The queue keeps within its two caps and gives back what enqueue charged,
\* however batches are split, put back, replayed and settled.
THEOREM QueueStaysWithinCaps == Spec => []CapsHold
BY InitHoldsCaps, NextHoldsCaps, Inductive, PTL DEF Spec

(***************************************************************************)
(* The queue, the writer worker and the store implement DurableLog, and    *)
(* splitting failed batches drops nothing but what cannot be written.      *)
(***************************************************************************)

-----------------------------------------------------------------------------
(* The inductive invariant: what the worker is given is what is in flight. *)

\* The events that entries of s have under a batch id.
BatchIn(s, id) == {s[i].event : i \in {j \in DOMAIN s : s[j].batch = id}}

\* The whole of a batch in the inbox is in flight under its id.
Whole == \A k \in DOMAIN inbox : Contents(inbox[k].commands) \subseteq BatchIn(inFlight, inbox[k].id)

\* A batch is in the inbox once, and no more once it is answered.
Apart ==
    /\ \A j, k \in DOMAIN inbox : inbox[j].id = inbox[k].id => j = k
    /\ \A k \in DOMAIN inbox : \A m \in DOMAIN mailbox : mailbox[m].id # inbox[k].id

DeadHasNone == thread = "dead" => inbox = <<>>

\* Whatever is still in flight under the id of an error has a poison event.
Blamed ==
    faults = 0 =>
        \A m \in DOMAIN mailbox :
            mailbox[m].kind = "batch-error" =>
                \/ BatchIn(inFlight, mailbox[m].id) = {}
                \/ BatchIn(inFlight, mailbox[m].id) \intersect Poison # {}

BatchInv == Whole /\ Apart /\ DeadHasNone /\ Blamed /\ OnlyPoisonDropped

LEMMA InitBatchInv == Init => BatchInv
BY DEF Init, BatchInv, Whole, Apart, DeadHasNone, Blamed, OnlyPoisonDropped

\* The mailbox of the next state has no answer that was not there before.
LEMMA NoNewAnswer ==
    ASSUME IInv, mailbox' = mailbox \/ (mailbox # <<>> /\ mailbox' = Tail(mailbox)),
           NEW m \in DOMAIN mailbox'
    PROVE  \E j \in DOMAIN mailbox : mailbox'[m] = mailbox[j]
<1>1. mailbox \in Seq(Answer)
  BY DEF IInv, TypeOK
<1> QED BY <1>1, TailKeeps

\* A step that leaves the batches in flight alone, drops nothing and gives
\* the worker nothing keeps the invariant.
LEMMA QuietKeepsBatches ==
    ASSUME IInv, BatchInv, UNCHANGED <<inFlight, faults>>,
           mailbox' = mailbox \/ (mailbox # <<>> /\ mailbox' = Tail(mailbox)),
           inbox' = inbox \/ inbox' = <<>>,
           thread' = "dead" => thread = "dead" \/ inbox' = <<>>,
           \A e \in Events : fate'[e] = "dropped" => fate[e] = "dropped"
    PROVE  BatchInv'
<1>1. \A id : BatchIn(inFlight', id) = BatchIn(inFlight, id)
  BY DEF BatchIn
<1>2. \A m \in DOMAIN mailbox' : \E j \in DOMAIN mailbox : mailbox'[m] = mailbox[j]
  BY NoNewAnswer
<1>3. Whole'
  <2>1. CASE inbox' = inbox
    BY <1>1, <2>1 DEF BatchInv, Whole
  <2>2. CASE inbox' = <<>>
    BY <2>2 DEF Whole
  <2> QED BY <2>1, <2>2
<1>4. Apart'
  <2>1. CASE inbox' = inbox
    BY <1>2, <2>1 DEF BatchInv, Apart
  <2>2. CASE inbox' = <<>>
    BY <2>2 DEF Apart
  <2> QED BY <2>1, <2>2
<1>5. DeadHasNone'
  BY DEF BatchInv, DeadHasNone
<1>6. Blamed'
  BY <1>1, <1>2 DEF BatchInv, Blamed
<1>7. OnlyPoisonDropped'
  BY DEF BatchInv, OnlyPoisonDropped
<1> QED BY <1>3, <1>4, <1>5, <1>6, <1>7 DEF BatchInv

-----------------------------------------------------------------------------
(* Sending and receiving.                                                  *)

\* What pump adds is in flight under the new id; nothing else changes its id.
LEMMA SentInFlight ==
    ASSUME IInv, NEW taken \in Seq(Entry), batchId' = batchId + 1,
           inFlight' = inFlight \o Sent(taken, batchId')
    PROVE  /\ EventsOf(taken) \subseteq BatchIn(inFlight', batchId')
           /\ \A id \in 0 .. batchId : BatchIn(inFlight', id) = BatchIn(inFlight, id)
<1> DEFINE sent == Sent(taken, batchId')
<1>1. batchId \in Nat /\ batchId' \in Nat /\ inFlight \in Seq(Entry)
  BY DEF IInv, TypeOK
<1>2. /\ sent \in Seq(Entry) /\ EventsOf(sent) = EventsOf(taken)
      /\ \A i \in DOMAIN sent : sent[i].batch = batchId'
  BY <1>1, SentEvents
<1> HIDE DEF sent
<1>3. inFlight' = inFlight \o sent
  BY DEF sent
<1>4. /\ Len(inFlight) \in Nat /\ Len(sent) \in Nat
      /\ DOMAIN inFlight = 1 .. Len(inFlight) /\ DOMAIN sent = 1 .. Len(sent)
      /\ DOMAIN inFlight' = 1 .. Len(inFlight) + Len(sent)
  <2>1. /\ Len(inFlight) \in Nat /\ DOMAIN inFlight = 1 .. Len(inFlight)
        /\ Len(sent) \in Nat /\ DOMAIN sent = 1 .. Len(sent)
    BY <1>1, <1>2, LenProperties
  <2>2. inFlight' \in Seq(Entry) /\ Len(inFlight') = Len(inFlight) + Len(sent)
    BY <1>1, <1>2, <1>3, ConcatProperties
  <2> QED BY <2>1, <2>2, LenProperties
<1>5. \A i \in DOMAIN inFlight : i \in DOMAIN inFlight' /\ inFlight'[i] = inFlight[i]
  BY <1>1, <1>2, <1>3, <1>4, ConcatProperties
<1>6. ASSUME NEW i \in DOMAIN sent
      PROVE  \E k \in DOMAIN inFlight' : inFlight'[k] = sent[i]
  <2>1. /\ Len(inFlight) + i \in 1 .. Len(inFlight) + Len(sent)
        /\ ~(Len(inFlight) + i <= Len(inFlight))
        /\ (Len(inFlight) + i) - Len(inFlight) = i
    BY <1>4
  <2>2. inFlight'[Len(inFlight) + i] = sent[i]
    BY <1>1, <1>2, <1>3, <2>1, ConcatProperties
  <2> QED BY <1>4, <2>1, <2>2
<1>7. \A k \in DOMAIN inFlight' :
         \/ k \in DOMAIN inFlight /\ inFlight'[k] = inFlight[k]
         \/ \E i \in DOMAIN sent : inFlight'[k] = sent[i]
  BY <1>1, <1>2, <1>3, ConcatParts
<1>8. EventsOf(taken) \subseteq BatchIn(inFlight', batchId')
  <2> SUFFICES ASSUME NEW e \in EventsOf(sent)
               PROVE  \E k \in DOMAIN inFlight' :
                         inFlight'[k].batch = batchId' /\ inFlight'[k].event = e
    BY <1>2 DEF BatchIn
  <2>1. PICK i \in DOMAIN sent : sent[i].event = e
    BY DEF EventsOf
  <2> QED BY <1>2, <1>6, <2>1
<1>9. ASSUME NEW id \in 0 .. batchId
      PROVE  BatchIn(inFlight', id) = BatchIn(inFlight, id)
  <2>1. id # batchId'
    BY <1>1
  <2>2. \A k \in DOMAIN inFlight' :
           inFlight'[k].batch = id => k \in DOMAIN inFlight /\ inFlight'[k] = inFlight[k]
    BY <1>2, <1>7, <2>1
  <2> QED BY <1>5, <2>2 DEF BatchIn
<1> QED BY <1>8, <1>9

\* Once a batch is answered its entries, and no others, have left the flight.
LEMMA AnsweredInFlight ==
    ASSUME IInv, NEW kind, NEW lo \in DOMAIN inFlight, NEW hi \in DOMAIN inFlight,
           Hears(kind, lo, hi), inFlight' = Without(lo, hi)
    PROVE  /\ EventsOf(SubSeq(inFlight, lo, hi)) = BatchIn(inFlight, Head(mailbox).id)
           /\ BatchIn(inFlight', Head(mailbox).id) = {}
           /\ \A id : id # Head(mailbox).id
                       => BatchIn(inFlight', id) = BatchIn(inFlight, id)
<1> DEFINE mid == SubSeq(inFlight, lo, hi)
           head == Head(mailbox).id
<1>1. /\ inFlight \in Seq(Entry) /\ Distinct(inFlight)
      /\ lo \in 1 .. Len(inFlight) /\ hi \in lo .. Len(inFlight)
      /\ DOMAIN inFlight = 1 .. Len(inFlight) /\ Len(inFlight) \in Nat
  BY HearsKeeps, LenProperties DEF IInv, TypeOK, NoneLost
<1>2. \A i \in DOMAIN inFlight : inFlight[i].batch = head <=> i \in lo .. hi
  BY DEF Hears, IsBatch
<1>3. /\ EventsOf(mid) \intersect EventsOf(inFlight') = {}
      /\ EventsOf(mid) \union EventsOf(inFlight') = EventsOf(inFlight)
  BY <1>1, CutEvents DEF Without
<1>4. \A k \in DOMAIN inFlight' : \E i \in DOMAIN inFlight : inFlight'[k] = inFlight[i]
  BY <1>1, CutKeeps DEF Without
<1>5. \A e \in EventsOf(mid) : \E i \in lo .. hi : inFlight[i].event = e
  BY <1>1, PartEntries
<1>6. \A i \in lo .. hi : inFlight[i].event \in EventsOf(mid)
  <2>1. /\ \A i \in lo .. hi : inFlight[i] \in Entry
        /\ lo \in Int /\ hi \in Int /\ lo <= hi
    BY <1>1, ElementOfSeq
  <2>2. /\ mid \in Seq(Entry)
        /\ Len(mid) = IF lo <= hi THEN hi - lo + 1 ELSE 0
        /\ \A i \in 1 .. hi - lo + 1 : mid[i] = inFlight[lo + i - 1]
    BY <2>1, SubSeqProperties
  <2>3. DOMAIN mid = 1 .. hi - lo + 1
    BY <2>1, <2>2, LenProperties
  <2> HIDE DEF mid
  <2>4. ASSUME NEW i \in lo .. hi PROVE inFlight[i].event \in EventsOf(mid)
    <3>1. i - lo + 1 \in 1 .. hi - lo + 1 /\ lo + (i - lo + 1) - 1 = i
      BY <2>1
    <3>2. mid[i - lo + 1] = inFlight[i]
      BY <2>2, <3>1
    <3> QED BY <2>3, <3>1, <3>2 DEF EventsOf
  <2> QED BY <2>4
<1> HIDE DEF mid, head
<1>7. lo .. hi \subseteq DOMAIN inFlight
  BY <1>1
<1>8. EventsOf(mid) = BatchIn(inFlight, head)
  BY <1>2, <1>5, <1>6, <1>7 DEF BatchIn
<1>9. ASSUME NEW k \in DOMAIN inFlight' PROVE inFlight'[k].batch # head
  <2>1. PICK i \in DOMAIN inFlight : inFlight'[k] = inFlight[i]
    BY <1>4
  <2>2. inFlight[i].event \in EventsOf(inFlight')
    BY <2>1 DEF EventsOf
  <2> QED BY <1>2, <1>3, <1>6, <2>1, <2>2
<1>10. BatchIn(inFlight', head) = {}
  <2>1. head \in Nat /\ mailbox # <<>>
    <3>1. mailbox \in Seq(Answer) /\ mailbox # <<>>
      BY DEF IInv, TypeOK, Hears
    <3>2. Head(mailbox) \in Answer
      BY <3>1, TailKeeps
    <3> QED BY <3>1, <3>2 DEF Answer, head
  <2> QED BY <1>9 DEF BatchIn
<1>11. ASSUME NEW id, id # head PROVE BatchIn(inFlight', id) = BatchIn(inFlight, id)
  <2>1. ASSUME NEW i \in DOMAIN inFlight, inFlight[i].batch = id
        PROVE  \E k \in DOMAIN inFlight' : inFlight'[k] = inFlight[i]
    <3>1. i \notin lo .. hi
      BY <1>2, <1>11, <2>1
    <3>2. inFlight[i].event \notin EventsOf(mid)
      BY <1>1, <1>5, <1>7, <3>1 DEF Distinct
    <3>3. inFlight[i].event \in EventsOf(inFlight')
      BY <1>3, <3>2 DEF EventsOf
    <3>4. PICK k \in DOMAIN inFlight' : inFlight'[k].event = inFlight[i].event
      BY <3>3 DEF EventsOf
    <3>5. PICK j \in DOMAIN inFlight : inFlight'[k] = inFlight[j]
      BY <1>4
    <3>6. j = i
      BY <1>1, <3>4, <3>5 DEF Distinct
    <3> QED BY <3>5, <3>6
  <2> QED BY <1>4, <2>1 DEF BatchIn
<1> QED BY <1>8, <1>10, <1>11 DEF mid, head

\* The ids that messages carry are those of batches sent so far.
LEMMA KnownIds ==
    ASSUME IInv
    PROVE  /\ batchId \in Nat
           /\ \A k \in DOMAIN inbox : inbox[k].id \in 0 .. batchId
           /\ \A m \in DOMAIN mailbox : mailbox[m].id \in 0 .. batchId
<1>1. inbox \in Seq(Batch) /\ mailbox \in Seq(Answer) /\ batchId \in Nat
  BY DEF IInv, TypeOK
<1>2. \A k \in DOMAIN inbox : inbox[k] \in Batch
  BY <1>1, ElementOfSeq, LenProperties
<1>3. \A m \in DOMAIN mailbox : mailbox[m] \in Answer
  BY <1>1, ElementOfSeq, LenProperties
<1>4. \A k \in DOMAIN inbox : inbox[k].id \in 0 .. batchId
  BY <1>1, <1>2 DEF IInv, Inboxed, Batch
<1>5. \A m \in DOMAIN mailbox : mailbox[m].id \in 0 .. batchId
  BY <1>1, <1>3 DEF IInv, Answered, Answer
<1> QED BY <1>1, <1>4, <1>5

\* The entries of an appended sequence are the old ones, in their places, and
\* the new one at the end.
LEMMA AppendPlaces ==
    ASSUME NEW S, NEW s \in Seq(S), NEW x \in S
    PROVE  /\ Len(s) \in Nat /\ DOMAIN s = 1 .. Len(s)
           /\ DOMAIN Append(s, x) = 1 .. Len(s) + 1
           /\ \A k \in DOMAIN s : Append(s, x)[k] = s[k]
           /\ Append(s, x)[Len(s) + 1] = x
<1>1. /\ Append(s, x) \in Seq(S) /\ Len(Append(s, x)) = Len(s) + 1
      /\ \A k \in 1 .. Len(s) : Append(s, x)[k] = s[k]
      /\ Append(s, x)[Len(s) + 1] = x
  BY AppendProperties
<1>2. DOMAIN Append(s, x) = 1 .. Len(s) + 1
  BY <1>1, LenProperties
<1> QED BY <1>1, <1>2, LenProperties

LEMMA SendKeepsBatches ==
    ASSUME IInv, BatchInv, NEW taken \in Seq(Entry), EventsOf(taken) \subseteq Events,
           batchId' = batchId + 1, inFlight' = inFlight \o Sent(taken, batchId'),
           inbox' = IF thread = "dead" THEN inbox
                    ELSE Append(inbox, [id |-> batchId', commands |-> Commands(taken)]),
           UNCHANGED <<fate, thread, mailbox, faults>>
    PROVE  BatchInv'
<1> DEFINE posted == [id |-> batchId', commands |-> Commands(taken)]
<1>1. /\ batchId \in Nat /\ batchId' \in Nat
      /\ \A k \in DOMAIN inbox : inbox[k].id \in 0 .. batchId
      /\ \A m \in DOMAIN mailbox : mailbox[m].id \in 0 .. batchId
  BY KnownIds
<1>2. /\ EventsOf(taken) \subseteq BatchIn(inFlight', batchId')
      /\ \A id \in 0 .. batchId : BatchIn(inFlight', id) = BatchIn(inFlight, id)
  BY SentInFlight
<1>3. posted \in Batch /\ posted.id = batchId' /\ Contents(posted.commands) = EventsOf(taken)
  BY <1>1, CommandsOf DEF Batch
<1>4. thread # "dead" => inbox' = Append(inbox, posted)
  OBVIOUS
<1>5. DeadHasNone'
  BY DEF BatchInv, DeadHasNone
<1> HIDE DEF posted
<1>6. \A k \in DOMAIN inbox' :
         \/ k \in DOMAIN inbox /\ inbox'[k] = inbox[k]
         \/ thread # "dead" /\ k = Len(inbox) + 1 /\ inbox'[k] = posted
  <2>1. CASE thread = "dead"
    BY <2>1
  <2>2. CASE thread # "dead"
    <3>1. inbox \in Seq(Batch)
      BY DEF IInv, TypeOK
    <3>2. /\ Len(inbox) \in Nat /\ DOMAIN inbox = 1 .. Len(inbox)
          /\ DOMAIN inbox' = 1 .. Len(inbox) + 1
          /\ \A k \in DOMAIN inbox : inbox'[k] = inbox[k]
          /\ inbox'[Len(inbox) + 1] = posted
      BY <1>3, <1>4, <2>2, <3>1, AppendPlaces
    <3> QED BY <2>2, <3>2
  <2> QED BY <2>1, <2>2
<1>7. Whole'
  <2> SUFFICES ASSUME NEW k \in DOMAIN inbox'
               PROVE  Contents(inbox'[k].commands) \subseteq BatchIn(inFlight', inbox'[k].id)
    BY DEF Whole
  <2>1. CASE k \in DOMAIN inbox /\ inbox'[k] = inbox[k]
    BY <1>1, <1>2, <2>1 DEF BatchInv, Whole
  <2>2. CASE inbox'[k] = posted
    BY <1>2, <1>3, <2>2
  <2> QED BY <1>6, <2>1, <2>2
<1>8. Apart'
  <2>1. batchId' \notin 0 .. batchId
    BY <1>1
  <2>2. ASSUME NEW j \in DOMAIN inbox', NEW k \in DOMAIN inbox',
               inbox'[j].id = inbox'[k].id
        PROVE  j = k
    BY <1>1, <1>3, <1>6, <2>1, <2>2 DEF BatchInv, Apart
  <2>3. ASSUME NEW k \in DOMAIN inbox', NEW m \in DOMAIN mailbox
        PROVE  mailbox[m].id # inbox'[k].id
    BY <1>1, <1>3, <1>6, <2>1 DEF BatchInv, Apart
  <2> QED BY <2>2, <2>3 DEF Apart
<1>9. Blamed'
  BY <1>1, <1>2 DEF BatchInv, Blamed
<1>10. OnlyPoisonDropped'
  BY DEF BatchInv, OnlyPoisonDropped
<1> QED BY <1>5, <1>7, <1>8, <1>9, <1>10 DEF BatchInv

LEMMA PumpSendsKeepsBatches ==
    ASSUME IInv, BatchInv, PumpSends
    PROVE  BatchInv'
<1>1. UNCHANGED <<thread, mailbox, faults>>
  BY DEF PumpSends, budget
<1>2. CASE UNCHANGED <<fate, inFlight, inbox>>
  BY <1>1, <1>2, QuietKeepsBatches
<1>3. ASSUME NEW n \in 1 .. Len(queue),
             UNCHANGED <<inFlight, inbox>>,
             fate' = [e \in Events |-> IF e \in EventsOf(SubSeq(queue, 1, n))
                                         THEN "abandoned" ELSE fate[e]]
      PROVE  BatchInv'
  <2>1. \A e \in Events : fate'[e] = "dropped" => fate[e] = "dropped"
    BY <1>3
  <2> QED BY <1>1, <1>3, <2>1, QuietKeepsBatches
<1>4. ASSUME NEW n \in 1 .. Len(queue),
             batchId' = batchId + 1,
             inFlight' = inFlight \o Sent(SubSeq(queue, 1, n), batchId'),
             inbox' = IF thread = "dead" THEN inbox
                      ELSE Append(inbox, [id |-> batchId',
                                          commands |-> Commands(SubSeq(queue, 1, n))]),
             UNCHANGED fate
      PROVE  BatchInv'
  <2> DEFINE taken == SubSeq(queue, 1, n)
  <2>1. taken \in Seq(Entry) /\ EventsOf(taken) \subseteq EventsOf(queue)
    BY SplitEvents DEF IInv, TypeOK, NoneLost
  <2>2. EventsOf(taken) \subseteq Events
    BY <2>1 DEF IInv, NoneLost, Outstanding
  <2>3. /\ inFlight' = inFlight \o Sent(taken, batchId')
        /\ inbox' = IF thread = "dead" THEN inbox
                    ELSE Append(inbox, [id |-> batchId', commands |-> Commands(taken)])
    BY <1>4
  <2> HIDE DEF taken
  <2> QED BY <1>1, <1>4, <2>1, <2>2, <2>3, SendKeepsBatches
<1> QED BY <1>2, <1>3, <1>4 DEF PumpSends

-----------------------------------------------------------------------------
(* Answers and failures.                                                   *)

\* Answering a batch leaves the other batches, their messages and their blame.
LEMMA AnswerKeepsBatches ==
    ASSUME IInv, BatchInv, NEW kind, NEW lo \in DOMAIN inFlight, NEW hi \in DOMAIN inFlight,
           Hears(kind, lo, hi), inFlight' = Without(lo, hi), OnlyPoisonDropped'
    PROVE  BatchInv'
<1>1. /\ mailbox # <<>> /\ mailbox' = Tail(mailbox)
      /\ UNCHANGED <<thread, inbox, faults>>
  BY HearsKeeps
<1>2. /\ BatchIn(inFlight', Head(mailbox).id) = {}
      /\ \A id : id # Head(mailbox).id
                  => BatchIn(inFlight', id) = BatchIn(inFlight, id)
  BY AnsweredInFlight
<1>3. \A m \in DOMAIN mailbox' : \E j \in DOMAIN mailbox : mailbox'[m] = mailbox[j]
  BY <1>1, NoNewAnswer
<1>4. 1 \in DOMAIN mailbox /\ Head(mailbox) = mailbox[1]
  BY <1>1, TailKeeps DEF IInv, TypeOK
<1>5. Whole'
  <2>1. \A k \in DOMAIN inbox : inbox[k].id # Head(mailbox).id
    BY <1>4 DEF BatchInv, Apart
  <2> QED BY <1>1, <1>2, <2>1 DEF BatchInv, Whole
<1>6. Apart' /\ DeadHasNone'
  BY <1>1, <1>3 DEF BatchInv, Apart, DeadHasNone
<1>7. Blamed'
  <2> SUFFICES ASSUME faults = 0, NEW m \in DOMAIN mailbox',
                      mailbox'[m].kind = "batch-error"
               PROVE  \/ BatchIn(inFlight', mailbox'[m].id) = {}
                      \/ BatchIn(inFlight', mailbox'[m].id) \intersect Poison # {}
    BY <1>1 DEF Blamed
  <2>1. PICK j \in DOMAIN mailbox : mailbox'[m] = mailbox[j]
    BY <1>3
  <2>2. \/ BatchIn(inFlight, mailbox[j].id) = {}
        \/ BatchIn(inFlight, mailbox[j].id) \intersect Poison # {}
    BY <2>1 DEF BatchInv, Blamed
  <2> QED BY <1>2, <2>1, <2>2
<1> QED BY <1>5, <1>6, <1>7 DEF BatchInv

LEMMA HandleAckKeepsBatches ==
    ASSUME IInv, BatchInv, NEW lo \in DOMAIN inFlight, NEW hi \in DOMAIN inFlight,
           HandleAck(lo, hi)
    PROVE  BatchInv'
<1>1. Hears("ack", lo, hi) /\ inFlight' = Without(lo, hi) /\ faults' = faults
  BY DEF HandleAck, Settle, Hears, budget
<1>2. \A e \in Events : fate'[e] = "dropped" => fate[e] = "dropped"
  BY DEF HandleAck, Settle
<1>3. OnlyPoisonDropped'
  BY <1>1, <1>2 DEF BatchInv, OnlyPoisonDropped
<1> QED BY <1>1, <1>3, AnswerKeepsBatches

\* A batch of one that is dropped is the one its error is about.
LEMMA HandleBatchErrorKeepsBatches ==
    ASSUME IInv, BatchInv, NEW lo \in DOMAIN inFlight, NEW hi \in DOMAIN inFlight,
           HandleBatchError(lo, hi)
    PROVE  BatchInv'
<1>1. Hears("batch-error", lo, hi) /\ faults' = faults
  BY DEF HandleBatchError, Hears, budget
<1>2. CASE PutBack(lo, hi)
  <2>1. inFlight' = Without(lo, hi) /\ fate' = fate
    BY <1>2 DEF PutBack
  <2>2. OnlyPoisonDropped'
    BY <1>1, <2>1 DEF BatchInv, OnlyPoisonDropped
  <2> QED BY <1>1, <2>1, <2>2, AnswerKeepsBatches
<1>3. CASE lo = hi /\ Settle(lo, hi, "dropped")
  <2> DEFINE mid == SubSeq(inFlight, lo, hi)
  <2>1. inFlight' = Without(lo, hi)
    BY <1>3 DEF Settle
  <2>2. \A e \in Events : fate'[e] = IF e \in EventsOf(mid) THEN "dropped" ELSE fate[e]
    BY <1>3 DEF Settle
  <2>3. EventsOf(mid) = BatchIn(inFlight, Head(mailbox).id)
    BY <1>1, <2>1, AnsweredInFlight
  <2>4. inFlight \in Seq(Entry) /\ lo \in 1 .. Len(inFlight) /\ hi \in lo .. Len(inFlight)
    BY <1>1, HearsKeeps DEF IInv, TypeOK
  <2>5. \A e \in EventsOf(mid) : \E i \in lo .. hi : inFlight[i].event = e
    BY <2>4, PartEntries
  <2> HIDE DEF mid
  <2>6. \A d, e \in EventsOf(mid) : d = e
    BY <1>3, <2>4, <2>5
  <2>7. ASSUME faults = 0, NEW e \in EventsOf(mid) PROVE e \in Poison
    <3>1. /\ 1 \in DOMAIN mailbox /\ Head(mailbox) = mailbox[1]
          /\ mailbox[1].kind = "batch-error"
      <4>1. mailbox # <<>> /\ mailbox \in Seq(Answer) /\ Head(mailbox).kind = "batch-error"
        BY <1>1 DEF Hears, IInv, TypeOK
      <4> QED BY <4>1, TailKeeps
    <3>2. EventsOf(mid) \intersect Poison # {}
      BY <2>3, <2>7, <3>1 DEF BatchInv, Blamed
    <3> QED BY <2>6, <3>2
  <2>8. OnlyPoisonDropped'
    BY <1>1, <2>2, <2>7 DEF BatchInv, OnlyPoisonDropped
  <2> QED BY <1>1, <2>1, <2>8, AnswerKeepsBatches
<1> QED BY <1>2, <1>3 DEF HandleBatchError

\* What a dead worker had in flight is back in the queue; its inbox is gone.
LEMMA FailureKeepsBatches ==
    ASSUME IInv, BatchInv, HandleWriterFailure
    PROVE  BatchInv'
<1>1. /\ inbox' = <<>> /\ inFlight' = <<>> /\ thread' = "none"
      /\ UNCHANGED <<fate, mailbox, faults>>
  BY DEF HandleWriterFailure, BatchInv, DeadHasNone, budget
<1>2. Whole' /\ Apart' /\ DeadHasNone'
  BY <1>1 DEF Whole, Apart, DeadHasNone
<1>3. \A id : BatchIn(inFlight', id) = {}
  BY <1>1 DEF BatchIn
<1>4. Blamed'
  BY <1>3 DEF Blamed
<1>5. OnlyPoisonDropped'
  BY <1>1 DEF BatchInv, OnlyPoisonDropped
<1> QED BY <1>2, <1>4, <1>5 DEF BatchInv

\* The worker answers the head of its inbox; an error without a fault is the
\* work of a poison event, which is in flight.
LEMMA WorkerAnswersKeepsBatches ==
    ASSUME IInv, BatchInv, NEW kind \in {"ack", "batch-error"}, inbox # <<>>,
           mailbox' = Append(mailbox, [id |-> Head(inbox).id, kind |-> kind]),
           inbox' = Tail(inbox), UNCHANGED <<fate, inFlight, thread>>,
           faults \in Nat, faults' \in {faults, faults + 1},
           kind = "batch-error" /\ faults' = 0 => Contents(Head(inbox).commands) \intersect Poison # {}
    PROVE  BatchInv'
<1> DEFINE answer == [id |-> Head(inbox).id, kind |-> kind]
<1>1. inbox \in Seq(Batch) /\ mailbox \in Seq(Answer)
  BY DEF IInv, TypeOK
<1>2. /\ Head(inbox) \in Batch /\ Head(inbox) = inbox[1] /\ 1 \in DOMAIN inbox
      /\ \A k \in DOMAIN inbox' : k + 1 \in DOMAIN inbox /\ inbox'[k] = inbox[k + 1]
  BY <1>1, TailKeeps
<1>3. answer \in Answer /\ answer.id = inbox[1].id /\ answer.kind = kind
  BY <1>2 DEF Batch, Answer
<1>4. mailbox' = Append(mailbox, answer)
  OBVIOUS
<1> HIDE DEF answer
<1>5. \A m \in DOMAIN mailbox' : \/ m \in DOMAIN mailbox /\ mailbox'[m] = mailbox[m]
                                 \/ mailbox'[m] = answer
  <2>1. /\ Len(mailbox) \in Nat /\ DOMAIN mailbox = 1 .. Len(mailbox)
        /\ DOMAIN mailbox' = 1 .. Len(mailbox) + 1
        /\ \A m \in DOMAIN mailbox : mailbox'[m] = mailbox[m]
        /\ mailbox'[Len(mailbox) + 1] = answer
    BY <1>1, <1>3, <1>4, AppendPlaces
  <2> QED BY <2>1
<1>6. \A id : BatchIn(inFlight', id) = BatchIn(inFlight, id)
  OBVIOUS
<1>7. \A k \in DOMAIN inbox' : k \in Nat /\ k # 0
  <2>1. inbox' \in Seq(Batch)
    BY <1>1, TailKeeps
  <2> QED BY <2>1, LenProperties
<1>8. Whole'
  BY <1>2 DEF BatchInv, Whole
<1>9. Apart'
  <2>1. ASSUME NEW j \in DOMAIN inbox', NEW k \in DOMAIN inbox',
               inbox'[j].id = inbox'[k].id
        PROVE  j = k
    <3>1. j + 1 = k + 1
      BY <1>2, <2>1 DEF BatchInv, Apart
    <3> QED BY <1>7, <3>1
  <2>2. ASSUME NEW k \in DOMAIN inbox'
        PROVE  inbox'[k].id # answer.id
    <3>1. k + 1 # 1
      BY <1>7
    <3> QED BY <1>2, <1>3, <3>1 DEF BatchInv, Apart
  <2>3. ASSUME NEW k \in DOMAIN inbox', NEW m \in DOMAIN mailbox'
        PROVE  mailbox'[m].id # inbox'[k].id
    BY <1>2, <1>5, <2>2 DEF BatchInv, Apart
  <2> QED BY <2>1, <2>3 DEF Apart
<1>10. DeadHasNone'
  <2>1. thread # "dead"
    BY DEF BatchInv, DeadHasNone
  <2> QED BY <2>1 DEF DeadHasNone
<1>11. faults' = 0 => faults = 0
  OBVIOUS
<1>12. Blamed'
  <2> SUFFICES ASSUME faults' = 0, NEW m \in DOMAIN mailbox',
                      mailbox'[m].kind = "batch-error"
               PROVE  \/ BatchIn(inFlight, mailbox'[m].id) = {}
                      \/ BatchIn(inFlight, mailbox'[m].id) \intersect Poison # {}
    BY <1>6 DEF Blamed
  <2>1. CASE m \in DOMAIN mailbox /\ mailbox'[m] = mailbox[m]
    BY <1>11, <2>1 DEF BatchInv, Blamed
  <2>2. CASE mailbox'[m] = answer
    <3>1. Contents(inbox[1].commands) \subseteq BatchIn(inFlight, answer.id)
      BY <1>2, <1>3 DEF BatchInv, Whole
    <3>2. Contents(inbox[1].commands) \intersect Poison # {}
      BY <1>2, <1>3, <2>2
    <3> QED BY <2>2, <3>1, <3>2
  <2> QED BY <1>5, <2>1, <2>2
<1>13. OnlyPoisonDropped'
  BY <1>11 DEF BatchInv, OnlyPoisonDropped
<1> QED BY <1>8, <1>9, <1>10, <1>12, <1>13 DEF BatchInv

LEMMA EnqueueKeepsBatches ==
    ASSUME IInv, BatchInv,
           (\E r \in Records : EnqueueRecord(r)) \/ (\E t \in Traces : EnqueueTrace(t))
    PROVE  BatchInv'
<1>1. UNCHANGED <<inFlight, mailbox, faults>>
  BY DEF EnqueueRecord, EnqueueTrace, budget
<1>2. \/ \E e \in Events : fate[e] = "new" /\ Refuse(e)
      \/ \E e \in Events, size \in {BareSize[d] : d \in Events} \union
                                   {FullSize[d] : d \in Events} : Offer(e, size)
  BY EventAssumption DEF EnqueueRecord, EnqueueTrace, Events
<1>3. \A e \in Events : fate'[e] = "dropped" => fate[e] = "dropped"
  BY <1>2 DEF Refuse, Offer, IInv, TypeOK
<1>4. (inbox' = inbox \/ inbox' = <<>>) /\ (thread' = "dead" => thread = "dead")
  BY <1>2 DEF Refuse, Offer, EnsureWriter, threadVars
<1> QED BY <1>1, <1>3, <1>4, QuietKeepsBatches

LEMMA BatchInvKept == IInv /\ BatchInv /\ [Next]_vars => BatchInv'
<1> SUFFICES ASSUME IInv, BatchInv, [Next]_vars PROVE BatchInv'
  OBVIOUS
<1>1. CASE \/ FlushTimerFires \/ PumpEnters \/ Kick \/ WriterReady
           \/ IgnoreStaleAnswer \/ RestartTimerFires \/ Close \/ FinishClose
           \/ ThreadCommits \/ ThreadDies \/ PruneOldRequestLogs \/ UNCHANGED vars
  <2>1. /\ UNCHANGED <<inFlight, faults, fate>>
        /\ mailbox' = mailbox \/ (mailbox # <<>> /\ mailbox' = Tail(mailbox))
    BY <1>1 DEF FlushTimerFires, PumpEnters, Kick, WriterReady, IgnoreStaleAnswer,
       RestartTimerFires, Close, FinishClose, ThreadCommits, ThreadDies,
       PruneOldRequestLogs, vars,
       runtimeVars, budget
  <2>2. /\ inbox' = inbox \/ inbox' = <<>>
        /\ thread' = "dead" => thread = "dead" \/ inbox' = <<>>
    BY <1>1 DEF FlushTimerFires, PumpEnters, Kick, WriterReady, IgnoreStaleAnswer,
       RestartTimerFires, Close, FinishClose, ThreadCommits, ThreadDies,
       PruneOldRequestLogs, vars,
       threadVars, EnsureWriter
  <2> QED BY <2>1, <2>2, QuietKeepsBatches
<1>2. CASE ThreadAcks
  <2>1. inbox # <<>> /\ faults \in Nat
    BY <1>2 DEF ThreadAcks, IInv, TypeOK, Committed
  <2>2. faults' \in {faults, faults + 1}
    BY <1>2 DEF ThreadAcks, budget
  <2> QED BY <1>2, <2>1, <2>2, WorkerAnswersKeepsBatches DEF ThreadAcks, runtimeVars
<1>3. CASE ThreadRejects
  <2>1. inbox # <<>> /\ faults \in Nat
    BY <1>3 DEF ThreadRejects, IInv, TypeOK
  <2>2. /\ faults' \in {faults, faults + 1}
        /\ faults' = 0 => Contents(Head(inbox).commands) \intersect Poison # {}
    BY <1>3, <2>1 DEF ThreadRejects
  <2> QED BY <1>3, <2>1, <2>2, WorkerAnswersKeepsBatches DEF ThreadRejects, runtimeVars
<1> QED BY <1>1, <1>2, <1>3, EnqueueKeepsBatches, PumpSendsKeepsBatches,
       HandleAckKeepsBatches, HandleBatchErrorKeepsBatches, FailureKeepsBatches DEF Next

LEMMA BatchInvHolds == Spec => []BatchInv
BY InitBatchInv, BatchInvKept, Inductive, PTL DEF Spec

\* While no healthy write fails, HandleBatchError drops only events that can
\* never be written, however batches are split, retried and replayed.
THEOREM OnlyPoisonIsDropped == Spec => []OnlyPoisonDropped
BY BatchInvHolds, PTL DEF BatchInv

-----------------------------------------------------------------------------
(* Deferred traces, whose bundles leave the spool once they are acknowledged. *)

\* A record is in the log, or was until its day was over.
Recorded(r) == rows[r] > 0 \/ r \in discarded

\* A deferred trace is let in after its record, so it is parked, and at the
\* mercy of what happens to parked updates, only when that record was pruned.
DeferredInv ==
    \A t \in Deferred :
        /\ fate[t] \notin {"new", "refused"} => Recorded(Of[t])
        /\ t \in pendingTraces \union replaced \union discarded => Of[t] \in discarded

\* Only the enqueue operations decide what is new, and nothing is refused later.
LEMMA FateMoves ==
    ASSUME IInv, [Next]_vars,
           ~ \E r \in Records : EnqueueRecord(r), ~ \E t \in Traces : EnqueueTrace(t),
           NEW e \in Events, fate[e] \in {"new", "refused"}
    PROVE  fate'[e] = fate[e]
<1>1. CASE UNCHANGED fate
  BY <1>1
<1>2. CASE PumpSends /\ ~ UNCHANGED fate
  <2>1. PICK n \in 1 .. Len(queue) :
           fate' = [d \in Events |-> IF d \in EventsOf(SubSeq(queue, 1, n))
                                       THEN "abandoned" ELSE fate[d]]
    BY <1>2 DEF PumpSends
  <2>2. EventsOf(SubSeq(queue, 1, n)) \subseteq EventsOf(queue)
    BY SplitEvents DEF IInv, TypeOK, NoneLost
  <2>3. e \notin EventsOf(SubSeq(queue, 1, n))
    BY <2>2 DEF IInv, NoneLost, Outstanding
  <2> QED BY <2>1, <2>3
<1>3. ASSUME NEW lo \in DOMAIN inFlight, NEW hi \in DOMAIN inFlight, NEW kind, NEW outcome,
             Hears(kind, lo, hi), Settle(lo, hi, outcome)
      PROVE  fate'[e] = fate[e]
  <2>1. /\ inFlight \in Seq(Entry) /\ Distinct(inFlight)
        /\ lo \in 1 .. Len(inFlight) /\ hi \in lo .. Len(inFlight)
    BY <1>3, HearsKeeps DEF IInv, TypeOK, NoneLost
  <2>2. EventsOf(SubSeq(inFlight, lo, hi)) \subseteq EventsOf(inFlight)
    BY <2>1, CutEvents
  <2>3. e \notin EventsOf(SubSeq(inFlight, lo, hi))
    BY <2>2 DEF IInv, NoneLost, Outstanding
  <2> QED BY <1>3, <2>3 DEF Settle
<1>4. ASSUME NEW lo \in DOMAIN inFlight, NEW hi \in DOMAIN inFlight,
             HandleAck(lo, hi) \/ HandleBatchError(lo, hi)
      PROVE  fate'[e] = fate[e]
  <2>1. CASE PutBack(lo, hi)
    BY <2>1 DEF PutBack
  <2>2. CASE ~PutBack(lo, hi)
    BY <1>3, <1>4, <2>2 DEF HandleAck, HandleBatchError
  <2> QED BY <2>1, <2>2
<1>5. \/ UNCHANGED fate
      \/ PumpSends
      \/ \E lo, hi \in DOMAIN inFlight : HandleAck(lo, hi) \/ HandleBatchError(lo, hi)
  BY DEF Next, vars, FlushTimerFires, PumpEnters, Kick, WriterReady,
     IgnoreStaleAnswer, HandleWriterFailure, RestartTimerFires, Close, FinishClose,
     ThreadCommits, ThreadAcks, ThreadRejects, ThreadDies, PruneOldRequestLogs, runtimeVars
<1> QED BY <1>1, <1>2, <1>4, <1>5

\* The batch that is committed is in flight, so its events are accepted.
LEMMA CommittedIsAccepted ==
    ASSUME IInv, BatchInv, ThreadCommits, NEW e \in Contents(Head(inbox).commands)
    PROVE  e \in Events /\ fate[e] = "accepted"
<1>1. Contents(Head(inbox).commands) \subseteq BatchIn(inFlight, inbox[1].id)
  BY CommittedBatch DEF BatchInv, Whole
<1>2. e \in EventsOf(inFlight)
  BY <1>1 DEF BatchIn, EventsOf
<1> QED BY <1>2 DEF IInv, NoneLost, Outstanding

\* A deferred trace is let in only when its record is in the log or was.
LEMMA EnqueueKeepsDeferred ==
    ASSUME IInv, DeferredInv,
           (\E r \in Records : EnqueueRecord(r)) \/ (\E t \in Traces : EnqueueTrace(t))
    PROVE  DeferredInv'
<1> USE EventAssumption
<1>1. UNCHANGED storeVars
  BY DEF EnqueueRecord, EnqueueTrace
<1>2. \A r \in Records : Recorded(r)' = Recorded(r)
  BY <1>1 DEF storeVars, Recorded
<1>3. ASSUME NEW r \in Records, EnqueueRecord(r), NEW t \in Deferred
      PROVE  fate'[t] = fate[t]
  <2>1. t # r /\ t \in Events /\ r \in Events
    BY DEF Events
  <2> QED BY <1>3, <2>1 DEF EnqueueRecord, Refuse, Offer, IInv, TypeOK
<1>4. ASSUME NEW u \in Traces, EnqueueTrace(u), NEW t \in Deferred,
             fate'[t] \notin {"new", "refused"}
      PROVE  fate[t] \notin {"new", "refused"} \/ Recorded(Of[t])
  <2>1. t \in Events /\ u \in Events /\ Of[u] \in Records /\ Of[u] \in Events
    BY DEF Events
  <2>2. PICK admission \in Admission(Of[u]) :
           /\ u \in Deferred => admission \in {"rejected", "committed"}
           /\ \/ Refuse(u)
              \/ /\ admission # "rejected"
                 /\ \E size : Offer(u, size)
    BY <1>4 DEF EnqueueTrace
  <2>3. CASE fate' = [fate EXCEPT ![u] = "refused"]
    BY <1>4, <2>1, <2>3 DEF IInv, TypeOK
  <2>4. CASE fate' = [fate EXCEPT ![u] = "accepted"] /\ admission # "rejected"
    <3>1. CASE t # u
      BY <1>4, <2>1, <2>4, <3>1 DEF IInv, TypeOK
    <3>2. CASE t = u
      <4>1. "committed" \in Admission(Of[t])
        BY <2>2, <2>4, <3>2
      <4>2. fate[Of[t]] = "acked" \/ rows[Of[t]] > 0 \/ Of[t] \in discarded
        BY <4>1 DEF Admission
      <4>3. fate[Of[t]] = "acked" => Recorded(Of[t])
        BY <2>1, <3>2 DEF IInv, TypeOK, AckedIsWritten, Written, Recorded
      <4> QED BY <4>2, <4>3 DEF Recorded
    <3> QED BY <3>1, <3>2
  <2> QED BY <2>2, <2>3, <2>4 DEF Refuse, Offer
<1>5. \A t \in Deferred : Of[t] \in Records
  OBVIOUS
<1>6. ASSUME NEW t \in Deferred, fate'[t] \notin {"new", "refused"}
      PROVE  Recorded(Of[t])
  BY <1>3, <1>4, <1>6 DEF DeferredInv
<1>7. \A t \in Deferred :
         t \in pendingTraces' \union replaced' \union discarded' => Of[t] \in discarded'
  BY <1>1 DEF storeVars, DeferredInv
<1> QED BY <1>2, <1>5, <1>6, <1>7 DEF DeferredInv

\* A transaction parks a deferred trace only when its record was pruned.
LEMMA CommitKeepsDeferred ==
    ASSUME IInv, BatchInv, DeferredInv, ThreadCommits
    PROVE  DeferredInv'
<1> USE EventAssumption
<1> DEFINE c == Head(inbox).commands
           early == {c[i] : i \in Early(c)}
<1>0. TypeOK /\ c \in Seq(Events) /\ StoreBatch(c) /\ fate' = fate
  BY CommittedBatch DEF IInv, ThreadCommits, runtimeVars
<1>1. PICK pruned \in SUBSET Prunable(c), taken \in SUBSET Parked(c) :
         /\ taken = Taken(c, Parked(c) \ pruned)
         /\ rows' = [r \in Records |-> IF r \in Contents(c) THEN InsertOrIgnore(rows[r])
                                                            ELSE rows[r]]
         /\ applied' = [t \in Traces |-> IF t \in Late(c) \union taken
                                           THEN applied[t] + 1 ELSE applied[t]]
         /\ pendingTraces' = (Parked(c) \ pruned) \ taken
         /\ replaced' = replaced \union (NotParked(c) \ TooLarge)
         /\ discarded' = discarded \union pruned \union (NotParked(c) \intersect TooLarge)
  BY <1>0, StoreBatchFacts
<1>2. /\ \A t \in early : t \in Contents(c) /\ ~(rows[Of[t]] > 0)
      /\ Parked(c) \subseteq pendingTraces \union early
      /\ NotParked(c) \subseteq pendingTraces \union early
      /\ Prunable(c) \subseteq Parked(c)
  BY <1>0, BatchTraces
<1>3. \A e \in Contents(c) : fate[e] = "accepted"
  BY CommittedIsAccepted
<1> HIDE DEF early, c
<1>4. discarded \subseteq discarded'
  BY <1>1
<1>5. ASSUME NEW t \in Deferred, t \in pendingTraces \union early
      PROVE  Of[t] \in discarded
  <2>1. CASE t \in pendingTraces
    BY <2>1 DEF DeferredInv
  <2>2. CASE t \in early
    <3>1. fate[t] \notin {"new", "refused"} /\ ~(rows[Of[t]] > 0)
      BY <1>2, <1>3, <2>2
    <3> QED BY <3>1 DEF DeferredInv, Recorded
  <2> QED BY <1>5, <2>1, <2>2
<1>6. ASSUME NEW t \in Deferred, t \in pendingTraces' \union replaced' \union discarded'
      PROVE  Of[t] \in discarded'
  <2>1. t \in replaced \union discarded \/ t \in pendingTraces \union early
    BY <1>1, <1>2, <1>6
  <2> QED BY <1>4, <1>5, <2>1 DEF DeferredInv
<1>7. ASSUME NEW r \in Records, Recorded(r) PROVE Recorded(r)'
  <2>1. rows[r] > 0 => rows'[r] > 0
    BY <1>0, <1>1 DEF InsertOrIgnore, TypeOK
  <2> QED BY <1>4, <1>7, <2>1 DEF Recorded
<1>8. \A t \in Deferred : fate'[t] \notin {"new", "refused"} => Recorded(Of[t])'
  BY <1>0, <1>7 DEF DeferredInv
<1> QED BY <1>6, <1>8 DEF DeferredInv

LEMMA DeferredInvKept == IInv /\ BatchInv /\ DeferredInv /\ [Next]_vars => DeferredInv'
<1> SUFFICES ASSUME IInv, BatchInv, DeferredInv, [Next]_vars PROVE DeferredInv'
  OBVIOUS
<1> USE EventAssumption
<1>1. CASE (\E r \in Records : EnqueueRecord(r)) \/ (\E t \in Traces : EnqueueTrace(t))
  BY <1>1, EnqueueKeepsDeferred
<1>2. CASE ThreadCommits
  BY <1>2, CommitKeepsDeferred
<1>3. CASE PruneOldRequestLogs
  <2>1. PICK old \in SUBSET {r \in Records : rows[r] > 0} :
           /\ rows' = [r \in Records |-> IF r \in old THEN 0 ELSE rows[r]]
           /\ discarded' = discarded \union old
    BY <1>3 DEF PruneOldRequestLogs
  <2>2. UNCHANGED <<fate, pendingTraces, replaced>>
    BY <1>3 DEF PruneOldRequestLogs, runtimeVars
  <2>3. \A r \in Records : Recorded(r) => Recorded(r)'
    BY <2>1 DEF Recorded
  <2>4. \A t \in Deferred : t \notin old /\ Of[t] \in Records
    OBVIOUS
  <2> QED BY <2>1, <2>2, <2>3, <2>4 DEF DeferredInv
<1>4. CASE /\ ~ \E r \in Records : EnqueueRecord(r)
           /\ ~ \E t \in Traces : EnqueueTrace(t)
           /\ UNCHANGED storeVars
  <2>1. ASSUME NEW t \in Deferred, fate'[t] \notin {"new", "refused"}
        PROVE  fate[t] \notin {"new", "refused"}
    <3>1. t \in Events
      BY DEF Events
    <3> QED BY <1>4, <2>1, <3>1, FateMoves
  <2> QED BY <1>4, <2>1 DEF storeVars, DeferredInv, Recorded
<1> QED BY <1>1, <1>2, <1>3, <1>4, StoreChanges

LEMMA DeferredInvHolds == Spec => []DeferredInv
<1>1. Init => DeferredInv
  BY EventAssumption DEF Init, DeferredInv, Events
<1> QED BY <1>1, Inductive, BatchInvHolds, DeferredInvKept, PTL DEF Spec

\* What handleWriterMessage acknowledges was written, for every number of
\* worker crashes, failed transactions, attempts of a record and days; and a
\* deferred trace, whose bundle is then deleted, was taken to its row.
THEOREM AcksAreDurable == Spec => []AckedIsStored
<1>1. ASSUME IInv, DeferredInv PROVE AckedIsStored
  <2>1. Written = Stored \union GivenUp
    BY <1>1, WrittenIs DEF IInv
  <2>2. ASSUME NEW t \in Deferred, fate[t] = "acked"
        PROVE  applied[t] > 0 \/ Of[t] \in discarded
    <3>1. t \in Events /\ t \in Traces /\ t \notin Records
      BY EventAssumption DEF Events
    <3>2. t \in Written
      BY <1>1, <2>2, <3>1 DEF IInv, AckedIsWritten
    <3> QED BY <1>1, <3>1, <3>2 DEF Written, DeferredInv
  <2> QED BY <1>1, <2>1, <2>2 DEF IInv, AckedIsWritten, AckedIsStored
<1> QED BY <1>1, Inductive, DeferredInvHolds, PTL

-----------------------------------------------------------------------------
(* Every step is a step of DurableLog or none.                             *)

Accepted == {e \in Events : fate[e] = "accepted"}

LEMMA EnqueueImplements ==
    ASSUME IInv,
           (\E r \in Records : EnqueueRecord(r)) \/ (\E t \in Traces : EnqueueTrace(t))
    PROVE  Log!Next
<1>1. Stored' = Stored /\ GivenUp' = GivenUp
  BY DEF EnqueueRecord, EnqueueTrace, storeVars, Stored, GivenUp
<1>2. PICK e \in Events : /\ fate[e] = "new"
                          /\ \/ fate' = [fate EXCEPT ![e] = "refused"]
                             \/ fate' = [fate EXCEPT ![e] = "accepted"]
  BY EventAssumption, ZenonT(60) DEF EnqueueRecord, EnqueueTrace, Events, Refuse, Offer
<1>3. CASE fate' = [fate EXCEPT ![e] = "refused"]
  <2>1. fate' = [d \in Events |-> IF d \in {e} THEN "refused" ELSE fate[d]]
    BY <1>3 DEF IInv, TypeOK
  <2> QED BY <1>1, <1>2, <2>1 DEF Log!Next, Log!Refuse, Log!Become
<1>4. CASE fate' = [fate EXCEPT ![e] = "accepted"]
  <2>1. fate' = [d \in Events |-> IF d \in {e} THEN "accepted" ELSE fate[d]]
    BY <1>4 DEF IInv, TypeOK
  <2> QED BY <1>1, <1>2, <2>1 DEF Log!Next, Log!Accept, Log!Become
<1> QED BY <1>2, <1>3, <1>4

\* pump sends a batch, or abandons it when the worker is gone.
LEMMA PumpSendsImplements ==
    ASSUME IInv, PumpSends
    PROVE  [Log!Next]_(Log!vars)
<1>1. Stored' = Stored /\ GivenUp' = GivenUp
  BY DEF PumpSends, storeVars, Stored, GivenUp
<1>2. CASE UNCHANGED fate
  BY <1>1, <1>2 DEF Log!vars
<1>3. ASSUME NEW n \in 1 .. Len(queue),
             fate' = [e \in Events |-> IF e \in EventsOf(SubSeq(queue, 1, n))
                                         THEN "abandoned" ELSE fate[e]]
      PROVE  Log!Next
  <2> DEFINE S == EventsOf(SubSeq(queue, 1, n))
  <2>1. S \subseteq EventsOf(queue)
    BY SplitEvents DEF IInv, TypeOK, NoneLost
  <2>2. fate' = [e \in Events |-> IF e \in S THEN "abandoned" ELSE fate[e]]
    BY <1>3
  <2> HIDE DEF S
  <2>3. S \in SUBSET Events /\ \A e \in S : fate[e] = "accepted"
    BY <2>1 DEF IInv, NoneLost, Outstanding
  <2> QED BY <1>1, <2>2, <2>3 DEF Log!Next, Log!Abandon, Log!AllAre, Log!Become
<1> QED BY <1>2, <1>3 DEF PumpSends

\* What an answer settles was accepted and, if it is an ack, stored.
LEMMA SettleImplements ==
    ASSUME IInv, NEW kind, NEW lo \in DOMAIN inFlight, NEW hi \in DOMAIN inFlight,
           Hears(kind, lo, hi), NEW outcome, Settle(lo, hi, outcome)
    PROVE  /\ EventsOf(SubSeq(inFlight, lo, hi)) \in SUBSET Accepted
           /\ Log!Become(EventsOf(SubSeq(inFlight, lo, hi)), outcome)
           /\ kind = "ack" => EventsOf(SubSeq(inFlight, lo, hi)) \subseteq Stored \union GivenUp
           /\ lo = hi => EventsOf(SubSeq(inFlight, lo, hi)) = {inFlight[lo].event}
<1> DEFINE S == EventsOf(SubSeq(inFlight, lo, hi))
<1>1. /\ inFlight \in Seq(Entry) /\ Distinct(inFlight)
      /\ lo \in 1 .. Len(inFlight) /\ hi \in lo .. Len(inFlight)
      /\ kind = "ack" => \A i \in lo .. hi : inFlight[i].event \in Written
  BY HearsKeeps DEF IInv, TypeOK, NoneLost
<1>0. Stored' = Stored /\ GivenUp' = GivenUp
  BY DEF Hears, storeVars, Stored, GivenUp
<1>2. S \subseteq EventsOf(inFlight)
  BY <1>1, CutEvents
<1>3. \A e \in S : \E i \in lo .. hi : inFlight[i].event = e
  BY <1>1, PartEntries
<1>4. fate' = [e \in Events |-> IF e \in S THEN outcome ELSE fate[e]]
  BY DEF Settle
<1>5. /\ S = BatchIn(inFlight, Head(mailbox).id)
      /\ inFlight[lo].batch = Head(mailbox).id
  <2>1. inFlight' = Without(lo, hi)
    BY DEF Settle
  <2>2. S = BatchIn(inFlight, Head(mailbox).id)
    BY <2>1, AnsweredInFlight
  <2>3. lo \in lo .. hi
    BY <1>1
  <2>4. inFlight[lo].batch = Head(mailbox).id
    BY <2>3 DEF Hears, IsBatch
  <2> QED BY <2>2, <2>4
<1> HIDE DEF S
<1>6. S \in SUBSET Accepted
  BY <1>2 DEF IInv, NoneLost, Outstanding, Accepted
<1>7. Log!Become(S, outcome)
  BY <1>0, <1>4 DEF Log!Become
<1>8. kind = "ack" => S \subseteq Stored \union GivenUp
  BY <1>1, <1>3, WrittenIs DEF IInv
<1>9. ASSUME lo = hi PROVE S = {inFlight[lo].event}
  <2>1. inFlight[lo].event \in S
    BY <1>5 DEF BatchIn
  <2>2. \A e \in S : e = inFlight[lo].event
    BY <1>1, <1>3, <1>9
  <2> QED BY <2>1, <2>2
<1> QED BY <1>6, <1>7, <1>8, <1>9 DEF S

LEMMA HandleAckImplements ==
    ASSUME IInv, NEW lo \in DOMAIN inFlight, NEW hi \in DOMAIN inFlight,
           HandleAck(lo, hi)
    PROVE  Log!Next
<1> DEFINE S == EventsOf(SubSeq(inFlight, lo, hi))
<1>1. S \in SUBSET Accepted /\ Log!Become(S, "acked") /\ S \subseteq Stored \union GivenUp
  BY SettleImplements DEF HandleAck
<1> HIDE DEF S
<1>2. S \in SUBSET Events /\ Log!Acknowledge(S)
  BY <1>1 DEF Accepted, Log!Acknowledge, Log!AllAre
<1> QED BY <1>2 DEF Log!Next

LEMMA HandleBatchErrorImplements ==
    ASSUME IInv, NEW lo \in DOMAIN inFlight, NEW hi \in DOMAIN inFlight,
           HandleBatchError(lo, hi)
    PROVE  [Log!Next]_(Log!vars)
<1>1. Hears("batch-error", lo, hi)
  BY DEF HandleBatchError
<1>2. CASE PutBack(lo, hi)
  BY <1>1, <1>2 DEF PutBack, Hears, storeVars, Stored, GivenUp, Log!vars
<1>3. CASE lo = hi /\ Settle(lo, hi, "dropped")
  <2> DEFINE S == EventsOf(SubSeq(inFlight, lo, hi))
             e == inFlight[lo].event
  <2>1. S \in SUBSET Accepted /\ Log!Become(S, "dropped") /\ S = {e}
    BY <1>1, <1>3, SettleImplements
  <2> HIDE DEF S, e
  <2>2. e \in Events /\ Log!Drop(e)
    BY <2>1 DEF Accepted, Log!Drop
  <2> QED BY <2>2 DEF Log!Next
<1> QED BY <1>2, <1>3 DEF HandleBatchError

\* What a transaction makes of the stored and the given up: it stores the
\* batch, except weak events and those whose record was given up.
LEMMA StoresAndLeaves ==
    ASSUME TypeOK, StoreInv, DeferredInv', NEW c \in Seq(Events), StoreBatch(c)
    PROVE  \E G \in SUBSET (Log!Expendable \intersect (Stored \union Contents(c))) :
              /\ Stored' = (Stored \union Contents(c)) \ G
              /\ GivenUp' = GivenUp \union G
<1> USE EventAssumption
<1> DEFINE early == {c[i] : i \in Early(c)}
           all == Stored \union Contents(c)
           G == all \ Stored'
<1>1. PICK pruned \in SUBSET Prunable(c), taken \in SUBSET Parked(c) :
         /\ taken = Taken(c, Parked(c) \ pruned)
         /\ rows' = [r \in Records |-> IF r \in Contents(c) THEN InsertOrIgnore(rows[r])
                                                            ELSE rows[r]]
         /\ applied' = [t \in Traces |-> IF t \in Late(c) \union taken
                                           THEN applied[t] + 1 ELSE applied[t]]
         /\ pendingTraces' = (Parked(c) \ pruned) \ taken
         /\ replaced' = replaced \union (NotParked(c) \ TooLarge)
         /\ discarded' = discarded \union pruned \union (NotParked(c) \intersect TooLarge)
  BY StoreBatchFacts
<1>2. /\ Contents(c) \in SUBSET Events
      /\ \A t \in early : t \in Traces \intersect Contents(c) /\ applied[t] = 0
      /\ Late(c) \subseteq Traces \intersect Contents(c)
      /\ Parked(c) \subseteq pendingTraces \union early
      /\ NotParked(c) \subseteq pendingTraces \union early
      /\ Prunable(c) \subseteq Parked(c)
      /\ Parked(c) \intersect Late(c) = {} /\ NotParked(c) \intersect Late(c) = {}
      /\ Parked(c) \intersect NotParked(c) = {}
  BY BatchTraces
<1> HIDE DEF early
<1>3. /\ rows \in [Records -> Nat] /\ applied \in [Traces -> Nat]
      /\ pendingTraces \subseteq Traces /\ replaced \subseteq Traces /\ discarded \subseteq Events
      /\ \A t \in pendingTraces : applied[t] = 0
  BY DEF TypeOK, StoreInv
<1>4. /\ pendingTraces \subseteq Stored
      /\ Parked(c) \union NotParked(c) \subseteq all \intersect Traces
      /\ \A t \in Parked(c) \union NotParked(c) : applied[t] = 0
  <2>1. pendingTraces \subseteq Stored
    BY DEF Stored
  <2> QED BY <1>2, <1>3, <2>1
<1>5. \A r \in Records : rows'[r] > 0 <=> rows[r] > 0 \/ r \in Contents(c)
  BY <1>1, <1>3 DEF InsertOrIgnore
<1>6. /\ \A t \in Traces : applied'[t] > 0 <=> applied[t] > 0 \/ t \in Late(c) \union taken
      /\ \A t \in Traces : t \notin Late(c) \union taken => applied'[t] = applied[t]
  BY <1>1, <1>3
<1>7. \A r \in Records : r \in discarded' <=> r \in discarded
  BY <1>1, <1>2, <1>4
<1>8. all \subseteq Stored' \union GivenUp'
  <2>1. Stored \subseteq Written /\ Written \subseteq Written' /\ Contents(c) \subseteq Written'
    BY WrittenIs, StoreBatchStores
  <2>2. Written' \subseteq Stored' \union GivenUp'
    BY DEF Written, Stored, GivenUp
  <2> QED BY <2>1, <2>2
<1>9. Stored' \subseteq all
  <2>1. ASSUME NEW r \in Records, rows'[r] > 0 PROVE r \in all
    BY <1>5, <2>1 DEF Stored
  <2>2. pendingTraces' \subseteq all
    BY <1>1, <1>4
  <2>3. ASSUME NEW t \in Traces, applied'[t] > 0, Of[t] \notin discarded' PROVE t \in all
    <3>1. CASE applied[t] > 0
      <4>1. Of[t] \notin discarded
        BY <1>1, <2>3
      <4> QED BY <3>1, <4>1 DEF Stored
    <3>2. CASE t \in Late(c) \union taken
      BY <1>2, <1>4, <3>2
    <3> QED BY <1>6, <2>3, <3>1, <3>2
  <2> QED BY <2>1, <2>2, <2>3 DEF Stored
<1>10. GivenUp \subseteq GivenUp'
  BY <1>1, <1>6 DEF GivenUp
<1>11. \A t \in pruned \union NotParked(c) : t \in all /\ t \notin Stored'
  <2>1. \A t \in pruned \union NotParked(c) :
           t \in all /\ t \in Traces /\ t \notin Records /\ applied[t] = 0
           /\ t \notin taken /\ t \notin Late(c) /\ t \notin pendingTraces'
    BY <1>1, <1>2, <1>4 DEF Taken
  <2>2. \A t \in pruned \union NotParked(c) : ~(applied'[t] > 0)
    BY <1>6, <2>1
  <2> QED BY <2>1, <2>2 DEF Stored
<1>12. \A t \in Late(c) \union taken : t \in all /\ t \in Traces /\ t \notin pendingTraces'
  BY <1>1, <1>2, <1>4
<1>13. GivenUp' \subseteq GivenUp \union G
  <2>1. ASSUME NEW e \in replaced' \union discarded' PROVE e \in GivenUp \union G
    BY <1>1, <1>11, <2>1 DEF GivenUp
  <2>2. ASSUME NEW t \in Traces, applied'[t] > 0, Of[t] \in discarded'
        PROVE  t \in GivenUp \union G
    <3>1. Of[t] \in discarded
      BY <1>7, <2>2
    <3>2. CASE applied[t] > 0
      BY <3>1, <3>2 DEF GivenUp
    <3>3. CASE t \in Late(c) \union taken
      <4>1. t \in all /\ t \notin pendingTraces' /\ t \notin Records
        BY <1>12, <3>3
      <4>2. t \notin Stored'
        BY <2>2, <4>1 DEF Stored
      <4> QED BY <4>1, <4>2
    <3> QED BY <1>6, <2>2, <3>2, <3>3
  <2> QED BY <2>1, <2>2 DEF GivenUp
<1>14. ASSUME NEW e \in G PROVE e \in Log!Expendable
  <2>1. e \notin Stored' /\ e \in GivenUp'
    BY <1>8
  <2>2. e \in Events
    BY <1>2, <1>3 DEF Stored, Events
  <2>3. e \notin Records
    <3>1. e \in Records => rows[e] > 0 \/ e \in Contents(c)
      BY <1>3 DEF Stored
    <3> QED BY <1>5, <2>1, <3>1 DEF Stored
  <2>4. e \in Traces /\ Owner[e] = Of[e] /\ Of[e] \in Records
    BY <2>2, <2>3 DEF Owner, Events
  <2>5. CASE e \in Traces \ Deferred
    BY <2>2, <2>5 DEF Log!Expendable
  <2>6. CASE e \in Deferred
    <3>1. Of[e] \in discarded'
      BY <2>1, <2>6 DEF GivenUp, DeferredInv
    <3>2. Of[e] \in GivenUp
      BY <1>7, <2>4, <3>1 DEF GivenUp
    <3> QED BY <2>2, <2>4, <3>2 DEF Log!Expendable
  <2> QED BY <2>4, <2>5, <2>6
<1>15. Stored' = all \ G
  BY <1>9
<1>16. GivenUp' = GivenUp \union G
  BY <1>8, <1>10, <1>13
<1>17. G \in SUBSET (Log!Expendable \intersect all)
  BY <1>14
<1> QED BY <1>15, <1>16, <1>17

LEMMA CommitImplements ==
    ASSUME IInv, BatchInv, StoreInv, DeferredInv', ThreadCommits
    PROVE  Log!Next
<1> DEFINE c == Head(inbox).commands
           S == Contents(c)
<1>1. TypeOK /\ c \in Seq(Events) /\ StoreBatch(c) /\ fate' = fate
  BY CommittedBatch DEF IInv, ThreadCommits, runtimeVars
<1>2. \A e \in S : e \in Events /\ fate[e] = "accepted"
  BY CommittedIsAccepted
<1> HIDE DEF c
<1>3. PICK G \in SUBSET (Log!Expendable \intersect (Stored \union S)) :
          Stored' = (Stored \union S) \ G /\ GivenUp' = GivenUp \union G
  BY <1>1, StoresAndLeaves
<1> HIDE DEF S
<1>4. Log!Leave(Stored \union S, G)
  BY <1>1, <1>3 DEF Log!Leave
<1>5. S \in SUBSET Events /\ Log!Store(S)
  BY <1>2, <1>3, <1>4 DEF Log!Store, Log!AllAre
<1> QED BY <1>5 DEF Log!Next

\* The end of a day takes the records of that day and the traces at their rows.
LEMMA PruneImplements ==
    ASSUME IInv, StoreInv, PruneOldRequestLogs
    PROVE  Log!Next
<1> USE EventAssumption
<1>1. PICK old \in SUBSET {r \in Records : rows[r] > 0} :
         /\ rows' = [r \in Records |-> IF r \in old THEN 0 ELSE rows[r]]
         /\ discarded' = discarded \union old
  BY DEF PruneOldRequestLogs
<1>2. UNCHANGED <<fate, pendingTraces, applied, replaced>>
  BY DEF PruneOldRequestLogs, runtimeVars
<1> DEFINE G == {e \in Stored : Owner[e] \in old}
<1>3. /\ \A r \in Records : r \in Events /\ Owner[r] = r
      /\ \A t \in Traces : t \in Events /\ t \notin Records /\ t \notin old /\ Owner[t] = Of[t]
                           /\ Of[t] \in Records
  BY DEF Owner, Events
<1>4. /\ pendingTraces \subseteq Traces
      /\ \A t \in pendingTraces : applied[t] = 0 /\ Of[t] \notin old
  BY <1>1, <1>3 DEF StoreInv
<1>5. \A r \in Records : rows'[r] > 0 <=> rows[r] > 0 /\ r \notin old
  BY <1>1 DEF IInv, TypeOK
<1>6. Stored' = Stored \ G
  BY <1>1, <1>2, <1>3, <1>4, <1>5 DEF Stored
<1>7. GivenUp' = GivenUp \union G
  BY <1>1, <1>2, <1>3, <1>4 DEF Stored, GivenUp
<1>8. old \subseteq Stored /\ old \in SUBSET Events
  BY <1>1, <1>3 DEF Stored
<1> HIDE DEF G
<1>9. Log!Leave(Stored, G)
  BY <1>2, <1>6, <1>7 DEF Log!Leave
<1>10. Log!Expire(old)
  BY <1>8, <1>9 DEF G, Log!Expire
<1> QED BY <1>8, <1>10 DEF Log!Next

LEMMA StepImplements ==
    ASSUME IInv, BatchInv, StoreInv, DeferredInv', [Next]_vars
    PROVE  [Log!Next]_(Log!vars)
<1>1. CASE \/ FlushTimerFires \/ PumpEnters \/ Kick \/ WriterReady
           \/ IgnoreStaleAnswer \/ HandleWriterFailure \/ RestartTimerFires
           \/ Close \/ FinishClose \/ ThreadAcks \/ ThreadRejects \/ ThreadDies
           \/ UNCHANGED vars
  <2>1. UNCHANGED <<fate, storeVars>>
    BY <1>1 DEF FlushTimerFires, PumpEnters, Kick, WriterReady, IgnoreStaleAnswer,
       HandleWriterFailure, RestartTimerFires, Close, FinishClose, ThreadAcks,
       ThreadRejects, ThreadDies, vars, runtimeVars
  <2> QED BY <2>1 DEF Log!vars, Stored, GivenUp, storeVars
<1> QED BY <1>1, EnqueueImplements, PumpSendsImplements, HandleAckImplements,
       HandleBatchErrorImplements, CommitImplements, PruneImplements DEF Next

LEMMA InitImplements == Init => Log!Init
BY EventAssumption DEF Init, Log!Init, Stored, GivenUp

\* What a caller relies on: enqueue, batching, splitting, replays, worker
\* crashes and pruning show it nothing but a log that accepts, stores,
\* acknowledges, drops or, once closed, abandons events, and gives up what is
\* stored only when it is weak or its record grows old.
THEOREM QueueImplementsLog == Spec => ImplementsDurableLog
<1>1. Spec => [](IInv /\ BatchInv /\ StoreInv /\ DeferredInv)
  BY Inductive, BatchInvHolds, StoreInvHolds, DeferredInvHolds, PTL
<1> QED BY <1>1, InitImplements, StepImplements, PTL DEF Spec, ImplementsDurableLog, Log!Spec

=============================================================================
