-------------------------- MODULE MediaJobsProofs --------------------------
(***************************************************************************)
(* Proofs about MediaJobs: the limits on the runs, the requests of a job   *)
(* or an idempotency key, and what becomes of a finished or interrupted    *)
(* job.                                                                    *)
(*                                                                         *)
(* Most handlers change memory, queue and active and then call schedule(). *)
(* The invariant is therefore an operator, Sound, of the memory, file,     *)
(* queue, active jobs and runs it is said of: a handler is shown to leave  *)
(* something sound, and schedule() to make a sound state of it.            *)
(***************************************************************************)
EXTENDS MediaJobs, OrderLemmas, FiniteSetTheorems, SequenceTheorems, TLAPS

-----------------------------------------------------------------------------
(* The invariant.                                                          *)

Statuses == {"queued", "running", "succeeded", "failed", "canceled"}
JobSet == [status : {"absent"} \union Statuses, remote : BOOLEAN]
RunSet == [pc : {"none", "post", "poll", "pause", "download"},
           attempt : 0 .. Attempts, aborted : BOOLEAN]

\* A run is of a running job, or was aborted by the cancellation of its job; a
\* job is in the queue or active, not both.  What a restart must not undo is in
\* the file: a posted job is known there, and one that may yet be resumed or
\* run is not failed there.
JobOK(j, m, f, q, act, r, p, sp) ==
    /\ j \in Images => ~m[j].remote /\ ~f[j].remote
    /\ r[j].pc # "none" =>
         /\ j \in act /\ f[j].status # "failed"
         /\ m[j].status = "running" \/ (m[j].status = "canceled" /\ r[j].aborted)
    /\ r[j].pc = "none" => ~r[j].aborted
    /\ r[j].pc = "pause" => r[j].attempt \in 1 .. Attempts - 1
    /\ j \in act => m[j].status # "absent" /\ j \notin Queued(q)
    /\ j \in Queued(q) => m[j].status \in {"queued", "running", "canceled"} /\ f[j].status # "failed"
    /\ Resumable(m, j) => f[j].status # "failed"
    /\ Finished(m, j) /\ j \notin sp => f[j].status = m[j].status
    /\ p[j] \in 0 .. Attempts
    /\ r[j].pc # "none" /\ r[j].attempt > 0 => p[j] = r[j].attempt
    /\ p[j] > 0 => m[j].status # "absent" /\ f[j].status # "absent"

\* A queued job was not posted, unless it is to be resumed.
ItemOK(x, m, p, sp) ==
    IF x.resume THEN Resumable(m, x.job)
    ELSE /\ p[x.job] = 0 /\ ~m[x.job].remote
         /\ m[x.job].status \in {"queued", "canceled"}
         /\ sp = {} => m[x.job].status = "queued"

\* No key has two jobs, in memory or in the file.
SameKey(j, k) == j # k /\ Kind(j) = Kind(k) /\ Key[j] = Key[k] /\ Key[j] # None
KeysOK(m) == \A j, k \in Jobs : SameKey(j, k) => m[j].status = "absent" \/ m[k].status = "absent"

SlotsOK(act) ==
    /\ Cardinality(act \intersect Images) <= MaxImages
    /\ Cardinality(act \intersect Videos) <= MaxVideos

Sound(m, f, q, act, r, p, sp) ==
    /\ m \in [Jobs -> JobSet] /\ f \in [Jobs -> JobSet]
    /\ q \in Seq(Item) /\ act \in SUBSET Jobs /\ r \in [Jobs -> RunSet]
    /\ p \in [Jobs -> Nat] /\ sp \in SUBSET Jobs
    /\ \A j \in Jobs : JobOK(j, m, f, q, act, r, p, sp)
    /\ \A x \in ToSet(q) : ItemOK(x, m, p, sp)
    /\ KeysOK(m) /\ KeysOK(f) /\ SlotsOK(act)

\* No active job is without a run, and no unfinished or awaited job without an
\* entry of the queue or a run.
Served(m, q, act, r, com, w, on) ==
    /\ \A j \in act : r[j].pc # "none"
    /\ on => \A j \in Jobs : Unfinished(m, j) => j \in Queued(q) \/ r[j].pc # "none"
    /\ \A c \in Images : w[c] # None =>
         /\ w[c] \in com
         /\ w[c] \in Queued(q) \/ r[w[c]].pc # "none"

\* Nothing is active before the first start, and stop() aborts what still runs.
ServiceOK(act, r, up, down, ending) ==
    /\ up => ~down
    /\ ending => down
    /\ up \/ down \/ act = {}
    /\ down => \A j \in Jobs : r[j].pc # "none" => r[j].aborted

RestOK ==
    /\ {running, stopping, halting, enabled, gateway} \subseteq BOOLEAN
    /\ completions \subseteq Jobs
    /\ waits \in [Images -> Jobs \union {None}]
    /\ trouble \in 0 .. MaxTrouble

MediaInv ==
    /\ RestOK
    /\ Sound(jobs, file, queue, active, run, posted, spoiled)
    /\ ServiceOK(active, run, running, stopping, halting)
    /\ spoiled = {} => Served(jobs, queue, active, run, completions, waits, running /\ enabled)

-----------------------------------------------------------------------------
(* The operators of the model.                                             *)

\* The jobs in the queue are those of its entries.
LEMMA QueuedEntries ==
    ASSUME NEW q \in Seq(Item)
    PROVE  /\ \A j : j \in Queued(q) <=> \E x \in ToSet(q) : x.job = j
           /\ Queued(q) \in SUBSET Jobs
           /\ \A x \in ToSet(q) : x \in Item /\ x.job \in Jobs /\ x.resume \in BOOLEAN
<1>1. DOMAIN q = 1 .. Len(q) /\ \A i \in DOMAIN q : q[i] \in Item
  BY LenProperties, ElementOfSeq
<1>2. \A x \in Item : x.job \in Jobs /\ x.resume \in BOOLEAN
  BY DEF Item
<1>3. \A x \in ToSet(q) : x \in Item
  BY <1>1 DEF ToSet
<1>4. \A j : j \in Queued(q) <=> \E x \in ToSet(q) : x.job = j
  BY DEF Queued, ToSet
<1> QED BY <1>2, <1>3, <1>4

LEMMA PositionOfQueued ==
    ASSUME NEW q \in Seq(Item), NEW j \in Queued(q)
    PROVE  /\ Position(q, j) \in DOMAIN q /\ q[Position(q, j)].job = j
           /\ q[Position(q, j)] \in ToSet(q)
<1>1. \E i \in DOMAIN q : q[i].job = j
  BY DEF Queued
<1>2. Position(q, j) \in DOMAIN q /\ q[Position(q, j)].job = j
  BY <1>1 DEF Position
<1> QED BY <1>2 DEF ToSet

LEMMA WithoutJobs ==
    ASSUME NEW q \in Seq(Item), NEW S
    PROVE  /\ Without(q, S) \in Seq(Item)
           /\ \A x : x \in ToSet(Without(q, S)) <=> x \in ToSet(q) /\ x.job \notin S
           /\ \A j : j \in Queued(Without(q, S)) <=> j \in Queued(q) /\ j \notin S
<1> DEFINE T == {x \in Item : x.job \notin S}
<1>1. Without(q, S) = Only(q, T)
  BY DEF Without
<1> HIDE DEF T
<1>2. /\ Only(q, T) \in Seq(Item)
      /\ \A k \in DOMAIN Only(q, T) : Only(q, T)[k] \in T /\ \E i \in DOMAIN q : Only(q, T)[k] = q[i]
      /\ \A i \in DOMAIN q : q[i] \in T => \E k \in DOMAIN Only(q, T) : Only(q, T)[k] = q[i]
  BY OnlyKeeps
<1>3. \A x \in Item : x \in T <=> x.job \notin S
  BY DEF T
<1>5. \A x \in ToSet(q) : x \in Item
  BY QueuedEntries
<1>6. \A x : x \in ToSet(Without(q, S)) <=> x \in ToSet(q) /\ x.job \notin S
  <2>1. ASSUME NEW x \in ToSet(Without(q, S)) PROVE x \in ToSet(q) /\ x.job \notin S
    <3>1. PICK k \in DOMAIN Only(q, T) : Only(q, T)[k] = x
      BY <1>1 DEF ToSet
    <3>2. x \in T /\ \E i \in DOMAIN q : q[i] = x
      BY <1>2, <3>1
    <3>3. x \in ToSet(q)
      BY <3>2 DEF ToSet
    <3> QED BY <1>3, <1>5, <3>2, <3>3
  <2>2. ASSUME NEW x \in ToSet(q), x.job \notin S PROVE x \in ToSet(Without(q, S))
    <3>1. PICK i \in DOMAIN q : q[i] = x
      BY DEF ToSet
    <3>2. x \in T
      BY <1>3, <1>5, <2>2
    <3>3. PICK k \in DOMAIN Only(q, T) : Only(q, T)[k] = x
      BY <1>2, <3>1, <3>2
    <3> QED BY <1>1, <3>3 DEF ToSet
  <2> QED BY <2>1, <2>2
<1>7. \A j : j \in Queued(Without(q, S)) <=> j \in Queued(q) /\ j \notin S
  BY <1>1, <1>2, <1>6, QueuedEntries
<1> QED BY <1>1, <1>2, <1>6, <1>7

LEMMA AppendedJob ==
    ASSUME NEW q \in Seq(Item), NEW x \in Item
    PROVE  /\ Append(q, x) \in Seq(Item)
           /\ \A y : y \in ToSet(Append(q, x)) <=> y \in ToSet(q) \/ y = x
           /\ \A j : j \in Queued(Append(q, x)) <=> j \in Queued(q) \/ j = x.job
<1>1. /\ Append(q, x) \in Seq(Item) /\ Len(Append(q, x)) = Len(q) + 1
      /\ \A i \in 1 .. Len(q) : Append(q, x)[i] = q[i]
      /\ Append(q, x)[Len(q) + 1] = x
  BY AppendProperties
<1>2. /\ DOMAIN q = 1 .. Len(q) /\ Len(q) \in Nat
      /\ DOMAIN Append(q, x) = 1 .. Len(q) + 1
  BY <1>1, LenProperties
<1>3. \A y : y \in ToSet(Append(q, x)) <=> y \in ToSet(q) \/ y = x
  BY <1>1, <1>2 DEF ToSet
<1>4. \A j : j \in Queued(Append(q, x)) <=> j \in Queued(q) \/ j = x.job
  <2>1. \A j : j \in Queued(q) <=> \E y \in ToSet(q) : y.job = j
    BY QueuedEntries
  <2>2. \A j : j \in Queued(Append(q, x)) <=> \E y \in ToSet(Append(q, x)) : y.job = j
    BY <1>1, QueuedEntries
  <2> QED BY <1>3, <2>1, <2>2
<1> QED BY <1>1, <1>3, <1>4

LEMMA JoinedQueues ==
    ASSUME NEW q \in Seq(Item), NEW t \in Seq(Item)
    PROVE  /\ q \o t \in Seq(Item)
           /\ \A y : y \in ToSet(q \o t) <=> y \in ToSet(q) \/ y \in ToSet(t)
           /\ \A j : j \in Queued(q \o t) <=> j \in Queued(q) \/ j \in Queued(t)
<1>1. /\ q \o t \in Seq(Item) /\ Len(q \o t) = Len(q) + Len(t)
      /\ \A i \in 1 .. Len(q) + Len(t) :
            (q \o t)[i] = IF i <= Len(q) THEN q[i] ELSE t[i - Len(q)]
  BY ConcatProperties
<1>2. /\ DOMAIN q = 1 .. Len(q) /\ Len(q) \in Nat
      /\ DOMAIN t = 1 .. Len(t) /\ Len(t) \in Nat
      /\ DOMAIN (q \o t) = 1 .. Len(q) + Len(t)
  BY <1>1, LenProperties
<1> DEFINE u == q \o t
<1> HIDE DEF u
<1>3. ASSUME NEW y \in ToSet(u) PROVE y \in ToSet(q) \/ y \in ToSet(t)
  <2>1. PICK i \in 1 .. Len(q) + Len(t) : y = u[i]
    BY <1>2 DEF ToSet, u
  <2>2. y = IF i <= Len(q) THEN q[i] ELSE t[i - Len(q)]
    BY <1>1, <2>1 DEF u
  <2>3. CASE i <= Len(q)
    BY <1>2, <2>2, <2>3 DEF ToSet
  <2>4. CASE ~(i <= Len(q))
    <3>1. i - Len(q) \in DOMAIN t
      BY <1>2, <2>4
    <3> QED BY <2>2, <2>4, <3>1 DEF ToSet
  <2> QED BY <2>3, <2>4
<1>4. ASSUME NEW y \in ToSet(q) PROVE y \in ToSet(u)
  <2>1. PICK i \in DOMAIN q : y = q[i]
    BY DEF ToSet
  <2>2. i \in 1 .. Len(q) + Len(t) /\ i <= Len(q)
    BY <1>2
  <2>3. u[i] = q[i] /\ i \in DOMAIN u
    BY <1>1, <1>2, <2>2 DEF u
  <2> QED BY <2>1, <2>3 DEF ToSet
<1>5. ASSUME NEW y \in ToSet(t) PROVE y \in ToSet(u)
  <2>1. PICK i \in DOMAIN t : y = t[i]
    BY DEF ToSet
  <2>2. /\ i + Len(q) \in 1 .. Len(q) + Len(t) /\ ~(i + Len(q) <= Len(q))
        /\ (i + Len(q)) - Len(q) = i
    BY <1>2
  <2>3. u[i + Len(q)] = t[i] /\ i + Len(q) \in DOMAIN u
    BY <1>1, <1>2, <2>2 DEF u
  <2> QED BY <2>1, <2>3 DEF ToSet
<1>6. \A y : y \in ToSet(u) <=> y \in ToSet(q) \/ y \in ToSet(t)
  BY <1>3, <1>4, <1>5
<1>7. \A j : j \in Queued(u) <=> j \in Queued(q) \/ j \in Queued(t)
  <2>1. u \in Seq(Item)
    BY <1>1 DEF u
  <2> QED BY <1>6, <2>1, QueuedEntries
<1> QED BY <1>1, <1>6, <1>7 DEF u

LEMMA WithStatus ==
    ASSUME NEW m \in [Jobs -> JobSet], NEW S,
           NEW s \in Statuses
    PROVE  /\ With(m, S, s) \in [Jobs -> JobSet]
           /\ \A j \in Jobs : j \in S =>
                 With(m, S, s)[j].status = s /\ With(m, S, s)[j].remote = m[j].remote
           /\ \A j \in Jobs : j \notin S => With(m, S, s)[j] = m[j]
<1>1. ASSUME NEW j \in Jobs
      PROVE  LET w == [m[j] EXCEPT !.status = s] IN
             w \in JobSet /\ w.status = s /\ w.remote = m[j].remote
  <2>1. m[j] \in JobSet
    OBVIOUS
  <2> QED BY <2>1 DEF JobSet, Statuses
<1> QED BY <1>1 DEF With


\* What schedule() starts of one kind fits beside what runs already: the
\* condition was tested at the last job of that kind it starts.
LEMMA AdmittedOfKind ==
    ASSUME NEW q \in Seq(Item), NEW act \in SUBSET Jobs, IsFiniteSet(Jobs),
           NEW kind \in SUBSET Jobs, NEW limit \in Nat,
           \A j \in kind : Kind(j) = kind /\ Limit(j) = limit,
           Cardinality(act \intersect kind) <= limit
    PROVE  Cardinality((act \union Admitted(q, act)) \intersect kind) <= limit
<1> DEFINE Begin == Admitted(q, act) \intersect kind
           P == {i \in DOMAIN q : HasCapacity(q, i, act) /\ q[i].job \in kind}
<1>1. DOMAIN q = 1 .. Len(q) /\ Len(q) \in Nat
  BY LenProperties
<1>2. \A j \in Begin : \E i \in P : j = q[i].job
  BY DEF Admitted
<1>3. CASE P = {}
  <2>1. (act \union Admitted(q, act)) \intersect kind = act \intersect kind
    BY <1>2, <1>3
  <2> QED BY <2>1
<1>4. CASE P # {}
  <2>1. IsFiniteSet(P) /\ P \subseteq Int
    <3>1. P \subseteq 1 .. Len(q) /\ IsFiniteSet(1 .. Len(q))
      BY <1>1, FS_Interval
    <3> QED BY <3>1, FS_Subset
  <2>2. PICK i \in P : \A k \in P : k <= i
    BY <1>4, <2>1, GreatestNumber
  <2> DEFINE X == act \intersect kind
             Y == kind \intersect Queued(SubSeq(q, 1, i))
  <2>3. Kind(q[i].job) = kind /\ Limit(q[i].job) = limit /\ i \in 1 .. Len(q)
    BY <1>1, <2>2
  <2>4. Cardinality(X) + Cardinality(Y) <= limit
    <3>1. HasCapacity(q, i, act)
      BY <2>2
    <3> QED BY <2>3, <3>1 DEF HasCapacity
  <2>5. Begin \subseteq Y
    <3> SUFFICES ASSUME NEW j \in Begin PROVE j \in Queued(SubSeq(q, 1, i))
      OBVIOUS
    <3>1. PICK k \in P : j = q[k].job
      BY <1>2
    <3>2. k \in 1 .. i
      BY <1>1, <2>1, <2>2, <2>3
    <3>3. DOMAIN SubSeq(q, 1, i) = 1 .. i /\ SubSeq(q, 1, i)[k] = q[k]
      <4>1. /\ SubSeq(q, 1, i) \in Seq(Item) /\ Len(SubSeq(q, 1, i)) = i
            /\ \A n \in 1 .. i : SubSeq(q, 1, i)[n] = q[1 + n - 1]
        BY <1>1, <2>3, SubSeqProperties
      <4> QED BY <3>2, <4>1, LenProperties
    <3> QED BY <3>1, <3>2, <3>3 DEF Queued
  <2>6. IsFiniteSet(X) /\ IsFiniteSet(Y)
    BY FS_Subset
  <2> HIDE DEF X, Y
  <2>7. /\ IsFiniteSet(X \union Y) /\ IsFiniteSet(X \intersect Y)
        /\ Cardinality(X \union Y) = Cardinality(X) + Cardinality(Y) - Cardinality(X \intersect Y)
    BY <2>6, FS_Union, FS_Intersection
  <2>8. (act \union Admitted(q, act)) \intersect kind \in SUBSET (X \union Y)
    BY <2>5 DEF X
  <2>9. Cardinality((act \union Admitted(q, act)) \intersect kind) <= Cardinality(X \union Y)
    BY <2>7, <2>8, FS_Subset
  <2>10. /\ Cardinality(X) \in Nat /\ Cardinality(Y) \in Nat
         /\ Cardinality(X \intersect Y) \in Nat /\ Cardinality(X \union Y) \in Nat
         /\ Cardinality((act \union Admitted(q, act)) \intersect kind) \in Nat
    BY <2>6, <2>7, <2>8, FS_Subset, FS_CardinalityType
  <2> QED BY <2>4, <2>7, <2>9, <2>10
<1> QED BY <1>3, <1>4

LEMMA KindsAndLimits ==
    ASSUME MediaAssumption
    PROVE  /\ \A j \in Images : Kind(j) = Images /\ Limit(j) = MaxImages
           /\ \A j \in Videos : Kind(j) = Videos /\ Limit(j) = MaxVideos
           /\ IsFiniteSet(Jobs) /\ Images \in SUBSET Jobs /\ Videos \in SUBSET Jobs
           /\ MaxImages \in Nat /\ MaxVideos \in Nat
BY DEF MediaAssumption, Kind, Limit, Jobs

LEMMA AdmittedWithinLimits ==
    ASSUME MediaAssumption, NEW q \in Seq(Item), NEW act \in SUBSET Jobs, SlotsOK(act)
    PROVE  Admitted(q, act) \in SUBSET Queued(q) /\ SlotsOK(act \union Admitted(q, act))
<1>1. Admitted(q, act) \in SUBSET Queued(q)
  BY DEF Admitted, Queued
<1>2. SlotsOK(act \union Admitted(q, act))
  BY KindsAndLimits, AdmittedOfKind DEF SlotsOK
<1> QED BY <1>1, <1>2

-----------------------------------------------------------------------------
(* schedule().                                                             *)

Going(q, act) == IF running' /\ enabled' THEN Admitted(q, act) ELSE {}

\* What schedule() does, job by job, if the file holds f before.
Scheduled(m, f, q, act, r, bad, go) ==
    /\ bad \in SUBSET go /\ go \in SUBSET Queued(q) /\ go \in SUBSET Jobs
    /\ go # {} => running' /\ enabled'
    /\ queue' = Without(q, go)
    /\ active' = act \union go /\ SlotsOK(active')
    /\ jobs' \in [Jobs -> JobSet] /\ file' \in [Jobs -> JobSet]
    /\ run' \in [Jobs -> RunSet] /\ posted' \in [Jobs -> Nat]
    /\ \A j \in go : jobs'[j].status = "running" /\ jobs'[j].remote = m[j].remote
    /\ \A j \in Jobs : j \notin go => jobs'[j] = m[j]
    /\ file' = f \/ \A j \in Jobs : file'[j] \in {m[j], jobs'[j]}
    /\ \A j \in go \ bad :
          /\ file'[j] = jobs'[j]
          /\ \E x \in ToSet(q) :
               /\ x.job = j /\ run'[j] = Begun(x)
               /\ posted'[j] = IF x.resume THEN posted[j] ELSE posted[j] + 1
    /\ \A j \in Jobs : j \notin go \ bad => run'[j] = r[j] /\ posted'[j] = posted[j]

LEMMA ScheduledJobs ==
    ASSUME MediaAssumption, NEW m \in [Jobs -> JobSet], NEW wrote \in BOOLEAN,
           file \in [Jobs -> JobSet], NEW q \in Seq(Item), NEW act \in SUBSET Jobs,
           NEW r \in [Jobs -> RunSet], posted \in [Jobs -> Nat], SlotsOK(act), NEW bad,
           Schedule(m, wrote, q, act, r, bad)
    PROVE  Scheduled(m, IF wrote THEN m ELSE file, q, act, r, bad, Going(q, act))
<1> PICK go : go = Going(q, act)
  OBVIOUS
<1> PICK f : f = IF wrote THEN m ELSE file
  OBVIOUS
<1>0. f \in [Jobs -> JobSet]
  OBVIOUS
<1> SUFFICES Scheduled(m, f, q, act, r, bad, go)
  OBVIOUS
<1> DEFINE item(j) == q[Position(q, j)]
           inFile == {j \in go : \E k \in go \ bad : Position(q, j) <= Position(q, k)}
<1>1. /\ bad \in SUBSET go
      /\ queue' = Without(q, go) /\ active' = act \union go
      /\ run' = [j \in Jobs |-> IF j \in go \ bad THEN Begun(item(j)) ELSE r[j]]
      /\ posted' = [j \in Jobs |-> IF j \in go \ bad /\ ~item(j).resume
                                   THEN posted[j] + 1 ELSE posted[j]]
      /\ jobs' = With(m, go, "running")
      /\ file' = IF wrote \/ go \ bad # {} THEN With(m, inFile, "running") ELSE file
  BY Zenon DEF Schedule, Going
<1>2. Admitted(q, act) \in SUBSET Queued(q) /\ SlotsOK(act \union Admitted(q, act))
  BY AdmittedWithinLimits
<1>3. go \in SUBSET Queued(q) /\ SlotsOK(act \union go) /\ (go # {} => running' /\ enabled')
  <2>1. CASE running' /\ enabled'
    BY <1>2, <2>1 DEF Going
  <2>2. CASE ~(running' /\ enabled')
    <3>1. go = {} /\ act \union go = act
      BY <2>2 DEF Going
    <3> QED BY <3>1
  <2> QED BY <2>1, <2>2
<1>4. /\ go \in SUBSET Jobs
      /\ \A j \in go : /\ item(j) \in ToSet(q) /\ item(j) \in Item /\ item(j).job = j
                       /\ Position(q, j) \in Int
  <2>1. go \in SUBSET Jobs
    BY <1>3, QueuedEntries
  <2>2. ASSUME NEW j \in go
        PROVE  /\ item(j) \in ToSet(q) /\ item(j) \in Item /\ item(j).job = j
               /\ Position(q, j) \in Int
    <3>1. /\ Position(q, j) \in DOMAIN q /\ q[Position(q, j)].job = j
          /\ q[Position(q, j)] \in ToSet(q)
      BY <1>3, PositionOfQueued
    <3>2. DOMAIN q = 1 .. Len(q) /\ Len(q) \in Nat
      BY LenProperties
    <3> QED BY <3>1, <3>2, QueuedEntries
  <2> QED BY <2>1, <2>2
<1> HIDE DEF item
<1>5. \A x \in Item : Begun(x) \in RunSet
  <2>1. 0 \in 0 .. Attempts /\ 1 \in 0 .. Attempts
    BY DEF MediaAssumption
  <2> QED BY <2>1 DEF Begun, RunSet
<1>6. run' \in [Jobs -> RunSet] /\ posted' \in [Jobs -> Nat]
  <2>1. run' \in [Jobs -> RunSet]
    BY <1>1, <1>4, <1>5
  <2>2. posted' \in [Jobs -> Nat]
    BY <1>1
  <2> QED BY <2>1, <2>2
<1>7. /\ jobs' \in [Jobs -> JobSet]
      /\ \A j \in go : jobs'[j].status = "running" /\ jobs'[j].remote = m[j].remote
      /\ \A j \in Jobs : j \notin go => jobs'[j] = m[j]
  <2> HIDE DEF inFile
  <2>1. /\ With(m, go, "running") \in [Jobs -> JobSet]
        /\ \A j \in Jobs : j \in go =>
              /\ With(m, go, "running")[j].status = "running"
              /\ With(m, go, "running")[j].remote = m[j].remote
        /\ \A j \in Jobs : j \notin go => With(m, go, "running")[j] = m[j]
    <3>1. "running" \in Statuses
      BY DEF Statuses
    <3> QED BY <3>1, WithStatus
  <2> QED BY <1>1, <1>4, <2>1
<1> DEFINE g == With(m, inFile, "running")
<1>8. /\ g \in [Jobs -> JobSet]
      /\ \A j \in Jobs : j \in inFile => g[j] = jobs'[j]
      /\ \A j \in Jobs : j \notin inFile => g[j] = m[j]
  <2>1. \A j \in inFile : j \in go
    OBVIOUS
  <2> HIDE DEF inFile
  <2>2. g \in [Jobs -> JobSet] /\ \A j \in Jobs : j \notin inFile => g[j] = m[j]
    <3>1. "running" \in Statuses
      BY DEF Statuses
    <3> QED BY <3>1, WithStatus
  <2>3. \A j \in Jobs : j \in inFile => g[j] = jobs'[j]
    BY <1>1, <2>1 DEF With
  <2> QED BY <2>2, <2>3
<1>9. \A j \in go \ bad : j \in inFile
  BY <1>4
<1> HIDE DEF inFile
<1>10. /\ file' \in [Jobs -> JobSet]
       /\ file' = f \/ \A j \in Jobs : file'[j] \in {m[j], jobs'[j]}
       /\ \A j \in go \ bad : file'[j] = jobs'[j]
  <2>1. CASE wrote \/ go \ bad # {}
    <3>1. file' = g
      BY <1>1, <2>1
    <3> HIDE DEF g
    <3> QED BY <1>4, <1>8, <1>9, <3>1
  <2>2. CASE ~(wrote \/ go \ bad # {})
    <3>1. file' = f
      BY <1>1, <2>2
    <3> QED BY <2>2, <3>1
  <2> QED BY <2>1, <2>2
<1>11. \A j \in Jobs : j \notin go \ bad => run'[j] = r[j] /\ posted'[j] = posted[j]
  BY <1>1
<1>12. ASSUME NEW j \in go \ bad
       PROVE  \E x \in ToSet(q) :
                 /\ x.job = j /\ run'[j] = Begun(x)
                 /\ posted'[j] = IF x.resume THEN posted[j] ELSE posted[j] + 1
  <2>1. j \in Jobs /\ item(j) \in ToSet(q) /\ item(j).job = j
    BY <1>4
  <2>2. run'[j] = Begun(item(j))
    BY <1>1, <2>1
  <2>3. posted'[j] = IF item(j).resume THEN posted[j] ELSE posted[j] + 1
    BY <1>1, <2>1
  <2> QED BY <2>1, <2>2, <2>3
<1>13. SlotsOK(active')
  BY <1>1, <1>3
<1> QED BY <1>1, <1>3, <1>4, <1>6, <1>7, <1>10, <1>11, <1>12, <1>13 DEF Scheduled

LEMMA ScheduleIsSound ==
    ASSUME MediaAssumption, NEW m \in [Jobs -> JobSet], file \in [Jobs -> JobSet],
           NEW wrote \in BOOLEAN, NEW f, f = IF wrote THEN m ELSE file,
           NEW q, NEW act, NEW r, NEW sp, NEW bad \in SUBSET sp,
           Sound(m, f, q, act, r, posted, sp),
           Schedule(m, wrote, q, act, r, bad)
    PROVE  Sound(jobs', file', queue', active', run', posted', sp)
<1>1. PICK go : go = Going(q, act)
  OBVIOUS
<1>2. /\ q \in Seq(Item) /\ act \in SUBSET Jobs /\ r \in [Jobs -> RunSet]
      /\ posted \in [Jobs -> Nat] /\ sp \in SUBSET Jobs /\ SlotsOK(act)
      /\ \A j \in Jobs : JobOK(j, m, f, q, act, r, posted, sp)
      /\ \A x \in ToSet(q) : ItemOK(x, m, posted, sp)
      /\ KeysOK(m) /\ KeysOK(f)
  BY DEF Sound
<1>s. Scheduled(m, f, q, act, r, bad, go)
  <2>1. Scheduled(m, IF wrote THEN m ELSE file, q, act, r, bad, Going(q, act))
    BY <1>2, ScheduledJobs
  <2> QED BY <1>1, <2>1
<1>3. /\ bad \in SUBSET go /\ go \in SUBSET Queued(q) /\ go \in SUBSET Jobs
      /\ queue' = Without(q, go)
      /\ active' = act \union go /\ SlotsOK(active')
      /\ jobs' \in [Jobs -> JobSet] /\ file' \in [Jobs -> JobSet]
      /\ run' \in [Jobs -> RunSet] /\ posted' \in [Jobs -> Nat]
  BY <1>s DEF Scheduled
<1>4. /\ \A j \in go : jobs'[j].status = "running" /\ jobs'[j].remote = m[j].remote
      /\ \A j \in Jobs : j \notin go => jobs'[j] = m[j]
      /\ file' = f \/ \A j \in Jobs : file'[j] \in {m[j], jobs'[j]}
  BY <1>s DEF Scheduled
<1>5. \A j \in go \ bad :
         /\ file'[j] = jobs'[j]
         /\ \E x \in ToSet(q) :
              /\ x.job = j /\ run'[j] = Begun(x)
              /\ posted'[j] = IF x.resume THEN posted[j] ELSE posted[j] + 1
  BY <1>s DEF Scheduled
<1>6. \A j \in Jobs : j \notin go \ bad => run'[j] = r[j] /\ posted'[j] = posted[j]
  BY <1>s DEF Scheduled
<1>7. /\ queue' \in Seq(Item)
      /\ \A x : x \in ToSet(queue') <=> x \in ToSet(q) /\ x.job \notin go
      /\ \A j : j \in Queued(queue') <=> j \in Queued(q) /\ j \notin go
  BY <1>2, <1>3, WithoutJobs
<1>8. \A x \in ToSet(queue') : ItemOK(x, jobs', posted', sp)
  <2> SUFFICES ASSUME NEW x \in ToSet(queue') PROVE ItemOK(x, jobs', posted', sp)
    OBVIOUS
  <2>1. x \in ToSet(q) /\ x.job \in Jobs /\ x.job \notin go
    BY <1>2, <1>7, QueuedEntries
  <2>2. jobs'[x.job] = m[x.job] /\ posted'[x.job] = posted[x.job]
    BY <1>4, <1>6, <2>1
  <2>3. ItemOK(x, m, posted, sp)
    BY <1>2, <2>1
  <2> QED BY <2>2, <2>3 DEF ItemOK, Resumable, Unfinished
<1>9. KeysOK(jobs') /\ KeysOK(file')
  <2>1. \A j \in go : m[j].status # "absent"
    BY <1>2, <1>3 DEF JobOK
  <2>2. \A j \in Jobs : jobs'[j].status = "absent" <=> m[j].status = "absent"
    BY <1>3, <1>4, <2>1
  <2>3. KeysOK(jobs')
    BY <1>2, <2>2 DEF KeysOK
  <2>4. CASE file' = f
    BY <1>2, <2>3, <2>4
  <2>5. CASE \A j \in Jobs : file'[j] \in {m[j], jobs'[j]}
    <3>1. \A j \in Jobs : file'[j].status = "absent" <=> m[j].status = "absent"
      BY <2>2, <2>5
    <3> QED BY <1>2, <2>3, <3>1 DEF KeysOK
  <2> QED BY <1>4, <2>4, <2>5
<1>10. ASSUME NEW j \in Jobs
       PROVE  JobOK(j, jobs', file', queue', active', run', posted', sp)
  <2>1. /\ m[j] \in JobSet /\ f[j] \in JobSet /\ jobs'[j] \in JobSet /\ file'[j] \in JobSet
        /\ run'[j] \in RunSet /\ posted[j] \in Nat
    BY <1>2, <1>3
  <2>2. JobOK(j, m, f, q, act, r, posted, sp)
    BY <1>2
  <2>3. file'[j] \in {f[j], m[j], jobs'[j]}
    BY <1>4
  <2>4. CASE j \notin go
    <3>1. /\ jobs'[j] = m[j] /\ run'[j] = r[j] /\ posted'[j] = posted[j]
          /\ file'[j] \in {f[j], m[j]}
          /\ (j \in active' <=> j \in act) /\ (j \in Queued(queue') <=> j \in Queued(q))
      BY <1>3, <1>4, <1>6, <1>7, <2>3, <2>4
    <3> QED BY <2>1, <2>2, <3>1 DEF JobOK, Resumable, Unfinished, Finished
  <2>5. CASE j \in bad
    <3>1. /\ jobs'[j].status = "running" /\ jobs'[j].remote = m[j].remote
          /\ run'[j] = r[j] /\ posted'[j] = posted[j] /\ j \in sp
          /\ j \in Queued(q) /\ j \in active' /\ j \notin Queued(queue')
      BY <1>3, <1>4, <1>6, <1>7, <2>5
    <3> QED BY <2>1, <2>2, <2>3, <3>1 DEF JobOK, Resumable, Unfinished, Finished
  <2>6. CASE j \in go \ bad
    <3>1. /\ jobs'[j].status = "running" /\ jobs'[j].remote = m[j].remote
          /\ file'[j] = jobs'[j]
          /\ j \in Queued(q) /\ j \in active' /\ j \notin Queued(queue')
      BY <1>3, <1>4, <1>5, <1>7, <2>6
    <3>2. PICK x \in ToSet(q) :
             /\ x.job = j /\ run'[j] = Begun(x)
             /\ posted'[j] = IF x.resume THEN posted[j] ELSE posted[j] + 1
      BY <1>5, <2>6
    <3>3. ItemOK(x, m, posted, sp)
      BY <1>2
    <3>4. posted'[j] \in 0 .. Attempts
      BY <2>1, <2>2, <3>2, <3>3 DEF ItemOK, JobOK
    <3>5. /\ run'[j].pc \in {"poll", "post"}
          /\ x.resume => run'[j].attempt = 0
          /\ ~x.resume => run'[j].attempt = 1
      BY <3>2 DEF Begun
    <3>6. run'[j].attempt > 0 => posted'[j] = run'[j].attempt
      BY <2>1, <3>2, <3>3, <3>5 DEF ItemOK
    <3> QED BY <2>1, <2>2, <3>1, <3>4, <3>5, <3>6 DEF JobOK, Resumable, Unfinished, Finished
  <2> QED BY <1>3, <2>4, <2>5, <2>6
<1> QED BY <1>2, <1>3, <1>7, <1>8, <1>9, <1>10 DEF Sound

\* After schedule(), nobody is left without a run or a place in the queue.
LEMMA ScheduleServes ==
    ASSUME MediaAssumption, NEW m \in [Jobs -> JobSet], file \in [Jobs -> JobSet],
           NEW wrote \in BOOLEAN, NEW f, f = IF wrote THEN m ELSE file,
           NEW q, NEW act, NEW r, NEW sp, Sound(m, f, q, act, r, posted, sp),
           NEW com, NEW w \in [Images -> Jobs \union {None}], NEW on,
           Served(m, q, act, r, com, w, on),
           Schedule(m, wrote, q, act, r, {})
    PROVE  Served(jobs', queue', active', run', com, w, on)
<1>1. PICK go : go = Going(q, act)
  OBVIOUS
<1>2. /\ q \in Seq(Item) /\ act \in SUBSET Jobs /\ r \in [Jobs -> RunSet]
      /\ posted \in [Jobs -> Nat] /\ SlotsOK(act)
  BY DEF Sound
<1>s. Scheduled(m, f, q, act, r, {}, go)
  <2>1. Scheduled(m, IF wrote THEN m ELSE file, q, act, r, {}, Going(q, act))
    BY <1>2, ScheduledJobs
  <2> QED BY <1>1, <2>1
<1>3. /\ go \in SUBSET Jobs /\ queue' = Without(q, go) /\ active' = act \union go
      /\ \A j \in Jobs : j \notin go => jobs'[j] = m[j] /\ run'[j] = r[j]
      /\ \A j \in go : \E x \in ToSet(q) : run'[j] = Begun(x)
  <2>1. /\ go \in SUBSET Jobs /\ queue' = Without(q, go) /\ active' = act \union go
        /\ \A j \in Jobs : j \notin go => jobs'[j] = m[j]
    BY <1>s DEF Scheduled
  <2>2. \A j \in Jobs : j \notin go => run'[j] = r[j]
    BY <1>s DEF Scheduled
  <2>3. \A j \in go : \E x \in ToSet(q) : run'[j] = Begun(x)
    BY <1>s DEF Scheduled
  <2> QED BY <2>1, <2>2, <2>3
<1>4. \A j \in go : run'[j].pc # "none"
  <2>1. \A x : Begun(x).pc # "none"
    BY DEF Begun
  <2> QED BY <1>3, <2>1
<1>5. \A j : j \in Queued(queue') <=> j \in Queued(q) /\ j \notin go
  BY <1>2, <1>3, WithoutJobs
<1>6. \A j \in Jobs : j \in Queued(q) \/ r[j].pc # "none"
                      => j \in Queued(queue') \/ run'[j].pc # "none"
  BY <1>3, <1>4, <1>5
<1>7. \A j \in active' : run'[j].pc # "none"
  BY <1>2, <1>3, <1>4 DEF Served
<1>8. ASSUME on, NEW j \in Jobs, Unfinished(jobs', j)
      PROVE  j \in Queued(queue') \/ run'[j].pc # "none"
  <2>1. CASE j \in go
    BY <1>4, <2>1
  <2>2. CASE j \notin go
    <3>1. Unfinished(m, j)
      BY <1>3, <1>8, <2>2 DEF Unfinished
    <3> QED BY <1>6, <1>8, <3>1 DEF Served
  <2> QED BY <2>1, <2>2
<1>9. ASSUME NEW c \in Images, w[c] # None
      PROVE  /\ w[c] \in com
             /\ w[c] \in Queued(queue') \/ run'[w[c]].pc # "none"
  BY <1>6, <1>9 DEF Served
<1> QED BY <1>7, <1>8, <1>9 DEF Served

\* A handler that leaves something sound and then calls schedule().
LEMMA HandlerThenSchedule ==
    ASSUME MediaAssumption, NEW m \in [Jobs -> JobSet], file \in [Jobs -> JobSet],
           NEW wrote \in BOOLEAN, NEW f, f = IF wrote THEN m ELSE file,
           NEW q, NEW act, NEW r, NEW bad \in SUBSET spoiled',
           Sound(m, f, q, act, r, posted, spoiled'),
           ServiceOK(act, r, running', stopping', halting'),
           spoiled' = {} => Served(m, q, act, r, completions', waits', running' /\ enabled'),
           RestOK',
           Schedule(m, wrote, q, act, r, bad)
    PROVE  MediaInv'
<1>1. Sound(jobs', file', queue', active', run', posted', spoiled')
  BY ScheduleIsSound
<1>2. ASSUME spoiled' = {}
      PROVE  Served(jobs', queue', active', run', completions', waits', running' /\ enabled')
  <2>1. Schedule(m, wrote, q, act, r, {})
    <3>1. bad = {}
      BY <1>2
    <3> QED BY <3>1
  <2>2. waits' \in [Images -> Jobs \union {None}]
    BY DEF RestOK
  <2>3. Served(m, q, act, r, completions', waits', running' /\ enabled')
    BY <1>2
  <2> QED BY <2>1, <2>2, <2>3, ScheduleServes
<1>3. ServiceOK(active', run', running', stopping', halting')
  <2>1. PICK go : go = Going(q, act)
    OBVIOUS
  <2>2. /\ q \in Seq(Item) /\ act \in SUBSET Jobs /\ r \in [Jobs -> RunSet]
        /\ posted \in [Jobs -> Nat] /\ SlotsOK(act)
    BY DEF Sound
  <2>3. Scheduled(m, IF wrote THEN m ELSE file, q, act, r, bad, Going(q, act))
    BY <2>2, ScheduledJobs
  <2>4. /\ go # {} => running' /\ enabled'
        /\ active' = act \union go
        /\ \A j \in Jobs : j \notin go => run'[j] = r[j]
    BY <2>1, <2>3 DEF Scheduled
  <2>5. CASE go = {}
    BY <2>4, <2>5 DEF ServiceOK
  <2>6. CASE go # {}
    <3>1. running' /\ ~stopping'
      BY <2>4, <2>6 DEF ServiceOK
    <3> QED BY <3>1 DEF ServiceOK
  <2> QED BY <2>5, <2>6
<1> QED BY <1>1, <1>2, <1>3 DEF MediaInv

\* The memory that schedule() is called with stays, except for queued jobs.
LEMMA ScheduleKeepsTheRest ==
    ASSUME MediaAssumption, NEW m \in [Jobs -> JobSet], file \in [Jobs -> JobSet],
           NEW wrote \in BOOLEAN, NEW q \in Seq(Item), NEW act \in SUBSET Jobs,
           NEW r \in [Jobs -> RunSet], posted \in [Jobs -> Nat], SlotsOK(act), NEW bad,
           Schedule(m, wrote, q, act, r, bad)
    PROVE  /\ \A j \in Jobs : j \notin Queued(q) => jobs'[j] = m[j]
           /\ \A j \in Jobs : jobs'[j] = m[j] \/ jobs'[j].status = "running"
<1>1. PICK go : go = Going(q, act)
  OBVIOUS
<1>2. Scheduled(m, IF wrote THEN m ELSE file, q, act, r, bad, Going(q, act))
  BY ScheduledJobs
<1> QED BY <1>1, <1>2 DEF Scheduled

-----------------------------------------------------------------------------
(* The end of a run.                                                       *)

LEMMA MediaTypes ==
    ASSUME MediaAssumption, MediaInv
    PROVE  /\ jobs \in [Jobs -> JobSet] /\ file \in [Jobs -> JobSet]
           /\ queue \in Seq(Item) /\ active \in SUBSET Jobs /\ run \in [Jobs -> RunSet]
           /\ posted \in [Jobs -> Nat] /\ spoiled \in SUBSET Jobs
           /\ completions \in SUBSET Jobs /\ waits \in [Images -> Jobs \union {None}]
           /\ None \notin Jobs /\ Images \in SUBSET Jobs
           /\ {running, stopping, halting, enabled, gateway} \subseteq BOOLEAN
           /\ trouble \in 0 .. MaxTrouble
           /\ \A j \in Jobs : JobOK(j, jobs, file, queue, active, run, posted, spoiled)
           /\ \A x \in ToSet(queue) : ItemOK(x, jobs, posted, spoiled)
           /\ KeysOK(jobs) /\ KeysOK(file) /\ SlotsOK(active)
           /\ ServiceOK(active, run, running, stopping, halting)
BY DEF MediaInv, Sound, RestOK, MediaAssumption, Jobs

LEMMA FewerSlots ==
    ASSUME MediaAssumption, NEW act \in SUBSET Jobs, SlotsOK(act), NEW less \in SUBSET act
    PROVE  SlotsOK(less)
<1>1. ASSUME NEW kind \in SUBSET Jobs
      PROVE  /\ Cardinality(less \intersect kind) <= Cardinality(act \intersect kind)
             /\ Cardinality(less \intersect kind) \in Nat /\ Cardinality(act \intersect kind) \in Nat
  <2>1. IsFiniteSet(act \intersect kind)
    BY FS_Subset, KindsAndLimits
  <2>2. less \intersect kind \in SUBSET (act \intersect kind)
    OBVIOUS
  <2>3. IsFiniteSet(less \intersect kind)
    BY <2>1, <2>2, FS_Subset
  <2> QED BY <2>1, <2>2, <2>3, FS_Subset, FS_CardinalityType
<1>2. /\ Images \in SUBSET Jobs /\ Videos \in SUBSET Jobs
      /\ MaxImages \in Nat /\ MaxVideos \in Nat
  BY KindsAndLimits
<1>3. Cardinality(less \intersect Images) <= MaxImages
  BY <1>1, <1>2 DEF SlotsOK
<1>4. Cardinality(less \intersect Videos) <= MaxVideos
  BY <1>1, <1>2 DEF SlotsOK
<1> QED BY <1>3, <1>4 DEF SlotsOK

LEMMA RunEnds ==
    ASSUME MediaAssumption, MediaInv, NEW j \in Jobs, Live(j),
           NEW m \in [Jobs -> JobSet], \A k \in Jobs : k # j => m[k] = jobs[k],
           m[j].status # "absent", j \in Images => ~m[j].remote,
           NEW wrote \in BOOLEAN, NEW bad \in SUBSET spoiled',
           spoiled \in SUBSET spoiled', spoiled' \in SUBSET Jobs, trouble' \in 0 .. MaxTrouble,
           Finished(m, j) => wrote \/ j \in spoiled' \/ m[j].status = jobs[j].status,
           Unfinished(m, j) => ~running,
           Return(j, m, wrote, bad)
    PROVE  MediaInv'
<1> USE MediaTypes
<1>1. PICK f : f = IF wrote THEN m ELSE file
  OBVIOUS
<1>2. PICK r : r = [run EXCEPT ![j] = AtRest]
  OBVIOUS
<1>3. /\ r \in [Jobs -> RunSet] /\ r[j].pc = "none" /\ ~r[j].aborted
      /\ \A k \in Jobs : k # j => r[k] = run[k]
  <2>1. AtRest \in RunSet
    <3>1. 0 \in 0 .. Attempts
      BY DEF MediaAssumption
    <3> QED BY <3>1 DEF AtRest, RunSet
  <2> QED BY <1>2, <2>1 DEF AtRest
<1>4. /\ f \in [Jobs -> JobSet] /\ active \ {j} \in SUBSET Jobs /\ SlotsOK(active \ {j})
      /\ \A k \in Jobs : f[k] \in {file[k], m[k]}
  BY <1>1, FewerSlots
<1>5. JobOK(j, jobs, file, queue, active, run, posted, spoiled)
  OBVIOUS
<1>6. j \in active /\ j \notin Queued(queue) /\ jobs[j].status # "absent"
  BY <1>5 DEF JobOK, Live
<1>7. ASSUME NEW k \in Jobs
      PROVE  JobOK(k, m, f, queue, active \ {j}, r, posted, spoiled')
  <2>1. /\ m[k] \in JobSet /\ f[k] \in JobSet /\ jobs[k] \in JobSet /\ file[k] \in JobSet
        /\ JobOK(k, jobs, file, queue, active, run, posted, spoiled)
    BY <1>4
  <2>2. CASE k = j
    <3>1. f[j] = IF wrote THEN m[j] ELSE file[j]
      BY <1>1
    <3> HIDE MediaTypes
    <3> QED BY <1>3, <1>6, <2>1, <2>2, <3>1 DEF JobOK, Live, Resumable, Unfinished, Finished
  <2>3. CASE k # j
    <3>1. /\ m[k] = jobs[k] /\ r[k] = run[k] /\ f[k] \in {file[k], jobs[k]}
          /\ (k \in active \ {j} <=> k \in active)
      BY <1>3, <1>4, <2>3
    <3> HIDE MediaTypes
    <3> QED BY <2>1, <3>1 DEF JobOK, Resumable, Unfinished, Finished
  <2> QED BY <2>2, <2>3
<1>8. ASSUME NEW x \in ToSet(queue) PROVE ItemOK(x, m, posted, spoiled')
  <2>1. x.job \in Jobs /\ x.job \in Queued(queue)
    BY QueuedEntries
  <2>2. m[x.job] = jobs[x.job] /\ ItemOK(x, jobs, posted, spoiled)
    BY <1>6, <2>1
  <2> QED BY <2>2 DEF ItemOK, Resumable, Unfinished
<1>9. KeysOK(m) /\ KeysOK(f)
  <2>1. \A k \in Jobs : m[k].status = "absent" <=> jobs[k].status = "absent"
    BY <1>6
  <2>2. KeysOK(m)
    BY <2>1 DEF KeysOK
  <2> QED BY <1>1, <2>2
<1>10. Sound(m, f, queue, active \ {j}, r, posted, spoiled')
  BY <1>3, <1>4, <1>7, <1>8, <1>9 DEF Sound
<1>11. /\ UNCHANGED <<service, gateway>> /\ Resolve({j})
       /\ Schedule(m, wrote, queue, active \ {j}, r, bad)
  BY <1>2 DEF Return
<1>12. ServiceOK(active \ {j}, r, running', stopping', halting')
  BY <1>3, <1>11 DEF ServiceOK, service
<1>13. RestOK'
  <2>1. /\ {running', stopping', halting', enabled', gateway'} \subseteq BOOLEAN
        /\ completions' \in SUBSET Jobs
    BY <1>11 DEF service, Resolve
  <2>2. waits' \in [Images -> Jobs \union {None}]
    BY <1>11 DEF Resolve
  <2> QED BY <2>1, <2>2 DEF RestOK
<1>14. ASSUME spoiled' = {}
       PROVE  Served(m, queue, active \ {j}, r, completions', waits', running' /\ enabled')
  <2>1. Served(jobs, queue, active, run, completions, waits, running /\ enabled)
    BY <1>14 DEF MediaInv
  <2>2. running' = running /\ enabled' = enabled /\ completions' = completions \ {j}
    BY <1>11 DEF service, Resolve
  <2>3. \A c \in Images : waits'[c] = IF waits[c] = j THEN None ELSE waits[c]
    BY <1>11 DEF Resolve
  <2>4. \A k \in active \ {j} : r[k].pc # "none"
    BY <1>3, <2>1 DEF Served
  <2>5. ASSUME running' /\ enabled', NEW k \in Jobs, Unfinished(m, k)
        PROVE  k \in Queued(queue) \/ r[k].pc # "none"
    <3>1. k # j
      BY <2>2, <2>5
    <3>2. Unfinished(jobs, k)
      BY <2>5, <3>1 DEF Unfinished
    <3> QED BY <1>3, <2>1, <2>2, <2>5, <3>1, <3>2 DEF Served
  <2>6. ASSUME NEW c \in Images, waits'[c] # None
        PROVE  /\ waits'[c] \in completions'
               /\ waits'[c] \in Queued(queue) \/ r[waits'[c]].pc # "none"
    <3>1. waits'[c] = waits[c] /\ waits[c] # j /\ waits[c] \in Jobs
      BY <2>3, <2>6
    <3> QED BY <1>3, <2>1, <2>2, <2>6, <3>1 DEF Served
  <2> QED BY <2>4, <2>5, <2>6 DEF Served
<1>15. file \in [Jobs -> JobSet]
  OBVIOUS
<1> HIDE MediaTypes
<1> QED BY <1>1, <1>10, <1>11, <1>12, <1>13, <1>14, <1>15, HandlerThenSchedule

\* What a step may not do: bring back a finished job, or give up a video that
\* the provider works on.
StaysFinished ==
    \A j \in Jobs : Finished(jobs, j) /\ j \notin spoiled \union Queued(queue) =>
        jobs'[j].status \in {jobs[j].status, "absent"}
KeepsVideos ==
    \A j \in Videos : Resumable(jobs, j) /\ jobs'[j].status = "failed" => running /\ Live(j)
StepOK == MediaInv' /\ StaysFinished /\ KeepsVideos

LEMMA SpoiledJobs ==
    ASSUME MediaAssumption, MediaInv, NEW S \in SUBSET Jobs, Spoil(S)
    PROVE  /\ spoiled' = spoiled \union S /\ spoiled' \in SUBSET Jobs
           /\ trouble' \in 0 .. MaxTrouble
<1>1. spoiled \in SUBSET Jobs /\ trouble \in 0 .. MaxTrouble /\ MaxTrouble \in Nat
  BY MediaTypes DEF MediaAssumption
<1> QED BY <1>1 DEF Spoil

LEMMA RunEndsWell ==
    ASSUME MediaAssumption, MediaInv, NEW j \in Jobs, Live(j),
           NEW m \in [Jobs -> JobSet], \A k \in Jobs : k # j => m[k] = jobs[k],
           m[j].status # "absent", j \in Images => ~m[j].remote,
           NEW wrote \in BOOLEAN, NEW bad \in SUBSET spoiled',
           spoiled \in SUBSET spoiled', spoiled' \in SUBSET Jobs, trouble' \in 0 .. MaxTrouble,
           Finished(m, j) => wrote \/ j \in spoiled' \/ m[j].status = jobs[j].status,
           Unfinished(m, j) => ~running,
           Finished(jobs, j) => m[j].status = jobs[j].status,
           Resumable(jobs, j) /\ m[j].status = "failed" => running,
           Return(j, m, wrote, bad)
    PROVE  StepOK
<1>1. MediaInv'
  BY RunEnds
<1>2. PICK r : r = [run EXCEPT ![j] = AtRest]
  OBVIOUS
<1>3. Schedule(m, wrote, queue, active \ {j}, r, bad)
  BY <1>2 DEF Return
<1>4. /\ r \in [Jobs -> RunSet] /\ SlotsOK(active \ {j}) /\ active \ {j} \in SUBSET Jobs
      /\ file \in [Jobs -> JobSet] /\ queue \in Seq(Item) /\ posted \in [Jobs -> Nat]
  <2>1. AtRest \in RunSet
    <3>1. 0 \in 0 .. Attempts
      BY DEF MediaAssumption
    <3> QED BY <3>1 DEF AtRest, RunSet
  <2>2. r \in [Jobs -> RunSet]
    BY <1>2, <2>1, MediaTypes
  <2>3. SlotsOK(active \ {j}) /\ active \ {j} \in SUBSET Jobs
    BY MediaTypes, FewerSlots
  <2> QED BY <2>2, <2>3, MediaTypes
<1>5. /\ \A k \in Jobs : k \notin Queued(queue) => jobs'[k] = m[k]
      /\ \A k \in Jobs : jobs'[k] = m[k] \/ jobs'[k].status = "running"
  BY <1>3, <1>4, ScheduleKeepsTheRest
<1>6. StaysFinished
  <2> SUFFICES ASSUME NEW k \in Jobs, Finished(jobs, k), k \notin Queued(queue)
               PROVE  jobs'[k].status = jobs[k].status
    BY DEF StaysFinished
  <2>1. jobs'[k] = m[k]
    BY <1>5
  <2>2. m[k].status = jobs[k].status
    <3>1. CASE k = j
      BY <3>1
    <3>2. CASE k # j
      BY <3>2
    <3> QED BY <3>1, <3>2
  <2> QED BY <2>1, <2>2
<1>7. KeepsVideos
  <2> SUFFICES ASSUME NEW k \in Videos, Resumable(jobs, k), jobs'[k].status = "failed"
               PROVE  running /\ Live(k)
    BY DEF KeepsVideos
  <2>1. k \in Jobs /\ m[k].status = "failed"
    BY <1>5 DEF Jobs
  <2>2. k = j
    BY <2>1 DEF Resumable, Unfinished
  <2> QED BY <2>1, <2>2
<1> QED BY <1>1, <1>6, <1>7 DEF StepOK

LEMMA LiveJob ==
    ASSUME MediaAssumption, MediaInv, NEW j \in Jobs, Live(j)
    PROVE  /\ jobs[j].status = "running" \/ (jobs[j].status = "canceled" /\ run[j].aborted)
           /\ jobs[j].status # "absent" /\ file[j].status # "failed"
           /\ j \in active /\ j \notin Queued(queue)
           /\ running \/ stopping
           /\ stopping => run[j].aborted
           /\ j \in Images => ~jobs[j].remote
<1>1. /\ JobOK(j, jobs, file, queue, active, run, posted, spoiled)
      /\ ServiceOK(active, run, running, stopping, halting)
  BY MediaTypes
<1> QED BY <1>1 DEF JobOK, ServiceOK, Live

LEMMA RunIsCaught ==
    ASSUME MediaAssumption, MediaInv, NEW j \in Jobs, Live(j),
           NEW m \in [Jobs -> JobSet], \A k \in Jobs : k # j => m[k] = jobs[k],
           m[j].status = jobs[j].status, j \in Images => ~m[j].remote,
           stopping => m[j].remote = jobs[j].remote,
           NEW S \in SUBSET {j}, Caught(j, m, S)
    PROVE  StepOK
<1>1. PICK s : s = Outcome(m, j)
  OBVIOUS
<1>2. PICK lost \in SUBSET {j}, bad \in AtMostOne :
         /\ lost # {} => s # "canceled"
         /\ Spoil(S \union lost \union bad)
         /\ Return(j, With(m, {j}, s), s # "canceled" /\ lost = {}, bad)
  BY <1>1 DEF Caught
<1>3. /\ spoiled' = spoiled \union (S \union lost \union bad)
      /\ spoiled' \in SUBSET Jobs /\ trouble' \in 0 .. MaxTrouble
  <2>1. S \union lost \union bad \in SUBSET Jobs
    BY DEF AtMostOne
  <2> QED BY <1>2, <2>1, SpoiledJobs
<1>4. PICK n : n = With(m, {j}, s)
  OBVIOUS
<1>5. PICK wrote : wrote = (s # "canceled" /\ lost = {})
  OBVIOUS
<1>6. s \in {"canceled", "running", "failed"}
  BY <1>1 DEF Outcome
<1>7. /\ n \in [Jobs -> JobSet] /\ n[j].status = s /\ n[j].remote = m[j].remote
      /\ \A k \in Jobs : k # j => n[k] = jobs[k]
  <2>1. s \in Statuses
    BY <1>6 DEF Statuses
  <2> QED BY <1>4, <2>1, WithStatus
<1>8. wrote \in BOOLEAN /\ Return(j, n, wrote, bad)
  BY <1>2, <1>4, <1>5
<1>9. /\ s = "canceled" => jobs[j].status = "canceled"
      /\ s = "running" => stopping /\ jobs[j].status # "canceled"
      /\ jobs[j].status = "canceled" => s = "canceled"
      /\ s = "failed" => ~(stopping /\ m[j].remote)
  BY <1>1 DEF Outcome
<1>10. Finished(n, j) => wrote \/ j \in spoiled' \/ n[j].status = jobs[j].status
  BY <1>3, <1>5, <1>7, <1>9
<1>11. /\ Unfinished(n, j) => ~running
       /\ Finished(jobs, j) => n[j].status = jobs[j].status
       /\ Resumable(jobs, j) /\ n[j].status = "failed" => running
  <2>1. running => ~stopping
    BY MediaTypes DEF ServiceOK
  <2> QED BY <1>6, <1>7, <1>9, <2>1, LiveJob DEF Finished, Unfinished, Resumable
<1>12. /\ n[j].status # "absent" /\ (j \in Images => ~n[j].remote)
       /\ spoiled \in SUBSET spoiled' /\ bad \in SUBSET spoiled'
  BY <1>3, <1>6, <1>7
<1> QED BY <1>3, <1>7, <1>8, <1>10, <1>11, <1>12, RunEndsWell

LEMMA RunSucceeds ==
    ASSUME MediaAssumption, MediaInv, NEW j \in Jobs, Live(j), ~run[j].aborted, Succeed(j)
    PROVE  StepOK
<1>1. jobs \in [Jobs -> JobSet] /\ jobs[j].status = "running" /\ (j \in Images => ~jobs[j].remote)
  BY MediaTypes, LiveJob
<1>2. CASE Caught(j, jobs, {j})
  BY <1>1, <1>2, RunIsCaught
<1>3. ASSUME NEW bad \in AtMostOne, Spoil(bad),
             Return(j, With(jobs, {j}, "succeeded"), TRUE, bad)
      PROVE  StepOK
  <2>1. /\ spoiled' = spoiled \union bad
        /\ spoiled' \in SUBSET Jobs /\ trouble' \in 0 .. MaxTrouble
    <3>1. bad \in SUBSET Jobs
      BY DEF AtMostOne
    <3> QED BY <1>3, <3>1, SpoiledJobs
  <2>2. PICK n : n = With(jobs, {j}, "succeeded")
    OBVIOUS
  <2>3. /\ n \in [Jobs -> JobSet] /\ n[j].status = "succeeded" /\ n[j].remote = jobs[j].remote
        /\ \A k \in Jobs : k # j => n[k] = jobs[k]
    <3>1. "succeeded" \in Statuses
      BY DEF Statuses
    <3> QED BY <1>1, <2>2, <3>1, WithStatus
  <2>4. Return(j, n, TRUE, bad)
    BY <1>3, <2>2
  <2>5. ~Finished(jobs, j) /\ ~Unfinished(n, j) /\ n[j].status # "failed"
    BY <1>1, <2>3 DEF Finished, Unfinished
  <2>6. bad \in SUBSET spoiled' /\ spoiled \in SUBSET spoiled'
    BY <2>1
  <2> QED BY <1>1, <2>1, <2>3, <2>4, <2>5, <2>6, RunEndsWell
<1> QED BY <1>2, <1>3 DEF Succeed

-----------------------------------------------------------------------------
(* The steps of a run.                                                     *)

\* A step after which the run of j goes on.
LEMMA RunGoesOn ==
    ASSUME MediaAssumption, MediaInv, NEW j \in Jobs, Live(j),
           jobs' \in [Jobs -> JobSet], \A k \in Jobs : k # j => jobs'[k] = jobs[k],
           jobs'[j].status = jobs[j].status, j \in Images => ~jobs'[j].remote,
           file' = file \/ file' = jobs',
           run' \in [Jobs -> RunSet], \A k \in Jobs : k # j => run'[k] = run[k],
           run'[j].pc # "none", run[j].aborted => run'[j].aborted,
           run'[j].pc = "pause" => run'[j].attempt \in 1 .. Attempts - 1,
           \/ posted' = posted /\ run'[j].attempt = run[j].attempt
           \/ /\ posted' = [posted EXCEPT ![j] = posted[j] + 1]
              /\ run[j].attempt > 0 /\ run'[j].attempt = run[j].attempt + 1,
           UNCHANGED <<service, queue, active, completions, waits, gateway, spoiled, trouble>>
    PROVE  StepOK
<1>1. /\ running' = running /\ stopping' = stopping /\ halting' = halting /\ enabled' = enabled
      /\ queue' = queue /\ active' = active /\ completions' = completions /\ waits' = waits
      /\ gateway' = gateway /\ spoiled' = spoiled /\ trouble' = trouble
      /\ posted' \in [Jobs -> Nat] /\ \A k \in Jobs : k # j => posted'[k] = posted[k]
  BY MediaTypes DEF service
<1>2. /\ file \in [Jobs -> JobSet] /\ file' \in [Jobs -> JobSet]
      /\ \A k \in Jobs : k # j => file'[k] \in {file[k], jobs[k]}
      /\ file'[j] \in {file[j], jobs'[j]}
  BY MediaTypes
<1>3. ASSUME NEW k \in Jobs
      PROVE  JobOK(k, jobs', file', queue', active', run', posted', spoiled')
  <2>1. /\ jobs[k] \in JobSet /\ file[k] \in JobSet /\ jobs'[k] \in JobSet /\ file'[k] \in JobSet
        /\ JobOK(k, jobs, file, queue, active, run, posted, spoiled)
    BY <1>2, MediaTypes
  <2>2. CASE k = j
    <3>1. /\ posted'[j] \in 0 .. Attempts
          /\ run'[j].attempt > 0 => posted'[j] = run'[j].attempt
          /\ posted'[j] > 0 => jobs[j].status # "absent" /\ file[j].status # "absent"
      <4>1. posted[j] \in Nat /\ run[j] \in RunSet /\ run'[j] \in RunSet /\ Attempts \in Nat
        BY MediaTypes DEF MediaAssumption
      <4>2. posted[j] \in 0 .. Attempts /\ (run[j].attempt > 0 => posted[j] = run[j].attempt)
            /\ (posted[j] > 0 => jobs[j].status # "absent" /\ file[j].status # "absent")
        BY <2>1, <2>2 DEF JobOK, Live
      <4>3. /\ run[j].attempt \in 0 .. Attempts /\ run'[j].attempt \in 0 .. Attempts
        BY <4>1 DEF RunSet
      <4>4. CASE posted' = posted /\ run'[j].attempt = run[j].attempt
        BY <4>2, <4>4
      <4>5. CASE /\ posted' = [posted EXCEPT ![j] = posted[j] + 1]
                 /\ run[j].attempt > 0 /\ run'[j].attempt = run[j].attempt + 1
        <5>1. posted'[j] = posted[j] + 1
          BY <4>5, MediaTypes
        <5> QED BY <4>1, <4>2, <4>3, <4>5, <5>1
      <4> QED BY <4>4, <4>5
    <3> QED BY <1>1, <1>2, <2>1, <2>2, <3>1, LiveJob DEF JobOK, Live, Resumable, Unfinished, Finished
  <2>3. CASE k # j
    <3>1. /\ jobs'[k] = jobs[k] /\ run'[k] = run[k] /\ file'[k] \in {file[k], jobs[k]}
          /\ posted'[k] = posted[k]
      BY <1>1, <1>2, <2>3
    <3> QED BY <1>1, <2>1, <3>1 DEF JobOK, Resumable, Unfinished, Finished
  <2> QED BY <2>2, <2>3
<1>4. ASSUME NEW x \in ToSet(queue') PROVE ItemOK(x, jobs', posted', spoiled')
  <2>1. x.job \in Jobs /\ x.job \in Queued(queue) /\ x \in ToSet(queue)
    BY <1>1, QueuedEntries, MediaTypes
  <2>2. x.job # j /\ jobs'[x.job] = jobs[x.job] /\ ItemOK(x, jobs, posted, spoiled)
    BY <2>1, LiveJob, MediaTypes
  <2> QED BY <1>1, <2>1, <2>2 DEF ItemOK, Resumable, Unfinished
<1>5. KeysOK(jobs') /\ KeysOK(file')
  <2>1. \A k \in Jobs : jobs'[k].status = jobs[k].status
    OBVIOUS
  <2>2. KeysOK(jobs) /\ KeysOK(file)
    BY MediaTypes
  <2>3. KeysOK(jobs')
    BY <2>1, <2>2 DEF KeysOK
  <2> QED BY <2>2, <2>3
<1>6. Sound(jobs', file', queue', active', run', posted', spoiled')
  BY <1>1, <1>2, <1>3, <1>4, <1>5, MediaTypes DEF Sound
<1>7. RestOK'
  BY <1>1, MediaTypes DEF RestOK
<1>8. ServiceOK(active', run', running', stopping', halting')
  <2>1. \A k \in Jobs : run'[k].pc # "none" /\ stopping => run'[k].aborted
    <3>1. \A k \in Jobs : run[k].pc # "none" /\ stopping => run[k].aborted
      BY MediaTypes DEF ServiceOK
    <3> QED BY <3>1 DEF Live
  <2> QED BY <1>1, <2>1, MediaTypes DEF ServiceOK
<1>9. ASSUME spoiled' = {}
      PROVE  Served(jobs', queue', active', run', completions', waits', running' /\ enabled')
  <2>1. Served(jobs, queue, active, run, completions, waits, running /\ enabled)
    BY <1>1, <1>9 DEF MediaInv
  <2>2. \A k \in Jobs : run[k].pc # "none" => run'[k].pc # "none"
    OBVIOUS
  <2>3. \A k \in active' : run'[k].pc # "none"
    BY <1>1, <2>1, <2>2, MediaTypes DEF Served
  <2>4. ASSUME running' /\ enabled', NEW k \in Jobs, Unfinished(jobs', k)
        PROVE  k \in Queued(queue') \/ run'[k].pc # "none"
    <3>1. Unfinished(jobs, k)
      BY <2>4 DEF Unfinished
    <3> QED BY <1>1, <2>1, <2>2, <2>4, <3>1 DEF Served
  <2>5. ASSUME NEW c \in Images, waits'[c] # None
        PROVE  /\ waits'[c] \in completions'
               /\ waits'[c] \in Queued(queue') \/ run'[waits'[c]].pc # "none"
    <3>1. waits[c] \in Jobs
      BY <1>1, <2>5, MediaTypes
    <3> QED BY <1>1, <2>1, <2>2, <2>5, <3>1 DEF Served
  <2> QED BY <2>3, <2>4, <2>5 DEF Served
<1>10. StaysFinished
  BY DEF StaysFinished
<1>11. KeepsVideos
  BY DEF KeepsVideos, Resumable, Unfinished, Jobs
<1> QED BY <1>6, <1>7, <1>8, <1>9, <1>10, <1>11 DEF MediaInv, StepOK

\* GoesTo, at an await before a download
LEMMA RunMoves ==
    ASSUME MediaAssumption, MediaInv, NEW j \in Jobs, Live(j),
           jobs' \in [Jobs -> JobSet], \A k \in Jobs : k # j => jobs'[k] = jobs[k],
           jobs'[j].status = jobs[j].status, j \in Images => ~jobs'[j].remote,
           file' = file \/ file' = jobs',
           NEW pc \in {"post", "poll", "pause", "download"}, GoesTo(j, pc),
           pc = "pause" => run[j].attempt \in 1 .. Attempts - 1,
           UNCHANGED <<service, queue, active, completions, waits, gateway, posted, spoiled, trouble>>
    PROVE  StepOK
<1>1. run \in [Jobs -> RunSet]
  BY MediaTypes
<1>2. LET w == [run[j] EXCEPT !.pc = pc] IN
      w \in RunSet /\ w.pc = pc /\ w.attempt = run[j].attempt /\ w.aborted = run[j].aborted
  <2>1. run[j] \in RunSet
    BY <1>1
  <2> QED BY <2>1 DEF RunSet
<1>3. run' = [run EXCEPT ![j] = [run[j] EXCEPT !.pc = pc]]
  BY DEF GoesTo
<1>4. /\ run' \in [Jobs -> RunSet] /\ \A k \in Jobs : k # j => run'[k] = run[k]
      /\ run'[j].pc = pc /\ run'[j].attempt = run[j].attempt /\ run'[j].aborted = run[j].aborted
  BY <1>1, <1>2, <1>3
<1> QED BY <1>4, RunGoesOn

LEMMA VideoAcceptedStep ==
    ASSUME MediaAssumption, MediaInv, NEW j \in Jobs, VideoAccepted(j)
    PROVE  StepOK
<1>1. PICK m : m = [jobs EXCEPT ![j].remote = TRUE]
  OBVIOUS
<1>2. Live(j) /\ j \in Videos /\ ~run[j].aborted
  BY DEF VideoAccepted, At, Live
<1>3. /\ m \in [Jobs -> JobSet] /\ \A k \in Jobs : k # j => m[k] = jobs[k]
      /\ m[j].status = jobs[j].status
  <2>1. jobs \in [Jobs -> JobSet] /\ jobs[j] \in JobSet
    BY MediaTypes
  <2>2. LET w == [jobs[j] EXCEPT !.remote = TRUE] IN w \in JobSet /\ w.status = jobs[j].status
    BY <2>1 DEF JobSet
  <2> QED BY <1>1, <2>1, <2>2
<1>4. j \notin Images /\ ~stopping
  BY <1>2, LiveJob DEF MediaAssumption
<1>5. CASE Caught(j, m, {j})
  BY <1>2, <1>3, <1>4, <1>5, RunIsCaught
<1>6. CASE /\ jobs' = m /\ file' = m
           /\ GoesTo(j, "poll")
           /\ UNCHANGED <<service, queue, active, completions, waits, gateway, posted, spoiled, trouble>>
  BY <1>2, <1>3, <1>4, <1>6, RunMoves
<1> QED BY <1>1, <1>5, <1>6 DEF VideoAccepted

LEMMA ResultReadyStep ==
    ASSUME MediaAssumption, MediaInv, NEW j \in Jobs, ResultReady(j)
    PROVE  StepOK
<1>1. Live(j) /\ ~run[j].aborted
  BY DEF ResultReady, At, Live
<1>2. CASE Succeed(j)
  BY <1>1, <1>2, RunSucceeds
<1>3. CASE /\ GoesTo(j, "download")
           /\ UNCHANGED <<store, service, queue, active, completions, waits, gateway, posted, spoiled, trouble>>
  <2>1. jobs' = jobs /\ file' = file
    BY <1>3 DEF store
  <2>2. jobs \in [Jobs -> JobSet] /\ (j \in Images => ~jobs[j].remote)
    BY <1>1, MediaTypes, LiveJob
  <2> QED BY <1>1, <1>3, <2>1, <2>2, RunMoves
<1> QED BY <1>2, <1>3 DEF ResultReady

LEMMA AttemptFailsStep ==
    ASSUME MediaAssumption, MediaInv, NEW j \in Jobs, NEW retryable, AttemptFails(j, retryable)
    PROVE  StepOK
<1>1. Live(j) /\ ~run[j].aborted
  BY DEF AttemptFails, At, Live
<1>2. jobs \in [Jobs -> JobSet] /\ (j \in Images => ~jobs[j].remote)
  BY <1>1, MediaTypes, LiveJob
<1>3. CASE Caught(j, jobs, {j}) \/ Caught(j, jobs, {})
  BY <1>1, <1>2, <1>3, RunIsCaught
<1>4. CASE /\ run[j].attempt \in 1 .. Attempts - 1
           /\ file' = jobs /\ GoesTo(j, "pause")
           /\ UNCHANGED <<jobs, service, queue, active, completions, waits, gateway, posted, spoiled, trouble>>
  BY <1>1, <1>2, <1>4, RunMoves
<1> QED BY <1>3, <1>4 DEF AttemptFails

LEMMA NextAttemptStep ==
    ASSUME MediaAssumption, MediaInv, NEW j \in Jobs, NextAttempt(j)
    PROVE  StepOK
<1>1. PICK m : m = [jobs EXCEPT ![j] = [status |-> "running", remote |-> FALSE]]
  OBVIOUS
<1>2. Live(j) /\ ~run[j].aborted /\ run[j].pc = "pause"
  BY DEF NextAttempt, At, Live
<1>3. jobs[j].status = "running" /\ ~stopping
  BY <1>2, LiveJob
<1>4. /\ m \in [Jobs -> JobSet] /\ \A k \in Jobs : k # j => m[k] = jobs[k]
      /\ m[j].status = jobs[j].status /\ ~m[j].remote
  <2>1. jobs \in [Jobs -> JobSet]
    BY MediaTypes
  <2>2. [status |-> "running", remote |-> FALSE] \in JobSet
    BY DEF JobSet, Statuses
  <2> QED BY <1>1, <1>3, <2>1, <2>2
<1>5. CASE Caught(j, m, {j})
  BY <1>2, <1>3, <1>4, <1>5, RunIsCaught
<1>6. CASE /\ jobs' = m /\ file' = m
           /\ run' = [run EXCEPT ![j].pc = "post", ![j].attempt = @ + 1]
           /\ posted' = [posted EXCEPT ![j] = @ + 1]
           /\ UNCHANGED <<service, queue, active, completions, waits, gateway, spoiled, trouble>>
  <2>1. PICK w : w = [run[j] EXCEPT !.pc = "post", !.attempt = run[j].attempt + 1]
    OBVIOUS
  <2>2. run[j] \in RunSet /\ run[j].attempt \in 1 .. Attempts - 1 /\ run \in [Jobs -> RunSet]
    <3>1. JobOK(j, jobs, file, queue, active, run, posted, spoiled)
      BY MediaTypes
    <3> QED BY <1>2, <3>1, MediaTypes DEF JobOK
  <2>3. w \in RunSet /\ w.pc = "post" /\ w.attempt = run[j].attempt + 1
    <3>1. run[j].attempt + 1 \in 0 .. Attempts
      BY <2>2 DEF RunSet, MediaAssumption
    <3> QED BY <2>1, <2>2, <3>1 DEF RunSet
  <2>4. /\ run' \in [Jobs -> RunSet] /\ \A k \in Jobs : k # j => run'[k] = run[k]
        /\ run'[j].pc = "post" /\ run'[j].attempt = run[j].attempt + 1
    <3>1. run' = [run EXCEPT ![j] = w]
      BY <1>6, <2>1, <2>2
    <3> QED BY <2>2, <2>3, <3>1
  <2>5. posted' = [posted EXCEPT ![j] = posted[j] + 1] /\ run[j].attempt > 0
    BY <1>6, <2>2
  <2> QED BY <1>2, <1>4, <1>6, <2>4, <2>5, RunGoesOn
<1> QED BY <1>1, <1>5, <1>6 DEF NextAttempt

LEMMA DownloadEndsStep ==
    ASSUME MediaAssumption, MediaInv, NEW j \in Jobs, DownloadEnds(j)
    PROVE  StepOK
<1>1. Live(j)
  BY DEF DownloadEnds, Live
<1>2. CASE ~run[j].aborted /\ Succeed(j)
  BY <1>1, <1>2, RunSucceeds
<1>3. CASE Caught(j, jobs, {})
  <2>1. jobs \in [Jobs -> JobSet] /\ (j \in Images => ~jobs[j].remote)
    BY <1>1, MediaTypes, LiveJob
  <2> QED BY <1>1, <1>3, <2>1, RunIsCaught
<1> QED BY <1>2, <1>3 DEF DownloadEnds

LEMMA JobTimeoutStep ==
    ASSUME MediaAssumption, MediaInv, NEW j \in Jobs, JobTimeout(j)
    PROVE  StepOK
<1>1. Live(j) /\ jobs' = jobs /\ file' = file
  BY DEF JobTimeout, store
<1>2. /\ jobs \in [Jobs -> JobSet] /\ (j \in Images => ~jobs[j].remote)
      /\ run \in [Jobs -> RunSet] /\ run[j] \in RunSet
      /\ JobOK(j, jobs, file, queue, active, run, posted, spoiled)
  BY <1>1, MediaTypes, LiveJob
<1>3. LET w == [run[j] EXCEPT !.aborted = TRUE] IN
      w \in RunSet /\ w.pc = run[j].pc /\ w.attempt = run[j].attempt /\ w.aborted
  BY <1>2 DEF RunSet
<1>4. run' = [run EXCEPT ![j] = [run[j] EXCEPT !.aborted = TRUE]]
  BY DEF JobTimeout
<1>5. /\ run' \in [Jobs -> RunSet] /\ \A k \in Jobs : k # j => run'[k] = run[k]
      /\ run'[j].pc = run[j].pc /\ run'[j].attempt = run[j].attempt /\ run'[j].aborted
  BY <1>2, <1>3, <1>4
<1>6. run'[j].pc # "none" /\ (run'[j].pc = "pause" => run'[j].attempt \in 1 .. Attempts - 1)
  BY <1>1, <1>2, <1>5 DEF Live, JobOK
<1>7. UNCHANGED <<service, queue, active, completions, waits, gateway, posted, spoiled, trouble>>
  BY DEF JobTimeout
<1> QED BY <1>1, <1>2, <1>5, <1>6, <1>7, RunGoesOn

LEMMA AbortSeenStep ==
    ASSUME MediaAssumption, MediaInv, NEW j \in Jobs, AbortSeen(j)
    PROVE  StepOK
<1>1. Caught(j, jobs, {})
  BY DEF AbortSeen
<1>2. Live(j)
  <2>1. run[j].aborted /\ JobOK(j, jobs, file, queue, active, run, posted, spoiled)
    BY MediaTypes DEF AbortSeen
  <2> QED BY <2>1 DEF JobOK, Live
<1>3. jobs \in [Jobs -> JobSet] /\ (j \in Images => ~jobs[j].remote)
  BY <1>2, MediaTypes, LiveJob
<1> QED BY <1>1, <1>2, <1>3, RunIsCaught

-----------------------------------------------------------------------------
(* The tools.                                                              *)

LEMMA NoJobTouched ==
    ASSUME MediaAssumption, MediaInv, jobs' = jobs, file' = file, queue' = queue,
           active' = active, run' = run, posted' = posted, spoiled' = spoiled
    PROVE  /\ Sound(jobs', file', queue', active', run', posted', spoiled')
           /\ StaysFinished /\ KeepsVideos
<1>1. Sound(jobs', file', queue', active', run', posted', spoiled')
  BY DEF MediaInv
<1>2. StaysFinished
  BY DEF StaysFinished
<1>3. KeepsVideos
  BY DEF KeepsVideos, Resumable, Unfinished
<1> QED BY <1>1, <1>2, <1>3

LEMMA SubmitAgainStep ==
    ASSUME MediaAssumption, MediaInv, NEW c \in Jobs, SubmitAgain(c)
    PROVE  StepOK
<1>1. /\ running /\ enabled /\ running' = running /\ stopping' = stopping
      /\ halting' = halting /\ enabled' = enabled /\ gateway' = gateway
      /\ jobs' = jobs /\ file' = file /\ queue' = queue /\ active' = active /\ run' = run
      /\ completions' = completions /\ posted' = posted /\ spoiled' = spoiled
      /\ trouble' = trouble
  BY DEF SubmitAgain, store, service, work
<1>2. PICK j \in Jobs : Unfinished(jobs, j) /\ j \in completions /\ Await(c, j)
  BY DEF SubmitAgain, Existing
<1>3. /\ waits' \in [Images -> Jobs \union {None}]
      /\ \A d \in Images : waits'[d] = waits[d] \/ waits'[d] = j
  BY <1>2, MediaTypes DEF Await
<1>4. RestOK'
  BY <1>1, <1>3, MediaTypes DEF RestOK
<1>5. ServiceOK(active', run', running', stopping', halting')
  BY <1>1, MediaTypes
<1>6. ASSUME spoiled' = {}
      PROVE  Served(jobs', queue', active', run', completions', waits', running' /\ enabled')
  <2>1. Served(jobs, queue, active, run, completions, waits, running /\ enabled)
    BY <1>1, <1>6 DEF MediaInv
  <2>2. j \in Queued(queue) \/ run[j].pc # "none"
    BY <1>1, <1>2, <2>1 DEF Served
  <2> QED BY <1>1, <1>2, <1>3, <2>1, <2>2 DEF Served
<1> QED BY <1>1, <1>4, <1>5, <1>6, NoJobTouched DEF StepOK, MediaInv

LEMMA CancelJobStep ==
    ASSUME MediaAssumption, MediaInv, NEW j \in Jobs, CancelJob(j)
    PROVE  StepOK
<1>1. /\ Unfinished(jobs, j) /\ jobs' = With(jobs, {j}, "canceled")
      /\ queue' = Without(queue, {j})
      /\ run' = [run EXCEPT ![j].aborted = Live(j)]
      /\ \/ file' = jobs' /\ Resolve({j}) /\ Spoil({})
         \/ Spoil({j}) /\ UNCHANGED <<file, completions, waits>>
      /\ running' = running /\ stopping' = stopping /\ halting' = halting /\ enabled' = enabled
      /\ active' = active /\ gateway' = gateway /\ posted' = posted
  BY DEF CancelJob, service
<1>2. /\ jobs \in [Jobs -> JobSet] /\ file \in [Jobs -> JobSet] /\ run \in [Jobs -> RunSet]
      /\ queue \in Seq(Item)
  BY MediaTypes
<1>3. /\ jobs' \in [Jobs -> JobSet] /\ jobs'[j].status = "canceled"
      /\ jobs'[j].remote = jobs[j].remote
      /\ \A k \in Jobs : k # j => jobs'[k] = jobs[k]
  <2>1. "canceled" \in Statuses
    BY DEF Statuses
  <2> QED BY <1>1, <1>2, <2>1, WithStatus
<1>4. /\ run' \in [Jobs -> RunSet] /\ \A k \in Jobs : k # j => run'[k] = run[k]
      /\ run'[j].pc = run[j].pc /\ run'[j].attempt = run[j].attempt
      /\ run'[j].aborted <=> Live(j)
  <2>1. PICK b \in BOOLEAN : b <=> Live(j)
    OBVIOUS
  <2>2. LET w == [run[j] EXCEPT !.aborted = b] IN
        w \in RunSet /\ w.pc = run[j].pc /\ w.attempt = run[j].attempt /\ w.aborted = b
    BY <1>2 DEF RunSet
  <2>3. run' = [run EXCEPT ![j] = [run[j] EXCEPT !.aborted = b]]
    <3>1. b = Live(j)
      BY <2>1 DEF Live
    <3> QED BY <1>1, <3>1
  <2> QED BY <1>2, <2>1, <2>2, <2>3
<1>5. /\ queue' \in Seq(Item)
      /\ \A x : x \in ToSet(queue') <=> x \in ToSet(queue) /\ x.job # j
      /\ \A k : k \in Queued(queue') <=> k \in Queued(queue) /\ k # j
  BY <1>1, <1>2, WithoutJobs
<1>6. /\ spoiled \in SUBSET spoiled' /\ spoiled' \in SUBSET Jobs /\ trouble' \in 0 .. MaxTrouble
      /\ file' = jobs' \/ (file' = file /\ j \in spoiled')
  BY <1>1, SpoiledJobs
<1>7. file' \in [Jobs -> JobSet] /\ \A k \in Jobs : file'[k] \in {file[k], jobs'[k]}
  BY <1>2, <1>3, <1>6
<1>8. ASSUME NEW k \in Jobs
      PROVE  JobOK(k, jobs', file', queue', active', run', posted', spoiled')
  <2>1. /\ jobs[k] \in JobSet /\ file[k] \in JobSet /\ jobs'[k] \in JobSet /\ file'[k] \in JobSet
        /\ JobOK(k, jobs, file, queue, active, run, posted, spoiled)
    BY <1>3, <1>7, MediaTypes
  <2>2. CASE k = j
    BY <1>1, <1>3, <1>4, <1>5, <1>6, <2>1, <2>2 DEF JobOK, Live, Resumable, Unfinished, Finished
  <2>3. CASE k # j
    <3>1. /\ jobs'[k] = jobs[k] /\ run'[k] = run[k] /\ file'[k] \in {file[k], jobs[k]}
          /\ (k \in Queued(queue') <=> k \in Queued(queue))
      BY <1>3, <1>4, <1>5, <1>7, <2>3
    <3> QED BY <1>1, <1>6, <2>1, <3>1 DEF JobOK, Resumable, Unfinished, Finished
  <2> QED BY <2>2, <2>3
<1>9. ASSUME NEW x \in ToSet(queue') PROVE ItemOK(x, jobs', posted', spoiled')
  <2>1. x.job \in Jobs /\ x.job # j /\ x \in ToSet(queue)
    BY <1>5, QueuedEntries
  <2>2. jobs'[x.job] = jobs[x.job] /\ ItemOK(x, jobs, posted, spoiled)
    BY <1>3, <2>1, MediaTypes
  <2> QED BY <1>1, <1>6, <2>2 DEF ItemOK, Resumable, Unfinished
<1>10. KeysOK(jobs') /\ KeysOK(file')
  <2>1. \A k \in Jobs : jobs'[k].status = "absent" <=> jobs[k].status = "absent"
    BY <1>1, <1>3 DEF Unfinished
  <2>2. KeysOK(jobs) /\ KeysOK(file)
    BY MediaTypes
  <2>3. KeysOK(jobs')
    BY <2>1, <2>2 DEF KeysOK
  <2> QED BY <1>6, <2>2, <2>3
<1>11. Sound(jobs', file', queue', active', run', posted', spoiled')
  BY <1>1, <1>3, <1>4, <1>5, <1>6, <1>7, <1>8, <1>9, <1>10, MediaTypes DEF Sound
<1>12. /\ completions' \in SUBSET Jobs /\ waits' \in [Images -> Jobs \union {None}]
       /\ completions \ {j} \subseteq completions'
       /\ \A c \in Images : waits'[c] \in {waits[c], None}
  BY <1>1, MediaTypes DEF Resolve
<1>13. RestOK'
  BY <1>1, <1>6, <1>12, MediaTypes DEF RestOK
<1>14. ServiceOK(active', run', running', stopping', halting')
  <2>1. \A k \in Jobs : run'[k].pc # "none" /\ stopping => run'[k].aborted
    <3>1. \A k \in Jobs : run[k].pc # "none" /\ stopping => run[k].aborted
      BY MediaTypes DEF ServiceOK
    <3> QED BY <1>4, <3>1 DEF Live
  <2> QED BY <1>1, <2>1, MediaTypes DEF ServiceOK
<1>15. ASSUME spoiled' = {}
       PROVE  Served(jobs', queue', active', run', completions', waits', running' /\ enabled')
  <2>1. Resolve({j})
    BY <1>1, <1>15, SpoiledJobs
  <2>2. Served(jobs, queue, active, run, completions, waits, running /\ enabled)
    <3>1. spoiled = {}
      BY <1>6, <1>15
    <3> QED BY <3>1 DEF MediaInv
  <2>3. \A k \in Jobs : run[k].pc # "none" => run'[k].pc # "none"
    BY <1>4
  <2>4. \A k \in active' : run'[k].pc # "none"
    BY <1>1, <2>2, <2>3, MediaTypes DEF Served
  <2>5. ASSUME running' /\ enabled', NEW k \in Jobs, Unfinished(jobs', k)
        PROVE  k \in Queued(queue') \/ run'[k].pc # "none"
    <3>1. k # j /\ Unfinished(jobs, k)
      BY <1>3, <2>5 DEF Unfinished
    <3> QED BY <1>1, <1>5, <2>2, <2>3, <2>5, <3>1 DEF Served
  <2>6. ASSUME NEW c \in Images, waits'[c] # None
        PROVE  /\ waits'[c] \in completions'
               /\ waits'[c] \in Queued(queue') \/ run'[waits'[c]].pc # "none"
    <3>1. waits'[c] = waits[c] /\ waits[c] # j /\ waits[c] \in Jobs
      BY <2>1, <2>6, MediaTypes DEF Resolve
    <3> QED BY <1>5, <1>12, <2>2, <2>3, <2>6, <3>1 DEF Served
  <2> QED BY <2>4, <2>5, <2>6 DEF Served
<1>16. StaysFinished
  BY <1>1, <1>3 DEF StaysFinished, Finished, Unfinished
<1>17. KeepsVideos
  BY <1>3 DEF KeepsVideos, Resumable, Unfinished, Jobs
<1> QED BY <1>11, <1>13, <1>14, <1>15, <1>16, <1>17 DEF MediaInv, StepOK

LEMMA ExpireStep ==
    ASSUME MediaAssumption, MediaInv, NEW j \in Jobs, Expire(j)
    PROVE  StepOK
<1>1. /\ Finished(jobs, j) /\ j \notin active /\ j \notin Queued(queue)
      /\ jobs' = [jobs EXCEPT ![j] = Absent] /\ posted' = [posted EXCEPT ![j] = 0]
      /\ trouble < MaxTrouble /\ trouble' = trouble + 1
      /\ \/ file' = jobs' /\ spoiled' = spoiled
         \/ spoiled' = spoiled \union {j} /\ file' = file
      /\ running' = running /\ stopping' = stopping /\ halting' = halting /\ enabled' = enabled
      /\ queue' = queue /\ active' = active /\ run' = run /\ completions' = completions
      /\ waits' = waits /\ gateway' = gateway
  BY DEF Expire, service, work
<1>2. Absent \in JobSet /\ Absent.status = "absent" /\ ~Absent.remote
  BY DEF Absent, JobSet
<1>3. /\ jobs' \in [Jobs -> JobSet] /\ \A k \in Jobs : k # j => jobs'[k] = jobs[k]
      /\ jobs'[j].status = "absent" /\ ~jobs'[j].remote
  BY <1>1, <1>2, MediaTypes
<1>4. /\ posted' \in [Jobs -> Nat] /\ posted'[j] = 0
      /\ \A k \in Jobs : k # j => posted'[k] = posted[k]
  BY <1>1, MediaTypes
<1>5. /\ file' \in [Jobs -> JobSet] /\ \A k \in Jobs : file'[k] \in {file[k], jobs'[k]}
      /\ spoiled \in SUBSET spoiled' /\ spoiled' \in SUBSET Jobs
      /\ trouble' \in 0 .. MaxTrouble
  <2>1. trouble \in 0 .. MaxTrouble /\ MaxTrouble \in Nat
    BY MediaTypes DEF MediaAssumption
  <2>2. trouble' \in 0 .. MaxTrouble
    BY <1>1, <2>1
  <2> QED BY <1>1, <1>3, <2>2, MediaTypes
<1>6. ASSUME NEW k \in Jobs
      PROVE  JobOK(k, jobs', file', queue', active', run', posted', spoiled')
  <2>1. /\ jobs[k] \in JobSet /\ file[k] \in JobSet /\ jobs'[k] \in JobSet /\ file'[k] \in JobSet
        /\ JobOK(k, jobs, file, queue, active, run, posted, spoiled)
    BY <1>3, <1>5, MediaTypes
  <2>2. CASE k = j
    <3>1. file'[j] \in {file[j], jobs'[j]}
      BY <1>5
    <3> QED BY <1>1, <1>3, <1>4, <2>1, <2>2, <3>1 DEF JobOK, Resumable, Unfinished, Finished
  <2>3. CASE k # j
    <3>1. /\ jobs'[k] = jobs[k] /\ posted'[k] = posted[k] /\ file'[k] \in {file[k], jobs[k]}
      BY <1>3, <1>4, <1>5, <2>3
    <3> QED BY <1>1, <1>5, <2>1, <3>1 DEF JobOK, Resumable, Unfinished, Finished
  <2> QED BY <2>2, <2>3
<1>7. ASSUME NEW x \in ToSet(queue') PROVE ItemOK(x, jobs', posted', spoiled')
  <2>1. x.job \in Jobs /\ x.job # j /\ x \in ToSet(queue)
    BY <1>1, QueuedEntries, MediaTypes
  <2>2. /\ jobs'[x.job] = jobs[x.job] /\ posted'[x.job] = posted[x.job]
        /\ ItemOK(x, jobs, posted, spoiled)
    BY <1>3, <1>4, <2>1, MediaTypes
  <2> QED BY <1>5, <2>2 DEF ItemOK, Resumable, Unfinished
<1>8. KeysOK(jobs') /\ KeysOK(file')
  <2>1. KeysOK(jobs) /\ KeysOK(file)
    BY MediaTypes
  <2>2. \A k \in Jobs : jobs[k].status = "absent" => jobs'[k].status = "absent"
    BY <1>3
  <2>3. KeysOK(jobs')
    BY <2>1, <2>2 DEF KeysOK
  <2> QED BY <1>1, <2>1, <2>3
<1>9. Sound(jobs', file', queue', active', run', posted', spoiled')
  BY <1>1, <1>3, <1>4, <1>5, <1>6, <1>7, <1>8, MediaTypes DEF Sound
<1>10. RestOK'
  BY <1>1, <1>5, MediaTypes DEF RestOK
<1>11. ServiceOK(active', run', running', stopping', halting')
  BY <1>1, MediaTypes
<1>12. ASSUME spoiled' = {}
       PROVE  Served(jobs', queue', active', run', completions', waits', running' /\ enabled')
  <2>1. Served(jobs, queue, active, run, completions, waits, running /\ enabled)
    <3>1. spoiled = {}
      BY <1>5, <1>12
    <3> QED BY <3>1 DEF MediaInv
  <2>2. \A k \in Jobs : Unfinished(jobs', k) => Unfinished(jobs, k)
    BY <1>3 DEF Unfinished
  <2> QED BY <1>1, <2>1, <2>2 DEF Served
<1>13. StaysFinished
  BY <1>3 DEF StaysFinished
<1>14. KeepsVideos
  BY <1>3 DEF KeepsVideos, Resumable, Unfinished, Jobs
<1> QED BY <1>9, <1>10, <1>11, <1>12, <1>13, <1>14 DEF MediaInv, StepOK

LEMMA SubmitStep ==
    ASSUME MediaAssumption, MediaInv, NEW c \in Jobs, Submit(c)
    PROVE  StepOK
<1>1. PICK m : m = [jobs EXCEPT ![c] = [status |-> "queued", remote |-> FALSE]]
  OBVIOUS
<1>2. PICK x : x = [job |-> c, resume |-> FALSE]
  OBVIOUS
<1>3. /\ running /\ enabled /\ Existing(c) = {} /\ jobs[c] = Absent
      /\ running' = running /\ stopping' = stopping /\ halting' = halting /\ enabled' = enabled
      /\ gateway' = gateway
  BY DEF Submit, service
<1>4. \/ \E bad \in AtMostOne :
            /\ Spoil(bad)
            /\ Schedule(m, TRUE, Append(queue, x), active, run, bad)
            /\ completions' = completions \union {c}
            /\ Await(c, c)
      \/ /\ jobs' = m /\ Spoil({c})
         /\ UNCHANGED <<file, work, waits, posted>>
  BY <1>1, <1>2 DEF Submit
<1>5. /\ jobs \in [Jobs -> JobSet] /\ file \in [Jobs -> JobSet] /\ run \in [Jobs -> RunSet]
      /\ queue \in Seq(Item) /\ active \in SUBSET Jobs /\ posted \in [Jobs -> Nat]
  BY MediaTypes
<1>6. x \in Item /\ x.job = c /\ ~x.resume
  BY <1>2 DEF Item
<1>7. /\ m \in [Jobs -> JobSet] /\ m[c].status = "queued" /\ ~m[c].remote
      /\ \A k \in Jobs : k # c => m[k] = jobs[k]
  <2>1. [status |-> "queued", remote |-> FALSE] \in JobSet
    BY DEF JobSet, Statuses
  <2> QED BY <1>1, <1>5, <2>1
<1>8. /\ c \notin active /\ c \notin Queued(queue) /\ run[c].pc = "none"
      /\ posted[c] = 0
  <2>1. JobOK(c, jobs, file, queue, active, run, posted, spoiled) /\ posted[c] \in Nat
    BY <1>5, MediaTypes
  <2>2. jobs[c].status = "absent"
    BY <1>3 DEF Absent
  <2> QED BY <2>1, <2>2 DEF JobOK
<1>9. KeysOK(m)
  <2>1. KeysOK(jobs)
    BY MediaTypes
  <2>2. \A k \in Jobs : SameKey(k, c) \/ SameKey(c, k) => jobs[k].status = "absent"
    BY <1>3 DEF Existing, SameKey, Absent
  <2> SUFFICES ASSUME NEW j \in Jobs, NEW k \in Jobs, SameKey(j, k)
               PROVE  m[j].status = "absent" \/ m[k].status = "absent"
    BY DEF KeysOK
  <2>3. j # k
    BY DEF SameKey
  <2>4. CASE j = c \/ k = c
    BY <1>7, <2>2, <2>3, <2>4
  <2>5. CASE j # c /\ k # c
    BY <1>7, <2>1, <2>5 DEF KeysOK
  <2> QED BY <2>4, <2>5
<1>10. CASE \E bad \in AtMostOne :
               /\ Spoil(bad)
               /\ Schedule(m, TRUE, Append(queue, x), active, run, bad)
               /\ completions' = completions \union {c}
               /\ Await(c, c)
  <2>1. PICK bad \in AtMostOne :
           /\ Spoil(bad)
           /\ Schedule(m, TRUE, Append(queue, x), active, run, bad)
           /\ completions' = completions \union {c}
           /\ Await(c, c)
    BY <1>10
  <2>2. /\ spoiled' = spoiled \union bad /\ spoiled' \in SUBSET Jobs
        /\ trouble' \in 0 .. MaxTrouble
    <3>1. bad \in SUBSET Jobs
      BY DEF AtMostOne
    <3> QED BY <2>1, <3>1, SpoiledJobs
  <2>3. PICK q : q = Append(queue, x)
    OBVIOUS
  <2>4. /\ q \in Seq(Item)
        /\ \A y : y \in ToSet(q) <=> y \in ToSet(queue) \/ y = x
        /\ \A j : j \in Queued(q) <=> j \in Queued(queue) \/ j = c
    BY <1>5, <1>6, <2>3, AppendedJob
  <2>5. ASSUME NEW k \in Jobs PROVE JobOK(k, m, m, q, active, run, posted, spoiled')
    <3>1. /\ jobs[k] \in JobSet /\ file[k] \in JobSet /\ m[k] \in JobSet
          /\ JobOK(k, jobs, file, queue, active, run, posted, spoiled)
      BY <1>7, MediaTypes
    <3>2. CASE k = c
      BY <1>7, <1>8, <3>1, <3>2 DEF JobOK, Resumable, Unfinished, Finished
    <3>3. CASE k # c
      <4>1. m[k] = jobs[k] /\ (k \in Queued(q) <=> k \in Queued(queue))
        BY <1>7, <2>4, <3>3
      <4> QED BY <3>1, <4>1 DEF JobOK, Resumable, Unfinished, Finished
    <3> QED BY <3>2, <3>3
  <2>6. ASSUME NEW y \in ToSet(q) PROVE ItemOK(y, m, posted, spoiled')
    <3>1. CASE y = x
      BY <1>6, <1>7, <1>8, <3>1 DEF ItemOK
    <3>2. CASE y \in ToSet(queue)
      <4>1. y.job \in Jobs /\ y.job # c
        BY <1>5, <1>8, <3>2, QueuedEntries
      <4>2. m[y.job] = jobs[y.job] /\ ItemOK(y, jobs, posted, spoiled)
        BY <1>7, <3>2, <4>1, MediaTypes
      <4> QED BY <2>2, <4>2 DEF ItemOK, Resumable, Unfinished
    <3> QED BY <2>4, <3>1, <3>2
  <2>7. Sound(m, m, q, active, run, posted, spoiled')
    BY <1>5, <1>7, <1>9, <2>2, <2>4, <2>5, <2>6, MediaTypes DEF Sound
  <2>8. waits' \in [Images -> Jobs \union {None}]
        /\ \A d \in Images : waits'[d] = waits[d] \/ waits'[d] = c
    BY <2>1, MediaTypes DEF Await
  <2>9. RestOK'
    BY <1>3, <2>1, <2>2, <2>8, MediaTypes DEF RestOK
  <2>10. ServiceOK(active, run, running', stopping', halting')
    BY <1>3, MediaTypes
  <2>11. ASSUME spoiled' = {}
         PROVE  Served(m, q, active, run, completions', waits', running' /\ enabled')
    <3>1. Served(jobs, queue, active, run, completions, waits, running /\ enabled)
      <4>1. spoiled = {}
        BY <2>2, <2>11
      <4> QED BY <4>1 DEF MediaInv
    <3>2. ASSUME NEW k \in Jobs, Unfinished(m, k) PROVE k \in Queued(q) \/ run[k].pc # "none"
      <4>1. CASE k = c
        BY <2>4, <4>1
      <4>2. CASE k # c
        <5>1. Unfinished(jobs, k)
          BY <1>7, <3>2, <4>2 DEF Unfinished
        <5> QED BY <1>3, <2>4, <3>1, <5>1 DEF Served
      <4> QED BY <4>1, <4>2
    <3> QED BY <2>1, <2>4, <2>8, <3>1, <3>2 DEF Served
  <2>12. bad \in SUBSET spoiled' /\ Schedule(m, TRUE, q, active, run, bad)
    BY <2>1, <2>2, <2>3
  <2>13. MediaInv'
    BY <1>5, <1>7, <2>7, <2>9, <2>10, <2>11, <2>12, HandlerThenSchedule
  <2>14. /\ \A j \in Jobs : j \notin Queued(q) => jobs'[j] = m[j]
         /\ \A j \in Jobs : jobs'[j] = m[j] \/ jobs'[j].status = "running"
    BY <1>5, <1>7, <2>4, <2>12, ScheduleKeepsTheRest, MediaTypes
  <2>15. StaysFinished
    <3> SUFFICES ASSUME NEW k \in Jobs, Finished(jobs, k), k \notin Queued(queue)
                 PROVE  jobs'[k].status = jobs[k].status
      BY DEF StaysFinished
    <3>1. k # c
      BY <1>3 DEF Finished, Absent
    <3> QED BY <1>7, <2>4, <2>14, <3>1
  <2>16. KeepsVideos
    BY <1>7, <2>14 DEF KeepsVideos, Resumable, Unfinished, Jobs
  <2> QED BY <2>13, <2>15, <2>16 DEF StepOK
<1>11. CASE /\ jobs' = m /\ Spoil({c})
            /\ UNCHANGED <<file, work, waits, posted>>
  <2>1. /\ spoiled' = spoiled \union {c} /\ spoiled' \in SUBSET Jobs
        /\ trouble' \in 0 .. MaxTrouble
    BY <1>11, SpoiledJobs
  <2>2. /\ file' = file /\ queue' = queue /\ active' = active /\ run' = run
        /\ completions' = completions /\ waits' = waits /\ posted' = posted
    BY <1>11 DEF work
  <2>3. ASSUME NEW k \in Jobs
        PROVE  JobOK(k, jobs', file', queue', active', run', posted', spoiled')
    <3>1. /\ jobs[k] \in JobSet /\ file[k] \in JobSet /\ m[k] \in JobSet
          /\ JobOK(k, jobs, file, queue, active, run, posted, spoiled)
      BY <1>7, MediaTypes
    <3>2. CASE k = c
      BY <1>7, <1>8, <1>11, <2>2, <3>1, <3>2 DEF JobOK, Resumable, Unfinished, Finished
    <3>3. CASE k # c
      <4>1. jobs'[k] = jobs[k]
        BY <1>7, <1>11, <3>3
      <4> QED BY <2>1, <2>2, <3>1, <4>1 DEF JobOK, Resumable, Unfinished, Finished
    <3> QED BY <3>2, <3>3
  <2>4. ASSUME NEW y \in ToSet(queue') PROVE ItemOK(y, jobs', posted', spoiled')
    <3>1. y.job \in Jobs /\ y.job # c /\ y \in ToSet(queue)
      BY <1>5, <1>8, <2>2, QueuedEntries
    <3>2. jobs'[y.job] = jobs[y.job] /\ ItemOK(y, jobs, posted, spoiled)
      BY <1>7, <1>11, <3>1, MediaTypes
    <3> QED BY <2>1, <2>2, <3>2 DEF ItemOK, Resumable, Unfinished
  <2>5. KeysOK(jobs') /\ KeysOK(file')
    BY <1>9, <1>11, <2>2, MediaTypes
  <2>6. Sound(jobs', file', queue', active', run', posted', spoiled')
    BY <1>7, <1>11, <2>1, <2>2, <2>3, <2>4, <2>5, MediaTypes DEF Sound
  <2>7. RestOK'
    BY <1>3, <2>1, <2>2, MediaTypes DEF RestOK
  <2>8. ServiceOK(active', run', running', stopping', halting')
    BY <1>3, <2>2, MediaTypes
  <2>9. spoiled' # {}
    BY <2>1
  <2>10. MediaInv'
    BY <2>6, <2>7, <2>8, <2>9 DEF MediaInv
  <2>11. StaysFinished
    BY <1>3, <1>7, <1>11 DEF StaysFinished, Finished, Absent
  <2>12. KeepsVideos
    BY <1>7, <1>11 DEF KeepsVideos, Resumable, Unfinished, Jobs
  <2> QED BY <2>10, <2>11, <2>12 DEF StepOK
<1> QED BY <1>4, <1>10, <1>11

-----------------------------------------------------------------------------
(* Start and stop.                                                         *)

\* The recovered jobs follow one another in some order.
LEMMA ResumedJobs ==
    ASSUME NEW S \in SUBSET Jobs, IsFiniteSet(S)
    PROVE  /\ Resumed(S) \in Seq(Item)
           /\ \A x \in ToSet(Resumed(S)) : x.job \in S /\ x.resume
           /\ \A j : j \in Queued(Resumed(S)) <=> j \in S
<1> DEFINE n == Cardinality(S)
           f == SetToSeq(S)
<1>1. n \in Nat /\ ExistsBijection(1 .. n, S)
  BY FS_CardinalityType
<1>2. f \in [1 .. n -> S] /\ IsInjective(f)
  <2>1. PICK g \in Bijection(1 .. n, S) : TRUE
    BY <1>1 DEF ExistsBijection
  <2>2. g \in [1 .. n -> S] /\ IsInjective(g)
    BY <2>1 DEF Bijection, Injection, IsInjective
  <2>3. \E h \in [1 .. n -> S] : IsInjective(h)
    BY <2>2
  <2> QED BY <2>3 DEF SetToSeq
<1> HIDE DEF f
<1>3. \A j \in S : \E i \in 1 .. n : f[i] = j
  <2>1. f \in Injection(1 .. n, S)
    BY <1>2 DEF Injection, IsInjective
  <2>2. IsFiniteSet(1 .. n) /\ Cardinality(1 .. n) = n
    BY <1>1, FS_Interval
  <2>3. f \in Surjection(1 .. n, S)
    BY <2>1, <2>2, FS_Injection
  <2> QED BY <2>3 DEF Surjection
<1>4. Resumed(S) = [i \in 1 .. n |-> [job |-> f[i], resume |-> TRUE]]
  BY DEF Resumed, f
<1>5. \A i \in 1 .. n : [job |-> f[i], resume |-> TRUE] \in Item
  BY <1>2 DEF Item
<1> HIDE DEF n
<1>6. /\ Resumed(S) \in Seq(Item) /\ DOMAIN Resumed(S) = 1 .. n
      /\ \A i \in 1 .. n : Resumed(S)[i] = [job |-> f[i], resume |-> TRUE]
  <2>1. Resumed(S) \in [1 .. n -> Item]
    BY <1>4, <1>5
  <2> QED BY <1>1, <1>4, <2>1
<1>7. \A x \in ToSet(Resumed(S)) : x.job \in S /\ x.resume
  <2> SUFFICES ASSUME NEW i \in 1 .. n PROVE Resumed(S)[i].job \in S /\ Resumed(S)[i].resume
    BY <1>6 DEF ToSet
  <2> QED BY <1>2, <1>6
<1>8. \A j : j \in Queued(Resumed(S)) <=> j \in S
  <2>1. ASSUME NEW j \in S PROVE j \in Queued(Resumed(S))
    <3>1. PICK i \in 1 .. n : f[i] = j
      BY <1>3
    <3>2. i \in DOMAIN Resumed(S) /\ Resumed(S)[i].job = j
      BY <1>6, <3>1
    <3> QED BY <3>2 DEF Queued
  <2>2. ASSUME NEW j \in Queued(Resumed(S)) PROVE j \in S
    BY <1>6, <1>7, QueuedEntries
  <2> QED BY <2>1, <2>2
<1> QED BY <1>6, <1>7, <1>8

LEMMA FailedJobs ==
    ASSUME MediaAssumption, MediaInv, NEW S \in SUBSET Interrupted
    PROVE  /\ With(jobs, S, "failed") \in [Jobs -> JobSet]
           /\ \A k \in Jobs : k \in S => With(jobs, S, "failed")[k].status = "failed"
           /\ \A k \in Jobs : k \in S => With(jobs, S, "failed")[k].remote = jobs[k].remote
           /\ \A k \in Jobs : k \notin S => With(jobs, S, "failed")[k] = jobs[k]
           /\ KeysOK(With(jobs, S, "failed"))
<1>1. PICK m : m = With(jobs, S, "failed")
  OBVIOUS
<1>2. /\ m \in [Jobs -> JobSet]
      /\ \A k \in Jobs : k \in S => m[k].status = "failed" /\ m[k].remote = jobs[k].remote
      /\ \A k \in Jobs : k \notin S => m[k] = jobs[k]
  <2>1. "failed" \in Statuses /\ jobs \in [Jobs -> JobSet]
    BY MediaTypes DEF Statuses
  <2> QED BY <1>1, <2>1, WithStatus
<1>3. KeysOK(m)
  <2>1. \A k \in S : jobs[k].status # "absent"
    BY DEF Interrupted, Unfinished
  <2>2. \A k \in Jobs : m[k].status = "absent" <=> jobs[k].status = "absent"
    BY <1>2, <2>1
  <2>3. KeysOK(jobs)
    BY MediaTypes
  <2> QED BY <2>2, <2>3 DEF KeysOK
<1> QED BY <1>1, <1>2, <1>3

\* recoverInterruptedJobs fails the jobs over and queues the jobs back.
LEMMA RecoveredIsSound ==
    ASSUME MediaAssumption, MediaInv, NEW over \in SUBSET Interrupted,
           NEW back \in SUBSET Interrupted, \A k \in over : ~Resumable(jobs, k),
           \A k \in back : Resumable(jobs, k),
           NEW sp \in SUBSET Jobs, spoiled \in SUBSET sp,
           NEW f \in [Jobs -> JobSet], KeysOK(f),
           \A k \in Jobs : k \notin over => f[k] \in {file[k], jobs[k]},
           \A k \in over : f[k].status = "failed" \/ (k \in sp /\ f[k] \in {file[k], jobs[k]}),
           \A k \in over : f[k].remote => f[k] \in {file[k], jobs[k]} \/ jobs[k].remote
    PROVE  Sound(With(jobs, over, "failed"), f, queue \o Resumed(back), active, run, posted, sp)
<1>1. PICK m : m = With(jobs, over, "failed")
  OBVIOUS
<1>2. PICK q : q = queue \o Resumed(back)
  OBVIOUS
<1>3. /\ jobs \in [Jobs -> JobSet] /\ file \in [Jobs -> JobSet] /\ run \in [Jobs -> RunSet]
      /\ queue \in Seq(Item) /\ active \in SUBSET Jobs /\ posted \in [Jobs -> Nat]
      /\ SlotsOK(active)
  BY MediaTypes
<1>4. /\ over \in SUBSET Jobs /\ back \in SUBSET Jobs
      /\ \A k \in over \union back : Unfinished(jobs, k) /\ k \notin active /\ k \notin Queued(queue)
      /\ \A k \in over : k \notin back
  BY DEF Interrupted
<1>5. /\ m \in [Jobs -> JobSet] /\ KeysOK(m)
      /\ \A k \in Jobs : k \in over => m[k].status = "failed" /\ m[k].remote = jobs[k].remote
      /\ \A k \in Jobs : k \notin over => m[k] = jobs[k]
  BY <1>1, FailedJobs
<1>6. /\ q \in Seq(Item)
      /\ \A x \in ToSet(q) : x \in ToSet(queue) \/ (x.job \in back /\ x.resume)
      /\ \A j : j \in Queued(q) <=> j \in Queued(queue) \/ j \in back
  <2>1. IsFiniteSet(back)
    BY <1>4, KindsAndLimits, FS_Subset
  <2>2. /\ Resumed(back) \in Seq(Item)
        /\ \A x \in ToSet(Resumed(back)) : x.job \in back /\ x.resume
        /\ \A j : j \in Queued(Resumed(back)) <=> j \in back
    BY <1>4, <2>1, ResumedJobs
  <2>3. /\ q \in Seq(Item)
        /\ \A y : y \in ToSet(q) <=> y \in ToSet(queue) \/ y \in ToSet(Resumed(back))
        /\ \A j : j \in Queued(q) <=> j \in Queued(queue) \/ j \in Queued(Resumed(back))
    BY <1>2, <1>3, <2>2, JoinedQueues
  <2> QED BY <2>2, <2>3
<1>7. ASSUME NEW k \in Jobs PROVE JobOK(k, m, f, q, active, run, posted, sp)
  <2>1. /\ jobs[k] \in JobSet /\ file[k] \in JobSet /\ m[k] \in JobSet /\ f[k] \in JobSet
        /\ JobOK(k, jobs, file, queue, active, run, posted, spoiled)
    BY <1>5, MediaTypes
  <2>2. CASE k \in over
    <3>1. /\ m[k].status = "failed" /\ m[k].remote = jobs[k].remote
          /\ k \notin active /\ k \notin Queued(q) /\ Unfinished(jobs, k)
      BY <1>4, <1>5, <1>6, <2>2
    <3>2. run[k].pc = "none" /\ jobs[k].status # "absent"
      BY <2>1, <3>1 DEF JobOK, Unfinished
    <3>3. /\ f[k].status = "failed" \/ (k \in sp /\ f[k] \in {file[k], jobs[k]})
          /\ f[k].remote => f[k] \in {file[k], jobs[k]} \/ jobs[k].remote
      BY <2>2
    <3> QED BY <2>1, <3>1, <3>2, <3>3 DEF JobOK, Resumable, Unfinished, Finished
  <2>3. CASE k \in back
    <3>1. /\ m[k] = jobs[k] /\ f[k] \in {file[k], jobs[k]} /\ Resumable(jobs, k)
          /\ k \notin active /\ k \in Queued(q)
      BY <1>4, <1>5, <1>6, <2>3
    <3> QED BY <2>1, <3>1 DEF JobOK, Resumable, Unfinished, Finished
  <2>4. CASE k \notin over \union back
    <3>1. /\ m[k] = jobs[k] /\ f[k] \in {file[k], jobs[k]}
          /\ (k \in Queued(q) <=> k \in Queued(queue))
      BY <1>5, <1>6, <2>4
    <3> QED BY <2>1, <3>1 DEF JobOK, Resumable, Unfinished, Finished
  <2> QED BY <2>2, <2>3, <2>4
<1>8. ASSUME NEW x \in ToSet(q) PROVE ItemOK(x, m, posted, sp)
  <2>1. CASE x \in ToSet(queue)
    <3>1. x.job \in Jobs /\ x.job \notin over
      BY <1>3, <1>4, <2>1, QueuedEntries
    <3>2. m[x.job] = jobs[x.job] /\ ItemOK(x, jobs, posted, spoiled)
      BY <1>5, <2>1, <3>1, MediaTypes
    <3> QED BY <3>2 DEF ItemOK, Resumable, Unfinished
  <2>2. CASE x.job \in back /\ x.resume
    <3>1. m[x.job] = jobs[x.job] /\ Resumable(jobs, x.job)
      BY <1>4, <1>5, <2>2
    <3> QED BY <2>2, <3>1 DEF ItemOK, Resumable, Unfinished
  <2> QED BY <1>6, <2>1, <2>2
<1>9. Sound(m, f, q, active, run, posted, sp)
  BY <1>3, <1>5, <1>6, <1>7, <1>8 DEF Sound
<1> QED BY <1>1, <1>2, <1>9

LEMMA JobsAreRecovered ==
    ASSUME MediaAssumption, MediaInv, RecoverInterruptedJobs,
           ~(running /\ enabled), waits' = waits, gateway' = gateway,
           {running', stopping', halting', enabled'} \subseteq BOOLEAN,
           ServiceOK(active, run, running', stopping', halting')
    PROVE  StepOK
<1>1. PICK back : back = {j \in Interrupted : Resumable(jobs, j)}
  OBVIOUS
<1>2. PICK over : over = Interrupted \ back
  OBVIOUS
<1>3. /\ over \in SUBSET Interrupted /\ back \in SUBSET Interrupted
      /\ \A k \in over : ~Resumable(jobs, k) /\ k \notin Queued(queue)
      /\ \A k \in back : Resumable(jobs, k)
      /\ over \in SUBSET Jobs /\ back \in SUBSET Jobs
  BY <1>1, <1>2 DEF Interrupted
<1>4. \A k \in over \union back : ~Finished(jobs, k)
  BY <1>3 DEF Interrupted, Unfinished, Finished
<1>5. /\ jobs \in [Jobs -> JobSet] /\ file \in [Jobs -> JobSet] /\ run \in [Jobs -> RunSet]
      /\ queue \in Seq(Item) /\ active \in SUBSET Jobs /\ posted \in [Jobs -> Nat]
      /\ SlotsOK(active) /\ KeysOK(file) /\ spoiled \in SUBSET Jobs
  BY MediaTypes
<1>6. \/ \E bad \in AtMostOne :
            /\ Spoil(bad)
            /\ completions' = completions \union back
            /\ Schedule(With(jobs, over, "failed"), over # {}, queue \o Resumed(back), active, run, bad)
      \/ \E j \in over : \E before \in SUBSET (Interrupted \ {j}) :
            /\ Spoil({j})
            /\ completions' = completions \union (back \intersect before)
            /\ queue' = queue \o Resumed(back \intersect before)
            /\ jobs' = With(jobs, (over \intersect before) \union {j}, "failed")
            /\ file' = IF over \intersect before # {}
                       THEN With(jobs, over \intersect before, "failed") ELSE file
            /\ UNCHANGED <<active, run, posted>>
  BY <1>1, <1>2 DEF RecoverInterruptedJobs
<1>7. CASE \E bad \in AtMostOne :
            /\ Spoil(bad)
            /\ completions' = completions \union back
            /\ Schedule(With(jobs, over, "failed"), over # {}, queue \o Resumed(back), active, run, bad)
  <2>1. PICK bad \in AtMostOne :
            /\ Spoil(bad)
            /\ completions' = completions \union back
            /\ Schedule(With(jobs, over, "failed"), over # {}, queue \o Resumed(back), active, run, bad)
    BY <1>7
  <2>2. /\ spoiled' = spoiled \union bad /\ spoiled' \in SUBSET Jobs
        /\ trouble' \in 0 .. MaxTrouble
    <3>1. bad \in SUBSET Jobs
      BY DEF AtMostOne
    <3> QED BY <2>1, <3>1, SpoiledJobs
  <2>3. PICK m : m = With(jobs, over, "failed")
    OBVIOUS
  <2>4. PICK wrote : wrote = (over # {})
    OBVIOUS
  <2>5. PICK f : f = IF wrote THEN m ELSE file
    OBVIOUS
  <2>6. PICK q : q = queue \o Resumed(back)
    OBVIOUS
  <2>7. /\ m \in [Jobs -> JobSet] /\ KeysOK(m)
        /\ \A k \in Jobs : k \in over => m[k].status = "failed"
        /\ \A k \in Jobs : k \in over => m[k].remote = jobs[k].remote
        /\ \A k \in Jobs : k \notin over => m[k] = jobs[k]
    BY <1>3, <2>3, FailedJobs
  <2>8. /\ f \in [Jobs -> JobSet] /\ KeysOK(f)
        /\ \A k \in Jobs : k \notin over => f[k] \in {file[k], jobs[k]}
        /\ \A k \in over : f[k].status = "failed" /\ f[k].remote = jobs[k].remote
    BY <1>3, <1>5, <2>4, <2>5, <2>7
  <2>9. Sound(m, f, q, active, run, posted, spoiled')
    <3>1. spoiled \in SUBSET spoiled'
      BY <2>2
    <3> QED BY <1>3, <2>2, <2>3, <2>6, <2>8, <3>1, RecoveredIsSound
  <2>10. /\ q \in Seq(Item)
         /\ \A j : j \in Queued(q) <=> j \in Queued(queue) \/ j \in back
    <3>1. IsFiniteSet(back)
      BY <1>3, KindsAndLimits, FS_Subset
    <3>2. Resumed(back) \in Seq(Item) /\ \A j : j \in Queued(Resumed(back)) <=> j \in back
      BY <1>3, <3>1, ResumedJobs
    <3> QED BY <1>5, <2>6, <3>2, JoinedQueues
  <2>11. RestOK'
    <3>1. completions' \in SUBSET Jobs
      BY <1>3, <2>1, MediaTypes
    <3> QED BY <2>2, <3>1, MediaTypes DEF RestOK
  <2>12. ASSUME spoiled' = {}
         PROVE  Served(m, q, active, run, completions', waits', running' /\ enabled')
    <3>1. Served(jobs, queue, active, run, completions, waits, running /\ enabled)
      <4>1. spoiled = {}
        BY <2>2, <2>12
      <4> QED BY <4>1 DEF MediaInv
    <3>2. ASSUME NEW k \in Jobs, Unfinished(m, k) PROVE k \in Queued(q) \/ run[k].pc # "none"
      <4>1. k \notin over /\ Unfinished(jobs, k)
        BY <2>7, <3>2 DEF Unfinished
      <4>2. k \in back \/ k \in active \/ k \in Queued(queue)
        BY <1>2, <4>1 DEF Interrupted
      <4> QED BY <2>10, <3>1, <4>2 DEF Served
    <3> QED BY <2>1, <2>10, <3>1, <3>2 DEF Served
  <2>13. /\ bad \in SUBSET spoiled' /\ wrote \in BOOLEAN
         /\ Schedule(m, wrote, q, active, run, bad)
    BY <2>1, <2>2, <2>3, <2>4, <2>6
  <2>14. MediaInv'
    <3>1. m \in [Jobs -> JobSet] /\ file \in [Jobs -> JobSet]
      BY <1>5, <2>7
    <3> QED BY <2>5, <2>9, <2>11, <2>12, <2>13, <3>1, HandlerThenSchedule
  <2>15. /\ \A j \in Jobs : j \notin Queued(q) => jobs'[j] = m[j]
         /\ \A j \in Jobs : jobs'[j] = m[j] \/ jobs'[j].status = "running"
    <3>1. m \in [Jobs -> JobSet] /\ q \in Seq(Item)
      BY <2>7, <2>10
    <3> QED BY <1>5, <2>13, <3>1, ScheduleKeepsTheRest
  <2>16. StaysFinished
    <3> SUFFICES ASSUME NEW k \in Jobs, Finished(jobs, k), k \notin Queued(queue)
                 PROVE  jobs'[k].status = jobs[k].status
      BY DEF StaysFinished
    <3> QED BY <1>4, <2>7, <2>10, <2>15
  <2>17. KeepsVideos
    <3> SUFFICES ASSUME NEW k \in Videos, Resumable(jobs, k), jobs'[k].status = "failed"
                 PROVE  FALSE
      BY DEF KeepsVideos
    <3>1. k \in Jobs /\ m[k].status = "failed" /\ k \notin over
      BY <1>3, <2>15 DEF Jobs
    <3> QED BY <2>7, <3>1 DEF Resumable, Unfinished
  <2> QED BY <2>14, <2>16, <2>17 DEF StepOK
<1>8. CASE \E j \in over : \E before \in SUBSET (Interrupted \ {j}) :
            /\ Spoil({j})
            /\ completions' = completions \union (back \intersect before)
            /\ queue' = queue \o Resumed(back \intersect before)
            /\ jobs' = With(jobs, (over \intersect before) \union {j}, "failed")
            /\ file' = IF over \intersect before # {}
                       THEN With(jobs, over \intersect before, "failed") ELSE file
            /\ UNCHANGED <<active, run, posted>>
  <2>j. PICK j \in over : \E before \in SUBSET (Interrupted \ {j}) :
            /\ Spoil({j})
            /\ completions' = completions \union (back \intersect before)
            /\ queue' = queue \o Resumed(back \intersect before)
            /\ jobs' = With(jobs, (over \intersect before) \union {j}, "failed")
            /\ file' = IF over \intersect before # {}
                       THEN With(jobs, over \intersect before, "failed") ELSE file
            /\ UNCHANGED <<active, run, posted>>
    BY <1>8
  <2>1. PICK before \in SUBSET (Interrupted \ {j}) :
            /\ Spoil({j})
            /\ completions' = completions \union (back \intersect before)
            /\ queue' = queue \o Resumed(back \intersect before)
            /\ jobs' = With(jobs, (over \intersect before) \union {j}, "failed")
            /\ file' = IF over \intersect before # {}
                       THEN With(jobs, over \intersect before, "failed") ELSE file
            /\ UNCHANGED <<active, run, posted>>
    BY <2>j
  <2>2. /\ spoiled' = spoiled \union {j} /\ spoiled' \in SUBSET Jobs
        /\ trouble' \in 0 .. MaxTrouble
    BY <1>3, <2>1, SpoiledJobs
  <2>3. PICK done : done = over \intersect before
    OBVIOUS
  <2>4. PICK failing : failing = done \union {j}
    OBVIOUS
  <2>5. PICK again : again = back \intersect before
    OBVIOUS
  <2>6. /\ done \in SUBSET Interrupted /\ failing \in SUBSET Interrupted
        /\ again \in SUBSET Interrupted /\ failing \in SUBSET over /\ again \in SUBSET Jobs
        /\ \A k \in failing : ~Resumable(jobs, k)
        /\ \A k \in again : Resumable(jobs, k)
        /\ done \in SUBSET failing /\ \A k \in failing : k \in done \/ k = j
    BY <1>3, <2>1, <2>3, <2>4, <2>5
  <2>7. /\ file' \in [Jobs -> JobSet] /\ KeysOK(file')
        /\ \A k \in Jobs : k \notin done => file'[k] \in {file[k], jobs[k]}
        /\ \A k \in done : file'[k].status = "failed" /\ file'[k].remote = jobs[k].remote
    <3>1. PICK g : g = With(jobs, done, "failed")
      OBVIOUS
    <3>2. /\ g \in [Jobs -> JobSet] /\ KeysOK(g)
          /\ \A k \in Jobs : k \in done => g[k].status = "failed"
          /\ \A k \in Jobs : k \in done => g[k].remote = jobs[k].remote
          /\ \A k \in Jobs : k \notin done => g[k] = jobs[k]
      BY <2>6, <3>1, FailedJobs
    <3>3. file' = IF done # {} THEN g ELSE file
      BY <2>1, <2>3, <3>1
    <3>4. done \in SUBSET Jobs
      BY <1>3, <2>6
    <3> QED BY <1>5, <3>2, <3>3, <3>4
  <2>8. Sound(With(jobs, failing, "failed"), file', queue \o Resumed(again), active, run, posted, spoiled')
    <3>1. /\ \A k \in Jobs : k \notin failing => file'[k] \in {file[k], jobs[k]}
          /\ \A k \in failing : file'[k].status = "failed"
                                \/ (k \in spoiled' /\ file'[k] \in {file[k], jobs[k]})
          /\ \A k \in failing : file'[k].remote => file'[k] \in {file[k], jobs[k]} \/ jobs[k].remote
      <4>1. failing \in SUBSET Jobs /\ j \in spoiled'
        BY <1>3, <2>2, <2>6
      <4> QED BY <2>6, <2>7, <4>1
    <3>2. spoiled \in SUBSET spoiled'
      BY <2>2
    <3> QED BY <2>2, <2>6, <2>7, <3>1, <3>2, RecoveredIsSound
  <2>9. /\ jobs' = With(jobs, failing, "failed") /\ queue' = queue \o Resumed(again)
        /\ active' = active /\ run' = run /\ posted' = posted
        /\ completions' = completions \union again
    BY <2>1, <2>3, <2>4, <2>5
  <2>10. Sound(jobs', file', queue', active', run', posted', spoiled')
    BY <2>8, <2>9
  <2>11. RestOK'
    <3>1. completions' \in SUBSET Jobs
      BY <2>6, <2>9, MediaTypes
    <3> QED BY <2>2, <3>1, MediaTypes DEF RestOK
  <2>12. ServiceOK(active', run', running', stopping', halting')
    BY <2>9
  <2>13. spoiled' # {}
    BY <2>2
  <2>14. MediaInv'
    BY <2>10, <2>11, <2>12, <2>13 DEF MediaInv
  <2>15. /\ \A k \in Jobs : k \notin failing => jobs'[k] = jobs[k]
    BY <2>6, <2>9, FailedJobs
  <2>16. StaysFinished
    BY <1>4, <2>6, <2>15 DEF StaysFinished
  <2>17. KeepsVideos
    <3> SUFFICES ASSUME NEW k \in Videos, Resumable(jobs, k), jobs'[k].status = "failed"
                 PROVE  FALSE
      BY DEF KeepsVideos
    <3>1. k \in Jobs /\ k \notin failing
      BY <2>6 DEF Jobs
    <3> QED BY <2>15, <3>1 DEF Resumable, Unfinished
  <2> QED BY <2>14, <2>16, <2>17 DEF StepOK
<1> QED BY <1>6, <1>7, <1>8

LEMMA StartStep ==
    ASSUME MediaAssumption, MediaInv, Start
    PROVE  StepOK
<1>1. /\ ~running /\ ~halting /\ running' = TRUE /\ stopping' = FALSE
      /\ halting' = halting /\ waits' = waits /\ gateway' = gateway
  BY DEF Start
<1>2. {running', stopping', halting'} \subseteq BOOLEAN
  BY <1>1, MediaTypes
<1>3. CASE enabled' = TRUE /\ RecoverInterruptedJobs
  <2>1. ServiceOK(active, run, running', stopping', halting')
    BY <1>1 DEF ServiceOK
  <2>2. {running', stopping', halting', enabled'} \subseteq BOOLEAN
    BY <1>2, <1>3
  <2> QED BY <1>1, <1>3, <2>1, <2>2, JobsAreRecovered
<1>4. CASE enabled' = FALSE /\ UNCHANGED <<store, work, posted, spoiled, trouble>>
  <2>1. /\ jobs' = jobs /\ file' = file /\ queue' = queue /\ active' = active /\ run' = run
        /\ completions' = completions /\ posted' = posted /\ spoiled' = spoiled
        /\ trouble' = trouble /\ ~enabled'
    BY <1>4 DEF store, work
  <2>2. ServiceOK(active', run', running', stopping', halting')
    BY <1>1, <2>1 DEF ServiceOK
  <2>3. RestOK'
    BY <1>1, <1>2, <1>4, <2>1, MediaTypes DEF RestOK
  <2>4. ASSUME spoiled' = {}
        PROVE  Served(jobs', queue', active', run', completions', waits', running' /\ enabled')
    BY <1>1, <2>1, <2>4 DEF MediaInv, Served
  <2> QED BY <2>1, <2>2, <2>3, <2>4, NoJobTouched DEF MediaInv, StepOK
<1> QED BY <1>3, <1>4 DEF Start

LEMMA SwitchOnStep ==
    ASSUME MediaAssumption, MediaInv, SwitchOn
    PROVE  StepOK
<1>1. /\ ~enabled /\ enabled' = TRUE /\ running' = running /\ stopping' = stopping
      /\ halting' = halting /\ waits' = waits /\ gateway' = gateway /\ RecoverInterruptedJobs
  BY DEF SwitchOn
<1>2. {running', stopping', halting', enabled'} \subseteq BOOLEAN
  BY <1>1, MediaTypes
<1>3. ServiceOK(active, run, running', stopping', halting')
  BY <1>1, MediaTypes
<1> QED BY <1>1, <1>2, <1>3, JobsAreRecovered

\* The switch and the core gateway touch no job.
LEMMA SwitchStep ==
    ASSUME MediaAssumption, MediaInv, SwitchOff \/ GatewayUp \/ GatewayDown
    PROVE  StepOK
<1>1. /\ jobs' = jobs /\ file' = file /\ queue' = queue /\ active' = active /\ run' = run
      /\ completions' = completions /\ waits' = waits /\ posted' = posted /\ spoiled' = spoiled
      /\ running' = running /\ stopping' = stopping /\ halting' = halting
      /\ enabled' = enabled \/ enabled' = FALSE
  BY DEF SwitchOff, GatewayUp, GatewayDown, store, service, work
<1>2. gateway' \in BOOLEAN
  BY MediaTypes DEF SwitchOff, GatewayUp, GatewayDown
<1>3. trouble' \in 0 .. MaxTrouble
  <2>1. trouble \in 0 .. MaxTrouble /\ MaxTrouble \in Nat
    BY MediaTypes DEF MediaAssumption
  <2>2. trouble' = trouble \/ (trouble < MaxTrouble /\ trouble' = trouble + 1)
    BY DEF SwitchOff, GatewayUp, GatewayDown
  <2> QED BY <2>1, <2>2
<1>4. RestOK'
  BY <1>1, <1>2, <1>3, MediaTypes DEF RestOK
<1>5. ServiceOK(active', run', running', stopping', halting')
  BY <1>1, MediaTypes
<1>6. ASSUME spoiled' = {}
      PROVE  Served(jobs', queue', active', run', completions', waits', running' /\ enabled')
  BY <1>1, <1>6 DEF MediaInv, Served
<1> QED BY <1>1, <1>4, <1>5, <1>6, NoJobTouched DEF MediaInv, StepOK

LEMMA StopBeginsStep ==
    ASSUME MediaAssumption, MediaInv, StopBegins
    PROVE  StepOK
<1>1. /\ running' = FALSE /\ stopping' = TRUE /\ halting' = TRUE
      /\ run' = [j \in Jobs |-> [run[j] EXCEPT !.aborted = Live(j)]]
      /\ jobs' = jobs /\ file' = file /\ enabled' = enabled /\ queue' = queue /\ active' = active
      /\ completions' = completions /\ waits' = waits /\ gateway' = gateway
      /\ posted' = posted /\ spoiled' = spoiled /\ trouble' = trouble
  BY DEF StopBegins, store
<1>2. ASSUME NEW j \in Jobs
      PROVE  /\ run'[j] \in RunSet /\ run'[j].pc = run[j].pc /\ run'[j].attempt = run[j].attempt
             /\ run'[j].aborted <=> Live(j)
  <2>1. run[j] \in RunSet
    BY MediaTypes
  <2>2. PICK b \in BOOLEAN : b = Live(j)
    BY DEF Live
  <2>3. run'[j] = [run[j] EXCEPT !.aborted = b]
    BY <1>1, <2>2
  <2> QED BY <2>1, <2>2, <2>3 DEF RunSet
<1>3. run' \in [Jobs -> RunSet]
  <2>1. DOMAIN run' = Jobs /\ run' = [j \in Jobs |-> run'[j]]
    BY <1>1
  <2> QED BY <1>2, <2>1
<1>4. ASSUME NEW k \in Jobs
      PROVE  JobOK(k, jobs', file', queue', active', run', posted', spoiled')
  <2>1. JobOK(k, jobs, file, queue, active, run, posted, spoiled)
    BY MediaTypes
  <2> QED BY <1>1, <1>2, <2>1 DEF JobOK, Live
<1>5. Sound(jobs', file', queue', active', run', posted', spoiled')
  <2>1. \A x \in ToSet(queue') : ItemOK(x, jobs', posted', spoiled')
    BY <1>1, MediaTypes
  <2> QED BY <1>1, <1>3, <1>4, <2>1, MediaTypes DEF Sound
<1>6. RestOK'
  BY <1>1, MediaTypes DEF RestOK
<1>7. ServiceOK(active', run', running', stopping', halting')
  BY <1>1, <1>2 DEF ServiceOK, Live
<1>8. ASSUME spoiled' = {}
      PROVE  Served(jobs', queue', active', run', completions', waits', running' /\ enabled')
  <2>1. Served(jobs, queue, active, run, completions, waits, running /\ enabled)
    BY <1>1, <1>8 DEF MediaInv
  <2>2. \A k \in active' : run'[k].pc # "none"
    BY <1>1, <1>2, <2>1, MediaTypes DEF Served
  <2>3. ASSUME NEW c \in Images, waits'[c] # None
        PROVE  /\ waits'[c] \in completions'
               /\ waits'[c] \in Queued(queue') \/ run'[waits'[c]].pc # "none"
    <3>1. waits[c] \in Jobs
      BY <1>1, <2>3, MediaTypes
    <3> QED BY <1>1, <1>2, <2>1, <2>3, <3>1 DEF Served
  <2> QED BY <1>1, <2>2, <2>3 DEF Served
<1>9. StaysFinished
  BY <1>1 DEF StaysFinished
<1>10. KeepsVideos
  BY <1>1 DEF KeepsVideos, Resumable, Unfinished
<1> QED BY <1>5, <1>6, <1>7, <1>8, <1>9, <1>10 DEF MediaInv, StepOK

LEMMA EmptyIsSound ==
    ASSUME MediaAssumption, NEW m \in [Jobs -> JobSet], KeysOK(m),
           NEW p \in [Jobs -> Nat], NEW sp \in SUBSET Jobs,
           \A j \in Images : ~m[j].remote,
           \A j \in Jobs : p[j] \in 0 .. Attempts /\ (p[j] > 0 => m[j].status # "absent"),
           NEW r, r = [j \in Jobs |-> AtRest]
    PROVE  Sound(m, m, <<>>, {}, r, p, sp)
<1>1. r \in [Jobs -> RunSet] /\ \A j \in Jobs : r[j].pc = "none" /\ ~r[j].aborted
  <2>1. AtRest \in RunSet /\ AtRest.pc = "none" /\ ~AtRest.aborted
    <3>1. 0 \in 0 .. Attempts
      BY DEF MediaAssumption
    <3> QED BY <3>1 DEF AtRest, RunSet
  <2> QED BY <2>1
<1>2. /\ <<>> \in Seq(Item) /\ ToSet(<<>>) = {} /\ Queued(<<>>) = {}
  BY DEF ToSet, Queued
<1>3. ASSUME NEW j \in Jobs PROVE JobOK(j, m, m, <<>>, {}, r, p, sp)
  BY <1>1, <1>2 DEF JobOK, Resumable, Unfinished, Finished, Jobs
<1>4. SlotsOK({})
  <2>1. Cardinality({} \intersect Images) = 0 /\ Cardinality({} \intersect Videos) = 0
    <3>1. {} \intersect Images = {} /\ {} \intersect Videos = {}
      OBVIOUS
    <3> QED BY <3>1, FS_EmptySet
  <2> QED BY <2>1, KindsAndLimits DEF SlotsOK
<1> QED BY <1>1, <1>2, <1>3, <1>4 DEF Sound

\* Nothing runs, and nobody waits.
LEMMA ReloadStep ==
    ASSUME MediaAssumption, MediaInv, Reload, trouble' \in 0 .. MaxTrouble
    PROVE  StepOK
<1>1. /\ jobs' = file /\ file' = file /\ posted' = posted /\ spoiled' = spoiled
      /\ running' = FALSE /\ stopping' = FALSE /\ halting' = FALSE /\ enabled' = FALSE
      /\ queue' = <<>> /\ active' = {} /\ completions' = {}
      /\ run' = [j \in Jobs |-> AtRest] /\ waits' = [c \in Images |-> None] /\ gateway' = FALSE
  BY DEF Reload
<1>2. ASSUME NEW j \in Jobs
      PROVE  /\ j \in Images => ~file[j].remote
             /\ posted[j] \in 0 .. Attempts /\ (posted[j] > 0 => file[j].status # "absent")
             /\ Finished(jobs, j) /\ j \notin spoiled => file[j].status = jobs[j].status
             /\ Resumable(jobs, j) => file[j].status # "failed"
  <2>1. JobOK(j, jobs, file, queue, active, run, posted, spoiled)
    BY MediaTypes
  <2> QED BY <2>1 DEF JobOK
<1>3. Sound(file, file, <<>>, {}, run', posted, spoiled)
  <2>1. file \in [Jobs -> JobSet] /\ KeysOK(file) /\ posted \in [Jobs -> Nat] /\ spoiled \in SUBSET Jobs
    BY MediaTypes
  <2>2. \A j \in Images : ~file[j].remote
    BY <1>2 DEF Jobs
  <2>3. \A j \in Jobs : posted[j] \in 0 .. Attempts /\ (posted[j] > 0 => file[j].status # "absent")
    BY <1>2
  <2>4. PICK r : r = [j \in Jobs |-> AtRest]
    OBVIOUS
  <2>5. Sound(file, file, <<>>, {}, r, posted, spoiled)
    BY <2>1, <2>2, <2>3, <2>4, EmptyIsSound
  <2> QED BY <1>1, <2>4, <2>5
<1>4. RestOK'
  BY <1>1 DEF RestOK
<1>5. Served(jobs', queue', active', run', completions', waits', running' /\ enabled')
  BY <1>1 DEF Served
<1>6. MediaInv'
  <2>1. ServiceOK(active', run', running', stopping', halting')
    BY <1>1 DEF ServiceOK
  <2> QED BY <1>1, <1>3, <1>4, <1>5, <2>1 DEF MediaInv
<1>7. StaysFinished
  BY <1>1, <1>2 DEF StaysFinished
<1>8. KeepsVideos
  BY <1>1, <1>2 DEF KeepsVideos, Jobs
<1> QED BY <1>6, <1>7, <1>8 DEF StepOK

\* What stop() does for the jobs S of the queue, after the runs have ended.
Again(S) == {j \in S : queue[Position(queue, j)].resume}
Unbegun(S) == {j \in S \ Again(S) : jobs[j].status = "queued"}
AfterStop(S) == With(With(jobs, Again(S), "running"), Unbegun(S), "canceled")
Touched(S) == Again(S) \union Unbegun(S)

LEMMA PrefixJobs ==
    ASSUME NEW q \in Seq(Item), NEW i \in 0 .. Len(q)
    PROVE  /\ Queued(SubSeq(q, 1, i)) \in SUBSET Queued(q)
           /\ i = Len(q) => Queued(SubSeq(q, 1, i)) = Queued(q)
           /\ i < Len(q) => /\ Queued(SubSeq(q, 1, i)) \subseteq Queued(SubSeq(q, 1, i + 1))
                            /\ Queued(SubSeq(q, 1, i + 1)) \in SUBSET Queued(q)
<1>1. DOMAIN q = 1 .. Len(q) /\ Len(q) \in Nat /\ \A k \in 1 .. Len(q) : q[k] \in Item
  BY LenProperties, ElementOfSeq
<1>2. ASSUME NEW n \in 0 .. Len(q), NEW j
      PROVE  j \in Queued(SubSeq(q, 1, n)) <=> \E k \in 1 .. n : q[k].job = j
  <2>1. \A k \in 1 .. n : q[k] \in Item
    BY <1>1
  <2>2. /\ SubSeq(q, 1, n) \in Seq(Item)
        /\ Len(SubSeq(q, 1, n)) = IF 1 <= n THEN n - 1 + 1 ELSE 0
        /\ \A k \in 1 .. n - 1 + 1 : SubSeq(q, 1, n)[k] = q[1 + k - 1]
    BY <1>1, <2>1, SubSeqProperties
  <2>3. Len(SubSeq(q, 1, n)) = n /\ \A k \in 1 .. n : SubSeq(q, 1, n)[k] = q[k]
    BY <2>2
  <2>4. DOMAIN SubSeq(q, 1, n) = 1 .. n
    BY <2>2, <2>3, LenProperties
  <2> QED BY <2>3, <2>4 DEF Queued
<1>3. \A j : j \in Queued(q) <=> \E k \in 1 .. Len(q) : q[k].job = j
  BY <1>1 DEF Queued
<1>4. \A j : j \in Queued(SubSeq(q, 1, i)) <=> \E k \in 1 .. i : q[k].job = j
  BY <1>2
<1>5. i < Len(q) => \A j : j \in Queued(SubSeq(q, 1, i + 1)) <=> \E k \in 1 .. i + 1 : q[k].job = j
  BY <1>1, <1>2
<1>6. 1 .. i \subseteq 1 .. Len(q) /\ 1 .. i \subseteq 1 .. i + 1
      /\ (i < Len(q) => 1 .. i + 1 \subseteq 1 .. Len(q))
  BY <1>1
<1> QED BY <1>3, <1>4, <1>5, <1>6

LEMMA StoppedJobs ==
    ASSUME MediaAssumption, MediaInv, NEW S \in SUBSET Queued(queue)
    PROVE  /\ AfterStop(S) \in [Jobs -> JobSet] /\ KeysOK(AfterStop(S))
           /\ \A k \in Again(S) : /\ Resumable(jobs, k) /\ k \in S
                                  /\ AfterStop(S)[k].status = "running"
                                  /\ AfterStop(S)[k].remote = jobs[k].remote
           /\ \A k \in Unbegun(S) : /\ jobs[k].status = "queued" /\ ~jobs[k].remote /\ k \in S
                                    /\ AfterStop(S)[k].status = "canceled"
                                    /\ AfterStop(S)[k].remote = jobs[k].remote
           /\ \A k \in Jobs : k \notin Touched(S) => AfterStop(S)[k] = jobs[k]
           /\ spoiled = {} => S \subseteq Touched(S)
           /\ Touched(S) \in SUBSET Jobs
<1>1. /\ jobs \in [Jobs -> JobSet] /\ queue \in Seq(Item) /\ S \in SUBSET Jobs
      /\ \A x \in ToSet(queue) : ItemOK(x, jobs, posted, spoiled)
  BY MediaTypes, QueuedEntries
<1>2. ASSUME NEW j \in S
      PROVE  /\ queue[Position(queue, j)].job = j
             /\ ItemOK(queue[Position(queue, j)], jobs, posted, spoiled)
  BY <1>1, PositionOfQueued
<1>3. \A k \in Again(S) : Resumable(jobs, k) /\ k \in S
  BY <1>2 DEF Again, ItemOK
<1>4. \A k \in Unbegun(S) : jobs[k].status = "queued" /\ ~jobs[k].remote /\ k \in S
  BY <1>2 DEF Again, Unbegun, ItemOK
<1>5. spoiled = {} => S \subseteq Touched(S)
  BY <1>2 DEF Again, Unbegun, Touched, ItemOK
<1>6. Again(S) \in SUBSET Jobs /\ Unbegun(S) \in SUBSET Jobs /\ \A k \in Unbegun(S) : k \notin Again(S)
  BY <1>1, <1>3, <1>4 DEF Unbegun
<1>7. "running" \in Statuses /\ "canceled" \in Statuses
  BY DEF Statuses
<1>8. PICK n : n = With(jobs, Again(S), "running")
  OBVIOUS
<1>9. /\ n \in [Jobs -> JobSet]
      /\ \A k \in Jobs : k \in Again(S) => n[k].status = "running" /\ n[k].remote = jobs[k].remote
      /\ \A k \in Jobs : k \notin Again(S) => n[k] = jobs[k]
  BY <1>1, <1>7, <1>8, WithStatus
<1>10. PICK m : m = With(n, Unbegun(S), "canceled")
  OBVIOUS
<1>11. /\ m \in [Jobs -> JobSet]
       /\ \A k \in Jobs : k \in Unbegun(S) => m[k].status = "canceled" /\ m[k].remote = n[k].remote
       /\ \A k \in Jobs : k \notin Unbegun(S) => m[k] = n[k]
  BY <1>7, <1>9, <1>10, WithStatus
<1>12. m = AfterStop(S)
  BY <1>8, <1>10 DEF AfterStop
<1>13. /\ \A k \in Again(S) : m[k].status = "running" /\ m[k].remote = jobs[k].remote
       /\ \A k \in Unbegun(S) : m[k].status = "canceled" /\ m[k].remote = jobs[k].remote
       /\ \A k \in Jobs : k \notin Touched(S) => m[k] = jobs[k]
  BY <1>6, <1>9, <1>11 DEF Touched
<1>14. KeysOK(m)
  <2>1. \A k \in Touched(S) : jobs[k].status # "absent" /\ m[k].status # "absent"
    BY <1>3, <1>4, <1>13 DEF Touched, Resumable, Unfinished
  <2>2. \A k \in Jobs : m[k].status = "absent" <=> jobs[k].status = "absent"
    BY <1>13, <2>1
  <2>3. KeysOK(jobs)
    BY MediaTypes
  <2> QED BY <2>2, <2>3 DEF KeysOK
<1> QED BY <1>3, <1>4, <1>5, <1>6, <1>11, <1>12, <1>13, <1>14 DEF Touched

\* Memory has what was done for the jobs T, the file that for the jobs S.
LEMMA StoppedIsSound ==
    ASSUME MediaAssumption, MediaInv, NEW T \in SUBSET Queued(queue), NEW S \in SUBSET T,
           NEW f, f = IF Touched(S) # {} THEN AfterStop(S) ELSE file,
           NEW q \in Seq(Item),
           NEW sp, sp = spoiled \union (Touched(T) \ Touched(S)),
           q = <<>> \/ (q = queue /\ sp # {})
    PROVE  Sound(AfterStop(T), f, q, active, run, posted, sp)
<1>1. PICK m : m = AfterStop(T)
  OBVIOUS
<1>2. /\ jobs \in [Jobs -> JobSet] /\ file \in [Jobs -> JobSet] /\ run \in [Jobs -> RunSet]
      /\ queue \in Seq(Item) /\ active \in SUBSET Jobs /\ posted \in [Jobs -> Nat]
      /\ SlotsOK(active) /\ KeysOK(file) /\ spoiled \in SUBSET Jobs
  BY MediaTypes
<1>3. /\ m \in [Jobs -> JobSet] /\ KeysOK(m) /\ Touched(T) \in SUBSET Jobs
      /\ \A k \in Again(T) : /\ Resumable(jobs, k) /\ m[k].status = "running"
                             /\ m[k].remote = jobs[k].remote /\ k \in Queued(queue)
      /\ \A k \in Unbegun(T) : /\ jobs[k].status = "queued" /\ ~jobs[k].remote /\ m[k].status = "canceled"
                               /\ m[k].remote = jobs[k].remote /\ k \in Queued(queue)
      /\ \A k \in Jobs : k \notin Touched(T) => m[k] = jobs[k]
  BY <1>1, StoppedJobs
<1>4. PICK g : g = AfterStop(S)
  OBVIOUS
<1>5. /\ g \in [Jobs -> JobSet] /\ KeysOK(g)
      /\ \A k \in Again(S) : g[k].status = "running" /\ g[k].remote = jobs[k].remote
      /\ \A k \in Unbegun(S) : g[k].status = "canceled" /\ g[k].remote = jobs[k].remote
      /\ \A k \in Jobs : k \notin Touched(S) => g[k] = jobs[k]
  <2>1. S \in SUBSET Queued(queue)
    OBVIOUS
  <2> QED BY <1>4, <2>1, StoppedJobs
<1>6. /\ f \in [Jobs -> JobSet] /\ KeysOK(f)
      /\ \A k \in Touched(S) : f[k] = g[k]
      /\ \A k \in Jobs : k \notin Touched(S) => f[k] \in {file[k], jobs[k]}
  BY <1>2, <1>4, <1>5
<1>7. Again(S) \subseteq Again(T) /\ Unbegun(S) \subseteq Unbegun(T)
  BY DEF Again, Unbegun
<1>8. /\ ToSet(q) = {} \/ (q = queue /\ sp # {})
      /\ Queued(q) \subseteq Queued(queue)
  BY DEF ToSet, Queued
<1>9. ASSUME NEW k \in Jobs PROVE JobOK(k, m, f, q, active, run, posted, sp)
  <2>1. /\ jobs[k] \in JobSet /\ file[k] \in JobSet /\ m[k] \in JobSet /\ f[k] \in JobSet
        /\ JobOK(k, jobs, file, queue, active, run, posted, spoiled)
        /\ (k \in Queued(q) => k \in Queued(queue)) /\ (k \in spoiled => k \in sp)
    BY <1>3, <1>6, <1>8, MediaTypes
  <2>2. CASE k \notin Touched(T)
    <3>1. m[k] = jobs[k] /\ f[k] \in {file[k], jobs[k]}
      BY <1>3, <1>6, <1>7, <2>2 DEF Touched
    <3> QED BY <2>1, <3>1 DEF JobOK, Resumable, Unfinished, Finished
  <2>3. CASE k \in Touched(T) /\ k \notin Touched(S)
    <3>1. k \in sp /\ f[k] \in {file[k], jobs[k]} /\ k \in Queued(queue)
      BY <1>3, <1>6, <2>3 DEF Touched
    <3>2. /\ m[k].status \in {"running", "canceled"} /\ m[k].remote = jobs[k].remote
          /\ Unfinished(jobs, k)
      BY <1>3, <2>3 DEF Touched, Resumable, Unfinished
    <3> QED BY <2>1, <3>1, <3>2 DEF JobOK, Resumable, Unfinished, Finished
  <2>4. CASE k \in Touched(S)
    <3>1. /\ f[k].status = m[k].status /\ f[k].remote = m[k].remote /\ m[k].remote = jobs[k].remote
          /\ m[k].status \in {"running", "canceled"} /\ k \in Queued(queue)
      BY <1>3, <1>5, <1>6, <1>7, <2>4 DEF Touched
    <3> QED BY <2>1, <3>1 DEF JobOK, Resumable, Unfinished, Finished
  <2> QED BY <2>2, <2>3, <2>4
<1>10. ASSUME NEW x \in ToSet(q) PROVE ItemOK(x, m, posted, sp)
  <2>1. x \in ToSet(queue) /\ sp # {} /\ x.job \in Jobs
    BY <1>2, <1>8, QueuedEntries
  <2>2. ItemOK(x, jobs, posted, spoiled)
    BY <2>1, MediaTypes
  <2>3. CASE x.job \in Again(T)
    <3>1. x.resume
      BY <1>3, <2>2, <2>3 DEF ItemOK, Resumable, Unfinished
    <3> QED BY <1>3, <2>3, <3>1 DEF ItemOK, Resumable, Unfinished
  <2>4. CASE x.job \in Unbegun(T)
    <3>1. ~x.resume
      BY <1>3, <2>2, <2>4 DEF ItemOK, Resumable, Unfinished
    <3> QED BY <1>3, <2>1, <2>2, <2>4, <3>1 DEF ItemOK
  <2>5. CASE x.job \notin Touched(T)
    <3>1. m[x.job] = jobs[x.job]
      BY <1>3, <2>1, <2>5
    <3> QED BY <2>1, <2>2, <3>1 DEF ItemOK, Resumable, Unfinished
  <2> QED BY <2>3, <2>4, <2>5 DEF Touched
<1>11. sp \in SUBSET Jobs
  BY <1>2, <1>3
<1> QED BY <1>1, <1>2, <1>3, <1>6, <1>9, <1>10, <1>11 DEF Sound

LEMMA StopEndsStep ==
    ASSUME MediaAssumption, MediaInv, StopEnds
    PROVE  StepOK
<1>1. /\ halting /\ halting' = FALSE
      /\ running' = running /\ stopping' = stopping /\ enabled' = enabled /\ active' = active
      /\ run' = run /\ gateway' = gateway /\ posted' = posted
  BY DEF StopEnds
<1>2. PICK i \in 0 .. Len(queue) :
         LET S == Queued(SubSeq(queue, 1, i))
             T == Queued(SubSeq(queue, 1, i + 1))
         IN  /\ file' = IF Touched(S) # {} THEN AfterStop(S) ELSE file
             /\ Resolve(Touched(S))
             /\ \/ /\ i = Len(queue) /\ Spoil({})
                   /\ jobs' = AfterStop(S) /\ queue' = <<>>
                \/ /\ i < Len(queue) /\ Touched(T) # Touched(S)
                   /\ Spoil(Touched(T) \ Touched(S))
                   /\ jobs' = AfterStop(T) /\ queue' = queue
  BY DEF StopEnds, Touched, AfterStop, Unbegun, Again
<1>3. PICK S : S = Queued(SubSeq(queue, 1, i))
  OBVIOUS
<1>4. \E T \in SUBSET Queued(queue) :
         /\ S \in SUBSET T
         /\ jobs' = AfterStop(T) /\ Spoil(Touched(T) \ Touched(S))
         /\ \/ queue' = <<>> /\ T = S /\ S = Queued(queue)
            \/ queue' = queue /\ Touched(T) # Touched(S)
  <2>1. queue \in Seq(Item)
    BY MediaTypes
  <2>2. CASE i = Len(queue) /\ Spoil({}) /\ jobs' = AfterStop(S) /\ queue' = <<>>
    <3>1. S = Queued(queue) /\ Touched(S) \ Touched(S) = {}
      BY <1>3, <2>1, <2>2, PrefixJobs
    <3> QED BY <2>2, <3>1
  <2>3. ASSUME NEW T, T = Queued(SubSeq(queue, 1, i + 1)),
               i < Len(queue), Touched(T) # Touched(S), Spoil(Touched(T) \ Touched(S)),
               jobs' = AfterStop(T), queue' = queue
        PROVE  T \in SUBSET Queued(queue) /\ S \in SUBSET T
    BY <1>3, <2>1, <2>3, PrefixJobs
  <2> QED BY <1>2, <1>3, <2>2, <2>3
<1>5. PICK T \in SUBSET Queued(queue) :
         /\ S \in SUBSET T
         /\ jobs' = AfterStop(T) /\ Spoil(Touched(T) \ Touched(S))
         /\ \/ queue' = <<>> /\ T = S /\ S = Queued(queue)
            \/ queue' = queue /\ Touched(T) # Touched(S)
  BY <1>4
<1>6. file' = (IF Touched(S) # {} THEN AfterStop(S) ELSE file) /\ Resolve(Touched(S))
  BY <1>2, <1>3
<1>7. /\ spoiled' = spoiled \union (Touched(T) \ Touched(S))
      /\ spoiled' \in SUBSET Jobs /\ trouble' \in 0 .. MaxTrouble
  <2>1. Touched(T) \in SUBSET Jobs
    BY StoppedJobs
  <2> QED BY <1>5, <2>1, SpoiledJobs
<1>8. \/ queue' = <<>> /\ S = Queued(queue)
      \/ queue' = queue /\ spoiled' # {}
  <2>1. Touched(S) \subseteq Touched(T)
    BY <1>5 DEF Touched, Again, Unbegun
  <2>2. Touched(T) # Touched(S) => Touched(T) \ Touched(S) # {}
    BY <2>1
  <2> QED BY <1>5, <1>7, <2>2
<1>9. Sound(jobs', file', queue', active', run', posted', spoiled')
  <2>1. PICK f : f = IF Touched(S) # {} THEN AfterStop(S) ELSE file
    OBVIOUS
  <2>2. PICK q \in Seq(Item) : q = queue'
    <3>1. queue \in Seq(Item) /\ <<>> \in Seq(Item)
      BY MediaTypes
    <3> QED BY <1>8, <3>1
  <2>3. PICK sp : sp = spoiled \union (Touched(T) \ Touched(S))
    OBVIOUS
  <2>4. Sound(AfterStop(T), f, q, active, run, posted, sp)
    <3>1. q = <<>> \/ (q = queue /\ sp # {})
      BY <1>7, <1>8, <2>2, <2>3
    <3> QED BY <1>5, <2>1, <2>3, <3>1, StoppedIsSound
  <2> QED BY <1>1, <1>5, <1>6, <1>7, <2>1, <2>2, <2>3, <2>4
<1>10. /\ completions' = completions \ Touched(S)
       /\ waits' = [c \in Images |-> IF waits[c] \in Touched(S) THEN None ELSE waits[c]]
  BY <1>6 DEF Resolve
<1>11. RestOK'
  BY <1>1, <1>7, <1>10, MediaTypes DEF RestOK
<1>12. ServiceOK(active', run', running', stopping', halting')
  BY <1>1, MediaTypes DEF ServiceOK
<1>13. ASSUME spoiled' = {}
       PROVE  Served(jobs', queue', active', run', completions', waits', running' /\ enabled')
  <2>1. spoiled = {} /\ Queued(queue) \subseteq Touched(S)
    <3>1. spoiled = {} /\ S = Queued(queue)
      BY <1>7, <1>8, <1>13
    <3>2. S \in SUBSET Queued(queue)
      BY <3>1
    <3> QED BY <3>1, <3>2, StoppedJobs
  <2>2. Served(jobs, queue, active, run, completions, waits, running /\ enabled)
    BY <2>1 DEF MediaInv
  <2>3. ~running
    BY <1>1, MediaTypes DEF ServiceOK
  <2>4. ASSUME NEW c \in Images, waits'[c] # None
        PROVE  /\ waits'[c] \in completions'
               /\ waits'[c] \in Queued(queue') \/ run'[waits'[c]].pc # "none"
    <3>1. waits'[c] = waits[c] /\ waits[c] \notin Touched(S)
      BY <1>10, <2>4
    <3> QED BY <1>1, <1>10, <2>1, <2>2, <2>4, <3>1 DEF Served
  <2> QED BY <1>1, <2>2, <2>3, <2>4 DEF Served
<1>14. /\ \A k \in Jobs : k \notin Queued(queue) => jobs'[k] = jobs[k]
       /\ \A k \in Jobs : jobs'[k] = jobs[k] \/ jobs'[k].status \in {"running", "canceled"}
  <2>1. /\ \A k \in Again(T) : k \in T /\ AfterStop(T)[k].status = "running"
        /\ \A k \in Unbegun(T) : k \in T /\ AfterStop(T)[k].status = "canceled"
        /\ \A k \in Jobs : k \notin Touched(T) => AfterStop(T)[k] = jobs[k]
    BY StoppedJobs
  <2> QED BY <1>5, <2>1 DEF Touched
<1>15. StaysFinished
  BY <1>14 DEF StaysFinished
<1>16. KeepsVideos
  BY <1>14 DEF KeepsVideos, Resumable, Unfinished, Jobs
<1> QED BY <1>9, <1>11, <1>12, <1>13, <1>15, <1>16 DEF MediaInv, StepOK

-----------------------------------------------------------------------------
(* The theorems.                                                           *)

LEMMA MediaInit ==
    ASSUME MediaAssumption, Init
    PROVE  MediaInv
<1>1. PICK m : m = [j \in Jobs |-> Absent]
  OBVIOUS
<1>2. PICK p : p = [j \in Jobs |-> 0]
  OBVIOUS
<1>3. PICK r : r = [j \in Jobs |-> AtRest]
  OBVIOUS
<1>4. Absent \in JobSet /\ Absent.status = "absent" /\ ~Absent.remote
  BY DEF Absent, JobSet
<1>5. /\ m \in [Jobs -> JobSet] /\ p \in [Jobs -> Nat]
      /\ \A j \in Jobs : m[j].status = "absent" /\ ~m[j].remote /\ p[j] = 0
  BY <1>1, <1>2, <1>4
<1>6. KeysOK(m) /\ \A j \in Images : ~m[j].remote
  BY <1>5 DEF KeysOK, Jobs
<1>7. \A j \in Jobs : p[j] \in 0 .. Attempts /\ (p[j] > 0 => m[j].status # "absent")
  BY <1>5
<1>8. Sound(m, m, <<>>, {}, r, p, {})
  <2>1. {} \in SUBSET Jobs
    OBVIOUS
  <2> QED BY <1>3, <1>5, <1>6, <1>7, <2>1, EmptyIsSound
<1>9. Sound(jobs, file, queue, active, run, posted, spoiled)
  BY <1>1, <1>2, <1>3, <1>8 DEF Init
<1>10. RestOK
  <2>1. 0 \in 0 .. MaxTrouble
    BY DEF MediaAssumption
  <2> QED BY <2>1 DEF Init, RestOK
<1>11. ServiceOK(active, run, running, stopping, halting)
  BY DEF Init, ServiceOK
<1>12. Served(jobs, queue, active, run, completions, waits, running /\ enabled)
  BY DEF Init, Served
<1> QED BY <1>9, <1>10, <1>11, <1>12 DEF MediaInv

LEMMA MediaNext ==
    ASSUME MediaAssumption, MediaInv, Next
    PROVE  StepOK
<1>1. ASSUME NEW j \in Jobs, RunStep(j) PROVE StepOK
  BY <1>1, VideoAcceptedStep, ResultReadyStep, NextAttemptStep, AttemptFailsStep,
     DownloadEndsStep, JobTimeoutStep, AbortSeenStep DEF RunStep
<1>2. ASSUME NEW j \in Jobs, CancelJob(j) \/ Expire(j) PROVE StepOK
  BY <1>2, CancelJobStep, ExpireStep
<1>3. ASSUME NEW c \in Jobs, Submit(c) \/ SubmitAgain(c) PROVE StepOK
  BY <1>3, SubmitStep, SubmitAgainStep
<1>4. CASE Quit \/ Crash
  <2>1. trouble \in 0 .. MaxTrouble /\ MaxTrouble \in Nat
    BY MediaTypes DEF MediaAssumption
  <2>2. Reload /\ (trouble' = trouble \/ (trouble < MaxTrouble /\ trouble' = trouble + 1))
    BY <1>4 DEF Quit, Crash
  <2>3. trouble' \in 0 .. MaxTrouble
    BY <2>1, <2>2
  <2> QED BY <2>2, <2>3, ReloadStep
<1> QED BY <1>1, <1>2, <1>3, <1>4, StartStep, StopBeginsStep, StopEndsStep, SwitchOnStep,
           SwitchStep DEF Next

LEMMA MediaStutter ==
    ASSUME MediaAssumption, MediaInv, UNCHANGED vars
    PROVE  MediaInv'
BY DEF MediaInv, RestOK, vars, store, service, work

THEOREM MediaInvHolds == Spec => []MediaInv
<1>1. MediaAssumption
  BY MediaAssumption
<1>2. Init => MediaInv
  BY <1>1, MediaInit
<1>3. MediaInv /\ [Next]_vars => MediaInv'
  BY <1>1, MediaNext, MediaStutter DEF StepOK
<1> QED BY <1>2, <1>3, PTL DEF Spec

\* The jobs, the file, the queue, the runs and the waits keep their types.
THEOREM TypesHold == Spec => []TypeOK
<1>1. MediaInv => TypeOK
  <2> SUFFICES ASSUME MediaInv PROVE TypeOK
    OBVIOUS
  <2>1. MediaAssumption
    BY MediaAssumption
  <2>2. \A j \in Images : ~jobs[j].remote
    <3>1. \A j \in Jobs : JobOK(j, jobs, file, queue, active, run, posted, spoiled)
      BY <2>1, MediaTypes
    <3> QED BY <3>1 DEF JobOK, Jobs
  <2>3. JobSet = [status : {"absent", "queued", "running", "succeeded", "failed", "canceled"},
                  remote : BOOLEAN]
    <3>1. {"absent"} \union Statuses = {"absent", "queued", "running", "succeeded", "failed", "canceled"}
      BY DEF Statuses
    <3> QED BY <3>1 DEF JobSet
  <2>4. {jobs, file} \subseteq [Jobs -> JobSet]
    BY <2>1, MediaTypes
  <2>5. /\ queue \in Seq(Item) /\ active \subseteq Jobs /\ completions \subseteq Jobs
        /\ spoiled \subseteq Jobs /\ waits \in [Images -> Jobs \union {None}]
        /\ posted \in [Jobs -> Nat] /\ trouble \in 0 .. MaxTrouble
        /\ {running, stopping, halting, enabled, gateway} \subseteq BOOLEAN
        /\ run \in [Jobs -> RunSet]
    BY <2>1, MediaTypes
  <2> QED BY <2>2, <2>3, <2>4, <2>5 DEF TypeOK, RunSet
<1> QED BY <1>1, MediaInvHolds, PTL

\* schedule() never starts more than maxImageConcurrency or
\* maxVideoConcurrency allow, whatever was canceled, timed out, stopped or
\* started again before.
THEOREM LimitsAreKept == Spec => []RunsWithinLimits
<1>1. MediaInv => RunsWithinLimits
  <2> SUFFICES ASSUME MediaInv PROVE RunsWithinLimits
    OBVIOUS
  <2>1. MediaAssumption
    BY MediaAssumption
  <2>2. /\ active \in SUBSET Jobs /\ SlotsOK(active)
        /\ \A j \in Jobs : Live(j) => j \in active
    <3>1. \A j \in Jobs : JobOK(j, jobs, file, queue, active, run, posted, spoiled)
      BY <2>1, MediaTypes
    <3> QED BY <2>1, <3>1, MediaTypes DEF JobOK, Live
  <2>3. ASSUME NEW kind \in SUBSET Jobs, NEW limit \in Nat,
               Cardinality(active \intersect kind) <= limit
        PROVE  Cardinality({k \in kind : Live(k)}) <= limit
    <3>1. {k \in kind : Live(k)} \in SUBSET (active \intersect kind)
      BY <2>2
    <3>2. IsFiniteSet(active \intersect kind)
      BY <2>1, KindsAndLimits, FS_Subset
    <3>3. /\ IsFiniteSet({k \in kind : Live(k)})
          /\ Cardinality({k \in kind : Live(k)}) <= Cardinality(active \intersect kind)
      BY <3>1, <3>2, FS_Subset
    <3>4. /\ Cardinality({k \in kind : Live(k)}) \in Nat
          /\ Cardinality(active \intersect kind) \in Nat
      BY <3>2, <3>3, FS_CardinalityType
    <3> QED BY <2>3, <3>3, <3>4
  <2>4. /\ Images \in SUBSET Jobs /\ Videos \in SUBSET Jobs
        /\ MaxImages \in Nat /\ MaxVideos \in Nat
        /\ \A j \in Images : Limit(j) = MaxImages
        /\ \A j \in Videos : Limit(j) = MaxVideos
    BY <2>1, KindsAndLimits
  <2>5. /\ Cardinality({k \in Images : Live(k)}) <= MaxImages
        /\ Cardinality({k \in Videos : Live(k)}) <= MaxVideos
    BY <2>2, <2>3, <2>4 DEF SlotsOK
  <2> SUFFICES ASSUME NEW kind \in {Images, Videos}, NEW j \in kind
               PROVE  Cardinality({k \in kind : Live(k)}) <= Limit(j)
    BY DEF RunsWithinLimits
  <2>6. CASE kind = Images
    BY <2>4, <2>5, <2>6
  <2>7. CASE kind = Videos
    BY <2>4, <2>5, <2>7
  <2> QED BY <2>6, <2>7
<1> QED BY <1>1, MediaInvHolds, PTL

\* submit() returns the job that has the key already, and neither a resumed
\* nor an interrupted job begins to post again.
THEOREM PostsAreOfOneRun == Spec => []PostedByOneRun
<1>1. MediaInv => PostedByOneRun
  <2> SUFFICES ASSUME MediaInv
               PROVE  PostedByOneRun
    OBVIOUS
  <2>1. MediaAssumption
    BY MediaAssumption
  <2>2. ASSUME NEW i \in Jobs
        PROVE  /\ posted[i] \in 0 .. Attempts
               /\ Live(i) /\ run[i].attempt > 0 => posted[i] = run[i].attempt
               /\ posted[i] > 0 => jobs[i].status # "absent"
    <3>1. JobOK(i, jobs, file, queue, active, run, posted, spoiled)
      BY <2>1, MediaTypes
    <3> QED BY <3>1 DEF JobOK, Live
  <2>3. ASSUME NEW k \in Jobs, NEW l \in Jobs, SameKey(k, l)
        PROVE  jobs[k].status = "absent" \/ jobs[l].status = "absent"
    BY <2>1, <2>3, MediaTypes DEF KeysOK
  <2>4. ASSUME NEW kind \in {Images, Videos}, NEW j \in kind
        PROVE  /\ posted[j] <= Attempts
               /\ Live(j) /\ run[j].attempt > 0 => posted[j] = run[j].attempt
    <3>1. j \in Jobs /\ Attempts \in Nat
      BY <2>1 DEF Jobs, MediaAssumption
    <3> QED BY <2>2, <3>1
  <2>5. ASSUME NEW kind \in {Images, Videos}, NEW j \in kind, Key[j] # None, posted[j] > 0,
               NEW k \in kind \ {j}, Key[k] = Key[j]
        PROVE  posted[k] = 0
    <3>1. k \in Jobs /\ j \in Jobs /\ Kind(k) = Kind(j) /\ Attempts \in Nat
      BY <2>1, KindsAndLimits DEF MediaAssumption
    <3>2. SameKey(j, k)
      BY <2>5, <3>1 DEF SameKey
    <3>3. ~(posted[k] > 0) /\ posted[k] \in 0 .. Attempts
      BY <2>2, <2>3, <2>5, <3>1, <3>2
    <3> QED BY <3>1, <3>3
  <2> QED BY <2>4, <2>5 DEF PostedByOneRun
<1> QED BY <1>1, MediaInvHolds, PTL

\* As long as no write fails, whatever is not finished in a working service is
\* in the queue or has a run, and so is whatever an image tool waits for.
THEOREM NobodyIsStranded == Spec => []NothingStranded
<1>1. MediaInv => NothingStranded
  BY DEF MediaInv, Served, NothingStranded, Live
<1> QED BY <1>1, MediaInvHolds, PTL

\* A late result or error, stop(), start() and a restart leave a finished job.
THEOREM FinishedJobsStay == Spec => FinishedStays
<1>1. MediaInv /\ [Next]_vars => [StaysFinished]_vars
  BY MediaAssumption, MediaNext DEF StepOK
<1>2. [StaysFinished]_vars =>
        [\A j \in Jobs : Finished(jobs, j) /\ j \notin spoiled \union Queued(queue) =>
            jobs'[j].status \in {jobs[j].status, "absent"}]_vars
  BY DEF StaysFinished
<1> QED BY <1>1, <1>2, MediaInvHolds, PTL DEF Spec, FinishedStays

\* Only its own run in a working service gives up a video that the provider
\* works on.
THEOREM VideosSurviveStop == Spec => VideoSurvivesStop
<1>1. MediaInv /\ [Next]_vars => [KeepsVideos]_vars
  BY MediaAssumption, MediaNext DEF StepOK
<1>2. [KeepsVideos]_vars =>
        [\A j \in Videos : Resumable(jobs, j) /\ jobs'[j].status = "failed" =>
            running /\ Live(j)]_vars
  BY DEF KeepsVideos
<1> QED BY <1>1, <1>2, MediaInvHolds, PTL DEF Spec, VideoSurvivesStop
=============================================================================
