------------------------ MODULE UpstreamFallbackProofs ------------------------
(***************************************************************************)
(* Theorems about UpstreamFallback, for every plan, pool and answer: types,*)
(* what an absent client is spared, that a credential that failed is left  *)
(* alone, and the limits of client keys and of upstream credentials.       *)
(***************************************************************************)
EXTENDS UpstreamFallback, OrderLemmas, SequenceTheorems

-----------------------------------------------------------------------------
(* The plan and the delays.                                                *)

\* The constants that are numbers.
LEMMA Numbers ==
    /\ \A r \in Requests, rule \in Rules : Cost[r][rule] \in Nat
    /\ \A o \in Owners, rule \in Rules : LimitOf[o][rule] \in Nat
    /\ \A rule \in Rules : WindowOf[rule] \in Nat \ {0}
    /\ UtilScale \in Nat /\ CooldownMs \in Nat
BY FallbackAssumption DEF Owners

LEMMA PowerOfTwo ==
    ASSUME NEW n \in Nat
    PROVE  2 ^ n \in Nat
<1>1. IsFiniteSet(1 .. n) /\ Cardinality(1 .. n) = n
  BY FS_Interval
<1>2. IsFiniteSet(SUBSET (1 .. n)) /\ Cardinality(SUBSET (1 .. n)) = 2 ^ Cardinality(1 .. n)
  BY <1>1, FS_SUBSET
<1>3. Cardinality(SUBSET (1 .. n)) \in Nat
  BY <1>2, FS_CardinalityType
<1> QED BY <1>1, <1>2, <1>3

LEMMA DelayType ==
    ASSUME NEW n \in Nat
    PROVE  /\ Backoff(n) \in Nat
           /\ \A retryAfter \in RetryAfters : DelayAfter(retryAfter, n) \in Nat
<1> USE FallbackAssumption
<1>1. Least(10, n) \in Nat
  BY DEF Least
<1>2. 2 ^ Least(10, n) \in Nat
  BY <1>1, PowerOfTwo
<1>3. BackoffBase * 2 ^ Least(10, n) \in Nat
  BY <1>2
<1>4. Backoff(n) \in Nat
  BY <1>3 DEF Backoff, Least
<1> QED BY <1>4 DEF DelayAfter, Least

\* The elements of Unique(s) are elements of s, and it has one if s has.
LEMMA UniqueType ==
    ASSUME NEW T, NEW s \in Seq(T), Len(s) > 0
    PROVE  Unique(s) \in Seq(T) /\ Len(Unique(s)) > 0
<1> DEFINE Firsts == {i \in DOMAIN s : \A j \in 1 .. i - 1 : s[j] # s[i]}
           n == Cardinality(Firsts)
           Place(k) == CHOOSE i \in Firsts : Cardinality({j \in Firsts : j <= i}) = k
           Before == [i \in Firsts |-> {j \in Firsts : j < i}]
<1>1. DOMAIN s = 1 .. Len(s) /\ Len(s) \in Nat /\ \A i \in DOMAIN s : s[i] \in T
  BY LenProperties, ElementOfSeq
<1>2. Firsts \subseteq 1 .. Len(s) /\ 1 \in Firsts
  BY <1>1
<1> HIDE DEF Firsts
<1>3. IsFiniteSet(Firsts)
  <2>1. IsFiniteSet(1 .. Len(s))
    BY <1>1, FS_Interval
  <2> QED BY <1>2, <2>1, FS_Subset
<1>4. n \in Nat /\ n > 0
  BY <1>2, <1>3, FS_CardinalityType, FS_EmptySet
<1>5. ASSUME NEW k \in 1 .. n
      PROVE  Place(k) \in Firsts
  <2>1. /\ Before \in [Firsts -> SUBSET Firsts]
        /\ \A i \in Firsts : Before[i] = {j \in Firsts : j < i}
    OBVIOUS
  <2>2. \A i \in Firsts : i \in Int
    BY <1>2
  <2>3. \A i \in Firsts : i \notin Before[i]
    BY <2>1, <2>2
  <2>4. \A i, j \in Firsts : i # j => \/ Before[i] \union {i} \subseteq Before[j]
                                      \/ Before[j] \union {j} \subseteq Before[i]
    BY <2>1, <2>2
  <2> HIDE DEF Before
  <2>5. k - 1 \in 0 .. Cardinality(Firsts) - 1
    BY <1>4
  <2>6. PICK i \in Firsts : Cardinality(Before[i]) = k - 1
    BY <1>3, <2>1, <2>3, <2>4, <2>5, EveryRankTaken
  <2>7. {j \in Firsts : j <= i} = Before[i] \union {i} /\ i \notin Before[i]
    BY <2>1, <2>2, <2>3
  <2>8. IsFiniteSet(Before[i])
    BY <1>3, <2>1, FS_Subset
  <2>9. Cardinality({j \in Firsts : j <= i}) = k
    <3>1. Cardinality(Before[i] \union {i}) = Cardinality(Before[i]) + 1
      BY <2>7, <2>8, FS_AddElement
    <3>2. Cardinality(Before[i] \union {i}) = k
      <4>1. k \in Int
        BY <1>4
      <4> QED BY <2>6, <3>1, <4>1
    <3> QED BY <2>7, <3>2, Zenon
  <2> QED BY <2>9
<1>6. Unique(s) = [k \in 1 .. n |-> s[Place(k)]]
  BY DEF Unique, Firsts
<1> HIDE DEF n, Place
<1>7. \A k \in 1 .. n : s[Place(k)] \in T
  BY <1>1, <1>2, <1>5
<1>8. Unique(s) \in [1 .. n -> T]
  BY <1>6, <1>7
<1> QED BY <1>4, <1>8

Models == DOMAIN CredentialsOf

LEMMA PlanType ==
    ASSUME NEW r \in Requests
    PROVE  Plan(r) \in Seq(Models) /\ Len(Plan(r)) > 0
<1> USE FallbackAssumption DEF Models
<1>1. CASE Mode[r] = "off"
  <2>1. Plan(r) = <<Primary[r]>>
    BY <1>1 DEF Plan
  <2> QED BY <2>1
<1>2. CASE Mode[r] = "retry"
  <2>1. Plan(r) = [i \in 1 .. RetryCount[r] + 1 |-> Primary[r]]
    BY <1>2 DEF Plan
  <2> DEFINE n == RetryCount[r] + 1
  <2>2. n \in Nat /\ n > 0
    OBVIOUS
  <2>3. Plan(r) \in [1 .. n -> Models]
    BY <2>1
  <2> HIDE DEF n
  <2> QED BY <2>2, <2>3
<1>3. CASE Mode[r] = "model-chain"
  <2> DEFINE s == <<Primary[r]>> \o FallbackModels[r]
  <2>1. Plan(r) = Unique(s)
    BY <1>3 DEF Plan
  <2>2. s \in Seq(Models) /\ Len(s) > 0
    OBVIOUS
  <2> HIDE DEF s, Models
  <2> QED BY <2>1, <2>2, UniqueType
<1> QED BY <1>1, <1>2, <1>3

-----------------------------------------------------------------------------
(* The choice of credentials.                                              *)

Quadruples == Int \X Int \X Int \X Int

\* Less unfolded.
LEMMA LessMeans ==
    ASSUME NEW x \in Quadruples, NEW y \in Quadruples
    PROVE  Less(x, y) <=>
             \/ x[1] < y[1]
             \/ x[1] = y[1] /\ x[2] < y[2]
             \/ x[1] = y[1] /\ x[2] = y[2] /\ x[3] < y[3]
             \/ x[1] = y[1] /\ x[2] = y[2] /\ x[3] = y[3] /\ x[4] < y[4]
<1>1. DOMAIN x = 1 .. 4
  BY DEF Quadruples
<1> QED BY <1>1 DEF Less, Quadruples

LEMMA LessIsLinear ==
    /\ \A x \in Quadruples : ~Less(x, x)
    /\ \A x, y \in Quadruples : x[4] # y[4] => Less(x, y) \/ Less(y, x)
    /\ \A x, y, z \in Quadruples : Less(x, y) /\ Less(y, z) => Less(x, z)
<1>1. \A x \in Quadruples : /\ x[1] \in Int /\ x[2] \in Int
                            /\ x[3] \in Int /\ x[4] \in Int
  BY DEF Quadruples
<1>2. \A x \in Quadruples : ~Less(x, x)
  BY <1>1, LessMeans
<1>3. \A x, y \in Quadruples : x[4] # y[4] => Less(x, y) \/ Less(y, x)
  BY <1>1, LessMeans
<1>4. ASSUME NEW x \in Quadruples, NEW y \in Quadruples, NEW z \in Quadruples,
             Less(x, y), Less(y, z)
      PROVE  Less(x, z)
  BY <1>1, <1>4, LessMeans
<1> QED BY <1>2, <1>3, <1>4

\* Arranged lists elements of S, all of them if their ranks are distinct.
LEMMA ArrangedType ==
    ASSUME NEW S, IsFiniteSet(S), NEW rank \in [S -> Quadruples],
           \A c, d \in S : c # d => rank[c][4] # rank[d][4]
    PROVE  /\ Arranged(S, rank) \in Seq(S)
           /\ DOMAIN Arranged(S, rank) = 1 .. Cardinality(S)
           /\ \A k \in DOMAIN Arranged(S, rank) : Arranged(S, rank)[k] \in S
<1> DEFINE n == Cardinality(S)
           Before == [c \in S |-> {d \in S : Less(rank[d], rank[c])}]
           Place(k) == CHOOSE c \in S : Cardinality({d \in S : Less(rank[d], rank[c])}) = k - 1
<1>1. n \in Nat
  BY FS_CardinalityType
<1>2. ASSUME NEW k \in 1 .. n
      PROVE  Place(k) \in S
  <2>1. /\ Before \in [S -> SUBSET S]
        /\ \A c \in S : Before[c] = {d \in S : Less(rank[d], rank[c])}
    OBVIOUS
  <2> HIDE DEF Before
  <2>2. \A c \in S : c \notin Before[c]
    BY <2>1, LessIsLinear
  <2>3. ASSUME NEW c \in S, NEW d \in S, Less(rank[c], rank[d])
        PROVE  Before[c] \union {c} \subseteq Before[d]
    BY <2>1, <2>3, LessIsLinear
  <2>4. \A c, d \in S : c # d => \/ Before[c] \union {c} \subseteq Before[d]
                                 \/ Before[d] \union {d} \subseteq Before[c]
    BY <2>3, LessIsLinear
  <2>5. k - 1 \in 0 .. Cardinality(S) - 1
    BY <1>1
  <2>6. PICK c \in S : Cardinality(Before[c]) = k - 1
    BY <2>1, <2>2, <2>4, <2>5, EveryRankTaken
  <2> QED BY <2>1, <2>6
<1>3. Arranged(S, rank) = [k \in 1 .. n |-> Place(k)]
  BY DEF Arranged
<1> HIDE DEF n, Place
<1>4. Arranged(S, rank) \in [1 .. n -> S]
  BY <1>2, <1>3
<1>5. Arranged(S, rank) \in Seq(S)
  BY <1>1, <1>4
<1> QED BY <1>4, <1>5 DEF n

-----------------------------------------------------------------------------
(* Types and the progress of a request.                                    *)

Failure == [model : Models, delay : Nat]

PoolTypes ==
    /\ counter \in [Owners -> [Rules -> [start : Nat, value : Nat]]]
    /\ cooldown \in [Credentials -> Nat]
    /\ last \in [Credentials -> [ok : BOOLEAN, at : Nat]]
    /\ forced \in [Credentials -> Nat]

AttemptTypes ==
    /\ index \in [Requests -> Nat]
    /\ chain \in [Requests -> Seq(Credentials)]
    /\ saturated \in [Requests -> BOOLEAN]
    /\ failed \in [Requests -> Seq(Failure)]
    /\ wake \in [Requests -> Nat]

OtherTypes ==
    /\ now \in Nat
    /\ stage \in [Requests -> {"new"} \union Running \union Ended]
    /\ gone \subseteq Requests
    /\ admitted \in [Requests -> Nat \union {-1}]

\* How far a request is in its plan, and how many attempts it has given up.
ProgressOf(r) ==
    /\ index[r] <= Len(Plan(r))
    /\ Len(failed[r]) <= index[r]
    /\ stage[r] \in {"new", "ready"} => index[r] = 0
    /\ stage[r] \in {"draining", "waiting"} => index[r] < Len(Plan(r))
    /\ stage[r] = "fetching" => Len(failed[r]) < index[r]
    /\ stage[r] = "draining" => Len(failed[r]) > 0

Progress == \A r \in Requests : ProgressOf(r)

Typed == PoolTypes /\ AttemptTypes /\ OtherTypes /\ Progress

LEMMA TypedImpliesTypeOK == Typed => TypeOK
<1> SUFFICES ASSUME Typed PROVE TypeOK
  OBVIOUS
<1>1. ASSUME NEW r \in Requests
      PROVE  index[r] \in 0 .. Len(Plan(r)) /\ chain[r] \in Seq(Credentials)
             /\ Len(failed[r]) <= index[r]
  <2>1. Len(Plan(r)) \in Nat
    BY PlanType, LenProperties
  <2> QED BY <2>1 DEF Typed, AttemptTypes, Progress, ProgressOf
<1> QED BY <1>1 DEF Typed, PoolTypes, AttemptTypes, OtherTypes, TypeOK

LEMMA InitTyped == Init => Typed
<1> SUFFICES ASSUME Init PROVE Typed
  OBVIOUS
<1> USE FallbackAssumption
<1>1. PoolTypes
  BY DEF Init, PoolTypes
<1>2. AttemptTypes
  BY DEF Init, AttemptTypes
<1>3. OtherTypes
  BY DEF Init, OtherTypes
<1>4. Progress
  <2> SUFFICES ASSUME NEW r \in Requests
               PROVE  /\ index[r] <= Len(Plan(r)) /\ Len(failed[r]) <= index[r]
                      /\ index[r] = 0 /\ stage[r] = "new"
    BY DEF Progress, ProgressOf
  <2>1. index[r] = 0 /\ failed[r] = <<>> /\ stage[r] = "new"
    BY DEF Init
  <2>2. Len(Plan(r)) > 0 /\ Len(Plan(r)) \in Nat
    BY PlanType, LenProperties
  <2> QED BY <2>1, <2>2
<1> QED BY <1>1, <1>2, <1>3, <1>4 DEF Typed

-----------------------------------------------------------------------------
(* The pool.                                                               *)

\* The window of a moment starts at or before it, and moves only to that moment.
LEMMA StartOfWindow ==
    ASSUME NEW n \in Nat, NEW w \in Nat \ {0}
    PROVE  /\ (n \div w) * w \in Nat /\ (n \div w) * w <= n
           /\ ((n + 1) \div w) * w \in {(n \div w) * w, n + 1}
<1> DEFINE q == n \div w
           p == (n + 1) \div w
<1>1. q \in Nat /\ w * q <= n /\ n < w * q + w
  OBVIOUS
<1>2. p \in Nat /\ w * p <= n + 1 /\ n + 1 < w * p + w
  OBVIOUS
<1> HIDE DEF q, p
<1>3. w * q \in Nat /\ w * p \in Nat /\ w * q = q * w /\ w * p = p * w
  BY <1>1, <1>2
<1>4. p = q \/ p = q + 1
  <2>1. ~(p < q)
    <3>1. p < q => w * p + w <= w * q
      BY <1>1, <1>2
    <3> QED BY <1>1, <1>2, <1>3, <3>1
  <2>2. ~(p > q + 1)
    <3>1. p > q + 1 => w * q + w + w <= w * p
      BY <1>1, <1>2
    <3> QED BY <1>1, <1>2, <1>3, <3>1
  <2> QED BY <1>1, <1>2, <2>1, <2>2
<1>5. p = q + 1 => w * p = n + 1
  <2>1. p = q + 1 => w * p = w * q + w
    BY <1>1, <1>2
  <2> QED BY <1>1, <1>2, <1>3, <2>1
<1> QED BY <1>1, <1>3, <1>4, <1>5 DEF q, p

LEMMA UsedType ==
    ASSUME PoolTypes, now \in Nat, NEW o \in Owners, NEW rule \in Rules
    PROVE  /\ WindowStart(rule) \in Nat
           /\ Used(o, rule) \in Nat
           /\ LimitOf[o][rule] \in Nat
<1>1. WindowOf[rule] \in Nat \ {0} /\ LimitOf[o][rule] \in Nat
  BY Numbers
<1>2. WindowStart(rule) \in Nat
  BY <1>1, StartOfWindow DEF WindowStart
<1>3. counter[o][rule].value \in Nat
  BY DEF PoolTypes
<1>4. Used(o, rule) \in Nat
  BY <1>3 DEF Used
<1> QED BY <1>1, <1>2, <1>4

LEMMA UtilizationType ==
    ASSUME PoolTypes, now \in Nat, NEW c \in Credentials, NEW r \in Requests
    PROVE  Utilization(c, r) \in Int
<1> DEFINE share(rule) == (Used(c, rule) + Cost[r][rule]) * (UtilScale \div LimitOf[c][rule])
           T == {share(rule) : rule \in Limited(c)}
           Shares == T \union {0}
<1>1. ASSUME NEW rule \in Limited(c)
      PROVE  share(rule) \in Int
  <2>1. /\ Used(c, rule) \in Nat /\ LimitOf[c][rule] \in Nat
        /\ LimitOf[c][rule] > 0 /\ rule \in Rules
    BY <1>1, UsedType DEF Limited, Owners
  <2>2. Used(c, rule) + Cost[r][rule] \in Int
    BY <2>1, Numbers
  <2>3. UtilScale \div LimitOf[c][rule] \in Int
    <3>1. UtilScale \in Nat
      BY Numbers
    <3> QED BY <2>1, <3>1
  <2> QED BY <2>2, <2>3
<1> HIDE DEF share
<1>2. IsFiniteSet(Limited(c))
  BY FS_Subset, FallbackAssumption DEF Limited
<1>3. IsFiniteSet(T)
  <2> DEFINE f == [rule \in Limited(c) |-> share(rule)]
  <2>1. f \in Surjection(Limited(c), T)
    BY DEF Surjection
  <2> QED BY <1>2, <2>1, FS_Surjection
<1>4. IsFiniteSet(Shares) /\ Shares # {} /\ Shares \subseteq Int
  <2>1. T \subseteq Int
    BY <1>1
  <2> HIDE DEF T
  <2>2. IsFiniteSet(T \union {0})
    BY <1>3, FS_AddElement
  <2>3. Shares # {} /\ Shares \subseteq Int
    BY <2>1
  <2> QED BY <2>2, <2>3
<1>5. \E x \in Shares : \A y \in Shares : y <= x
  BY <1>4, GreatestNumber
<1>6. Utilization(c, r) = CHOOSE x \in Shares : \A y \in Shares : y <= x
  BY DEF Utilization, share
<1> HIDE DEF Shares
<1>7. Utilization(c, r) \in Shares
  BY <1>5, <1>6
<1> QED BY <1>4, <1>7

\* The chain of an attempt lists the candidates and nothing else.
LEMMA OrderedType ==
    ASSUME PoolTypes, now \in Nat, NEW m \in Models, NEW r \in Requests,
           NEW S \in SUBSET CredentialsOf[m]
    PROVE  /\ Ordered(S, r) \in Seq(Credentials)
           /\ \A k \in DOMAIN Ordered(S, r) : Ordered(S, r)[k] \in S
<1> DEFINE Top == {c \in S : \A d \in S : Priority[c] <= Priority[d]}
           SpillOver == \A c \in Top : 10 * Utilization(c, r) >= 8 * UtilScale
           Usage == [c \in S |-> Utilization(c, r)]
           rank == [c \in S |->
                      IF SpillOver THEN <<Usage[c], Priority[c], -Weight[c], Index[c]>>
                                   ELSE <<Priority[c], Usage[c], -Weight[c], Index[c]>>]
<1>1. S \subseteq Credentials /\ \A c, d \in S : Index[c] = Index[d] => c = d
  BY FallbackAssumption DEF Models
<1>2. IsFiniteSet(S)
  BY <1>1, FS_Subset, FallbackAssumption
<1>3. Ordered(S, r) = Arranged(S, rank)
  BY DEF Ordered
<1>4. \A c \in S : /\ Usage[c] \in Int /\ Priority[c] \in Int
                   /\ -Weight[c] \in Int /\ Index[c] \in Int
  <2> TAKE c \in S
  <2>1. Usage[c] \in Int
    BY <1>1, UtilizationType
  <2>2. Priority[c] \in Int /\ Weight[c] \in Int /\ Index[c] \in Int
    BY <1>1, FallbackAssumption
  <2>3. -Weight[c] \in Int
    BY <2>2
  <2> QED BY <2>1, <2>2, <2>3
<1> HIDE DEF Usage, SpillOver
<1>5. rank \in [S -> Quadruples] /\ \A c \in S : rank[c][4] = Index[c]
  BY <1>4 DEF Quadruples
<1> HIDE DEF rank
<1>6. \A c, d \in S : c # d => rank[c][4] # rank[d][4]
  BY <1>1, <1>5
<1>7. /\ Arranged(S, rank) \in Seq(S)
      /\ \A k \in DOMAIN Arranged(S, rank) : Arranged(S, rank)[k] \in S
  BY <1>2, <1>5, <1>6, ArrangedType
<1>8. Seq(S) \subseteq Seq(Credentials)
  BY <1>1
<1> QED BY <1>3, <1>7, <1>8

LEMMA ChargeType ==
    ASSUME PoolTypes, now \in Nat, NEW o \in Owners, NEW r \in Requests, Charge(o, r)
    PROVE  counter' \in [Owners -> [Rules -> [start : Nat, value : Nat]]]
<1> DEFINE charged == [rule \in Rules |->
                         IF rule \in Limited(o)
                         THEN [start |-> WindowStart(rule),
                               value |-> Used(o, rule) + Cost[r][rule]]
                         ELSE counter[o][rule]]
<1>1. \A rule \in Rules :
         /\ WindowStart(rule) \in Nat /\ Used(o, rule) + Cost[r][rule] \in Nat
         /\ counter[o][rule] \in [start : Nat, value : Nat]
  <2> TAKE rule \in Rules
  <2>1. WindowStart(rule) \in Nat /\ Used(o, rule) \in Nat
    BY UsedType
  <2>2. Cost[r][rule] \in Nat
    BY Numbers
  <2>3. counter[o][rule] \in [start : Nat, value : Nat]
    BY DEF PoolTypes
  <2> QED BY <2>1, <2>2, <2>3
<1>2. charged \in [Rules -> [start : Nat, value : Nat]]
  BY <1>1
<1>3. counter' = [counter EXCEPT ![o] = charged]
  BY DEF Charge
<1> HIDE DEF charged
<1> QED BY <1>2, <1>3 DEF PoolTypes

\* A credential that failed last cools down for the whole time.
Sidelined ==
    \A c \in Credentials : ~last[c].ok => cooldown[c] = last[c].at + CooldownMs

LEMMA OutcomeKeepsPool ==
    ASSUME PoolTypes, AttemptTypes, now \in Nat, Sidelined,
           NEW r \in Requests, NEW status \in Statuses, NEW c \in Credentials,
           RecordOutcome(r, status, c)
    PROVE  PoolTypes' /\ Sidelined'
<1>1. last' = [last EXCEPT ![c] = [ok |-> CountsAsUse(status), at |-> now]]
  BY DEF RecordOutcome
<1>2. last' \in [Credentials -> [ok : BOOLEAN, at : Nat]]
  <2>1. [ok |-> CountsAsUse(status), at |-> now] \in [ok : BOOLEAN, at : Nat]
    BY DEF CountsAsUse
  <2> QED BY <1>1, <2>1 DEF PoolTypes
<1>3. /\ last'[c].ok = CountsAsUse(status) /\ last'[c].at = now
      /\ \A d \in Credentials \ {c} : last'[d] = last[d]
  BY <1>1 DEF PoolTypes
<1>4. CASE CountsAsUse(status)
  <2>1. /\ Charge(c, r) /\ cooldown' = [cooldown EXCEPT ![c] = 0]
        /\ forced' = [forced EXCEPT ![c] = @ + IF saturated[r] THEN 1 ELSE 0]
    BY <1>4 DEF RecordOutcome
  <2>2. counter' \in [Owners -> [Rules -> [start : Nat, value : Nat]]]
    BY <2>1, ChargeType DEF Owners
  <2>3. /\ cooldown' \in [Credentials -> Nat]
        /\ \A d \in Credentials \ {c} : cooldown'[d] = cooldown[d]
    BY <2>1 DEF PoolTypes
  <2>4. forced' \in [Credentials -> Nat]
    <3> DEFINE use == IF saturated[r] THEN 1 ELSE 0
    <3>1. forced' = [forced EXCEPT ![c] = forced[c] + use] /\ use \in Nat
      BY <2>1
    <3> HIDE DEF use
    <3> QED BY <3>1 DEF PoolTypes
  <2> QED BY <1>2, <1>3, <1>4, <2>2, <2>3, <2>4 DEF PoolTypes, Sidelined
<1>5. CASE ~CountsAsUse(status)
  <2>1. cooldown' = [cooldown EXCEPT ![c] = now + CooldownMs] /\ UNCHANGED <<counter, forced>>
    BY <1>5 DEF RecordOutcome
  <2>2. /\ cooldown' \in [Credentials -> Nat] /\ cooldown'[c] = now + CooldownMs
        /\ \A d \in Credentials \ {c} : cooldown'[d] = cooldown[d]
    <3>1. now + CooldownMs \in Nat
      BY Numbers
    <3> QED BY <2>1, <3>1 DEF PoolTypes
  <2> QED BY <1>2, <1>3, <1>5, <2>1, <2>2 DEF PoolTypes, Sidelined
<1> QED BY <1>4, <1>5

LEMMA LearningKeepsPool ==
    ASSUME PoolTypes, AttemptTypes, now \in Nat, Sidelined,
           NEW r \in Requests, NEW status \in Statuses, NEW relayed \in BOOLEAN,
           PoolLearns(r, status, relayed)
    PROVE  PoolTypes' /\ Sidelined'
<1>1. CASE UNCHANGED poolVars
  BY <1>1 DEF poolVars, PoolTypes, Sidelined
<1>2. ASSUME NEW i \in DOMAIN chain[r], NEW named \in {"id", "target", "none"},
             RecordOutcome(r, status, ChargedTo(r, chain[r][i], named, relayed))
      PROVE  PoolTypes' /\ Sidelined'
  <2>1. chain[r] \in Seq(Credentials) /\ chain[r] # <<>>
    BY <1>2 DEF AttemptTypes
  <2>2. chain[r][i] \in Credentials /\ Head(chain[r]) \in Credentials
    BY <1>2, <2>1, ElementOfSeq, LenProperties, HeadTailProperties
  <2>3. ChargedTo(r, chain[r][i], named, relayed) \in Credentials
    BY <2>2 DEF ChargedTo
  <2> QED BY <1>2, <2>3, OutcomeKeepsPool
<1> QED BY <1>1, <1>2 DEF PoolLearns

-----------------------------------------------------------------------------
(* The steps of a request.                                                 *)

\* Nothing is relayed to a client that has left.
Departed == \A r \in gone : stage[r] # "relayed"

FallbackInv == Typed /\ Sidelined /\ Departed

\* A step of one request leaves the progress of the others alone.
LEMMA ProgressOfOne ==
    ASSUME Progress, NEW r \in Requests, ProgressOf(r)',
           \A q \in Requests \ {r} : index'[q] = index[q] /\ failed'[q] = failed[q]
                                     /\ stage'[q] = stage[q]
    PROVE  Progress'
<1> SUFFICES ASSUME NEW q \in Requests PROVE ProgressOf(q)'
  BY DEF Progress
<1>1. CASE q = r
  BY <1>1
<1>2. CASE q # r
  <2>1. Plan(q)' = Plan(q)
    BY DEF Plan
  <2> QED BY <1>2, <2>1 DEF Progress, ProgressOf
<1> QED BY <1>1, <1>2

\* A request moves to another stage.
LEMMA StageMoves ==
    ASSUME OtherTypes, NEW r \in Requests, NEW to \in Running \union Ended,
           stage' = [stage EXCEPT ![r] = to],
           Departed, to = "relayed" => r \notin gone,
           UNCHANGED <<now, gone>>, admitted' \in [Requests -> Nat \union {-1}]
    PROVE  /\ OtherTypes' /\ Departed'
           /\ stage'[r] = to /\ \A q \in Requests \ {r} : stage'[q] = stage[q]
<1>1. stage'[r] = to /\ \A q \in Requests \ {r} : stage'[q] = stage[q]
  BY DEF OtherTypes
<1>2. OtherTypes'
  BY DEF OtherTypes
<1>3. Departed'
  BY <1>1 DEF OtherTypes, Departed
<1> QED BY <1>1, <1>2, <1>3

LEMMA AdmitKeeps ==
    ASSUME FallbackInv, NEW r \in Requests, Admit(r)
    PROVE  FallbackInv'
<1> USE DEF FallbackInv, Typed
<1>1. /\ stage[r] = "new" /\ Charge(ClientKey, r)
      /\ stage' = [stage EXCEPT ![r] = "ready"]
      /\ admitted' = [admitted EXCEPT ![r] = now]
      /\ UNCHANGED <<now, gone, index, chain, saturated, failed, wake, cooldown, last, forced>>
  BY DEF Admit, attemptVars
<1>2. PoolTypes'
  <2>1. counter' \in [Owners -> [Rules -> [start : Nat, value : Nat]]]
    BY <1>1, ChargeType DEF OtherTypes, Owners
  <2> QED BY <1>1, <2>1 DEF PoolTypes
<1>3. AttemptTypes' /\ Sidelined'
  BY <1>1 DEF AttemptTypes, Sidelined
<1>4. admitted' \in [Requests -> Nat \union {-1}]
  BY <1>1 DEF OtherTypes
<1>5. /\ OtherTypes' /\ Departed'
      /\ stage'[r] = "ready" /\ \A q \in Requests \ {r} : stage'[q] = stage[q]
  BY <1>1, <1>4, StageMoves DEF Running
<1>6. ProgressOf(r)'
  BY <1>1, <1>5 DEF Progress, ProgressOf, Plan
<1>7. Progress'
  BY <1>1, <1>5, <1>6, ProgressOfOne
<1> QED BY <1>2, <1>3, <1>5, <1>7

LEMMA EndKeeps ==
    ASSUME FallbackInv, NEW r \in Requests, Refuse(r) \/ Stop(r)
    PROVE  FallbackInv'
<1> USE DEF FallbackInv, Typed
<1>1. PICK to \in {"refused", "closed"} :
        /\ stage' = [stage EXCEPT ![r] = to]
        /\ UNCHANGED <<now, gone, index, chain, saturated, failed, wake, counter, cooldown,
                       last, forced, admitted>>
  BY DEF Refuse, Stop, attemptVars, poolVars
<1>2. PoolTypes' /\ AttemptTypes' /\ Sidelined'
  BY <1>1 DEF PoolTypes, AttemptTypes, Sidelined
<1>3. /\ OtherTypes' /\ Departed'
      /\ stage'[r] = to /\ \A q \in Requests \ {r} : stage'[q] = stage[q]
  <2>1. admitted' \in [Requests -> Nat \union {-1}]
    BY <1>1 DEF OtherTypes
  <2> QED BY <1>1, <2>1, StageMoves DEF Ended
<1>4. ProgressOf(r)'
  BY <1>1, <1>3 DEF Progress, ProgressOf, Plan
<1>5. Progress'
  BY <1>1, <1>3, <1>4, ProgressOfOne
<1> QED BY <1>2, <1>3, <1>5

\* The model of the attempt that comes next.
LEMMA NextModel ==
    ASSUME FallbackInv, NEW r \in Requests, AtLoopTop(r)
    PROVE  /\ Plan(r)[index[r] + 1] \in Models
           /\ index[r] \in Nat /\ index[r] + 1 <= Len(Plan(r)) /\ Len(Plan(r)) \in Nat
           /\ Len(failed[r]) <= index[r] /\ Len(failed[r]) \in Nat
<1> USE DEF FallbackInv, Typed
<1>1. Plan(r) \in Seq(Models) /\ Len(Plan(r)) \in Nat /\ Len(Plan(r)) > 0
  BY PlanType, LenProperties
<1>2. index[r] \in Nat /\ failed[r] \in Seq(Failure)
  BY DEF AttemptTypes
<1>3. index[r] < Len(Plan(r)) /\ Len(failed[r]) <= index[r]
  BY <1>1 DEF AtLoopTop, Progress, ProgressOf
<1>4. index[r] + 1 \in 1 .. Len(Plan(r))
  BY <1>1, <1>2, <1>3
<1>5. Plan(r)[index[r] + 1] \in Models
  BY <1>1, <1>4, ElementOfSeq
<1> QED BY <1>1, <1>2, <1>3, <1>4, <1>5, LenProperties

LEMMA AttemptKeeps ==
    ASSUME FallbackInv, NEW r \in Requests, Attempt(r)
    PROVE  FallbackInv'
<1> USE DEF FallbackInv, Typed
<1> DEFINE model == Plan(r)[index[r] + 1]
<1>1. /\ AtLoopTop(r)
      /\ stage' = [stage EXCEPT ![r] = "fetching"]
      /\ index' = [index EXCEPT ![r] = @ + 1]
      /\ chain' = [chain EXCEPT ![r] = Ordered(Candidates(r, model), r)]
      /\ saturated' = [saturated EXCEPT ![r] =
                         CredentialsOf[model] # {} /\ Available(r, model) = {}]
      /\ wake' = [wake EXCEPT ![r] = 0]
      /\ UNCHANGED <<now, gone, failed, counter, cooldown, last, forced, admitted>>
  BY DEF Attempt, poolVars
<1>2. /\ model \in Models
      /\ index[r] \in Nat /\ index[r] + 1 <= Len(Plan(r)) /\ Len(Plan(r)) \in Nat
      /\ Len(failed[r]) <= index[r] /\ Len(failed[r]) \in Nat
  BY <1>1, NextModel
<1>3. Ordered(Candidates(r, model), r) \in Seq(Credentials)
  <2>1. Candidates(r, model) \subseteq CredentialsOf[model]
    BY DEF Candidates, Available
  <2> HIDE DEF model
  <2> QED BY <1>2, <2>1, OrderedType DEF OtherTypes
<1> HIDE DEF model
<1>4. PoolTypes' /\ Sidelined'
  BY <1>1 DEF PoolTypes, Sidelined
<1>5. AttemptTypes'
  <2>1. index' \in [Requests -> Nat] /\ wake' \in [Requests -> Nat]
    <3>1. index' = [index EXCEPT ![r] = index[r] + 1] /\ index[r] + 1 \in Nat
      BY <1>1, <1>2
    <3>2. wake' = [wake EXCEPT ![r] = 0]
      BY <1>1
    <3> QED BY <3>1, <3>2 DEF AttemptTypes
  <2>2. chain' \in [Requests -> Seq(Credentials)]
    BY <1>1, <1>3 DEF AttemptTypes
  <2>3. saturated' \in [Requests -> BOOLEAN]
    <3> DEFINE full == CredentialsOf[model] # {} /\ Available(r, model) = {}
    <3>1. saturated' = [saturated EXCEPT ![r] = full] /\ full \in BOOLEAN
      BY <1>1
    <3> HIDE DEF full
    <3> QED BY <3>1 DEF AttemptTypes
  <2> QED BY <1>1, <2>1, <2>2, <2>3 DEF AttemptTypes
<1>6. /\ OtherTypes' /\ Departed'
      /\ stage'[r] = "fetching" /\ \A q \in Requests \ {r} : stage'[q] = stage[q]
  <2>1. admitted' \in [Requests -> Nat \union {-1}]
    BY <1>1 DEF OtherTypes
  <2> QED BY <1>1, <2>1, StageMoves DEF Running
<1>7. index'[r] = index[r] + 1 /\ \A q \in Requests \ {r} : index'[q] = index[q]
  BY <1>1 DEF AttemptTypes
<1>8. ProgressOf(r)'
  <2>1. Plan(r)' = Plan(r) /\ failed' = failed
    BY <1>1 DEF Plan
  <2>2. /\ index'[r] <= Len(Plan(r)) /\ Len(failed[r]) <= index'[r]
        /\ Len(failed[r]) < index'[r]
    BY <1>2, <1>7
  <2>3. stage'[r] = "fetching"
    BY <1>6
  <2> QED BY <2>1, <2>2, <2>3 DEF ProgressOf
<1>9. Progress'
  BY <1>1, <1>6, <1>7, <1>8, ProgressOfOne
<1> QED BY <1>4, <1>5, <1>6, <1>9

\* The attempt under way is given up.
LEMMA FailType ==
    ASSUME FallbackInv, NEW r \in Requests, NEW delay \in Nat,
           stage[r] = "fetching", Fail(r, delay)
    PROVE  /\ failed' \in [Requests -> Seq(Failure)]
           /\ Len(failed'[r]) = Len(failed[r]) + 1
           /\ Len(failed[r]) \in Nat /\ Len(failed[r]) < index[r]
           /\ \A q \in Requests \ {r} : failed'[q] = failed[q]
<1> USE DEF FallbackInv, Typed
<1> DEFINE f == [model |-> Plan(r)[index[r]], delay |-> delay]
<1>1. /\ Plan(r) \in Seq(Models) /\ Len(Plan(r)) \in Nat
      /\ failed[r] \in Seq(Failure) /\ Len(failed[r]) \in Nat
      /\ index[r] \in Nat /\ index[r] <= Len(Plan(r)) /\ Len(failed[r]) < index[r]
  <2>1. Plan(r) \in Seq(Models) /\ failed[r] \in Seq(Failure) /\ index[r] \in Nat
    BY PlanType DEF AttemptTypes
  <2> QED BY <2>1, LenProperties DEF Progress, ProgressOf
<1>2. f \in Failure
  <2>1. index[r] \in 1 .. Len(Plan(r))
    BY <1>1
  <2>2. Plan(r)[index[r]] \in Models
    BY <1>1, <2>1, ElementOfSeq
  <2> QED BY <2>2 DEF Failure
<1>3. failed' = [failed EXCEPT ![r] = Append(failed[r], f)]
  BY DEF Fail
<1> HIDE DEF f
<1>4. /\ Append(failed[r], f) \in Seq(Failure)
      /\ Len(Append(failed[r], f)) = Len(failed[r]) + 1
  BY <1>1, <1>2, AppendProperties
<1> QED BY <1>1, <1>3, <1>4 DEF AttemptTypes

\* chain and saturated when the variables of an attempt end.
LEMMA OverType ==
    ASSUME AttemptTypes, NEW r \in Requests, AttemptOver(r)
    PROVE  chain' \in [Requests -> Seq(Credentials)] /\ saturated' \in [Requests -> BOOLEAN]
<1>1. <<>> \in Seq(Credentials)
  OBVIOUS
<1> QED BY <1>1 DEF AttemptTypes, AttemptOver

LEMMA FallBackKeeps ==
    ASSUME FallbackInv, NEW r \in Requests, FallBack(r)
    PROVE  FallbackInv'
<1> USE DEF FallbackInv, Typed
<1>1. PICK status \in Statuses, retryAfter \in RetryAfters :
        /\ stage[r] = "fetching" /\ HasNext(r)
        /\ Fail(r, DelayAfter(retryAfter, Len(failed[r])))
        /\ PoolLearns(r, status, FALSE)
        /\ AttemptOver(r)
        /\ stage' = [stage EXCEPT ![r] = "draining"]
        /\ UNCHANGED <<now, gone, index, wake, admitted>>
  BY DEF FallBack
<1>2. failed[r] \in Seq(Failure) /\ Len(failed[r]) \in Nat
  <2>1. failed[r] \in Seq(Failure)
    BY DEF AttemptTypes
  <2> QED BY <2>1, LenProperties
<1>3. /\ failed' \in [Requests -> Seq(Failure)]
      /\ Len(failed'[r]) = Len(failed[r]) + 1
      /\ Len(failed[r]) < index[r]
      /\ \A q \in Requests \ {r} : failed'[q] = failed[q]
  BY <1>1, <1>2, DelayType, FailType
<1>4. PoolTypes' /\ Sidelined'
  BY <1>1, LearningKeepsPool DEF OtherTypes
<1>5. AttemptTypes'
  BY <1>1, <1>3, OverType DEF AttemptTypes
<1>6. /\ OtherTypes' /\ Departed'
      /\ stage'[r] = "draining" /\ \A q \in Requests \ {r} : stage'[q] = stage[q]
  <2>1. admitted' \in [Requests -> Nat \union {-1}]
    BY <1>1 DEF OtherTypes
  <2> QED BY <1>1, <2>1, StageMoves DEF Running
<1>7. ProgressOf(r)'
  <2>1. index[r] \in Nat /\ index[r] <= Len(Plan(r)) /\ index[r] < Len(Plan(r))
    BY <1>1 DEF AttemptTypes, Progress, ProgressOf, HasNext
  <2>2. Plan(r)' = Plan(r) /\ index'[r] = index[r]
    BY <1>1 DEF Plan
  <2>3. Len(failed'[r]) <= index[r] /\ Len(failed'[r]) > 0
    BY <1>2, <1>3, <2>1
  <2> QED BY <1>6, <2>1, <2>2, <2>3 DEF ProgressOf
<1>8. Progress'
  BY <1>1, <1>3, <1>6, <1>7, ProgressOfOne
<1> QED BY <1>4, <1>5, <1>6, <1>8

LEMMA DrainedKeeps ==
    ASSUME FallbackInv, NEW r \in Requests, Drained(r)
    PROVE  FallbackInv'
<1> USE DEF FallbackInv, Typed
<1>1. /\ stage[r] = "draining"
      /\ stage' = [stage EXCEPT ![r] = "waiting"]
      /\ wake' = [wake EXCEPT ![r] = now + failed[r][Len(failed[r])].delay]
      /\ UNCHANGED <<now, gone, index, chain, saturated, failed, counter, cooldown, last,
                     forced, admitted>>
  BY DEF Drained, poolVars
<1>2. wake' \in [Requests -> Nat]
  <2>1. failed[r] \in Seq(Failure) /\ Len(failed[r]) > 0
    BY <1>1 DEF AttemptTypes, Progress, ProgressOf
  <2>2. Len(failed[r]) \in Nat /\ Len(failed[r]) \in 1 .. Len(failed[r])
    BY <2>1, LenProperties
  <2>3. failed[r][Len(failed[r])] \in Failure
    BY <2>1, <2>2, ElementOfSeq
  <2>4. failed[r][Len(failed[r])].delay \in Nat
    BY <2>3 DEF Failure
  <2> QED BY <1>1, <2>4 DEF AttemptTypes, OtherTypes
<1>3. PoolTypes' /\ AttemptTypes' /\ Sidelined'
  BY <1>1, <1>2 DEF PoolTypes, AttemptTypes, Sidelined
<1>4. /\ OtherTypes' /\ Departed'
      /\ stage'[r] = "waiting" /\ \A q \in Requests \ {r} : stage'[q] = stage[q]
  <2>1. admitted' \in [Requests -> Nat \union {-1}]
    BY <1>1 DEF OtherTypes
  <2> QED BY <1>1, <2>1, StageMoves DEF Running
<1>5. ProgressOf(r)'
  BY <1>1, <1>4 DEF Progress, ProgressOf, Plan
<1>6. Progress'
  BY <1>1, <1>4, <1>5, ProgressOfOne
<1> QED BY <1>3, <1>4, <1>6

LEMMA RelayKeeps ==
    ASSUME FallbackInv, NEW r \in Requests, Relay(r)
    PROVE  FallbackInv'
<1> USE DEF FallbackInv, Typed
<1>1. PICK status \in Statuses :
        /\ stage[r] = "fetching" /\ r \notin gone
        /\ PoolLearns(r, status, TRUE)
        /\ AttemptOver(r)
        /\ stage' = [stage EXCEPT ![r] = "relayed"]
        /\ UNCHANGED <<now, gone, index, failed, wake, admitted>>
  BY DEF Relay
<1>2. PoolTypes' /\ Sidelined'
  BY <1>1, LearningKeepsPool DEF OtherTypes
<1>3. AttemptTypes'
  BY <1>1, OverType DEF AttemptTypes
<1>4. /\ OtherTypes' /\ Departed'
      /\ stage'[r] = "relayed" /\ \A q \in Requests \ {r} : stage'[q] = stage[q]
  <2>1. admitted' \in [Requests -> Nat \union {-1}]
    BY <1>1 DEF OtherTypes
  <2> QED BY <1>1, <2>1, StageMoves DEF Ended
<1>5. ProgressOf(r)'
  BY <1>1, <1>4 DEF Progress, ProgressOf, Plan
<1>6. Progress'
  BY <1>1, <1>4, <1>5, ProgressOfOne
<1> QED BY <1>2, <1>3, <1>4, <1>6

LEMMA NetworkErrorKeeps ==
    ASSUME FallbackInv, NEW r \in Requests, NetworkError(r)
    PROVE  FallbackInv'
<1> USE DEF FallbackInv, Typed
<1> DEFINE goesOn == HasNext(r) /\ r \notin gone
           delay == IF goesOn THEN Backoff(Len(failed[r])) ELSE 0
           to == IF r \in gone THEN "closed" ELSE IF goesOn THEN "waiting" ELSE "failed"
<1>1. /\ stage[r] = "fetching"
      /\ Fail(r, delay)
      /\ AttemptOver(r)
      /\ wake' = [wake EXCEPT ![r] = now + delay]
      /\ stage' = [stage EXCEPT ![r] = to]
      /\ UNCHANGED <<now, gone, index, counter, cooldown, last, forced, admitted>>
  BY DEF NetworkError, poolVars
<1>2. failed[r] \in Seq(Failure) /\ Len(failed[r]) \in Nat
  <2>1. failed[r] \in Seq(Failure)
    BY DEF AttemptTypes
  <2> QED BY <2>1, LenProperties
<1>3. delay \in Nat
  BY <1>2, DelayType
<1>4. to \in {"closed", "waiting", "failed"} /\ (to = "waiting" => HasNext(r))
  OBVIOUS
<1> HIDE DEF goesOn, delay, to
<1>5. /\ failed' \in [Requests -> Seq(Failure)]
      /\ Len(failed'[r]) = Len(failed[r]) + 1
      /\ Len(failed[r]) < index[r]
      /\ \A q \in Requests \ {r} : failed'[q] = failed[q]
  BY <1>1, <1>3, FailType
<1>6. PoolTypes' /\ Sidelined'
  BY <1>1 DEF PoolTypes, Sidelined
<1>7. AttemptTypes'
  <2>1. wake' \in [Requests -> Nat]
    BY <1>1, <1>3 DEF AttemptTypes, OtherTypes
  <2> QED BY <1>1, <1>5, <2>1, OverType DEF AttemptTypes
<1>8. /\ OtherTypes' /\ Departed'
      /\ stage'[r] = to /\ \A q \in Requests \ {r} : stage'[q] = stage[q]
  <2>1. admitted' \in [Requests -> Nat \union {-1}]
    BY <1>1 DEF OtherTypes
  <2> QED BY <1>1, <1>4, <2>1, StageMoves DEF Running, Ended
<1>9. ProgressOf(r)'
  <2>1. index[r] \in Nat /\ index[r] <= Len(Plan(r)) /\ (to = "waiting" => index[r] < Len(Plan(r)))
    BY <1>4 DEF AttemptTypes, Progress, ProgressOf, HasNext
  <2>2. Plan(r)' = Plan(r) /\ index'[r] = index[r]
    BY <1>1 DEF Plan
  <2> QED BY <1>2, <1>4, <1>5, <1>8, <2>1, <2>2 DEF ProgressOf
<1>10. Progress'
  BY <1>1, <1>5, <1>8, <1>9, ProgressOfOne
<1> QED BY <1>6, <1>7, <1>8, <1>10

LEMMA OtherStepKeeps ==
    ASSUME FallbackInv, Tick \/ (\E r \in Requests : Disconnect(r)) \/ UNCHANGED vars
    PROVE  FallbackInv'
<1> USE DEF FallbackInv, Typed
<1>1. UNCHANGED <<stage, index, chain, saturated, failed, wake, counter, cooldown, last,
                  forced, admitted>>
  BY DEF Tick, Disconnect, vars, attemptVars, poolVars
<1>2. now' \in Nat /\ gone' \subseteq Requests
  BY DEF Tick, Disconnect, vars, OtherTypes
<1>3. Departed'
  <2>1. \A r \in gone' \ gone : stage[r] \in Running
    BY DEF Tick, Disconnect, vars
  <2> QED BY <1>1, <2>1 DEF Departed, Running
<1>4. PoolTypes' /\ AttemptTypes' /\ OtherTypes' /\ Sidelined'
  BY <1>1, <1>2 DEF PoolTypes, AttemptTypes, OtherTypes, Sidelined
<1>5. Progress'
  BY <1>1 DEF Progress, ProgressOf, Plan
<1> QED BY <1>3, <1>4, <1>5

LEMMA FallbackInvariant == Spec => []FallbackInv
<1>1. Init => FallbackInv
  <2> SUFFICES ASSUME Init PROVE Sidelined /\ Departed
    BY InitTyped DEF FallbackInv
  <2> QED BY DEF Init, Sidelined, Departed
<1>2. FallbackInv /\ [Next]_vars => FallbackInv'
  <2> SUFFICES ASSUME FallbackInv, [Next]_vars PROVE FallbackInv'
    OBVIOUS
  <2>1. ASSUME NEW r \in Requests, Proceeds(r) PROVE FallbackInv'
    <3>1. CASE Admit(r)
      BY <3>1, AdmitKeeps
    <3>2. CASE Refuse(r) \/ Stop(r)
      BY <3>2, EndKeeps
    <3>3. CASE Attempt(r)
      BY <3>3, AttemptKeeps
    <3>4. CASE Drained(r)
      BY <3>4, DrainedKeeps
    <3>5. CASE FallBack(r)
      BY <3>5, FallBackKeeps
    <3>6. CASE Relay(r)
      BY <3>6, RelayKeeps
    <3>7. CASE NetworkError(r)
      BY <3>7, NetworkErrorKeeps
    <3> QED BY <2>1, <3>1, <3>2, <3>3, <3>4, <3>5, <3>6, <3>7 DEF Proceeds
  <2>2. CASE Tick \/ (\E r \in Requests : Disconnect(r)) \/ UNCHANGED vars
    BY <2>2, OtherStepKeeps
  <2> QED BY <2>1, <2>2 DEF Next
<1> QED BY <1>1, <1>2, PTL DEF Spec

-----------------------------------------------------------------------------
(* The theorems.                                                           *)

\* Whatever the plan of a request, it never makes more attempts than the plan
\* has, lists every attempt it gave up once, and all variables keep their types.
THEOREM FallbackIsTyped == Spec => []TypeOK
<1>1. FallbackInv => TypeOK
  BY TypedImpliesTypeOK DEF FallbackInv
<1> QED BY <1>1, FallbackInvariant, PTL

\* Once the client has left, no step of any request sends an attempt for it or
\* relays an answer to it.
THEOREM NothingSentAfterDisconnect == Spec => NoAttemptAfterDisconnect
<1>1. ASSUME FallbackInv, [Next]_vars
      PROVE  [\A r \in gone : index'[r] = index[r] /\ stage'[r] # "relayed"]_vars
  <2> SUFFICES ASSUME Next, NEW r \in gone
               PROVE  index'[r] = index[r] /\ stage'[r] # "relayed"
    BY <1>1
  <2>1. /\ r \in Requests /\ stage[r] # "relayed"
        /\ index \in [Requests -> Nat]
        /\ stage \in [Requests -> {"new"} \union Running \union Ended]
    BY <1>1 DEF FallbackInv, Departed, Typed, AttemptTypes, OtherTypes
  <2>2. CASE Tick \/ \E q \in Requests : Disconnect(q)
    BY <2>1, <2>2 DEF Tick, Disconnect, attemptVars
  <2>3. ASSUME NEW q \in Requests, Proceeds(q)
        PROVE  index'[r] = index[r] /\ stage'[r] # "relayed"
    <3>1. CASE Attempt(q) \/ Relay(q)
      BY <2>1, <3>1 DEF Attempt, Relay
    <3>2. CASE NetworkError(q)
      BY <2>1, <3>2 DEF NetworkError
    <3>3. CASE Admit(q) \/ Refuse(q) \/ Stop(q) \/ Drained(q) \/ FallBack(q)
      BY <2>1, <3>3 DEF Admit, Refuse, Stop, Drained, FallBack, attemptVars
    <3> QED BY <2>3, <3>1, <3>2, <3>3 DEF Proceeds
  <2> QED BY <2>2, <2>3 DEF Next
<1> QED BY <1>1, FallbackInvariant, PTL DEF Spec, NoAttemptAfterDisconnect

\* An attempt that had a choice is sent to no credential whose last outcome, seen
\* by whatever request, was a failure less than a cooldown ago.
THEOREM FailedCredentialsRest == Spec => FailureSidelines
<1> DEFINE Rests(r) ==
      (index'[r] # index[r] /\ ~saturated'[r]) =>
        \A i \in DOMAIN chain'[r] :
          LET outcome == last[chain'[r][i]]
          IN outcome.ok \/ now >= outcome.at + CooldownMs
<1>1. ASSUME FallbackInv, [Next]_vars
      PROVE  [\A r \in Requests : Rests(r)]_vars
  <2> SUFFICES ASSUME Next, NEW r \in Requests, index'[r] # index[r], ~saturated'[r],
                      NEW i \in DOMAIN chain'[r]
               PROVE  LET outcome == last[chain'[r][i]]
                      IN outcome.ok \/ now >= outcome.at + CooldownMs
    BY <1>1
  <2>1. /\ PoolTypes /\ Sidelined /\ now \in Nat
        /\ index \in [Requests -> Nat] /\ chain \in [Requests -> Seq(Credentials)]
        /\ saturated \in [Requests -> BOOLEAN]
    BY <1>1 DEF FallbackInv, Typed, AttemptTypes, OtherTypes
  <2>2. Attempt(r)
    <3>1. ASSUME NEW q \in Requests, Attempt(q) PROVE q = r
      BY <2>1, <3>1 DEF Attempt
    <3>2. ASSUME ~\E q \in Requests : Attempt(q) PROVE index' = index
      BY <3>2 DEF Next, Tick, Disconnect, Proceeds, Admit, Refuse, Stop, Drained, FallBack,
                  Relay, NetworkError, attemptVars
    <3> QED BY <3>1, <3>2
  <2> DEFINE model == Plan(r)[index[r] + 1]
             S == Candidates(r, model)
  <2>3. model \in Models
    BY <1>1, <2>2, NextModel DEF Attempt
  <2>4. /\ chain'[r] = Ordered(S, r)
        /\ ~(CredentialsOf[model] # {} /\ Available(r, model) = {})
    BY <2>1, <2>2 DEF Attempt
  <2> HIDE DEF model
  <2>5. S \subseteq CredentialsOf[model]
    BY DEF Candidates, Available
  <2>6. chain'[r][i] \in S
    BY <2>1, <2>3, <2>4, <2>5, OrderedType
  <2>7. chain'[r][i] \in Credentials /\ cooldown[chain'[r][i]] <= now
    BY <2>3, <2>4, <2>5, <2>6, FallbackAssumption DEF Candidates, Available, Models
  <2> QED BY <2>1, <2>7 DEF Sidelined, PoolTypes
<1>2. Spec => [][\A r \in Requests : Rests(r)]_vars
  BY <1>1, FallbackInvariant, PTL DEF Spec
<1> QED BY <1>2 DEF FailureSidelines

(***************************************************************************)
(* The limits, for any number of requests in flight, any costs, limits and *)
(* windows.                                                                *)
(***************************************************************************)

-----------------------------------------------------------------------------
(* Sums.                                                                   *)

First(T) == CHOOSE x \in T : TRUE

\* g gives the sums of f over the members of D.
IsSum(g, f, D) ==
    g = [T \in D |-> IF T = {} THEN 0 ELSE f[First(T)] + g[T \ {First(T)}]]

SumOf(f, S) == CHOOSE g : IsSum(g, f, SUBSET S)

LEMMA SumOverIsSum ==
    ASSUME NEW f, NEW S
    PROVE  SumOver(f, S) = SumOf(f, S)[S]
BY DEF SumOver, SumOf, IsSum, First

\* The subsets of S with at most n elements.
Upto(S, n) == {T \in SUBSET S : Cardinality(T) <= n}

LEMMA RestIsSmaller ==
    ASSUME NEW T, IsFiniteSet(T), T # {}
    PROVE  /\ First(T) \in T
           /\ IsFiniteSet(T \ {First(T)})
           /\ Cardinality(T) \in Nat /\ Cardinality(T) > 0
           /\ Cardinality(T \ {First(T)}) = Cardinality(T) - 1
<1>1. First(T) \in T
  BY DEF First
<1> QED BY <1>1, FS_RemoveElement, FS_CardinalityType, FS_EmptySet

LEMMA SumExists ==
    ASSUME NEW f, NEW S, IsFiniteSet(S)
    PROVE  IsSum(SumOf(f, S), f, SUBSET S)
<1> DEFINE Bad == {n \in Nat : ~\E g : IsSum(g, f, Upto(S, n))}
<1>1. \A T \in SUBSET S : IsFiniteSet(T) /\ Cardinality(T) \in Nat
  BY FS_Subset, FS_CardinalityType
<1>2. CASE Bad = {}
  <2>1. Upto(S, Cardinality(S)) = SUBSET S
    BY FS_Subset DEF Upto
  <2>2. Cardinality(S) \in Nat
    BY FS_CardinalityType
  <2>3. \E g : IsSum(g, f, Upto(S, Cardinality(S)))
    BY <1>2, <2>2
  <2>4. \E g : IsSum(g, f, SUBSET S)
    BY <2>1, <2>3
  <2> QED BY <2>4 DEF SumOf
<1>3. CASE Bad # {}
  <2>1. PICK n \in Bad : \A m \in Bad : n <= m
    BY <1>3, LeastNumber
  <2>2. CASE n = 0
    <3>1. \A T \in Upto(S, 0) : T = {}
      BY <1>1, FS_EmptySet DEF Upto
    <3> DEFINE g == [T \in Upto(S, 0) |-> 0]
    <3>2. g = [T \in Upto(S, 0) |-> IF T = {} THEN 0 ELSE f[First(T)] + g[T \ {First(T)}]]
      BY <3>1
    <3>3. IsSum(g, f, Upto(S, 0))
      BY <3>2 DEF IsSum
    <3> QED BY <2>1, <2>2, <3>3
  <2>3. CASE n # 0
    <3>1. n - 1 \in Nat /\ n - 1 \notin Bad /\ n \in Nat
      BY <2>1, <2>3
    <3>2. PICK g : IsSum(g, f, Upto(S, n - 1))
      BY <3>1
    <3>3. \A T \in Upto(S, n - 1) :
             g[T] = IF T = {} THEN 0 ELSE f[First(T)] + g[T \ {First(T)}]
      BY <3>2 DEF IsSum
    <3> DEFINE h == [T \in Upto(S, n) |->
                       IF T = {} THEN 0 ELSE f[First(T)] + g[T \ {First(T)}]]
    <3>4. ASSUME NEW T \in Upto(S, n), T # {}
          PROVE  T \ {First(T)} \in Upto(S, n - 1)
      <4>1. T \in SUBSET S /\ Cardinality(T) <= n /\ IsFiniteSet(T)
        BY <1>1 DEF Upto
      <4>2. /\ Cardinality(T) \in Nat
            /\ Cardinality(T \ {First(T)}) = Cardinality(T) - 1
        BY <3>4, <4>1, RestIsSmaller
      <4>3. Cardinality(T \ {First(T)}) <= n - 1
        BY <3>1, <4>1, <4>2
      <4> QED BY <4>1, <4>3 DEF Upto
    <3>5. Upto(S, n - 1) \subseteq Upto(S, n)
      BY <1>1, <3>1 DEF Upto
    <3>6. \A T \in Upto(S, n - 1) : h[T] = g[T]
      BY <3>3, <3>5
    <3>7. h = [T \in Upto(S, n) |->
                 IF T = {} THEN 0 ELSE f[First(T)] + h[T \ {First(T)}]]
      BY <3>4, <3>6
    <3> HIDE DEF h
    <3>8. IsSum(h, f, Upto(S, n))
      BY <3>7 DEF IsSum
    <3> QED BY <2>1, <3>8
  <2> QED BY <2>2, <2>3
<1> QED BY <1>2, <1>3

\* Sums over a set do not depend on the larger set they were computed for.
LEMMA SumsAgree ==
    ASSUME NEW f, NEW S, NEW g, NEW R, NEW h, NEW T,
           IsSum(g, f, SUBSET S), IsSum(h, f, SUBSET R),
           T \subseteq S, T \subseteq R, IsFiniteSet(T)
    PROVE  g[T] = h[T]
<1> DEFINE Differ(U) == U \subseteq S /\ U \subseteq R /\ IsFiniteSet(U) /\ g[U] # h[U]
           Bad == {n \in Nat : \E U : Differ(U) /\ Cardinality(U) = n}
<1> SUFFICES ASSUME Differ(T) PROVE FALSE
  OBVIOUS
<1>1. Cardinality(T) \in Bad
  BY FS_CardinalityType
<1>2. PICK n \in Bad : \A m \in Bad : n <= m
  BY <1>1, LeastNumber
<1>3. PICK U : Differ(U) /\ Cardinality(U) = n
  BY <1>2
<1>4. /\ g[U] = IF U = {} THEN 0 ELSE f[First(U)] + g[U \ {First(U)}]
      /\ h[U] = IF U = {} THEN 0 ELSE f[First(U)] + h[U \ {First(U)}]
  BY <1>3 DEF IsSum
<1>5. U # {}
  BY <1>3, <1>4
<1>6. /\ IsFiniteSet(U \ {First(U)}) /\ n \in Nat /\ n > 0
      /\ Cardinality(U \ {First(U)}) = n - 1
  BY <1>3, <1>5, RestIsSmaller
<1>7. n - 1 \notin Bad
  BY <1>2, <1>6
<1>8. g[U \ {First(U)}] = h[U \ {First(U)}]
  BY <1>3, <1>6, <1>7
<1> QED BY <1>3, <1>4, <1>8

\* The recursion SumOver is defined by.
LEMMA SumSteps ==
    ASSUME NEW f, NEW S, IsFiniteSet(S)
    PROVE  /\ S = {} => SumOver(f, S) = 0
           /\ S # {} => SumOver(f, S) = f[First(S)] + SumOver(f, S \ {First(S)})
<1>1. PICK g : g = SumOf(f, S)
  OBVIOUS
<1>2. IsSum(g, f, SUBSET S)
  BY <1>1, SumExists
<1>3. g[S] = IF S = {} THEN 0 ELSE f[First(S)] + g[S \ {First(S)}]
  BY <1>2 DEF IsSum
<1>4. SumOver(f, S) = g[S]
  BY <1>1, SumOverIsSum
<1>5. ASSUME S # {}
      PROVE  g[S \ {First(S)}] = SumOver(f, S \ {First(S)})
  <2>1. PICK rest : rest = S \ {First(S)}
    OBVIOUS
  <2>2. IsFiniteSet(rest) /\ rest \subseteq S
    BY <1>5, <2>1, RestIsSmaller
  <2>3. PICK u : u = SumOf(f, rest)
    OBVIOUS
  <2>4. IsSum(u, f, SUBSET rest)
    BY <2>2, <2>3, SumExists
  <2>5. SumOver(f, rest) = u[rest]
    BY <2>3, SumOverIsSum
  <2>6. g[rest] = u[rest]
    BY <1>2, <2>2, <2>4, SumsAgree
  <2> QED BY <2>1, <2>5, <2>6
<1> QED BY <1>3, <1>4, <1>5

LEMMA SumType ==
    ASSUME NEW R, NEW f \in [R -> Nat], NEW S \in SUBSET R, IsFiniteSet(S)
    PROVE  SumOver(f, S) \in Nat
<1> DEFINE Odd(U) == U \in SUBSET R /\ IsFiniteSet(U) /\ SumOver(f, U) \notin Nat
           Bad == {n \in Nat : \E U : Odd(U) /\ Cardinality(U) = n}
<1> SUFFICES ASSUME Odd(S) PROVE FALSE
  OBVIOUS
<1>1. Cardinality(S) \in Bad
  BY FS_CardinalityType
<1>2. PICK n \in Bad : \A m \in Bad : n <= m
  BY <1>1, LeastNumber
<1>3. PICK U : Odd(U) /\ Cardinality(U) = n
  BY <1>2
<1>4. U # {}
  <2>1. U = {} => SumOver(f, U) = 0
    BY <1>3, SumSteps
  <2> QED BY <1>3, <2>1
<1>5. /\ First(U) \in U /\ IsFiniteSet(U \ {First(U)}) /\ n \in Nat /\ n > 0
      /\ Cardinality(U \ {First(U)}) = n - 1
  BY <1>3, <1>4, RestIsSmaller
<1>6. SumOver(f, U \ {First(U)}) \in Nat
  <2>1. n - 1 \notin Bad
    BY <1>2, <1>5
  <2> QED BY <1>3, <1>5, <2>1
<1>7. SumOver(f, U) = f[First(U)] + SumOver(f, U \ {First(U)})
  BY <1>3, <1>4, SumSteps
<1> QED BY <1>3, <1>5, <1>6, <1>7

\* One more element adds its own value to the sum.
LEMMA SumAdds ==
    ASSUME NEW R, NEW f \in [R -> Nat], NEW S \in SUBSET R, IsFiniteSet(S),
           NEW r \in R \ S
    PROVE  SumOver(f, S \union {r}) = SumOver(f, S) + f[r]
<1> DEFINE Adds(U, y) == SumOver(f, U \union {y}) = SumOver(f, U) + f[y]
           Odd(U, y) == U \in SUBSET R /\ IsFiniteSet(U) /\ y \in R \ U /\ ~Adds(U, y)
           Bad == {n \in Nat : \E U, y : Odd(U, y) /\ Cardinality(U) = n}
<1> SUFFICES ASSUME Odd(S, r) PROVE FALSE
  OBVIOUS
<1> HIDE DEF Adds
<1>1. Cardinality(S) \in Bad
  BY FS_CardinalityType
<1>2. PICK n \in Bad : \A m \in Bad : n <= m
  BY <1>1, LeastNumber, ZenonT(60)
<1>3. PICK U, y : Odd(U, y) /\ Cardinality(U) = n
  BY <1>2
<1> DEFINE V == U \union {y}
           x == First(V)
<1>4. IsFiniteSet(V) /\ V # {} /\ x \in V
  <2>1. IsFiniteSet(V) /\ V # {}
    BY <1>3, FS_AddElement
  <2> QED BY <2>1, RestIsSmaller
<1>5. SumOver(f, V) = f[x] + SumOver(f, V \ {x})
  BY <1>4, SumSteps
<1>6. SumOver(f, U) \in Nat /\ f[y] \in Nat
  BY <1>3, SumType
<1>7. CASE x = y
  <2>1. V \ {x} = U
    BY <1>3, <1>7
  <2>2. SumOver(f, V) = SumOver(f, U) + f[y]
    BY <1>5, <1>6, <1>7, <2>1, SMTT(30)
  <2> QED BY <1>3, <2>2 DEF Adds
<1>8. CASE x # y
  <2> DEFINE W == U \ {x}
  <2>1. x \in U
    BY <1>4, <1>8
  <2>2. /\ IsFiniteSet(W) /\ W \in SUBSET R /\ y \notin W /\ x \notin W
        /\ Cardinality(W) = n - 1 /\ n - 1 \in Nat /\ n \in Nat
    <3>1. IsFiniteSet(W) /\ Cardinality(W) = Cardinality(U) - 1
      BY <1>3, <2>1, FS_RemoveElement, ZenonT(60)
    <3>2. Cardinality(W) \in Nat
      BY <3>1, FS_CardinalityType
    <3> QED BY <1>3, <3>1, <3>2
  <2>3. V \ {x} = W \union {y} /\ U = W \union {x}
    BY <1>8, <2>1
  <2>4. SumOver(f, W \union {y}) = SumOver(f, W) + f[y]
    <3>1. n - 1 \notin Bad /\ y \in R \ W
      BY <1>2, <1>3, <2>2
    <3>2. Adds(W, y)
      BY <2>2, <3>1
    <3> QED BY <3>2 DEF Adds
  <2>5. SumOver(f, U) = SumOver(f, W) + f[x]
    <3>1. n - 1 \notin Bad /\ x \in R \ W
      BY <1>2, <1>3, <2>1, <2>2
    <3>2. Adds(W, x)
      BY <2>2, <3>1
    <3> QED BY <2>3, <3>2 DEF Adds
  <2>6. SumOver(f, W) \in Nat /\ f[x] \in Nat
    BY <1>3, <2>1, <2>2, SumType
  <2>7. SumOver(f, V) = SumOver(f, U) + f[y]
    <3>1. SumOver(f, V) = f[x] + (SumOver(f, W) + f[y])
      BY <1>5, <2>3, <2>4, Zenon
    <3> QED BY <1>6, <2>5, <2>6, <3>1
  <2> QED BY <1>3, <2>7 DEF Adds
<1> QED BY <1>7, <1>8

-----------------------------------------------------------------------------
(* Windows.                                                                *)

\* No counter is of a window still to come.
StartsPast ==
    \A o \in Owners, rule \in Rules : counter[o][rule].start <= WindowStart(rule)

\* A charge adds its cost to what was used, and touches no other owner.
LEMMA ChargeAdds ==
    ASSUME PoolTypes, now \in Nat, StartsPast,
           NEW o \in Owners, NEW r \in Requests, Charge(o, r), now' = now
    PROVE  /\ StartsPast'
           /\ \A rule \in Limited(o) : Used(o, rule)' = Used(o, rule) + Cost[r][rule]
           /\ \A p \in Owners \ {o}, rule \in Rules : Used(p, rule)' = Used(p, rule)
<1> DEFINE charged == [rule \in Rules |->
                         IF rule \in Limited(o)
                         THEN [start |-> WindowStart(rule),
                               value |-> Used(o, rule) + Cost[r][rule]]
                         ELSE counter[o][rule]]
<1>1. counter' = [counter EXCEPT ![o] = charged]
  BY DEF Charge
<1>2. \A rule \in Rules : WindowStart(rule)' = WindowStart(rule) /\ WindowStart(rule) \in Nat
  BY UsedType DEF WindowStart
<1>3. \A rule \in Rules : charged[rule] = IF rule \in Limited(o)
                                          THEN [start |-> WindowStart(rule),
                                                value |-> Used(o, rule) + Cost[r][rule]]
                                          ELSE counter[o][rule]
  OBVIOUS
<1> HIDE DEF charged
<1>4. counter'[o] = charged /\ \A p \in Owners \ {o} : counter'[p] = counter[p]
  BY <1>1 DEF PoolTypes
<1>5. StartsPast'
  <2> SUFFICES ASSUME NEW p \in Owners, NEW rule \in Rules
               PROVE  counter'[p][rule].start <= WindowStart(rule)
    BY <1>2 DEF StartsPast
  <2>1. CASE p = o /\ rule \in Limited(o)
    <3>1. counter'[p][rule].start = WindowStart(rule)
      <4>1. counter'[p][rule] = [start |-> WindowStart(rule),
                                 value |-> Used(o, rule) + Cost[r][rule]]
        BY <1>3, <1>4, <2>1, Zenon
      <4> QED BY <4>1
    <3>2. WindowStart(rule) \in Nat
      BY <1>2
    <3> QED BY <3>1, <3>2
  <2>2. CASE p # o \/ rule \notin Limited(o)
    <3>1. counter'[p][rule] = counter[p][rule]
      BY <1>3, <1>4, <2>2
    <3> QED BY <3>1 DEF StartsPast
  <2> QED BY <2>1, <2>2
<1>6. ASSUME NEW rule \in Limited(o)
      PROVE  Used(o, rule)' = Used(o, rule) + Cost[r][rule]
  <2>1. rule \in Rules
    BY DEF Limited
  <2>2. counter'[o][rule] = [start |-> WindowStart(rule),
                             value |-> Used(o, rule) + Cost[r][rule]]
    BY <1>3, <1>4, <2>1
  <2>3. Used(o, rule)' = IF counter'[o][rule].start = WindowStart(rule)
                         THEN counter'[o][rule].value ELSE 0
    BY <1>2, <2>1 DEF Used
  <2> QED BY <2>2, <2>3
<1>7. ASSUME NEW p \in Owners \ {o}, NEW rule \in Rules
      PROVE  Used(p, rule)' = Used(p, rule)
  BY <1>2, <1>4 DEF Used
<1> QED BY <1>5, <1>6, <1>7

\* Time leaves a window as it is or opens a new one, in which nothing is used.
LEMMA TimePasses ==
    ASSUME PoolTypes, now \in Nat, StartsPast, Tick
    PROVE  /\ StartsPast'
           /\ \A rule \in Rules :
                \/ /\ WindowStart(rule)' = WindowStart(rule)
                   /\ \A o \in Owners : Used(o, rule)' = Used(o, rule)
                \/ /\ WindowStart(rule)' = now + 1
                   /\ \A o \in Owners : Used(o, rule)' = 0
<1>1. counter' = counter /\ now' = now + 1
  BY DEF Tick, poolVars
<1>2. ASSUME NEW rule \in Rules
      PROVE  /\ WindowStart(rule) \in Nat /\ WindowStart(rule) <= now
             /\ WindowStart(rule)' \in {WindowStart(rule), now + 1}
  <2>1. WindowOf[rule] \in Nat \ {0}
    BY FallbackAssumption
  <2> QED BY <1>1, <2>1, StartOfWindow DEF WindowStart
<1>3. \A o \in Owners, rule \in Rules : counter[o][rule].start \in Nat
  BY DEF PoolTypes
<1>4. StartsPast'
  <2> SUFFICES ASSUME NEW o \in Owners, NEW rule \in Rules
               PROVE  counter[o][rule].start <= WindowStart(rule)'
    BY <1>1 DEF StartsPast
  <2>1. counter[o][rule].start <= WindowStart(rule)
    BY DEF StartsPast
  <2> QED BY <1>2, <1>3, <2>1
<1>5. ASSUME NEW rule \in Rules
      PROVE  \/ /\ WindowStart(rule)' = WindowStart(rule)
                /\ \A o \in Owners : Used(o, rule)' = Used(o, rule)
             \/ /\ WindowStart(rule)' = now + 1
                /\ \A o \in Owners : Used(o, rule)' = 0
  <2>1. CASE WindowStart(rule)' = WindowStart(rule)
    BY <1>1, <2>1 DEF Used
  <2>2. CASE WindowStart(rule)' = now + 1
    <3>1. \A o \in Owners : counter[o][rule].start <= WindowStart(rule)
      BY DEF StartsPast
    <3>2. \A o \in Owners : counter[o][rule].start # now + 1
      BY <1>2, <1>3, <3>1
    <3> QED BY <1>1, <2>2, <3>2 DEF Used
  <2> QED BY <1>2, <2>1, <2>2
<1> QED BY <1>4, <1>5

-----------------------------------------------------------------------------
(* What a step does to the pool.                                           *)

Among(c, s) == \E i \in DOMAIN s : s[i] = c

\* An answer to r is charged to the credential c.
Answered(r, c) ==
    /\ Charge(c, r) /\ Among(c, chain[r])
    /\ forced' = [forced EXCEPT ![c] = @ + IF saturated[r] THEN 1 ELSE 0]
    /\ AttemptOver(r)
    /\ UNCHANGED <<now, admitted>>

\* Nothing is charged; an attempt may end.
Quiet ==
    /\ UNCHANGED <<now, admitted, counter, forced>>
    /\ \A q \in Requests : \/ chain'[q] = chain[q] /\ saturated'[q] = saturated[q]
                           \/ chain'[q] = <<>>

\* A request never becomes new again.
NoneRenewed == \A q \in Requests : stage'[q] = "new" => stage[q] = "new"

LEMMA LearningIsCharging ==
    ASSUME FallbackInv, NEW r \in Requests, NEW status \in Statuses, NEW relayed \in BOOLEAN,
           PoolLearns(r, status, relayed), AttemptOver(r), UNCHANGED <<now, admitted>>
    PROVE  Quiet \/ \E c \in Credentials : Answered(r, c)
<1>1. /\ chain \in [Requests -> Seq(Credentials)] /\ saturated \in [Requests -> BOOLEAN]
  BY DEF FallbackInv, Typed, AttemptTypes
<1>2. \A q \in Requests : \/ chain'[q] = chain[q] /\ saturated'[q] = saturated[q]
                          \/ chain'[q] = <<>>
  BY <1>1 DEF AttemptOver
<1>3. CASE UNCHANGED <<counter, forced>>
  BY <1>2, <1>3 DEF Quiet
<1>4. ASSUME NEW i \in DOMAIN chain[r], NEW named \in {"id", "target", "none"},
             RecordOutcome(r, status, ChargedTo(r, chain[r][i], named, relayed)),
             CountsAsUse(status)
      PROVE  \E c \in Credentials : Answered(r, c)
  <2> DEFINE c == ChargedTo(r, chain[r][i], named, relayed)
  <2>1. chain[r] \in Seq(Credentials) /\ chain[r] # <<>>
    BY <1>1, <1>4
  <2>2. chain[r][i] \in Credentials /\ 1 \in DOMAIN chain[r] /\ Head(chain[r]) = chain[r][1]
    BY <1>4, <2>1, ElementOfSeq, LenProperties, HeadTailProperties
  <2>3. Head(chain[r]) \in Credentials
    BY <2>1, HeadTailProperties
  <2>4. c \in Credentials /\ Among(c, chain[r])
    BY <2>2, <2>3 DEF ChargedTo, Among
  <2> HIDE DEF c
  <2>5. RecordOutcome(r, status, c)
    BY <1>4 DEF c
  <2>6. Charge(c, r) /\ forced' = [forced EXCEPT ![c] = @ + IF saturated[r] THEN 1 ELSE 0]
    BY <1>4, <2>5 DEF RecordOutcome
  <2> QED BY <2>4, <2>6 DEF Answered
<1>5. ASSUME NEW i \in DOMAIN chain[r], NEW named \in {"id", "target", "none"},
             RecordOutcome(r, status, ChargedTo(r, chain[r][i], named, relayed)),
             ~CountsAsUse(status)
      PROVE  UNCHANGED <<counter, forced>>
  BY <1>5 DEF RecordOutcome
<1> QED BY <1>3, <1>4, <1>5 DEF PoolLearns, poolVars

LEMMA StepKinds ==
    ASSUME FallbackInv, [Next]_vars
    PROVE  /\ NoneRenewed
           /\ \/ Tick /\ UNCHANGED <<chain, saturated>>
              \/ \E r \in Requests : Admit(r)
              \/ \E r \in Requests : Attempt(r)
              \/ \E r \in Requests, c \in Credentials : Answered(r, c)
              \/ Quiet
<1>1. /\ stage \in [Requests -> {"new"} \union Running \union Ended]
      /\ chain \in [Requests -> Seq(Credentials)] /\ saturated \in [Requests -> BOOLEAN]
  BY DEF FallbackInv, Typed, AttemptTypes, OtherTypes
<1>2. CASE UNCHANGED vars
  BY <1>2 DEF vars, attemptVars, poolVars, Quiet, NoneRenewed
<1>3. CASE Tick
  BY <1>3 DEF Tick, attemptVars, NoneRenewed
<1>4. ASSUME NEW r \in Requests, Disconnect(r)
      PROVE  Quiet /\ NoneRenewed
  BY <1>4 DEF Disconnect, attemptVars, poolVars, Quiet, NoneRenewed
<1>5. ASSUME NEW r \in Requests, Refuse(r) \/ Stop(r) \/ Drained(r)
      PROVE  Quiet /\ NoneRenewed
  BY <1>1, <1>5 DEF Refuse, Stop, Drained, attemptVars, poolVars, Quiet, NoneRenewed
<1>6. ASSUME NEW r \in Requests, NetworkError(r)
      PROVE  Quiet /\ NoneRenewed
  <2>1. NoneRenewed
    BY <1>1, <1>6 DEF NetworkError, NoneRenewed
  <2>2. UNCHANGED <<now, admitted, counter, forced>> /\ AttemptOver(r)
    BY <1>6 DEF NetworkError, poolVars
  <2> QED BY <1>1, <2>1, <2>2 DEF AttemptOver, Quiet
<1>7. ASSUME NEW r \in Requests, FallBack(r) \/ Relay(r)
      PROVE  NoneRenewed /\ (Quiet \/ \E c \in Credentials : Answered(r, c))
  <2>1. NoneRenewed
    BY <1>1, <1>7 DEF FallBack, Relay, NoneRenewed
  <2>2. PICK status \in Statuses, relayed \in BOOLEAN :
          PoolLearns(r, status, relayed) /\ AttemptOver(r) /\ UNCHANGED <<now, admitted>>
    BY <1>7 DEF FallBack, Relay
  <2> QED BY <2>1, <2>2, LearningIsCharging
<1>8. ASSUME NEW r \in Requests, Admit(r) \/ Attempt(r)
      PROVE  NoneRenewed
  BY <1>1, <1>8 DEF Admit, Attempt, NoneRenewed
<1> QED BY <1>2, <1>3, <1>4, <1>5, <1>6, <1>7, <1>8 DEF Next, Proceeds

-----------------------------------------------------------------------------
(* The key of the clients.                                                 *)

CostOf(rule) == [r \in Requests |-> Cost[r][rule]]
Counted(rule) == {r \in Requests : admitted[r] >= WindowStart(rule)}

\* Under a rule the key has paid for the requests admitted in its window.
Exact(rule) ==
    /\ Used(ClientKey, rule) = SumOver(CostOf(rule), Counted(rule))
    /\ Used(ClientKey, rule) <= LimitOf[ClientKey][rule]

\* Admissions are of the past, and a new request has none.
Admissions ==
    \A r \in Requests : /\ admitted[r] <= now
                        /\ stage[r] = "new" => admitted[r] = -1

KeyInv == StartsPast /\ Admissions /\ \A rule \in Limited(ClientKey) : Exact(rule)

LEMMA SumOfNone ==
    ASSUME NEW f
    PROVE  SumOver(f, {}) = 0
BY SumSteps, FS_EmptySet

LEMMA CountedIsFinite ==
    ASSUME NEW rule \in Rules
    PROVE  /\ Counted(rule) \in SUBSET Requests /\ IsFiniteSet(Counted(rule))
           /\ CostOf(rule) \in [Requests -> Nat]
<1> USE FallbackAssumption
<1>1. Counted(rule) \in SUBSET Requests
  BY DEF Counted
<1>2. CostOf(rule) \in [Requests -> Nat]
  BY DEF CostOf
<1> QED BY <1>1, <1>2, FS_Subset

LEMMA InitKey == Init => KeyInv
<1> SUFFICES ASSUME Init PROVE KeyInv
  OBVIOUS
<1>1. FallbackInv
  <2>1. Sidelined /\ Departed
    BY DEF Init, Sidelined, Departed
  <2> QED BY <2>1, InitTyped DEF FallbackInv
<1>2. \A rule \in Rules : WindowStart(rule) \in Nat
  <2>1. ClientKey \in Owners
    BY DEF Owners
  <2> QED BY <1>1, <2>1, UsedType DEF FallbackInv, Typed, OtherTypes
<1>3. \A o \in Owners, rule \in Rules : counter[o][rule].start = 0 /\ counter[o][rule].value = 0
  BY DEF Init
<1>4. StartsPast
  <2> SUFFICES ASSUME NEW o \in Owners, NEW rule \in Rules
               PROVE  counter[o][rule].start <= WindowStart(rule)
    BY DEF StartsPast
  <2> QED BY <1>2, <1>3
<1>5. Admissions
  BY DEF Init, Admissions
<1>6. ASSUME NEW rule \in Limited(ClientKey) PROVE Exact(rule)
  <2>1. rule \in Rules /\ LimitOf[ClientKey][rule] \in Nat
    BY FallbackAssumption DEF Limited
  <2>2. Used(ClientKey, rule) = 0
    BY <1>3, <2>1 DEF Used, Owners
  <2>3. \A r \in Requests : ~(admitted[r] >= WindowStart(rule))
    <3>1. \A r \in Requests : admitted[r] = -1
      BY DEF Init
    <3>2. WindowStart(rule) \in Nat
      BY <1>2, <2>1
    <3> QED BY <3>1, <3>2
  <2>4. Counted(rule) = {}
    BY <2>3 DEF Counted
  <2> QED BY <2>1, <2>2, <2>4, SumOfNone DEF Exact
<1> QED BY <1>4, <1>5, <1>6 DEF KeyInv

\* An admitted request is counted once, in the window of its admission.
LEMMA AdmitIsExact ==
    ASSUME FallbackInv, KeyInv, NEW r \in Requests, Admit(r)
    PROVE  KeyInv'
<1> USE DEF KeyInv
<1>1. /\ PoolTypes /\ now \in Nat
      /\ admitted \in [Requests -> Nat \union {-1}]
      /\ stage \in [Requests -> {"new"} \union Running \union Ended]
      /\ ClientKey \in Owners
  BY DEF FallbackInv, Typed, OtherTypes, Owners
<1>2. /\ stage[r] = "new" /\ Fits(ClientKey, r) /\ Charge(ClientKey, r)
      /\ stage' = [stage EXCEPT ![r] = "ready"]
      /\ admitted' = [admitted EXCEPT ![r] = now] /\ now' = now
  BY DEF Admit
<1>3. /\ StartsPast'
      /\ \A rule \in Limited(ClientKey) :
            Used(ClientKey, rule)' = Used(ClientKey, rule) + Cost[r][rule]
  BY <1>1, <1>2, ChargeAdds
<1>4. Admissions'
  BY <1>1, <1>2 DEF Admissions
<1>5. ASSUME NEW rule \in Limited(ClientKey) PROVE Exact(rule)'
  <2>1. rule \in Rules
    BY DEF Limited
  <2>2. WindowStart(rule)' = WindowStart(rule) /\ WindowStart(rule) \in Nat
        /\ WindowStart(rule) <= now
    <3>1. WindowStart(rule) \in Nat /\ WindowStart(rule) <= now
      BY <1>1, <2>1, StartOfWindow, FallbackAssumption DEF WindowStart
    <3> QED BY <1>2, <3>1 DEF WindowStart
  <2>3. admitted[r] = -1
    BY <1>2 DEF Admissions
  <2>4. Counted(rule)' = Counted(rule) \union {r} /\ r \notin Counted(rule)
    <3>1. admitted'[r] = now /\ \A q \in Requests \ {r} : admitted'[q] = admitted[q]
      BY <1>1, <1>2
    <3>2. r \notin Counted(rule)
      BY <2>2, <2>3 DEF Counted
    <3>3. \A q \in Requests : q \in Counted(rule)' <=> q \in Counted(rule) \union {r}
      BY <2>2, <3>1 DEF Counted
    <3>4. Counted(rule)' \subseteq Requests /\ Counted(rule) \subseteq Requests
      BY DEF Counted
    <3> QED BY <3>2, <3>3, <3>4
  <2>5. SumOver(CostOf(rule), Counted(rule)') = SumOver(CostOf(rule), Counted(rule)) + Cost[r][rule]
    <3>1. PICK S : S = Counted(rule)
      OBVIOUS
    <3>2. SumOver(CostOf(rule), S \union {r}) = SumOver(CostOf(rule), S) + CostOf(rule)[r]
      BY <2>1, <2>4, <3>1, CountedIsFinite, SumAdds
    <3>3. CostOf(rule)[r] = Cost[r][rule]
      BY DEF CostOf
    <3> QED BY <2>4, <3>1, <3>2, <3>3
  <2>6. Used(ClientKey, rule)' = Used(ClientKey, rule) + Cost[r][rule]
    BY <1>3
  <2>7. Used(ClientKey, rule) + Cost[r][rule] <= LimitOf[ClientKey][rule]
    BY <1>2 DEF Fits
  <2>8. SumOver(CostOf(rule), Counted(rule))' = SumOver(CostOf(rule), Counted(rule)')
    BY DEF CostOf, SumOver
  <2> QED BY <2>5, <2>6, <2>7, <2>8 DEF Exact
<1> QED BY <1>3, <1>4, <1>5

\* Where neither the clock, the admissions nor the key's counter change.
LEMMA KeyUntouched ==
    ASSUME KeyInv, NoneRenewed, UNCHANGED <<now, admitted>>, StartsPast',
           \A rule \in Limited(ClientKey) : Used(ClientKey, rule)' = Used(ClientKey, rule)
    PROVE  KeyInv'
<1> USE DEF KeyInv
<1>1. Admissions'
  BY DEF Admissions, NoneRenewed
<1>2. ASSUME NEW rule \in Limited(ClientKey) PROVE Exact(rule)'
  <2>1. Counted(rule)' = Counted(rule)
    BY DEF Counted, WindowStart
  <2>2. SumOver(CostOf(rule), Counted(rule))' = SumOver(CostOf(rule), Counted(rule))
    BY <2>1 DEF CostOf, SumOver
  <2> QED BY <2>2 DEF Exact
<1> QED BY <1>1, <1>2

LEMMA TimeIsExact ==
    ASSUME FallbackInv, KeyInv, NoneRenewed, Tick
    PROVE  KeyInv'
<1> USE DEF KeyInv
<1>1. /\ PoolTypes /\ now \in Nat /\ ClientKey \in Owners
      /\ admitted \in [Requests -> Nat \union {-1}]
  BY DEF FallbackInv, Typed, OtherTypes, Owners
<1>2. now' = now + 1 /\ admitted' = admitted
  BY DEF Tick
<1>3. StartsPast'
  BY <1>1, TimePasses
<1>4. Admissions'
  <2> SUFFICES ASSUME NEW q \in Requests
               PROVE  admitted[q] <= now + 1 /\ (stage'[q] = "new" => admitted[q] = -1)
    BY <1>2 DEF Admissions
  <2>1. admitted[q] <= now /\ (stage[q] = "new" => admitted[q] = -1)
    BY DEF Admissions
  <2> QED BY <1>1, <2>1 DEF NoneRenewed
<1>5. ASSUME NEW rule \in Limited(ClientKey) PROVE Exact(rule)'
  <2>1. rule \in Rules /\ LimitOf[ClientKey][rule] \in Nat
    BY FallbackAssumption DEF Limited
  <2>2. SumOver(CostOf(rule), Counted(rule))' = SumOver(CostOf(rule), Counted(rule)')
    BY DEF CostOf, SumOver
  <2>3. CASE /\ WindowStart(rule)' = WindowStart(rule)
             /\ Used(ClientKey, rule)' = Used(ClientKey, rule)
    <3>1. Counted(rule)' = Counted(rule)
      BY <1>2, <2>3 DEF Counted
    <3> QED BY <2>2, <2>3, <3>1 DEF Exact
  <2>4. CASE /\ WindowStart(rule)' = now + 1
             /\ Used(ClientKey, rule)' = 0
    <3>1. \A q \in Requests : ~(admitted[q] >= now + 1)
      BY <1>1 DEF Admissions
    <3>2. Counted(rule)' = {}
      BY <1>2, <2>4, <3>1 DEF Counted
    <3> QED BY <2>1, <2>2, <2>4, <3>2, SumOfNone DEF Exact
  <2> QED BY <1>1, <2>1, <2>3, <2>4, TimePasses
<1> QED BY <1>3, <1>4, <1>5

LEMMA KeyStep ==
    ASSUME FallbackInv, KeyInv, [Next]_vars
    PROVE  KeyInv'
<1>1. NoneRenewed /\ PoolTypes /\ now \in Nat /\ ClientKey \in Owners /\ StartsPast
  BY StepKinds DEF FallbackInv, Typed, OtherTypes, Owners, KeyInv
<1>2. CASE Tick
  BY <1>1, <1>2, TimeIsExact
<1>3. ASSUME NEW r \in Requests, Admit(r) PROVE KeyInv'
  BY <1>3, AdmitIsExact
<1>4. CASE UNCHANGED <<now, admitted, counter>>
  <2>1. StartsPast'
    BY <1>1, <1>4 DEF StartsPast, WindowStart
  <2>2. \A rule \in Limited(ClientKey) : Used(ClientKey, rule)' = Used(ClientKey, rule)
    BY <1>4 DEF Used, WindowStart
  <2> QED BY <1>1, <1>4, <2>1, <2>2, KeyUntouched
<1>5. ASSUME NEW r \in Requests, NEW c \in Credentials, Answered(r, c) PROVE KeyInv'
  <2>1. c \in Owners /\ ClientKey \in Owners \ {c}
    BY FallbackAssumption DEF Owners
  <2>2. Charge(c, r) /\ UNCHANGED <<now, admitted>>
    BY <1>5 DEF Answered
  <2>3. StartsPast' /\ \A rule \in Rules : Used(ClientKey, rule)' = Used(ClientKey, rule)
    BY <1>1, <2>1, <2>2, ChargeAdds
  <2> QED BY <1>1, <2>2, <2>3, KeyUntouched DEF Limited
<1>6. ASSUME NEW r \in Requests, Attempt(r) PROVE UNCHANGED <<now, admitted, counter>>
  BY <1>6 DEF Attempt, poolVars
<1> QED BY <1>2, <1>3, <1>4, <1>5, <1>6, StepKinds DEF Quiet

LEMMA KeyInvariant == Spec => []KeyInv
BY InitKey, KeyStep, FallbackInvariant, PTL DEF Spec

-----------------------------------------------------------------------------
(* The limits of credentials.  F is the set of requests that passed the    *)
(* check of a limit and have not been charged yet, U what is used, B the   *)
(* bound on it, m the highest cost of a request.                           *)

\* U is within B, and the last request of F to pass the check leaves room for
\* the others.
Within(U, F, f, m, B) ==
    /\ U <= B
    /\ F # {} => \E r \in F : U + f[r] + (Cardinality(F) - 1) * m <= B

LEMMA Product ==
    ASSUME NEW m \in Nat
    PROVE  /\ \A k \in Nat : k * m \in Nat /\ (k + 1) * m = k * m + m
           /\ \A j, k \in Nat : j <= k => j * m <= k * m
<1>1. \A k \in Nat : k * m \in Nat /\ (k + 1) * m = k * m + m
  OBVIOUS
<1>2. ASSUME NEW j \in Nat, NEW k \in Nat, j <= k
      PROVE  j * m <= k * m
  <2>1. PICK d \in Nat : k = j + d
    <3>1. k - j \in Nat /\ k = j + (k - j)
      BY <1>2
    <3> QED BY <3>1
  <2>2. k * m = j * m + d * m /\ d * m \in Nat /\ j * m \in Nat
    BY <2>1
  <2> QED BY <2>2
<1> QED BY <1>1, <1>2

\* Requests leave F without a charge, or less is used.
LEMMA WithinShrinks ==
    ASSUME NEW R, NEW f \in [R -> Nat], NEW m \in Nat, \A r \in R : f[r] <= m,
           NEW F \in SUBSET R, IsFiniteSet(F), NEW G \in SUBSET F,
           NEW U \in Nat, NEW V \in Nat, V <= U, NEW B \in Nat,
           Within(U, F, f, m, B)
    PROVE  Within(V, G, f, m, B)
<1>1. V <= B
  BY DEF Within
<1>2. ASSUME G # {}
      PROVE  \E r \in G : V + f[r] + (Cardinality(G) - 1) * m <= B
  <2>1. /\ Cardinality(F) \in Nat /\ Cardinality(G) \in Nat /\ IsFiniteSet(G)
        /\ Cardinality(G) <= Cardinality(F) /\ Cardinality(G) # 0
        /\ Cardinality(G) = Cardinality(F) => G = F
    BY <1>2, FS_Subset, FS_CardinalityType, FS_EmptySet
  <2>2. PICK x \in F : U + f[x] + (Cardinality(F) - 1) * m <= B
    BY <1>2 DEF Within
  <2>3. f[x] \in Nat /\ x \in R
    OBVIOUS
  <2> DEFINE p == (Cardinality(F) - 1) * m
             q == (Cardinality(G) - 1) * m
  <2>4. Cardinality(G) - 1 \in Nat /\ Cardinality(F) - 1 \in Nat
    BY <2>1
  <2>5. p \in Nat /\ q \in Nat /\ q <= p
    BY <2>1, <2>4, Product
  <2> HIDE DEF p, q
  <2>6. U + f[x] + p <= B
    BY <2>2 DEF p
  <2>7. CASE x \in G
    <3>1. V + f[x] + q <= B
      BY <2>3, <2>5, <2>6
    <3> QED BY <2>7, <3>1 DEF q
  <2>8. CASE x \notin G
    <3>1. PICK y \in G : TRUE
      BY <1>2
    <3>2. f[y] \in Nat /\ f[y] <= m
      OBVIOUS
    <3>3. Cardinality(G) < Cardinality(F)
      BY <2>1, <2>8
    <3>4. q + m <= p
      <4> DEFINE g == Cardinality(G) - 1
      <4>1. g \in Nat /\ g + 1 \in Nat /\ g + 1 <= Cardinality(F) - 1
        BY <2>1, <3>3
      <4> HIDE DEF g
      <4>2. g * m + m <= (Cardinality(F) - 1) * m
        <5>1. (g + 1) * m <= (Cardinality(F) - 1) * m
          BY <2>4, <4>1, Product
        <5> QED BY <4>1, <5>1, Product
      <4> QED BY <4>2 DEF p, q, g
    <3>5. V + f[y] + q <= B
      BY <2>3, <2>5, <2>6, <3>2, <3>4
    <3> QED BY <3>5 DEF q
  <2> QED BY <2>7, <2>8
<1> QED BY <1>1, <1>2 DEF Within

\* A request of F is charged.
LEMMA WithinCharges ==
    ASSUME NEW R, NEW f \in [R -> Nat], NEW m \in Nat, \A r \in R : f[r] <= m,
           NEW F \in SUBSET R, IsFiniteSet(F), NEW r \in F,
           NEW U \in Nat, NEW B \in Nat, Within(U, F, f, m, B)
    PROVE  Within(U + f[r], F \ {r}, f, m, B)
<1>1. PICK x \in F : U + f[x] + (Cardinality(F) - 1) * m <= B
  BY DEF Within
<1>2. f[x] \in Nat /\ f[r] \in Nat /\ f[r] <= m
  OBVIOUS
<1> DEFINE n == Cardinality(F \ {r})
<1>3. n \in Nat /\ n = Cardinality(F) - 1 /\ IsFiniteSet(F \ {r})
  BY FS_RemoveElement, FS_CardinalityType
<1>4. n # 0 <=> F \ {r} # {}
  BY <1>3, FS_EmptySet
<1> HIDE DEF n
<1> DEFINE p == n * m
<1>5. p \in Nat /\ U + f[x] + p <= B
  BY <1>1, <1>3, Product
<1>6. CASE F \ {r} = {}
  <2>1. x = r
    BY <1>6
  <2> HIDE DEF p
  <2>2. U + f[r] <= B
    BY <1>2, <1>5, <2>1
  <2> QED BY <1>6, <2>2 DEF Within
<1>7. CASE F \ {r} # {}
  <2> DEFINE q == (n - 1) * m
  <2>1. q \in Nat /\ p = q + m
    <3>1. n - 1 \in Nat /\ n = (n - 1) + 1
      <4>1. n # 0 /\ n \in Nat
        BY <1>3, <1>4, <1>7, Zenon
      <4> QED BY <4>1
    <3>2. PICK k \in Nat : k = n - 1 /\ n = k + 1
      BY <3>1
    <3>3. k * m \in Nat /\ (k + 1) * m = k * m + m
      BY Product
    <3> QED BY <3>2, <3>3
  <2> HIDE DEF p, q
  <2>2. U + f[r] <= B
    BY <1>2, <1>5, <2>1
  <2>3. \E y \in F \ {r} : U + f[r] + f[y] + q <= B
    <3>1. CASE x = r
      <4>1. PICK y \in F \ {r} : TRUE
        BY <1>7
      <4>2. f[y] \in Nat /\ f[y] <= m
        OBVIOUS
      <4>3. U + f[r] + p <= B
        BY <1>5, <3>1
      <4>4. U + f[r] + f[y] + q <= B
        BY <1>2, <2>1, <4>2, <4>3
      <4> QED BY <4>4
    <3>2. CASE x # r
      <4>1. U + f[r] + f[x] + q <= B
        BY <1>2, <1>5, <2>1
      <4> QED BY <3>2, <4>1
    <3> QED BY <3>1, <3>2
  <2> QED BY <2>2, <2>3 DEF Within, q, n
<1> QED BY <1>6, <1>7

\* A request that is charged without having passed the check raises the bound.
LEMMA WithinRises ==
    ASSUME NEW R, NEW f \in [R -> Nat], NEW m \in Nat, \A r \in R : f[r] <= m,
           NEW F \in SUBSET R, IsFiniteSet(F), NEW r \in R,
           NEW U \in Nat, NEW B \in Nat, Within(U, F, f, m, B)
    PROVE  Within(U + f[r], F, f, m, B + m)
<1>1. f[r] \in Nat /\ f[r] <= m
  OBVIOUS
<1>2. U + f[r] <= B + m
  BY <1>1 DEF Within
<1>3. ASSUME F # {}
      PROVE  \E x \in F : U + f[r] + f[x] + (Cardinality(F) - 1) * m <= B + m
  <2>1. PICK x \in F : U + f[x] + (Cardinality(F) - 1) * m <= B
    BY <1>3 DEF Within
  <2>2. Cardinality(F) - 1 \in Nat
    BY <1>3, FS_EmptySet, FS_CardinalityType
  <2> DEFINE p == (Cardinality(F) - 1) * m
  <2>3. p \in Nat /\ f[x] \in Nat /\ U + f[x] + p <= B
    BY <2>1, <2>2, Product
  <2> HIDE DEF p
  <2>4. U + f[r] + f[x] + p <= B + m
    BY <1>1, <2>3
  <2> QED BY <2>4 DEF p
<1> QED BY <1>2, <1>3 DEF Within

\* A request passes the check of a limit L.
LEMMA WithinJoins ==
    ASSUME NEW R, NEW f \in [R -> Nat], NEW m \in Nat,
           NEW F \in SUBSET R, IsFiniteSet(F), NEW r \in F,
           NEW U \in Nat, NEW L \in Nat, U + f[r] <= L,
           NEW k \in Nat, Cardinality(F) - 1 <= k
    PROVE  Within(U, F, f, m, L + k * m)
<1> DEFINE p == (Cardinality(F) - 1) * m
           q == k * m
<1>1. p \in Nat /\ q \in Nat /\ p <= q
  <2>1. Cardinality(F) - 1 \in Nat
    BY FS_EmptySet, FS_CardinalityType
  <2> QED BY <2>1, Product
<1> HIDE DEF p, q
<1>2. f[r] \in Nat
  OBVIOUS
<1>3. U <= L + q /\ U + f[r] + p <= L + q
  BY <1>1, <1>2
<1> QED BY <1>3 DEF Within, p, q

\* Requests that may still charge c within its limit.
InFlight(c) == {r \in Requests : ~saturated[r] /\ Among(c, chain[r])}

Costs(rule) == {Cost[r][rule] : r \in Requests}
Most(rule) == CHOOSE x \in Costs(rule) : \A y \in Costs(rule) : y <= x
Others == Cardinality(Requests) - 1
Bound(c, rule) == LimitOf[c][rule] + (Others + forced[c]) * Most(rule)

RoomFor(c, rule) ==
    Within(Used(c, rule), InFlight(c), CostOf(rule), Most(rule), Bound(c, rule))

LimitInv == StartsPast /\ \A c \in Credentials : \A rule \in Limited(c) : RoomFor(c, rule)

LEMMA MostType ==
    ASSUME NEW rule \in Rules
    PROVE  /\ Most(rule) \in Nat
           /\ CostOf(rule) \in [Requests -> Nat]
           /\ \A r \in Requests : CostOf(rule)[r] = Cost[r][rule]
           /\ \A r \in Requests : CostOf(rule)[r] <= Most(rule)
           /\ Others \in Nat
<1> USE FallbackAssumption
<1>1. CostOf(rule) \in [Requests -> Nat]
  BY DEF CostOf
<1>2. \A r \in Requests : CostOf(rule)[r] = Cost[r][rule]
  BY DEF CostOf
<1>3. CostOf(rule) \in Surjection(Requests, Costs(rule))
  BY DEF CostOf, Costs, Surjection
<1>4. IsFiniteSet(Costs(rule))
  BY <1>3, FS_Surjection
<1>5. Costs(rule) # {} /\ Costs(rule) \subseteq Nat
  BY DEF Costs
<1>6. \E x \in Costs(rule) : \A y \in Costs(rule) : y <= x
  <2>1. Costs(rule) \subseteq Int
    BY <1>5
  <2> QED BY <1>4, <1>5, <2>1, GreatestNumber
<1>7. Most(rule) \in Costs(rule) /\ \A y \in Costs(rule) : y <= Most(rule)
  BY <1>6 DEF Most
<1>8. \A r \in Requests : CostOf(rule)[r] \in Costs(rule)
  BY <1>2 DEF Costs
<1>9. Others \in Nat
  BY FS_CardinalityType, FS_EmptySet, SMTT(30) DEF Others
<1> QED BY <1>1, <1>2, <1>5, <1>7, <1>8, <1>9

LEMMA RoomTypes ==
    ASSUME PoolTypes, now \in Nat, NEW c \in Credentials, NEW rule \in Limited(c)
    PROVE  /\ rule \in Rules /\ Used(c, rule) \in Nat /\ Bound(c, rule) \in Nat
           /\ LimitOf[c][rule] \in Nat /\ Others + forced[c] \in Nat
           /\ InFlight(c) \in SUBSET Requests /\ IsFiniteSet(InFlight(c))
<1>1. rule \in Rules /\ c \in Owners
  BY DEF Limited, Owners
<1>2. Used(c, rule) \in Nat /\ LimitOf[c][rule] \in Nat
  BY <1>1, UsedType
<1>3. Others + forced[c] \in Nat /\ Most(rule) \in Nat
  BY <1>1, MostType DEF PoolTypes
<1>4. (Others + forced[c]) * Most(rule) \in Nat
  BY <1>3, Product
<1>5. InFlight(c) \in SUBSET Requests
  BY DEF InFlight
<1>6. IsFiniteSet(InFlight(c))
  BY <1>5, FS_Subset, FallbackAssumption
<1>7. Bound(c, rule) \in Nat
  <2>1. PICK p \in Nat : p = (Others + forced[c]) * Most(rule)
    BY <1>4
  <2>2. Bound(c, rule) = LimitOf[c][rule] + p
    BY <2>1 DEF Bound
  <2> QED BY <1>2, <2>2
<1> QED BY <1>1, <1>2, <1>3, <1>5, <1>6, <1>7

\* Nobody is charged: requests may leave, and what is used may lapse.
LEMMA RoomShrinks ==
    ASSUME FallbackInv, FallbackInv', NEW c \in Credentials, NEW rule \in Limited(c),
           RoomFor(c, rule), forced'[c] = forced[c],
           Used(c, rule)' <= Used(c, rule), InFlight(c)' \subseteq InFlight(c)
    PROVE  RoomFor(c, rule)'
<1>1. /\ rule \in Rules /\ Used(c, rule) \in Nat /\ Bound(c, rule) \in Nat
      /\ InFlight(c) \in SUBSET Requests /\ IsFiniteSet(InFlight(c))
  BY RoomTypes DEF FallbackInv, Typed, OtherTypes
<1>2. Used(c, rule)' \in Nat
  <2>1. counter'[c][rule].value \in Nat
    BY <1>1 DEF FallbackInv, Typed, PoolTypes, Owners
  <2> QED BY <2>1 DEF Used
<1>3. Bound(c, rule)' = Bound(c, rule) /\ CostOf(rule)' = CostOf(rule)
      /\ Most(rule)' = Most(rule)
  BY DEF Bound, CostOf, Most, Costs, Others
<1>4. Within(Used(c, rule)', InFlight(c)', CostOf(rule), Most(rule), Bound(c, rule))
  BY <1>1, <1>2, MostType, WithinShrinks DEF RoomFor
<1> QED BY <1>3, <1>4 DEF RoomFor, Within

LEMMA InitLimits == Init => LimitInv
<1> SUFFICES ASSUME Init PROVE LimitInv
  OBVIOUS
<1>1. PoolTypes /\ now \in Nat
  BY InitTyped DEF Typed, OtherTypes
<1>2. StartsPast
  BY InitKey DEF KeyInv
<1>3. ASSUME NEW c \in Credentials, NEW rule \in Limited(c)
      PROVE  RoomFor(c, rule)
  <2>1. rule \in Rules /\ Bound(c, rule) \in Nat
    BY <1>1, RoomTypes
  <2>2. counter[c][rule].value = 0
    BY <2>1 DEF Init, Owners
  <2>3. Used(c, rule) = 0
    BY <2>2 DEF Used
  <2>4. InFlight(c) = {}
    BY DEF Init, InFlight, Among
  <2> QED BY <2>1, <2>3, <2>4 DEF RoomFor, Within
<1> QED BY <1>2, <1>3 DEF LimitInv

LEMMA RoomAfter ==
    ASSUME NEW c \in Credentials, NEW rule \in Limited(c)
    PROVE  RoomFor(c, rule)' =
             Within(Used(c, rule)', InFlight(c)', CostOf(rule), Most(rule),
                    LimitOf[c][rule] + (Others + forced'[c]) * Most(rule))
BY DEF RoomFor, Within, Bound, CostOf, Most, Costs, Others

\* An attempt of r is sent with credentials that have room for it, if any has.
LEMMA AttemptFits ==
    ASSUME FallbackInv, NEW r \in Requests, Attempt(r), NEW c \in Credentials,
           r \in InFlight(c)'
    PROVE  Fits(c, r)
<1> DEFINE model == Plan(r)[index[r] + 1]
           S == Candidates(r, model)
<1>1. /\ PoolTypes /\ now \in Nat
      /\ chain \in [Requests -> Seq(Credentials)] /\ saturated \in [Requests -> BOOLEAN]
  BY DEF FallbackInv, Typed, AttemptTypes, OtherTypes
<1>2. model \in Models
  BY NextModel DEF Attempt
<1>3. /\ chain'[r] = Ordered(S, r)
      /\ saturated'[r] = (CredentialsOf[model] # {} /\ Available(r, model) = {})
  BY <1>1 DEF Attempt
<1>4. PICK i \in DOMAIN chain'[r] : chain'[r][i] = c /\ ~saturated'[r]
  BY DEF InFlight, Among
<1> HIDE DEF model
<1>5. S \subseteq CredentialsOf[model]
  BY DEF Candidates, Available
<1>6. c \in S
  BY <1>1, <1>2, <1>3, <1>4, <1>5, OrderedType
<1>7. c \in Available(r, model)
  BY <1>3, <1>4, <1>5, <1>6 DEF Candidates
<1> QED BY <1>7 DEF Available

LEMMA AttemptKeepsRoom ==
    ASSUME FallbackInv, FallbackInv', LimitInv, NEW r \in Requests, Attempt(r)
    PROVE  LimitInv'
<1>1. /\ PoolTypes /\ now \in Nat
      /\ chain \in [Requests -> Seq(Credentials)] /\ saturated \in [Requests -> BOOLEAN]
  BY DEF FallbackInv, Typed, AttemptTypes, OtherTypes
<1>2. /\ UNCHANGED <<now, counter, forced>>
      /\ \A q \in Requests \ {r} : chain'[q] = chain[q] /\ saturated'[q] = saturated[q]
  BY <1>1 DEF Attempt, poolVars
<1>3. StartsPast'
  BY <1>2 DEF LimitInv, StartsPast, WindowStart
<1>4. ASSUME NEW c \in Credentials, NEW rule \in Limited(c)
      PROVE  RoomFor(c, rule)'
  <2>1. /\ rule \in Rules /\ Used(c, rule) \in Nat
        /\ LimitOf[c][rule] \in Nat /\ Others + forced[c] \in Nat
    BY <1>1, RoomTypes
  <2>2. Used(c, rule)' = Used(c, rule)
    BY <1>2 DEF Used, WindowStart
  <2>3. CASE r \notin InFlight(c)'
    <3>1. InFlight(c)' \subseteq InFlight(c)
      BY <1>2, <2>3 DEF InFlight
    <3>2. Used(c, rule)' <= Used(c, rule)
      BY <2>1, <2>2
    <3> QED BY <1>2, <3>1, <3>2, RoomShrinks DEF LimitInv
  <2>4. CASE r \in InFlight(c)'
    <3>1. PICK F : F = InFlight(c)'
      OBVIOUS
    <3>2. F \in SUBSET Requests /\ IsFiniteSet(F) /\ Cardinality(F) - 1 <= Others + forced[c]
      <4>1. F \in SUBSET Requests
        BY <3>1 DEF InFlight
      <4>2. IsFiniteSet(F) /\ Cardinality(F) <= Cardinality(Requests)
        BY <4>1, FS_Subset, FallbackAssumption
      <4>3. /\ Cardinality(F) \in Nat /\ Cardinality(Requests) \in Nat /\ forced[c] \in Nat
        BY <1>1, <4>2, FS_CardinalityType, FallbackAssumption DEF PoolTypes
      <4> QED BY <4>1, <4>2, <4>3 DEF Others
    <3>3. Used(c, rule) + CostOf(rule)[r] <= LimitOf[c][rule]
      <4>1. Fits(c, r)
        BY <2>4, AttemptFits
      <4>2. CostOf(rule)[r] = Cost[r][rule]
        BY DEF CostOf
      <4> QED BY <4>1, <4>2 DEF Fits
    <3>4. CostOf(rule) \in [Requests -> Nat] /\ Most(rule) \in Nat
      BY <2>1, MostType
    <3>5. Within(Used(c, rule), F, CostOf(rule), Most(rule),
                 LimitOf[c][rule] + (Others + forced[c]) * Most(rule))
      BY <2>1, <2>4, <3>1, <3>2, <3>3, <3>4, WithinJoins
    <3>6. forced'[c] = forced[c]
      BY <1>2
    <3> QED BY <2>2, <3>1, <3>5, <3>6, RoomAfter
  <2> QED BY <2>3, <2>4
<1> QED BY <1>3, <1>4 DEF LimitInv

LEMMA AnswerKeepsRoom ==
    ASSUME FallbackInv, FallbackInv', LimitInv,
           NEW r \in Requests, NEW d \in Credentials, Answered(r, d)
    PROVE  LimitInv'
<1>1. /\ PoolTypes /\ now \in Nat /\ StartsPast /\ d \in Owners
      /\ chain \in [Requests -> Seq(Credentials)] /\ saturated \in [Requests -> BOOLEAN]
  BY DEF FallbackInv, Typed, AttemptTypes, OtherTypes, LimitInv, Owners
<1>2. /\ Charge(d, r) /\ now' = now /\ Among(d, chain[r])
      /\ forced' = [forced EXCEPT ![d] = @ + IF saturated[r] THEN 1 ELSE 0]
  BY DEF Answered
<1>3. /\ StartsPast'
      /\ \A rule \in Limited(d) : Used(d, rule)' = Used(d, rule) + Cost[r][rule]
      /\ \A p \in Owners \ {d}, rule \in Rules : Used(p, rule)' = Used(p, rule)
  BY <1>1, <1>2, ChargeAdds
<1>4. ASSUME NEW c \in Credentials
      PROVE  InFlight(c)' = InFlight(c) \ {r}
  <2>1. /\ chain'[r] = <<>>
        /\ \A q \in Requests \ {r} : chain'[q] = chain[q] /\ saturated'[q] = saturated[q]
    BY <1>1 DEF Answered, AttemptOver
  <2>2. ~Among(c, chain'[r])
    BY <2>1 DEF Among
  <2> QED BY <2>1, <2>2 DEF InFlight
<1>5. ASSUME NEW c \in Credentials \ {d}, NEW rule \in Limited(c)
      PROVE  RoomFor(c, rule)'
  <2>1. rule \in Rules /\ Used(c, rule) \in Nat /\ c \in Owners \ {d}
    BY <1>1, RoomTypes DEF Owners
  <2>2. Used(c, rule)' <= Used(c, rule)
    BY <1>3, <2>1
  <2>3. forced'[c] = forced[c]
    BY <1>1, <1>2 DEF PoolTypes
  <2> QED BY <1>4, <2>2, <2>3, RoomShrinks DEF LimitInv
<1>6. ASSUME NEW rule \in Limited(d)
      PROVE  RoomFor(d, rule)'
  <2>1. /\ rule \in Rules /\ Used(d, rule) \in Nat /\ Bound(d, rule) \in Nat
        /\ Others + forced[d] \in Nat /\ LimitOf[d][rule] \in Nat
        /\ InFlight(d) \in SUBSET Requests /\ IsFiniteSet(InFlight(d))
    BY <1>1, RoomTypes
  <2>2. /\ Most(rule) \in Nat /\ CostOf(rule) \in [Requests -> Nat]
        /\ CostOf(rule)[r] = Cost[r][rule]
        /\ \A q \in Requests : CostOf(rule)[q] <= Most(rule)
    BY <2>1, MostType
  <2>3. Within(Used(d, rule), InFlight(d), CostOf(rule), Most(rule), Bound(d, rule))
    BY DEF LimitInv, RoomFor
  <2>4. Used(d, rule)' = Used(d, rule) + CostOf(rule)[r]
    BY <1>3, <2>2
  <2>5. CASE saturated[r]
    <3>1. InFlight(d)' = InFlight(d)
      BY <1>4, <2>5 DEF InFlight
    <3>2. forced'[d] = forced[d] + 1
      BY <1>1, <1>2, <2>5 DEF PoolTypes
    <3>3. LimitOf[d][rule] + (Others + forced'[d]) * Most(rule) = Bound(d, rule) + Most(rule)
      <4>1. PICK k : k = Others + forced[d]
        OBVIOUS
      <4>2. Others + forced'[d] = k + 1 /\ k \in Nat
        <5>1. Others \in Nat /\ forced[d] \in Nat
          BY <1>1, <2>1, MostType DEF PoolTypes
        <5> QED BY <3>2, <4>1, <5>1
      <4>3. (k + 1) * Most(rule) = k * Most(rule) + Most(rule) /\ k * Most(rule) \in Nat
        BY <2>2, <4>2, Product
      <4>4. Bound(d, rule) = LimitOf[d][rule] + k * Most(rule)
        BY <4>1 DEF Bound
      <4> QED BY <2>1, <2>2, <4>2, <4>3, <4>4
    <3>4. Within(Used(d, rule) + CostOf(rule)[r], InFlight(d), CostOf(rule), Most(rule),
                 Bound(d, rule) + Most(rule))
      BY <2>1, <2>2, <2>3, WithinRises
    <3> QED BY <2>4, <3>1, <3>3, <3>4, RoomAfter
  <2>6. CASE ~saturated[r]
    <3>1. r \in InFlight(d)
      BY <1>2, <2>6 DEF InFlight
    <3>2. LimitOf[d][rule] + (Others + forced'[d]) * Most(rule) = Bound(d, rule)
      <4>1. forced'[d] = forced[d]
        BY <1>1, <1>2, <2>6 DEF PoolTypes
      <4> QED BY <4>1 DEF Bound
    <3>3. Within(Used(d, rule) + CostOf(rule)[r], InFlight(d) \ {r}, CostOf(rule), Most(rule),
                 Bound(d, rule))
      BY <2>1, <2>2, <2>3, <3>1, WithinCharges
    <3> QED BY <1>4, <2>4, <3>2, <3>3, RoomAfter
  <2> QED BY <2>5, <2>6
<1> QED BY <1>3, <1>5, <1>6 DEF LimitInv

\* Where nobody in flight is charged.
LEMMA OthersKeepRoom ==
    ASSUME FallbackInv, FallbackInv', LimitInv, StartsPast', forced' = forced,
           \A c \in Credentials, rule \in Rules : Used(c, rule)' \in {Used(c, rule), 0},
           \A c \in Credentials : InFlight(c)' \subseteq InFlight(c)
    PROVE  LimitInv'
<1> SUFFICES ASSUME NEW c \in Credentials, NEW rule \in Limited(c)
             PROVE  RoomFor(c, rule)'
  BY DEF LimitInv
<1>1. rule \in Rules /\ Used(c, rule) \in Nat
  BY RoomTypes DEF FallbackInv, Typed, OtherTypes
<1>2. Used(c, rule)' <= Used(c, rule)
  BY <1>1
<1> QED BY <1>2, RoomShrinks DEF LimitInv

LEMMA LimitStep ==
    ASSUME FallbackInv, FallbackInv', LimitInv, [Next]_vars
    PROVE  LimitInv'
<1>1. /\ PoolTypes /\ now \in Nat /\ StartsPast /\ ClientKey \in Owners
      /\ Credentials \subseteq Owners \ {ClientKey}
  BY FallbackAssumption DEF FallbackInv, Typed, OtherTypes, LimitInv, Owners
<1>2. CASE Tick /\ UNCHANGED <<chain, saturated>>
  <2>1. forced' = forced
    BY <1>2 DEF Tick, poolVars
  <2>2. \A c \in Credentials : InFlight(c)' \subseteq InFlight(c)
    BY <1>2 DEF InFlight
  <2>3. /\ StartsPast'
        /\ \A c \in Credentials, rule \in Rules : Used(c, rule)' \in {Used(c, rule), 0}
    BY <1>1, <1>2, TimePasses
  <2> QED BY <2>1, <2>2, <2>3, OthersKeepRoom
<1>3. ASSUME NEW r \in Requests, Admit(r) PROVE LimitInv'
  <2>1. Charge(ClientKey, r) /\ UNCHANGED <<now, chain, saturated, forced>>
    BY <1>3 DEF Admit, attemptVars
  <2>2. \A c \in Credentials : InFlight(c)' \subseteq InFlight(c)
    BY <2>1 DEF InFlight
  <2>3. /\ StartsPast'
        /\ \A c \in Credentials, rule \in Rules : Used(c, rule)' \in {Used(c, rule), 0}
    BY <1>1, <2>1, ChargeAdds
  <2> QED BY <2>1, <2>2, <2>3, OthersKeepRoom
<1>4. CASE Quiet
  <2>1. StartsPast' /\ forced' = forced
    BY <1>1, <1>4 DEF Quiet, StartsPast, WindowStart
  <2>2. \A c \in Credentials, rule \in Rules : Used(c, rule)' \in {Used(c, rule), 0}
    BY <1>4 DEF Quiet, Used, WindowStart
  <2>3. \A c \in Credentials : InFlight(c)' \subseteq InFlight(c)
    BY <1>4 DEF Quiet, InFlight, Among
  <2> QED BY <2>1, <2>2, <2>3, OthersKeepRoom
<1> QED BY <1>2, <1>3, <1>4, AttemptKeepsRoom, AnswerKeepsRoom, StepKinds

LEMMA LimitInvariant == Spec => []LimitInv
BY InitLimits, LimitStep, FallbackInvariant, PTL DEF Spec

-----------------------------------------------------------------------------
(* The theorems.                                                           *)

\* In every window the client's key has paid for exactly the requests admitted
\* in it, under every rule, and never beyond its limit.
THEOREM KeyIsChargedExactly == Spec => []KeyAllowanceExact
<1>1. KeyInv => KeyAllowanceExact
  BY DEF KeyInv, Exact, KeyAllowanceExact, CostOf, Counted
<1> QED BY <1>1, KeyInvariant, PTL

\* Whatever is in flight, a credential goes beyond its limit by at most the
\* highest cost for every other request, and for every use that was forced
\* because all credentials were exhausted.
THEOREM OvershootIsBounded == Spec => []OvershootBounded
<1>1. LimitInv => OvershootBounded
  <2> SUFFICES ASSUME LimitInv, NEW c \in Credentials, NEW rule \in Limited(c)
               PROVE  Used(c, rule) <= Bound(c, rule)
    BY DEF OvershootBounded, Bound, Most, Costs, Others
  <2> QED BY DEF LimitInv, RoomFor, Within
<1> QED BY <1>1, LimitInvariant, PTL

=============================================================================
