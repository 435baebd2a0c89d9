-------------------------- MODULE UpstreamFallback --------------------------
(***************************************************************************)
(* What the gateway does with a request once it is authenticated: it       *)
(* reserves the allowance of the client's key, sends the planned attempts  *)
(* one after the other (fetchUpstreamWithFallback) and, for every answer,  *)
(* updates the pool of upstream credentials, which all requests share.     *)
(*                                                                         *)
(* All of it runs on one event loop, so an action is what runs between two *)
(* awaits: the awaited things are the upstream's answer, the drain of a    *)
(* discarded answer, and the delay before the next attempt.  The client    *)
(* may disconnect at any of them.                                          *)
(***************************************************************************)
EXTENDS Integers, Sequences, FiniteSets

CONSTANTS
    Requests,
    ClientKey,      \* the client access key the requests come with
    Credentials,    \* upstream credentials of all providers
    CredentialsOf,  \* per model: the active credentials of its provider
    Priority, Weight,
    Index,          \* per credential: its place in its provider's list
    Mode,           \* per request: "off", "retry" or "model-chain"
    Primary,        \* per request: the routed model
    FallbackModels, \* per request: fallback.models
    RetryCount,     \* per request: fallback.retryCount
    Rules,          \* limit rules
    WindowOf,       \* per rule: windowMs
    LimitOf,        \* per key or credential and rule: the limit, 0 if none
    Cost,           \* per request and rule: what the request uses of it
    UtilScale,      \* a common multiple of the limits
    CooldownMs, BackoffBase, BackoffMax, RetryAfterMax,
    Statuses,       \* HTTP statuses the upstream answers with
    RetryAfters,    \* values of its Retry-After header, 0 if absent
    MaxTime         \* bound on the clock, but for delays under way

ASSUME FallbackAssumption ==
    /\ Requests # {}
    /\ IsFiniteSet(Requests) /\ IsFiniteSet(Credentials) /\ IsFiniteSet(Rules)
    /\ ClientKey \notin Credentials
    /\ \A c \in Credentials : {Priority[c], Weight[c], Index[c]} \subseteq Int
    /\ \A m \in DOMAIN CredentialsOf :
          /\ CredentialsOf[m] \subseteq Credentials
          /\ \A c, d \in CredentialsOf[m] : Index[c] = Index[d] => c = d
    /\ Mode \in [Requests -> {"off", "retry", "model-chain"}]
    /\ Primary \in [Requests -> DOMAIN CredentialsOf]
    /\ FallbackModels \in [Requests -> Seq(DOMAIN CredentialsOf)]
    /\ RetryCount \in [Requests -> Nat]
    /\ WindowOf \in [Rules -> Nat \ {0}]
    /\ LimitOf \in [Credentials \union {ClientKey} -> [Rules -> Nat]]
    /\ Cost \in [Requests -> [Rules -> Nat]]
    /\ {UtilScale, CooldownMs, BackoffBase, BackoffMax, RetryAfterMax} \subseteq Nat \ {0}
    /\ Statuses \subseteq 200 .. 599
    /\ RetryAfters \subseteq Nat
    /\ MaxTime \in Nat

VARIABLES
    now,         \* Date.now()
    stage,       \* where each request is, or how it ended
    gone,        \* requests whose client disconnected (the signal is aborted)
    index,       \* number of the attempt being made, 0 before the first
    chain,       \* credentials chosen for that attempt, in order
    saturated,   \* no credential was available for it
    failed,      \* failedAttempts, with the time each was given up
    wake,        \* when the delay before the next attempt ends
    counter,     \* apiKeyLimitCounters: per owner and rule the last window
    cooldown,    \* providerCredentialCooldowns: until when, 0 if none
    admitted,    \* history: when a request was admitted, -1 before
    last,        \* history: the last outcome recorded for a credential
    forced       \* history: per credential, uses by saturated attempts

poolVars == <<counter, cooldown, last, forced>>
attemptVars == <<index, chain, saturated, failed, wake>>
vars == <<now, stage, gone, attemptVars, poolVars, admitted>>

Owners == Credentials \union {ClientKey}
Running == {"ready", "fetching", "draining", "waiting"}
Ended == {"refused", "relayed", "failed", "closed"}

-----------------------------------------------------------------------------
(* The plan of attempts.                                                   *)

\* The elements of s, each at its first place.
Unique(s) ==
    LET Firsts == {i \in DOMAIN s : \A j \in 1 .. i - 1 : s[j] # s[i]}
        Place(k) == CHOOSE i \in Firsts : Cardinality({j \in Firsts : j <= i}) = k
    IN [k \in 1 .. Cardinality(Firsts) |-> s[Place(k)]]

Plan(r) ==
    CASE Mode[r] = "off" -> <<Primary[r]>>
      [] Mode[r] = "retry" -> [i \in 1 .. RetryCount[r] + 1 |-> Primary[r]]
      [] Mode[r] = "model-chain" -> Unique(<<Primary[r]>> \o FallbackModels[r])

HasNext(r) == index[r] < Len(Plan(r))

ShouldFallback(status, mode) ==
    IF mode = "model-chain" THEN status >= 400
                            ELSE status \in {408, 409, 429} \/ status >= 500

Least(a, b) == IF a < b THEN a ELSE b
Backoff(n) == Least(BackoffMax, BackoffBase * 2 ^ Least(10, n))
DelayAfter(retryAfter, n) ==
    IF retryAfter > 0 THEN Least(retryAfter, RetryAfterMax) ELSE Backoff(n)

-----------------------------------------------------------------------------
(* Limits over fixed windows.  The key of a counter names its window, and  *)
(* time moves on, so only the counter of the last window is ever read.     *)

WindowStart(rule) == (now \div WindowOf[rule]) * WindowOf[rule]
Used(o, rule) ==
    IF counter[o][rule].start = WindowStart(rule) THEN counter[o][rule].value ELSE 0

Limited(o) == {rule \in Rules : LimitOf[o][rule] > 0}

\* Variant: the request itself is not added before the comparison.
FitsBefore(o, r) == \A rule \in Limited(o) : Used(o, rule) <= LimitOf[o][rule]
Fits(o, r) ==
    \A rule \in Limited(o) : Used(o, rule) + Cost[r][rule] <= LimitOf[o][rule]

\* Variant: the count of the window before is carried over.
ChargeOnTop(o, r) ==
    counter' = [counter EXCEPT ![o] = [rule \in Rules |->
        [start |-> WindowStart(rule), value |-> @[rule].value + Cost[r][rule]]]]
Charge(o, r) ==
    counter' = [counter EXCEPT ![o] = [rule \in Rules |->
        IF rule \in Limited(o)
        THEN [start |-> WindowStart(rule), value |-> Used(o, rule) + Cost[r][rule]]
        ELSE counter[o][rule]]]

\* The highest share of a limit that c would have used after r.
Utilization(c, r) ==
    LET Shares == {(Used(c, rule) + Cost[r][rule]) * (UtilScale \div LimitOf[c][rule]) :
                     rule \in Limited(c)} \union {0}
    IN CHOOSE x \in Shares : \A y \in Shares : y <= x

-----------------------------------------------------------------------------
(* The choice of credentials for an attempt.                               *)

Available(r, m) == {c \in CredentialsOf[m] : cooldown[c] <= now /\ Fits(c, r)}

\* Is x before y in the lexicographic order?
Less(x, y) == \E i \in DOMAIN x : x[i] < y[i] /\ \A j \in 1 .. i - 1 : x[j] = y[j]

\* The credentials of S in the order of their ranks, all different.
Arranged(S, rank) ==
    [k \in 1 .. Cardinality(S) |->
        CHOOSE c \in S : Cardinality({d \in S : Less(rank[d], rank[c])}) = k - 1]

\* Priority first, and usage first once all of the first priority are 80 % used.
Ordered(S, r) ==
    LET Top == {c \in S : \A d \in S : Priority[c] <= Priority[d]}
        SpillOver == \A c \in Top : 10 * Utilization(c, r) >= 8 * UtilScale
        Usage == [c \in S |-> Utilization(c, r)]
    IN Arranged(S, [c \in S |->
         IF SpillOver THEN <<Usage[c], Priority[c], -Weight[c], Index[c]>>
                      ELSE <<Priority[c], Usage[c], -Weight[c], Index[c]>>])

Candidates(r, m) ==
    IF Available(r, m) # {} THEN Available(r, m) ELSE CredentialsOf[m]

-----------------------------------------------------------------------------
(* What an answer does to the pool.                                        *)

Denials == {401, 403, 429}
CountsAsUse(status) == status < 500 /\ status \notin Denials

\* The credential an answer is charged to.  The gateway learns it from the
\* header x-ccr-provider-credential-id; the header x-gateway-target-provider-name
\* is translated to that one only for the answer that is relayed.
ChargedTo(r, c, named, relayed) ==
    IF named = "id" \/ (named = "target" /\ relayed) THEN c ELSE Head(chain[r])

\* Variant: a cooldown is only set where none was set before.
RecordOutcomeOnce(r, status, c) ==
    /\ last' = [last EXCEPT ![c] = [ok |-> CountsAsUse(status), at |-> now]]
    /\ IF CountsAsUse(status)
       THEN Charge(c, r) /\ UNCHANGED <<cooldown, forced>>
       ELSE /\ cooldown' = [cooldown EXCEPT ![c] = IF @ = 0 THEN now + CooldownMs ELSE @]
            /\ UNCHANGED <<counter, forced>>

RecordOutcome(r, status, c) ==
    /\ last' = [last EXCEPT ![c] = [ok |-> CountsAsUse(status), at |-> now]]
    /\ IF CountsAsUse(status)
       THEN /\ Charge(c, r)
            /\ cooldown' = [cooldown EXCEPT ![c] = 0]
            /\ forced' = [forced EXCEPT ![c] = @ + IF saturated[r] THEN 1 ELSE 0]
       ELSE /\ cooldown' = [cooldown EXCEPT ![c] = now + CooldownMs]
            /\ UNCHANGED <<counter, forced>>

\* The upstream's answer comes from one of the chain's credentials.
PoolLearns(r, status, relayed) ==
    \/ /\ chain[r] = <<>>
       /\ UNCHANGED poolVars
    \/ \E i \in DOMAIN chain[r], named \in {"id", "target", "none"} :
          RecordOutcome(r, status, ChargedTo(r, chain[r][i], named, relayed))

-----------------------------------------------------------------------------

Init ==
    /\ now = 0
    /\ stage = [r \in Requests |-> "new"]
    /\ gone = {}
    /\ index = [r \in Requests |-> 0]
    /\ chain = [r \in Requests |-> <<>>]
    /\ saturated = [r \in Requests |-> FALSE]
    /\ failed = [r \in Requests |-> <<>>]
    /\ wake = [r \in Requests |-> 0]
    /\ counter = [o \in Owners |-> [rule \in Rules |-> [start |-> 0, value |-> 0]]]
    /\ cooldown = [c \in Credentials |-> 0]
    /\ admitted = [r \in Requests |-> -1]
    /\ last = [c \in Credentials |-> [ok |-> TRUE, at |-> 0]]
    /\ forced = [c \in Credentials |-> 0]

\* reserveApiKeyLimits: every rule is checked before any is charged.
Admit(r) ==
    /\ stage[r] = "new"
    /\ Fits(ClientKey, r)
    /\ Charge(ClientKey, r)
    /\ stage' = [stage EXCEPT ![r] = "ready"]
    /\ admitted' = [admitted EXCEPT ![r] = now]
    /\ UNCHANGED <<now, gone, attemptVars, cooldown, last, forced>>

Refuse(r) ==
    /\ stage[r] = "new"
    /\ ~Fits(ClientKey, r)
    /\ stage' = [stage EXCEPT ![r] = "refused"]
    /\ UNCHANGED <<now, gone, attemptVars, poolVars, admitted>>

\* Variant: an abort clears the timer of the delay without ending the delay.
AtLoopTopLost(r) ==
    \/ stage[r] = "ready"
    \/ stage[r] = "waiting" /\ wake[r] <= now /\ r \notin gone

\* The loop of fetchUpstreamWithFallback starts or comes round again.
AtLoopTop(r) ==
    \/ stage[r] = "ready"
    \/ stage[r] = "waiting" /\ (wake[r] <= now \/ r \in gone)

Stop(r) ==
    /\ AtLoopTop(r) /\ r \in gone
    /\ stage' = [stage EXCEPT ![r] = "closed"]
    /\ UNCHANGED <<now, gone, attemptVars, poolVars, admitted>>

\* Variant: the loop does not look at the signal.
AttemptAnyway(r) ==
    LET model == Plan(r)[index[r] + 1] IN
    /\ AtLoopTop(r)
    /\ stage' = [stage EXCEPT ![r] = "fetching"]
    /\ index' = [index EXCEPT ![r] = @ + 1]
    /\ chain' = [chain EXCEPT ![r] = Ordered(Candidates(r, model), r)]
    /\ UNCHANGED <<now, gone, saturated, failed, wake, poolVars, admitted>>

Attempt(r) ==
    LET model == Plan(r)[index[r] + 1] IN
    /\ AtLoopTop(r) /\ r \notin gone
    /\ stage' = [stage EXCEPT ![r] = "fetching"]
    /\ index' = [index EXCEPT ![r] = @ + 1]
    /\ chain' = [chain EXCEPT ![r] = Ordered(Candidates(r, model), r)]
    /\ saturated' = [saturated EXCEPT ![r] =
                       CredentialsOf[model] # {} /\ Available(r, model) = {}]
    /\ wake' = [wake EXCEPT ![r] = 0]
    /\ UNCHANGED <<now, gone, failed, poolVars, admitted>>

\* The variables of an attempt end with it.
AttemptOver(r) ==
    /\ chain' = [chain EXCEPT ![r] = <<>>]
    /\ saturated' = [saturated EXCEPT ![r] = FALSE]

\* Variant: a failure is listed once for the status and once for the error.
FailTwice(r, delay) ==
    LET f == [model |-> Plan(r)[index[r]], delay |-> delay]
    IN failed' = [failed EXCEPT ![r] = @ \o <<f, f>>]

Fail(r, delay) ==
    failed' = [failed EXCEPT ![r] =
        Append(@, [model |-> Plan(r)[index[r]], delay |-> delay])]

\* An answer that makes the gateway go on to the next attempt.
FallBack(r) ==
    \E status \in Statuses, retryAfter \in RetryAfters :
        /\ stage[r] = "fetching" /\ r \notin gone
        /\ HasNext(r) /\ ShouldFallback(status, Mode[r])
        /\ Fail(r, DelayAfter(retryAfter, Len(failed[r])))
        /\ PoolLearns(r, status, FALSE)
        /\ AttemptOver(r)
        /\ stage' = [stage EXCEPT ![r] = "draining"]
        /\ UNCHANGED <<now, gone, index, wake, admitted>>

\* The body of the discarded answer is read to its end, or fails.
Drained(r) ==
    /\ stage[r] = "draining"
    /\ stage' = [stage EXCEPT ![r] = "waiting"]
    /\ wake' = [wake EXCEPT ![r] = now + failed[r][Len(failed[r])].delay]
    /\ UNCHANGED <<now, gone, index, chain, saturated, failed, poolVars, admitted>>

Relay(r) ==
    \E status \in Statuses :
        /\ stage[r] = "fetching" /\ r \notin gone
        /\ ~(HasNext(r) /\ ShouldFallback(status, Mode[r]))
        /\ PoolLearns(r, status, TRUE)
        /\ AttemptOver(r)
        /\ stage' = [stage EXCEPT ![r] = "relayed"]
        /\ UNCHANGED <<now, gone, index, failed, wake, admitted>>

\* fetch rejects: the connection failed, or the client left.
NetworkError(r) ==
    LET goesOn == HasNext(r) /\ r \notin gone
        delay == IF goesOn THEN Backoff(Len(failed[r])) ELSE 0
    IN /\ stage[r] = "fetching"
       /\ Fail(r, delay)
       /\ AttemptOver(r)
       /\ wake' = [wake EXCEPT ![r] = now + delay]
       /\ stage' = [stage EXCEPT ![r] = IF r \in gone THEN "closed"
                                        ELSE IF goesOn THEN "waiting" ELSE "failed"]
       /\ UNCHANGED <<now, gone, index, poolVars, admitted>>

Disconnect(r) ==
    /\ stage[r] \in Running
    /\ r \notin gone
    /\ gone' = gone \union {r}
    /\ UNCHANGED <<now, stage, attemptVars, poolVars, admitted>>

Delayed(r) == stage[r] = "waiting" /\ wake[r] > now

Tick ==
    /\ now < MaxTime \/ \E r \in Requests : Delayed(r)
    /\ now' = now + 1
    /\ UNCHANGED <<stage, gone, attemptVars, poolVars, admitted>>

Proceeds(r) ==
    \/ Admit(r) \/ Refuse(r) \/ Stop(r) \/ Attempt(r) \/ Drained(r)
    \/ FallBack(r) \/ Relay(r) \/ NetworkError(r)

Next == Tick \/ \E r \in Requests : Proceeds(r) \/ Disconnect(r)

Spec == Init /\ [][Next]_vars

\* The event loop serves every callback, the clock runs, and fetch and drain
\* settle: undici gives up on headers and on a silent body after five minutes.
Fairness == WF_vars(Tick) /\ \A r \in Requests : WF_vars(Proceeds(r))
FairSpec == Spec /\ Fairness

-----------------------------------------------------------------------------
(* Properties.                                                             *)

SumOver(f, S) == LET go[T \in SUBSET S] ==
                       IF T = {} THEN 0
                       ELSE LET x == CHOOSE x \in T : TRUE IN f[x] + go[T \ {x}]
                 IN go[S]

TypeOK ==
    /\ now \in Nat
    /\ stage \in [Requests -> {"new"} \union Running \union Ended]
    /\ gone \subseteq Requests
    /\ \A r \in Requests : /\ index[r] \in 0 .. Len(Plan(r))
                           /\ chain[r] \in Seq(Credentials)
                           /\ Len(failed[r]) <= index[r]
    /\ saturated \in [Requests -> BOOLEAN]
    /\ wake \in [Requests -> Nat]
    /\ counter \in [Owners -> [Rules -> [start : Nat, value : Nat]]]
    /\ cooldown \in [Credentials -> Nat]
    /\ admitted \in [Requests -> Nat \union {-1}]
    /\ last \in [Credentials -> [ok : BOOLEAN, at : Nat]]
    /\ forced \in [Credentials -> Nat]

\* reserveApiKeyLimits: in every window the client's key is charged for exactly
\* the requests admitted in it, under every rule, and never beyond its limit; a
\* refused request costs nothing under any rule.
KeyAllowanceExact ==
    \A rule \in Limited(ClientKey) :
        LET Counted == {r \in Requests : admitted[r] >= WindowStart(rule)}
        IN /\ Used(ClientKey, rule) = SumOver([r \in Requests |-> Cost[r][rule]], Counted)
           /\ Used(ClientKey, rule) <= LimitOf[ClientKey][rule]

\* The limit of a credential is checked when an attempt starts and charged when
\* its answer comes.  Requests that are in flight together pass the check
\* together, so a credential may go beyond its limit, but by no more than one
\* use for each other request (and the uses by attempts for which every
\* credential was exhausted, which are sent on purpose).
OvershootBounded ==
    \A c \in Credentials : \A rule \in Limited(c) :
        LET costs == {Cost[r][rule] : r \in Requests}
            most == CHOOSE x \in costs : \A y \in costs : y <= x
        IN Used(c, rule) <= LimitOf[c][rule]
                              + (Cardinality(Requests) - 1 + forced[c]) * most

\* A credential whose last outcome was a denial or a server error is left alone
\* for the whole cooldown, whoever saw that outcome, as long as the provider has
\* another credential to offer.
FailureSidelines ==
    [][\A r \in Requests :
         (index'[r] # index[r] /\ ~saturated'[r]) =>
           \A i \in DOMAIN chain'[r] :
             LET outcome == last[chain'[r][i]]
             IN outcome.ok \/ now >= outcome.at + CooldownMs]_vars

\* Once the client has left, no further attempt is sent upstream and nothing is
\* relayed, wherever the request was when the client left.
NoAttemptAfterDisconnect ==
    [][\A r \in gone : index'[r] = index[r] /\ stage'[r] # "relayed"]_vars

\* Every request ends, with an answer, an error or the client's departure.
EveryRequestEnds == \A r \in Requests : <>(stage[r] \in Ended)
=============================================================================
