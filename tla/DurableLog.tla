----------------------------- MODULE DurableLog -----------------------------
(***************************************************************************)
(* What a caller of RequestLogRuntime may rely on, without queue, batches, *)
(* workers or transactions: an event is refused or accepted; an accepted   *)
(* event may become stored; only an event that was stored is acknowledged. *)
(* What is stored stays stored until its owner is too old, except the weak *)
(* events, which a later transaction may displace.  An event may also be   *)
(* dropped after its last write attempt, or abandoned once the runtime is  *)
(* closed.                                                                 *)
(***************************************************************************)
CONSTANTS Events,
          Owner,  \* the record an event belongs to; a record is its own
          Weak    \* traces that did not wait until their record was stored

VARIABLES fate, stored,
          given   \* what was given up

vars == <<fate, stored, given>>

AllAre(S, f) == \A e \in S : fate[e] = f

Become(S, f) ==
    /\ fate' = [e \in Events |-> IF e \in S THEN f ELSE fate[e]]
    /\ UNCHANGED <<stored, given>>

Init ==
    /\ fate = [e \in Events |-> "new"]
    /\ stored = {} /\ given = {}

Refuse(e) == fate[e] = "new" /\ Become({e}, "refused")

Accept(e) == fate[e] = "new" /\ Become({e}, "accepted")

\* Weak events, and those whose owner was given up.
Expendable == {e \in Events : e \in Weak \/ Owner[e] \in given}

\* G is given up, of what was stored or would be now.
Leave(S, G) ==
    /\ stored' = S \ G
    /\ given' = given \union G
    /\ UNCHANGED fate

\* One transaction stores a batch; storing again changes nothing.
Store(S) ==
    /\ AllAre(S, "accepted")
    /\ \E G \in SUBSET (Expendable \intersect (stored \union S)) : Leave(stored \union S, G)

\* Owners grow old, and what belongs to them goes with them.
Expire(D) ==
    /\ D \subseteq stored
    /\ Leave(stored, {e \in stored : Owner[e] \in D})

Acknowledge(S) ==
    /\ AllAre(S, "accepted") /\ S \subseteq stored \union given
    /\ Become(S, "acked")

Drop(e) == fate[e] = "accepted" /\ Become({e}, "dropped")

Abandon(S) == AllAre(S, "accepted") /\ Become(S, "abandoned")

Next ==
    \/ \E e \in Events : Refuse(e) \/ Accept(e) \/ Drop(e)
    \/ \E S \in SUBSET Events : Store(S) \/ Expire(S) \/ Acknowledge(S) \/ Abandon(S)

Spec == Init /\ [][Next]_vars

=============================================================================
