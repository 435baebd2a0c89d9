------------------------- MODULE MCUpstreamFallback -------------------------
(***************************************************************************)
(* Two models of one provider with two credentials and one of a provider   *)
(* without a credential pool; one unit of time is half a cooldown.         *)
(***************************************************************************)
EXTENDS UpstreamFallback, TLC

CONSTANTS a, b, d, key, c1, c2, m1, m2

MCRules == {"rpm"}
MCWindowOf == [rule \in MCRules |-> 2]
MCCredentialsOf == (m1 :> {c1, c2}) @@ (m2 :> {})
MCPriority == [c \in {c1, c2} |-> IF c = c1 THEN 1 ELSE 2]
MCWeight == [c \in {c1, c2} |-> 1]
MCIndex == [c \in {c1, c2} |-> IF c = c1 THEN 0 ELSE 1]
MCLimitOf == [o \in {key, c1, c2} |-> [rule \in MCRules |->
                CASE o = key -> 2 [] o = c1 -> 1 [] o = c2 -> 0]]

\* A chain that names its first model again, and a retry, without limits.
TwoRequests == {a, b}
TwoMode == (a :> "model-chain") @@ (b :> "retry")
TwoPrimary == [r \in TwoRequests |-> m1]
TwoModels == (a :> <<m2, m1>>) @@ (b :> <<>>)
TwoRetries == (a :> 0) @@ (b :> 1)
TwoCredentialsOf == (m1 :> {c1}) @@ (m2 :> {})
NoLimits == [o \in {key, c1} |-> [rule \in MCRules |-> 0]]
TwoCost == [r \in TwoRequests |-> [rule \in MCRules |-> 1]]

\* Three requests on the pool, one of which retries.
ThreeRequests == {a, b, d}
ThreeMode == [r \in ThreeRequests |-> IF r = b THEN "retry" ELSE "off"]
ThreePrimary == [r \in ThreeRequests |-> m1]
ThreeModels == [r \in ThreeRequests |-> <<m2>>]
ThreeRetries == [r \in ThreeRequests |-> 1]
ThreeCost == [r \in ThreeRequests |-> [rule \in MCRules |-> 1]]

\* The two that do not retry differ in nothing.
MCSymmetry == Permutations({a, d})
=============================================================================
