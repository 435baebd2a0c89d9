------------------------ MODULE MCRouteScriptRuntime ------------------------
(***************************************************************************)
(* Two executions of one rule, a test run of the same script and a         *)
(* validation, on two workers; a circuit opens at the second failure.      *)
(***************************************************************************)
EXTENDS RouteScriptRuntime, TLC

CONSTANTS e1, e2, e3, test, valid, rule

MCCalls == {e1, e2, test, valid}
MCValidations == {valid}
MCGuarded == {e1, e2}
MCKeyOf == [c \in {e1, e2, test, valid} |-> rule]

\* The two executions differ in nothing.
MCSymmetry == Permutations({e1, e2})

\* Three calls in line for one worker.
LineCalls == {e1, e2, valid}
LineKeyOf == [c \in LineCalls |-> rule]

\* Three executions of one rule, for what the circuit breaker promises.
OpenCalls == {e1, e2, e3}
OpenValidations == {}
OpenKeyOf == [c \in OpenCalls |-> rule]
=============================================================================
