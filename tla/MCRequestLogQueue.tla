-------------------------- MODULE MCRequestLogQueue --------------------------
(***************************************************************************)
(* Two records, and the raw traces of two attempts of r1.  r2 and t1 are   *)
(* ordinary successes, which pressure degrades or refuses; t2 is deferred  *)
(* until its record is decided; r2 can never be written.  The caps are     *)
(* tight: a record and a trace bring the queue beyond 70 per cent, three   *)
(* events to its limit, and a batch holds at most two entries.             *)
(***************************************************************************)
EXTENDS RequestLogQueue, TLC

CONSTANTS r1, r2, t1, t2

MCOf == [t \in {t1, t2} |-> r1]
MCFullSize == r1 :> 3 @@ r2 :> 4 @@ t1 :> 2 @@ t2 :> 1
MCBareSize == [e \in {r1, r2, t1, t2} |-> 1]
=============================================================================
