----------------------- MODULE MCRequestLogAdmission -----------------------
(***************************************************************************)
(* One runtime serves the request of a record; the other one runs beside   *)
(* it or after it.  The list holds two operations.                         *)
(***************************************************************************)
EXTENDS RequestLogAdmission, TLC

CONSTANTS g1, g2, r1

MCOwner == r1 :> g1
=============================================================================
