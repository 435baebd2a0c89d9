------------------------- MODULE MCGatewayLifecycle -------------------------
(***************************************************************************)
(* Four starts, the third one by ensureStarted, and a stop, one after the  *)
(* other; or two starts and a stop that overlap.                           *)
(***************************************************************************)
EXTENDS GatewayLifecycle

CONSTANTS s1, s2, s3, s4, halt

AllStarts == {s1, s2, s3, s4}
TwoStarts == {s1, s2}
=============================================================================
