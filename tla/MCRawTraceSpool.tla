-------------------------- MODULE MCRawTraceSpool --------------------------
(***************************************************************************)
(* One bundle, which the producer may post while the replayer finds it by  *)
(* itself.                                                                 *)
(***************************************************************************)
EXTENDS RawTraceSpool

CONSTANTS b1, h1
=============================================================================
