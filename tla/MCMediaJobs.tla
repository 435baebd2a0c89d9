---------------------------- MODULE MCMediaJobs ----------------------------
(***************************************************************************)
(* Two images, of which one has an idempotency key, and a video with one.  *)
(***************************************************************************)
EXTENDS MediaJobs

CONSTANTS i1, i2, v1, k1

Keys == [j \in Jobs |-> IF j = i2 THEN None ELSE k1]
=============================================================================
