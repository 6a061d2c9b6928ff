----------------------------- MODULE MCDbStart -----------------------------
(* Two workers and the checkpoint thread.  One row of an old release, whose  *)
(* seconds are just what passes for seconds, and one that is written.        *)
EXTENDS DbStart, TLC

CONSTANTS w1, w2, ckpt, r1, r2

Lengths == r1 :> 36000 @@ r2 :> 240
=============================================================================
