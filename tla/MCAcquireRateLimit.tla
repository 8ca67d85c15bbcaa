------------------------- MODULE MCAcquireRateLimit -------------------------
(* AcquireRateLimit on small instances; the .cfg files choose the constants. *)
EXTENDS AcquireRateLimit, TLC

Perms == Permutations(Threads)
=============================================================================
