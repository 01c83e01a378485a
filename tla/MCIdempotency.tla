--------------------------- MODULE MCIdempotency ---------------------------
(* Dispatches Dups of one logical call, and one call to another tool that  *)
(* carries the same key.                                                   *)
EXTENDS Idempotency, TLC
CONSTANTS Dups, Other, key, toolA, toolB
MCToolOf == [c \in Calls |-> IF c = Other THEN toolB ELSE toolA]
MCKeyOf == [c \in Calls |-> key]
Symm == Permutations(Dups)
=============================================================================
