------------------------- MODULE MCChatIdempotency --------------------------
(* Small instances of ChatIdempotency for TLC: three calls that carry one  *)
(* message and one that reuses its request_id for another.                 *)
EXTENDS ChatIdempotency, TLC

CONSTANTS c1, c2, c3, c4, hello, other

ThreeRetriesAndAnother == (c1 :> hello) @@ (c2 :> hello) @@ (c3 :> hello) @@ (c4 :> other)
AllRetries == [c \in Call |-> hello]

Symmetry == Permutations({c1, c2, c3})
AllSymmetry == Permutations(Call)
=============================================================================
