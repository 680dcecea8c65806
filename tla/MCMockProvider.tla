--------------------------- MODULE MCMockProvider ---------------------------
(* Small instances of MockProvider for TLC. *)
EXTENDS MockProvider, TLC

CONSTANTS e1, e2, r1, r2

OneEndpoint == {e1}
TwoEndpoints == {e1, e2}
TwoRequests == {r1, r2}

Symmetry == Permutations(TwoRequests)
=============================================================================
