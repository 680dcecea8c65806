---------------------------- MODULE MCMigrations ----------------------------
(* Two runners; two seeds and one other price.                              *)
EXTENDS Migrations, TLC

CONSTANTS r1, r2, s1, s2, other

MCSeeds == {s1, s2}
MCPrices == {s1, s2, other}
MCSymmetry == Permutations(Runners) \cup Permutations(Seeds)
=============================================================================
