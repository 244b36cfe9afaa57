------------------------------ MODULE MCLedger ------------------------------
(* Providers choose response ids, so two generations can carry the same    *)
(* one: g1 and g3 collide inside production, g2 collides across profiles.  *)
EXTENDS Ledger

CONSTANTS g1, g2, g3, i1

MCIds == {i1}
MCIdOf == [g \in Generations |-> i1]
MCProfileOf == [g \in Generations |-> IF g = g2 THEN "beta" ELSE "production"]

=============================================================================
