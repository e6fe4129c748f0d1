------------------------------ MODULE MCRollup ------------------------------
(* Small instances of Rollup: three tiers, buckets of 1, 2 and 4.          *)
EXTENDS History

Tier(res, keep) == [res |-> res, keep |-> keep]

MCTiers == <<Tier(1, 1), Tier(2, 3), Tier(4, 5)>>

MCGrains == <<2, 4>>
=============================================================================
