----------------------------- MODULE MCSeeding -----------------------------
EXTENDS Seeding

MCSymmetry == Permutations(Shards)
=============================================================================
