----------------------------- MODULE MCRefspec ------------------------------
EXTENDS Refspec, TLC

CONSTANTS a, b

CallSymmetry == Permutations({a, b})
=============================================================================
