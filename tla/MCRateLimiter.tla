--------------------------- MODULE MCRateLimiter ---------------------------
EXTENDS RateLimiter, TLC

CONSTANTS g1, g2

\* Clocks that agree, and one that runs ahead of the other.
Exact == [g \in Node |-> 0]
Drift == [g \in Node |-> IF g = g1 THEN MaxSkew ELSE -MaxSkew]

Symmetry == Permutations(Request)

=============================================================================
