--------------------------- MODULE MCRateLimiter ---------------------------
EXTENDS RateLimiter, TLC

\* Callers are interchangeable.
CallerSymmetry == Permutations(Callers)
=============================================================================
