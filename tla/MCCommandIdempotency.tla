------------------------ MODULE MCCommandIdempotency ------------------------
EXTENDS CommandIdempotency, TLC

\* Requests are interchangeable, and so are keys.
Symmetric == Permutations(Requests) \union Permutations(Keys)
=============================================================================
