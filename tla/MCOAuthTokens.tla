--------------------------- MODULE MCOAuthTokens ---------------------------
EXTENDS OAuthTokens, TLC

\* Requests of a kind are interchangeable.
Symmetry == Permutations(Calls) \union Permutations(Callbacks)
=============================================================================
