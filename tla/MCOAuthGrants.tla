--------------------------- MODULE MCOAuthGrants ---------------------------
EXTENDS OAuthGrants, TLC

\* Requests and the secrets newOpaque draws are interchangeable.
GrantSymmetry ==
    Permutations(Requests) \cup Permutations(Tokens) \cup Permutations(Codes)

=============================================================================
