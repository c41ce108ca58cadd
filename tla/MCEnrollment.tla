---------------------------- MODULE MCEnrollment ----------------------------
(* Interchangeable callbacks, flows, tokens and invited accounts.          *)
EXTENDS Enrollment, TLC

CONSTANTS founder, a1, a2

Symmetry ==
  Permutations(Callback) \union Permutations(Flow) \union Permutations(Invitation)
    \union Permutations({a1, a2})

=============================================================================
