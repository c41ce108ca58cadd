---------------------------- MODULE MCPublication ----------------------------
(* Small instances of Publication for TLC.                                 *)
EXTENDS Publication, TLC

CONSTANTS v1, v2

(* v2 stands for a skill or binding whose fence protects v1.               *)
MCDeps == [v \in Version |-> IF v = v2 THEN {v1} ELSE {}]

(* Attempts, keys, digests, publishers and cleaners are interchangeable;   *)
(* versions are not, because Deps tells them apart.                        *)
Symmetry ==
  Permutations(Attempt) \union Permutations(Key) \union Permutations(Digest)
    \union Permutations(Publisher) \union Permutations(Cleaner)
=============================================================================
