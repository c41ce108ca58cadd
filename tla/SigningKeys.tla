---------------------------- MODULE SigningKeys ----------------------------
(***************************************************************************)
(* The workload key set (identity): tokens are minted under the current    *)
(* key and verified by key id, while keys rotate in the process or by a    *)
(* restart from the operator's configuration.  One token is followed: what *)
(* happens to it depends on no other token.  Time is the injected clock.   *)
(***************************************************************************)
EXTENDS Naturals, FiniteSets

CONSTANTS Kids,       \* the key ids, one key each
          MaxAge,     \* defaultMaxTokenAge
          Skew,       \* maxClockSkew
          Leases,     \* how long a revocation lease may be
          MaxClock,   \* bound of the model's clock
          MaxRekeys   \* bound of rotations and restarts

ASSUME KeysAssumption ==
  /\ Kids # {}
  /\ MaxAge \in Nat /\ Skew \in Nat /\ MaxClock \in Nat
  /\ Leases \subseteq Nat

VARIABLES clock,      \* the injected clock
          keyset,     \* the current key and, per known key, when it retires
          token,      \* the token followed: its mint, its key and its expiry
          verifier,   \* one verification of it and its answer
          revoked,    \* until when the lease holds it as revoked; 0 is never
          rekeyed,    \* how often the keys were changed
          chosen      \* history: keys whose retirement the operator chose

keyVars == <<clock, keyset, token, verifier, revoked, rekeyed, chosen>>

Never == MaxClock + MaxAge + Skew + 1            \* a zero NotAfter
Smaller(a, b) == IF a < b THEN a ELSE b
Larger(a, b) == IF a < b THEN b ELSE a

-----------------------------------------------------------------------------

Rotated(keys, next, notAfter, retireAt) ==
  LET prev == keys.current
      kept == [keys.notAfter EXCEPT ![prev] = Smaller(@, retireAt)]
  IN [current |-> next,
      notAfter |-> [k \in DOMAIN kept \cup {next} |-> IF k = next THEN notAfter ELSE kept[k]]]

\* Mutant of Rotate: the retired key is kept for the age of a token only.
RotateWithoutSkew(next, notAfter) ==
  /\ rekeyed < MaxRekeys /\ next \notin DOMAIN keyset.notAfter
  /\ keyset' = Rotated(keyset, next, notAfter, clock + MaxAge)
  /\ chosen' = IF notAfter = Never THEN chosen ELSE chosen \cup {next}
  /\ rekeyed' = rekeyed + 1
  /\ UNCHANGED <<clock, token, verifier, revoked>>

\* A new key becomes current; the one before it verifies until every token
\* under it has expired, or until its own, earlier retirement.  A used key
\* id is refused, and the current key again changes nothing.
Rotate(next, notAfter) ==
  /\ rekeyed < MaxRekeys /\ next \notin DOMAIN keyset.notAfter
  /\ keyset' = Rotated(keyset, next, notAfter, clock + MaxAge + Skew)
  /\ chosen' = IF notAfter = Never THEN chosen ELSE chosen \cup {next}
  /\ rekeyed' = rekeyed + 1
  /\ UNCHANGED <<clock, token, verifier, revoked>>

\* LoadKeySet in a new process: a current key, and retired keys with
\* retirement times that are not too far ahead.  What ran, and the
\* revocations of the old process, are lost.
Restart(next, retired) ==
  /\ rekeyed < MaxRekeys
  /\ next \notin DOMAIN retired
  /\ \A k \in DOMAIN retired: retired[k] > 0 /\ retired[k] <= clock + MaxAge + Skew
  /\ keyset' = [current |-> next,
                notAfter |-> [k \in DOMAIN retired \cup {next} |-> IF k = next THEN Never ELSE retired[k]]]
  /\ token' = IF token.pc \in {"timed", "keyed"} THEN [token EXCEPT !.pc = "none"] ELSE token
  /\ verifier' = [verifier EXCEPT !.pc = "idle", !.answer = "none"]
  /\ chosen' = {k \in (chosen \cup DOMAIN keyset.notAfter) \ {next}:
                  k \in DOMAIN retired => retired[k] < clock + MaxAge + Skew}
  /\ revoked' = 0 /\ rekeyed' = rekeyed + 1
  /\ UNCHANGED clock

Tick ==
  /\ clock < MaxClock
  /\ clock' = clock + 1
  /\ UNCHANGED <<keyset, token, verifier, revoked, rekeyed, chosen>>

-----------------------------------------------------------------------------
(* Mint reads the clock, then the current key, and answers.                *)

ReadMintClock(ttl) ==
  /\ token.pc = "none"
  /\ token' = [token EXCEPT !.pc = "timed", !.exp = clock + ttl]
  /\ UNCHANGED <<clock, keyset, verifier, revoked, rekeyed, chosen>>

ReadCurrentKey ==
  /\ token.pc = "timed"
  /\ token' = [token EXCEPT !.pc = "keyed", !.kid = keyset.current]
  /\ UNCHANGED <<clock, keyset, verifier, revoked, rekeyed, chosen>>

Sign ==
  /\ token.pc = "keyed"
  /\ token' = [token EXCEPT !.pc = "out"]
  /\ UNCHANGED <<clock, keyset, verifier, revoked, rekeyed, chosen>>

\* A revocation is kept for the lease, and until the token's expiry.
Revoke(ttl) ==
  /\ token.pc = "out"
  /\ revoked' = Larger(revoked, Larger(clock + ttl, token.exp))
  /\ UNCHANGED <<clock, keyset, token, verifier, rekeyed, chosen>>

-----------------------------------------------------------------------------
(* Verify reads the clock, looks up the key, validates the claims against  *)
(* the clock as it is then, and asks the lease about its own first time.   *)

BeginVerify ==
  /\ token.pc = "out" /\ verifier.pc = "idle"
  /\ verifier' = [pc |-> "lookup", began |-> clock, answer |-> "none",
                  barred |-> revoked > 0 /\ clock < token.exp, expected |-> FALSE]
  /\ UNCHANGED <<clock, keyset, token, revoked, rekeyed, chosen>>

Knows(kid, t) == kid \in DOMAIN keyset.notAfter /\ t < keyset.notAfter[kid]

VerifyKey ==
  /\ verifier.pc = "lookup"
  /\ verifier' = IF Knows(token.kid, verifier.began)
                 THEN [verifier EXCEPT !.pc = "claims"]
                 ELSE [verifier EXCEPT !.pc = "idle", !.answer = "unknown_key",
                                       !.expected = clock < token.exp + Skew]
  /\ UNCHANGED <<clock, keyset, token, revoked, rekeyed, chosen>>

Validate ==
  /\ verifier.pc = "claims"
  /\ verifier' = [verifier EXCEPT !.pc = IF clock < token.exp + Skew THEN "lease" ELSE "idle",
                                  !.answer = IF clock < token.exp + Skew THEN "none" ELSE "expired"]
  /\ UNCHANGED <<clock, keyset, token, revoked, rekeyed, chosen>>

AskLease ==
  /\ verifier.pc = "lease"
  /\ verifier' = [verifier EXCEPT !.pc = "idle",
                                  !.answer = IF verifier.began < revoked THEN "revoked" ELSE "accepted"]
  /\ UNCHANGED <<clock, keyset, token, revoked, rekeyed, chosen>>

-----------------------------------------------------------------------------

\* VerificationKeys: the current key, and the known ones that still verify.
VerificationKeys ==
  {keyset.current} \cup {k \in DOMAIN keyset.notAfter: clock < keyset.notAfter[k]}

FirstKid == CHOOSE k \in Kids: TRUE
NoToken == [pc |-> "none", kid |-> FirstKid, exp |-> 0]
NoVerification == [pc |-> "idle", began |-> 0, answer |-> "none", barred |-> FALSE, expected |-> FALSE]

KeysInit ==
  /\ clock = 0
  /\ keyset = [current |-> FirstKid, notAfter |-> [x \in {FirstKid} |-> Never]]
  /\ token = NoToken /\ verifier = NoVerification
  /\ revoked = 0 /\ rekeyed = 0 /\ chosen = {}

KeysNext ==
  \/ Tick \/ ReadCurrentKey \/ Sign \/ BeginVerify \/ VerifyKey \/ Validate \/ AskLease
  \/ \E next \in Kids, notAfter \in {Never, clock + 1}: Rotate(next, notAfter)
  \/ \E ks \in SUBSET DOMAIN keyset.notAfter, next \in Kids:
       \E retired \in [ks -> {1, clock + MaxAge + Skew}]: Restart(next, retired)
  \/ \E ttl \in 1..MaxAge: ReadMintClock(ttl)
  \/ \E ttl \in Leases: Revoke(ttl)

KeysSpec == KeysInit /\ [][KeysNext]_keyVars

-----------------------------------------------------------------------------

\* Until a token's expiry and the tolerated skew have passed, its key is known
\* and published, and verification never refuses it for its key: however mints,
\* verifications and rotations interleave, unless a key's retirement was set
\* from outside (an explicit NotAfter, a configuration that drops the key or
\* retires it early).  Nothing is accepted past that time, and nothing that was
\* revoked before the verification began and before its expiry
\* (Rotate, Mint, Verify, VerificationKeys, RevocationLease).
TokensOutliveRotation ==
  /\ token.pc = "out" /\ clock < token.exp + Skew /\ token.kid \notin chosen =>
       Knows(token.kid, clock) /\ token.kid \in VerificationKeys
  /\ verifier.answer = "unknown_key" /\ verifier.expected => token.kid \in chosen
  /\ verifier.answer = "accepted" => verifier.began < token.exp + Skew /\ ~verifier.barred

=============================================================================
