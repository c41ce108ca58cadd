--------------------------- MODULE VersionRegistry ---------------------------
(***************************************************************************)
(* What the hosted catalog promises its consumers, without attempts,       *)
(* leases, objects or retries: a version is admitted once, with one        *)
(* digest, and never changes; revocation is terminal; the outbox records   *)
(* each admission and each revocation exactly once, in the step that makes *)
(* it.  Publication.tla is the implementation.                             *)
(***************************************************************************)
EXTENDS Sequences

CONSTANTS Version, Digest, None

VARIABLES
  digestOf,  \* Version -> Digest, None while the version is not admitted
  revoked,   \* the versions in the terminal revoked state
  log        \* the outbox, oldest event first

vars == <<digestOf, revoked, log>>

Event(type, v) == [type |-> type, version |-> v]

Init ==
  /\ digestOf = [v \in Version |-> None]
  /\ revoked = {}
  /\ log = << >>

Admit(v, d) ==
  /\ digestOf[v] = None
  /\ digestOf' = [digestOf EXCEPT ![v] = d]
  /\ log' = Append(log, Event("version_published", v))
  /\ UNCHANGED revoked

Revoke(v) ==
  /\ digestOf[v] # None
  /\ v \notin revoked
  /\ revoked' = revoked \union {v}
  /\ log' = Append(log, Event("version_revoked", v))
  /\ UNCHANGED digestOf

Next == \E v \in Version : Revoke(v) \/ \E d \in Digest : Admit(v, d)

Spec == Init /\ [][Next]_vars

=============================================================================
