----------------------------- MODULE Publication -----------------------------
(***************************************************************************)
(* The durable publication store of the hosted registry                    *)
(* (hosted/internal/storage/publication.go, revocations.go and objects.go, *)
(* driven by hosted/internal/app/publication_v2.go and                     *)
(* publication_maintenance.go) for one workspace and one artifact kind.    *)
(*                                                                         *)
(* A publication is two PostgreSQL transactions around an object PUT:      *)
(* reserve (idempotency ledger + attempt), StageOwned, commit (catalog row *)
(* + outbox event).  A janitor claims attempts whose lease ran out, deletes*)
(* their objects outside any transaction and retires them.  Each           *)
(* transaction is one atomic step here, because it is serialised by the    *)
(* advisory and row locks it takes; everything between two transactions    *)
(* interleaves, may fail, and may leave a PUT or DELETE behind that the    *)
(* object store executes later.                                            *)
(*                                                                         *)
(* An object key is "v2/" + attempt id + "/" + digest, so an object is     *)
(* named by its attempt.  Times are abstracted to "the lease (claim) still *)
(* holds", which any amount of waiting may end.                            *)
(***************************************************************************)
EXTENDS Naturals, FiniteSets, Sequences

CONSTANTS
  Attempt,      \* opaque attempt ids that rand.Read may draw
  Key,          \* idempotency keys
  Version,      \* exact artifact references (id, version)
  Digest,       \* sha256 of the artifact bytes
  Publisher,    \* concurrent Publish calls
  Cleaner,      \* concurrent Cleanup passes (one janitor per replica)
  None,         \* SQL NULL / no row
  Deps,         \* Version -> versions its fence protects
  MaxActive,    \* 64: staged or deleting attempts per workspace
  MaxLedger,    \* 100000: idempotency rows per workspace
  CleanupLimit, \* 20: claims of one cleanup pass
  MaxGen,       \* model bound on attempt generations
  MaxPolicy     \* model bound on policy generations

ASSUME NoneAssumption ==
  /\ None \notin Attempt
  /\ None \notin Version
  /\ None \notin Digest
  /\ None \notin Key

ASSUME DepsAssumption == Deps \in [Version -> SUBSET Version]

ASSUME BoundsAssumption ==
  /\ MaxActive \in Nat
  /\ MaxLedger \in Nat
  /\ CleanupLimit \in Nat
  /\ MaxGen \in Nat
  /\ MaxPolicy \in Nat

VARIABLES
  catalog,   \* catalog_versions: version -> state, digest, object_key
  attempts,  \* publication_attempts, "unused" for ids not drawn yet
  ledger,    \* publication_idempotency: key -> version, digest, attempt
  objects,   \* attempts whose owned object is in the object store
  puts,      \* PUTs of failed StageOwned calls that may still land
  dels,      \* DELETEs of failed DeleteOwned calls that may still land
  pub,       \* the Publish calls: where each is and what it carries
  clean,     \* the Cleanup passes: the claims each has still to finish
  policy,    \* current policy_generation of the workspace
  outbox,    \* event_outbox of the workspace
  reply      \* the response given by the last step, if it gave one

vars == <<catalog, attempts, ledger, objects, puts, dels, pub, clean,
          policy, outbox, reply>>

AttemptState == {"unused", "staged", "committed", "deleting", "retired"}

Idle == [pc |-> "idle", key |-> None, version |-> None, digest |-> None,
         attempt |-> None, policy |-> 0]

NoReply == [outcome |-> "none", version |-> None, digest |-> None]

Event(type, v) == [type |-> type, version |-> v]

-----------------------------------------------------------------------------
(* Reading the tables.                                                     *)

Live(v) == catalog[v].state = "published"

(* SELECT ... state IN ('staged','deleting'): what the quota counts.       *)
Active == {a \in Attempt : attempts[a].state \in {"staged", "deleting"}}

Ledgered == {k \in Key : ledger[k].version # None}

(* The part of the publication fence that reads catalog rows FOR SHARE:    *)
(* every protected dependency is still published.                          *)
DepsLive(v) == \A w \in Deps[v] : Live(w)

(* The fence of a request that authenticated under generation g.           *)
Fence(v, g) == g = policy /\ DepsLive(v)

(* The catalog row of v is live, has these bytes and this object key.      *)
RowIs(v, d, a) == Live(v) /\ catalog[v].digest = d /\ catalog[v].key = a

(* The row's object key belongs to a committed attempt.                    *)
OwnedRow(v) ==
  /\ catalog[v].key \in Attempt
  /\ attempts[catalog[v].key].state = "committed"

Unreferenced(a) == \A v \in Version : catalog[v].key # a

(* PublicationStore.Read of the package body succeeds: the row is live and *)
(* OpenOwned finds the exact bytes under the row's object key.             *)
Readable(v) ==
  /\ Live(v)
  /\ catalog[v].key \in objects
  /\ attempts[catalog[v].key].digest = catalog[v].digest

-----------------------------------------------------------------------------
Init ==
  /\ catalog = [v \in Version |->
                  [state |-> "absent", digest |-> None, key |-> None]]
  /\ attempts = [a \in Attempt |->
                  [state |-> "unused", version |-> None, digest |-> None,
                   leased |-> FALSE, claimed |-> FALSE, gen |-> 0]]
  /\ ledger = [k \in Key |->
                  [version |-> None, digest |-> None, attempt |-> None]]
  /\ objects = {}
  /\ puts = {}
  /\ dels = {}
  /\ pub = [p \in Publisher |-> Idle]
  /\ clean = [c \in Cleaner |-> {}]
  /\ policy = 0
  /\ outbox = << >>
  /\ reply = NoReply

Respond(p, outcome, v, d) ==
  /\ pub' = [pub EXCEPT ![p] = Idle]
  /\ reply' = [outcome |-> outcome, version |-> v, digest |-> d]

Continue(p, pc, k, v, d, a) ==
  /\ pub' = [pub EXCEPT ![p] = [pc |-> pc, key |-> k, version |-> v,
                                digest |-> d, attempt |-> a,
                                policy |-> policy]]
  /\ reply' = NoReply

(* INSERT INTO publication_attempts ... 'staged', lease 24 hours.          *)
NewAttempt(a, v, d) ==
  /\ attempts[a].state = "unused"
  /\ attempts' = [attempts EXCEPT ![a] =
                    [state |-> "staged", version |-> v, digest |-> d,
                     leased |-> TRUE, claimed |-> FALSE, gen |-> 1]]

-----------------------------------------------------------------------------
(* The reserve transaction, first for a key that has a ledger row.         *)

SameIdentity(k, v, d) == ledger[k].version = v /\ ledger[k].digest = d

(* The committed or retired attempt of a known key disagrees with the live *)
(* catalog row; a retired attempt may also have no row at all.             *)
RowDisagrees(k, v, d) ==
  LET a == ledger[k].attempt
  IN  \/ attempts[a].state = "committed" /\ ~RowIs(v, d, a)
      \/ attempts[a].state = "retired" /\ catalog[v].state # "absent"
                                       /\ ~RowIs(v, d, a)

KnownConflict(p, k, v, d) ==
  /\ \/ ~SameIdentity(k, v, d)
     \/ attempts[ledger[k].attempt].state = "deleting"
     \/ RowDisagrees(k, v, d)
  /\ Respond(p, "conflict", v, d)
  /\ UNCHANGED <<attempts, ledger>>

(* A committed attempt is answered by a second, re-checking transaction.   *)
KnownReplay(p, k, v, d) ==
  /\ SameIdentity(k, v, d)
  /\ ~RowDisagrees(k, v, d)
  /\ attempts[ledger[k].attempt].state = "committed"
  /\ Continue(p, "replay", k, v, d, ledger[k].attempt)
  /\ UNCHANGED <<attempts, ledger>>

(* A staged attempt is taken over by this call and its lease renewed.      *)
KnownRenew(p, k, v, d) ==
  LET a == ledger[k].attempt
  IN  /\ SameIdentity(k, v, d)
      /\ attempts[a].state = "staged"
      /\ attempts' = [attempts EXCEPT ![a].leased = TRUE]
      /\ Continue(p, "stage", k, v, d, a)
      /\ UNCHANGED ledger

(* Mutant: the retired attempt and its object key are put back in use.     *)
KnownAgainRevives(p, k, v, d) ==
  /\ SameIdentity(k, v, d)
  /\ ~RowDisagrees(k, v, d)
  /\ attempts[ledger[k].attempt].state = "retired"
  /\ attempts' = [attempts EXCEPT ![ledger[k].attempt].state = "staged",
                                  ![ledger[k].attempt].leased = TRUE]
  /\ Continue(p, "stage", k, v, d, ledger[k].attempt)
  /\ UNCHANGED ledger

(* A retired attempt is never revived: the key moves to a fresh attempt,   *)
(* within the quota.                                                       *)
KnownAgain(p, k, v, d) ==
  /\ SameIdentity(k, v, d)
  /\ ~RowDisagrees(k, v, d)
  /\ attempts[ledger[k].attempt].state = "retired"
  /\ \/ /\ Cardinality(Active) >= MaxActive
        /\ Respond(p, "refused", v, d)
        /\ UNCHANGED <<attempts, ledger>>
     \/ /\ Cardinality(Active) < MaxActive
        /\ \E a \in Attempt :
             /\ NewAttempt(a, v, d)
             /\ ledger' = [ledger EXCEPT ![k].attempt = a]
             /\ Continue(p, "stage", k, v, d, a)

(* The reserve transaction for a key without a ledger row.                 *)

(* Mutant: the attempt quota is exceeded by one.                           *)
OverQuotaByOne ==
  \/ Cardinality(Ledgered) >= MaxLedger
  \/ Cardinality(Active) > MaxActive

OverQuota ==
  \/ Cardinality(Ledgered) >= MaxLedger
  \/ Cardinality(Active) >= MaxActive

FreshRefused(p, v, d) ==
  /\ OverQuota
  /\ Respond(p, "refused", v, d)
  /\ UNCHANGED <<attempts, ledger>>

(* Other bytes, a revoked version, or a row the v2 store does not own.     *)
FreshConflict(p, v, d) ==
  /\ ~OverQuota
  /\ catalog[v].state # "absent"
  /\ \/ catalog[v].digest # d
     \/ ~Live(v)
     \/ ~OwnedRow(v)
  /\ Respond(p, "conflict", v, d)
  /\ UNCHANGED <<attempts, ledger>>

(* The version is already admitted with these bytes: the new key becomes   *)
(* an alias of the committed attempt that owns the row's object.           *)
FreshAlias(p, k, v, d) ==
  /\ ~OverQuota
  /\ Live(v)
  /\ catalog[v].digest = d
  /\ OwnedRow(v)
  /\ ledger' = [ledger EXCEPT ![k] = [version |-> v, digest |-> d,
                                      attempt |-> catalog[v].key]]
  /\ Respond(p, "existing", v, d)
  /\ UNCHANGED attempts

FreshReserve(p, k, v, d) ==
  /\ ~OverQuota
  /\ catalog[v].state = "absent"
  /\ \E a \in Attempt :
       /\ NewAttempt(a, v, d)
       /\ ledger' = [ledger EXCEPT ![k] =
                       [version |-> v, digest |-> d, attempt |-> a]]
       /\ Continue(p, "stage", k, v, d, a)

(* The request authenticates under the current policy generation; a fence  *)
(* that fails here refuses it before anything is written.                  *)
Reserve(p, k, v, d) ==
  /\ pub[p].pc = "idle"
  /\ \/ /\ ~DepsLive(v)
        /\ Respond(p, "refused", v, d)
        /\ UNCHANGED <<attempts, ledger>>
     \/ /\ DepsLive(v)
        /\ k \in Ledgered
        /\ \/ KnownConflict(p, k, v, d)
           \/ KnownReplay(p, k, v, d)
           \/ KnownRenew(p, k, v, d)
           \/ KnownAgain(p, k, v, d)
     \/ /\ DepsLive(v)
        /\ k \notin Ledgered
        /\ \/ FreshRefused(p, v, d)
           \/ FreshConflict(p, v, d)
           \/ FreshAlias(p, k, v, d)
           \/ FreshReserve(p, k, v, d)
  /\ UNCHANGED <<catalog, objects, puts, dels, clean, policy, outbox>>

-----------------------------------------------------------------------------
(* Mutant: the replay is answered from the reservation alone.              *)
ReplayUnchecked(p) ==
  /\ pub[p].pc = "replay"
  /\ Respond(p, "existing", pub[p].version, pub[p].digest)
  /\ UNCHANGED <<catalog, attempts, ledger, objects, puts, dels, clean,
                 policy, outbox>>

(* The replay transaction: authority, ledger, attempt and catalog row are  *)
(* all read again, and any change since the reservation is a conflict.     *)
Replay(p) ==
  LET r == pub[p]
  IN  /\ r.pc = "replay"
      /\ \/ ~Fence(r.version, r.policy) /\ Respond(p, "refused", r.version, r.digest)
         \/ /\ Fence(r.version, r.policy)
            /\ IF /\ SameIdentity(r.key, r.version, r.digest)
                  /\ ledger[r.key].attempt = r.attempt
                  /\ attempts[r.attempt].state = "committed"
                  /\ RowIs(r.version, r.digest, r.attempt)
               THEN Respond(p, "existing", r.version, r.digest)
               ELSE Respond(p, "conflict", r.version, r.digest)
      /\ UNCHANGED <<catalog, attempts, ledger, objects, puts, dels, clean,
                     policy, outbox>>

(* ObjectStore.StageOwned: the PUT succeeded before the call returned.     *)
StageOwned(p) ==
  /\ pub[p].pc = "stage"
  /\ objects' = objects \union {pub[p].attempt}
  /\ pub' = [pub EXCEPT ![p].pc = "commit"]
  /\ reply' = NoReply
  /\ UNCHANGED <<catalog, attempts, ledger, puts, dels, clean, policy, outbox>>

(* The PUT failed, timed out, or its caller died: Publish gives up, but    *)
(* the object store may still execute it.                                  *)
StageFails(p) ==
  /\ pub[p].pc = "stage"
  /\ puts' = puts \union {pub[p].attempt}
  /\ Respond(p, "refused", pub[p].version, pub[p].digest)
  /\ UNCHANGED <<catalog, attempts, ledger, objects, dels, clean, policy, outbox>>

LatePut(a) ==
  /\ a \in puts
  /\ puts' = puts \ {a}
  /\ objects' = objects \union {a}
  /\ reply' = NoReply
  /\ UNCHANGED <<catalog, attempts, ledger, dels, pub, clean, policy, outbox>>

-----------------------------------------------------------------------------
(* The commit transaction, under the version's advisory lock.              *)

CommitDenied(p, r) ==
  /\ ~Fence(r.version, r.policy)
  /\ Respond(p, "refused", r.version, r.digest)
  /\ UNCHANGED <<catalog, attempts, ledger, outbox>>

(* Another call with the same key committed this very attempt first.       *)
CommitAgain(p, r) ==
  /\ Fence(r.version, r.policy)
  /\ attempts[r.attempt].state = "committed"
  /\ IF RowIs(r.version, r.digest, r.attempt)
     THEN Respond(p, "existing", r.version, r.digest)
     ELSE Respond(p, "conflict", r.version, r.digest)
  /\ UNCHANGED <<catalog, attempts, ledger, outbox>>

(* The cleaner took the attempt, or the version is taken by other bytes,   *)
(* or revoked.                                                             *)
CommitConflict(p, r) ==
  /\ Fence(r.version, r.policy)
  /\ \/ attempts[r.attempt].state \notin {"staged", "committed"}
     \/ /\ attempts[r.attempt].state = "staged"
        /\ catalog[r.version].state # "absent"
        /\ catalog[r.version].digest # r.digest \/ ~Live(r.version)
  /\ Respond(p, "conflict", r.version, r.digest)
  /\ UNCHANGED <<catalog, attempts, ledger, outbox>>

(* A row with these bytes exists: the key moves to the row's canonical     *)
(* attempt and this attempt is retired.  A row without an owner fails the  *)
(* lookup and rolls back.                                                  *)
CommitAlias(p, r) ==
  /\ Fence(r.version, r.policy)
  /\ attempts[r.attempt].state = "staged"
  /\ Live(r.version)
  /\ catalog[r.version].digest = r.digest
  /\ \/ /\ OwnedRow(r.version)
        /\ ledger' = [ledger EXCEPT ![r.key].attempt = catalog[r.version].key]
        /\ attempts' = [attempts EXCEPT ![r.attempt].state = "retired",
                                        ![r.attempt].leased = TRUE]
        /\ Respond(p, "existing", r.version, r.digest)
     \/ /\ ~OwnedRow(r.version)
        /\ Respond(p, "refused", r.version, r.digest)
        /\ UNCHANGED <<attempts, ledger>>
  /\ UNCHANGED <<catalog, outbox>>

(* Mutant: the cleaner's claim is not noticed.                             *)
CommitAdmitClaimed(p, r) ==
  /\ Fence(r.version, r.policy)
  /\ attempts[r.attempt].state \in {"staged", "deleting"}
  /\ catalog[r.version].state = "absent"
  /\ catalog' = [catalog EXCEPT ![r.version] =
                   [state |-> "published", digest |-> r.digest,
                    key |-> r.attempt]]
  /\ attempts' = [attempts EXCEPT ![r.attempt].state = "committed"]
  /\ outbox' = Append(outbox, Event("version_published", r.version))
  /\ Respond(p, "created", r.version, r.digest)
  /\ UNCHANGED ledger

(* Mutant: the attempt is left staged.                                     *)
CommitAdmitStillStaged(p, r) ==
  /\ Fence(r.version, r.policy)
  /\ attempts[r.attempt].state = "staged"
  /\ catalog[r.version].state = "absent"
  /\ catalog' = [catalog EXCEPT ![r.version] =
                   [state |-> "published", digest |-> r.digest,
                    key |-> r.attempt]]
  /\ outbox' = Append(outbox, Event("version_published", r.version))
  /\ Respond(p, "created", r.version, r.digest)
  /\ UNCHANGED <<attempts, ledger>>

(* Mutant: the fence of the reservation is trusted.                        *)
CommitAdmitUnfenced(p, r) ==
  /\ attempts[r.attempt].state = "staged"
  /\ catalog[r.version].state = "absent"
  /\ catalog' = [catalog EXCEPT ![r.version] =
                   [state |-> "published", digest |-> r.digest,
                    key |-> r.attempt]]
  /\ attempts' = [attempts EXCEPT ![r.attempt].state = "committed"]
  /\ outbox' = Append(outbox, Event("version_published", r.version))
  /\ Respond(p, "created", r.version, r.digest)
  /\ UNCHANGED ledger

(* Catalog row, committed attempt and version_published event, atomically. *)
CommitAdmit(p, r) ==
  /\ Fence(r.version, r.policy)
  /\ attempts[r.attempt].state = "staged"
  /\ catalog[r.version].state = "absent"
  /\ catalog' = [catalog EXCEPT ![r.version] =
                   [state |-> "published", digest |-> r.digest,
                    key |-> r.attempt]]
  /\ attempts' = [attempts EXCEPT ![r.attempt].state = "committed"]
  /\ outbox' = Append(outbox, Event("version_published", r.version))
  /\ Respond(p, "created", r.version, r.digest)
  /\ UNCHANGED ledger

Commit(p) ==
  /\ pub[p].pc = "commit"
  /\ \/ CommitDenied(p, pub[p])
     \/ CommitAgain(p, pub[p])
     \/ CommitConflict(p, pub[p])
     \/ CommitAlias(p, pub[p])
     \/ CommitAdmit(p, pub[p])
  /\ UNCHANGED <<objects, puts, dels, clean, policy>>

(* A database error, a cancelled context or a crash ends the call between  *)
(* two of its steps; nothing it committed is undone.                       *)
PublishFails(p) ==
  /\ pub[p].pc \in {"replay", "commit"}
  /\ Respond(p, "refused", pub[p].version, pub[p].digest)
  /\ UNCHANGED <<catalog, attempts, ledger, objects, puts, dels, clean,
                 policy, outbox>>

-----------------------------------------------------------------------------
(* PublicationStore.Cleanup.                                               *)

(* lease_until, claim_until <= clock_timestamp().                          *)
LeaseExpires(a) ==
  /\ attempts[a].state \in {"staged", "retired"}
  /\ attempts[a].leased
  /\ attempts' = [attempts EXCEPT ![a].leased = FALSE]
  /\ reply' = NoReply
  /\ UNCHANGED <<catalog, ledger, objects, puts, dels, pub, clean, policy, outbox>>

ClaimExpires(a) ==
  /\ attempts[a].claimed
  /\ attempts' = [attempts EXCEPT ![a].claimed = FALSE]
  /\ reply' = NoReply
  /\ UNCHANGED <<catalog, ledger, objects, puts, dels, pub, clean, policy, outbox>>

(* Mutant: tombstones of retired attempts are not revisited.               *)
ClaimableOnce ==
  {a \in Attempt : /\ attempts[a].state \in {"staged", "deleting"}
                   /\ ~attempts[a].leased
                   /\ ~attempts[a].claimed
                   /\ Unreferenced(a)}

Claimable ==
  {a \in Attempt : /\ attempts[a].state \in {"staged", "deleting", "retired"}
                   /\ ~attempts[a].leased
                   /\ ~attempts[a].claimed
                   /\ Unreferenced(a)}

(* The claim transaction of one pass: at most CleanupLimit expired         *)
(* attempts become "deleting" under a new generation.  The code takes the  *)
(* oldest leases that no other transaction has locked: any such subset.    *)
Claim(c, S) ==
  /\ clean[c] = {}
  /\ S \subseteq Claimable
  /\ S # {}
  /\ Cardinality(S) <= CleanupLimit
  /\ \A a \in S : attempts[a].gen < MaxGen
  /\ attempts' = [a \in Attempt |->
                    IF a \in S
                    THEN [attempts[a] EXCEPT !.state = "deleting",
                                             !.gen = attempts[a].gen + 1,
                                             !.claimed = TRUE]
                    ELSE attempts[a]]
  /\ clean' = [clean EXCEPT ![c] =
                 {[attempt |-> a, gen |-> attempts[a].gen + 1, done |-> FALSE]
                    : a \in S}]
  /\ reply' = NoReply
  /\ UNCHANGED <<catalog, ledger, objects, puts, dels, pub, policy, outbox>>

Tried(m) == [m EXCEPT !.done = TRUE]

(* ObjectStore.DeleteOwned removed the key or found nothing under it.      *)
DeleteOwned(c, m) ==
  /\ m \in clean[c]
  /\ ~m.done
  /\ objects' = objects \ {m.attempt}
  /\ clean' = [clean EXCEPT ![c] = (@ \ {m}) \union {Tried(m)}]
  /\ reply' = NoReply
  /\ UNCHANGED <<catalog, attempts, ledger, puts, dels, pub, policy, outbox>>

(* It failed, and the object store may still execute it later.             *)
DeleteFails(c, m) ==
  /\ m \in clean[c]
  /\ ~m.done
  /\ dels' = dels \union {m.attempt}
  /\ clean' = [clean EXCEPT ![c] = (@ \ {m}) \union {Tried(m)}]
  /\ reply' = NoReply
  /\ UNCHANGED <<catalog, attempts, ledger, objects, puts, pub, policy, outbox>>

LateDelete(a) ==
  /\ a \in dels
  /\ dels' = dels \ {a}
  /\ objects' = objects \ {a}
  /\ reply' = NoReply
  /\ UNCHANGED <<catalog, attempts, ledger, puts, pub, clean, policy, outbox>>

(* Mutant: the generation of the claim is not compared.                    *)
FinishAnyGeneration(c, m) ==
  /\ m \in clean[c]
  /\ m.done
  /\ attempts' = IF attempts[m.attempt].state = "deleting"
                 THEN [attempts EXCEPT ![m.attempt].state = "retired",
                                       ![m.attempt].claimed = FALSE,
                                       ![m.attempt].leased = TRUE]
                 ELSE attempts
  /\ clean' = [clean EXCEPT ![c] = @ \ {m}]
  /\ reply' = NoReply
  /\ UNCHANGED <<catalog, ledger, objects, puts, dels, pub, policy, outbox>>

(* The completion transaction, guarded by state and generation.  A failed  *)
(* delete takes the same step with a shorter lease.                        *)
Finish(c, m) ==
  /\ m \in clean[c]
  /\ m.done
  /\ attempts' = IF /\ attempts[m.attempt].state = "deleting"
                    /\ attempts[m.attempt].gen = m.gen
                 THEN [attempts EXCEPT ![m.attempt].state = "retired",
                                       ![m.attempt].claimed = FALSE,
                                       ![m.attempt].leased = TRUE]
                 ELSE attempts
  /\ clean' = [clean EXCEPT ![c] = @ \ {m}]
  /\ reply' = NoReply
  /\ UNCHANGED <<catalog, ledger, objects, puts, dels, pub, policy, outbox>>

(* The pass ends early: an error, its deadline, lost authority or a crash. *)
CleanupFails(c) ==
  /\ clean[c] # {}
  /\ clean' = [clean EXCEPT ![c] = {}]
  /\ reply' = NoReply
  /\ UNCHANGED <<catalog, attempts, ledger, objects, puts, dels, pub, policy, outbox>>

-----------------------------------------------------------------------------
(* Mutant: a repeated revocation is announced again.                       *)
RevokeVersionRepeats(v) ==
  /\ catalog[v].state # "absent"
  /\ catalog' = [catalog EXCEPT ![v].state = "revoked"]
  /\ outbox' = Append(outbox, Event("version_revoked", v))
  /\ reply' = NoReply
  /\ UNCHANGED <<attempts, ledger, objects, puts, dels, pub, clean, policy>>

(* Postgres.revokeVersion on a live row; on any other row it writes        *)
(* nothing.                                                                *)
RevokeVersion(v) ==
  /\ Live(v)
  /\ catalog' = [catalog EXCEPT ![v].state = "revoked"]
  /\ outbox' = Append(outbox, Event("version_revoked", v))
  /\ reply' = NoReply
  /\ UNCHANGED <<attempts, ledger, objects, puts, dels, pub, clean, policy>>

(* The v1 publisher inserts a row that owns no v2 object; the primary key  *)
(* rejects a second row.  Its digest-named object is outside this model.   *)
PublishV1(v, d) ==
  /\ catalog[v].state = "absent"
  /\ catalog' = [catalog EXCEPT ![v] =
                   [state |-> "published", digest |-> d, key |-> None]]
  /\ outbox' = Append(outbox, Event("version_published", v))
  /\ reply' = NoReply
  /\ UNCHANGED <<attempts, ledger, objects, puts, dels, pub, clean, policy>>

(* Membership or role changes: requests of older generations lose every    *)
(* fence from here on.                                                     *)
ChangePolicy ==
  /\ policy < MaxPolicy
  /\ policy' = policy + 1
  /\ reply' = NoReply
  /\ UNCHANGED <<catalog, attempts, ledger, objects, puts, dels, pub, clean, outbox>>

-----------------------------------------------------------------------------
Publish(p) ==
  \/ \E k \in Key, v \in Version, d \in Digest : Reserve(p, k, v, d)
  \/ Replay(p)
  \/ StageOwned(p)
  \/ StageFails(p)
  \/ Commit(p)
  \/ PublishFails(p)

Cleanup(c) ==
  \/ \E S \in SUBSET Attempt : Claim(c, S)
  \/ \E m \in clean[c] : DeleteOwned(c, m) \/ DeleteFails(c, m) \/ Finish(c, m)
  \/ CleanupFails(c)

Next ==
  \/ \E p \in Publisher : Publish(p)
  \/ \E c \in Cleaner : Cleanup(c)
  \/ \E a \in Attempt : LeaseExpires(a) \/ ClaimExpires(a) \/ LatePut(a) \/ LateDelete(a)
  \/ \E v \in Version : RevokeVersion(v) \/ \E d \in Digest : PublishV1(v, d)
  \/ ChangePolicy

Spec == Init /\ [][Next]_vars

(* Time passes, so leases and claims run out; each replica's ticker starts *)
(* a pass every minute and the oldest lease goes first, so an attempt that *)
(* stays claimable is claimed; a pass that runs tries each claim and       *)
(* finishes it unless the pass itself fails.  No PUT, DELETE or            *)
(* transaction is assumed to succeed.                                      *)
CleanupFairness ==
  /\ \A a \in Attempt :
       /\ WF_vars(LeaseExpires(a))
       /\ WF_vars(ClaimExpires(a))
       /\ WF_vars(\E c \in Cleaner : \E S \in SUBSET Attempt :
                    a \in S /\ Claim(c, S))
  /\ \A c \in Cleaner :
       /\ WF_vars(\E m \in clean[c] : DeleteOwned(c, m) \/ DeleteFails(c, m))
       /\ WF_vars(\E m \in clean[c] : Finish(c, m))

FairSpec == Spec /\ CleanupFairness

-----------------------------------------------------------------------------
(* Properties.                                                             *)

CatalogRow == [state : {"absent", "published", "revoked"},
               digest : Digest \union {None},
               key : Attempt \union {None}]

AttemptRow == [state : AttemptState,
               version : Version \union {None},
               digest : Digest \union {None},
               leased : BOOLEAN, claimed : BOOLEAN, gen : Nat]

LedgerRow == [version : Version \union {None},
              digest : Digest \union {None},
              attempt : Attempt \union {None}]

Call == [pc : {"idle", "replay", "stage", "commit"},
         key : Key \union {None}, version : Version \union {None},
         digest : Digest \union {None}, attempt : Attempt \union {None},
         policy : Nat]

ClaimRec == [attempt : Attempt, gen : Nat, done : BOOLEAN]

OutboxEvent == [type : {"version_published", "version_revoked"},
                version : Version]

(* Every table and every call keeps its shape.                             *)
TypeOK ==
  /\ catalog \in [Version -> CatalogRow]
  /\ attempts \in [Attempt -> AttemptRow]
  /\ ledger \in [Key -> LedgerRow]
  /\ objects \subseteq Attempt
  /\ puts \subseteq Attempt
  /\ dels \subseteq Attempt
  /\ pub \in [Publisher -> Call]
  /\ clean \in [Cleaner -> SUBSET ClaimRec]
  /\ policy \in Nat
  /\ outbox \in Seq(OutboxEvent)
  /\ reply \in [outcome : {"none", "created", "existing", "conflict", "refused"},
                version : Version \union {None},
                digest : Digest \union {None}]

(* Whatever cleaners, late PUTs and late DELETEs do, the object a catalog  *)
(* row owns is in the store, under the row's digest, also after the        *)
(* version was revoked: Read opens it after its transaction ended.         *)
OwnedObjectsPresent ==
  \A v \in Version :
    catalog[v].key # None =>
      /\ catalog[v].key \in objects
      /\ attempts[catalog[v].key].digest = catalog[v].digest
      /\ Live(v) => Readable(v)

(* An attempt is committed exactly when the catalog row of its own version *)
(* owns its object: no committed attempt is orphaned by a lost race, and   *)
(* no two versions share an object.                                        *)
CommittedAttemptsAreRows ==
  \A a \in Attempt :
    /\ attempts[a].state = "committed" => catalog[attempts[a].version].key = a
    /\ \A v \in Version : catalog[v].key = a =>
         attempts[a].state = "committed" /\ attempts[a].version = v

(* The attempts whose deletion was ordered and may not have ended yet.     *)
DeleteOrders ==
  dels \union {m.attempt : m \in UNION {clean[c] : c \in Cleaner}}

(* A deletion that Cleanup ordered, however late the object store executes *)
(* it, is only ever of an attempt that can no longer be committed.         *)
DeletesOnlyDoomed ==
  \A a \in DeleteOrders : attempts[a].state \in {"deleting", "retired"}

(* The claim of the current generation finds its attempt still deleting: a *)
(* cleaner that stalled past its claim never finishes its successor's.     *)
CurrentClaimHolds ==
  \A c \in Cleaner : \A m \in clean[c] :
    /\ m.gen <= attempts[m.attempt].gen
    /\ m.gen = attempts[m.attempt].gen =>
         /\ attempts[m.attempt].state = "deleting"
         /\ \A c2 \in Cleaner \ {c} : m \notin clean[c2]

(* Every ledger row names an attempt for the same version and bytes, and   *)
(* an uncommitted call still owns the ledger row of its staged attempt.    *)
LedgerNamesAttempt ==
  /\ \A k \in Ledgered :
       LET a == ledger[k].attempt
       IN  /\ a \in Attempt
           /\ attempts[a].state # "unused"
           /\ attempts[a].version = ledger[k].version
           /\ attempts[a].digest = ledger[k].digest
  /\ \A p \in Publisher :
       pub[p].pc \in {"stage", "commit"} /\ attempts[pub[p].attempt].state = "staged"
         => ledger[pub[p].key].attempt = pub[p].attempt

(* The workspace never holds more than the quota of staged attempts, over  *)
(* both ways of creating one.                                              *)
StagedWithinQuota ==
  Cardinality({a \in Attempt : attempts[a].state = "staged"}) <= MaxActive

(* A publish answered "created" or "existing" found the version live with  *)
(* exactly the bytes of the request when it was answered.                  *)
RepliesAreTrue ==
  reply.outcome \in {"created", "existing"} =>
    Live(reply.version) /\ catalog[reply.version].digest = reply.digest

(* A key's identity is permanent, and once its attempt is committed the    *)
(* row never changes again, whichever calls still run with that key.       *)
LedgerIsPermanent ==
  [][\A k \in Ledgered :
       /\ ledger'[k].version = ledger[k].version
       /\ ledger'[k].digest = ledger[k].digest
       /\ attempts[ledger[k].attempt].state = "committed" =>
            ledger'[k] = ledger[k]]_vars

(* What a key stands for is settled once and told truthfully: its identity *)
(* and committed row never change, the row names an attempt of the same    *)
(* version and bytes, and every answer is about a live version with just   *)
(* the bytes of its request (Publish, through retries, expiry, cleanup,    *)
(* revocation and other keys).                                             *)
LedgerIsTrue ==
  /\ LedgerIsPermanent
  /\ [][LedgerNamesAttempt' /\ RepliesAreTrue']_vars

(* A version enters the catalog through v2 only by a call whose policy     *)
(* generation is current and whose dependencies are published at that      *)
(* instant, however long ago it reserved.                                  *)
AdmissionIsFenced ==
  [][\A v \in Version :
       catalog[v].key = None /\ catalog'[v].key # None =>
         /\ DepsLive(v)
         /\ \E p \in Publisher : /\ pub[p].attempt = catalog'[v].key
                                 /\ pub[p].policy = policy]_vars

(* Physical keys are never reused: an attempt that left "staged" never     *)
(* returns to it, and a committed one stays committed.                     *)
AttemptsNeverRevive ==
  [][\A a \in Attempt :
       /\ attempts[a].state \in {"deleting", "retired"} =>
            attempts'[a].state \in {"deleting", "retired"}
       /\ attempts[a].state = "committed" => attempts'[a] = attempts[a]]_vars

(* Overlapping passes never undo each other: no attempt comes back, and a  *)
(* pass that stalled past its claim does not finish its successor's        *)
(* (Cleanup's claim generations).                                          *)
CleanersStayCurrent ==
  /\ AttemptsNeverRevive
  /\ [][CurrentClaimHolds']_vars

(* The store implements the abstract registry: versions are immutable,     *)
(* revocation is terminal, and the outbox has exactly one event for each   *)
(* admission and each revocation.                                          *)
Registry == INSTANCE VersionRegistry WITH
  digestOf <- [v \in Version |-> catalog[v].digest],
  revoked <- {v \in Version : catalog[v].state = "revoked"},
  log <- outbox

RefinesRegistry == Registry!Spec

(* The object of an abandoned attempt is removed, late PUTs included,      *)
(* unless every pass the model allows failed to delete it.                 *)
AbandonedObjectsGo ==
  \A a \in Attempt :
    a \in objects /\ attempts[a].state \in {"deleting", "retired"}
      ~> a \notin objects \/ attempts[a].gen = MaxGen

(* Preflight design, line 41: "Same version/bytes under another key        *)
(* returns existing admission plus an alias ledger row".  A reservation    *)
(* for the bytes a live v2 row holds, under a free key or one bound to the *)
(* same identity and not being deleted, is never a conflict.               *)
SameBytesNeverConflict ==
  [][\A p \in Publisher, k \in Key, v \in Version, d \in Digest :
       /\ Reserve(p, k, v, d)
       /\ Live(v) /\ OwnedRow(v) /\ catalog[v].digest = d
       /\ k \in Ledgered => /\ SameIdentity(k, v, d)
                            /\ attempts[ledger[k].attempt].state # "deleting"
       => reply'.outcome # "conflict"]_vars

=============================================================================
