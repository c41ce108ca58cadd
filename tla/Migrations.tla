----------------------------- MODULE Migrations -----------------------------
(***************************************************************************)
(* Schema delivery (migrate): release processes that share one database    *)
(* apply pending migrations, or adopt an audited baseline, under a session *)
(* lock; one of them provisions the service's database role and another    *)
(* connection attests it.  Every process may crash, every commit may be    *)
(* answered with an error, and an administrator works beside them.         *)
(***************************************************************************)
EXTENDS Integers, Sequences, FiniteSets, SequencesExt

CONSTANTS Releases,      \* release processes
          Manifests,     \* the migrations each may have been built with, in order
          Baselines,     \* the schemas a database may have before any ledger
          Uses,          \* what the service uses of each migration: [kind, migration]
          MaxStarts,     \* how often one release process is started
          MaxMeddling    \* how often the administrator interferes

\* A manifest lists migrations by their file names; none is empty (New).
ASSUME ManifestAssumption ==
  \A m \in Manifests: m \in [Releases -> Seq(STRING)] /\ \A r \in Releases: m[r] # <<>>
ASSUME ReleaseAssumption == "none" \notin Releases

VARIABLES Manifest,      \* what each was built with
          db,            \* the database: ledger, schema objects, role, PUBLIC
          lock,          \* the holder of the advisory lock, or "none"
          release,       \* per process: its command and where it is
          audit,         \* the fingerprints an operator holds: [manifest, schema]
          ran,           \* history: the migrations whose SQL was committed
          meddled,       \* history: how often the administrator interfered
          reviewed       \* history: the manifest last provisioned for, <<>> once
                         \* an administrator interfered

migrateVars == <<Manifest, db, lock, release, audit, ran, meddled, reviewed>>

Names(ledger) == [i \in 1..Len(ledger) |-> ledger[i].name]

-----------------------------------------------------------------------------
(* Status: validated rows, pending migrations, the schema's fingerprint.   *)
(* The ledger table is no part of the schema it describes.                 *)

Fingerprint(d) == <<d.objects, d.forced>>

Validated(ledger, manifest) ==
  /\ Len(ledger) <= Len(manifest)
  /\ \A i \in 1..Len(ledger): ledger[i].name = manifest[i]

StatusOf(d, manifest) ==
  [valid |-> Validated(d.ledger, manifest), applied |-> Len(d.ledger), ledgerExists |-> d.ledgerExists,
   existing |-> d.objects # {}, pending |-> Len(manifest) - Len(d.ledger), schema |-> Fingerprint(d)]

-----------------------------------------------------------------------------
(* What a release asks for its role: to connect and look up, and each      *)
(* table, sequence and function its own source names; a pair of a kind and *)
(* the migration that creates the object.  PUBLIC may create objects until *)
(* provisioning takes that away, and may call a function from the moment a *)
(* migration creates it.                                                   *)

Needed(names) == {u \in Uses: u[2] \in names}
Executables(names) == {u \in Needed(names): u[1] = "function"}

Session == {<<"database", "connect">>, <<"schema", "usage">>}
Reviewed(manifest) == Session \cup Needed(ToSet(manifest))
ByDefault(objects) == {<<"database", "ddl">>} \cup Executables(objects)

-----------------------------------------------------------------------------
(* Processes. *)

NoStatus == [applied |-> 0, ledgerExists |-> FALSE]
Off == [pc |-> "off", cmd |-> "none", seen |-> NoStatus, at |-> 0, told |-> "", starts |-> 0]

\* main: one command a process; adoption names a prefix and what the
\* operator audited before.
StartRelease(r) ==
  /\ release[r].pc = "off" /\ release[r].starts < MaxStarts
  /\ \E cmd \in {"apply", "adopt", "provision"}, through \in 1..Len(Manifest[r]):
       /\ cmd # "adopt" => through = 1
       /\ cmd = "adopt" => audit # {}
       /\ release' = [release EXCEPT ![r] = [@ EXCEPT !.pc = "waiting", !.cmd = cmd, !.at = through, !.told = "",
                                                      !.starts = release[r].starts + 1]]
  /\ UNCHANGED <<db, lock, audit, ran, meddled, reviewed>>

\* pg_advisory_lock, and its deadline.
AcquireLock(r) ==
  /\ release[r].pc = "waiting" /\ lock = "none"
  /\ lock' = r
  /\ release' = [release EXCEPT ![r].pc = "inspect"]
  /\ UNCHANGED <<db, audit, ran, meddled, reviewed>>

\* The end of a call under the lock: unlocked, or the connection closed.
End(r, told) ==
  /\ lock' = "none"
  /\ release' = [release EXCEPT ![r] = [@ EXCEPT !.pc = "off", !.told = told, !.seen = NoStatus, !.at = 0]]

\* Apply and Adopt refuse what their status shows before they write.
Refuses(cmd, s, manifest) ==
  CASE cmd = "apply" -> s.applied = 0 /\ s.existing
    [] cmd = "adopt" -> s.applied > 0 \/ ~s.existing \/ audit # {[manifest |-> manifest, schema |-> s.schema]}
    [] cmd = "provision" -> ~s.ledgerExists \/ s.pending > 0

Inspect(r) ==
  /\ release[r].pc = "inspect"
  /\ LET s == StatusOf(db, Manifest[r]) IN
     IF ~s.valid \/ Refuses(release[r].cmd, s, Manifest[r]) THEN End(r, "refused")
     ELSE IF release[r].cmd = "apply" /\ s.pending = 0 THEN End(r, "ok")
     ELSE /\ release' = [release EXCEPT ![r] = [@ EXCEPT !.pc = "write",
                           !.seen = [applied |-> s.applied, ledgerExists |-> s.ledgerExists],
                           !.at = IF release[r].cmd = "apply" THEN s.applied + 1 ELSE release[r].at]]
          /\ UNCHANGED lock
  /\ UNCHANGED <<db, audit, ran, meddled, reviewed>>

\* A transaction: it commits, and perhaps the answer says otherwise, or
\* nothing of it is kept.  next is what the process does when told so.
Transaction(r, commit, next) ==
  \/ commit /\ next
  \/ commit /\ End(r, "unknown")
  \/ UNCHANGED <<db, ran, reviewed>> /\ End(r, "failed")

\* Migration m can run where the schema lacks its objects; each needs the
\* objects of the one before it.
Runs(d, manifest, i) ==
  /\ manifest[i] \notin d.objects
  /\ IF i = 1 THEN TRUE ELSE manifest[i - 1] \in d.objects

Recorded(name, adopted) == [name |-> name, adopted |-> adopted]

\* Mutant of CommitMigration: the row is recorded outside the transaction.
CommitMigrationApart(r, i) ==
  LET m == Manifest[r][i] IN
  /\ Runs(db, Manifest[r], i)
  /\ db.ledgerExists \/ ~release[r].seen.ledgerExists
  /\ \E row \in {<<>>, <<Recorded(m, FALSE)>>}:
       db' = [db EXCEPT !.ledgerExists = TRUE, !.ledger = @ \o row, !.objects = @ \cup {m},
                         !.public = @ \cup Executables({m})]
  /\ ran' = Append(ran, m)
  /\ UNCHANGED reviewed

\* One migration's transaction: the ledger table if the status knew of none,
\* the SQL and the row, whose version is the table's key.
CommitMigration(r, i) ==
  LET m == Manifest[r][i] IN
  /\ Runs(db, Manifest[r], i)
  /\ i = Len(db.ledger) + 1
  /\ db.ledgerExists <=> (release[r].seen.ledgerExists \/ i > release[r].seen.applied + 1)
  /\ db' = [db EXCEPT !.ledgerExists = TRUE, !.ledger = Append(@, Recorded(m, FALSE)),
                      !.objects = @ \cup {m}, !.public = @ \cup Executables({m})]
  /\ ran' = Append(ran, m)
  /\ UNCHANGED reviewed

ApplyNext(r) ==
  /\ release[r].pc = "write" /\ release[r].cmd = "apply"
  /\ LET i == release[r].at IN
     Transaction(r, CommitMigration(r, i),
                 IF i = Len(Manifest[r]) THEN End(r, "ok")
                 ELSE release' = [release EXCEPT ![r].at = i + 1] /\ UNCHANGED lock)
  /\ UNCHANGED <<audit, meddled>>

Adopt(r) ==
  /\ release[r].pc = "write" /\ release[r].cmd = "adopt"
  /\ Transaction(r,
       /\ db.ledgerExists <=> release[r].seen.ledgerExists
       /\ db.ledger = <<>>
       /\ db' = [db EXCEPT !.ledgerExists = TRUE,
                           !.ledger = [i \in 1..release[r].at |-> Recorded(Manifest[r][i], TRUE)]]
       /\ UNCHANGED <<ran, reviewed>>,
       End(r, "ok"))
  /\ UNCHANGED <<audit, meddled>>

\* The process dies, or its deadline passes: the session's lock goes with it.
Crash(r) ==
  /\ release[r].pc # "off"
  /\ lock' = IF lock = r THEN "none" ELSE lock
  /\ release' = [release EXCEPT ![r] = [@ EXCEPT !.pc = "off", !.told = "crashed", !.seen = NoStatus, !.at = 0]]
  /\ UNCHANGED <<db, audit, ran, meddled, reviewed>>

\* An operator reads the status and keeps its fingerprints for an adoption.
Audit(r) ==
  /\ audit = {} /\ Validated(db.ledger, Manifest[r])
  /\ audit' = {[manifest |-> Manifest[r], schema |-> Fingerprint(db)]}
  /\ UNCHANGED <<db, lock, release, ran, meddled, reviewed>>

-----------------------------------------------------------------------------
(* The runtime role: its attributes, what it was granted, and what every   *)
(* role has through PUBLIC.                                                *)

NoRole == [exists |-> FALSE, unsafe |-> FALSE, member |-> FALSE, grants |-> {}]

\* has_table_privilege and its kin: what a role was granted, or PUBLIC.
Effective(d) == d.role.grants \cup d.public
ExtraPrivileges(d, manifest) == Effective(d) \ Reviewed(manifest)

\* Mutant of Grants: the sequences are left out.
GrantsNoSequence(manifest) == Session \cup {u \in Needed(ToSet(manifest)): u[1] # "sequence"}

\* What provisioning grants: connect, schema usage, tables, sequence, functions.
Grants(manifest) == Session \cup {u \in Uses: u[2] \in ToSet(manifest)}

\* One transaction: an unsafe existing role is refused, PUBLIC loses what it
\* has by default, only then are extra privileges looked for, and a GRANT
\* on what does not exist fails.
Provision(r) ==
  LET role == [db.role EXCEPT !.exists = TRUE]
      restricted == [db EXCEPT !.public = {}, !.role = role] IN
  /\ release[r].pc = "write" /\ release[r].cmd = "provision"
  /\ Transaction(r,
       /\ ~(db.role.exists /\ (db.role.unsafe \/ db.role.member))
       /\ ExtraPrivileges(restricted, Manifest[r]) = {}
       /\ \A u \in Needed(ToSet(Manifest[r])): u[2] \in db.objects
       /\ db' = [restricted EXCEPT !.role = [role EXCEPT !.grants = @ \cup Grants(Manifest[r])]]
       /\ reviewed' = Manifest[r]
       /\ UNCHANGED ran,
       End(r, "ok"))
  /\ UNCHANGED <<audit, meddled>>

\* VerifyRuntimeRole, by a release built with this manifest: attributes,
\* memberships, no extra and every required privilege, forced row security,
\* and rows hidden outside a workspace.  It does not read the ledger.
Attests(d, manifest) ==
  /\ d.role.exists /\ ~d.role.unsafe /\ ~d.role.member
  /\ ExtraPrivileges(d, manifest) = {}
  /\ Reviewed(manifest) \subseteq Effective(d)
  /\ d.forced

\* Privileges no release reviews.
Unreviewed == {<<"table", "truncate">>, <<"database", "ddl">>}

\* The administrator changes the schema or the role by hand.
Meddle ==
  /\ meddled < MaxMeddling
  /\ meddled' = meddled + 1
  /\ reviewed' = <<>>
  /\ \/ \E x \in {"stray"}: db' = [db EXCEPT !.objects = (@ \ {x}) \cup ({x} \ @)]
     \/ db' = [db EXCEPT !.forced = ~@]
     \/ db' = [db EXCEPT !.role = [NoRole EXCEPT !.exists = TRUE]]
     \/ db.role.exists /\ db' = [db EXCEPT !.role = [@ EXCEPT !.unsafe = TRUE]]
     \/ db.role.exists /\ db' = [db EXCEPT !.role = [@ EXCEPT !.member = TRUE]]
     \/ db.role.exists /\ \E p \in Unreviewed: db' = [db EXCEPT !.role = [@ EXCEPT !.grants = db.role.grants \cup {p}]]
     \/ db' = [db EXCEPT !.public = ByDefault(db.objects)]
  /\ UNCHANGED <<lock, release, audit, ran>>

-----------------------------------------------------------------------------

MigrateInit ==
  /\ Manifest \in Manifests
  /\ \E base \in Baselines:
       db = [ledger |-> <<>>, ledgerExists |-> FALSE, objects |-> base, forced |-> TRUE,
             role |-> NoRole, public |-> ByDefault(base)]
  /\ lock = "none"
  /\ release = [r \in Releases |-> Off]
  /\ audit = {} /\ ran = <<>> /\ meddled = 0 /\ reviewed = <<>>

MigrateNext ==
  /\ \/ Meddle
     \/ \E r \in Releases:
          \/ StartRelease(r) \/ AcquireLock(r) \/ Inspect(r) \/ ApplyNext(r)
          \/ Adopt(r) \/ Provision(r) \/ Crash(r) \/ Audit(r)
  /\ UNCHANGED Manifest

MigrateSpec == MigrateInit /\ [][MigrateNext]_migrateVars

-----------------------------------------------------------------------------

\* The rows that were not adopted are exactly the migrations whose SQL was
\* committed, in that order and once each, whoever crashed and whatever a
\* commit answered; adopted rows come before them; and a process told that
\* it applied its manifest finds the whole of it recorded (Apply, Adopt).
LedgerTellsTheSchema ==
  LET adopted == Len(db.ledger) - Len(ran) IN
  /\ Len(ran) <= Len(db.ledger)
  /\ \A i \in 1..Len(db.ledger): db.ledger[i].adopted <=> i <= adopted
  /\ \A i \in 1..Len(ran): ran[i] = db.ledger[adopted + i].name
  /\ \A r \in Releases: release[r].told = "ok" /\ release[r].cmd \in {"apply", "provision"}
       => IsPrefix(Manifest[r], Names(db.ledger))

\* After a provisioning, and until an administrator interferes, a release
\* attests the role just when it reviews what was provisioned for, and with
\* it every function of the present ledger, which a later migration leaves
\* to PUBLIC: one that brings a table waits for the next provisioning, one
\* that brings a function ends the attestation of the releases before it
\* (ProvisionRuntimeRole, rejectExtraRuntimePrivileges, VerifyRuntimeRole).
AttestedRolesAreConfined ==
  reviewed # <<>> /\ db.forced =>
    \A r \in Releases:
      Attests(db, Manifest[r])
        <=> Reviewed(Manifest[r]) = Reviewed(reviewed) \cup Executables(ToSet(Names(db.ledger)))

ReleasesAreSound == LedgerTellsTheSchema /\ AttestedRolesAreConfined

=============================================================================
