--------------------------- MODULE PlatformProofs ---------------------------
(***************************************************************************)
(* Releases that migrate one database: whatever crashes, whatever a commit *)
(* answers and however an administrator interferes, the ledger tells the   *)
(* schema and a provisioned role is the one that is attested.  Clients of  *)
(* public search: whatever happens between two pages, they read one order. *)
(* The embedding process: however it ends, nothing is left running.        *)
(***************************************************************************)
EXTENDS Migrations, SemanticSearch, EmbeddingRuntime, SequenceTheorems, FiniteSetTheorems, TLAPS

-----------------------------------------------------------------------------
(* Schema migration. *)

Privileges == Session \cup Uses \cup Unreviewed
LedgerRow == [name: STRING, adopted: BOOLEAN]
Role == [exists: BOOLEAN, unsafe: BOOLEAN, member: BOOLEAN, grants: SUBSET Privileges]
Process ==
  [pc: {"off", "waiting", "inspect", "write"}, cmd: {"none", "apply", "adopt", "provision"},
   seen: [applied: Nat, ledgerExists: BOOLEAN], at: Nat,
   told: {"", "ok", "refused", "unknown", "failed", "crashed"}, starts: Nat]

\* The ledger holds the first n migrations of a manifest.
Holds(ledger, manifest, n) ==
  n <= Len(ledger) /\ \A i \in 1..n: ledger[i].name = manifest[i]

\* Adopted rows first, then one row per committed migration.
LedgerAddsUp ==
  LET adopted == Len(db.ledger) - Len(ran) IN
  /\ Len(ran) <= Len(db.ledger)
  /\ \A i \in 1..Len(db.ledger): db.ledger[i].adopted <=> i <= adopted
  /\ \A i \in 1..Len(ran): ran[i] = db.ledger[adopted + i].name

MissingRoleIsHarmless == ~db.role.exists => ~db.role.unsafe /\ ~db.role.member

\* What a role provisioned for may do: what was reviewed then, and the
\* functions of the ledger, which are its own or PUBLIC's.
Confined(manifest, ledger) == Reviewed(manifest) \cup Executables(ToSet(Names(ledger)))
RoleSound ==
  reviewed # <<>> =>
    /\ db.role.exists /\ ~db.role.unsafe /\ ~db.role.member
    /\ Effective(db) = Confined(reviewed, db.ledger)
    /\ db.ledger # <<>>

DatabaseTypeOK ==
  /\ db = [ledger |-> db.ledger, ledgerExists |-> db.ledgerExists, objects |-> db.objects,
           forced |-> db.forced, role |-> db.role, public |-> db.public]
  /\ db.ledger \in Seq(LedgerRow) /\ db.role \in Role
  /\ db.ledgerExists \in BOOLEAN
  /\ ran \in Seq(STRING)
  /\ reviewed \in Seq(STRING)

DatabaseSound ==
  DatabaseTypeOK /\ LedgerAddsUp /\ MissingRoleIsHarmless /\ RoleSound

\* What a process saw before it writes still holds when it does, and what
\* it was told stays true.
Knows(p, manifest, ledger) ==
  /\ p.pc # "off" /\ p.cmd = "adopt" => p.at \in 1..Len(manifest)
  /\ p.pc = "write" /\ p.cmd = "apply" =>
       p.at \in 1..Len(manifest) /\ Holds(ledger, manifest, p.at - 1)
  /\ p.pc = "write" /\ p.cmd = "provision" => Holds(ledger, manifest, Len(manifest))
  /\ p.told = "ok" /\ p.cmd \in {"apply", "provision"} => Holds(ledger, manifest, Len(manifest))

ProcessesSound ==
  /\ Manifest \in [Releases -> Seq(STRING)]
  /\ release \in [Releases -> Process]
  /\ \A r \in Releases: Knows(release[r], Manifest[r], db.ledger)

MigrateInv == DatabaseSound /\ ProcessesSound

\* Who is past the lock holds it, and the ledger a provisioning saw stands.
Inside(r) == release[r].pc = "inspect" \/ release[r].pc = "write"
Provisions(r) == release[r].pc = "write" /\ release[r].cmd = "provision"
LockSound ==
  \A r \in Releases:
    /\ Inside(r) => lock = r
    /\ Provisions(r) => Len(db.ledger) <= Len(Manifest[r])

-----------------------------------------------------------------------------
(* The ledger only grows.                                                  *)

Grows(old, new) ==
  Len(old) <= Len(new) /\ \A i \in 1..Len(old): new[i].name = old[i].name

LEMMA HoldsOn ==
  ASSUME NEW old \in Seq(LedgerRow), NEW new \in Seq(LedgerRow), Grows(old, new),
         NEW manifest, NEW n \in Nat, Holds(old, manifest, n)
  PROVE  Holds(new, manifest, n)
BY DEF Grows, Holds

LEMMA HoldsIsPrefix ==
  ASSUME NEW ledger \in Seq(LedgerRow), NEW manifest \in Seq(STRING),
         Holds(ledger, manifest, Len(manifest))
  PROVE  IsPrefix(manifest, Names(ledger))
<1> DEFINE names == Names(ledger)
<1>1. /\ names \in Seq(STRING) /\ Len(names) = Len(ledger)
      /\ \A i \in 1..Len(ledger): names[i] = ledger[i].name
  <2>1. names \in [1..Len(ledger) -> STRING] /\ Len(ledger) \in Nat
    <3>1. Len(ledger) \in Nat /\ \A i \in 1..Len(ledger): ledger[i] \in LedgerRow
      OBVIOUS
    <3>2. \A row \in LedgerRow: row.name \in STRING
      BY DEF LedgerRow
    <3> QED BY <3>1, <3>2 DEF Names
  <2>2. names \in Seq(STRING)
    BY <2>1, SeqDef
  <2>3. Len(names) = Len(ledger) /\ \A i \in 1..Len(ledger): names[i] = ledger[i].name
    BY DEF Names
  <2> QED BY <2>2, <2>3
<1>2. Len(manifest) <= Len(names) /\ \A i \in 1..Len(manifest): names[i] = manifest[i]
  BY <1>1 DEF Holds
<1> HIDE DEF names
<1>3. SubSeq(manifest, 1, Len(manifest)) = SubSeq(names, 1, Len(manifest))
  <2>0. Len(manifest) \in Nat /\ Len(names) \in Nat
    BY <1>1
  <2>1. /\ \A i \in 1..Len(manifest): manifest[i] \in STRING
        /\ \A i \in 1..Len(manifest): names[i] \in STRING
    BY <1>1, <1>2, <2>0, ElementOfSeq
  <2>2. /\ SubSeq(manifest, 1, Len(manifest)) \in Seq(STRING)
        /\ SubSeq(names, 1, Len(manifest)) \in Seq(STRING)
        /\ Len(SubSeq(manifest, 1, Len(manifest))) = Len(SubSeq(names, 1, Len(manifest)))
        /\ \A i \in 1..Len(manifest): SubSeq(manifest, 1, Len(manifest))[i] = SubSeq(names, 1, Len(manifest))[i]
        /\ Len(SubSeq(manifest, 1, Len(manifest))) = Len(manifest)
    BY <1>2, <2>0, <2>1, SubSeqProperties
  <2> QED BY <2>2, SeqEqual
<1>4. IsPrefix(manifest, names)
  BY <1>1, <1>2, <1>3 DEF IsPrefix
<1> QED BY <1>4 DEF names

LEMMA NamesAre ==
  ASSUME NEW ledger \in Seq(LedgerRow)
  PROVE  ToSet(Names(ledger)) = {ledger[i].name: i \in 1..Len(ledger)}
BY DEF ToSet, Names

LEMMA SameNames ==
  ASSUME NEW ledger \in Seq(LedgerRow), NEW manifest \in Seq(STRING),
         Holds(ledger, manifest, Len(manifest)), Len(ledger) <= Len(manifest)
  PROVE  ToSet(Names(ledger)) = ToSet(manifest)
<1>1. Len(ledger) \in Nat /\ Len(manifest) \in Nat /\ DOMAIN manifest = 1..Len(manifest)
  OBVIOUS
<1>2. Len(ledger) = Len(manifest) /\ \A i \in 1..Len(manifest): ledger[i].name = manifest[i]
  BY <1>1 DEF Holds
<1>3. ToSet(manifest) = {manifest[i]: i \in 1..Len(manifest)}
  BY <1>1 DEF ToSet
<1> QED BY <1>2, <1>3, NamesAre

LEMMA ExecutablesAdd ==
  ASSUME NEW names, NEW m
  PROVE  /\ Executables(names \cup {m}) = Executables(names) \cup Executables({m})
         /\ Executables(names) \subseteq Needed(names)
BY DEF Executables, Needed

LEMMA ValidatedHolds ==
  ASSUME NEW ledger \in Seq(LedgerRow), NEW manifest \in Seq(STRING), Validated(ledger, manifest)
  PROVE  Len(ledger) <= Len(manifest) /\ Holds(ledger, manifest, Len(ledger))
BY DEF Validated, Holds

LEMMA KnowsOn ==
  ASSUME NEW old \in Seq(LedgerRow), NEW new \in Seq(LedgerRow), Grows(old, new),
         NEW manifest \in Seq(STRING), NEW p \in Process, Knows(p, manifest, old)
  PROVE  Knows(p, manifest, new)
<1>1. Len(manifest) \in Nat /\ (p.at \in 1..Len(manifest) => p.at - 1 \in Nat)
  OBVIOUS
<1>2. Holds(old, manifest, Len(manifest)) => Holds(new, manifest, Len(manifest))
  BY <1>1, HoldsOn
<1>3. p.at - 1 \in Nat /\ Holds(old, manifest, p.at - 1) => Holds(new, manifest, p.at - 1)
  BY HoldsOn
<1> QED BY <1>1, <1>2, <1>3 DEF Knows

-----------------------------------------------------------------------------
(* One process and the database move.                                      *)

LEMMA MigrateInitHolds == MigrateInit => MigrateInv
<1> SUFFICES ASSUME MigrateInit PROVE MigrateInv
  OBVIOUS
<1>1. PICK base \in Baselines:
        db = [ledger |-> <<>>, ledgerExists |-> FALSE, objects |-> base, forced |-> TRUE,
              role |-> NoRole, public |-> ByDefault(base)]
  BY DEF MigrateInit
<1>2. /\ db = [ledger |-> db.ledger, ledgerExists |-> db.ledgerExists, objects |-> db.objects,
               forced |-> db.forced, role |-> db.role, public |-> db.public]
      /\ db.ledger = <<>> /\ db.role = NoRole /\ db.ledgerExists = FALSE
  BY <1>1
<1>3. ran = <<>> /\ reviewed = <<>>
  BY DEF MigrateInit
<1>4. NoRole \in Role /\ Off \in Process
  BY DEF NoRole, Role, Off, NoStatus, Process
<1>5. DatabaseTypeOK
  BY <1>2, <1>3, <1>4, EmptySeq DEF DatabaseTypeOK
<1>6. LedgerAddsUp /\ MissingRoleIsHarmless /\ RoleSound
  BY <1>2, <1>3 DEF LedgerAddsUp, MissingRoleIsHarmless, RoleSound, NoRole
<1>7. ProcessesSound
  <2>1. Manifest \in [Releases -> Seq(STRING)]
    BY ManifestAssumption DEF MigrateInit
  <2>2. release \in [Releases -> Process] /\ \A r \in Releases: release[r] = Off
    BY <1>4 DEF MigrateInit
  <2>3. \A manifest, ledger: Knows(Off, manifest, ledger)
    BY DEF Knows, Off
  <2> QED BY <2>1, <2>2, <2>3 DEF ProcessesSound
<1> QED BY <1>5, <1>6, <1>7 DEF MigrateInv, DatabaseSound

LEMMA DatabaseStays ==
  ASSUME DatabaseSound, UNCHANGED <<db, ran, reviewed>>
  PROVE  DatabaseSound' /\ Grows(db.ledger, db'.ledger) /\ db'.ledger = db.ledger
<1>1. DatabaseSound' /\ db'.ledger = db.ledger
  BY DEF DatabaseSound, DatabaseTypeOK, LedgerAddsUp, MissingRoleIsHarmless, RoleSound, Effective
<1>2. Len(db.ledger) \in Nat
  BY DEF DatabaseSound, DatabaseTypeOK
<1> QED BY <1>1, <1>2 DEF Grows

LEMMA ProcessStep ==
  ASSUME MigrateInv, DatabaseSound', Grows(db.ledger, db'.ledger), Manifest' = Manifest,
         NEW r \in Releases, NEW p \in Process, release' = [release EXCEPT ![r] = p],
         Knows(p, Manifest[r], db'.ledger)
  PROVE  MigrateInv'
<1>1. db.ledger \in Seq(LedgerRow) /\ db'.ledger \in Seq(LedgerRow)
  BY DEF MigrateInv, DatabaseSound, DatabaseTypeOK
<1>2. /\ Manifest \in [Releases -> Seq(STRING)] /\ release \in [Releases -> Process]
      /\ \A q \in Releases: Knows(release[q], Manifest[q], db.ledger)
  BY DEF MigrateInv, ProcessesSound
<1>3. \A q \in Releases: Knows(release[q], Manifest[q], db'.ledger)
  BY <1>1, <1>2, KnowsOn
<1>4. \A q \in Releases: Knows(release'[q], Manifest'[q], db'.ledger)
  BY <1>2, <1>3
<1>5. release' \in [Releases -> Process]
  BY <1>2
<1> QED BY <1>2, <1>4, <1>5 DEF MigrateInv, ProcessesSound

LEMMA EndStep ==
  ASSUME MigrateInv, DatabaseSound', Grows(db.ledger, db'.ledger), Manifest' = Manifest,
         NEW r \in Releases, NEW told \in {"ok", "refused", "unknown", "failed", "crashed"},
         release' = [release EXCEPT ![r] = [@ EXCEPT !.pc = "off", !.told = told, !.seen = NoStatus, !.at = 0]],
         told = "ok" /\ release[r].cmd \in {"apply", "provision"}
           => Holds(db'.ledger, Manifest[r], Len(Manifest[r]))
  PROVE  MigrateInv'
<1> DEFINE p == [release[r] EXCEPT !.pc = "off", !.told = told, !.seen = NoStatus, !.at = 0]
<1>1. release[r] \in Process
  BY DEF MigrateInv, ProcessesSound
<1>2. p \in Process /\ p.pc = "off" /\ p.told = told /\ p.cmd = release[r].cmd
  BY <1>1 DEF Process, NoStatus
<1>3. release' = [release EXCEPT ![r] = p]
  OBVIOUS
<1> HIDE DEF p
<1>4. Knows(p, Manifest[r], db'.ledger)
  BY <1>2 DEF Knows
<1> QED BY <1>2, <1>3, <1>4, ProcessStep

-----------------------------------------------------------------------------
(* The steps of a release.                                                 *)

LEMMA StartReleaseStep ==
  ASSUME MigrateInv, NEW r \in Releases, StartRelease(r), Manifest' = Manifest
  PROVE  MigrateInv'
<1>1. PICK cmd \in {"apply", "adopt", "provision"}, through \in 1..Len(Manifest[r]):
        release' = [release EXCEPT ![r] = [release[r] EXCEPT
                      !.pc = "waiting", !.cmd = cmd, !.at = through, !.told = "",
                      !.starts = release[r].starts + 1]]
  BY DEF StartRelease
<1> DEFINE p == [release[r] EXCEPT !.pc = "waiting", !.cmd = cmd, !.at = through, !.told = "",
                                   !.starts = release[r].starts + 1]
<1>2. /\ release \in [Releases -> Process] /\ release[r] \in Process
      /\ through \in Nat /\ release[r].starts + 1 \in Nat
  <2>1. release \in [Releases -> Process] /\ release[r] \in Process
    BY DEF MigrateInv, ProcessesSound
  <2>2. release[r].starts \in Nat
    BY <2>1 DEF Process
  <2>3. Manifest[r] \in Seq(STRING)
    BY DEF MigrateInv, ProcessesSound
  <2> QED BY <2>1, <2>2, <2>3
<1>3. p \in Process /\ p.pc = "waiting" /\ p.at = through /\ p.told = ""
  <2> DEFINE starts == release[r].starts + 1
  <2>1. starts \in Nat
    BY <1>2
  <2> HIDE DEF starts
  <2>2. [release[r] EXCEPT !.pc = "waiting", !.cmd = cmd, !.at = through, !.told = "", !.starts = starts]
          \in Process
    BY <1>2, <2>1 DEF Process
  <2>3. p \in Process
    BY <2>2 DEF starts
  <2> QED BY <1>2, <2>3 DEF Process
<1>4. release' = [release EXCEPT ![r] = p]
  BY <1>1, <1>2
<1> HIDE DEF p
<1>5. Knows(p, Manifest[r], db'.ledger)
  BY <1>3 DEF Knows
<1>6. DatabaseSound' /\ Grows(db.ledger, db'.ledger)
  BY DatabaseStays DEF StartRelease, MigrateInv
<1> QED BY <1>3, <1>4, <1>5, <1>6, ProcessStep

LEMMA AcquireLockStep ==
  ASSUME MigrateInv, NEW r \in Releases, AcquireLock(r), Manifest' = Manifest
  PROVE  MigrateInv'
<1> DEFINE p == [release[r] EXCEPT !.pc = "inspect"]
<1>1. release[r] \in Process /\ Knows(release[r], Manifest[r], db.ledger)
  BY DEF MigrateInv, ProcessesSound
<1>2. p \in Process /\ p = [release[r] EXCEPT !.pc = "inspect"]
  BY <1>1 DEF Process
<1>3. /\ p.pc = "inspect" /\ p.cmd = release[r].cmd /\ p.at = release[r].at
      /\ p.told = release[r].told /\ release[r].pc = "waiting"
  BY <1>1 DEF Process, AcquireLock
<1>4. release' = [release EXCEPT ![r] = p]
  BY <1>1 DEF AcquireLock, MigrateInv, ProcessesSound
<1> HIDE DEF p
<1>5. DatabaseSound' /\ Grows(db.ledger, db'.ledger) /\ db'.ledger = db.ledger
  BY DatabaseStays DEF AcquireLock, MigrateInv
<1>6. Knows(p, Manifest[r], db'.ledger)
  BY <1>1, <1>3, <1>5 DEF Knows
<1> QED BY <1>2, <1>4, <1>5, <1>6, ProcessStep

LEMMA CrashStep ==
  ASSUME MigrateInv, NEW r \in Releases, Crash(r), Manifest' = Manifest
  PROVE  MigrateInv'
<1>1. DatabaseSound' /\ Grows(db.ledger, db'.ledger)
  BY DatabaseStays DEF Crash, MigrateInv
<1> QED BY <1>1, EndStep DEF Crash

LEMMA InspectStep ==
  ASSUME MigrateInv, NEW r \in Releases, Inspect(r), Manifest' = Manifest
  PROVE  MigrateInv'
<1> DEFINE s == StatusOf(db, Manifest[r])
           at == IF release[r].cmd = "apply" THEN s.applied + 1 ELSE release[r].at
           p == [release[r] EXCEPT !.pc = "write",
                   !.seen = [applied |-> s.applied, ledgerExists |-> s.ledgerExists], !.at = at]
<1>0. release \in [Releases -> Process] /\ db.ledgerExists \in BOOLEAN
  BY DEF MigrateInv, ProcessesSound, DatabaseSound, DatabaseTypeOK
<1>1. /\ release[r] \in Process /\ Knows(release[r], Manifest[r], db.ledger)
      /\ Manifest[r] \in Seq(STRING) /\ db.ledger \in Seq(LedgerRow)
  BY DEF MigrateInv, ProcessesSound, DatabaseSound, DatabaseTypeOK
<1>2. DatabaseSound' /\ Grows(db.ledger, db'.ledger) /\ db'.ledger = db.ledger
  BY DatabaseStays DEF Inspect, MigrateInv
<1>3. /\ s.valid => Len(db.ledger) <= Len(Manifest[r])
                     /\ Holds(db.ledger, Manifest[r], Len(db.ledger))
      /\ s.applied = Len(db.ledger) /\ s.pending = Len(Manifest[r]) - Len(db.ledger)
  BY <1>1, ValidatedHolds DEF StatusOf
<1>4. s.valid /\ (s.pending = 0 \/ ~(s.pending > 0)) => Holds(db.ledger, Manifest[r], Len(Manifest[r]))
  <2>1. Len(db.ledger) \in Nat /\ Len(Manifest[r]) \in Nat
    BY <1>1
  <2> HIDE DEF s
  <2>2. ASSUME s.valid, s.pending = 0 \/ ~(s.pending > 0)
        PROVE  Len(db.ledger) = Len(Manifest[r])
    <3>1. Len(db.ledger) <= Len(Manifest[r])
      BY <1>3, <2>2
    <3>2. \/ Len(Manifest[r]) - Len(db.ledger) = 0
          \/ ~(Len(Manifest[r]) - Len(db.ledger) > 0)
      BY <1>3, <2>2
    <3>3. \A a, b \in Nat: a <= b /\ (b - a = 0 \/ ~(b - a > 0)) => a = b
      OBVIOUS
    <3> QED BY <2>1, <3>1, <3>2, <3>3
  <2> QED BY <1>3, <2>2
<1>5. \/ End(r, "refused")
      \/ s.valid /\ release[r].cmd = "apply" /\ s.pending = 0 /\ End(r, "ok")
      \/ /\ s.valid /\ ~Refuses(release[r].cmd, s, Manifest[r])
         /\ ~(release[r].cmd = "apply" /\ s.pending = 0)
         /\ release' = [release EXCEPT ![r] = p]
  BY <1>0 DEF Inspect
<1>6. CASE End(r, "refused")
  BY <1>2, <1>6, EndStep DEF End
<1>7. CASE s.valid /\ release[r].cmd = "apply" /\ s.pending = 0 /\ End(r, "ok")
  BY <1>2, <1>4, <1>7, EndStep DEF End
<1>8. CASE /\ s.valid /\ ~Refuses(release[r].cmd, s, Manifest[r])
           /\ ~(release[r].cmd = "apply" /\ s.pending = 0)
           /\ release' = [release EXCEPT ![r] = p]
  <2>1. /\ s.applied \in Nat /\ s.ledgerExists \in BOOLEAN /\ at \in Nat
    <3>1. s.ledgerExists = db.ledgerExists /\ release[r].at \in Nat
      BY <1>1 DEF Process, StatusOf
    <3>2. s.applied \in Nat /\ s.applied + 1 \in Nat
      BY <1>1, <1>3
    <3> QED BY <1>0, <3>1, <3>2
  <2>2. /\ p \in Process /\ p.pc = "write" /\ p.at = at /\ p.cmd = release[r].cmd
        /\ p.told = release[r].told
    BY <1>1, <2>1 DEF Process
  <2>3. p.cmd = "apply" => p.at \in 1..Len(Manifest[r]) /\ Holds(db.ledger, Manifest[r], p.at - 1)
    BY <1>1, <1>3, <1>8, <2>2
  <2>4. p.cmd = "provision" => Holds(db.ledger, Manifest[r], Len(Manifest[r]))
    BY <1>4, <1>8, <2>2 DEF Refuses
  <2>5. p.cmd = "adopt" => p.at \in 1..Len(Manifest[r])
    BY <1>1, <2>2 DEF Inspect, Knows
  <2>6. release' = [release EXCEPT ![r] = p]
    BY <1>8
  <2>7. p.told = "ok" /\ p.cmd \in {"apply", "provision"} => Holds(db.ledger, Manifest[r], Len(Manifest[r]))
    BY <1>1, <2>2 DEF Knows
  <2> HIDE DEF p
  <2>8. Knows(p, Manifest[r], db'.ledger)
    BY <1>2, <2>2, <2>3, <2>4, <2>5, <2>7 DEF Knows
  <2> QED BY <1>2, <2>2, <2>6, <2>8, ProcessStep
<1> QED BY <1>5, <1>6, <1>7, <1>8

-----------------------------------------------------------------------------
(* The transactions.                                                       *)

LEMMA LedgerIsAppended ==
  ASSUME NEW ledger \in Seq(LedgerRow), NEW row \in LedgerRow
  PROVE  /\ Append(ledger, row) \in Seq(LedgerRow)
         /\ Len(Append(ledger, row)) = Len(ledger) + 1
         /\ Grows(ledger, Append(ledger, row))
         /\ Append(ledger, row)[Len(ledger) + 1] = row
         /\ \A i \in 1..Len(ledger): Append(ledger, row)[i] = ledger[i]
<1>1. Len(ledger) \in Nat
  OBVIOUS
<1>2. /\ Append(ledger, row) \in Seq(LedgerRow)
      /\ Len(Append(ledger, row)) = Len(ledger) + 1
      /\ Append(ledger, row)[Len(ledger) + 1] = row
      /\ \A i \in 1..Len(ledger): Append(ledger, row)[i] = ledger[i]
  OBVIOUS
<1> QED BY <1>1, <1>2 DEF Grows

\* What a migration's transaction leaves, once i is the next of the manifest.
LEMMA CommitMigrationStep ==
  ASSUME DatabaseSound, NEW r \in Releases, NEW i \in 1..Len(Manifest[r]),
         Manifest[r] \in Seq(STRING), CommitMigration(r, i)
  PROVE  /\ DatabaseSound' /\ Grows(db.ledger, db'.ledger)
         /\ Holds(db.ledger, Manifest[r], i - 1) => Holds(db'.ledger, Manifest[r], i)
<1> DEFINE m == Manifest[r][i]
           row == Recorded(m, FALSE)
           k == Len(db.ledger)
<1>1. DatabaseTypeOK /\ LedgerAddsUp /\ MissingRoleIsHarmless /\ RoleSound
  BY DEF DatabaseSound
<1>2. m \in STRING /\ row \in LedgerRow /\ row.name = m /\ row.adopted = FALSE
  <2>1. m \in STRING
    BY ElementOfSeq
  <2> HIDE DEF m
  <2> QED BY <2>1 DEF LedgerRow, Recorded
<1>3. /\ i = k + 1 /\ ran' = Append(ran, m) /\ reviewed' = reviewed
      /\ db' = [db EXCEPT !.ledgerExists = TRUE, !.ledger = Append(@, row), !.objects = @ \cup {m},
                          !.public = @ \cup Executables({m})]
  BY DEF CommitMigration
<1>4. /\ db' = [ledger |-> db'.ledger, ledgerExists |-> db'.ledgerExists, objects |-> db'.objects,
                forced |-> db'.forced, role |-> db'.role, public |-> db'.public]
      /\ db'.ledger = Append(db.ledger, row) /\ db'.ledgerExists = TRUE
      /\ db'.forced = db.forced /\ db'.role = db.role /\ db'.public = db.public \cup Executables({m})
  BY <1>1, <1>3 DEF DatabaseTypeOK
<1>5. db.ledger \in Seq(LedgerRow) /\ k \in Nat /\ ran \in Seq(STRING) /\ Len(ran) \in Nat
  BY <1>1 DEF DatabaseTypeOK
<1> HIDE DEF m, row
<1>6. /\ db'.ledger \in Seq(LedgerRow) /\ Len(db'.ledger) = k + 1
      /\ Grows(db.ledger, db'.ledger) /\ db'.ledger[k + 1] = row
      /\ \A j \in 1..k: db'.ledger[j] = db.ledger[j]
  BY <1>2, <1>4, <1>5, LedgerIsAppended
<1>7. /\ ran' \in Seq(STRING) /\ Len(ran') = Len(ran) + 1 /\ ran'[Len(ran) + 1] = m
      /\ \A j \in 1..Len(ran): ran'[j] = ran[j]
  BY <1>2, <1>3, <1>5
<1>8. DatabaseTypeOK'
  BY <1>1, <1>3, <1>4, <1>6, <1>7 DEF DatabaseTypeOK
<1>9. LedgerAddsUp'
  <2> DEFINE adopted == k - Len(ran)
  <2>1. /\ Len(ran) <= k
        /\ \A j \in 1..k: db.ledger[j].adopted <=> j <= adopted
        /\ \A j \in 1..Len(ran): ran[j] = db.ledger[adopted + j].name
    BY <1>1 DEF LedgerAddsUp
  <2>2. Len(ran') <= Len(db'.ledger) /\ Len(db'.ledger) - Len(ran') = adopted /\ adopted \in 0..k
    BY <1>5, <1>6, <1>7, <2>1
  <2>3. \A j \in 1..Len(db'.ledger): db'.ledger[j].adopted <=> j <= adopted
    <3> SUFFICES ASSUME NEW j \in 1..(k + 1) PROVE db'.ledger[j].adopted <=> j <= adopted
      BY <1>6
    <3>1. CASE j \in 1..k
      BY <1>6, <2>1, <3>1
    <3>2. CASE j = k + 1
      BY <1>2, <1>5, <1>6, <2>2, <3>2
    <3> QED BY <1>5, <3>1, <3>2
  <2>4. \A j \in 1..Len(ran'): ran'[j] = db'.ledger[adopted + j].name
    <3> SUFFICES ASSUME NEW j \in 1..(Len(ran) + 1) PROVE ran'[j] = db'.ledger[adopted + j].name
      BY <1>7
    <3>1. CASE j \in 1..Len(ran)
      <4>1. adopted + j \in 1..k
        BY <1>5, <2>1, <3>1
      <4> QED BY <1>6, <1>7, <2>1, <3>1, <4>1
    <3>2. CASE j = Len(ran) + 1
      <4>1. \A a, b \in Nat: (a - b) + (b + 1) = a + 1
        OBVIOUS
      <4>2. adopted + j = k + 1
        BY <1>5, <3>2, <4>1
      <4> QED BY <1>2, <1>6, <1>7, <3>2, <4>2
    <3> QED BY <1>5, <3>1, <3>2
  <2> QED BY <2>2, <2>3, <2>4 DEF LedgerAddsUp
<1>10. MissingRoleIsHarmless' /\ RoleSound'
  <2>1. ToSet(Names(db'.ledger)) = ToSet(Names(db.ledger)) \cup {m}
    <3>1. /\ ToSet(Names(db'.ledger)) = {db'.ledger[j].name: j \in 1..(k + 1)}
          /\ ToSet(Names(db.ledger)) = {db.ledger[j].name: j \in 1..k}
      BY <1>5, <1>6, NamesAre
    <3>2. 1..(k + 1) = (1..k) \cup {k + 1}
      BY <1>5
    <3>3. db'.ledger[k + 1].name = m
      BY <1>2, <1>6
    <3>4. ASSUME NEW x PROVE x \in ToSet(Names(db'.ledger)) <=> x \in ToSet(Names(db.ledger)) \cup {m}
      <4>1. x \in ToSet(Names(db'.ledger)) <=> \E j \in (1..k) \cup {k + 1}: x = db'.ledger[j].name
        BY <3>1, <3>2
      <4>2. x \in ToSet(Names(db.ledger)) <=> \E j \in 1..k: x = db'.ledger[j].name
        BY <1>6, <3>1
      <4> QED BY <3>3, <4>1, <4>2
    <3> QED BY <3>4
  <2>2. Executables(ToSet(Names(db'.ledger))) = Executables(ToSet(Names(db.ledger))) \cup Executables({m})
    BY <2>1, ExecutablesAdd
  <2>3. Effective(db') = Effective(db) \cup Executables({m})
    BY <1>4 DEF Effective
  <2>4. db'.ledger # <<>>
    BY <1>5, <1>6
  <2>5. ASSUME reviewed' # <<>>
        PROVE  /\ db'.role.exists /\ ~db'.role.unsafe /\ ~db'.role.member
               /\ Effective(db') = Confined(reviewed', db'.ledger)
    <3>1. /\ db.role.exists /\ ~db.role.unsafe /\ ~db.role.member
          /\ Effective(db) = Reviewed(reviewed) \cup Executables(ToSet(Names(db.ledger)))
      BY <1>1, <1>3, <2>5 DEF RoleSound, Confined
    <3>2. Confined(reviewed', db'.ledger) = Reviewed(reviewed) \cup Executables(ToSet(Names(db'.ledger)))
      BY <1>3 DEF Confined
    <3> QED BY <1>4, <2>2, <2>3, <3>1, <3>2
  <2>6. RoleSound'
    BY <2>4, <2>5 DEF RoleSound
  <2> QED BY <1>1, <1>4, <2>6 DEF MissingRoleIsHarmless
<1>11. Holds(db.ledger, Manifest[r], i - 1) => Holds(db'.ledger, Manifest[r], i)
  BY <1>2, <1>3, <1>5, <1>6 DEF Holds, m
<1> QED BY <1>6, <1>8, <1>9, <1>10, <1>11 DEF DatabaseSound

LEMMA ApplyNextStep ==
  ASSUME MigrateInv, NEW r \in Releases, ApplyNext(r), Manifest' = Manifest
  PROVE  MigrateInv'
<1> DEFINE i == release[r].at
           next == IF i = Len(Manifest[r]) THEN End(r, "ok")
                   ELSE release' = [release EXCEPT ![r].at = i + 1] /\ UNCHANGED lock
<1>1. /\ release \in [Releases -> Process] /\ release[r] \in Process
      /\ Knows(release[r], Manifest[r], db.ledger)
      /\ Manifest[r] \in Seq(STRING) /\ DatabaseSound
  BY DEF MigrateInv, ProcessesSound
<1>2. release[r].pc = "write" /\ release[r].cmd = "apply"
  BY DEF ApplyNext
<1>3. i \in 1..Len(Manifest[r]) /\ Holds(db.ledger, Manifest[r], i - 1)
  BY <1>1, <1>2 DEF Knows
<1>4. \/ CommitMigration(r, i) /\ next
      \/ CommitMigration(r, i) /\ End(r, "unknown")
      \/ UNCHANGED <<db, ran, reviewed>> /\ End(r, "failed")
  BY DEF ApplyNext, Transaction
<1>5. CASE CommitMigration(r, i) /\ next
  <2>1. /\ DatabaseSound' /\ Grows(db.ledger, db'.ledger) /\ Holds(db'.ledger, Manifest[r], i)
    BY <1>1, <1>3, <1>5, CommitMigrationStep
  <2>2. CASE i = Len(Manifest[r])
    BY <1>5, <2>1, <2>2, EndStep DEF End
  <2>3. CASE i # Len(Manifest[r])
    <3> DEFINE p == [release[r] EXCEPT !.at = i + 1]
    <3>1. /\ i + 1 \in Nat /\ i + 1 \in 1..Len(Manifest[r]) /\ (i + 1) - 1 = i
      BY <1>1, <1>3, <2>3
    <3>2. /\ p \in Process /\ p.pc = "write" /\ p.cmd = "apply" /\ p.at = i + 1
          /\ p.told = release[r].told
      <4> DEFINE n == i + 1
      <4>1. n \in Nat
        BY <3>1
      <4> HIDE DEF n
      <4>2. /\ [release[r] EXCEPT !.at = n] \in Process
            /\ [release[r] EXCEPT !.at = n].pc = release[r].pc
            /\ [release[r] EXCEPT !.at = n].cmd = release[r].cmd
            /\ [release[r] EXCEPT !.at = n].told = release[r].told
            /\ [release[r] EXCEPT !.at = n].at = n
        BY <1>1, <4>1 DEF Process
      <4> QED BY <1>2, <4>2 DEF n
    <3>3. release' = [release EXCEPT ![r] = p]
      BY <1>1, <1>5, <2>3
    <3>4. p.told = "ok" => Holds(db.ledger, Manifest[r], Len(Manifest[r]))
      BY <1>1, <1>2, <3>2 DEF Knows
    <3>5. /\ Len(Manifest[r]) \in Nat
          /\ db.ledger \in Seq(LedgerRow) /\ db'.ledger \in Seq(LedgerRow)
      BY <1>1, <2>1 DEF DatabaseSound, DatabaseTypeOK
    <3>6. p.told = "ok" => Holds(db'.ledger, Manifest[r], Len(Manifest[r]))
      BY <2>1, <3>4, <3>5, HoldsOn
    <3> HIDE DEF p
    <3>7. Knows(p, Manifest[r], db'.ledger)
      BY <2>1, <3>1, <3>2, <3>6 DEF Knows
    <3> QED BY <2>1, <3>2, <3>3, <3>7, ProcessStep
  <2> QED BY <2>2, <2>3
<1>6. CASE CommitMigration(r, i) /\ End(r, "unknown")
  BY <1>1, <1>3, <1>6, CommitMigrationStep, EndStep DEF End
<1>7. CASE UNCHANGED <<db, ran, reviewed>> /\ End(r, "failed")
  BY <1>1, <1>7, DatabaseStays, EndStep DEF End
<1> QED BY <1>4, <1>5, <1>6, <1>7

LEMMA AdoptStep ==
  ASSUME MigrateInv, NEW r \in Releases, Adopt(r), Manifest' = Manifest
  PROVE  MigrateInv'
<1> DEFINE n == release[r].at
           rows == [i \in 1..n |-> Recorded(Manifest[r][i], TRUE)]
           commit == /\ db.ledgerExists <=> release[r].seen.ledgerExists
                     /\ db.ledger = <<>>
                     /\ db' = [db EXCEPT !.ledgerExists = TRUE, !.ledger = rows]
                     /\ UNCHANGED <<ran, reviewed>>
<1>1. /\ release[r] \in Process /\ Knows(release[r], Manifest[r], db.ledger)
      /\ Manifest[r] \in Seq(STRING) /\ DatabaseSound
      /\ release[r].pc = "write" /\ release[r].cmd = "adopt"
  BY DEF MigrateInv, ProcessesSound, Adopt
<1>2. n \in 1..Len(Manifest[r])
  BY <1>1 DEF Knows
<1>3. \/ commit /\ End(r, "ok")
      \/ commit /\ End(r, "unknown")
      \/ UNCHANGED <<db, ran, reviewed>> /\ End(r, "failed")
  BY DEF Adopt, Transaction
<1>4. ASSUME commit PROVE DatabaseSound' /\ Grows(db.ledger, db'.ledger)
  <2>1. DatabaseTypeOK /\ LedgerAddsUp /\ MissingRoleIsHarmless /\ RoleSound
    BY <1>1 DEF DatabaseSound
  <2>2. rows \in Seq(LedgerRow) /\ Len(rows) = n /\ \A i \in 1..n: rows[i].adopted = TRUE
    <3>1. \A i \in 1..n: Manifest[r][i] \in STRING
      BY <1>1, <1>2, ElementOfSeq
    <3>2. \A i \in 1..n: rows[i] \in LedgerRow /\ rows[i].adopted = TRUE
      BY <3>1 DEF LedgerRow, Recorded
    <3>3. n \in Nat
      BY <1>1, <1>2
    <3>4. rows \in [1..n -> LedgerRow]
      BY <3>2
    <3> HIDE DEF rows
    <3>5. rows \in Seq(LedgerRow)
      BY <3>3, <3>4, SeqDef
    <3>6. Len(rows) = n
      BY <3>3, <3>4, <3>5
    <3> QED BY <3>2, <3>5, <3>6
  <2> HIDE DEF rows
  <2>3. /\ db' = [ledger |-> db'.ledger, ledgerExists |-> db'.ledgerExists, objects |-> db'.objects,
                  forced |-> db'.forced, role |-> db'.role, public |-> db'.public]
        /\ db'.ledger = rows /\ db'.ledgerExists = TRUE
        /\ db'.forced = db.forced /\ db'.role = db.role /\ db'.public = db.public
    BY <1>4, <2>1 DEF DatabaseTypeOK
  <2>4. DatabaseTypeOK'
    BY <1>4, <2>1, <2>2, <2>3 DEF DatabaseTypeOK
  <2>5. Len(ran) = 0 /\ Len(ran') = 0 /\ n \in Nat
    <3>1. Len(db.ledger) = 0 /\ Len(ran) \in Nat
      BY <1>4, <2>1 DEF DatabaseTypeOK
    <3> QED BY <1>1, <1>2, <1>4, <2>1, <3>1 DEF LedgerAddsUp
  <2>6. LedgerAddsUp'
    BY <2>2, <2>3, <2>5 DEF LedgerAddsUp
  <2>7. MissingRoleIsHarmless' /\ RoleSound'
    <3>1. reviewed' = reviewed /\ reviewed = <<>>
      BY <1>4, <2>1 DEF RoleSound
    <3> QED BY <2>1, <2>3, <3>1 DEF MissingRoleIsHarmless, RoleSound
  <2>8. Grows(db.ledger, db'.ledger)
    BY <1>4, <2>2, <2>3, <2>5 DEF Grows
  <2> QED BY <2>4, <2>6, <2>7, <2>8 DEF DatabaseSound
<1> HIDE DEF commit
<1>5. CASE commit /\ End(r, "ok")
  BY <1>1, <1>4, <1>5, EndStep DEF End
<1>6. CASE commit /\ End(r, "unknown")
  BY <1>4, <1>6, EndStep DEF End
<1>7. CASE UNCHANGED <<db, ran, reviewed>> /\ End(r, "failed")
  BY <1>1, <1>7, DatabaseStays, EndStep DEF End
<1> QED BY <1>3, <1>5, <1>6, <1>7

\* What provisioning makes of a role and of the database around it.
LEMMA RoleProvisioned ==
  ASSUME NEW ro \in Role, NEW grants \in SUBSET Privileges
  PROVE  LET made == [ro EXCEPT !.exists = TRUE]
             granted == [made EXCEPT !.grants = @ \cup grants]
         IN /\ made.grants = ro.grants
            /\ granted \in Role /\ granted.exists = TRUE /\ granted.unsafe = ro.unsafe
            /\ granted.member = ro.member /\ granted.grants = ro.grants \cup grants
<1> DEFINE made == [ro EXCEPT !.exists = TRUE]
           granted == [made EXCEPT !.grants = @ \cup grants]
<1>1. /\ made \in Role /\ made.grants = ro.grants /\ made.exists = TRUE
      /\ made.unsafe = ro.unsafe /\ made.member = ro.member
  BY DEF Role
<1> HIDE DEF made
<1>2. made.grants \cup grants \in SUBSET Privileges
  BY <1>1 DEF Role
<1>3. /\ granted \in Role /\ granted.exists = made.exists /\ granted.unsafe = made.unsafe
      /\ granted.member = made.member /\ granted.grants = made.grants \cup grants
  <2> DEFINE all == made.grants \cup grants
  <2>1. all \in SUBSET Privileges
    BY <1>2
  <2> HIDE DEF all
  <2>2. /\ [made EXCEPT !.grants = all] \in Role
        /\ [made EXCEPT !.grants = all].exists = made.exists
        /\ [made EXCEPT !.grants = all].unsafe = made.unsafe
        /\ [made EXCEPT !.grants = all].member = made.member
        /\ [made EXCEPT !.grants = all].grants = all
    BY <1>1, <2>1 DEF Role
  <2> QED BY <2>2 DEF all
<1> HIDE DEF granted
<1>4. granted \in Role /\ granted.exists = TRUE /\ granted.unsafe = ro.unsafe
      /\ granted.member = ro.member /\ granted.grants = ro.grants \cup grants
  BY <1>1, <1>3
<1> QED BY <1>1, <1>4 DEF granted, made

Shaped(d) ==
  d = [ledger |-> d.ledger, ledgerExists |-> d.ledgerExists, objects |-> d.objects,
       forced |-> d.forced, role |-> d.role, public |-> d.public]

LEMMA ProvisionStep ==
  ASSUME MigrateInv, LockSound, NEW r \in Releases, Provision(r), Manifest' = Manifest
  PROVE  MigrateInv'
<1> DEFINE role == [db.role EXCEPT !.exists = TRUE]
           restricted == [db EXCEPT !.public = {}, !.role = role]
           commit == /\ ~(db.role.exists /\ (db.role.unsafe \/ db.role.member))
                     /\ ExtraPrivileges(restricted, Manifest[r]) = {}
                     /\ \A u \in Needed(ToSet(Manifest[r])): u[2] \in db.objects
                     /\ db' = [restricted EXCEPT !.role = [role EXCEPT !.grants = @ \cup Grants(Manifest[r])]]
                     /\ reviewed' = Manifest[r]
                     /\ UNCHANGED ran
<1>1. /\ release[r] \in Process /\ Knows(release[r], Manifest[r], db.ledger)
      /\ Manifest[r] \in Seq(STRING) /\ DatabaseSound
      /\ release[r].pc = "write" /\ release[r].cmd = "provision"
  BY DEF MigrateInv, ProcessesSound, Provision
<1>2. \/ commit /\ End(r, "ok")
      \/ commit /\ End(r, "unknown")
      \/ UNCHANGED <<db, ran, reviewed>> /\ End(r, "failed")
  BY DEF Provision, Transaction
<1>3. ASSUME commit PROVE DatabaseSound' /\ Grows(db.ledger, db'.ledger)
  <2>1. DatabaseTypeOK /\ LedgerAddsUp /\ MissingRoleIsHarmless
    BY <1>1 DEF DatabaseSound
  <2> DEFINE grants == Grants(Manifest[r])
  <2>2. grants = Reviewed(Manifest[r]) /\ grants \in SUBSET Privileges
    BY DEF Grants, Reviewed, Needed, Privileges
  <2> HIDE DEF grants
  <2> DEFINE granted == [role EXCEPT !.grants = @ \cup grants]
  <2>3. db.role \in Role /\ ~db.role.unsafe /\ ~db.role.member
    BY <1>3, <2>1 DEF MissingRoleIsHarmless, DatabaseTypeOK
  <2>4. /\ role.grants = db.role.grants /\ granted \in Role /\ granted.exists = TRUE
        /\ granted.unsafe = db.role.unsafe /\ granted.member = db.role.member
        /\ granted.grants = db.role.grants \cup grants
    BY <2>2, <2>3, RoleProvisioned
  <2> DEFINE done == [restricted EXCEPT !.role = granted]
  <2>5. /\ restricted.role = role /\ restricted.public = {}
        /\ Shaped(done) /\ done.role = granted /\ done.public = {}
        /\ done.ledger = db.ledger /\ done.ledgerExists = db.ledgerExists /\ done.forced = db.forced
    <3>1. Shaped(db)
      BY <2>1 DEF DatabaseTypeOK, Shaped
    <3>2. restricted = [db EXCEPT !.public = {}, !.role = role] /\ done = [restricted EXCEPT !.role = granted]
      OBVIOUS
    <3> HIDE DEF role, granted, restricted, done
    <3>3. /\ Shaped(restricted) /\ restricted.role = role /\ restricted.public = {}
          /\ restricted.ledger = db.ledger /\ restricted.ledgerExists = db.ledgerExists
          /\ restricted.forced = db.forced
      BY <3>1, <3>2 DEF Shaped
    <3>4. /\ Shaped(done) /\ done.role = granted /\ done.public = restricted.public
          /\ done.ledger = restricted.ledger /\ done.ledgerExists = restricted.ledgerExists
          /\ done.forced = restricted.forced
      BY <3>2, <3>3 DEF Shaped
    <3> QED BY <3>3, <3>4
  <2>6. db' = done /\ ExtraPrivileges(restricted, Manifest[r]) = {}
    BY <1>3 DEF grants
  <2> HIDE DEF granted, restricted, role, done
  <2>7. db.role.grants \subseteq grants
    BY <2>2, <2>4, <2>5, <2>6 DEF ExtraPrivileges, Effective
  <2>8. /\ db' = [ledger |-> db'.ledger, ledgerExists |-> db'.ledgerExists, objects |-> db'.objects,
                  forced |-> db'.forced, role |-> db'.role, public |-> db'.public]
        /\ db'.ledger = db.ledger /\ db'.ledgerExists = db.ledgerExists
        /\ db'.public = {} /\ db'.role = granted
    BY <2>5, <2>6 DEF Shaped
  <2>9. /\ db'.role.exists = TRUE /\ ~db'.role.unsafe /\ ~db'.role.member
        /\ db'.role.grants = db.role.grants \cup grants /\ db'.role \in Role
    BY <2>3, <2>4, <2>8
  <2>10. DatabaseTypeOK'
    BY <1>1, <1>3, <2>1, <2>8, <2>9 DEF DatabaseTypeOK
  <2>11. LedgerAddsUp' /\ Grows(db.ledger, db'.ledger)
    <3>1. Len(db.ledger) \in Nat
      BY <2>1 DEF DatabaseTypeOK
    <3>2. db'.ledger = db.ledger /\ ran' = ran
      BY <1>3, <2>8
    <3> QED BY <2>1, <3>1, <3>2 DEF LedgerAddsUp, Grows
  <2>12. MissingRoleIsHarmless' /\ RoleSound'
    <3>1. db.ledger \in Seq(LedgerRow) /\ Len(db.ledger) \in Nat /\ Len(Manifest[r]) \in Nat
      BY <1>1, <2>1 DEF DatabaseTypeOK
    <3>2. Holds(db.ledger, Manifest[r], Len(Manifest[r])) /\ Len(db.ledger) <= Len(Manifest[r])
      BY <1>1 DEF Knows, LockSound, Provisions
    <3>3. ToSet(Names(db'.ledger)) = ToSet(Manifest[r])
      BY <1>1, <2>8, <3>1, <3>2, SameNames
    <3>4. Executables(ToSet(Manifest[r])) \subseteq grants
      BY <2>2, ExecutablesAdd DEF Reviewed
    <3>5. Effective(db') = grants
      BY <2>7, <2>8, <2>9 DEF Effective
    <3>6. Effective(db') = Confined(reviewed', db'.ledger)
      BY <1>3, <2>2, <3>3, <3>4, <3>5 DEF Confined
    <3>7. reviewed' # <<>> => db'.ledger # <<>>
      <4>1. ASSUME reviewed' # <<>> PROVE Len(db.ledger) # 0
        <5>1. Manifest[r] # <<>> /\ Len(Manifest[r]) # 0
          BY <1>1, <1>3, <4>1
        <5>2. Len(Manifest[r]) <= Len(db.ledger)
          BY <3>2 DEF Holds
        <5> QED BY <3>1, <5>1, <5>2
      <4> QED BY <2>8, <4>1
    <3> QED BY <2>9, <3>6, <3>7 DEF MissingRoleIsHarmless, RoleSound
  <2> QED BY <2>10, <2>11, <2>12 DEF DatabaseSound
<1> HIDE DEF commit
<1>4. CASE commit /\ End(r, "ok")
  <2>1. db.ledger \in Seq(LedgerRow) /\ Len(Manifest[r]) \in Nat
    BY <1>1 DEF DatabaseSound, DatabaseTypeOK
  <2>2. DatabaseSound' /\ Grows(db.ledger, db'.ledger) /\ db'.ledger \in Seq(LedgerRow)
    BY <1>3, <1>4 DEF DatabaseSound, DatabaseTypeOK
  <2>3. Holds(db'.ledger, Manifest[r], Len(Manifest[r]))
    BY <1>1, <2>1, <2>2, HoldsOn DEF Knows
  <2> QED BY <1>4, <2>2, <2>3, EndStep DEF End
<1>5. CASE commit /\ End(r, "unknown")
  BY <1>3, <1>5, EndStep DEF End
<1>6. CASE UNCHANGED <<db, ran, reviewed>> /\ End(r, "failed")
  BY <1>1, <1>6, DatabaseStays, EndStep DEF End
<1> QED BY <1>2, <1>4, <1>5, <1>6

LEMMA MeddleStep ==
  ASSUME MigrateInv, Meddle, Manifest' = Manifest
  PROVE  MigrateInv'
<1>1. DatabaseSound /\ ProcessesSound
  BY DEF MigrateInv
<1>2. DatabaseTypeOK /\ LedgerAddsUp /\ MissingRoleIsHarmless /\ Shaped(db)
  BY <1>1 DEF DatabaseSound, DatabaseTypeOK, Shaped
<1>3. /\ reviewed' = <<>> /\ ran' = ran /\ release' = release
      /\ \/ \E x \in {"stray"}: db' = [db EXCEPT !.objects = (@ \ {x}) \cup ({x} \ @)]
         \/ db' = [db EXCEPT !.forced = ~@]
         \/ \E ro \in Role: (ro.exists \/ (~ro.unsafe /\ ~ro.member)) /\ db' = [db EXCEPT !.role = ro]
         \/ db' = [db EXCEPT !.public = ByDefault(db.objects)]
  <2>0. db.role \in Role
    BY <1>2 DEF DatabaseTypeOK
  <2>1. [NoRole EXCEPT !.exists = TRUE] \in Role /\ [NoRole EXCEPT !.exists = TRUE].exists
    BY DEF NoRole, Role
  <2>2. /\ [db.role EXCEPT !.unsafe = TRUE] \in Role
        /\ [db.role EXCEPT !.unsafe = TRUE].exists = db.role.exists
        /\ [db.role EXCEPT !.member = TRUE] \in Role
        /\ [db.role EXCEPT !.member = TRUE].exists = db.role.exists
    BY <2>0 DEF Role
  <2>3. ASSUME NEW x \in Unreviewed
        PROVE  /\ [db.role EXCEPT !.grants = @ \cup {x}] \in Role
               /\ [db.role EXCEPT !.grants = @ \cup {x}].exists = db.role.exists
    <3> DEFINE all == db.role.grants \cup {x}
    <3>1. all \in SUBSET Privileges
      BY <2>0 DEF Role, Privileges
    <3> HIDE DEF all
    <3>2. [db.role EXCEPT !.grants = all] \in Role /\ [db.role EXCEPT !.grants = all].exists = db.role.exists
      BY <2>0, <3>1 DEF Role
    <3> QED BY <3>2 DEF all
  <2>4. /\ reviewed' = <<>> /\ ran' = ran /\ release' = release
        /\ \/ \E x \in {"stray"}: db' = [db EXCEPT !.objects = (@ \ {x}) \cup ({x} \ @)]
           \/ db' = [db EXCEPT !.forced = ~@]
           \/ db' = [db EXCEPT !.role = [NoRole EXCEPT !.exists = TRUE]]
           \/ db.role.exists /\ db' = [db EXCEPT !.role = [db.role EXCEPT !.unsafe = TRUE]]
           \/ db.role.exists /\ db' = [db EXCEPT !.role = [db.role EXCEPT !.member = TRUE]]
           \/ db.role.exists /\ \E x \in Unreviewed:
                db' = [db EXCEPT !.role = [db.role EXCEPT !.grants = db.role.grants \cup {x}]]
           \/ db' = [db EXCEPT !.public = ByDefault(db.objects)]
    BY DEF Meddle
  <2> QED BY <2>1, <2>2, <2>3, <2>4
<1>4. /\ Shaped(db') /\ db'.ledger = db.ledger /\ db'.ledgerExists = db.ledgerExists
      /\ db'.role \in Role
      /\ ~db'.role.exists => ~db'.role.unsafe /\ ~db'.role.member
  <2>1. CASE \E x \in {"stray"}: db' = [db EXCEPT !.objects = (@ \ {x}) \cup ({x} \ @)]
    BY <1>2, <2>1 DEF Shaped, DatabaseTypeOK, MissingRoleIsHarmless
  <2>2. CASE db' = [db EXCEPT !.forced = ~@]
    BY <1>2, <2>2 DEF Shaped, DatabaseTypeOK, MissingRoleIsHarmless
  <2>3. CASE \E ro \in Role: (ro.exists \/ (~ro.unsafe /\ ~ro.member)) /\ db' = [db EXCEPT !.role = ro]
    <3>1. PICK ro \in Role: (ro.exists \/ (~ro.unsafe /\ ~ro.member)) /\ db' = [db EXCEPT !.role = ro]
      BY <2>3
    <3>2. /\ Shaped(db') /\ db'.ledger = db.ledger /\ db'.ledgerExists = db.ledgerExists
          /\ db'.public = db.public /\ db'.role = ro
      BY <1>2, <3>1 DEF Shaped
    <3> QED BY <1>2, <3>1, <3>2 DEF DatabaseTypeOK
  <2>4. CASE db' = [db EXCEPT !.public = ByDefault(db.objects)]
    BY <1>2, <2>4 DEF Shaped, DatabaseTypeOK, MissingRoleIsHarmless
  <2> QED BY <1>3, <2>1, <2>2, <2>3, <2>4
<1>5. DatabaseSound'
  <2>1. DatabaseTypeOK' /\ LedgerAddsUp'
    BY <1>2, <1>3, <1>4 DEF DatabaseTypeOK, LedgerAddsUp, Shaped
  <2>2. MissingRoleIsHarmless' /\ RoleSound'
    BY <1>3, <1>4 DEF MissingRoleIsHarmless, RoleSound
  <2> QED BY <2>1, <2>2 DEF DatabaseSound
<1> QED BY <1>1, <1>3, <1>4, <1>5 DEF MigrateInv, ProcessesSound

-----------------------------------------------------------------------------

\* Nobody is past the lock beside its holder.
LEMMA Alone ==
  ASSUME LockSound, NEW r \in Releases, NEW q \in Releases, Inside(r) \/ lock = "none", q # r
  PROVE  ~Inside(q) /\ ~Provisions(q)
BY ReleaseAssumption DEF LockSound, Inside, Provisions

LEMMA LockStays ==
  ASSUME LockSound, UNCHANGED <<release, lock, Manifest>>, db'.ledger = db.ledger
  PROVE  LockSound'
BY DEF LockSound, Inside, Provisions

\* One release moves, where the others are outside or nothing of theirs moves.
LEMMA OneMoves ==
  ASSUME LockSound, Manifest' = Manifest, NEW r \in Releases,
         \A q \in Releases \ {r}: release'[q] = release[q],
         \/ lock' = lock /\ db'.ledger = db.ledger
         \/ \A q \in Releases \ {r}: ~Inside(q) /\ ~Provisions(q),
         Inside(r)' => lock' = r,
         Provisions(r)' => Len(db'.ledger) <= Len(Manifest[r])
  PROVE  LockSound'
<1> SUFFICES ASSUME NEW q \in Releases
             PROVE  (Inside(q)' => lock' = q) /\ (Provisions(q)' => Len(db'.ledger) <= Len(Manifest'[q]))
  BY DEF LockSound
<1>1. CASE q = r
  BY <1>1
<1>2. CASE q # r
  <2>1. (Inside(q)' <=> Inside(q)) /\ (Provisions(q)' <=> Provisions(q))
    BY <1>2 DEF Inside, Provisions
  <2> QED BY <1>2, <2>1 DEF LockSound
<1> QED BY <1>1, <1>2

LEMMA OneEnds ==
  ASSUME LockSound, ProcessesSound, Manifest' = Manifest, NEW r \in Releases,
         Inside(r) \/ (lock' = lock /\ db'.ledger = db.ledger),
         NEW p, p.pc = "off" \/ p.pc = "waiting", release' = [release EXCEPT ![r] = p]
  PROVE  LockSound'
<1>1. release' = [release EXCEPT ![r] = p] /\ release'[r] = p /\ \A q \in Releases \ {r}: release'[q] = release[q]
  BY DEF ProcessesSound
<1>2. ~Inside(r)' /\ ~Provisions(r)'
  BY <1>1 DEF Inside, Provisions
<1> QED BY <1>1, <1>2, Alone, OneMoves

LEMMA EndUnlocks ==
  ASSUME LockSound, ProcessesSound, Manifest' = Manifest, NEW r \in Releases, Inside(r),
         NEW told, End(r, told)
  PROVE  LockSound'
<1> DEFINE p == [release[r] EXCEPT !.pc = "off", !.told = told, !.seen = NoStatus, !.at = 0]
<1>1. release[r] \in Process
  BY DEF ProcessesSound
<1>2. p.pc = "off" /\ release' = [release EXCEPT ![r] = p]
  BY <1>1 DEF Process, End
<1> HIDE DEF p
<1> QED BY <1>2, OneEnds

LEMMA LockStep ==
  ASSUME MigrateInv, LockSound, NEW r \in Releases, Manifest' = Manifest,
         \/ StartRelease(r) \/ AcquireLock(r) \/ Inspect(r) \/ ApplyNext(r)
         \/ Adopt(r) \/ Provision(r) \/ Crash(r) \/ Audit(r)
  PROVE  LockSound'
<1>1. /\ ProcessesSound /\ release \in [Releases -> Process] /\ release[r] \in Process
      /\ db.ledger \in Seq(LedgerRow) /\ Manifest[r] \in Seq(STRING)
  BY DEF MigrateInv, ProcessesSound, DatabaseSound, DatabaseTypeOK
<1>2. CASE StartRelease(r)
  <2>1. PICK cmd \in {"apply", "adopt", "provision"}, through \in 1..Len(Manifest[r]):
          release' = [release EXCEPT ![r] = [release[r] EXCEPT
                        !.pc = "waiting", !.cmd = cmd, !.at = through, !.told = "",
                        !.starts = release[r].starts + 1]]
    BY <1>2 DEF StartRelease
  <2> DEFINE p == [release[r] EXCEPT !.pc = "waiting", !.cmd = cmd, !.at = through, !.told = "",
                                     !.starts = release[r].starts + 1]
  <2>2. p.pc = "waiting" /\ release' = [release EXCEPT ![r] = p] /\ lock' = lock /\ db'.ledger = db.ledger
    BY <1>1, <1>2, <2>1 DEF StartRelease, Process
  <2> HIDE DEF p
  <2> QED BY <1>1, <2>2, OneEnds
<1>3. CASE AcquireLock(r)
  <2>1. lock = "none" /\ lock' = r /\ release' = [release EXCEPT ![r].pc = "inspect"]
    BY <1>3 DEF AcquireLock
  <2>2. release'[r].pc = "inspect" /\ \A q \in Releases \ {r}: release'[q] = release[q]
    BY <1>1, <2>1 DEF Process
  <2>3. Inside(r)' /\ ~Provisions(r)'
    BY <2>2 DEF Inside, Provisions
  <2> QED BY <2>1, <2>2, <2>3, Alone, OneMoves
<1>4. CASE Inspect(r)
  <2> DEFINE s == StatusOf(db, Manifest[r])
             at == IF release[r].cmd = "apply" THEN s.applied + 1 ELSE release[r].at
             p == [release[r] EXCEPT !.pc = "write",
                     !.seen = [applied |-> s.applied, ledgerExists |-> s.ledgerExists], !.at = at]
  <2>1. Inside(r) /\ lock = r
    BY <1>4 DEF Inspect, Inside, LockSound
  <2>2. \/ End(r, "refused") \/ End(r, "ok")
        \/ s.valid /\ release' = [release EXCEPT ![r] = p] /\ lock' = lock /\ db' = db
    BY <1>4 DEF Inspect
  <2>3. CASE End(r, "refused") \/ End(r, "ok")
    BY <1>1, <2>1, <2>3, EndUnlocks
  <2>4. CASE s.valid /\ release' = [release EXCEPT ![r] = p] /\ lock' = lock /\ db' = db
    <3>1. Len(db.ledger) <= Len(Manifest[r])
      BY <2>4 DEF StatusOf, Validated
    <3> HIDE DEF p, s
    <3>2. \A q \in Releases \ {r}: release'[q] = release[q]
      BY <1>1, <2>4
    <3> QED BY <2>1, <2>4, <3>1, <3>2, OneMoves
  <2> QED BY <2>2, <2>3, <2>4
<1>5. CASE ApplyNext(r)
  <2>1. Inside(r) /\ lock = r /\ release[r].cmd = "apply"
    BY <1>5 DEF ApplyNext, Inside, LockSound
  <2>2. \/ End(r, "ok") \/ End(r, "unknown") \/ End(r, "failed")
        \/ release' = [release EXCEPT ![r].at = release[r].at + 1] /\ lock' = lock
    BY <1>5 DEF ApplyNext, Transaction
  <2>3. CASE End(r, "ok") \/ End(r, "unknown") \/ End(r, "failed")
    BY <1>1, <2>1, <2>3, EndUnlocks
  <2>4. CASE release' = [release EXCEPT ![r].at = release[r].at + 1] /\ lock' = lock
    <3>1. release'[r].cmd = release[r].cmd /\ \A q \in Releases \ {r}: release'[q] = release[q]
      BY <1>1, <2>4 DEF Process
    <3>2. ~Provisions(r)'
      BY <2>1, <3>1 DEF Provisions
    <3>3. \A q \in Releases \ {r}: ~Inside(q) /\ ~Provisions(q)
      BY <2>1, Alone
    <3> QED BY <2>1, <2>4, <3>1, <3>2, <3>3, OneMoves
  <2> QED BY <2>2, <2>3, <2>4
<1>6. CASE Adopt(r) \/ Provision(r)
  <2>1. Inside(r)
    BY <1>6 DEF Adopt, Provision, Inside
  <2>2. End(r, "ok") \/ End(r, "unknown") \/ End(r, "failed")
    BY <1>6 DEF Adopt, Provision, Transaction
  <2> QED BY <1>1, <2>1, <2>2, EndUnlocks
<1>7. CASE Crash(r)
  <2> DEFINE p == [release[r] EXCEPT !.pc = "off", !.told = "crashed", !.seen = NoStatus, !.at = 0]
  <2>1. p.pc = "off" /\ release' = [release EXCEPT ![r] = p]
    BY <1>1, <1>7 DEF Crash, Process
  <2> HIDE DEF p
  <2>2. db' = db /\ (lock' = lock \/ lock = r)
    BY <1>7 DEF Crash
  <2>3. release'[r] = p /\ \A q \in Releases \ {r}: release'[q] = release[q]
    BY <1>1, <2>1
  <2>4. ~Inside(r)' /\ ~Provisions(r)'
    BY <2>1, <2>3 DEF Inside, Provisions
  <2>5. CASE lock' = lock
    BY <2>2, <2>3, <2>4, <2>5, OneMoves
  <2>6. CASE lock = r
    <3>1. \A q \in Releases \ {r}: ~Inside(q) /\ ~Provisions(q)
      BY <2>6 DEF LockSound, Inside, Provisions
    <3> QED BY <2>3, <2>4, <3>1, OneMoves
  <2> QED BY <2>2, <2>5, <2>6
<1>8. CASE Audit(r)
  BY <1>8, LockStays DEF Audit
<1> QED BY <1>2, <1>3, <1>4, <1>5, <1>6, <1>7, <1>8

LEMMA MigrateStep == MigrateInv /\ LockSound /\ [MigrateNext]_migrateVars => MigrateInv' /\ LockSound'
<1> SUFFICES ASSUME MigrateInv, LockSound, [MigrateNext]_migrateVars PROVE MigrateInv' /\ LockSound'
  OBVIOUS
<1>1. CASE UNCHANGED migrateVars
  <2>1. DatabaseSound' /\ db' = db
    BY <1>1, DatabaseStays DEF migrateVars, MigrateInv
  <2>2. LockSound'
    BY <1>1, LockStays DEF migrateVars
  <2> QED BY <1>1, <2>1, <2>2 DEF migrateVars, MigrateInv, ProcessesSound
<1>2. CASE Meddle /\ Manifest' = Manifest
  <2>1. MigrateInv'
    BY <1>2, MeddleStep
  <2>2. db'.ledger = db.ledger /\ UNCHANGED <<release, lock>>
    BY <1>2 DEF Meddle, MigrateInv, DatabaseSound, DatabaseTypeOK
  <2> QED BY <1>2, <2>1, <2>2, LockStays
<1>3. ASSUME NEW r \in Releases, Manifest' = Manifest,
             \/ StartRelease(r) \/ AcquireLock(r) \/ Inspect(r) \/ ApplyNext(r)
             \/ Adopt(r) \/ Provision(r) \/ Crash(r)
      PROVE  MigrateInv'
  BY <1>3, StartReleaseStep, AcquireLockStep, InspectStep, ApplyNextStep, AdoptStep, ProvisionStep, CrashStep
<1>4. ASSUME NEW r \in Releases, Manifest' = Manifest, Audit(r) PROVE MigrateInv'
  <2>1. DatabaseSound' /\ db'.ledger = db.ledger /\ release' = release
    BY <1>4, DatabaseStays DEF Audit, MigrateInv
  <2> QED BY <1>4, <2>1 DEF MigrateInv, ProcessesSound
<1> QED BY <1>1, <1>2, <1>3, <1>4, LockStep DEF MigrateNext

LEMMA LockInitSound == MigrateInit => LockSound
<1>1. Off.pc = "off"
  BY DEF Off
<1>2. MigrateInit => \A r \in Releases: release[r] = Off
  BY DEF MigrateInit
<1>3. MigrateInit => \A r \in Releases: release[r].pc = "off"
  BY <1>1, <1>2
<1> QED BY <1>3 DEF LockSound, Inside, Provisions

LEMMA MigrateInvHolds == MigrateSpec => [](MigrateInv /\ LockSound)
BY MigrateInitHolds, LockInitSound, MigrateStep, PTL DEF MigrateSpec

LEMMA MigrateInvImplies == MigrateInv => ReleasesAreSound
<1> SUFFICES ASSUME MigrateInv PROVE ReleasesAreSound
  OBVIOUS
<1>1. /\ LedgerAddsUp /\ RoleSound /\ db.ledger \in Seq(LedgerRow)
      /\ \A r \in Releases: Manifest[r] \in Seq(STRING) /\ Knows(release[r], Manifest[r], db.ledger)
  BY DEF MigrateInv, DatabaseSound, DatabaseTypeOK, ProcessesSound
<1>2. \A r \in Releases: release[r].told = "ok" /\ release[r].cmd \in {"apply", "provision"}
        => IsPrefix(Manifest[r], Names(db.ledger))
  BY <1>1, HoldsIsPrefix DEF Knows
<1>3. AttestedRolesAreConfined
  <2> SUFFICES ASSUME reviewed # <<>>, db.forced, NEW r \in Releases
               PROVE  Attests(db, Manifest[r])
                        <=> Reviewed(Manifest[r]) = Reviewed(reviewed) \cup Executables(ToSet(Names(db.ledger)))
    BY DEF AttestedRolesAreConfined
  <2>1. /\ db.role.exists /\ ~db.role.unsafe /\ ~db.role.member
        /\ Effective(db) = Reviewed(reviewed) \cup Executables(ToSet(Names(db.ledger)))
    BY <1>1 DEF RoleSound, Confined
  <2>2. Attests(db, Manifest[r]) <=> Effective(db) = Reviewed(Manifest[r])
    BY <2>1 DEF Attests, ExtraPrivileges
  <2> QED BY <2>1, <2>2
<1> QED BY <1>1, <1>2, <1>3 DEF ReleasesAreSound, LedgerTellsTheSchema, LedgerAddsUp

\* Whoever crashes between the steps of a release, whatever a commit answers
\* and however an administrator interferes, the ledger's rows are the
\* adopted prefix and then exactly the migrations whose SQL was committed, a
\* process told that it applied its manifest finds the whole of it recorded,
\* and a provisioned role is attested by just the releases that review what
\* it was provisioned for and every function of the present ledger (Apply,
\* Adopt, ProvisionRuntimeRole, VerifyRuntimeRole).
THEOREM ReleasesStaySound == MigrateSpec => []ReleasesAreSound
BY MigrateInvHolds, MigrateInvImplies, PTL

-----------------------------------------------------------------------------
(* Public search: a client's pages are the beginning of one order.         *)

\* An order is a sequence, whatever its elements are.
IsOrder(o) == Len(o) \in Nat /\ o = [i \in 1..Len(o) |-> o[i]]

Known == {Corpora[i]: i \in 1..Len(Corpora)}

\* The order of the entries that a cursor's key names.
EntryOrder(corpus, q, ranking) ==
  IF ranking = <<>> THEN LexicalIds(Index(corpus), q)
  ELSE RankedIds(Index(corpus), q, ranking[2])

\* The first n documents, each with its own vector.
OwnOf(docs, n) == [i \in 1..n |-> [doc |-> docs[i], vec |-> docs[i]]]
OwnRows(corpus, n) == OwnOf(Documents(corpus), n)

-----------------------------------------------------------------------------
(* Sequences. *)

LEMMA OrderMade ==
  ASSUME NEW n \in Nat, NEW o, o = [i \in 1..n |-> o[i]]
  PROVE  IsOrder(o) /\ Len(o) = n
BY DEF IsOrder

LEMMA IdsAreOrders ==
  ASSUME NEW s
  PROVE  IsOrder(Ids(s))
<1> DEFINE o == Ids(s)
           n == Len(s)
<1>1. n \in Nat
  OBVIOUS
<1>2. o = [i \in 1..n |-> o[i]]
  BY DEF Ids
<1> HIDE DEF o, n
<1>3. IsOrder(o)
  BY <1>1, <1>2, OrderMade
<1> QED BY <1>3 DEF o

LEMMA OrdersAreSequences ==
  ASSUME NEW corpus, NEW q, NEW rows, NEW vec
  PROVE  IsOrder(OrderOf(corpus, q, rows, vec))
<1>1. IsOrder(LexicalIds(Index(corpus), q))
  BY IdsAreOrders DEF LexicalIds
<1>2. ASSUME NEW ranked PROVE IsOrder(RankedIds(Index(corpus), q, ranked))
  BY IdsAreOrders DEF RankedIds
<1>3. ASSUME NEW ranked, NEW isRanked PROVE IsOrder(AppIds(corpus, q, ranked, isRanked))
  BY IdsAreOrders DEF AppIds
<1> QED BY <1>1, <1>2, <1>3 DEF OrderOf

\* What has been read of an order, the page that follows it, and both.
Start(o, n) == SubSeq(o, 1, n)
Page(o, n, m) == SubSeq(o, n + 1, m)
Joined(a, b) == a \o b

LEMMA PageContinues ==
  ASSUME NEW o, IsOrder(o), NEW n \in Nat, NEW m \in Nat, n <= m, m <= Len(o)
  PROVE  /\ Joined(Start(o, n), Page(o, n, m)) = Start(o, m)
         /\ m = Len(o) => Start(o, m) = o
<1>1. SubSeq(o, 1, n) \o SubSeq(o, n + 1, m) = SubSeq(o, 1, m)
  OBVIOUS
<1>2. ASSUME m = Len(o) PROVE SubSeq(o, 1, m) = o
  BY <1>2 DEF IsOrder
<1> QED BY <1>1, <1>2 DEF Start, Page, Joined

LEMMA PrefixOfOrder ==
  ASSUME NEW o, IsOrder(o), NEW n \in Nat, n <= Len(o)
  PROVE  IsPrefix(Start(o, n), o)
<1> DEFINE s == Start(o, n)
<1>1. Len(s) = n /\ \A i \in 1..n: s[i] = o[i]
  BY DEF Start
<1> HIDE DEF s
<1>2. SubSeq(s, 1, n) = SubSeq(o, 1, n)
  BY <1>1
<1>3. IsPrefix(s, o)
  BY <1>1, <1>2 DEF IsPrefix
<1> QED BY <1>3 DEF s

\* A page: nothing unless the cursor belongs to the order, else what follows
\* the offset, and a cursor for the rest if there is any.
IsCut(page, ids, offset, key, m) ==
  /\ offset <= m /\ m <= Len(ids)
  /\ page.items = Page(ids, offset, m)
  /\ m = Len(ids) => page.next = NoCursor
  /\ m # Len(ids) => page.next = [key |-> key, offset |-> m] /\ 0 < m

LEMMA PageIsCut ==
  ASSUME NEW ids, IsOrder(ids), NEW limit \in Nat \ {0}, NEW offset \in Nat, NEW key,
         NEW page, page = PageOf(ids, limit, offset, TRUE, key), page.ok
  PROVE  \E m \in Nat: IsCut(page, ids, offset, key, m)
<1> DEFINE m == IF offset + limit < Len(ids) THEN offset + limit ELSE Len(ids)
<1>1. Len(ids) \in Nat
  BY DEF IsOrder
<1>2. offset <= Len(ids)
  BY <1>1 DEF PageOf, Refusal
<1>3. page.items = SubSeq(ids, offset + 1, m)
  BY <1>1, <1>2 DEF PageOf
<1>4. page.next = IF m < Len(ids) THEN [key |-> key, offset |-> m] ELSE NoCursor
  BY <1>1, <1>2 DEF PageOf
<1>5. m \in Nat /\ offset <= m /\ m <= Len(ids) /\ 0 < limit /\ (m < Len(ids) => 0 < m)
  BY <1>1, <1>2
<1> HIDE DEF m
<1>6. m = Len(ids) => page.next = NoCursor
  <2>1. m = Len(ids) => ~(m < Len(ids))
    BY <1>1
  <2> QED BY <1>4, <2>1
<1>7. m # Len(ids) => page.next = [key |-> key, offset |-> m] /\ 0 < m
  <2>1. m # Len(ids) => m < Len(ids)
    BY <1>1, <1>5
  <2> QED BY <1>4, <1>5, <2>1
<1>8. page.items = Page(ids, offset, m)
  BY <1>3 DEF Page
<1>9. IsCut(page, ids, offset, key, m)
  BY <1>5, <1>6, <1>7, <1>8 DEF IsCut
<1> QED BY <1>5, <1>9

-----------------------------------------------------------------------------
(* What a client has read. *)

ClientShape(k) ==
  k = [pc |-> k.pc, q |-> k.q, limit |-> k.limit, snap |-> k.snap, cursor |-> k.cursor,
       read |-> k.read, orders |-> k.orders]

\* A client that pages through one order has read it up to its cursor.
HasRead(k, o) ==
  IF k.pc = "done" THEN k.read = o
  ELSE k.cursor.offset <= Len(o) /\ k.read = Start(o, k.cursor.offset)

\* A cursor over the entries is bound to the order it continues.
IsBoundTo(k, o) ==
  \E corpus \in Known: \E ranking:
    k.cursor.key = KeyOf(corpus, k.q, ranking) /\ o = EntryOrder(corpus, k.q, ranking)

ClientOk(k) ==
  /\ ClientShape(k)
  /\ k.cursor.offset \in Nat
  /\ IsFiniteSet(k.orders) /\ \A o \in k.orders: IsOrder(o)
  /\ k.orders = {} => k.read = <<>> /\ k.cursor = NoCursor
  /\ \A o: k.orders = {o} => HasRead(k, o)
  /\ k.q.over = "entries" /\ k.orders # {} =>
       \E o: k.orders = {o} /\ (k.pc # "done" => IsBoundTo(k, o))

\* The client after a page, as Take has it.
Taken(k, page, order) ==
  IF ~page.ok THEN [k EXCEPT !.pc = "idle", !.cursor = NoCursor, !.read = <<>>, !.orders = {}]
  ELSE [k EXCEPT !.pc = IF page.next = NoCursor THEN "done" ELSE "idle",
                 !.cursor = page.next,
                 !.read = k.read \o page.items,
                 !.orders = k.orders \cup {order}]

LEMMA TakenRefused ==
  ASSUME NEW k, NEW page, NEW order, ClientShape(k), ~page.ok
  PROVE  /\ ClientShape(Taken(k, page, order))
         /\ Taken(k, page, order).q = k.q
         /\ Taken(k, page, order).pc = "idle"
         /\ Taken(k, page, order).cursor = NoCursor
         /\ Taken(k, page, order).read = <<>>
         /\ Taken(k, page, order).orders = {}
<1> DEFINE t == Taken(k, page, order)
<1>1. t = [k EXCEPT !.pc = "idle", !.cursor = NoCursor, !.read = <<>>, !.orders = {}]
  BY DEF Taken
<1> HIDE DEF t
<1>2. t = [pc |-> "idle", q |-> k.q, limit |-> k.limit, snap |-> k.snap, cursor |-> NoCursor,
           read |-> <<>>, orders |-> {}]
  BY <1>1 DEF ClientShape
<1>3. ClientShape(t) /\ t.q = k.q /\ t.pc = "idle" /\ t.cursor = NoCursor /\ t.read = <<>> /\ t.orders = {}
  BY <1>2 DEF ClientShape
<1> QED BY <1>3 DEF t

LEMMA TakenServed ==
  ASSUME NEW k, NEW page, NEW order, ClientShape(k), page.ok
  PROVE  /\ ClientShape(Taken(k, page, order))
         /\ Taken(k, page, order).q = k.q
         /\ Taken(k, page, order).pc = IF page.next = NoCursor THEN "done" ELSE "idle"
         /\ Taken(k, page, order).cursor = page.next
         /\ Taken(k, page, order).orders = k.orders \cup {order}
<1> DEFINE t == Taken(k, page, order)
           read == k.read \o page.items
           orders == k.orders \cup {order}
           pc == IF page.next = NoCursor THEN "done" ELSE "idle"
<1>1. t = [k EXCEPT !.pc = pc, !.cursor = page.next, !.read = read, !.orders = orders]
  BY DEF Taken
<1> HIDE DEF t, read, orders, pc
<1>2. t = [pc |-> pc, q |-> k.q, limit |-> k.limit, snap |-> k.snap, cursor |-> page.next,
           read |-> read, orders |-> orders]
  BY <1>1 DEF ClientShape
<1>3. ClientShape(t) /\ t.q = k.q /\ t.pc = pc /\ t.cursor = page.next /\ t.orders = orders
  BY <1>2 DEF ClientShape
<1> QED BY <1>3 DEF t, orders, pc

\* Apart from the lemma above: no prover applies the two together.
LEMMA TakenReads ==
  ASSUME NEW k, NEW page, NEW order, ClientShape(k), page.ok
  PROVE  Taken(k, page, order).read = k.read \o page.items
<1> DEFINE t == Taken(k, page, order)
           read == k.read \o page.items
           orders == k.orders \cup {order}
           pc == IF page.next = NoCursor THEN "done" ELSE "idle"
<1>1. t = [k EXCEPT !.pc = pc, !.cursor = page.next, !.read = read, !.orders = orders]
  BY DEF Taken
<1> HIDE DEF t, read, orders, pc
<1>2. t = [pc |-> pc, q |-> k.q, limit |-> k.limit, snap |-> k.snap, cursor |-> page.next,
           read |-> read, orders |-> orders]
  BY <1>1 DEF ClientShape
<1>3. t.read = read
  BY <1>2
<1> QED BY <1>3 DEF t, read

\* A page that is served: cut from the order, which over the entries is the
\* one that the key names, and the key that of the cursor if there was one.
IsServed(page, q, limit, cursor, ids, key) ==
  /\ page = PageOf(ids, limit, cursor.offset, TRUE, key)
  /\ q.over = "entries" =>
       /\ cursor = NoCursor \/ cursor.key = key
       /\ \E ranking: key = KeyOf(Corpus, q, ranking) /\ ids = EntryOrder(Corpus, q, ranking)

\* Only over the apps is an offset past the results answered.
IsPast(page, q, cursor, ids) ==
  q.over # "entries" /\ cursor.offset > Len(ids) /\ page = PastTheEnd(ids)

LEMMA AnswerIsPage ==
  ASSUME NEW q, NEW limit, NEW cursor, NEW rows, NEW vec, Answer(Corpus, q, limit, cursor, rows, vec).ok
  PROVE  \/ IsPast(Answer(Corpus, q, limit, cursor, rows, vec), q, cursor, OrderOf(Corpus, q, rows, vec))
         \/ \E key: IsServed(Answer(Corpus, q, limit, cursor, rows, vec), q, limit, cursor,
                             OrderOf(Corpus, q, rows, vec), key)
<1> DEFINE ids == OrderOf(Corpus, q, rows, vec)
           page == Answer(Corpus, q, limit, cursor, rows, vec)
           ranking == IF vec = None THEN <<>> ELSE <<"ranked", Ranking(Corpus, q, rows, vec)>>
           key == KeyOf(Corpus, q, ranking)
<1>1. CASE q.over = "entries"
  <2>1. page = PageOf(ids, limit, cursor.offset, cursor = NoCursor \/ cursor.key = key, key)
    BY <1>1 DEF Answer, EntryPage
  <2>2. ids = EntryOrder(Corpus, q, ranking)
    BY <1>1 DEF OrderOf, EntryOrder
  <2>3. cursor = NoCursor \/ cursor.key = key
    <3> HIDE DEF ids, ranking, key
    <3> QED BY <2>1 DEF PageOf, Refusal
  <2>4. page = PageOf(ids, limit, cursor.offset, TRUE, key)
    <3> HIDE DEF ids, ranking, key, page
    <3> QED BY <2>1, <2>3 DEF PageOf
  <2>5. key = KeyOf(Corpus, q, ranking)
    OBVIOUS
  <2>6. /\ page = PageOf(ids, limit, cursor.offset, TRUE, key)
        /\ cursor = NoCursor \/ cursor.key = key
        /\ \E x: key = KeyOf(Corpus, q, x) /\ ids = EntryOrder(Corpus, q, x)
    <3> HIDE DEF ids, ranking, key, page
    <3> QED BY <2>2, <2>3, <2>4, <2>5
  <2>7. IsServed(page, q, limit, cursor, ids, key)
    <3> HIDE DEF ids, ranking, key, page
    <3> QED BY <2>6 DEF IsServed
  <2> QED BY <2>7
<1>2. CASE q.over # "entries"
  <2>1. page = AppPage(Corpus, q, limit, cursor, ids)
    BY <1>2 DEF Answer
  <2>2. IsPast(page, q, cursor, ids) \/ \E k: IsServed(page, q, limit, cursor, ids, k)
    <3> HIDE DEF ids, page
    <3>1. CASE cursor.offset > Len(ids)
      <4>1. IsPast(page, q, cursor, ids)
        BY <1>2, <2>1, <3>1 DEF AppPage, IsPast
      <4> QED BY <4>1
    <3>2. CASE ~(cursor.offset > Len(ids))
      <4>1. page = PageOf(ids, limit, cursor.offset, TRUE, <<>>)
        BY <2>1, <3>2 DEF AppPage
      <4>2. IsServed(page, q, limit, cursor, ids, <<>>)
        BY <1>2, <4>1 DEF IsServed
      <4> QED BY <4>2
    <3> QED BY <3>1, <3>2
  <2> QED BY <2>2
<1> QED BY <1>1, <1>2

\* Two cursors of one key continue one order.
LEMMA KeysNameOrders ==
  ASSUME NEW q, NEW c \in Known, NEW d \in Known, NEW r, NEW s, KeyOf(c, q, r) = KeyOf(d, q, s)
  PROVE  EntryOrder(c, q, r) = EntryOrder(d, q, s)
<1>1. c.revision = d.revision /\ r = s
  BY DEF KeyOf
<1>2. Index(c) = Index(d)
  <2>1. c.entries = d.entries
    BY <1>1, RevisionAssumption DEF Known
  <2> QED BY <2>1 DEF Index
<1> QED BY <1>1, <1>2 DEF EntryOrder

LEMMA TakenStaysOk ==
  ASSUME NEW k, NEW limit \in Limits, NEW rows, NEW vec,
         ClientOk(k), k.pc # "done", Corpus \in Known
  PROVE  ClientOk(Taken(k, Answer(Corpus, k.q, limit, k.cursor, rows, vec), OrderOf(Corpus, k.q, rows, vec)))
<1> DEFINE page == Answer(Corpus, k.q, limit, k.cursor, rows, vec)
           ids == OrderOf(Corpus, k.q, rows, vec)
           t == Taken(k, page, ids)
           n == k.cursor.offset
<1>1. IsOrder(ids)
  BY OrdersAreSequences
<1>2. limit \in Nat \ {0} /\ n \in Nat /\ ClientShape(k)
  BY LimitAssumption DEF ClientOk
<1>3. ASSUME page.ok
      PROVE  IsPast(page, k.q, k.cursor, ids) \/ \E key: IsServed(page, k.q, limit, k.cursor, ids, key)
  BY <1>3, AnswerIsPage
<1> HIDE DEF page, ids, n
<1>4. ASSUME ~page.ok PROVE ClientOk(t)
  <2>1. ClientShape(t) /\ t.pc = "idle" /\ t.cursor = NoCursor /\ t.read = <<>> /\ t.orders = {}
    BY <1>2, <1>4, TakenRefused
  <2> HIDE DEF t
  <2>2. NoCursor.offset \in Nat
    BY DEF NoCursor
  <2>3. IsFiniteSet({})
    BY FS_EmptySet
  <2> QED BY <2>1, <2>2, <2>3 DEF ClientOk
<1>5. ASSUME page.ok, \E key: IsServed(page, k.q, limit, k.cursor, ids, key) PROVE ClientOk(t)
  <2>1. /\ ClientShape(t) /\ t.q = k.q
        /\ t.pc = IF page.next = NoCursor THEN "done" ELSE "idle"
        /\ t.cursor = page.next
        /\ t.orders = k.orders \cup {ids}
    BY <1>2, <1>5, TakenServed
  <2>2. t.read = Joined(k.read, page.items)
    BY <1>2, <1>5, TakenReads DEF Joined
  <2> HIDE DEF t
  <2>3. PICK key: IsServed(page, k.q, limit, k.cursor, ids, key)
    BY <1>5
  <2>4. /\ page = PageOf(ids, limit, n, TRUE, key)
        /\ k.q.over = "entries" =>
             /\ k.cursor = NoCursor \/ k.cursor.key = key
             /\ \E ranking: key = KeyOf(Corpus, k.q, ranking) /\ ids = EntryOrder(Corpus, k.q, ranking)
    BY <2>3 DEF IsServed, n
  <2>5. PICK m \in Nat: IsCut(page, ids, n, key, m)
    BY <1>1, <1>2, <1>5, <2>4, PageIsCut
  <2>6. /\ n <= m /\ m <= Len(ids) /\ page.items = Page(ids, n, m)
        /\ m = Len(ids) => page.next = NoCursor
        /\ m # Len(ids) => page.next = [key |-> key, offset |-> m] /\ 0 < m
    BY <2>5 DEF IsCut
  <2>7. /\ t.pc = "done" => m = Len(ids)
        /\ t.pc # "done" => t.cursor.key = key /\ t.cursor.offset = m
        /\ t.cursor.offset \in Nat
    BY <2>1, <2>6 DEF NoCursor
  <2>8. IsFiniteSet(t.orders) /\ (\A o \in t.orders: IsOrder(o)) /\ ids \in t.orders
    <3>1. IsFiniteSet(k.orders) /\ \A o \in k.orders: IsOrder(o)
      BY DEF ClientOk
    <3>2. IsFiniteSet(k.orders \cup {ids})
      BY <3>1, FS_AddElement
    <3> QED BY <1>1, <2>1, <3>1, <3>2
  <2>9. ASSUME NEW o, t.orders = {o} PROVE o = ids /\ HasRead(t, o)
    <3>1. o = ids
      BY <2>8, <2>9
    <3>2. k.orders = {} \/ k.orders = {ids}
      BY <2>1, <2>9, <3>1
    <3>3. k.read = Start(ids, n)
      <4>1. CASE k.orders = {}
        <5>1. k.read = <<>> /\ n = 0
          BY <4>1 DEF ClientOk, NoCursor, n
        <5>2. Start(ids, 0) = <<>>
          BY DEF Start
        <5> QED BY <5>1, <5>2
      <4>2. CASE k.orders = {ids}
        BY <4>2 DEF ClientOk, HasRead, n
      <4> QED BY <3>2, <4>1, <4>2
    <3>4. t.read = Start(ids, m) /\ (m = Len(ids) => t.read = ids)
      <4>1. t.read = Joined(Start(ids, n), Page(ids, n, m))
        BY <2>2, <2>6, <3>3
      <4> QED BY <1>1, <1>2, <2>6, <4>1, PageContinues
    <3> QED BY <2>6, <2>7, <3>1, <3>4 DEF HasRead
  <2>10. ASSUME k.q.over = "entries"
        PROVE  t.orders = {ids} /\ (t.pc # "done" => IsBoundTo(t, ids))
    <3>1. PICK ranking: key = KeyOf(Corpus, k.q, ranking) /\ ids = EntryOrder(Corpus, k.q, ranking)
      BY <2>4, <2>10
    <3>2. t.pc # "done" => IsBoundTo(t, ids)
      BY <2>1, <2>7, <3>1 DEF IsBoundTo
    <3>3. CASE k.orders = {}
      BY <2>1, <3>2, <3>3
    <3>4. CASE k.orders # {}
      <4>1. PICK o: k.orders = {o} /\ IsBoundTo(k, o)
        BY <2>10, <3>4 DEF ClientOk
      <4>2. PICK c \in Known: \E r: k.cursor.key = KeyOf(c, k.q, r) /\ o = EntryOrder(c, k.q, r)
        BY <4>1 DEF IsBoundTo
      <4>3. PICK r: k.cursor.key = KeyOf(c, k.q, r) /\ o = EntryOrder(c, k.q, r)
        BY <4>2
      <4>4. k.cursor # NoCursor
        <5>1. k.cursor.key # <<>>
          BY <4>3 DEF KeyOf
        <5>2. NoCursor.key = <<>>
          BY DEF NoCursor
        <5> QED BY <5>1, <5>2
      <4>5. KeyOf(c, k.q, r) = KeyOf(Corpus, k.q, ranking)
        BY <2>4, <2>10, <3>1, <4>3, <4>4
      <4>6. o = ids
        BY <3>1, <4>3, <4>5, KeysNameOrders
      <4> QED BY <2>1, <3>2, <4>1, <4>6
    <3> QED BY <3>3, <3>4
  <2> QED BY <2>1, <2>7, <2>8, <2>9, <2>10 DEF ClientOk
<1>6. ASSUME page.ok, IsPast(page, k.q, k.cursor, ids) PROVE ClientOk(t)
  <2>1. /\ ClientShape(t) /\ t.q = k.q
        /\ t.pc = IF page.next = NoCursor THEN "done" ELSE "idle"
        /\ t.cursor = page.next
        /\ t.orders = k.orders \cup {ids}
    BY <1>2, <1>6, TakenServed
  <2> HIDE DEF t
  <2>2. /\ page.next = NoCursor /\ NoCursor.offset = 0
        /\ k.q.over # "entries" /\ n > Len(ids)
    BY <1>6 DEF IsPast, PastTheEnd, NoCursor, n
  <2>3. IsFiniteSet(t.orders) /\ (\A o \in t.orders: IsOrder(o)) /\ ids \in t.orders
    <3>1. IsFiniteSet(k.orders) /\ \A o \in k.orders: IsOrder(o)
      BY DEF ClientOk
    <3>2. IsFiniteSet(k.orders \cup {ids})
      BY <3>1, FS_AddElement
    <3> QED BY <1>1, <2>1, <3>1, <3>2
  <2>4. ASSUME NEW o, t.orders = {o} PROVE FALSE
    <3>1. k.orders = {} \/ k.orders = {ids}
      BY <2>1, <2>3, <2>4
    <3>2. Len(ids) \in Nat
      BY <1>1 DEF IsOrder
    <3>3. CASE k.orders = {}
      BY <2>2, <3>2, <3>3 DEF ClientOk, n
    <3>4. CASE k.orders = {ids}
      <4>1. HasRead(k, ids)
        BY <3>4 DEF ClientOk
      <4>2. n <= Len(ids)
        BY <4>1 DEF HasRead, n
      <4> QED BY <1>2, <2>2, <3>2, <4>2
    <3> QED BY <3>1, <3>3, <3>4
  <2>5. t.cursor.offset \in Nat /\ t.orders # {} /\ t.q.over # "entries"
    BY <2>1, <2>2, <2>3
  <2> QED BY <2>1, <2>3, <2>4, <2>5 DEF ClientOk
<1> QED BY <1>3, <1>4, <1>5, <1>6 DEF t, page, ids

-----------------------------------------------------------------------------
(* The published vectors. *)

LEMMA SequenceMade ==
  ASSUME NEW S, NEW n \in Nat, NEW s \in [1..n -> S]
  PROVE  s \in Seq(S) /\ Len(s) = n
OBVIOUS

LEMMA RowsGrow ==
  ASSUME NEW docs, NEW n \in Nat, NEW m \in Nat, NEW rows, NEW more,
         rows = [i \in 1..n |-> [doc |-> docs[i], vec |-> docs[i]]],
         more = [i \in 1..m |-> [doc |-> docs[n + i], vec |-> docs[n + i]]]
  PROVE  rows \o more = [i \in 1..(n + m) |-> [doc |-> docs[i], vec |-> docs[i]]]
<1> DEFINE own(i) == [doc |-> docs[i], vec |-> docs[i]]
           S == {own(i): i \in 1..(n + m)}
<1>0. /\ \A i \in 1..(n + m): own(i) \in S
      /\ \A i \in 1..n: i \in 1..(n + m) /\ rows[i] = own(i)
      /\ \A i \in 1..m: n + i \in 1..(n + m) /\ more[i] = own(n + i)
      /\ rows = [i \in 1..n |-> rows[i]] /\ more = [i \in 1..m |-> more[i]]
  OBVIOUS
<1> HIDE DEF S, own
<1>00. (\A i \in 1..n: rows[i] \in S) /\ \A i \in 1..m: more[i] \in S
  BY <1>0
<1>01. rows \in [1..n -> S] /\ more \in [1..m -> S]
  BY <1>0, <1>00
<1>1. rows \in Seq(S) /\ Len(rows) = n
  BY <1>01, SequenceMade
<1>2. more \in Seq(S) /\ Len(more) = m
  BY <1>01, SequenceMade
<1>3. Len(rows \o more) = n + m
  BY <1>1, <1>2
<1>4. rows \o more = [i \in 1..(n + m) |-> (rows \o more)[i]]
  BY <1>1, <1>2
<1>5. ASSUME NEW i \in 1..(n + m) PROVE (rows \o more)[i] = [doc |-> docs[i], vec |-> docs[i]]
  <2>1. CASE i <= n
    <3>1. (rows \o more)[i] = rows[i]
      BY <1>1, <1>2, <2>1
    <3> QED BY <2>1, <3>1
  <2>2. CASE n < i
    <3>1. (rows \o more)[i] = more[i - n] /\ i - n \in 1..m /\ n + (i - n) = i
      BY <1>1, <1>2, <2>2
    <3> QED BY <3>1
  <2> QED BY <2>1, <2>2
<1> QED BY <1>4, <1>5

\* The vectors of a response whose items embed the texts they name.
VectorsOf(texts, index) ==
  Embedded(texts, [i \in 1..Len(texts) |-> [index |-> index[i], vec |-> texts[index[i]]]])
Firsts(texts, n) == [i \in 1..n |-> texts[i]]

\* Whatever index the items of a response name, a document gets its own
\* vector or the batch is refused.
LEMMA EmbeddedIsOwn ==
  ASSUME NEW texts, NEW n \in Nat, Len(texts) = n, NEW index \in [1..n -> 1..n]
  PROVE  VectorsOf(texts, index) = <<>> \/ VectorsOf(texts, index) = Firsts(texts, n)
<1> DEFINE items == [i \in 1..n |-> [index |-> index[i], vec |-> texts[index[i]]]]
           vecs == Embedded(texts, items)
<1>1. Len(items) = n /\ DOMAIN items = 1..n
  OBVIOUS
<1>2. \A i \in 1..n: items[i].index = index[i] /\ items[i].vec = texts[index[i]]
  OBVIOUS
<1>3. \A x \in Range(items): x.vec = texts[x.index]
  BY <1>1, <1>2 DEF Range
<1>4. ASSUME {items[i].index: i \in 1..Len(items)} = 1..Len(texts)
      PROVE  \A i \in 1..n: (CHOOSE x \in Range(items): x.index = i).vec = texts[i]
  <2> SUFFICES ASSUME NEW i \in 1..n PROVE (CHOOSE x \in Range(items): x.index = i).vec = texts[i]
    OBVIOUS
  <2>1. PICK j \in 1..n: items[j].index = i
    BY <1>1, <1>4
  <2>2. items[j] \in Range(items)
    BY <1>1 DEF Range
  <2> HIDE DEF items
  <2>3. (CHOOSE x \in Range(items): x.index = i) \in Range(items)
        /\ (CHOOSE x \in Range(items): x.index = i).index = i
    BY <2>1, <2>2
  <2> QED BY <1>3, <2>3
<1> DEFINE all == Len(items) = Len(texts) /\ {items[i].index: i \in 1..Len(items)} = 1..Len(texts)
           picked == [i \in 1..Len(texts) |-> (CHOOSE x \in Range(items): x.index = i).vec]
<1>5. vecs = IF all THEN picked ELSE <<>>
  BY DEF Embedded
<1>6. ASSUME all PROVE picked = [i \in 1..n |-> texts[i]]
  <2> HIDE DEF items
  <2> QED BY <1>4, <1>6
<1>7. vecs = <<>> \/ vecs = [i \in 1..n |-> texts[i]]
  <2> HIDE DEF vecs, all, picked
  <2>1. CASE all
    BY <1>5, <1>6, <2>1
  <2>2. CASE ~all
    BY <1>5, <2>2
  <2> QED BY <2>1, <2>2
<1>8. vecs = VectorsOf(texts, index)
  BY DEF VectorsOf
<1> HIDE DEF vecs
<1> QED BY <1>7, <1>8 DEF Firsts

LEMMA DocumentsCount ==
  ASSUME NEW corpus
  PROVE  Len(Documents(corpus)) \in Nat
OBVIOUS

\* The vectors of the next batch are those of the next documents.
LEMMA BatchMade ==
  ASSUME NEW docs, NEW n \in Nat, Len(docs) \in Nat, n <= Len(docs)
  PROVE  LET texts == Capped(SubSeq(docs, n + 1, Len(docs)), Batch)
         IN \E m \in Nat: /\ n + m <= Len(docs) /\ Len(texts) = m
                          /\ \A i \in 1..m: texts[i] = docs[n + i]
<1> DEFINE rest == SubSeq(docs, n + 1, Len(docs))
           r == Len(docs) - n
           m == IF r < Batch THEN r ELSE Batch
           texts == Capped(rest, Batch)
<1>1. r \in Nat /\ Batch \in Nat /\ m \in Nat /\ m <= r /\ n + m <= Len(docs)
  BY LimitAssumption
<1>2. Len(rest) = r
  BY <1>1
<1>3. \A i \in 1..r: rest[i] = docs[n + i]
  BY <1>1
<1>4. texts = SubSeq(rest, 1, m)
  BY <1>2 DEF Capped
<1> HIDE DEF rest, texts, m
<1>5. Len(texts) = m /\ \A i \in 1..m: texts[i] = rest[i]
  BY <1>1, <1>4
<1>6. \A i \in 1..m: i \in 1..r
  BY <1>1
<1>7. \E x \in Nat: n + x <= Len(docs) /\ Len(texts) = x /\ \A i \in 1..x: texts[i] = docs[n + i]
  BY <1>1, <1>3, <1>5, <1>6
<1> QED BY <1>7 DEF texts, rest

\* The batch that follows n rows, and the rows of both.
Batched(docs, n) == Capped(SubSeq(docs, n + 1, Len(docs)), Batch)
WithRows(rows, texts, vecs) == rows \o [i \in 1..Len(texts) |-> [doc |-> texts[i], vec |-> vecs[i]]]

LEMMA OwnLength ==
  ASSUME NEW corpus, NEW n \in Nat
  PROVE  Len(OwnRows(corpus, n)) = n
BY DEF OwnRows, OwnOf

LEMMA NoneOwn ==
  ASSUME NEW corpus
  PROVE  OwnRows(corpus, 0) = <<>>
BY DEF OwnRows, OwnOf

LEMMA BatchExtends ==
  ASSUME NEW docs, Len(docs) \in Nat, NEW n \in Nat, n <= Len(docs),
         NEW texts, texts = Batched(docs, n),
         NEW index \in [1..Len(texts) -> 1..Len(texts)],
         NEW vecs, vecs = VectorsOf(texts, index), vecs # <<>>
  PROVE  \E k \in Nat: k <= Len(docs) /\ WithRows(OwnOf(docs, n), texts, vecs) = OwnOf(docs, k)
<1>1. PICK m \in Nat: /\ n + m <= Len(docs) /\ Len(texts) = m
                      /\ \A i \in 1..m: texts[i] = docs[n + i]
  BY BatchMade DEF Batched
<1>2. vecs = Firsts(texts, m)
  <2>1. index \in [1..m -> 1..m]
    BY <1>1
  <2> QED BY <1>1, <2>1, EmbeddedIsOwn
<1> DEFINE more == [i \in 1..Len(texts) |-> [doc |-> texts[i], vec |-> vecs[i]]]
<1>3. more = [i \in 1..m |-> [doc |-> docs[n + i], vec |-> docs[n + i]]]
  <2>1. \A i \in 1..m: vecs[i] = docs[n + i] /\ texts[i] = docs[n + i]
    BY <1>1, <1>2 DEF Firsts
  <2>2. Len(texts) = m
    BY <1>1
  <2> QED BY <2>1, <2>2, Zenon
<1> DEFINE rows == OwnOf(docs, n)
<1>4. rows = [i \in 1..n |-> [doc |-> docs[i], vec |-> docs[i]]]
  BY DEF OwnOf
<1>5. WithRows(OwnOf(docs, n), texts, vecs) = rows \o more
  BY DEF WithRows
<1> HIDE DEF rows, more
<1>6. rows \o more = [i \in 1..(n + m) |-> [doc |-> docs[i], vec |-> docs[i]]]
  BY <1>3, <1>4, RowsGrow
<1>7. WithRows(OwnOf(docs, n), texts, vecs) = OwnOf(docs, n + m)
  BY <1>5, <1>6 DEF OwnOf
<1> DEFINE k == n + m
<1>8. k \in Nat /\ k <= Len(docs) /\ WithRows(OwnOf(docs, n), texts, vecs) = OwnOf(docs, k)
  BY <1>1, <1>7
<1> HIDE DEF k
<1> QED BY <1>8

-----------------------------------------------------------------------------
(* The invariant. *)

\* A client waits for the model with a page size it asked for.
ClientInv ==
  /\ client = [c \in Clients |-> client[c]]
  /\ \A c \in Clients: ClientOk(client[c])
  /\ \A c \in Clients: client[c].pc = "embedding" => 0 < deployed /\ client[c].limit \in Limits

\* The build has the first of the documents, what is published all of them.
VectorsInv ==
  /\ ready # NoRows => ready = OwnRows(Corpus, Len(Documents(Corpus)))
  /\ builder = [pc |-> builder.pc, rows |-> builder.rows]
  /\ builder.pc \in {"begun", "warming"} =>
       \E n \in Nat: n <= Len(Documents(Corpus)) /\ builder.rows = OwnRows(Corpus, n)

SearchInv ==
  /\ deployed \in Nat /\ deployed <= Len(Corpora)
  /\ ClientInv /\ VectorsInv

LEMMA CorpusKnown ==
  ASSUME deployed \in Nat, deployed <= Len(Corpora), 0 < deployed
  PROVE  Corpus \in Known
BY DEF Corpus, Known

\* A client whose reading is left alone, while it is not at the end.
LEMMA ReadingKept ==
  ASSUME NEW k, NEW t, ClientOk(k), ClientShape(t), t.q = k.q, t.cursor = k.cursor,
         t.read = k.read, t.orders = k.orders, k.pc # "done", t.pc # "done"
  PROVE  ClientOk(t)
<1>1. \A o: HasRead(t, o) = HasRead(k, o)
  BY DEF HasRead
<1>2. \A o: IsBoundTo(k, o) => IsBoundTo(t, o)
  BY DEF IsBoundTo
<1> QED BY <1>1, <1>2 DEF ClientOk

\* A client that takes a page of the corpus served.
LEMMA TakeStays ==
  ASSUME ClientInv, deployed \in Nat, deployed <= Len(Corpora), 0 < deployed,
         NEW c \in Clients, client[c].pc # "done", NEW limit \in Limits, NEW rows, NEW vec,
         Take(c, Answer(Corpus, client[c].q, limit, client[c].cursor, rows, vec), limit, vec, rows),
         UNCHANGED deployed
  PROVE  ClientInv'
<1> DEFINE k == client[c]
           page == Answer(Corpus, k.q, limit, k.cursor, rows, vec)
           order == OrderOf(Corpus, k.q, rows, vec)
           t == Taken(k, page, order)
<1>1. client' = [client EXCEPT ![c] = t]
  BY DEF Take, Taken
<1>2. ClientOk(t)
  BY CorpusKnown, TakenStaysOk DEF ClientInv
<1>3. t.pc # "embedding"
  <2>1. ClientShape(k)
    BY DEF ClientInv, ClientOk
  <2> HIDE DEF k, page, order
  <2>2. CASE page.ok
    BY <2>1, <2>2, TakenServed
  <2>3. CASE ~page.ok
    BY <2>1, <2>3, TakenRefused
  <2> QED BY <2>2, <2>3
<1> HIDE DEF t
<1>4. client' = [d \in Clients |-> IF d = c THEN t ELSE client[d]]
  BY <1>1 DEF ClientInv
<1>5. client' = [d \in Clients |-> client'[d]]
  BY <1>4
<1>6. \A d \in Clients: client'[d] = IF d = c THEN t ELSE client[d]
  BY <1>4
<1>7. \A d \in Clients: ClientOk(client'[d])
  BY <1>2, <1>6 DEF ClientInv
<1>8. \A d \in Clients: client'[d].pc = "embedding" => 0 < deployed /\ client'[d].limit \in Limits
  BY <1>3, <1>6 DEF ClientInv
<1> QED BY <1>5, <1>7, <1>8 DEF ClientInv

-----------------------------------------------------------------------------
(* One lemma per action. *)

LEMMA SearchInitInv == SemanticInit => SearchInv
<1> SUFFICES ASSUME SemanticInit PROVE SearchInv
  OBVIOUS
<1>1. PICK q: client = [c \in Clients |-> ClientOf(q[c])]
  BY DEF SemanticInit
<1>2. ASSUME NEW c \in Clients PROVE ClientOk(client[c]) /\ client[c].pc # "embedding"
  <2> DEFINE k == client[c]
  <2>1. k = [pc |-> "idle", q |-> q[c], limit |-> 0, snap |-> NoRows, cursor |-> NoCursor,
             read |-> <<>>, orders |-> {}]
    BY <1>1 DEF ClientOf
  <2> HIDE DEF k
  <2>2. /\ ClientShape(k) /\ k.pc = "idle" /\ k.cursor = NoCursor /\ k.read = <<>> /\ k.orders = {}
    BY <2>1 DEF ClientShape
  <2>3. NoCursor.offset \in Nat
    BY DEF NoCursor
  <2>4. IsFiniteSet({})
    BY FS_EmptySet
  <2>5. ClientOk(k)
    BY <2>2, <2>3, <2>4 DEF ClientOk
  <2> QED BY <2>2, <2>5 DEF k
<1>3. client = [c \in Clients |-> client[c]]
  BY <1>1
<1>4. deployed = 0 /\ ready = NoRows /\ builder = NoBuild
  BY DEF SemanticInit
<1>5. ClientInv
  BY <1>2, <1>3 DEF ClientInv
<1>6. VectorsInv
  BY <1>4 DEF VectorsInv, NoBuild
<1>7. Len(Corpora) \in Nat
  OBVIOUS
<1> QED BY <1>4, <1>5, <1>6, <1>7 DEF SearchInv

LEMMA DeployInv == SearchInv /\ Deploy => SearchInv'
<1> SUFFICES ASSUME SearchInv, Deploy PROVE SearchInv'
  OBVIOUS
<1>1. deployed' \in Nat /\ deployed' <= Len(Corpora) /\ 0 < deployed'
  <2>1. deployed \in Nat /\ Len(Corpora) \in Nat /\ deployed < Len(Corpora) /\ deployed' = deployed + 1
    BY DEF SearchInv, Deploy
  <2> QED BY <2>1
<1>2. ClientInv'
  <2>1. client' = [c \in Clients |-> IF client[c].pc = "embedding"
                                     THEN [client[c] EXCEPT !.pc = "lost"] ELSE client[c]]
    BY DEF Deploy
  <2>2. client' = [c \in Clients |-> client'[c]]
    BY <2>1
  <2>3. ASSUME NEW c \in Clients PROVE ClientOk(client'[c]) /\ client'[c].pc # "embedding"
    <3> DEFINE k == client[c]
               t == [k EXCEPT !.pc = "lost"]
    <3>1. client'[c] = IF k.pc = "embedding" THEN t ELSE k
      BY <2>1
    <3>2. ClientOk(k)
      BY DEF SearchInv, ClientInv
    <3>3. ClientShape(k)
      BY <3>2 DEF ClientOk
    <3> HIDE DEF k
    <3>4. t = [pc |-> "lost", q |-> k.q, limit |-> k.limit, snap |-> k.snap, cursor |-> k.cursor,
               read |-> k.read, orders |-> k.orders]
      BY <3>3 DEF ClientShape
    <3> HIDE DEF t
    <3>5. ClientShape(t) /\ t.pc = "lost" /\ t.q = k.q /\ t.cursor = k.cursor /\ t.read = k.read
          /\ t.orders = k.orders
      BY <3>4 DEF ClientShape
    <3>6. k.pc = "embedding" => ClientOk(t)
      BY <3>2, <3>5, ReadingKept
    <3> QED BY <3>1, <3>2, <3>5, <3>6
  <2> QED BY <2>2, <2>3 DEF ClientInv
<1>3. VectorsInv'
  <2>1. ready' = NoRows
    BY DEF Deploy
  <2>2. (builder' = NoBuild) \/ (builder' = [NoBuild EXCEPT !.pc = "begun"])
    BY DEF Deploy
  <2>3. builder' = [pc |-> builder'.pc, rows |-> builder'.rows] /\ builder'.rows = <<>>
    BY <2>2 DEF NoBuild
  <2>4. PICK corpus: corpus = Corpus'
    OBVIOUS
  <2>5. OwnRows(corpus, 0) = <<>> /\ 0 <= Len(Documents(corpus)) /\ 0 \in Nat
    BY NoneOwn, DocumentsCount
  <2>6. \E n \in Nat: n <= Len(Documents(corpus)) /\ builder'.rows = OwnRows(corpus, n)
    BY <2>3, <2>5
  <2> QED BY <2>1, <2>3, <2>4, <2>6 DEF VectorsInv
<1> QED BY <1>1, <1>2, <1>3 DEF SearchInv

\* The corpus stays, and so do the clients: what the steps of the build share.
LEMMA BuildStep ==
  ASSUME SearchInv, UNCHANGED <<deployed, client>>, VectorsInv'
  PROVE  SearchInv'
BY DEF SearchInv, ClientInv

LEMMA BeginWarmInv == SearchInv /\ BeginWarm => SearchInv'
<1> SUFFICES ASSUME SearchInv, BeginWarm PROVE SearchInv'
  OBVIOUS
<1>1. UNCHANGED <<deployed, client, ready>> /\ builder.pc = "begun"
      /\ builder' = [builder EXCEPT !.pc = "warming"]
  BY DEF BeginWarm
<1>2. builder = [pc |-> builder.pc, rows |-> builder.rows]
  BY DEF SearchInv, VectorsInv
<1>3. builder' = [pc |-> "warming", rows |-> builder.rows]
  BY <1>1, <1>2
<1>4. builder' = [pc |-> builder'.pc, rows |-> builder'.rows] /\ builder'.rows = builder.rows
  BY <1>3
<1>5. Corpus' = Corpus
  BY <1>1 DEF Corpus
<1>6. VectorsInv'
  BY <1>1, <1>4, <1>5 DEF SearchInv, VectorsInv
<1> QED BY <1>1, <1>6, BuildStep

LEMMA WarmFailsInv == SearchInv /\ WarmFails => SearchInv'
<1> SUFFICES ASSUME SearchInv, WarmFails PROVE SearchInv'
  OBVIOUS
<1>1. UNCHANGED <<deployed, client, ready>> /\ builder' = NoBuild
  BY DEF WarmFails
<1>2. Corpus' = Corpus
  BY <1>1 DEF Corpus
<1>3. VectorsInv'
  BY <1>1, <1>2 DEF SearchInv, VectorsInv, NoBuild
<1> QED BY <1>1, <1>3, BuildStep

LEMMA WarmBatchInv == SearchInv /\ WarmBatch => SearchInv'
<1> SUFFICES ASSUME SearchInv, WarmBatch PROVE SearchInv'
  OBVIOUS
<1> DEFINE docs == Documents(Corpus)
           texts == Batched(docs, Len(builder.rows))
<1>1. UNCHANGED <<deployed, client, ready>> /\ builder.pc = "warming"
  BY DEF WarmBatch
<1>2. PICK index \in [1..Len(texts) -> 1..Len(texts)]:
        LET vecs == VectorsOf(texts, index)
        IN IF vecs = <<>> THEN builder' = NoBuild
           ELSE builder' = [builder EXCEPT !.rows = WithRows(builder.rows, texts, vecs)]
  BY DEF WarmBatch, Batched, VectorsOf, WithRows
<1>3. Corpus' = Corpus
  BY <1>1 DEF Corpus
<1>4. PICK n \in Nat: n <= Len(docs) /\ builder.rows = OwnOf(docs, n)
  BY <1>1 DEF SearchInv, VectorsInv, OwnRows
<1>5. Len(builder.rows) = n
  BY <1>4, OwnLength DEF OwnRows
<1>6. builder = [pc |-> builder.pc, rows |-> builder.rows]
  BY DEF SearchInv, VectorsInv
<1> DEFINE vecs == VectorsOf(texts, index)
<1>7. CASE vecs = <<>>
  <2>1. builder' = NoBuild
    BY <1>2, <1>7
  <2>2. VectorsInv'
    BY <2>1, <1>1, <1>3 DEF SearchInv, VectorsInv, NoBuild
  <2> QED BY <1>1, <2>2, BuildStep
<1>8. CASE vecs # <<>>
  <2> DEFINE rows == WithRows(builder.rows, texts, vecs)
  <2>1. builder' = [builder EXCEPT !.rows = rows]
    BY <1>2, <1>8
  <2>2. Len(docs) \in Nat
    BY DocumentsCount
  <2>3. \E k \in Nat: k <= Len(docs) /\ WithRows(OwnOf(docs, n), texts, vecs) = OwnOf(docs, k)
    <3> HIDE DEF docs
    <3>1. texts = Batched(docs, n)
      BY <1>5
    <3> HIDE DEF texts, vecs
    <3>2. vecs = VectorsOf(texts, index)
      BY DEF vecs
    <3> QED BY <1>4, <1>8, <2>2, <3>1, <3>2, BatchExtends
  <2>4. PICK k \in Nat: k <= Len(docs) /\ rows = OwnOf(docs, k)
    BY <1>4, <2>3
  <2> HIDE DEF rows
  <2>5. builder' = [pc |-> "warming", rows |-> rows]
    BY <1>1, <1>6, <2>1
  <2>6. builder' = [pc |-> builder'.pc, rows |-> builder'.rows] /\ builder'.rows = rows
    BY <2>5
  <2>7. \E x \in Nat: x <= Len(Documents(Corpus)) /\ builder'.rows = OwnRows(Corpus, x)
    BY <2>4, <2>6 DEF OwnRows
  <2>8. VectorsInv'
    BY <1>1, <1>3, <2>6, <2>7 DEF SearchInv, VectorsInv
  <2> QED BY <1>1, <2>8, BuildStep
<1> QED BY <1>7, <1>8

LEMMA PublishInv == SearchInv /\ Publish => SearchInv'
<1> SUFFICES ASSUME SearchInv, Publish PROVE SearchInv'
  OBVIOUS
<1>1. UNCHANGED <<deployed, client>> /\ builder' = NoBuild /\ ready' = builder.rows
      /\ builder.pc = "warming" /\ Len(builder.rows) = Len(Documents(Corpus))
  BY DEF Publish
<1>2. Corpus' = Corpus
  BY <1>1 DEF Corpus
<1>3. PICK n \in Nat: builder.rows = OwnRows(Corpus, n)
  BY <1>1 DEF SearchInv, VectorsInv
<1>4. n = Len(Documents(Corpus))
  BY <1>1, <1>3, OwnLength
<1>5. VectorsInv'
  BY <1>1, <1>2, <1>3, <1>4 DEF VectorsInv, NoBuild
<1> QED BY <1>1, <1>5, BuildStep

\* Every row an artifact carries has the vector of its own document.
RowsTrue(rows) ==
  /\ Len(rows) \in Nat
  /\ rows = [i \in 1..Len(rows) |-> [doc |-> rows[i].doc, vec |-> rows[i].doc]]
Shortened(rows) == SubSeq(rows, 2, Len(rows))
ArtifactShape(a) == a = [model |-> a.model, corpus |-> a.corpus, clean |-> a.clean, rows |-> a.rows]

LEMMA WrittenRows ==
  ASSUME NEW corpus
  PROVE  ArtifactShape(Artifact(corpus)) /\ RowsTrue(Artifact(corpus).rows)
<1> DEFINE docs == Documents(corpus)
           rows == [i \in 1..Len(docs) |-> [doc |-> docs[i], vec |-> docs[i]]]
<1>1. Artifact(corpus) = [model |-> "pinned", corpus |-> corpus.revision, clean |-> TRUE, rows |-> rows]
  BY DEF Artifact
<1>2. Len(docs) \in Nat
  BY DocumentsCount
<1>3. RowsTrue(rows)
  <2> HIDE DEF docs
  <2>1. Len(rows) = Len(docs)
    BY <1>2
  <2>2. \A i \in 1..Len(docs): rows[i] = [doc |-> rows[i].doc, vec |-> rows[i].doc]
    OBVIOUS
  <2>3. rows = [i \in 1..Len(docs) |-> rows[i]]
    OBVIOUS
  <2> HIDE DEF rows
  <2>4. rows = [i \in 1..Len(docs) |-> [doc |-> rows[i].doc, vec |-> rows[i].doc]]
    BY <2>2, <2>3
  <2> QED BY <1>2, <2>1, <2>4 DEF RowsTrue
<1> HIDE DEF rows
<1> QED BY <1>1, <1>3 DEF ArtifactShape

LEMMA ShortenedRows ==
  ASSUME NEW rows, RowsTrue(rows)
  PROVE  RowsTrue(Shortened(rows))
<1> DEFINE n == Len(rows)
           s == Shortened(rows)
           m == IF n = 0 THEN 0 ELSE n - 1
<1>1. n \in Nat /\ m \in Nat
  BY DEF RowsTrue
<1>2. s = SubSeq(rows, 2, n)
  BY DEF Shortened
<1>3. Len(s) = m
  BY <1>1, <1>2
<1>4. \A i \in 1..m: s[i] = rows[i + 1] /\ i + 1 \in 1..n
  BY <1>1, <1>2
<1>5. s = [i \in 1..m |-> s[i]]
  BY <1>1, <1>2
<1>6. \A i \in 1..n: rows[i] = [doc |-> rows[i].doc, vec |-> rows[i].doc]
  BY DEF RowsTrue
<1> HIDE DEF s, m, n
<1>7. \A i \in 1..m: s[i] = [doc |-> s[i].doc, vec |-> s[i].doc]
  BY <1>4, <1>6
<1>8. s = [i \in 1..m |-> [doc |-> s[i].doc, vec |-> s[i].doc]]
  BY <1>5, <1>7
<1>9. RowsTrue(s)
  BY <1>1, <1>3, <1>8 DEF RowsTrue
<1> QED BY <1>9 DEF s

LEMMA ArtifactRows ==
  ASSUME NEW a \in Artifacts
  PROVE  RowsTrue(a.rows)
<1> DEFINE written == {Artifact(Corpora[i]): i \in 1..Len(Corpora)}
<1>1. ASSUME NEW w \in written PROVE ArtifactShape(w) /\ RowsTrue(w.rows)
  BY WrittenRows
<1>2. PICK w \in written: \/ a = w
                          \/ a = [w EXCEPT !.model = "other"]
                          \/ a = [w EXCEPT !.rows = SubSeq(w.rows, 2, Len(w.rows))]
                          \/ a = [w EXCEPT !.clean = FALSE]
  BY DEF Artifacts
<1> HIDE DEF written
<1>3. ArtifactShape(w) /\ RowsTrue(w.rows)
  BY <1>1
<1>4. a.rows = w.rows \/ a.rows = Shortened(w.rows)
  BY <1>2, <1>3 DEF ArtifactShape, Shortened
<1> QED BY <1>3, <1>4, ShortenedRows

LEMMA LoadSnapshotInv == SearchInv /\ LoadSnapshot => SearchInv'
<1> SUFFICES ASSUME SearchInv, LoadSnapshot PROVE SearchInv'
  OBVIOUS
<1> DEFINE docs == Documents(Corpus)
<1>1. UNCHANGED <<deployed, client>> /\ builder' = NoBuild
  BY DEF LoadSnapshot
<1>2. PICK a \in Artifacts:
        \/ ready' = ready
        \/ /\ ready' = a.rows /\ Len(a.rows) = Len(docs)
           /\ \A i \in 1..Len(a.rows): a.rows[i].doc = docs[i]
  BY DEF LoadSnapshot
<1>3. Corpus' = Corpus
  BY <1>1 DEF Corpus
<1>4. ASSUME ready' = a.rows, Len(a.rows) = Len(docs),
             \A i \in 1..Len(a.rows): a.rows[i].doc = docs[i]
      PROVE  ready' = OwnRows(Corpus, Len(docs))
  <2> DEFINE rows == a.rows
             n == Len(docs)
  <2>1. rows = [i \in 1..Len(rows) |-> [doc |-> rows[i].doc, vec |-> rows[i].doc]]
    BY ArtifactRows DEF RowsTrue
  <2>2. Len(rows) = n /\ (\A i \in 1..n: rows[i].doc = docs[i]) /\ ready' = rows
    BY <1>4
  <2> HIDE DEF rows, n, docs
  <2>3. rows = [i \in 1..n |-> [doc |-> rows[i].doc, vec |-> rows[i].doc]]
    BY <2>1, <2>2
  <2>4. rows = [i \in 1..n |-> [doc |-> docs[i], vec |-> docs[i]]]
    BY <2>2, <2>3
  <2>5. rows = OwnOf(docs, n)
    BY <2>4 DEF OwnOf
  <2> QED BY <2>2, <2>5 DEF OwnRows, docs, n
<1>5. ready' # NoRows => ready' = OwnRows(Corpus, Len(docs))
  BY <1>2, <1>4 DEF SearchInv, VectorsInv
<1>6. VectorsInv'
  BY <1>1, <1>3, <1>5 DEF VectorsInv, NoBuild
<1> QED BY <1>1, <1>6, BuildStep

\* Neither the clients nor the vectors move.
LEMMA IdleStep ==
  ASSUME SearchInv, UNCHANGED <<deployed, client, ready, builder>>
  PROVE  SearchInv'
<1>1. Corpus' = Corpus
  BY DEF Corpus
<1>2. VectorsInv'
  BY <1>1 DEF SearchInv, VectorsInv
<1> QED BY <1>2, BuildStep

\* The vectors stay, as in every step of a client.
LEMMA ClientStep ==
  ASSUME SearchInv, UNCHANGED <<deployed, ready, builder>>, ClientInv'
  PROVE  SearchInv'
<1>1. Corpus' = Corpus
  BY DEF Corpus
<1>2. VectorsInv'
  BY <1>1 DEF SearchInv, VectorsInv
<1> QED BY <1>2 DEF SearchInv

LEMMA RepeatInv == ASSUME SearchInv, NEW c \in Clients, Repeat(c) PROVE SearchInv'
<1> DEFINE k == client[c]
           t == [k EXCEPT !.pc = "idle"]
<1>1. UNCHANGED <<deployed, ready, builder>> /\ k.pc = "lost" /\ client' = [client EXCEPT ![c] = t]
  BY DEF Repeat
<1>2. ClientOk(k) /\ ClientShape(k)
  BY DEF SearchInv, ClientInv, ClientOk
<1>3. client = [d \in Clients |-> client[d]]
  BY DEF SearchInv, ClientInv
<1>4. ClientOk(t) /\ t.pc = "idle"
  <2> HIDE DEF k
  <2>1. t = [pc |-> "idle", q |-> k.q, limit |-> k.limit, snap |-> k.snap, cursor |-> k.cursor,
             read |-> k.read, orders |-> k.orders]
    BY <1>2 DEF ClientShape
  <2> HIDE DEF t
  <2>2. ClientShape(t) /\ t.pc = "idle" /\ t.q = k.q /\ t.cursor = k.cursor /\ t.read = k.read
        /\ t.orders = k.orders
    BY <2>1 DEF ClientShape
  <2> QED BY <1>1, <1>2, <2>2, ReadingKept
<1> HIDE DEF t
<1>5. client' = [d \in Clients |-> IF d = c THEN t ELSE client[d]]
  BY <1>1, <1>3
<1>6. ClientInv'
  <2>1. client' = [d \in Clients |-> client'[d]] /\ \A d \in Clients: client'[d] = IF d = c THEN t ELSE client[d]
    BY <1>5
  <2> QED BY <1>1, <1>4, <2>1 DEF SearchInv, ClientInv
<1> QED BY <1>1, <1>6, ClientStep

\* The client that waits for the model, as Ask has it.
Waiting(k, limit, snap) == [k EXCEPT !.pc = "embedding", !.limit = limit, !.snap = snap]

LEMMA WaitingKeeps ==
  ASSUME NEW k, NEW limit, NEW snap, ClientShape(k)
  PROVE  LET t == Waiting(k, limit, snap) IN
         /\ ClientShape(t) /\ t.pc = "embedding" /\ t.q = k.q /\ t.cursor = k.cursor
         /\ t.read = k.read /\ t.orders = k.orders /\ t.limit = limit
<1> DEFINE t == Waiting(k, limit, snap)
<1>1. t = [pc |-> "embedding", q |-> k.q, limit |-> limit, snap |-> snap, cursor |-> k.cursor,
           read |-> k.read, orders |-> k.orders]
  <2> DEFINE k1 == [k EXCEPT !.pc = "embedding"]
             k2 == [k1 EXCEPT !.limit = limit]
  <2>1. t = [k2 EXCEPT !.snap = snap]
    BY DEF Waiting
  <2>2. k1 = [pc |-> "embedding", q |-> k.q, limit |-> k.limit, snap |-> k.snap, cursor |-> k.cursor,
              read |-> k.read, orders |-> k.orders]
    BY DEF ClientShape
  <2> HIDE DEF k1
  <2>3. k2 = [pc |-> "embedding", q |-> k.q, limit |-> limit, snap |-> k.snap, cursor |-> k.cursor,
              read |-> k.read, orders |-> k.orders]
    BY <2>2
  <2> HIDE DEF k2
  <2> QED BY <2>1, <2>3
<1> HIDE DEF t
<1>2. /\ ClientShape(t) /\ t.pc = "embedding" /\ t.q = k.q /\ t.cursor = k.cursor
      /\ t.read = k.read /\ t.orders = k.orders /\ t.limit = limit
  BY <1>1 DEF ClientShape
<1> QED BY <1>2 DEF t

LEMMA AskInv == ASSUME SearchInv, NEW c \in Clients, NEW limit \in Limits, Ask(c, limit) PROVE SearchInv'
<1> DEFINE k == client[c]
           t == [k EXCEPT !.pc = "embedding", !.limit = limit, !.snap = ready]
<1>1. UNCHANGED <<deployed, ready, builder>> /\ k.pc = "idle" /\ deployed > 0
  BY DEF Ask
<1>2. \/ \E vec: Take(c, Answer(Corpus, k.q, limit, k.cursor, ready, vec), limit, vec, ready)
      \/ client' = [client EXCEPT ![c] = t]
  BY DEF Ask
<1>3. /\ deployed \in Nat /\ deployed <= Len(Corpora) /\ 0 < deployed /\ ClientInv
      /\ ClientOk(k) /\ ClientShape(k)
  BY <1>1 DEF SearchInv, ClientInv, ClientOk
<1>4. ASSUME NEW vec, Take(c, Answer(Corpus, k.q, limit, k.cursor, ready, vec), limit, vec, ready)
      PROVE  ClientInv'
  BY <1>1, <1>3, <1>4, TakeStays
<1>5. ASSUME client' = [client EXCEPT ![c] = t] PROVE ClientInv'
  <2>1. ClientOk(t) /\ t.limit = limit
    <3> HIDE DEF k
    <3>1. t = Waiting(k, limit, ready)
      BY DEF Waiting
    <3> HIDE DEF t
    <3>2. /\ ClientShape(t) /\ t.pc = "embedding" /\ t.q = k.q /\ t.cursor = k.cursor
          /\ t.read = k.read /\ t.orders = k.orders /\ t.limit = limit
      BY <1>3, <3>1, WaitingKeeps
    <3> QED BY <1>1, <1>3, <3>2, ReadingKept
  <2> HIDE DEF t
  <2>2. client' = [d \in Clients |-> IF d = c THEN t ELSE client[d]]
    BY <1>3, <1>5 DEF ClientInv
  <2>3. client' = [d \in Clients |-> client'[d]] /\ \A d \in Clients: client'[d] = IF d = c THEN t ELSE client[d]
    BY <2>2
  <2> QED BY <1>1, <1>3, <2>1, <2>3 DEF ClientInv
<1>6. ClientInv'
  BY <1>2, <1>4, <1>5
<1> QED BY <1>1, <1>6, ClientStep

LEMMA EmbedInv == ASSUME SearchInv, NEW c \in Clients, Embed(c) PROVE SearchInv'
<1> DEFINE k == client[c]
<1>1. UNCHANGED <<deployed, ready, builder>> /\ k.pc = "embedding"
  BY DEF Embed
<1>2. PICK vec: Take(c, Answer(Corpus, k.q, k.limit, k.cursor, k.snap, vec), k.limit, vec, k.snap)
  BY DEF Embed
<1>3. deployed \in Nat /\ deployed <= Len(Corpora) /\ 0 < deployed /\ ClientInv /\ k.limit \in Limits
  BY <1>1 DEF SearchInv, ClientInv
<1>4. ClientInv'
  BY <1>1, <1>2, <1>3, TakeStays
<1> QED BY <1>1, <1>4, ClientStep

LEMMA SearchStep == SearchInv /\ [SemanticNext]_semanticVars => SearchInv'
<1> SUFFICES ASSUME SearchInv, [SemanticNext]_semanticVars PROVE SearchInv'
  OBVIOUS
<1>1. CASE Deploy
  BY <1>1, DeployInv
<1>2. CASE BeginWarm
  BY <1>2, BeginWarmInv
<1>3. CASE WarmBatch
  BY <1>3, WarmBatchInv
<1>4. CASE WarmFails
  BY <1>4, WarmFailsInv
<1>5. CASE Publish
  BY <1>5, PublishInv
<1>6. CASE LoadSnapshot
  BY <1>6, LoadSnapshotInv
<1>7. CASE ChildDies
  <2>1. UNCHANGED <<deployed, client, ready, builder>>
    BY <1>7 DEF ChildDies
  <2> QED BY <2>1, IdleStep
<1>8. CASE CacheExpires
  <2>1. UNCHANGED <<deployed, client, ready, builder>>
    BY <1>8 DEF CacheExpires
  <2> QED BY <2>1, IdleStep
<1>9. ASSUME NEW c \in Clients, Embed(c) PROVE SearchInv'
  BY <1>9, EmbedInv
<1>10. ASSUME NEW c \in Clients, Repeat(c) PROVE SearchInv'
  BY <1>10, RepeatInv
<1>11. ASSUME NEW c \in Clients, NEW limit \in Limits, Ask(c, limit) PROVE SearchInv'
  BY <1>11, AskInv
<1>12. CASE UNCHANGED semanticVars
  <2>1. UNCHANGED <<deployed, client, ready, builder>>
    BY <1>12 DEF semanticVars
  <2> QED BY <2>1, IdleStep
<1> QED BY <1>1, <1>2, <1>3, <1>4, <1>5, <1>6, <1>7, <1>8, <1>9, <1>10, <1>11, <1>12 DEF SemanticNext

LEMMA SnapshotsWhole == ASSUME SearchInv PROVE SnapshotsAreWhole
<1> SUFFICES ASSUME ready # NoRows
             PROVE  /\ Len(ready) = Len(Documents(Corpus))
                    /\ \A i \in 1..Len(ready):
                         ready[i] = [doc |-> Documents(Corpus)[i], vec |-> Documents(Corpus)[i]]
  BY DEF SnapshotsAreWhole
<1> DEFINE docs == Documents(Corpus)
<1>1. ready = OwnRows(Corpus, Len(docs))
  BY DEF SearchInv, VectorsInv
<1>2. Len(docs) \in Nat
  BY DocumentsCount
<1>3. Len(ready) = Len(docs)
  BY <1>1, <1>2, OwnLength
<1>4. \A i \in 1..Len(docs): ready[i] = [doc |-> docs[i], vec |-> docs[i]]
  <2>1. ready = OwnOf(docs, Len(docs))
    BY <1>1 DEF OwnRows
  <2> HIDE DEF docs
  <2> QED BY <2>1 DEF OwnOf
<1> QED BY <1>3, <1>4

LEMMA OneRanking == ASSUME SearchInv PROVE PagesAreOfOneRanking
<1>1. ASSUME NEW c \in Clients,
             client[c].q.over = "entries" \/ Cardinality(client[c].orders) = 1
      PROVE  \/ client[c].read = <<>>
             \/ \E order \in client[c].orders:
                  /\ IsPrefix(client[c].read, order)
                  /\ client[c].pc = "done" => client[c].read = order
  <2> DEFINE k == client[c]
  <2>1. ClientOk(k)
    BY DEF SearchInv, ClientInv
  <2> HIDE DEF k
  <2>2. CASE k.orders = {}
    BY <2>1, <2>2 DEF ClientOk, k
  <2>3. CASE k.orders # {}
    <3>1. \E o: k.orders = {o}
      <4>1. CASE k.q.over = "entries"
        BY <2>1, <2>3, <4>1 DEF ClientOk
      <4>2. CASE Cardinality(k.orders) = 1
        <5>1. IsFiniteSet(k.orders)
          BY <2>1 DEF ClientOk
        <5> QED BY <4>2, <5>1, FS_Singleton
      <4> QED BY <1>1, <4>1, <4>2 DEF k
    <3>2. PICK o: k.orders = {o}
      BY <3>1
    <3>3. HasRead(k, o) /\ IsOrder(o) /\ k.cursor.offset \in Nat
      BY <2>1, <3>2 DEF ClientOk
    <3>4. IsPrefix(k.read, o) /\ (k.pc = "done" => k.read = o)
      <4>1. CASE k.pc = "done"
        <5>1. k.read = o
          BY <3>3, <4>1 DEF HasRead
        <5>2. Len(o) \in Nat /\ Start(o, Len(o)) = o
          <6>1. Len(o) \in Nat
            BY <3>3 DEF IsOrder
          <6> QED BY <3>3, <6>1, PageContinues
        <5>3. IsPrefix(o, o)
          BY <3>3, <5>2, PrefixOfOrder
        <5> QED BY <5>1, <5>3
      <4>2. CASE k.pc # "done"
        BY <3>3, <4>2, PrefixOfOrder DEF HasRead
      <4> QED BY <4>1, <4>2
    <3> QED BY <3>2, <3>4 DEF k
  <2> QED BY <2>2, <2>3
<1>2. SnapshotsAreWhole
  BY SnapshotsWhole
<1> QED BY <1>1, <1>2 DEF PagesAreOfOneRanking

-----------------------------------------------------------------------------

\* Whatever was busy, computed anew, dead or redeployed between the pages of a
\* search, the entries a client has read are the beginning of one ranking and
\* in the end the whole of it, and what is published are the vectors of every
\* document of the corpus served (Search, SearchRanked, Warm, LoadSnapshot).
THEOREM PagesStayOfOneRanking == SemanticSpec => []PagesAreOfOneRanking
<1>1. SemanticSpec => []SearchInv
  BY SearchInitInv, SearchStep, PTL DEF SemanticSpec
<1>2. SearchInv => PagesAreOfOneRanking
  BY OneRanking
<1> QED BY <1>1, <1>2, PTL

-----------------------------------------------------------------------------
(* The embedding process. *)

Children == {"none", "running", "stopping", "dead", "reaped"}

\* Before a child there is a staged session, after one it is reaped before
\* the session goes; only a runtime that was handed out is closed.
RuntimeOk ==
  /\ child \in Children
  /\ starter \in {"begun", "staging", "staged", "chosen"} => child = "none" /\ ~bound
  /\ starter \in {"staged", "chosen"} => session = "pinned"
  /\ starter \in {"begun", "failed"} => session = "absent"
  /\ starter \in {"asking", "challenging", "accepted", "up"} => bound
  /\ starter \in {"removing", "failed"} => child \in {"none", "reaped"}
  /\ closing \in {"no", "stopping", "removing", "closed"}
  /\ closing # "no" \/ supervisor # "none" => starter = "up"
  /\ closing \in {"removing", "closed"} => child = "reaped"
  /\ child \in {"running", "stopping", "dead"} => session = "pinned"

LEMMA RuntimeStarts ==
  ASSUME RuntimeOk, Starting
  PROVE  RuntimeOk'
<1>1. CASE ReadDigest
  BY <1>1 DEF RuntimeOk, ReadDigest
<1>2. CASE Stage
  BY <1>2 DEF RuntimeOk, Stage, Fail
<1>3. CASE ChoosePort
  BY <1>3 DEF RuntimeOk, ChoosePort, Fail
<1>4. CASE StartChild
  BY <1>4 DEF RuntimeOk, StartChild, Fail, Children
<1>5. CASE AwaitBind
  BY <1>5 DEF RuntimeOk, AwaitBind, Fail
<1>6. CASE AskWithKey
  BY <1>6 DEF RuntimeOk, AskWithKey, Fail
<1>7. CASE AskWithoutKey
  BY <1>7 DEF RuntimeOk, AskWithoutKey
<1>8. CASE HandOut
  BY <1>8 DEF RuntimeOk, HandOut
<1>9. CASE StartStops \/ StartRemoves
  BY <1>9 DEF RuntimeOk, StartStops, StartRemoves
<1> QED BY <1>1, <1>2, <1>3, <1>4, <1>5, <1>6, <1>7, <1>8, <1>9 DEF Starting

LEMMA RuntimeCloses ==
  ASSUME RuntimeOk, Stopping \/ Close \/ Supervise
  PROVE  RuntimeOk'
<1>1. CASE Terminate \/ Kill \/ Reap
  BY <1>1 DEF RuntimeOk, Terminate, Kill, Reap, Children
<1>2. CASE CloseStopped \/ CloseRemoves
  BY <1>2 DEF RuntimeOk, CloseStopped, CloseRemoves
<1>3. CASE Close
  BY <1>3 DEF RuntimeOk, Close
<1>4. CASE Supervise
  BY <1>4 DEF RuntimeOk, Supervise
<1> QED BY <1>1, <1>2, <1>3, <1>4 DEF Stopping

LEMMA RuntimeSurroundings ==
  ASSUME RuntimeOk, Bind \/ Die \/ TakePort \/ ReleasePort \/ Reinstall \/ EndContext \/ UNCHANGED runtimeVars
  PROVE  RuntimeOk'
<1>1. CASE Bind
  BY <1>1 DEF RuntimeOk, Bind, Children
<1>2. CASE Die
  BY <1>2 DEF RuntimeOk, Die, Children
<1>3. CASE TakePort \/ ReleasePort \/ Reinstall \/ EndContext \/ UNCHANGED runtimeVars
  BY <1>3 DEF RuntimeOk, TakePort, ReleasePort, Reinstall, EndContext, runtimeVars
<1> QED BY <1>1, <1>2, <1>3

LEMMA RuntimeOkSays ==
  ASSUME RuntimeOk
  PROVE  EndsClean /\ (Running => session = "pinned") /\ (starter = "up" => bound)
BY DEF RuntimeOk, EndsClean, Ended, Running, Children

\* However Start, Close, the supervisor and the child's own end meet, after a
\* failed Start and after Close nothing runs, and what runs is what was
\* hashed (Start, Close, stop, stageEmbeddingFile, waitEmbeddingReady).
THEOREM RuntimesStayClean == RuntimeSpec => RuntimesAreClean
<1>1. RuntimeInit => RuntimeOk
  BY DEF RuntimeInit, RuntimeOk, Children
<1>2. RuntimeOk /\ [RuntimeNext]_runtimeVars => RuntimeOk'
  BY RuntimeStarts, RuntimeCloses, RuntimeSurroundings DEF RuntimeNext
<1>3. RuntimeOk' => EndsClean' /\ (Running' => session' = "pinned") /\ (starter' = "up" => bound')
  BY RuntimeOkSays DEF RuntimeOk, EndsClean, Ended, Running, Children
<1> QED BY <1>1, <1>2, <1>3, PTL DEF RuntimeSpec, RuntimesAreClean
=============================================================================
