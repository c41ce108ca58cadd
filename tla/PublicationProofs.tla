-------------------------- MODULE PublicationProofs --------------------------
(***************************************************************************)
(* Proofs about Publication for every number of attempts, keys, versions,  *)
(* digests, publishers and cleaners and for every value of the bounds.     *)
(***************************************************************************)
EXTENDS Publication, FiniteSetTheorems, TLAPS

(* What a Publish call between two transactions knows: its attempt was     *)
(* created for its own version and bytes, and once the PUT returned, the   *)
(* object stays as long as the attempt stays staged.                       *)
CallsMatchAttempts ==
  \A p \in Publisher :
    pub[p].pc # "idle" =>
      /\ pub[p].key \in Key
      /\ pub[p].version \in Version
      /\ pub[p].digest \in Digest
      /\ pub[p].attempt \in Attempt
      /\ attempts[pub[p].attempt].state # "unused"
      /\ attempts[pub[p].attempt].version = pub[p].version
      /\ attempts[pub[p].attempt].digest = pub[p].digest
      /\ pub[p].pc = "commit" /\ attempts[pub[p].attempt].state = "staged" =>
           pub[p].attempt \in objects

(* The identity a running call works for is the one its key is bound to.   *)
CallsMatchLedger ==
  \A p \in Publisher :
    pub[p].pc # "idle" =>
      /\ ledger[pub[p].key].version = pub[p].version
      /\ ledger[pub[p].key].digest = pub[p].digest

(* Every drawn attempt carries a real identity.                            *)
AttemptsHaveIdentity ==
  \A a \in Attempt : attempts[a].state # "unused" =>
    attempts[a].version \in Version /\ attempts[a].digest \in Digest

(* A version without a row has neither digest nor key; a row has a digest. *)
RowsAreWhole ==
  \A v \in Version :
    /\ catalog[v].state = "absent" <=> catalog[v].digest = None
    /\ catalog[v].state = "absent" => catalog[v].key = None

(* The first half of LedgerNamesAttempt.                                   *)
LedgerRowsMatch ==
  \A k \in Key : ledger[k].version # None =>
    /\ ledger[k].attempt \in Attempt
    /\ attempts[ledger[k].attempt].state # "unused"
    /\ attempts[ledger[k].attempt].version = ledger[k].version
    /\ attempts[ledger[k].attempt].digest = ledger[k].digest

(* The object and the bytes of every owned row.                            *)
RowsHaveObjects ==
  \A v \in Version : catalog[v].key # None =>
    /\ catalog[v].key \in objects
    /\ attempts[catalog[v].key].digest = catalog[v].digest

ClaimsDoomed ==
  \A c \in Cleaner : \A m \in clean[c] :
    attempts[m.attempt].state \in {"deleting", "retired"}

LateDeletesDoomed ==
  \A a \in dels : attempts[a].state \in {"deleting", "retired"}

IInv ==
  /\ TypeOK
  /\ AttemptsHaveIdentity
  /\ RowsAreWhole
  /\ LedgerRowsMatch
  /\ CallsMatchAttempts
  /\ CallsMatchLedger
  /\ CommittedAttemptsAreRows
  /\ RowsHaveObjects
  /\ ClaimsDoomed
  /\ LateDeletesDoomed

-----------------------------------------------------------------------------
(* Type correctness.                                                       *)

LEMMA TypeInit == Init => TypeOK
  BY DEF Init, TypeOK, CatalogRow, AttemptRow, LedgerRow, Call, ClaimRec,
         OutboxEvent, AttemptState, Idle, NoReply

LEMMA RespondType ==
  ASSUME TypeOK, NEW p \in Publisher, NEW v \in Version, NEW d \in Digest,
         NEW o \in {"created", "existing", "conflict", "refused"},
         Respond(p, o, v, d)
  PROVE  /\ pub' \in [Publisher -> Call]
         /\ reply' \in [outcome : {"none", "created", "existing", "conflict", "refused"},
                        version : Version \union {None},
                        digest : Digest \union {None}]
  BY DEF TypeOK, Respond, Idle, Call

LEMMA ContinueType ==
  ASSUME TypeOK, NEW p \in Publisher, NEW k \in Key, NEW v \in Version,
         NEW d \in Digest, NEW a \in Attempt,
         NEW pc \in {"replay", "stage", "commit"},
         Continue(p, pc, k, v, d, a)
  PROVE  /\ pub' \in [Publisher -> Call]
         /\ reply' \in [outcome : {"none", "created", "existing", "conflict", "refused"},
                        version : Version \union {None},
                        digest : Digest \union {None}]
  BY DEF TypeOK, Continue, NoReply, Call

LEMMA NewAttemptType ==
  ASSUME TypeOK, NEW a \in Attempt, NEW v \in Version, NEW d \in Digest,
         NewAttempt(a, v, d)
  PROVE  attempts' \in [Attempt -> AttemptRow]
  BY DEF TypeOK, NewAttempt, AttemptRow, AttemptState

(* Updates of single columns of an attempt.                                *)
LEMMA LeaseUpdate ==
  ASSUME NEW f \in [Attempt -> AttemptRow], NEW a \in Attempt, NEW b \in BOOLEAN,
         NEW g, g = [f EXCEPT ![a].leased = b]
  PROVE  /\ g \in [Attempt -> AttemptRow]
         /\ \A x \in Attempt : /\ g[x].state = f[x].state
                               /\ g[x].version = f[x].version
                               /\ g[x].digest = f[x].digest
  BY DEF AttemptRow

LEMMA StateUpdate ==
  ASSUME NEW f \in [Attempt -> AttemptRow], NEW a \in Attempt,
         NEW s \in AttemptState, NEW g, g = [f EXCEPT ![a].state = s]
  PROVE  /\ g \in [Attempt -> AttemptRow]
         /\ g[a].state = s
         /\ \A x \in Attempt : /\ x # a => g[x].state = f[x].state
                               /\ g[x].version = f[x].version
                               /\ g[x].digest = f[x].digest
  BY DEF AttemptRow

-----------------------------------------------------------------------------
(* The inductive step, action by action.                                   *)

(* A step that only answers a call, and may touch PUTs in flight.          *)
LEMMA RespondStep ==
  ASSUME IInv, NEW p \in Publisher, NEW v \in Version, NEW d \in Digest,
         NEW o \in {"created", "existing", "conflict", "refused"},
         Respond(p, o, v, d), puts' \subseteq Attempt,
         UNCHANGED <<catalog, attempts, ledger, objects, dels, clean, policy, outbox>>
  PROVE  IInv'
<1>1. TypeOK' BY RespondType DEF IInv, TypeOK
<1>2. CallsMatchAttempts' /\ CallsMatchLedger'
  BY DEF IInv, TypeOK, CallsMatchAttempts, CallsMatchLedger, Respond, Idle
<1>3. AttemptsHaveIdentity' /\ RowsAreWhole' /\ LedgerRowsMatch'
  BY DEF IInv, AttemptsHaveIdentity, RowsAreWhole, LedgerRowsMatch
<1>4. CommittedAttemptsAreRows' /\ RowsHaveObjects'
  BY DEF IInv, CommittedAttemptsAreRows, RowsHaveObjects
<1>5. ClaimsDoomed' /\ LateDeletesDoomed'
  BY DEF IInv, ClaimsDoomed, LateDeletesDoomed
<1> QED BY <1>1, <1>2, <1>3, <1>4, <1>5 DEF IInv

(* A reservation that draws a fresh attempt: nobody else knows it yet.     *)
LEMMA NewAttemptStep ==
  ASSUME IInv, NEW p \in Publisher, NEW k \in Key, NEW v \in Version,
         NEW d \in Digest, NEW a \in Attempt, NewAttempt(a, v, d),
         Continue(p, "stage", k, v, d, a),
         ledger[k].version # None => SameIdentity(k, v, d),
         ledger' = [ledger EXCEPT ![k] =
                      [version |-> v, digest |-> d, attempt |-> a]],
         UNCHANGED <<catalog, objects, puts, dels, clean, policy, outbox>>
  PROVE  IInv'
<1>0. /\ attempts \in [Attempt -> AttemptRow] /\ attempts[a].state = "unused"
      /\ ledger \in [Key -> LedgerRow] /\ pub \in [Publisher -> Call]
      /\ clean \in [Cleaner -> SUBSET ClaimRec] /\ dels \subseteq Attempt
      /\ catalog \in [Version -> CatalogRow]
  BY DEF IInv, TypeOK, NewAttempt
<1>1. TypeOK'
  <2>1. ledger' \in [Key -> LedgerRow] BY <1>0 DEF LedgerRow
  <2> QED BY <2>1, ContinueType, NewAttemptType DEF IInv, TypeOK
<1>2. /\ attempts'[a] = [state |-> "staged", version |-> v, digest |-> d,
                         leased |-> TRUE, claimed |-> FALSE, gen |-> 1]
      /\ \A b \in Attempt \ {a} : attempts'[b] = attempts[b]
  BY <1>0 DEF NewAttempt
<1>3. CallsMatchAttempts'
  <2> SUFFICES ASSUME NEW q \in Publisher, pub'[q].pc # "idle"
               PROVE  /\ pub'[q].key \in Key
                      /\ pub'[q].version \in Version
                      /\ pub'[q].digest \in Digest
                      /\ pub'[q].attempt \in Attempt
                      /\ attempts'[pub'[q].attempt].state # "unused"
                      /\ attempts'[pub'[q].attempt].version = pub'[q].version
                      /\ attempts'[pub'[q].attempt].digest = pub'[q].digest
                      /\ pub'[q].pc = "commit" /\ attempts'[pub'[q].attempt].state = "staged" =>
                           pub'[q].attempt \in objects'
    BY DEF CallsMatchAttempts
  <2>1. CASE q = p BY <2>1, <1>0, <1>2 DEF Continue
  <2>2. CASE q # p
    <3>1. pub'[q] = pub[q] BY <2>2, <1>0 DEF Continue
    <3>2. pub[q].attempt # a BY <3>1, <1>0 DEF IInv, CallsMatchAttempts
    <3> QED BY <3>1, <3>2, <1>2 DEF IInv, CallsMatchAttempts
  <2> QED BY <2>1, <2>2
<1>12. CallsMatchLedger'
  <2> SUFFICES ASSUME NEW q \in Publisher, pub'[q].pc # "idle"
               PROVE  /\ ledger'[pub'[q].key].version = pub'[q].version
                      /\ ledger'[pub'[q].key].digest = pub'[q].digest
    BY DEF CallsMatchLedger
  <2>1. CASE q = p BY <2>1, <1>0 DEF Continue
  <2>2. CASE q # p
    <3>1. pub'[q] = pub[q] BY <2>2, <1>0 DEF Continue
    <3>2. /\ pub[q].key \in Key /\ pub[q].version \in Version
          /\ ledger[pub[q].key].version = pub[q].version
          /\ ledger[pub[q].key].digest = pub[q].digest
      BY <3>1 DEF IInv, CallsMatchAttempts, CallsMatchLedger
    <3> QED BY <3>1, <3>2, <1>0, NoneAssumption DEF SameIdentity
  <2> QED BY <2>1, <2>2
<1>4. AttemptsHaveIdentity' BY <1>2 DEF IInv, AttemptsHaveIdentity
<1>5. RowsAreWhole' BY DEF IInv, RowsAreWhole
<1>6. LedgerRowsMatch'
  <2> SUFFICES ASSUME NEW j \in Key, ledger'[j].version # None
               PROVE  /\ ledger'[j].attempt \in Attempt
                      /\ attempts'[ledger'[j].attempt].state # "unused"
                      /\ attempts'[ledger'[j].attempt].version = ledger'[j].version
                      /\ attempts'[ledger'[j].attempt].digest = ledger'[j].digest
    BY DEF LedgerRowsMatch
  <2>1. CASE j = k BY <2>1, <1>0, <1>2
  <2>2. CASE j # k
    <3>1. ledger'[j] = ledger[j] BY <2>2, <1>0
    <3>2. ledger[j].attempt # a BY <3>1, <1>0 DEF IInv, LedgerRowsMatch
    <3> QED BY <3>1, <3>2, <1>2 DEF IInv, LedgerRowsMatch
  <2> QED BY <2>1, <2>2
<1>7. \A v2 \in Version : catalog[v2].key # a
  BY <1>0 DEF IInv, CommittedAttemptsAreRows
<1>8. CommittedAttemptsAreRows'
  BY <1>0, <1>2, <1>7 DEF IInv, CommittedAttemptsAreRows
<1>9. RowsHaveObjects'
  BY <1>0, <1>2, <1>7 DEF IInv, RowsHaveObjects, CatalogRow
<1>10. ClaimsDoomed'
  BY <1>0, <1>2 DEF IInv, ClaimsDoomed, ClaimRec
<1>11. LateDeletesDoomed'
  BY <1>0, <1>2 DEF IInv, LateDeletesDoomed
<1> QED BY <1>1, <1>3, <1>4, <1>5, <1>6, <1>8, <1>9, <1>10, <1>11, <1>12 DEF IInv

(* A reservation that joins the attempt its key already names: only the    *)
(* lease of that attempt may change.                                       *)
LEMMA JoinAttemptStep ==
  ASSUME IInv, NEW p \in Publisher, NEW k \in Key, NEW v \in Version,
         NEW d \in Digest, k \in Ledgered, SameIdentity(k, v, d),
         NEW pc \in {"replay", "stage"},
         Continue(p, pc, k, v, d, ledger[k].attempt),
         \/ attempts' = attempts
         \/ attempts' = [attempts EXCEPT ![ledger[k].attempt].leased = TRUE],
         UNCHANGED <<catalog, ledger, objects, puts, dels, clean, policy, outbox>>
  PROVE  IInv'
<1> DEFINE a == ledger[k].attempt
<1>0. /\ a \in Attempt /\ attempts[a].state # "unused"
      /\ attempts[a].version = v /\ attempts[a].digest = d
      /\ attempts \in [Attempt -> AttemptRow]
      /\ clean \in [Cleaner -> SUBSET ClaimRec] /\ dels \subseteq Attempt
      /\ catalog \in [Version -> CatalogRow] /\ pub \in [Publisher -> Call]
  BY DEF IInv, TypeOK, LedgerRowsMatch, Ledgered, SameIdentity
<1>1. /\ attempts' \in [Attempt -> AttemptRow]
      /\ \A b \in Attempt : /\ attempts'[b].state = attempts[b].state
                            /\ attempts'[b].version = attempts[b].version
                            /\ attempts'[b].digest = attempts[b].digest
  BY <1>0, LeaseUpdate
<1>2. TypeOK' BY <1>0, <1>1, ContinueType DEF IInv, TypeOK
<1>3. CallsMatchAttempts' /\ CallsMatchLedger'
  BY <1>0, <1>1 DEF IInv, CallsMatchAttempts, CallsMatchLedger, Continue, SameIdentity
<1>4. AttemptsHaveIdentity' /\ RowsAreWhole' /\ LedgerRowsMatch'
  BY <1>1 DEF IInv, AttemptsHaveIdentity, RowsAreWhole, LedgerRowsMatch
<1>5. CommittedAttemptsAreRows' /\ RowsHaveObjects'
  BY <1>0, <1>1 DEF IInv, CommittedAttemptsAreRows, RowsHaveObjects, CatalogRow
<1>6. ClaimsDoomed' /\ LateDeletesDoomed'
  BY <1>0, <1>1 DEF IInv, ClaimsDoomed, LateDeletesDoomed, ClaimRec
<1> QED BY <1>2, <1>3, <1>4, <1>5, <1>6 DEF IInv

(* Attempts only decay: identities stay, and a state changes, if at all,   *)
(* from an uncommitted one to deleting or retired.                         *)
Decays ==
  \A x \in Attempt :
    /\ attempts'[x].version = attempts[x].version
    /\ attempts'[x].digest = attempts[x].digest
    /\ \/ attempts'[x].state = attempts[x].state
       \/ /\ attempts[x].state \in {"staged", "deleting", "retired"}
          /\ attempts'[x].state \in {"deleting", "retired"}

(* Only objects of doomed attempts disappear.                              *)
LosesOnlyDoomed ==
  \A x \in objects :
    x \in objects' \/ attempts[x].state \in {"deleting", "retired"}

(* Bound keys keep their identity.                                         *)
KeepsIdentity ==
  \A k \in Key : ledger[k].version # None =>
    ledger'[k].version = ledger[k].version /\ ledger'[k].digest = ledger[k].digest

LEMMA DecayStep ==
  ASSUME IInv, TypeOK', Decays, LosesOnlyDoomed, KeepsIdentity, catalog' = catalog,
         LedgerRowsMatch', ClaimsDoomed', LateDeletesDoomed',
         \A q \in Publisher : pub'[q] = pub[q] \/ pub'[q].pc = "idle"
  PROVE  IInv'
<1>0. /\ catalog \in [Version -> CatalogRow]
      /\ \A v \in Version : catalog[v].key \in Attempt \union {None}
  BY DEF IInv, TypeOK, CatalogRow
<1>1. AttemptsHaveIdentity' BY DEF IInv, AttemptsHaveIdentity, Decays
<1>2. RowsAreWhole' BY DEF IInv, RowsAreWhole
<1>3. CommittedAttemptsAreRows'
  BY <1>0 DEF IInv, CommittedAttemptsAreRows, Decays
<1>4. RowsHaveObjects'
  BY <1>0 DEF IInv, CommittedAttemptsAreRows, RowsHaveObjects, Decays, LosesOnlyDoomed
<1>5. CallsMatchAttempts'
  <2> SUFFICES ASSUME NEW q \in Publisher, pub'[q].pc # "idle"
               PROVE  /\ pub'[q].key \in Key
                      /\ pub'[q].version \in Version
                      /\ pub'[q].digest \in Digest
                      /\ pub'[q].attempt \in Attempt
                      /\ attempts'[pub'[q].attempt].state # "unused"
                      /\ attempts'[pub'[q].attempt].version = pub'[q].version
                      /\ attempts'[pub'[q].attempt].digest = pub'[q].digest
                      /\ pub'[q].pc = "commit" /\ attempts'[pub'[q].attempt].state = "staged" =>
                           pub'[q].attempt \in objects'
    BY DEF CallsMatchAttempts
  <2>1. pub'[q] = pub[q] OBVIOUS
  <2> QED BY <2>1 DEF IInv, CallsMatchAttempts, Decays, LosesOnlyDoomed
<1>6. CallsMatchLedger'
  BY NoneAssumption
     DEF IInv, CallsMatchAttempts, CallsMatchLedger, KeepsIdentity
<1> QED BY <1>1, <1>2, <1>3, <1>4, <1>5, <1>6 DEF IInv

(* What decay leaves true of the ledger, the claims and late deletes.      *)
LEMMA DecayKeeps ==
  ASSUME IInv, Decays
  PROVE  /\ ledger' = ledger => LedgerRowsMatch' /\ KeepsIdentity
         /\ (\A c \in Cleaner : clean'[c] \subseteq clean[c]) => ClaimsDoomed'
         /\ dels' \subseteq dels => LateDeletesDoomed'
<1>0. /\ clean \in [Cleaner -> SUBSET ClaimRec] /\ dels \subseteq Attempt
      /\ \A c \in Cleaner : \A m \in clean[c] : m.attempt \in Attempt
  BY DEF IInv, TypeOK, ClaimRec
<1>1. ledger' = ledger => LedgerRowsMatch' /\ KeepsIdentity
  BY DEF IInv, LedgerRowsMatch, Decays, KeepsIdentity
<1>2. (\A c \in Cleaner : clean'[c] \subseteq clean[c]) => ClaimsDoomed'
  BY <1>0 DEF IInv, ClaimsDoomed, Decays
<1>3. dels' \subseteq dels => LateDeletesDoomed'
  BY <1>0 DEF IInv, LateDeletesDoomed, Decays
<1> QED BY <1>1, <1>2, <1>3

LEMMA StageOwnedStep ==
  ASSUME IInv, NEW p \in Publisher, StageOwned(p)
  PROVE  IInv'
<1>0. /\ pub[p] \in Call /\ pub[p].attempt \in Attempt /\ pub[p].pc = "stage"
      /\ pub \in [Publisher -> Call]
  BY DEF IInv, TypeOK, StageOwned, CallsMatchAttempts
<1>1. /\ pub' \in [Publisher -> Call]
      /\ pub'[p].pc = "commit"
      /\ \A q \in Publisher :
           /\ q # p => pub'[q] = pub[q]
           /\ pub'[q].key = pub[q].key /\ pub'[q].version = pub[q].version
           /\ pub'[q].digest = pub[q].digest /\ pub'[q].attempt = pub[q].attempt
  BY <1>0 DEF StageOwned, Call
<1>2. TypeOK' BY <1>0, <1>1 DEF IInv, TypeOK, StageOwned, NoReply
<1>3. CallsMatchAttempts' /\ CallsMatchLedger'
  BY <1>0, <1>1 DEF IInv, CallsMatchAttempts, CallsMatchLedger, StageOwned
<1>4. AttemptsHaveIdentity' /\ RowsAreWhole' /\ LedgerRowsMatch'
  BY DEF IInv, AttemptsHaveIdentity, RowsAreWhole, LedgerRowsMatch, StageOwned
<1>5. CommittedAttemptsAreRows' /\ RowsHaveObjects'
  BY DEF IInv, CommittedAttemptsAreRows, RowsHaveObjects, StageOwned
<1>6. ClaimsDoomed' /\ LateDeletesDoomed'
  BY DEF IInv, ClaimsDoomed, LateDeletesDoomed, StageOwned
<1> QED BY <1>2, <1>3, <1>4, <1>5, <1>6 DEF IInv

LEMMA ReserveStep ==
  ASSUME IInv, NEW p \in Publisher, NEW k \in Key, NEW v \in Version,
         NEW d \in Digest, Reserve(p, k, v, d)
  PROVE  IInv'
<1>0. /\ puts \subseteq Attempt
      /\ ledger \in [Key -> LedgerRow]
      /\ UNCHANGED <<catalog, objects, puts, dels, clean, policy, outbox>>
  BY DEF IInv, TypeOK, Reserve
<1>1. CASE /\ UNCHANGED <<attempts, ledger>>
           /\ \/ Respond(p, "refused", v, d)
              \/ Respond(p, "conflict", v, d)
  BY <1>0, <1>1, RespondStep
<1>2. CASE k \in Ledgered /\ KnownReplay(p, k, v, d)
  BY <1>0, <1>2, JoinAttemptStep DEF KnownReplay
<1>3. CASE k \in Ledgered /\ KnownRenew(p, k, v, d)
  BY <1>0, <1>3, JoinAttemptStep DEF KnownRenew
<1>4. CASE k \in Ledgered /\ KnownAgain(p, k, v, d)
  <2>1. CASE Respond(p, "refused", v, d) /\ UNCHANGED <<attempts, ledger>>
    BY <1>1, <2>1
  <2>2. CASE \E a \in Attempt :
               /\ NewAttempt(a, v, d)
               /\ ledger' = [ledger EXCEPT ![k].attempt = a]
               /\ Continue(p, "stage", k, v, d, a)
    <3>1. PICK a \in Attempt :
               /\ NewAttempt(a, v, d)
               /\ ledger' = [ledger EXCEPT ![k].attempt = a]
               /\ Continue(p, "stage", k, v, d, a)
      BY <2>2
    <3>2. [ledger[k] EXCEPT !.attempt = a] = [version |-> v, digest |-> d, attempt |-> a]
      BY <1>0, <1>4 DEF KnownAgain, SameIdentity, LedgerRow
    <3>3. ledger' = [ledger EXCEPT ![k] =
                       [version |-> v, digest |-> d, attempt |-> a]]
      BY <1>0, <3>1, <3>2
    <3> QED BY <1>0, <1>4, <3>1, <3>3, NewAttemptStep DEF KnownAgain
  <2> QED BY <1>4, <2>1, <2>2 DEF KnownAgain
<1>5. CASE k \notin Ledgered /\ FreshAlias(p, k, v, d)
  <2>1. /\ catalog[v].key \in Attempt
        /\ attempts[catalog[v].key].state = "committed"
        /\ attempts[catalog[v].key].version = v
        /\ attempts[catalog[v].key].digest = d
    BY <1>5, NoneAssumption
       DEF FreshAlias, OwnedRow, IInv, CommittedAttemptsAreRows, RowsHaveObjects
  <2>2. ledger' \in [Key -> LedgerRow]
    BY <1>0, <1>5, <2>1 DEF FreshAlias, LedgerRow
  <2>3. LedgerRowsMatch'
    BY <1>0, <1>5, <2>1 DEF FreshAlias, IInv, LedgerRowsMatch
  <2>4. TypeOK'
    BY <1>0, <1>5, <2>2, RespondType DEF FreshAlias, IInv, TypeOK
  <2>5. Decays /\ LosesOnlyDoomed /\ KeepsIdentity
    BY <1>0, <1>5 DEF FreshAlias, Decays, LosesOnlyDoomed, KeepsIdentity, Ledgered
  <2>6. ClaimsDoomed' /\ LateDeletesDoomed' BY <1>0, <2>5, DecayKeeps
  <2>7. \A q \in Publisher : pub'[q] = pub[q] \/ pub'[q].pc = "idle"
    BY <1>5 DEF FreshAlias, Respond, Idle, IInv, TypeOK
  <2> QED BY <1>0, <2>3, <2>4, <2>5, <2>6, <2>7, DecayStep
<1>6. CASE k \notin Ledgered /\ FreshReserve(p, k, v, d)
  BY <1>0, <1>6, NewAttemptStep DEF FreshReserve, Ledgered
<1> QED
  BY <1>1, <1>2, <1>3, <1>4, <1>5, <1>6
     DEF Reserve, KnownConflict, FreshRefused, FreshConflict

LEMMA ReplayStep ==
  ASSUME IInv, NEW p \in Publisher, Replay(p)
  PROVE  IInv'
<1>1. pub[p].version \in Version /\ pub[p].digest \in Digest /\ puts \subseteq Attempt
  BY DEF IInv, TypeOK, CallsMatchAttempts, Replay
<1>2. \E o \in {"existing", "conflict", "refused"} :
        Respond(p, o, pub[p].version, pub[p].digest)
  BY DEF Replay
<1> QED BY <1>1, <1>2, RespondStep DEF Replay

LEMMA StageFailsStep ==
  ASSUME IInv, NEW p \in Publisher, StageFails(p)
  PROVE  IInv'
<1>1. /\ pub[p].version \in Version /\ pub[p].digest \in Digest
      /\ pub[p].attempt \in Attempt /\ puts \subseteq Attempt
  BY DEF IInv, TypeOK, CallsMatchAttempts, StageFails
<1> QED BY <1>1, RespondStep DEF StageFails

LEMMA PublishFailsStep ==
  ASSUME IInv, NEW p \in Publisher, PublishFails(p)
  PROVE  IInv'
<1>1. /\ pub[p].version \in Version /\ pub[p].digest \in Digest
      /\ puts \subseteq Attempt
  BY DEF IInv, TypeOK, CallsMatchAttempts, PublishFails
<1> QED BY <1>1, RespondStep DEF PublishFails

(* The losing attempt retires and its key moves to the row's owner.        *)
LEMMA CommitAliasStep ==
  ASSUME IInv, NEW p \in Publisher, pub[p].pc = "commit", CommitAlias(p, pub[p]),
         UNCHANGED <<objects, puts, dels, clean, policy>>
  PROVE  IInv'
<1> DEFINE r == pub[p]
<1>0. /\ r.key \in Key /\ r.version \in Version /\ r.digest \in Digest
      /\ r.attempt \in Attempt /\ puts \subseteq Attempt
      /\ attempts[r.attempt].version = r.version
      /\ attempts[r.attempt].digest = r.digest
      /\ attempts[r.attempt].state = "staged"
      /\ attempts \in [Attempt -> AttemptRow] /\ ledger \in [Key -> LedgerRow]
      /\ catalog' = catalog /\ outbox' = outbox
  BY DEF IInv, TypeOK, CallsMatchAttempts, CommitAlias
<1>1. CASE ~OwnedRow(r.version)
  BY <1>0, <1>1, RespondStep DEF CommitAlias
<1>2. CASE OwnedRow(r.version)
  <2> DEFINE o == catalog[r.version].key
  <2>1. /\ o \in Attempt /\ o # r.attempt
        /\ attempts[o].state = "committed" /\ attempts[o].version = r.version
        /\ attempts[o].digest = r.digest
    BY <1>0, <1>2, NoneAssumption
       DEF CommitAlias, OwnedRow, IInv, CommittedAttemptsAreRows, RowsHaveObjects
  <2>2. /\ ledger' = [ledger EXCEPT ![r.key].attempt = o]
        /\ attempts' = [attempts EXCEPT ![r.attempt].state = "retired",
                                        ![r.attempt].leased = TRUE]
        /\ Respond(p, "existing", r.version, r.digest)
    BY <1>2 DEF CommitAlias
  <2>3. /\ attempts' \in [Attempt -> AttemptRow]
        /\ attempts'[r.attempt].state = "retired"
        /\ \A x \in Attempt : /\ x # r.attempt => attempts'[x].state = attempts[x].state
                              /\ attempts'[x].version = attempts[x].version
                              /\ attempts'[x].digest = attempts[x].digest
    <3>1. r.attempt \in Attempt /\ attempts \in [Attempt -> AttemptRow] BY <1>0
    <3>2. attempts' = [attempts EXCEPT ![r.attempt].state = "retired",
                                      ![r.attempt].leased = TRUE]
      BY <2>2
    <3> HIDE DEF r
    <3> QED BY <3>1, <3>2 DEF AttemptRow, AttemptState
  <2>4. /\ ledger' \in [Key -> LedgerRow]
        /\ ledger'[r.key].attempt = o
        /\ \A k \in Key : /\ ledger'[k].version = ledger[k].version
                          /\ ledger'[k].digest = ledger[k].digest
                          /\ k # r.key => ledger'[k] = ledger[k]
    BY <1>0, <2>1, <2>2 DEF LedgerRow
  <2>5. Decays /\ LosesOnlyDoomed /\ KeepsIdentity
    BY <1>0, <2>3, <2>4 DEF Decays, LosesOnlyDoomed, KeepsIdentity
  <2>6. TypeOK'
    BY <1>0, <2>2, <2>3, <2>4, RespondType DEF IInv, TypeOK
  <2>7. LedgerRowsMatch'
    <3> SUFFICES ASSUME NEW k \in Key, ledger'[k].version # None
                 PROVE  /\ ledger'[k].attempt \in Attempt
                        /\ attempts'[ledger'[k].attempt].state # "unused"
                        /\ attempts'[ledger'[k].attempt].version = ledger'[k].version
                        /\ attempts'[ledger'[k].attempt].digest = ledger'[k].digest
      BY DEF LedgerRowsMatch
    <3>1. CASE k # r.key
      BY <3>1, <2>3, <2>4 DEF IInv, LedgerRowsMatch
    <3>2. CASE k = r.key
      <4>1. ledger[k].version = r.version /\ ledger[k].digest = r.digest
        BY <3>2 DEF IInv, CallsMatchLedger
      <4> QED BY <3>2, <4>1, <2>1, <2>3, <2>4
    <3> QED BY <3>1, <3>2
  <2>8. ClaimsDoomed' /\ LateDeletesDoomed' BY <2>5, DecayKeeps
  <2>9. \A q \in Publisher : pub'[q] = pub[q] \/ pub'[q].pc = "idle"
    BY <2>2 DEF Respond, Idle, IInv, TypeOK
  <2> QED BY <1>0, <2>5, <2>6, <2>7, <2>8, <2>9, DecayStep
<1> QED BY <1>1, <1>2

(* The admission: the object of a staged attempt is there, no deletion of  *)
(* it was ever ordered, and from now on the row protects it.               *)
LEMMA CommitAdmitStep ==
  ASSUME IInv, NEW p \in Publisher, pub[p].pc = "commit", CommitAdmit(p, pub[p]),
         UNCHANGED <<objects, puts, dels, clean, policy>>
  PROVE  IInv'
<1>0. PICK r : r = pub[p] OBVIOUS
<1>1. /\ r.version \in Version /\ r.digest \in Digest /\ r.attempt \in Attempt
      /\ attempts[r.attempt].version = r.version
      /\ attempts[r.attempt].digest = r.digest
      /\ attempts[r.attempt].state = "staged"
      /\ r.attempt \in objects
      /\ catalog[r.version].state = "absent" /\ catalog[r.version].key = None
      /\ attempts \in [Attempt -> AttemptRow] /\ ledger' = ledger
      /\ catalog \in [Version -> CatalogRow]
      /\ \A v \in Version : catalog[v].key # r.attempt
  <2>1. /\ attempts[r.attempt].state = "staged"
        /\ catalog[r.version].state = "absent" /\ ledger' = ledger
    BY <1>0 DEF CommitAdmit
  <2>2. /\ r.version \in Version /\ r.digest \in Digest /\ r.attempt \in Attempt
        /\ attempts[r.attempt].version = r.version
        /\ attempts[r.attempt].digest = r.digest
        /\ r.attempt \in objects
    BY <1>0, <2>1 DEF IInv, CallsMatchAttempts
  <2>3. catalog[r.version].key = None BY <2>1, <2>2 DEF IInv, RowsAreWhole
  <2>4. \A v \in Version : catalog[v].key # r.attempt
    BY <2>1, <2>2 DEF IInv, CommittedAttemptsAreRows
  <2> QED BY <2>1, <2>2, <2>3, <2>4 DEF IInv, TypeOK
<1>2. /\ catalog' = [catalog EXCEPT ![r.version] =
                       [state |-> "published", digest |-> r.digest,
                        key |-> r.attempt]]
      /\ attempts' = [attempts EXCEPT ![r.attempt].state = "committed"]
      /\ outbox' = Append(outbox, Event("version_published", r.version))
      /\ Respond(p, "created", r.version, r.digest)
  BY <1>0 DEF CommitAdmit
<1>3. /\ attempts' \in [Attempt -> AttemptRow]
      /\ attempts'[r.attempt].state = "committed"
      /\ \A x \in Attempt :
           /\ x # r.attempt => attempts'[x].state = attempts[x].state
           /\ attempts'[x].version = attempts[x].version
           /\ attempts'[x].digest = attempts[x].digest
  <2>1. r.attempt \in Attempt /\ attempts \in [Attempt -> AttemptRow] BY <1>1
  <2>2. attempts' = [attempts EXCEPT ![r.attempt].state = "committed"] BY <1>2
  <2>3. PICK a : a = r.attempt OBVIOUS
  <2>4. "committed" \in AttemptState BY DEF AttemptState
  <2> QED BY ONLY <2>1, <2>2, <2>3, <2>4, StateUpdate
<1>4. /\ catalog' \in [Version -> CatalogRow]
      /\ catalog'[r.version] = [state |-> "published", digest |-> r.digest,
                                key |-> r.attempt]
      /\ \A v \in Version \ {r.version} : catalog'[v] = catalog[v]
  BY <1>1, <1>2 DEF CatalogRow
<1>5. outbox' \in Seq(OutboxEvent)
  BY <1>1, <1>2 DEF IInv, TypeOK, OutboxEvent, Event
<1>6. TypeOK' BY <1>1, <1>2, <1>3, <1>4, <1>5, RespondType DEF IInv, TypeOK
<1>7. AttemptsHaveIdentity' BY <1>1, <1>3 DEF IInv, AttemptsHaveIdentity
<1>8. RowsAreWhole' BY <1>1, <1>4, NoneAssumption DEF IInv, RowsAreWhole
<1>9. LedgerRowsMatch' BY <1>1, <1>3 DEF IInv, LedgerRowsMatch
<1>10. \A q \in Publisher : pub'[q] = pub[q] \/ pub'[q].pc = "idle"
  BY <1>2 DEF Respond, Idle, IInv, TypeOK
<1>11. CallsMatchAttempts' /\ CallsMatchLedger'
  BY <1>1, <1>3, <1>10 DEF IInv, CallsMatchAttempts, CallsMatchLedger
<1>12. CommittedAttemptsAreRows'
  <2>1. \A v \in Version : catalog[v].key \in Attempt \union {None}
    BY <1>1 DEF CatalogRow
  <2> QED BY <1>1, <1>3, <1>4, <2>1, NoneAssumption
          DEF IInv, CommittedAttemptsAreRows, AttemptsHaveIdentity
<1>13. RowsHaveObjects'
  <2>1. \A v \in Version : catalog[v].key \in Attempt \union {None}
    BY <1>1 DEF CatalogRow
  <2> QED BY <1>1, <1>3, <1>4, <2>1 DEF IInv, RowsHaveObjects
<1>14. ClaimsDoomed' /\ LateDeletesDoomed'
  <2>1. /\ dels \subseteq Attempt
        /\ \A c \in Cleaner : \A m \in clean[c] : m.attempt \in Attempt
    BY DEF IInv, TypeOK, ClaimRec
  <2> QED BY <1>1, <1>3, <2>1 DEF IInv, ClaimsDoomed, LateDeletesDoomed
<1> QED BY <1>6, <1>7, <1>8, <1>9, <1>11, <1>12, <1>13, <1>14 DEF IInv

LEMMA CommitStep ==
  ASSUME IInv, NEW p \in Publisher, Commit(p)
  PROVE  IInv'
<1>0. /\ pub[p].pc = "commit" /\ puts \subseteq Attempt
      /\ pub[p].version \in Version /\ pub[p].digest \in Digest
      /\ UNCHANGED <<objects, puts, dels, clean, policy>>
  BY DEF IInv, TypeOK, CallsMatchAttempts, Commit
<1>1. CASE CommitDenied(p, pub[p]) BY <1>0, <1>1, RespondStep DEF CommitDenied
<1>2. CASE CommitAgain(p, pub[p])
  <2>1. \E o \in {"existing", "conflict"} :
          Respond(p, o, pub[p].version, pub[p].digest)
    BY <1>2 DEF CommitAgain
  <2> QED BY <1>0, <1>2, <2>1, RespondStep DEF CommitAgain
<1>3. CASE CommitConflict(p, pub[p]) BY <1>0, <1>3, RespondStep DEF CommitConflict
<1>4. CASE CommitAlias(p, pub[p]) BY <1>0, <1>4, CommitAliasStep
<1>5. CASE CommitAdmit(p, pub[p]) BY <1>0, <1>5, CommitAdmitStep
<1> QED BY <1>1, <1>2, <1>3, <1>4, <1>5 DEF Commit

(* The environment and the cleaner.                                        *)
LEMMA QuietStep ==
  ASSUME IInv,
         /\ reply' = NoReply /\ catalog' = catalog /\ ledger' = ledger
         /\ pub' = pub /\ outbox' = outbox,
         policy' \in Nat, puts' \subseteq Attempt, objects' \subseteq Attempt,
         dels' \subseteq Attempt, clean' \in [Cleaner -> SUBSET ClaimRec],
         attempts' \in [Attempt -> AttemptRow],
         Decays, LosesOnlyDoomed, ClaimsDoomed', LateDeletesDoomed'
  PROVE  IInv'
<1>1. TypeOK' BY DEF IInv, TypeOK, NoReply
<1>2. LedgerRowsMatch' /\ KeepsIdentity BY DecayKeeps
<1> QED BY <1>1, <1>2, DecayStep

LEMMA EnvironmentStep ==
  ASSUME IInv, NEW a \in Attempt,
         LeaseExpires(a) \/ ClaimExpires(a) \/ LatePut(a) \/ LateDelete(a)
  PROVE  IInv'
<1>0. /\ attempts \in [Attempt -> AttemptRow] /\ objects \subseteq Attempt
      /\ puts \subseteq Attempt /\ dels \subseteq Attempt /\ policy \in Nat
      /\ clean \in [Cleaner -> SUBSET ClaimRec]
  BY DEF IInv, TypeOK
<1>1. CASE LeaseExpires(a)
  <2>1. attempts' \in [Attempt -> AttemptRow] /\ Decays
    BY <1>0, <1>1 DEF LeaseExpires, AttemptRow, Decays
  <2>2. LosesOnlyDoomed BY <1>1 DEF LeaseExpires, LosesOnlyDoomed
  <2>3. ClaimsDoomed' /\ LateDeletesDoomed'
    BY <1>1, <2>1, DecayKeeps DEF LeaseExpires
  <2> QED BY <1>0, <1>1, <2>1, <2>2, <2>3, QuietStep DEF LeaseExpires
<1>2. CASE ClaimExpires(a)
  <2>1. attempts' \in [Attempt -> AttemptRow] /\ Decays
    BY <1>0, <1>2 DEF ClaimExpires, AttemptRow, Decays
  <2>2. LosesOnlyDoomed BY <1>2 DEF ClaimExpires, LosesOnlyDoomed
  <2>3. ClaimsDoomed' /\ LateDeletesDoomed'
    BY <1>2, <2>1, DecayKeeps DEF ClaimExpires
  <2> QED BY <1>0, <1>2, <2>1, <2>2, <2>3, QuietStep DEF ClaimExpires
<1>3. CASE LatePut(a)
  <2>1. Decays /\ LosesOnlyDoomed BY <1>3 DEF LatePut, Decays, LosesOnlyDoomed
  <2>2. ClaimsDoomed' /\ LateDeletesDoomed' BY <1>3, <2>1, DecayKeeps DEF LatePut
  <2> QED BY <1>0, <1>3, <2>1, <2>2, QuietStep DEF LatePut
<1>4. CASE LateDelete(a)
  <2>1. attempts[a].state \in {"deleting", "retired"}
    BY <1>4 DEF LateDelete, IInv, LateDeletesDoomed
  <2>2. Decays /\ LosesOnlyDoomed
    BY <1>4, <2>1 DEF LateDelete, Decays, LosesOnlyDoomed
  <2>3. ClaimsDoomed' /\ LateDeletesDoomed' BY <1>4, <2>2, DecayKeeps DEF LateDelete
  <2> QED BY <1>0, <1>4, <2>2, <2>3, QuietStep DEF LateDelete
<1> QED BY <1>1, <1>2, <1>3, <1>4

LEMMA PolicyStep ==
  ASSUME IInv, ChangePolicy
  PROVE  IInv'
<1>1. Decays /\ LosesOnlyDoomed BY DEF ChangePolicy, Decays, LosesOnlyDoomed
<1>2. ClaimsDoomed' /\ LateDeletesDoomed' BY <1>1, DecayKeeps DEF ChangePolicy
<1> QED BY <1>1, <1>2, QuietStep DEF ChangePolicy, IInv, TypeOK

(* The cleaner: claiming dooms an attempt nobody's row references, and     *)
(* only then is its object deleted.                                        *)
LEMMA ClaimStep ==
  ASSUME IInv, NEW c \in Cleaner, NEW S \in SUBSET Attempt, Claim(c, S)
  PROVE  IInv'
<1>0. /\ attempts \in [Attempt -> AttemptRow]
      /\ clean \in [Cleaner -> SUBSET ClaimRec]
      /\ \A b \in Cleaner : \A m \in clean[b] : m.attempt \in Attempt
  BY DEF IInv, TypeOK, ClaimRec
<1>1. \A a \in S : /\ attempts[a].state \in {"staged", "deleting", "retired"}
                   /\ attempts[a].gen + 1 \in Nat
  <2>1. \A a \in S : attempts[a].state \in {"staged", "deleting", "retired"}
    BY DEF Claim, Claimable
  <2>2. \A a \in S : attempts[a].gen \in Nat BY <1>0 DEF AttemptRow
  <2> QED BY <2>1, <2>2
<1>2. /\ attempts' \in [Attempt -> AttemptRow]
      /\ Decays
      /\ \A a \in S : attempts'[a].state = "deleting"
  <2>1. \A a \in Attempt :
          /\ attempts'[a] \in AttemptRow
          /\ attempts'[a].version = attempts[a].version
          /\ attempts'[a].digest = attempts[a].digest
          /\ a \notin S => attempts'[a].state = attempts[a].state
          /\ a \in S => attempts'[a].state = "deleting"
    <3> SUFFICES ASSUME NEW a \in Attempt
                 PROVE  /\ attempts'[a] \in AttemptRow
                        /\ attempts'[a].version = attempts[a].version
                        /\ attempts'[a].digest = attempts[a].digest
                        /\ a \notin S => attempts'[a].state = attempts[a].state
                        /\ a \in S => attempts'[a].state = "deleting"
      OBVIOUS
    <3>1. attempts[a] \in AttemptRow BY <1>0
    <3>2. CASE a \in S
      <4>1. attempts'[a] = [attempts[a] EXCEPT !.state = "deleting",
                                               !.gen = attempts[a].gen + 1,
                                               !.claimed = TRUE]
        BY <3>2 DEF Claim
      <4>2. attempts[a].gen + 1 \in Nat BY <3>2, <1>1
      <4> QED BY <3>1, <3>2, <4>1, <4>2 DEF AttemptRow, AttemptState
    <3>3. CASE a \notin S
      <4>1. attempts'[a] = attempts[a] BY <3>3 DEF Claim
      <4> QED BY <3>1, <3>3, <4>1
    <3> QED BY <3>2, <3>3
  <2>2. attempts' \in [Attempt -> AttemptRow] BY <2>1 DEF Claim
  <2> QED BY <1>1, <2>1, <2>2 DEF Decays
<1>3. /\ clean' \in [Cleaner -> SUBSET ClaimRec]
      /\ \A b \in Cleaner : \A m \in clean'[b] : m \in clean[b] \/ m.attempt \in S
  <2>1. \A a \in S : [attempt |-> a, gen |-> attempts[a].gen + 1, done |-> FALSE]
                       \in [attempt : S, gen : Nat, done : BOOLEAN]
    BY <1>1
  <2>2. PICK C : C = {[attempt |-> a, gen |-> attempts[a].gen + 1, done |-> FALSE]
                        : a \in S}
    OBVIOUS
  <2>3. C \subseteq [attempt : S, gen : Nat, done : BOOLEAN] BY <2>1, <2>2, Zenon
  <2>4. clean' = [clean EXCEPT ![c] = C] BY <2>2, Zenon DEF Claim
  <2>5. \A b \in Cleaner : b # c => clean'[b] = clean[b] BY ONLY <1>0, <2>4
  <2>6. clean'[c] = C /\ DOMAIN clean' = Cleaner /\ clean' = [b \in Cleaner |-> clean'[b]]
    BY ONLY <1>0, <2>4, c \in Cleaner
  <2>7. C \subseteq ClaimRec /\ \A m \in C : m.attempt \in S
    BY ONLY <2>3, S \in SUBSET Attempt DEF ClaimRec
  <2> QED BY ONLY <1>0, <2>5, <2>6, <2>7
<1>4. ClaimsDoomed'
  BY <1>0, <1>2, <1>3 DEF IInv, ClaimsDoomed, Decays
<1>5. LosesOnlyDoomed BY DEF Claim, LosesOnlyDoomed
<1>6. LateDeletesDoomed' BY <1>2, DecayKeeps DEF Claim
<1> QED BY <1>2, <1>3, <1>4, <1>5, <1>6, QuietStep DEF Claim, IInv, TypeOK

LEMMA DeleteStep ==
  ASSUME IInv, NEW c \in Cleaner, NEW m \in clean[c],
         DeleteOwned(c, m) \/ DeleteFails(c, m)
  PROVE  IInv'
<1>0. /\ clean \in [Cleaner -> SUBSET ClaimRec] /\ m \in ClaimRec
      /\ m.attempt \in Attempt
      /\ attempts[m.attempt].state \in {"deleting", "retired"}
      /\ \A b \in Cleaner : \A n \in clean[b] : n.attempt \in Attempt
  BY DEF IInv, TypeOK, ClaimRec, ClaimsDoomed
<1>1. Tried(m) \in ClaimRec /\ Tried(m).attempt = m.attempt
  BY <1>0 DEF Tried, ClaimRec
<1>2. /\ clean' = [clean EXCEPT ![c] = (clean[c] \ {m}) \union {Tried(m)}]
      /\ objects' \subseteq objects
      /\ \A x \in objects : x \in objects' \/ x = m.attempt
      /\ dels' \subseteq dels \union {m.attempt}
      /\ reply' = NoReply
      /\ UNCHANGED <<catalog, attempts, ledger, puts, pub, policy, outbox>>
  BY DEF DeleteOwned, DeleteFails
<1>3. clean' \in [Cleaner -> SUBSET ClaimRec] BY <1>0, <1>1, <1>2
<1>4. \A b \in Cleaner : \A n \in clean'[b] : n \in clean[b] \/ n.attempt = m.attempt
  BY <1>0, <1>1, <1>2
<1>5. ClaimsDoomed' BY <1>0, <1>2, <1>4 DEF IInv, ClaimsDoomed
<1>6. LateDeletesDoomed' BY <1>0, <1>2 DEF IInv, LateDeletesDoomed
<1>7. Decays /\ LosesOnlyDoomed BY <1>0, <1>2 DEF Decays, LosesOnlyDoomed
<1>8. objects' \subseteq Attempt /\ dels' \subseteq Attempt
  BY <1>0, <1>2 DEF IInv, TypeOK
<1> QED BY <1>2, <1>3, <1>5, <1>6, <1>7, <1>8, QuietStep DEF IInv, TypeOK

LEMMA FinishStep ==
  ASSUME IInv, NEW c \in Cleaner, NEW m \in clean[c], Finish(c, m)
  PROVE  IInv'
<1>0. /\ clean \in [Cleaner -> SUBSET ClaimRec] /\ m.attempt \in Attempt
      /\ attempts \in [Attempt -> AttemptRow]
  BY DEF IInv, TypeOK, ClaimRec
<1>1. attempts' \in [Attempt -> AttemptRow] /\ Decays
  <2>1. CASE attempts' = attempts BY <1>0, <2>1 DEF Decays
  <2>2. CASE attempts' # attempts
    <3>1. PICK a : a = m.attempt OBVIOUS
    <3>2. /\ attempts[a].state = "deleting"
          /\ attempts' = [attempts EXCEPT ![a].state = "retired",
                                          ![a].claimed = FALSE,
                                          ![a].leased = TRUE]
      BY <2>2, <3>1 DEF Finish
    <3>3. a \in Attempt BY <1>0, <3>1
    <3>4. attempts \in [Attempt -> AttemptRow] BY <1>0
    <3>5. /\ attempts' \in [Attempt -> AttemptRow]
          /\ attempts'[a].state = "retired"
          /\ attempts'[a].version = attempts[a].version
          /\ attempts'[a].digest = attempts[a].digest
          /\ \A x \in Attempt \ {a} : attempts'[x] = attempts[x]
      <4>1. /\ attempts[a] \in AttemptRow /\ "retired" \in AttemptState
            /\ attempts'[a] = [attempts[a] EXCEPT !.state = "retired",
                                                  !.claimed = FALSE,
                                                  !.leased = TRUE]
            /\ \A x \in Attempt \ {a} : attempts'[x] = attempts[x]
            /\ attempts' = [x \in Attempt |-> attempts'[x]]
        BY ONLY <3>2, <3>3, <3>4 DEF AttemptState
      <4>2. /\ attempts'[a] \in AttemptRow
            /\ attempts'[a].state = "retired"
            /\ attempts'[a].version = attempts[a].version
            /\ attempts'[a].digest = attempts[a].digest
        BY ONLY <4>1 DEF AttemptRow
      <4> QED BY ONLY <3>3, <3>4, <4>1, <4>2
    <3> QED BY <3>2, <3>3, <3>5 DEF Decays
  <2> QED BY <2>1, <2>2
<1>2. /\ clean' \in [Cleaner -> SUBSET ClaimRec]
      /\ \A b \in Cleaner : clean'[b] \subseteq clean[b]
  BY <1>0 DEF Finish
<1>3. ClaimsDoomed' /\ LateDeletesDoomed' BY <1>1, <1>2, DecayKeeps DEF Finish
<1>4. LosesOnlyDoomed BY DEF Finish, LosesOnlyDoomed
<1> QED BY <1>1, <1>2, <1>3, <1>4, QuietStep DEF Finish, IInv, TypeOK

LEMMA CleanupFailsStep ==
  ASSUME IInv, NEW c \in Cleaner, CleanupFails(c)
  PROVE  IInv'
<1>0. clean \in [Cleaner -> SUBSET ClaimRec] BY DEF IInv, TypeOK
<1>1. /\ clean' \in [Cleaner -> SUBSET ClaimRec]
      /\ \A b \in Cleaner : clean'[b] \subseteq clean[b]
  BY <1>0 DEF CleanupFails
<1>2. Decays /\ LosesOnlyDoomed BY DEF CleanupFails, Decays, LosesOnlyDoomed
<1>3. ClaimsDoomed' /\ LateDeletesDoomed' BY <1>1, <1>2, DecayKeeps DEF CleanupFails
<1> QED BY <1>1, <1>2, <1>3, QuietStep DEF CleanupFails, IInv, TypeOK

(* Steps on a catalog row that leave its object key alone: revocation, and *)
(* a v1 row, which owns none.                                              *)
LEMMA CatalogStep ==
  ASSUME IInv, NEW v \in Version,
         RevokeVersion(v) \/ \E d \in Digest : PublishV1(v, d)
  PROVE  IInv'
<1>0. /\ catalog \in [Version -> CatalogRow] /\ outbox \in Seq(OutboxEvent)
      /\ RowsAreWhole
  BY DEF IInv, TypeOK
<1>1. /\ reply' = NoReply
      /\ UNCHANGED <<attempts, ledger, objects, puts, dels, pub, clean, policy>>
  BY DEF RevokeVersion, PublishV1
<1>2. /\ catalog' \in [Version -> CatalogRow]
      /\ RowsAreWhole'
      /\ \A w \in Version :
           /\ catalog'[w].key = catalog[w].key
           /\ catalog[w].key # None => catalog'[w].digest = catalog[w].digest
  <2>1. CASE RevokeVersion(v)
    <3>1. /\ catalog' = [catalog EXCEPT ![v].state = "revoked"]
          /\ catalog[v].state = "published"
      BY <2>1 DEF RevokeVersion, Live
    <3> QED BY ONLY <1>0, <3>1, v \in Version DEF CatalogRow, RowsAreWhole
  <2>2. CASE \E d \in Digest : PublishV1(v, d)
    <3>1. PICK d \in Digest :
            /\ catalog[v].state = "absent"
            /\ catalog' = [catalog EXCEPT ![v] =
                 [state |-> "published", digest |-> d, key |-> None]]
      BY <2>2 DEF PublishV1
    <3> QED BY <1>0, <3>1, NoneAssumption DEF CatalogRow, RowsAreWhole
  <2> QED BY <2>1, <2>2
<1>3. outbox' \in Seq(OutboxEvent)
  <2>1. /\ Event("version_revoked", v) \in OutboxEvent
        /\ Event("version_published", v) \in OutboxEvent
    BY DEF Event, OutboxEvent
  <2>2. \E e \in OutboxEvent : outbox' = Append(outbox, e)
    BY <2>1 DEF RevokeVersion, PublishV1
  <2> QED BY <1>0, <2>2
<1>4. TypeOK' BY <1>1, <1>2, <1>3 DEF IInv, TypeOK, NoReply
<1>5. AttemptsHaveIdentity' /\ LedgerRowsMatch'
  BY <1>1 DEF IInv, AttemptsHaveIdentity, LedgerRowsMatch
<1>6. CallsMatchAttempts' /\ CallsMatchLedger'
  BY <1>1 DEF IInv, CallsMatchAttempts, CallsMatchLedger
<1>7. CommittedAttemptsAreRows'
  <2>1. \A a \in Attempt : attempts[a].state = "committed" => attempts[a].version \in Version
    BY DEF IInv, AttemptsHaveIdentity
  <2> QED BY <1>1, <1>2, <2>1 DEF IInv, CommittedAttemptsAreRows
<1>8. RowsHaveObjects' BY <1>1, <1>2 DEF IInv, RowsHaveObjects
<1>9. ClaimsDoomed' /\ LateDeletesDoomed'
  BY <1>1 DEF IInv, ClaimsDoomed, LateDeletesDoomed
<1> QED BY <1>2, <1>4, <1>5, <1>6, <1>7, <1>8, <1>9 DEF IInv

LEMMA IInvInit == Init => IInv
<1> SUFFICES ASSUME Init PROVE IInv OBVIOUS
<1>1. TypeOK BY TypeInit
<1>2. /\ AttemptsHaveIdentity /\ RowsAreWhole /\ LedgerRowsMatch
      /\ RowsHaveObjects /\ ClaimsDoomed /\ LateDeletesDoomed
  BY DEF Init, AttemptsHaveIdentity, RowsAreWhole, LedgerRowsMatch,
         RowsHaveObjects, ClaimsDoomed, LateDeletesDoomed
<1>3. CallsMatchAttempts /\ CallsMatchLedger
  BY DEF Init, Idle, CallsMatchAttempts, CallsMatchLedger
<1>4. CommittedAttemptsAreRows
  BY NoneAssumption DEF Init, CommittedAttemptsAreRows
<1> QED BY <1>1, <1>2, <1>3, <1>4 DEF IInv

LEMMA IInvNext == IInv /\ [Next]_vars => IInv'
<1> SUFFICES ASSUME IInv, [Next]_vars PROVE IInv' OBVIOUS
<1>1. CASE \E p \in Publisher : Publish(p)
  <2>1. PICK p \in Publisher : Publish(p) BY <1>1
  <2>2. CASE \E k \in Key, v \in Version, d \in Digest : Reserve(p, k, v, d)
    BY <2>2, ReserveStep
  <2>3. CASE Replay(p) BY <2>3, ReplayStep
  <2>4. CASE StageOwned(p) BY <2>4, StageOwnedStep
  <2>5. CASE StageFails(p) BY <2>5, StageFailsStep
  <2>6. CASE Commit(p) BY <2>6, CommitStep
  <2>7. CASE PublishFails(p) BY <2>7, PublishFailsStep
  <2> QED BY <2>1, <2>2, <2>3, <2>4, <2>5, <2>6, <2>7 DEF Publish
<1>2. CASE \E c \in Cleaner : Cleanup(c)
  <2>1. PICK c \in Cleaner : Cleanup(c) BY <1>2
  <2>2. CASE \E S \in SUBSET Attempt : Claim(c, S) BY <2>2, ClaimStep
  <2>3. CASE \E m \in clean[c] : DeleteOwned(c, m) \/ DeleteFails(c, m)
    BY <2>3, DeleteStep
  <2>4. CASE \E m \in clean[c] : Finish(c, m) BY <2>4, FinishStep
  <2>5. CASE CleanupFails(c) BY <2>5, CleanupFailsStep
  <2> QED BY <2>1, <2>2, <2>3, <2>4, <2>5 DEF Cleanup
<1>3. CASE \E a \in Attempt :
             LeaseExpires(a) \/ ClaimExpires(a) \/ LatePut(a) \/ LateDelete(a)
  BY <1>3, EnvironmentStep
<1>4. CASE \E v \in Version : RevokeVersion(v) \/ \E d \in Digest : PublishV1(v, d)
  BY <1>4, CatalogStep
<1>5. CASE ChangePolicy
  BY <1>5, PolicyStep
<1>6. CASE UNCHANGED vars
  <2>1. UNCHANGED <<catalog, attempts, ledger, objects, puts, dels, pub, clean,
                    policy, outbox, reply>>
    BY <1>6 DEF vars
  <2>2. TypeOK' BY <2>1 DEF IInv, TypeOK
  <2>3. Decays /\ LosesOnlyDoomed BY <2>1 DEF Decays, LosesOnlyDoomed
  <2>4. /\ LedgerRowsMatch' /\ KeepsIdentity
        /\ ClaimsDoomed' /\ LateDeletesDoomed'
    BY <2>1, <2>3, DecayKeeps
  <2> QED BY <2>1, <2>2, <2>3, <2>4, DecayStep
<1> QED BY <1>1, <1>2, <1>3, <1>4, <1>5, <1>6 DEF Next

-----------------------------------------------------------------------------
(* The theorems.                                                           *)

(* The inductive invariant holds in every behaviour of the store.          *)
THEOREM PublicationInvariant == Spec => []IInv
  BY IInvInit, IInvNext, PTL DEF Spec

(* Every table and every call keeps its shape, for any number of calls,    *)
(* cleaners and keys.                                                      *)
THEOREM PublicationTypeOK == Spec => []TypeOK
<1>1. IInv => TypeOK BY DEF IInv
<1> QED BY <1>1, PublicationInvariant, PTL

(* No interleaving of publishers, cleaners, late PUTs and late DELETEs     *)
(* loses or replaces the object of an admitted version: publication.go     *)
(* commits only staged attempts and deletes only claimed ones.             *)
THEOREM AdmittedObjectsAreSafe == Spec => []OwnedObjectsPresent
<1>1. IInv => OwnedObjectsPresent
  BY DEF IInv, RowsHaveObjects, OwnedObjectsPresent, Readable
<1> QED BY <1>1, PublicationInvariant, PTL

(* Committed attempts and the catalog rows that own an object are in one   *)
(* to one correspondence, whichever of several racing commits wins.        *)
THEOREM CommitsAreRows == Spec => []CommittedAttemptsAreRows
<1>1. IInv => CommittedAttemptsAreRows BY DEF IInv
<1> QED BY <1>1, PublicationInvariant, PTL

(* Every deletion ordered by Cleanup, finished, pending or lost in the     *)
(* network, is of an attempt that can never be committed any more.         *)
THEOREM DeletionsAreSafe == Spec => []DeletesOnlyDoomed
<1>1. IInv => DeletesOnlyDoomed
  BY DEF IInv, ClaimsDoomed, LateDeletesDoomed, DeletesOnlyDoomed, DeleteOrders
<1> QED BY <1>1, PublicationInvariant, PTL

-----------------------------------------------------------------------------
(* Step properties and refinement.                                         *)

(* What a step may do to the catalog, in the terms of the abstract         *)
(* registry: nothing, one admission, or one revocation.                    *)
CatalogKept == catalog' = catalog /\ outbox' = outbox

Admits(v, d, a) ==
  /\ catalog[v].state = "absent"
  /\ catalog' = [catalog EXCEPT ![v] =
                   [state |-> "published", digest |-> d, key |-> a]]
  /\ outbox' = Append(outbox, Event("version_published", v))

Revokes(v) ==
  /\ catalog[v].state = "published"
  /\ catalog' = [catalog EXCEPT ![v].state = "revoked"]
  /\ outbox' = Append(outbox, Event("version_revoked", v))

LEMMA CatalogChanges ==
  ASSUME IInv, [Next]_vars
  PROVE  \/ CatalogKept
         \/ \E v \in Version : Revokes(v)
         \/ \E v \in Version, d \in Digest : Admits(v, d, None)
         \/ \E p \in Publisher :
              /\ pub[p].version \in Version /\ pub[p].digest \in Digest
              /\ pub[p].attempt \in Attempt
              /\ Fence(pub[p].version, pub[p].policy)
              /\ Admits(pub[p].version, pub[p].digest, pub[p].attempt)
<1>1. CASE \E p \in Publisher : Publish(p)
  <2>1. PICK p \in Publisher : Publish(p) BY <1>1
  <2>2. CASE Commit(p)
    <3>1. /\ pub[p].version \in Version /\ pub[p].digest \in Digest
          /\ pub[p].attempt \in Attempt
      BY <2>2 DEF Commit, IInv, CallsMatchAttempts
    <3>2. CASE CommitAdmit(p, pub[p]) BY <3>1, <3>2 DEF CommitAdmit, Admits
    <3>3. CASE ~CommitAdmit(p, pub[p])
      BY <2>2, <3>3 DEF Commit, CommitDenied, CommitAgain, CommitConflict,
                        CommitAlias, CatalogKept
    <3> QED BY <3>2, <3>3
  <2>3. CASE ~Commit(p)
    BY <2>1, <2>3 DEF Publish, Reserve, Replay, StageOwned, StageFails,
                      PublishFails, CatalogKept
  <2> QED BY <2>2, <2>3
<1>2. CASE \E c \in Cleaner : Cleanup(c)
  BY <1>2 DEF Cleanup, Claim, DeleteOwned, DeleteFails, Finish, CleanupFails, CatalogKept
<1>3. CASE \E a \in Attempt :
             LeaseExpires(a) \/ ClaimExpires(a) \/ LatePut(a) \/ LateDelete(a)
  BY <1>3 DEF LeaseExpires, ClaimExpires, LatePut, LateDelete, CatalogKept
<1>4. CASE \E v \in Version : RevokeVersion(v) \/ \E d \in Digest : PublishV1(v, d)
  BY <1>4 DEF RevokeVersion, PublishV1, Live, Revokes, Admits
<1>5. CASE ChangePolicy \/ UNCHANGED vars
  BY <1>5 DEF ChangePolicy, vars, CatalogKept
<1> QED BY <1>1, <1>2, <1>3, <1>4, <1>5 DEF Next

LEMMA AdmitRefines ==
  ASSUME IInv, NEW v \in Version, NEW d \in Digest, NEW a, Admits(v, d, a)
  PROVE  Registry!Admit(v, d)
<1>0. /\ catalog \in [Version -> CatalogRow]
      /\ \A w \in Version : catalog[w].state = "absent" <=> catalog[w].digest = None
  BY DEF IInv, TypeOK, RowsAreWhole
<1>1. /\ catalog'[v] = [state |-> "published", digest |-> d, key |-> a]
      /\ \A w \in Version : w # v => catalog'[w] = catalog[w]
  BY <1>0 DEF Admits
<1>2. [w \in Version |-> catalog'[w].digest] =
        [[w \in Version |-> catalog[w].digest] EXCEPT ![v] = d]
  <2>1. catalog'[v].digest = d BY <1>1
  <2>2. \A w \in Version : w # v => catalog'[w].digest = catalog[w].digest BY <1>1
  <2> QED BY ONLY v \in Version, <2>1, <2>2
<1>3. {w \in Version : catalog'[w].state = "revoked"} =
        {w \in Version : catalog[w].state = "revoked"}
  BY <1>1 DEF Admits
<1>4. [w \in Version |-> catalog[w].digest][v] = None BY <1>0 DEF Admits
<1>5. outbox' = Append(outbox, Registry!Event("version_published", v))
  BY DEF Admits, Event, Registry!Event
<1> QED BY <1>2, <1>3, <1>4, <1>5 DEF Registry!Admit

LEMMA RevokeRefines ==
  ASSUME IInv, NEW v \in Version, Revokes(v)
  PROVE  Registry!Revoke(v)
<1>0. /\ catalog \in [Version -> CatalogRow]
      /\ \A w \in Version : catalog[w].state = "absent" <=> catalog[w].digest = None
  BY DEF IInv, TypeOK, RowsAreWhole
<1>1. /\ catalog'[v].state = "revoked" /\ catalog'[v].digest = catalog[v].digest
      /\ \A w \in Version : w # v => catalog'[w] = catalog[w]
  BY <1>0 DEF Revokes, CatalogRow
<1>2. [w \in Version |-> catalog'[w].digest] = [w \in Version |-> catalog[w].digest]
  BY <1>1
<1>3. {w \in Version : catalog'[w].state = "revoked"} =
        {w \in Version : catalog[w].state = "revoked"} \union {v}
  BY <1>1
<1>4. /\ [w \in Version |-> catalog[w].digest][v] # None
      /\ v \notin {w \in Version : catalog[w].state = "revoked"}
  BY <1>0 DEF Revokes
<1>5. outbox' = Append(outbox, Registry!Event("version_revoked", v))
  BY DEF Revokes, Event, Registry!Event
<1> QED BY <1>2, <1>3, <1>4, <1>5 DEF Registry!Revoke

(* The store with its attempts, leases, retries and cleaners implements    *)
(* the abstract registry: versions are immutable, revocation is terminal,  *)
(* and admission and revocation each emit exactly one outbox event.        *)
THEOREM PublicationRefinesRegistry == Spec => RefinesRegistry
<1>1. Init => Registry!Init
  <2> SUFFICES ASSUME Init PROVE Registry!Init OBVIOUS
  <2>1. \A v \in Version : catalog[v].digest = None /\ catalog[v].state = "absent"
    BY DEF Init
  <2>2. /\ [v \in Version |-> catalog[v].digest] = [v \in Version |-> None]
        /\ {v \in Version : catalog[v].state = "revoked"} = {}
    BY <2>1
  <2> QED BY <2>2 DEF Init, Registry!Init
<1>2. IInv /\ [Next]_vars => [Registry!Next]_(Registry!vars)
  <2> SUFFICES ASSUME IInv, [Next]_vars PROVE [Registry!Next]_(Registry!vars)
    OBVIOUS
  <2>1. CASE CatalogKept
    <3>1. /\ [w \in Version |-> catalog'[w].digest] = [w \in Version |-> catalog[w].digest]
          /\ {w \in Version : catalog'[w].state = "revoked"} =
               {w \in Version : catalog[w].state = "revoked"}
          /\ outbox' = outbox
      BY <2>1 DEF CatalogKept
    <3> QED BY <3>1 DEF Registry!vars
  <2>2. CASE \E v \in Version : Revokes(v)
    BY <2>2, RevokeRefines DEF Registry!Next
  <2>3. CASE \E v \in Version, d \in Digest, a \in Attempt \union {None} : Admits(v, d, a)
    BY <2>3, AdmitRefines DEF Registry!Next
  <2> QED BY <2>1, <2>2, <2>3, CatalogChanges
<1> QED BY <1>1, <1>2, PublicationInvariant, PTL DEF Spec, RefinesRegistry, Registry!Spec

(* A v2 row enters the catalog only under a fence evaluated in the very    *)
(* transaction that inserts it: current policy generation, live            *)
(* dependencies, however long the PUT before it took.                      *)
THEOREM PublicationIsFenced == Spec => AdmissionIsFenced
<1> DEFINE Fenced ==
      \A v \in Version :
        catalog[v].key = None /\ catalog'[v].key # None =>
          /\ DepsLive(v)
          /\ \E p \in Publisher : /\ pub[p].attempt = catalog'[v].key
                                  /\ pub[p].policy = policy
<1>1. IInv /\ [Next]_vars => [Fenced]_vars
  <2> SUFFICES ASSUME IInv, [Next]_vars, NEW v \in Version,
                      catalog[v].key = None, catalog'[v].key # None
               PROVE  /\ DepsLive(v)
                      /\ \E p \in Publisher : /\ pub[p].attempt = catalog'[v].key
                                              /\ pub[p].policy = policy
    OBVIOUS
  <2>0. catalog \in [Version -> CatalogRow] BY DEF IInv, TypeOK
  <2>1. ~CatalogKept BY DEF CatalogKept
  <2>2. \A w \in Version : ~Revokes(w) BY <2>0 DEF Revokes, CatalogRow
  <2>3. \A w \in Version, d \in Digest : ~Admits(w, d, None) BY <2>0 DEF Admits
  <2>4. PICK p \in Publisher :
          /\ pub[p].version \in Version
          /\ Fence(pub[p].version, pub[p].policy)
          /\ Admits(pub[p].version, pub[p].digest, pub[p].attempt)
    BY <2>1, <2>2, <2>3, CatalogChanges
  <2>5. v = pub[p].version /\ catalog'[v].key = pub[p].attempt
    BY <2>0, <2>4 DEF Admits
  <2> QED BY <2>4, <2>5 DEF Fence
<1> QED BY <1>1, PublicationInvariant, PTL DEF Spec, AdmissionIsFenced

-----------------------------------------------------------------------------
(* How the row of an attempt moves.                                        *)

(* A step that neither claims, finishes nor creates leaves a row alone, or *)
(* renews or ends its lease, ends its claim, or commits or retires it.     *)
QuietRow(a) ==
  LET o == attempts[a]
      n == attempts'[a]
  IN  \/ n = o
      \/ /\ n.gen = o.gen
         /\ n.claimed = o.claimed
         /\ o.state \in {"staged", "retired"}
         /\ \/ n.state = o.state
            \/ o.state = "staged" /\ n.state \in {"committed", "retired"}
      \/ /\ o.claimed
         /\ n = [o EXCEPT !.claimed = FALSE]

(* A step that draws an attempt within the quota.                          *)
DrawsAttempt ==
  /\ Cardinality(Active) < MaxActive
  /\ \E a \in Attempt, v \in Version, d \in Digest : NewAttempt(a, v, d)
  /\ clean' = clean

(* A pass goes on to its next claim, or ends.                              *)
PassesGoOn ==
  \A c \in Cleaner :
    \/ clean'[c] \subseteq clean[c]
    \/ \E m \in clean[c] : clean'[c] = (clean[c] \ {m}) \union {Tried(m)}

LEMMA UnchangedIsQuiet ==
  ASSUME IInv, attempts' = attempts PROVE \A a \in Attempt : QuietRow(a)
BY DEF QuietRow

LEMMA ReserveMoves ==
  ASSUME IInv, NEW p \in Publisher, NEW k \in Key, NEW v \in Version,
         NEW d \in Digest, Reserve(p, k, v, d), IsFiniteSet(Active)
  PROVE  /\ clean' = clean
         /\ (\A a \in Attempt : QuietRow(a)) \/ DrawsAttempt
<1>0. clean' = clean /\ attempts \in [Attempt -> AttemptRow]
  BY DEF Reserve, IInv, TypeOK
<1>1. CASE attempts' = attempts
  BY <1>0, <1>1, UnchangedIsQuiet
<1>2. CASE k \in Ledgered /\ KnownRenew(p, k, v, d)
  <2> DEFINE b == ledger[k].attempt
  <2>1. /\ attempts[b].state = "staged"
        /\ attempts' = [attempts EXCEPT ![b].leased = TRUE]
    BY <1>2 DEF KnownRenew
  <2>2. \A a \in Attempt : QuietRow(a)
    BY <1>0, <2>1 DEF QuietRow, AttemptRow
  <2> QED BY <1>0, <2>2
<1>3. CASE k \in Ledgered /\ KnownAgain(p, k, v, d)
  BY <1>0, <1>1, <1>3 DEF KnownAgain, DrawsAttempt
<1>4. CASE FreshReserve(p, k, v, d)
  <2>1. Cardinality(Active) < MaxActive
    BY <1>4, FS_CardinalityType, BoundsAssumption DEF FreshReserve, OverQuota
  <2> QED BY <1>0, <1>4, <2>1 DEF FreshReserve, DrawsAttempt
<1> QED
  BY <1>0, <1>1, <1>2, <1>3, <1>4
  DEF Reserve, KnownConflict, KnownReplay, FreshRefused, FreshConflict, FreshAlias

LEMMA CommitMoves ==
  ASSUME IInv, NEW p \in Publisher, Commit(p)
  PROVE  clean' = clean /\ \A a \in Attempt : QuietRow(a)
<1> DEFINE r == pub[p]
<1>0. /\ clean' = clean /\ attempts \in [Attempt -> AttemptRow] /\ r.attempt \in Attempt
  BY DEF Commit, IInv, TypeOK, CallsMatchAttempts
<1>1. CASE attempts' = attempts
  BY <1>0, <1>1, UnchangedIsQuiet
<1>2. CASE CommitAlias(p, r)
  <2>1. CASE /\ attempts[r.attempt].state = "staged"
             /\ attempts' = [attempts EXCEPT ![r.attempt].state = "retired",
                                             ![r.attempt].leased = TRUE]
    BY <1>0, <2>1 DEF QuietRow, AttemptRow
  <2> QED BY <1>1, <1>2, <2>1 DEF CommitAlias
<1>3. CASE CommitAdmit(p, r)
  <2>1. /\ attempts[r.attempt].state = "staged"
        /\ attempts' = [attempts EXCEPT ![r.attempt].state = "committed"]
    BY <1>3 DEF CommitAdmit
  <2> QED BY <1>0, <2>1 DEF QuietRow, AttemptRow
<1> QED
  BY <1>1, <1>2, <1>3 DEF Commit, CommitDenied, CommitAgain, CommitConflict

LEMMA ExpiryMoves ==
  ASSUME IInv, NEW a \in Attempt,
         LeaseExpires(a) \/ ClaimExpires(a) \/ LatePut(a) \/ LateDelete(a)
  PROVE  clean' = clean /\ \A b \in Attempt : QuietRow(b)
<1>0. attempts \in [Attempt -> AttemptRow]
  BY DEF IInv, TypeOK
<1>1. CASE LeaseExpires(a)
  BY <1>0, <1>1 DEF LeaseExpires, QuietRow, AttemptRow
<1>2. CASE ClaimExpires(a)
  BY <1>0, <1>2 DEF ClaimExpires, QuietRow
<1>3. CASE LatePut(a) \/ LateDelete(a)
  BY <1>3, UnchangedIsQuiet DEF LatePut, LateDelete
<1> QED BY <1>1, <1>2, <1>3

(* Every step is of one of four kinds.                                     *)
LEMMA AttemptsMove ==
  ASSUME IInv, IsFiniteSet(Active), [Next]_vars
  PROVE  \/ /\ \A a \in Attempt : QuietRow(a)
            /\ PassesGoOn
         \/ DrawsAttempt
         \/ \E c \in Cleaner, S \in SUBSET Attempt : Claim(c, S)
         \/ \E c \in Cleaner : \E m \in clean[c] : Finish(c, m)
<1>0. clean \in [Cleaner -> SUBSET ClaimRec]
  BY DEF IInv, TypeOK
<1>1. clean' = clean => PassesGoOn
  BY DEF PassesGoOn
<1>2. CASE \E p \in Publisher : Publish(p)
  <2>1. PICK p \in Publisher : Publish(p)
    BY <1>2
  <2>2. CASE \E k \in Key, v \in Version, d \in Digest : Reserve(p, k, v, d)
    BY <1>1, <2>2, ReserveMoves
  <2>3. CASE Commit(p)
    BY <1>1, <2>3, CommitMoves
  <2>4. CASE Replay(p) \/ StageOwned(p) \/ StageFails(p) \/ PublishFails(p)
    BY <1>1, <2>4, UnchangedIsQuiet DEF Replay, StageOwned, StageFails, PublishFails
  <2> QED BY <2>1, <2>2, <2>3, <2>4 DEF Publish
<1>3. ASSUME NEW c \in Cleaner, Cleanup(c), \A m \in clean[c] : ~Finish(c, m),
             \A S \in SUBSET Attempt : ~Claim(c, S)
      PROVE  (\A a \in Attempt : QuietRow(a)) /\ PassesGoOn
  <2>1. attempts' = attempts
    BY <1>3 DEF Cleanup, DeleteOwned, DeleteFails, CleanupFails
  <2>2. \/ clean' = [clean EXCEPT ![c] = {}]
        \/ \E m \in clean[c] : clean' = [clean EXCEPT ![c] = (@ \ {m}) \union {Tried(m)}]
    BY <1>3 DEF Cleanup, DeleteOwned, DeleteFails, CleanupFails
  <2>3. PassesGoOn
    BY <1>0, <2>2 DEF PassesGoOn
  <2> QED BY <2>1, <2>3, UnchangedIsQuiet
<1>4. CASE \E a \in Attempt :
             LeaseExpires(a) \/ ClaimExpires(a) \/ LatePut(a) \/ LateDelete(a)
  BY <1>1, <1>4, ExpiryMoves
<1>5. CASE \/ \E v \in Version : RevokeVersion(v) \/ \E d \in Digest : PublishV1(v, d)
           \/ ChangePolicy
           \/ UNCHANGED vars
  <2> attempts' = attempts /\ clean' = clean
    BY <1>5 DEF RevokeVersion, PublishV1, ChangePolicy, vars
  <2> QED BY <1>1, UnchangedIsQuiet
<1> QED BY <1>2, <1>3, <1>4, <1>5 DEF Next

-----------------------------------------------------------------------------
(* Quota, claims and generations.                                          *)

(* Only ids that were drawn have rows, and finitely many were.             *)
DrawnFinite == IsFiniteSet({a \in Attempt : attempts[a].state # "unused"})

OnlyDeletingClaimed ==
  \A a \in Attempt : attempts[a].claimed => attempts[a].state = "deleting"

(* A claim never carries a later generation than its attempt, and the      *)
(* latest one finds it still deleting.                                     *)
ClaimsNumbered ==
  \A c \in Cleaner : \A m \in clean[c] :
    /\ m.gen <= attempts[m.attempt].gen
    /\ m.gen = attempts[m.attempt].gen => attempts[m.attempt].state = "deleting"

(* One claim per attempt and generation, over all passes.                  *)
ClaimsUnique ==
  \A c, b \in Cleaner : \A m \in clean[c], n \in clean[b] :
    m.attempt = n.attempt /\ m.gen = n.gen => c = b /\ m = n

CleanInv ==
  /\ DrawnFinite
  /\ StagedWithinQuota
  /\ OnlyDeletingClaimed
  /\ ClaimsNumbered
  /\ ClaimsUnique

LEMMA ActiveFinite ==
  ASSUME DrawnFinite PROVE IsFiniteSet(Active)
BY FS_Subset DEF DrawnFinite, Active

(* Staged attempts that were staged before are no more than before.        *)
LEMMA NoNewStaged ==
  ASSUME IInv, CleanInv,
         \A a \in Attempt : /\ attempts'[a].state = "staged" => attempts[a].state = "staged"
                            /\ attempts'[a].state # "unused" => attempts[a].state # "unused"
  PROVE  DrawnFinite' /\ StagedWithinQuota'
<1> DEFINE before == {a \in Attempt : attempts[a].state = "staged"}
           after == {a \in Attempt : attempts'[a].state = "staged"}
           drawn == {a \in Attempt : attempts[a].state # "unused"}
<1>1. IsFiniteSet(drawn)
  BY DEF CleanInv, DrawnFinite
<1>2. DrawnFinite'
  BY <1>1, FS_Subset DEF DrawnFinite
<1>3. IsFiniteSet(before)
  BY <1>1, FS_Subset
<1>4. after \subseteq before
  OBVIOUS
<1>5. Cardinality(after) <= Cardinality(before) /\ IsFiniteSet(after)
  BY <1>3, <1>4, FS_Subset
<1>6. Cardinality(after) \in Nat /\ Cardinality(before) \in Nat
  BY <1>3, <1>5, FS_CardinalityType
<1>7. Cardinality(before) <= MaxActive
  BY DEF CleanInv, StagedWithinQuota
<1>8. Cardinality(after) <= MaxActive
  BY <1>5, <1>6, <1>7, BoundsAssumption
<1> QED BY <1>2, <1>8 DEF StagedWithinQuota

LEMMA DrawKeepsCleanInv ==
  ASSUME IInv, CleanInv, DrawsAttempt PROVE CleanInv'
<1>0. /\ attempts \in [Attempt -> AttemptRow] /\ clean' = clean
      /\ \A c \in Cleaner : \A m \in clean[c] : m.attempt \in Attempt
  BY DEF DrawsAttempt, IInv, TypeOK, ClaimRec
<1>1. PICK a \in Attempt, v \in Version, d \in Digest : NewAttempt(a, v, d)
  BY DEF DrawsAttempt
<1>2. /\ attempts[a].state = "unused"
      /\ attempts'[a].state = "staged" /\ ~attempts'[a].claimed
      /\ \A b \in Attempt \ {a} : attempts'[b] = attempts[b]
  BY <1>0, <1>1 DEF NewAttempt
<1>3. DrawnFinite'
  <2> DEFINE drawn == {b \in Attempt : attempts[b].state # "unused"}
             now == {b \in Attempt : attempts'[b].state # "unused"}
  <2>1. IsFiniteSet(drawn \union {a})
    BY FS_AddElement DEF CleanInv, DrawnFinite
  <2>2. now \subseteq drawn \union {a}
    BY <1>2
  <2>3. IsFiniteSet(now)
    BY <2>1, <2>2, FS_Subset
  <2> QED BY <2>3 DEF DrawnFinite
<1>4. StagedWithinQuota'
  <2> DEFINE staged == {b \in Attempt : attempts[b].state = "staged"}
             now == {b \in Attempt : attempts'[b].state = "staged"}
  <2>1. IsFiniteSet(Active) /\ staged \subseteq Active
    BY ActiveFinite DEF CleanInv, Active
  <2>2. IsFiniteSet(staged) /\ Cardinality(staged) <= Cardinality(Active)
    BY <2>1, FS_Subset
  <2>3. now = staged \union {a} /\ a \notin staged
    BY <1>2
  <2>4. Cardinality(now) = Cardinality(staged) + 1
    <3> HIDE DEF staged
    <3> QED BY <2>2, <2>3, FS_AddElement
  <2>5. Cardinality(staged) \in Nat /\ Cardinality(Active) \in Nat
    BY <2>1, <2>2, FS_CardinalityType
  <2>6. Cardinality(Active) < MaxActive
    BY DEF DrawsAttempt
  <2>7. Cardinality(now) <= MaxActive
    BY <2>2, <2>4, <2>5, <2>6, BoundsAssumption
  <2> QED BY <2>7 DEF StagedWithinQuota
<1>5. OnlyDeletingClaimed'
  BY <1>2 DEF CleanInv, OnlyDeletingClaimed
<1>6. \A c \in Cleaner : \A m \in clean[c] : m.attempt # a
  BY <1>2 DEF IInv, ClaimsDoomed
<1>7. ClaimsNumbered' /\ ClaimsUnique'
  BY <1>0, <1>2, <1>6 DEF CleanInv, ClaimsNumbered, ClaimsUnique
<1> QED BY <1>3, <1>4, <1>5, <1>7 DEF CleanInv

LEMMA QuietKeepsCleanInv ==
  ASSUME IInv, CleanInv, \A a \in Attempt : QuietRow(a), PassesGoOn PROVE CleanInv'
<1>0. /\ attempts \in [Attempt -> AttemptRow]
      /\ \A c \in Cleaner : clean[c] \subseteq ClaimRec
  BY DEF IInv, TypeOK
<1>1. DrawnFinite' /\ StagedWithinQuota'
  <2>1. \A a \in Attempt :
          /\ attempts'[a].state = "staged" => attempts[a].state = "staged"
          /\ attempts'[a].state # "unused" => attempts[a].state # "unused"
    BY <1>0 DEF QuietRow, AttemptRow
  <2> QED BY <2>1, NoNewStaged
<1>2. OnlyDeletingClaimed'
  BY <1>0 DEF QuietRow, AttemptRow, CleanInv, OnlyDeletingClaimed
<1>3. \A a \in Attempt : /\ attempts'[a].gen = attempts[a].gen
                         /\ attempts[a].state = "deleting" => attempts'[a].state = "deleting"
  BY <1>0 DEF QuietRow, AttemptRow
<1>4. ASSUME NEW c \in Cleaner, NEW m \in clean'[c]
      PROVE  \E o \in clean[c] : o.attempt = m.attempt /\ o.gen = m.gen
  BY <1>0 DEF PassesGoOn, Tried, ClaimRec
<1>5. ClaimsNumbered'
  <2> SUFFICES ASSUME NEW c \in Cleaner, NEW m \in clean'[c]
               PROVE  /\ m.gen <= attempts'[m.attempt].gen
                      /\ m.gen = attempts'[m.attempt].gen =>
                           attempts'[m.attempt].state = "deleting"
    BY DEF ClaimsNumbered
  <2>1. PICK o \in clean[c] : o.attempt = m.attempt /\ o.gen = m.gen
    BY <1>4
  <2>2. o.attempt \in Attempt
    BY <1>0 DEF ClaimRec
  <2> QED BY <1>3, <2>1, <2>2 DEF CleanInv, ClaimsNumbered
<1>6. ClaimsUnique'
  <2> SUFFICES ASSUME NEW c \in Cleaner, NEW b \in Cleaner,
                      NEW m \in clean'[c], NEW n \in clean'[b],
                      m.attempt = n.attempt, m.gen = n.gen
               PROVE  c = b /\ m = n
    BY DEF ClaimsUnique
  <2>1. c = b
    BY <1>4 DEF CleanInv, ClaimsUnique
  <2>2. CASE clean'[c] \subseteq clean[c]
    BY <2>1, <2>2 DEF CleanInv, ClaimsUnique
  <2>3. CASE \E x \in clean[c] : clean'[c] = (clean[c] \ {x}) \union {Tried(x)}
    <3>1. PICK x \in clean[c] : clean'[c] = (clean[c] \ {x}) \union {Tried(x)}
      BY <2>3
    <3>2. Tried(x).attempt = x.attempt /\ Tried(x).gen = x.gen
      BY <1>0 DEF Tried, ClaimRec
    <3> QED BY <2>1, <3>1, <3>2 DEF CleanInv, ClaimsUnique
  <2> QED BY <2>2, <2>3 DEF PassesGoOn
<1> QED BY <1>1, <1>2, <1>5, <1>6 DEF CleanInv

LEMMA ClaimKeepsCleanInv ==
  ASSUME IInv, CleanInv, NEW c \in Cleaner, NEW S \in SUBSET Attempt, Claim(c, S)
  PROVE  CleanInv'
<1>0. /\ attempts \in [Attempt -> AttemptRow] /\ clean \in [Cleaner -> SUBSET ClaimRec]
      /\ \A b \in Cleaner : \A m \in clean[b] :
           m.attempt \in Attempt /\ m.gen \in Nat
      /\ \A a \in Attempt : attempts[a].gen \in Nat
  BY DEF IInv, TypeOK, ClaimRec, AttemptRow
<1>1. /\ \A a \in S : /\ attempts'[a].state = "deleting"
                      /\ attempts'[a].gen = attempts[a].gen + 1
      /\ \A a \in Attempt \ S : attempts'[a] = attempts[a]
  BY <1>0 DEF Claim, AttemptRow
<1>2. clean[c] = {} /\ \A a \in S : attempts[a].state \in {"staged", "deleting", "retired"}
  BY DEF Claim, Claimable
<1>3. /\ \A b \in Cleaner \ {c} : clean'[b] = clean[b]
      /\ \A m \in clean'[c] : m.attempt \in S /\ m.gen = attempts[m.attempt].gen + 1
      /\ \A m, n \in clean'[c] : m.attempt = n.attempt => m = n
  <2> DEFINE new(a) == [attempt |-> a, gen |-> attempts[a].gen + 1, done |-> FALSE]
  <2>1. clean' = [clean EXCEPT ![c] = {new(a) : a \in S}]
    BY DEF Claim
  <2>2. \A a \in S : new(a).attempt = a /\ new(a).gen = attempts[a].gen + 1
    OBVIOUS
  <2> HIDE DEF new
  <2>3. clean'[c] = {new(a) : a \in S} /\ \A b \in Cleaner \ {c} : clean'[b] = clean[b]
    BY <1>0, <2>1
  <2> QED BY <2>2, <2>3
<1>4. DrawnFinite' /\ StagedWithinQuota'
  <2>1. \A a \in Attempt :
          /\ attempts'[a].state = "staged" => attempts[a].state = "staged"
          /\ attempts'[a].state # "unused" => attempts[a].state # "unused"
    BY <1>1, <1>2
  <2> QED BY <2>1, NoNewStaged
<1>5. OnlyDeletingClaimed'
  BY <1>1 DEF CleanInv, OnlyDeletingClaimed
<1>6. \A b \in Cleaner : \A m \in clean[b] : m.gen <= attempts[m.attempt].gen
  BY DEF CleanInv, ClaimsNumbered
<1>7. ClaimsNumbered'
  <2> SUFFICES ASSUME NEW b \in Cleaner, NEW m \in clean'[b]
               PROVE  /\ m.gen <= attempts'[m.attempt].gen
                      /\ m.gen = attempts'[m.attempt].gen =>
                           attempts'[m.attempt].state = "deleting"
    BY DEF ClaimsNumbered
  <2>1. CASE b = c
    BY <1>0, <1>1, <1>3, <2>1
  <2>2. CASE b # c
    <3>1. m \in clean[b] /\ m.attempt \in Attempt /\ m.gen \in Nat
      BY <1>0, <1>3, <2>2
    <3>2. CASE m.attempt \in S
      BY <1>0, <1>1, <1>6, <3>1, <3>2
    <3>3. CASE m.attempt \notin S
      BY <1>1, <3>1, <3>3 DEF CleanInv, ClaimsNumbered
    <3> QED BY <3>2, <3>3
  <2> QED BY <2>1, <2>2
<1>8. ClaimsUnique'
  <2>1. ASSUME NEW b \in Cleaner \ {c}, NEW m \in clean'[c], NEW n \in clean[b],
               m.attempt = n.attempt, m.gen = n.gen
        PROVE  FALSE
    BY <1>0, <1>3, <1>6, <2>1
  <2> SUFFICES ASSUME NEW x \in Cleaner, NEW y \in Cleaner,
                      NEW m \in clean'[x], NEW n \in clean'[y],
                      m.attempt = n.attempt, m.gen = n.gen
               PROVE  x = y /\ m = n
    BY DEF ClaimsUnique
  <2>2. CASE x = c /\ y = c
    BY <1>3, <2>2
  <2>3. CASE x # c /\ y # c
    BY <1>3, <2>3 DEF CleanInv, ClaimsUnique
  <2>4. CASE x = c /\ y # c
    BY <1>3, <2>1, <2>4
  <2>5. CASE x # c /\ y = c
    BY <1>3, <2>1, <2>5
  <2> QED BY <2>2, <2>3, <2>4, <2>5
<1> QED BY <1>4, <1>5, <1>7, <1>8 DEF CleanInv

LEMMA FinishKeepsCleanInv ==
  ASSUME IInv, CleanInv, NEW c \in Cleaner, NEW f \in clean[c], Finish(c, f)
  PROVE  CleanInv'
<1>0. /\ attempts \in [Attempt -> AttemptRow] /\ clean \in [Cleaner -> SUBSET ClaimRec]
      /\ \A b \in Cleaner : \A m \in clean[b] :
           m.attempt \in Attempt /\ m.gen \in Nat
      /\ \A a \in Attempt : attempts[a].gen \in Nat
  BY DEF IInv, TypeOK, ClaimRec, AttemptRow
<1>1. /\ \A b \in Cleaner : clean'[b] \subseteq clean[b]
      /\ f \notin clean'[c]
  BY <1>0 DEF Finish
<1>2. ClaimsUnique'
  BY <1>1 DEF CleanInv, ClaimsUnique
<1>3. CASE attempts' = attempts
  <2>1. DrawnFinite' /\ StagedWithinQuota' /\ OnlyDeletingClaimed'
    BY <1>3 DEF CleanInv, DrawnFinite, StagedWithinQuota, OnlyDeletingClaimed
  <2>2. ClaimsNumbered'
    BY <1>1, <1>3 DEF CleanInv, ClaimsNumbered
  <2> QED BY <1>2, <2>1, <2>2 DEF CleanInv
<1>4. CASE /\ attempts[f.attempt].state = "deleting"
           /\ attempts[f.attempt].gen = f.gen
           /\ attempts' = [attempts EXCEPT ![f.attempt].state = "retired",
                                           ![f.attempt].claimed = FALSE,
                                           ![f.attempt].leased = TRUE]
  <2>1. /\ attempts'[f.attempt].state = "retired" /\ ~attempts'[f.attempt].claimed
        /\ attempts'[f.attempt].gen = attempts[f.attempt].gen
        /\ \A a \in Attempt \ {f.attempt} : attempts'[a] = attempts[a]
    BY <1>0, <1>4 DEF AttemptRow
  <2>2. DrawnFinite' /\ StagedWithinQuota'
    <3>1. \A a \in Attempt :
            /\ attempts'[a].state = "staged" => attempts[a].state = "staged"
            /\ attempts'[a].state # "unused" => attempts[a].state # "unused"
      BY <1>4, <2>1
    <3> QED BY <3>1, NoNewStaged
  <2>3. OnlyDeletingClaimed'
    BY <2>1 DEF CleanInv, OnlyDeletingClaimed
  <2>4. ClaimsNumbered'
    <3> SUFFICES ASSUME NEW b \in Cleaner, NEW m \in clean'[b]
                 PROVE  /\ m.gen <= attempts'[m.attempt].gen
                        /\ m.gen = attempts'[m.attempt].gen =>
                             attempts'[m.attempt].state = "deleting"
      BY DEF ClaimsNumbered
    <3>1. m \in clean[b] /\ m.attempt \in Attempt
      BY <1>0, <1>1
    <3>2. CASE m.attempt = f.attempt
      <4>1. m.gen # f.gen
        BY <1>1, <3>1, <3>2 DEF CleanInv, ClaimsUnique
      <4> QED BY <1>4, <2>1, <3>1, <3>2, <4>1 DEF CleanInv, ClaimsNumbered
    <3>3. CASE m.attempt # f.attempt
      BY <2>1, <3>1, <3>3 DEF CleanInv, ClaimsNumbered
    <3> QED BY <3>2, <3>3
  <2> QED BY <1>2, <2>2, <2>3, <2>4 DEF CleanInv
<1> QED BY <1>3, <1>4 DEF Finish

(* The quota and the claims, in every state.                               *)
THEOREM CleanersKeepCount == Spec => []CleanInv
<1>1. Init => CleanInv
  <2> SUFFICES ASSUME Init PROVE CleanInv
    OBVIOUS
  <2>1. /\ {a \in Attempt : attempts[a].state # "unused"} = {}
        /\ {a \in Attempt : attempts[a].state = "staged"} = {}
    BY DEF Init
  <2>2. DrawnFinite /\ StagedWithinQuota
    <3>1. IsFiniteSet({}) /\ Cardinality({}) = 0 /\ 0 <= MaxActive
      BY FS_EmptySet, BoundsAssumption
    <3> QED BY <2>1, <3>1, Zenon DEF DrawnFinite, StagedWithinQuota
  <2> QED BY <2>2 DEF Init, CleanInv, OnlyDeletingClaimed, ClaimsNumbered, ClaimsUnique
<1>2. IInv /\ CleanInv /\ [Next]_vars => CleanInv'
  <2> SUFFICES ASSUME IInv, CleanInv, [Next]_vars PROVE CleanInv'
    OBVIOUS
  <2>1. IsFiniteSet(Active)
    BY ActiveFinite DEF CleanInv
  <2> QED BY <2>1, AttemptsMove, QuietKeepsCleanInv, DrawKeepsCleanInv,
             ClaimKeepsCleanInv, FinishKeepsCleanInv
<1> QED BY <1>1, <1>2, PublicationInvariant, PTL DEF Spec

(* The workspace never stages more attempts than its quota, though two     *)
(* reservations create them and cleaners bring retired ones back into the  *)
(* count (the SELECT count of the reserve transaction).                    *)
THEOREM StagedStaysWithinQuota == Spec => []StagedWithinQuota
<1>1. CleanInv => StagedWithinQuota
  BY DEF CleanInv
<1> QED BY <1>1, CleanersKeepCount, PTL

(* Overlapping passes never undo each other: no attempt that left "staged" *)
(* comes back, a committed one never changes, and a claim of the current   *)
(* generation finds its attempt still deleting and is nobody else's        *)
(* (claim_generation in Cleanup).                                          *)
THEOREM PassesStayCurrent == Spec => CleanersStayCurrent
<1> DEFINE NoRevival ==
      \A a \in Attempt :
        /\ attempts[a].state \in {"deleting", "retired"} =>
             attempts'[a].state \in {"deleting", "retired"}
        /\ attempts[a].state = "committed" => attempts'[a] = attempts[a]
<1>1. CleanInv => CurrentClaimHolds
  BY DEF CleanInv, ClaimsNumbered, ClaimsUnique, CurrentClaimHolds
<1>2. IInv /\ CleanInv /\ [Next]_vars => NoRevival
  <2> SUFFICES ASSUME IInv, CleanInv, [Next]_vars, NEW a \in Attempt
               PROVE  /\ attempts[a].state \in {"deleting", "retired"} =>
                           attempts'[a].state \in {"deleting", "retired"}
                      /\ attempts[a].state = "committed" => attempts'[a] = attempts[a]
    OBVIOUS
  <2>0. attempts \in [Attempt -> AttemptRow] /\ clean \in [Cleaner -> SUBSET ClaimRec]
    BY DEF IInv, TypeOK
  <2>1. CASE QuietRow(a)
    BY <2>0, <2>1 DEF QuietRow, AttemptRow, CleanInv, OnlyDeletingClaimed
  <2>2. CASE DrawsAttempt
    BY <2>0, <2>2 DEF DrawsAttempt, NewAttempt
  <2>3. ASSUME NEW c \in Cleaner, NEW S \in SUBSET Attempt, Claim(c, S)
        PROVE  /\ attempts[a].state \in {"deleting", "retired"} =>
                    attempts'[a].state \in {"deleting", "retired"}
               /\ attempts[a].state = "committed" => attempts'[a] = attempts[a]
    BY <2>0, <2>3 DEF Claim, Claimable, AttemptRow
  <2>4. ASSUME NEW c \in Cleaner, NEW m \in clean[c], Finish(c, m)
        PROVE  /\ attempts[a].state \in {"deleting", "retired"} =>
                    attempts'[a].state \in {"deleting", "retired"}
               /\ attempts[a].state = "committed" => attempts'[a] = attempts[a]
    BY <2>0, <2>4 DEF Finish, AttemptRow, ClaimRec
  <2>5. IsFiniteSet(Active)
    BY ActiveFinite DEF CleanInv
  <2> QED BY <2>1, <2>2, <2>3, <2>4, <2>5, AttemptsMove
<1>3. Spec => [][NoRevival]_vars /\ [][CurrentClaimHolds']_vars
  BY <1>1, <1>2, PublicationInvariant, CleanersKeepCount, PTL DEF Spec
<1> QED BY <1>3, PTL DEF CleanersStayCurrent, AttemptsNeverRevive

-----------------------------------------------------------------------------
(* The ledger and the answers.                                             *)

(* The second half of LedgerNamesAttempt: a call that may still commit its *)
(* staged attempt owns the ledger row of its key.                          *)
OpenCallsOwnRows ==
  \A p \in Publisher :
    pub[p].pc \in {"stage", "commit"} /\ attempts[pub[p].attempt].state = "staged"
      => ledger[pub[p].key].attempt = pub[p].attempt

(* Calls and rows stand still but for attempts that leave "staged" and     *)
(* calls that end, or that go on with the same key and attempt.            *)
LEMMA OwnersKept ==
  ASSUME IInv, OpenCallsOwnRows, ledger' = ledger,
         \A a \in Attempt : attempts'[a].state = "staged" => attempts[a].state = "staged",
         \A p \in Publisher :
           \/ pub'[p].pc = "idle"
           \/ pub'[p].pc = "replay"
           \/ /\ pub[p].pc \in {"stage", "commit"}
              /\ pub'[p].key = pub[p].key /\ pub'[p].attempt = pub[p].attempt
  PROVE  OpenCallsOwnRows'
BY DEF IInv, CallsMatchAttempts, OpenCallsOwnRows

(* A key whose row is rewritten is left to calls whose attempt is no       *)
(* longer staged.                                                          *)
LEMMA NewOwner ==
  ASSUME IInv, OpenCallsOwnRows, NEW p \in Publisher, NEW k \in Key, NEW v \in Version,
         NEW d \in Digest, NEW a \in Attempt, NewAttempt(a, v, d),
         Continue(p, "stage", k, v, d, a),
         k \in Ledgered => attempts[ledger[k].attempt].state # "staged",
         ledger' = [ledger EXCEPT ![k] = [version |-> v, digest |-> d, attempt |-> a]]
  PROVE  OpenCallsOwnRows'
<1>0. /\ attempts \in [Attempt -> AttemptRow] /\ attempts[a].state = "unused"
      /\ ledger \in [Key -> LedgerRow] /\ pub \in [Publisher -> Call]
  BY DEF IInv, TypeOK, NewAttempt
<1> SUFFICES ASSUME NEW q \in Publisher, pub'[q].pc \in {"stage", "commit"},
                    attempts'[pub'[q].attempt].state = "staged"
             PROVE  ledger'[pub'[q].key].attempt = pub'[q].attempt
  BY DEF OpenCallsOwnRows
<1>1. CASE q = p
  BY <1>0, <1>1 DEF Continue
<1>2. CASE q # p
  <2>1. pub'[q] = pub[q]
    BY <1>0, <1>2 DEF Continue
  <2>2. /\ pub[q].attempt \in Attempt /\ pub[q].attempt # a
        /\ pub[q].key \in Key /\ pub[q].version \in Version
        /\ ledger[pub[q].key].version = pub[q].version
    BY <1>0, <2>1 DEF IInv, CallsMatchAttempts, CallsMatchLedger
  <2>3. attempts[pub[q].attempt].state = "staged"
    BY <1>0, <2>1, <2>2 DEF NewAttempt
  <2>4. ledger[pub[q].key].attempt = pub[q].attempt
    BY <2>1, <2>3 DEF OpenCallsOwnRows
  <2>5. pub[q].key \in Ledgered
    BY <2>2, NoneAssumption DEF Ledgered
  <2>6. pub[q].key # k
    BY <2>3, <2>4, <2>5
  <2> QED BY <1>0, <2>1, <2>2, <2>4, <2>6
<1> QED BY <1>1, <1>2

LEMMA ReserveKeepsOwners ==
  ASSUME IInv, OpenCallsOwnRows, NEW p \in Publisher, NEW k \in Key, NEW v \in Version,
         NEW d \in Digest, Reserve(p, k, v, d)
  PROVE  OpenCallsOwnRows'
<1>0. /\ attempts \in [Attempt -> AttemptRow]
      /\ ledger \in [Key -> LedgerRow] /\ pub \in [Publisher -> Call]
  BY DEF IInv, TypeOK
<1>1. CASE /\ UNCHANGED <<attempts, ledger>>
           /\ \E o \in {"refused", "conflict"} : Respond(p, o, v, d)
  <2>1. \A q \in Publisher : pub'[q].pc = "idle" \/ pub'[q] = pub[q]
    BY <1>0, <1>1 DEF Respond, Idle
  <2>2. \A q \in Publisher : pub[q].pc \in {"idle", "replay", "stage", "commit"}
    BY <1>0 DEF Call
  <2> QED BY <1>1, <2>1, <2>2, OwnersKept
<1>2. CASE k \in Ledgered /\ KnownReplay(p, k, v, d)
  BY <1>0, <1>2 DEF KnownReplay, Continue, OpenCallsOwnRows
<1>3. CASE k \in Ledgered /\ KnownRenew(p, k, v, d)
  <2> DEFINE a == ledger[k].attempt
  <2>1. /\ a \in Attempt /\ ledger' = ledger
        /\ attempts' = [attempts EXCEPT ![a].leased = TRUE]
        /\ Continue(p, "stage", k, v, d, a)
    BY <1>3 DEF KnownRenew, Ledgered, IInv, LedgerRowsMatch
  <2>2. \A b \in Attempt : attempts'[b].state = attempts[b].state
    BY <1>0, <2>1, LeaseUpdate
  <2>3. \A q \in Publisher : pub[q].pc # "idle" => pub[q].attempt \in Attempt
    BY DEF IInv, CallsMatchAttempts
  <2> QED BY <1>0, <2>1, <2>2, <2>3 DEF Continue, OpenCallsOwnRows
<1>4. CASE k \in Ledgered /\ KnownAgain(p, k, v, d)
  <2>1. CASE Respond(p, "refused", v, d) /\ UNCHANGED <<attempts, ledger>>
    BY <1>1, <2>1
  <2>2. ASSUME NEW a \in Attempt, NewAttempt(a, v, d),
               ledger' = [ledger EXCEPT ![k].attempt = a],
               Continue(p, "stage", k, v, d, a)
        PROVE  OpenCallsOwnRows'
    <3>1. [ledger[k] EXCEPT !.attempt = a] = [version |-> v, digest |-> d, attempt |-> a]
      BY <1>0, <1>4 DEF KnownAgain, SameIdentity, LedgerRow
    <3>2. ledger' = [ledger EXCEPT ![k] = [version |-> v, digest |-> d, attempt |-> a]]
      BY <1>0, <2>2, <3>1
    <3> QED BY <1>4, <2>2, <3>2, NewOwner DEF KnownAgain
  <2> QED BY <1>4, <2>1, <2>2 DEF KnownAgain
<1>5. CASE k \notin Ledgered /\ FreshAlias(p, k, v, d)
  <2>1. \A q \in Publisher : pub[q].pc # "idle" =>
          pub[q].key # k /\ pub[q].key \in Key
    BY <1>5, NoneAssumption DEF IInv, CallsMatchAttempts, CallsMatchLedger, Ledgered
  <2> QED BY <1>0, <1>5, <2>1 DEF FreshAlias, Respond, Idle, OpenCallsOwnRows
<1>6. CASE k \notin Ledgered /\ FreshReserve(p, k, v, d)
  BY <1>6, NewOwner DEF FreshReserve
<1> QED BY <1>1, <1>2, <1>3, <1>4, <1>5, <1>6
        DEF Reserve, KnownConflict, FreshRefused, FreshConflict

LEMMA CommitKeepsOwners ==
  ASSUME IInv, OpenCallsOwnRows, NEW p \in Publisher, Commit(p)
  PROVE  OpenCallsOwnRows'
<1> DEFINE r == pub[p]
<1>0. /\ attempts \in [Attempt -> AttemptRow] /\ pub \in [Publisher -> Call]
      /\ ledger \in [Key -> LedgerRow] /\ r.pc = "commit"
      /\ r.attempt \in Attempt /\ r.key \in Key
  BY DEF Commit, IInv, TypeOK, CallsMatchAttempts
<1>1. \E o \in {"created", "existing", "conflict", "refused"} :
        Respond(p, o, r.version, r.digest)
  BY DEF Commit, CommitDenied, CommitAgain, CommitConflict, CommitAlias, CommitAdmit
<1>2. \A q \in Publisher : pub'[q].pc = "idle" \/ pub'[q] = pub[q]
  BY <1>0, <1>1 DEF Respond, Idle
<1>3. \A q \in Publisher : pub[q].pc \in {"idle", "replay", "stage", "commit"}
  BY <1>0 DEF Call
<1>4. \A a \in Attempt : attempts'[a].state = "staged" => attempts[a].state = "staged"
  BY <1>0, CommitMoves DEF QuietRow, AttemptRow
<1>5. CASE ledger' = ledger
  BY <1>2, <1>3, <1>4, <1>5, OwnersKept
<1>6. CASE /\ attempts[r.attempt].state = "staged"
           /\ ledger' = [ledger EXCEPT ![r.key].attempt = catalog[r.version].key]
           /\ attempts' = [attempts EXCEPT ![r.attempt].state = "retired",
                                           ![r.attempt].leased = TRUE]
  <2>1. ledger[r.key].attempt = r.attempt
    BY <1>0, <1>6 DEF OpenCallsOwnRows
  <2>2. attempts'[r.attempt].state = "retired"
    BY <1>0, <1>6 DEF AttemptRow
  <2> SUFFICES ASSUME NEW q \in Publisher, pub'[q].pc \in {"stage", "commit"},
                      attempts'[pub'[q].attempt].state = "staged"
               PROVE  ledger'[pub'[q].key].attempt = pub'[q].attempt
    BY DEF OpenCallsOwnRows
  <2>3. pub'[q] = pub[q] /\ pub[q].attempt \in Attempt /\ pub[q].key \in Key
    BY <1>2 DEF IInv, CallsMatchAttempts
  <2>4. ledger[pub[q].key].attempt = pub[q].attempt
    BY <1>4, <2>3 DEF OpenCallsOwnRows
  <2>5. pub[q].key # r.key
    BY <2>1, <2>2, <2>3, <2>4
  <2> QED BY <1>0, <1>6, <2>3, <2>4, <2>5
<1> QED BY <1>5, <1>6 DEF Commit, CommitDenied, CommitAgain, CommitConflict, CommitAlias, CommitAdmit

LEMMA StepKeepsOwners ==
  ASSUME IInv, CleanInv, OpenCallsOwnRows, [Next]_vars PROVE OpenCallsOwnRows'
<1>0. /\ attempts \in [Attempt -> AttemptRow] /\ pub \in [Publisher -> Call]
      /\ clean \in [Cleaner -> SUBSET ClaimRec]
      /\ \A q \in Publisher : pub[q].pc \in {"idle", "replay", "stage", "commit"}
  BY DEF IInv, TypeOK, Call
<1>1. ASSUME NEW p \in Publisher, Publish(p) PROVE OpenCallsOwnRows'
  <2>1. CASE \E k \in Key, v \in Version, d \in Digest : Reserve(p, k, v, d)
    BY <2>1, ReserveKeepsOwners
  <2>2. CASE Commit(p)
    BY <2>2, CommitKeepsOwners
  <2>3. CASE Replay(p) \/ StageFails(p) \/ PublishFails(p)
    <3>1. \A q \in Publisher : pub'[q].pc = "idle" \/ pub'[q] = pub[q]
      BY <1>0, <2>3 DEF Replay, StageFails, PublishFails, Respond, Idle
    <3>2. attempts' = attempts /\ ledger' = ledger
      BY <2>3 DEF Replay, StageFails, PublishFails
    <3> QED BY <1>0, <3>1, <3>2, OwnersKept
  <2>4. CASE StageOwned(p)
    <3>1. \A q \in Publisher : /\ pub'[q].pc = pub[q].pc \/ pub[q].pc = "stage"
                               /\ pub'[q].key = pub[q].key
                               /\ pub'[q].attempt = pub[q].attempt
      BY <1>0, <2>4 DEF StageOwned, Call
    <3>2. attempts' = attempts /\ ledger' = ledger
      BY <2>4 DEF StageOwned
    <3> QED BY <1>0, <3>1, <3>2, OwnersKept
  <2> QED BY <1>1, <2>1, <2>2, <2>3, <2>4 DEF Publish
<1>2. ASSUME pub' = pub, ledger' = ledger, ~DrawsAttempt PROVE OpenCallsOwnRows'
  <2>1. IsFiniteSet(Active)
    BY ActiveFinite DEF CleanInv
  <2>2. \A a \in Attempt : attempts'[a].state = "staged" => attempts[a].state = "staged"
    <3>1. CASE \A a \in Attempt : QuietRow(a)
      BY <1>0, <3>1 DEF QuietRow, AttemptRow
    <3>2. ASSUME NEW c \in Cleaner, NEW S \in SUBSET Attempt, Claim(c, S)
          PROVE  \A a \in Attempt : attempts'[a].state = "staged" => attempts[a].state = "staged"
      BY <1>0, <3>2 DEF Claim, AttemptRow
    <3>3. ASSUME NEW c \in Cleaner, NEW m \in clean[c], Finish(c, m)
          PROVE  \A a \in Attempt : attempts'[a].state = "staged" => attempts[a].state = "staged"
      BY <1>0, <3>3 DEF Finish, AttemptRow, ClaimRec
    <3> QED BY <1>2, <2>1, <3>1, <3>2, <3>3, AttemptsMove
  <2> QED BY <1>0, <1>2, <2>2, OwnersKept
<1>3. CASE \/ \E c \in Cleaner : Cleanup(c)
           \/ \E a \in Attempt : LeaseExpires(a) \/ ClaimExpires(a) \/ LatePut(a) \/ LateDelete(a)
           \/ \E v \in Version : RevokeVersion(v) \/ \E d \in Digest : PublishV1(v, d)
           \/ ChangePolicy
           \/ UNCHANGED vars
  <2>1. pub' = pub /\ ledger' = ledger
    BY <1>3 DEF Cleanup, Claim, DeleteOwned, DeleteFails, Finish, CleanupFails, LeaseExpires,
       ClaimExpires, LatePut, LateDelete, RevokeVersion, PublishV1, ChangePolicy, vars
  <2>2. \A a \in Attempt : attempts[a].state = "unused" => attempts'[a].state = "unused"
    <3>1. CASE attempts' = attempts
      BY <3>1
    <3>2. ASSUME NEW c \in Cleaner, NEW S \in SUBSET Attempt, Claim(c, S)
          PROVE  \A a \in Attempt : attempts[a].state = "unused" => attempts'[a].state = "unused"
      BY <1>0, <3>2 DEF Claim, Claimable, AttemptRow
    <3>3. ASSUME NEW c \in Cleaner, NEW m \in clean[c], Finish(c, m)
          PROVE  \A a \in Attempt : attempts[a].state = "unused" => attempts'[a].state = "unused"
      BY <1>0, <3>3 DEF Finish, AttemptRow, ClaimRec
    <3>4. ASSUME NEW b \in Attempt, LeaseExpires(b) \/ ClaimExpires(b)
          PROVE  \A a \in Attempt : attempts[a].state = "unused" => attempts'[a].state = "unused"
      BY <1>0, <3>4 DEF LeaseExpires, ClaimExpires, AttemptRow
    <3> QED BY <1>3, <3>1, <3>2, <3>3, <3>4
            DEF Cleanup, DeleteOwned, DeleteFails, CleanupFails, LatePut, LateDelete,
                RevokeVersion, PublishV1, ChangePolicy, vars
  <2>3. ~DrawsAttempt
    BY <1>0, <2>2 DEF DrawsAttempt, NewAttempt
  <2> QED BY <1>2, <2>1, <2>3
<1> QED BY <1>1, <1>3 DEF Next

(* An answer is given by the step that read or wrote the row it speaks of. *)
LEMMA StepAnswersTruly ==
  ASSUME IInv, RepliesAreTrue, [Next]_vars PROVE RepliesAreTrue'
<1>0. catalog \in [Version -> CatalogRow]
  BY DEF IInv, TypeOK
<1>1. ASSUME NEW p \in Publisher, NEW v, NEW d, NEW o, Respond(p, o, v, d),
             o \in {"created", "existing"} =>
               catalog'[v].state = "published" /\ catalog'[v].digest = d
      PROVE  RepliesAreTrue'
  BY <1>1 DEF Respond, RepliesAreTrue, Live
<1>2. CASE reply' = NoReply
  BY <1>2 DEF NoReply, RepliesAreTrue
<1>3. ASSUME NEW p \in Publisher, NEW k \in Key, NEW v \in Version, NEW d \in Digest,
             Reserve(p, k, v, d)
      PROVE  RepliesAreTrue'
  <2>1. CASE \E o \in {"refused", "conflict"} : Respond(p, o, v, d)
    BY <1>1, <2>1
  <2>2. CASE FreshAlias(p, k, v, d)
    BY <1>1, <1>3, <2>2 DEF FreshAlias, Live, Reserve
  <2>3. CASE \E pc, a : Continue(p, pc, k, v, d, a)
    BY <1>2, <2>3 DEF Continue
  <2> QED BY <1>3, <2>1, <2>2, <2>3 DEF Reserve, KnownConflict, KnownReplay, KnownRenew,
          KnownAgain, FreshRefused, FreshConflict, FreshReserve
<1>4. ASSUME NEW p \in Publisher, Replay(p) PROVE RepliesAreTrue'
  <2> DEFINE r == pub[p]
  <2>1. catalog' = catalog
    BY <1>4 DEF Replay
  <2>2. CASE Respond(p, "existing", r.version, r.digest) /\ RowIs(r.version, r.digest, r.attempt)
    BY <1>1, <2>1, <2>2 DEF RowIs, Live
  <2>3. CASE \E o \in {"refused", "conflict"} : Respond(p, o, r.version, r.digest)
    BY <1>1, <2>3
  <2> QED BY <1>4, <2>2, <2>3 DEF Replay
<1>5. ASSUME NEW p \in Publisher, Commit(p) PROVE RepliesAreTrue'
  <2> DEFINE r == pub[p]
  <2>0. r.version \in Version
    BY <1>5 DEF Commit, IInv, CallsMatchAttempts
  <2>1. CASE \E o \in {"refused", "conflict"} : Respond(p, o, r.version, r.digest)
    BY <1>1, <2>1
  <2>2. CASE CommitAgain(p, r)
    <3>1. CASE RowIs(r.version, r.digest, r.attempt)
      BY <1>1, <2>2, <3>1 DEF CommitAgain, RowIs, Live
    <3>2. CASE ~RowIs(r.version, r.digest, r.attempt)
      BY <2>1, <2>2, <3>2 DEF CommitAgain
    <3> QED BY <3>1, <3>2
  <2>3. CASE CommitAlias(p, r)
    <3>1. CASE Respond(p, "existing", r.version, r.digest)
      BY <1>1, <2>3, <3>1 DEF CommitAlias, Live
    <3> QED BY <2>1, <2>3, <3>1 DEF CommitAlias
  <2>4. CASE CommitAdmit(p, r)
    <3>1. catalog'[r.version].state = "published" /\ catalog'[r.version].digest = r.digest
      BY <1>0, <2>0, <2>4 DEF CommitAdmit
    <3> QED BY <1>1, <2>4, <3>1 DEF CommitAdmit
  <2> QED BY <1>5, <2>1, <2>2, <2>3, <2>4 DEF Commit, CommitDenied, CommitConflict
<1>6. ASSUME NEW p \in Publisher, StageOwned(p) \/ StageFails(p) \/ PublishFails(p)
      PROVE  RepliesAreTrue'
  BY <1>1, <1>2, <1>6 DEF StageOwned, StageFails, PublishFails
<1>7. CASE UNCHANGED vars
  BY <1>7 DEF vars, RepliesAreTrue, Live
<1>8. CASE \/ \E c \in Cleaner : Cleanup(c)
           \/ \E a \in Attempt : LeaseExpires(a) \/ ClaimExpires(a) \/ LatePut(a) \/ LateDelete(a)
           \/ \E v \in Version : RevokeVersion(v) \/ \E d \in Digest : PublishV1(v, d)
           \/ ChangePolicy
  BY <1>2, <1>8 DEF Cleanup, Claim, DeleteOwned, DeleteFails, Finish, CleanupFails, LeaseExpires,
     ClaimExpires, LatePut, LateDelete, RevokeVersion, PublishV1, ChangePolicy
<1> QED BY <1>3, <1>4, <1>5, <1>6, <1>7, <1>8 DEF Next, Publish

(* A ledger row is written when its key is new, or moved: by the retry of  *)
(* a retired attempt, or by a call that finds its version admitted and     *)
(* still owns the row of its own staged attempt.                           *)
RowsKept ==
  \A k \in Ledgered :
    /\ ledger'[k].version = ledger[k].version
    /\ ledger'[k].digest = ledger[k].digest
    /\ attempts[ledger[k].attempt].state = "committed" => ledger'[k] = ledger[k]

LEMMA StepKeepsRows ==
  ASSUME IInv, OpenCallsOwnRows, [Next]_vars PROVE RowsKept
<1>0. ledger \in [Key -> LedgerRow]
  BY DEF IInv, TypeOK
<1>1. CASE ledger' = ledger
  BY <1>1 DEF RowsKept
<1>2. ASSUME NEW p \in Publisher, NEW k \in Key, NEW v \in Version, NEW d \in Digest,
             Reserve(p, k, v, d)
      PROVE  RowsKept
  <2>1. CASE KnownAgain(p, k, v, d)
    BY <1>0, <1>1, <2>1 DEF KnownAgain, RowsKept, Ledgered, LedgerRow
  <2>2. CASE k \notin Ledgered /\ (FreshAlias(p, k, v, d) \/ FreshReserve(p, k, v, d))
    <3>1. \A j \in Ledgered : ledger'[j] = ledger[j]
      BY <1>0, <2>2 DEF FreshAlias, FreshReserve, Ledgered
    <3> QED BY <3>1 DEF RowsKept
  <2> QED BY <1>1, <1>2, <2>1, <2>2 DEF Reserve, KnownConflict, KnownReplay, KnownRenew,
          FreshRefused, FreshConflict
<1>3. ASSUME NEW p \in Publisher, Commit(p) PROVE RowsKept
  <2>1. CASE CommitAlias(p, pub[p])
    <3>1. pub[p].key \in Key /\ ledger[pub[p].key].attempt = pub[p].attempt
      BY <1>3, <2>1 DEF Commit, CommitAlias, IInv, CallsMatchAttempts, OpenCallsOwnRows
    <3> QED BY <1>0, <1>1, <2>1, <3>1 DEF CommitAlias, RowsKept, Ledgered, LedgerRow
  <2> QED BY <1>1, <1>3, <2>1 DEF Commit, CommitDenied, CommitAgain, CommitConflict, CommitAdmit
<1>4. CASE \/ \E p \in Publisher : Replay(p) \/ StageOwned(p) \/ StageFails(p) \/ PublishFails(p)
           \/ \E c \in Cleaner : Cleanup(c)
           \/ \E a \in Attempt : LeaseExpires(a) \/ ClaimExpires(a) \/ LatePut(a) \/ LateDelete(a)
           \/ \E v \in Version : RevokeVersion(v) \/ \E d \in Digest : PublishV1(v, d)
           \/ ChangePolicy
           \/ UNCHANGED vars
  BY <1>1, <1>4 DEF Replay, StageOwned, StageFails, PublishFails, Cleanup, Claim, DeleteOwned,
     DeleteFails, Finish, CleanupFails, LeaseExpires, ClaimExpires, LatePut, LateDelete,
     RevokeVersion, PublishV1, ChangePolicy, vars
<1> QED BY <1>2, <1>3, <1>4 DEF Next, Publish

(* Whichever calls share a key, a call that may still commit its attempt   *)
(* owns the key's row, so no late commit moves a row another call settled  *)
(* (the ledger lock and attempt comparison of Reserve and Commit).         *)
THEOREM CallsOwnTheirRows == Spec => [](OpenCallsOwnRows /\ RepliesAreTrue)
<1>1. Init => OpenCallsOwnRows /\ RepliesAreTrue
  BY DEF Init, Idle, NoReply, OpenCallsOwnRows, RepliesAreTrue
<1>2. IInv /\ CleanInv /\ OpenCallsOwnRows /\ RepliesAreTrue /\ [Next]_vars
        => (OpenCallsOwnRows /\ RepliesAreTrue)'
  BY StepKeepsOwners, StepAnswersTruly
<1> QED BY <1>1, <1>2, PublicationInvariant, CleanersKeepCount, PTL DEF Spec

(* What a key stands for is settled once and told truthfully: its identity *)
(* and, once committed, its row never change, the row names an attempt of  *)
(* the same version and bytes, and every "created" or "existing" is about  *)
(* a live version with just the bytes of its request.                      *)
THEOREM LedgerStaysTrue == Spec => LedgerIsTrue
<1>1. IInv /\ OpenCallsOwnRows => LedgerNamesAttempt
  BY DEF IInv, LedgerRowsMatch, OpenCallsOwnRows, LedgerNamesAttempt, Ledgered
<1>2. IInv /\ OpenCallsOwnRows /\ [Next]_vars => RowsKept
  BY StepKeepsRows
<1>3. Spec => [][RowsKept]_vars /\ [][LedgerNamesAttempt' /\ RepliesAreTrue']_vars
  BY <1>1, <1>2, PublicationInvariant, CallsOwnTheirRows, PTL DEF Spec
<1> QED BY <1>3, PTL DEF LedgerIsTrue, LedgerIsPermanent, RowsKept

=============================================================================
