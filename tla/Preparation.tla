---------------------------- MODULE Preparation ----------------------------
(***************************************************************************)
(* Service.Prepare of the maintained recipe: scan the skills, rank them    *)
(* (lexically, by embeddings or both), ask the caller-owned admission and  *)
(* readiness, resolve, fetch the package and its contracts, and then check *)
(* everything again before a ready answer.  Nothing is locked meanwhile.   *)
(***************************************************************************)
EXTENDS Resolution, SequencesExt

CONSTANTS Asks,       \* the requests: [mode, fallback, top, fits, lex, sem]
          Readiness   \* whether the service may have a CurrentReadiness port

VARIABLE prep

prepVars == <<prep>>

Skills == <<"other", "skill">>    \* in the order of refKey
Maintained == "skill"             \* inboxbriefing.SkillID
NoDecision == [gen |-> 0, until |-> 0]

\* A request asks with a mode and a fallback; lex is the order the lexical
\* index gives the skills, sem their similarity (0 is below the threshold).
PrepOf(ask, ready) ==
  [pc |-> "asked", ask |-> ask, ports |-> ready, mode |-> ask.mode, records |-> {},
   todo |-> <<>>, ranks |-> <<>>, ranked |-> <<>>, again |-> FALSE,
   task |-> 0, base |-> Finding("incomplete", "bind"), seen |-> NoDecision,
   conn |-> 0, got |-> NoResult, status |-> "no_match", sound |-> FALSE]

Unresting == UNCHANGED <<res, pinned>>
Fail == prep' = [prep EXCEPT !.pc = "failed"]
Reply(s) == prep' = [prep EXCEPT !.pc = "answered", !.status = s]
GoTo(pc) == prep' = [prep EXCEPT !.pc = pc]

-----------------------------------------------------------------------------
(* The candidates. *)

SearchSkills ==
  /\ prep.pc = "asked"
  /\ prep' = [prep EXCEPT !.pc = "scan", !.todo = SelectSeq(Skills, Alive)]
  /\ Unresting

\* A record that is denied or gone is skipped ...
ScanRecord ==
  /\ prep.pc = "scan"
  /\ prep' = IF prep.todo = <<>>
             THEN [prep EXCEPT !.pc = IF prep.records = {} THEN "answered" ELSE "lexical"]
             ELSE IF Readable(Head(prep.todo)) THEN [prep EXCEPT !.pc = "confirm"]
             ELSE [prep EXCEPT !.todo = Tail(@)]
  /\ Unresting

\* ... but one that is denied after it was read fails the call.
ConfirmRecord ==
  /\ prep.pc = "confirm"
  /\ IF member
     THEN prep' = [prep EXCEPT !.pc = "scan", !.records = @ \cup {Head(prep.todo)},
                               !.todo = Tail(@)]
     ELSE Fail
  /\ Unresting

InOrder(S) == SelectSeq(Skills, LAMBDA r: r \in S)

RankLexically ==
  /\ prep.pc = "lexical"
  /\ prep' = [prep EXCEPT !.ranks = SelectSeq(prep.ask.lex, Readable),
                          !.pc = IF prep.mode = "lexical" THEN "rank" ELSE "documents",
                          !.todo = InOrder(prep.records)]
  /\ Unresting

\* An embedding that fails, or a record that changed under it, is answered
\* as unsupported or falls back to the lexical ranking.
EmbeddingFails ==
  IF prep.ask.fallback = "lexical"
  THEN prep' = [prep EXCEPT !.pc = "rank", !.mode = "lexical"]
  ELSE Reply("unsupported")

EmbedStep(pc, next) ==
  /\ prep.pc = pc
  /\ IF prep.todo = <<>>
     THEN \/ prep' = [prep EXCEPT !.pc = next, !.todo = InOrder(prep.records)]
          \/ EmbeddingFails
     ELSE IF Readable(Head(prep.todo)) THEN prep' = [prep EXCEPT !.todo = Tail(@)]
     ELSE EmbeddingFails
  /\ Unresting

EmbedDocuments == EmbedStep("documents", "query")
EmbedQuery == EmbedStep("query", "rank")

\* Scores in proportion: 1/rank, the similarity, or the sum of 1/(60+rank).
Place(seq, r) == IF \E i \in DOMAIN seq: seq[i] = r THEN CHOOSE i \in DOMAIN seq: seq[i] = r ELSE 0
Fused(seq, r) == <<0, 62, 61>>[Place(seq, r) + 1]
BySimilarity == SetToSortSeq({r \in prep.records: prep.ask.sem[r] > 0},
                  LAMBDA r, s: \/ prep.ask.sem[r] > prep.ask.sem[s]
                               \/ prep.ask.sem[r] = prep.ask.sem[s] /\ Place(Skills, r) < Place(Skills, s))
Points(r) ==
  CASE prep.mode = "lexical" -> <<0, 2, 1>>[Place(prep.ranks, r) + 1]
    [] prep.mode = "semantic" -> prep.ask.sem[r]
    [] OTHER -> Fused(prep.ranks, r) + Fused(BySimilarity, r)

RankCandidates ==
  LET scored == {r \in prep.records: Points(r) > 0}
      ranked == SetToSortSeq(scored, LAMBDA r, s: \/ Points(r) > Points(s)
                                                  \/ Points(r) = Points(s) /\ Place(Skills, r) < Place(Skills, s))
  IN /\ prep.pc = "rank"
     /\ prep' = [prep EXCEPT !.pc = "candidates", !.ranked = ranked, !.todo = ranked]
     /\ Unresting

\* Every ranked candidate is read again; a tie at the top is the caller's.
RecheckCandidates ==
  LET ranked == prep.ranked
      tie == Len(ranked) > 1 /\ Points(ranked[1]) = Points(ranked[2])
  IN /\ prep.pc = "candidates"
     /\ CASE prep.todo # <<>> ->
               IF Readable(Head(prep.todo)) THEN prep' = [prep EXCEPT !.todo = Tail(@)] ELSE Fail
          [] ranked = <<>> -> Reply("no_match")
          [] ranked # <<>> /\ tie -> Reply("requires_selection")
          [] ranked # <<>> /\ ~tie /\ ranked[1] # Maintained -> Reply("unsupported")
          [] OTHER -> prep' = [prep EXCEPT !.pc = "admit",
                                           !.ranked = SubSeq(ranked, 1, Min({prep.ask.top, Len(ranked)}))]
     /\ Unresting

-----------------------------------------------------------------------------
(* The caller-owned decisions.  A decision carries the generation of what  *)
(* it was taken from and the time until which it may be used; one that is  *)
(* stale when it comes back, or a port that fails, fails the call.         *)

Windows == 1..2
AdmitTask ==
  /\ prep.pc = "admit"
  /\ \/ /\ ~task.ok
        /\ IF prep.again THEN Fail ELSE Reply("requires_selection")
     \/ /\ task.ok
        /\ IF prep.again
           THEN IF task.gen = prep.task
                THEN Reply(IF prep.ask.fits THEN "ready" ELSE "budget_exceeded")
                ELSE Fail
           ELSE prep' = [prep EXCEPT !.pc = "resolve", !.task = task.gen]
     \/ Fail
  /\ Unresting

\* resolveCurrent: first without any connection ...
ResolveBaseline ==
  /\ prep.pc = "resolve"
  /\ GoTo("baseline")
  /\ StartResolve(FALSE)
  /\ UNCHANGED pinned

\* Mutant of Accept: the second connection generation is not compared.
AcceptAnyConnection(out, gen) ==
  IF prep.again
  THEN IF out.status = prep.got.status /\ out.finding = prep.got.finding
       THEN prep' = [prep EXCEPT !.pc = "admit"]
       ELSE Fail
  ELSE IF out.status = "ready"
       THEN prep' = [prep EXCEPT !.pc = "package", !.conn = gen, !.got = out]
       ELSE Reply("requires_connection")

\* What follows the first resolution of the call, and the second.
Accept(out, gen) ==
  IF prep.again
  THEN IF gen = prep.conn /\ out.status = prep.got.status /\ out.finding = prep.got.finding
       THEN prep' = [prep EXCEPT !.pc = "admit"]
       ELSE Fail
  ELSE IF out.status = "ready"
       THEN prep' = [prep EXCEPT !.pc = "package", !.conn = gen, !.got = out]
       ELSE Reply(IF out.finding.status = "unsupported_runtime" /\ ~shape.optional
                  THEN "unsupported" ELSE "requires_connection")

BaselineResolved ==
  /\ prep.pc = "baseline"
  /\ \/ res.pc = "failed" /\ Fail
     \/ /\ res.pc = "resolved"
        /\ IF prep.ports
           THEN prep' = [prep EXCEPT !.pc = "readiness", !.base = res.out.finding]
           ELSE Accept(res.out, 0)
  /\ res' = Resting
  /\ UNCHANGED pinned

\* ... then, if the caller's connection is ready for exactly this closure,
\* with it.
CheckReadiness ==
  /\ prep.pc = "readiness"
  /\ \/ /\ conn.ready
        /\ \E w \in Windows: prep' = [prep EXCEPT !.pc = "connected",
                                        !.seen = [gen |-> conn.gen, until |-> now + w]]
        /\ StartResolve(TRUE)
     \/ /\ ~conn.ready
        /\ Accept([status |-> "incomplete", finding |-> prep.base], conn.gen)
        /\ UNCHANGED res
     \/ Fail /\ UNCHANGED res
  /\ UNCHANGED pinned

ConnectedResolved ==
  LET fresh == prep.seen.until > now
      same == res.out.finding.closure = prep.base.closure
  IN /\ prep.pc = "connected"
     /\ \/ res.pc = "failed" /\ Fail
        \/ res.pc = "resolved" /\ (IF fresh /\ same THEN Accept(res.out, prep.seen.gen) ELSE Fail)
     /\ res' = Resting
     /\ UNCHANGED pinned

-----------------------------------------------------------------------------
(* The package and the contracts, and everything once more. *)

\* RetrieveSkill reads the record before and after the archive.
ReadPackage ==
  /\ prep.pc \in {"package", "package_again"}
  /\ IF ~Readable(Maintained) THEN Fail
     ELSE IF prep.pc = "package" THEN GoTo("package_again")
     ELSE IF shape.local \/ shape.files \/ ~shape.maintained THEN Reply("unsupported")
     ELSE prep' = [prep EXCEPT !.pc = "contracts", !.todo = prep.got.finding.closure]
  /\ Unresting

\* What a ready answer says: policy, candidates, closure, connection and
\* admission, as they were when they were read.
FactsHold ==
  /\ member
  /\ Alive(Maintained)
  /\ \A i \in DOMAIN prep.got.finding.closure: Alive(prep.got.finding.closure[i])
  /\ task = [gen |-> prep.task, ok |-> TRUE]
  /\ prep.ports => conn = [gen |-> prep.conn, ready |-> TRUE]

FetchContract ==
  /\ prep.pc = "contracts"
  /\ IF prep.todo = <<>>
     THEN prep' = [prep EXCEPT !.pc = "final", !.todo = prep.ranked \o prep.got.finding.closure,
                               !.sound = FactsHold]
     ELSE IF Readable(Head(prep.todo)) THEN prep' = [prep EXCEPT !.todo = Tail(@)] ELSE Fail
  /\ Unresting

FinalRecheck ==
  /\ prep.pc = "final"
  /\ IF prep.todo = <<>>
     THEN prep' = [prep EXCEPT !.pc = "resolve", !.again = TRUE]
     ELSE IF Readable(Head(prep.todo)) THEN prep' = [prep EXCEPT !.todo = Tail(@)] ELSE Fail
  /\ Unresting

PrepareStep ==
  \/ SearchSkills \/ ScanRecord \/ ConfirmRecord \/ RankLexically
  \/ EmbedDocuments \/ EmbedQuery \/ RankCandidates \/ RecheckCandidates
  \/ AdmitTask \/ ResolveBaseline \/ BaselineResolved \/ CheckReadiness
  \/ ConnectedResolved \/ ReadPackage \/ FetchContract \/ FinalRecheck

PreparationInit == \E ask \in Asks, ready \in Readiness: prep = PrepOf(ask, ready)

-----------------------------------------------------------------------------
(* Properties. *)

\* A ready answer was true: there was one instant within the call at which
\* the policy allowed the principal, the skill and every artifact of the
\* closure were live, the connection was the ready one and the task was
\* admitted, all together; and its resolution is in the resolutions table
\* (Prepare's checks before and after its I/O, resolveCurrent, admitTask).
ReadyAnswersHeld ==
  prep.pc = "answered" /\ prep.status = "ready" =>
    /\ prep.sound
    /\ \E p \in pinned: p.out = prep.got

=============================================================================
