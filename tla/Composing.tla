----------------------------- MODULE Composing -----------------------------
(***************************************************************************)
(* composition.Service.Prepare for a recipe with one requirement: assemble *)
(* the bundle from authorized reads and the scoped index, have the         *)
(* authority check it, assemble it again from nothing, compare, and have   *)
(* it checked again.  What assemble selects among several requirements is  *)
(* Assemble of module Recipes; here its reads are steps.                   *)
(***************************************************************************)
EXTENDS Resolution

CONSTANT Budgets   \* whether the answer fits MaxBytes: a set of booleans

VARIABLE comp

compVars == <<comp>>

NoBundle == [binding |-> "none", gen |-> 0]
NoCheck == [ready |-> FALSE, policy |-> 0, task |-> 0, until |-> 0]

CompOf(fits) ==
  [pc |-> "skill", fits |-> fits, todo |-> <<>>, found |-> {}, gen |-> 0, bundle |-> NoBundle,
   again |-> FALSE, first |-> NoCheck, until |-> 0, status |-> "none", sound |-> FALSE]

Answered(s) == comp' = [comp EXCEPT !.pc = "answered", !.status = s]
Broken == comp' = [comp EXCEPT !.pc = "failed"]
ThenRead(pc) == comp' = [comp EXCEPT !.pc = pc]

-----------------------------------------------------------------------------
(* assemble *)

ComposeSkill ==
  /\ comp.pc \in {"skill", "skill_again"}
  /\ IF ~Readable("skill") THEN Broken
     ELSE IF comp.pc = "skill" THEN ThenRead("skill_again")
     ELSE IF shape.local \/ shape.files THEN Broken
     ELSE ThenRead("capability")

ComposeCapability ==
  /\ comp.pc = "capability"
  /\ IF Readable("cap") THEN ThenRead("lookup") ELSE Broken

\* The index is published apart from the registry: its rows may be older
\* than the states of what they name, and carry the connection as it was.
LookupCandidates ==
  /\ comp.pc = "lookup"
  /\ \/ /\ ~member
        /\ Broken
     \/ /\ member
        /\ \E rows \in {{"bind"}, {b \in Bindings: Alive(b)}}, g \in {1, conn.gen}:
             comp' = [comp EXCEPT !.pc = "verify", !.found = rows, !.gen = g,
                                  !.todo = IF rows = {} THEN <<>>
                                           ELSE IF "rival" \in rows THEN <<"rival", "bind", "tool", "prov">>
                                           ELSE <<"bind", "tool", "prov">>]
     \/ Answered("incomplete_budget")

\* The bundle of this pass; the second must be the first.
Bundle(b) ==
  IF comp.again
  THEN IF b = comp.bundle THEN ThenRead("check") ELSE Answered("stale")
  ELSE comp' = [comp EXCEPT !.pc = "check", !.bundle = b]

VerifyCandidates ==
  LET n == Cardinality(comp.found)
  IN /\ comp.pc = "verify"
     /\ CASE comp.todo # <<>> ->
               IF Readable(Head(comp.todo)) /\ shape.conforms
               THEN comp' = [comp EXCEPT !.todo = Tail(@)]
               ELSE Broken
          [] comp.todo = <<>> /\ n = 0 /\ shape.optional -> Bundle(NoBundle)
          [] comp.todo = <<>> /\ n = 0 /\ ~shape.optional -> Answered("requires_connection")
          [] comp.todo = <<>> /\ n = 1 -> ThenRead("tool")
          [] OTHER -> Answered("requires_selection")

ReadToolSchemas ==
  /\ comp.pc = "tool"
  /\ IF Readable("tool")
     THEN Bundle([binding |-> CHOOSE b \in comp.found: TRUE, gen |-> comp.gen])
     ELSE Broken

-----------------------------------------------------------------------------
(* Authority.Check: the caller's own decision on this bundle, with the     *)
(* generations of policy and task and the time it may be used until.       *)

Decision(w) ==
  [ready |-> task.ok /\ (comp.bundle.binding # "none" => conn = [gen |-> comp.bundle.gen, ready |-> TRUE]),
   policy |-> conn.gen, task |-> task.gen, until |-> now + w]

ClosureOf(b) == {"skill", "cap"} \cup (IF b = "none" THEN {} ELSE {b, "tool", "prov"})
BundleHolds == member /\ \A a \in ClosureOf(comp.bundle.binding): Alive(a)

\* Mutant of CheckFirst: the bundle is not assembled a second time.
CheckFirstOnly ==
  /\ comp.pc = "check"
  /\ ~comp.again
  /\ \/ Answered("stale")
     \/ Broken
     \/ \E w \in 1..2:
          IF Decision(w).ready
          THEN comp' = [comp EXCEPT !.again = TRUE, !.first = Decision(w), !.sound = BundleHolds]
          ELSE Answered("denied")

\* Fresh only while the decision may still be used.
CheckFirst ==
  /\ comp.pc = "check"
  /\ ~comp.again
  /\ \/ Answered("stale")
     \/ Broken
     \/ \E w \in 1..2:
          IF Decision(w).ready
          THEN comp' = [comp EXCEPT !.pc = "skill", !.again = TRUE, !.first = Decision(w),
                                    !.sound = BundleHolds]
          ELSE Answered("denied")

CheckFinal ==
  /\ comp.pc = "check"
  /\ comp.again
  /\ \/ Broken
     \/ \E w \in 1..2:
          LET d == comp.first
              last == Decision(w)
          IN CASE d.until <= now \/ last.policy # d.policy \/ last.task # d.task -> Answered("stale")
               [] d.until > now /\ last.policy = d.policy /\ last.task = d.task /\ ~last.ready -> Answered("denied")
               [] OTHER -> comp' = [comp EXCEPT !.pc = "answered",
                                                !.status = IF comp.fits THEN "ready" ELSE "budget_exceeded",
                                                !.until = Min({d.until, last.until})]

ComposeStep ==
  \/ ComposeSkill \/ ComposeCapability \/ LookupCandidates
  \/ VerifyCandidates \/ ReadToolSchemas \/ CheckFirst \/ CheckFinal

ComposingInit == \E fits \in Budgets: comp = CompOf(fits)

-----------------------------------------------------------------------------
(* Properties. *)

\* A ready bundle was true: when the authority first accepted it, with its
\* connection and task, the policy allowed every read and every artifact of
\* it was live, and it may not be used longer than that decision
\* (Service.prepare's second assembly and second check).
ComposedAnswersHeld ==
  comp.pc = "answered" /\ comp.status = "ready" =>
    comp.sound /\ comp.until <= comp.first.until

=============================================================================
