----------------------------- MODULE RecipeRun -----------------------------
(***************************************************************************)
(* One recipe from its preparation to the end of its run: Validate and     *)
(* assemble admit it or refuse it, then the caller makes the calls of the  *)
(* steps that are not disabled, in dependency order, each first charged to *)
(* Usage.  A run that Consume refuses ends as a partial result.            *)
(***************************************************************************)
EXTENDS Recipes

CONSTANTS Probes,      \* values tried against the schemas of the dataflow
          RecipeAsks,  \* the recipes asked for, as RunOf has them
          CallBytes    \* the bytes a call may have

\* A decoded recipe has finitely many steps and candidates; a pointer is a
\* sequence of names.
ASSUME RecipeAssumption ==
  /\ CallBytes \subseteq Nat
  /\ \A a \in RecipeAsks:
       /\ IsFiniteSet(DOMAIN a.doc.steps)
       /\ \A k \in DOMAIN a.doc.reqs: IsFiniteSet(a.found[k])
       /\ Len(a.doc.groups) \in Nat
       /\ \A s \in DOMAIN a.doc.steps:
            /\ a.doc.steps[s].each # NoEach => Len(a.doc.steps[s].each.path) \in Nat
            /\ \A k \in DOMAIN a.doc.steps[s].inputs: Len(a.doc.steps[s].inputs[k].path) \in Nat

VARIABLE run

NotRunning == [step |-> "none", left |-> 0]

\* An ask: a recipe doc with its contracts, the candidates found for its
\* requirements and the caller's own selections.
RunOf(ask) ==
  [pc |-> "asked", ask |-> ask, plan |-> Failed("asked"), done |-> {},
   cur |-> NotRunning, usage |-> NoUsage]

PrepareRecipe ==
  LET a == run.ask
      plan == IF Validate(a.doc, a.contracts) THEN Assemble(a.doc, a.found, a.want)
              ELSE Failed("invalid")
  IN /\ run.pc = "asked"
     /\ run' = [run EXCEPT !.plan = plan,
                           !.pc = IF plan.status = "ready" THEN "ready" ELSE "refused"]

EnabledSteps == DOMAIN run.ask.doc.steps \ run.plan.disabled

CanStart(s) ==
  /\ run.cur = NotRunning
  /\ s \in EnabledSteps \ run.done
  /\ run.ask.doc.steps[s].after \subseteq run.done

\* A step is one call, or one for each element of the array it goes over,
\* whose length the source contract bounds.
StartStep(s, n) ==
  LET each == run.ask.doc.steps[s].each
      arr == SourceSchema(run.ask.doc, run.ask.contracts, s, each.step, each.path)
  IN /\ run.pc = "ready"
     /\ CanStart(s)
     /\ n \in (IF each = NoEach THEN {1} ELSE 0..arr.max)
     /\ run' = [run EXCEPT !.cur = IF n = 0 THEN NotRunning ELSE [step |-> s, left |-> n],
                           !.done = IF n = 0 THEN @ \cup {s} ELSE @]

Call(bytes) ==
  LET cur == run.cur
      iteration == run.ask.doc.steps[cur.step].each # NoEach
  IN /\ run.pc = "ready"
     /\ cur # NotRunning
     /\ run' = IF ~Fits(run.ask.doc.limits, run.usage, iteration, bytes)
               THEN [run EXCEPT !.pc = "partial"]
               ELSE [run EXCEPT !.usage = Consume(@, iteration, bytes),
                                !.cur = IF cur.left = 1 THEN NotRunning ELSE [cur EXCEPT !.left = @ - 1],
                                !.done = IF cur.left = 1 THEN @ \cup {cur.step} ELSE @]

RunNext ==
  \/ PrepareRecipe
  \/ run.pc = "ready" /\ \E s \in EnabledSteps, n \in 0..MaxArrayBound: StartStep(s, n)
  \/ \E bytes \in CallBytes: Call(bytes)

RunInit == \E ask \in RecipeAsks: run = RunOf(ask)
RunSpec == RunInit /\ [][RunNext]_run

-----------------------------------------------------------------------------
(* Properties. *)

\* An admitted recipe runs: no step with a required capability is disabled,
\* what an enabled step reads comes from an enabled predecessor or the task
\* and fits the property it is mapped to whatever conforming value it has,
\* some enabled step can always go on until all are done, and Consume never
\* refuses it for its calls or iterations, only for its bytes: an empty call
\* would have fitted (Validate, assemble's disabled steps, Usage.Consume).
AdmittedRecipesRun ==
  run.pc \in {"ready", "partial"} =>
    LET d == run.ask.doc
        contracts == run.ask.contracts
    IN /\ \A s \in run.plan.disabled: d.reqs[d.steps[s].req].opt
       /\ \A s \in EnabledSteps: \A k \in DOMAIN d.steps[s].inputs:
            LET m == d.steps[s].inputs[k]
                each == d.steps[s].each
                src == IF m.step = "$item"
                       THEN SchemaAt(SourceSchema(d, contracts, s, each.step, each.path).items, m.path)
                       ELSE SourceSchema(d, contracts, s, m.step, m.path)
            IN /\ m.step \in EnabledSteps \cup {"", "$item"}
               /\ m.step = "$item" => each.step \in EnabledSteps
               /\ \A v \in Probes: ValueOk(src, v) => ValueOk(contracts[d.steps[s].req].in.props[k], v)
       /\ EnabledSteps \subseteq run.done \/ run.cur # NotRunning \/ \E s \in EnabledSteps: CanStart(s)
       /\ run.pc = "partial" =>
            Fits(d.limits, run.usage, d.steps[run.cur.step].each # NoEach, 0)

\* A ready answer was not a guess: its selection uses one connection per
\* group, every other choice that serves all required capabilities makes the
\* same choice for them, and an optional capability of a group that has a
\* connection is left out only where no candidate of it fits (assemble).
Serves(d, cands, sel) ==
  /\ {k \in DOMAIN d.reqs: ~d.reqs[k].opt} \subseteq DOMAIN sel
  /\ \A k \in DOMAIN sel: sel[k] \in cands[k]
  /\ \A i \in 1..Len(d.groups): \A k, l \in d.groups[i] \cap DOMAIN sel: sel[k].conn = sel[l].conn

SelectionIsForced ==
  run.plan.status = "ready" =>
    LET d == run.ask.doc
        cands == [k \in DOMAIN d.reqs |-> Eligible(run.ask.found, run.ask.want, k)]
        required == {k \in DOMAIN d.reqs: ~d.reqs[k].opt}
        sel == run.plan.selected
    IN /\ Serves(d, cands, sel)
       /\ \A other \in [required -> UNION {cands[k]: k \in required}]:
            Serves(d, cands, other) => \A k \in required: other[k] = sel[k]
       /\ \A k \in DOMAIN d.reqs \ DOMAIN sel: \A c \in cands[k]:
            \E i \in 1..Len(d.groups):
              /\ k \in d.groups[i]
              /\ \/ \E l \in d.groups[i] \cap DOMAIN sel: sel[l].conn # c.conn
                 \/ d.groups[i] \cap (DOMAIN sel \cup required) = {}

=============================================================================
