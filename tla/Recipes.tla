------------------------------ MODULE Recipes ------------------------------
(***************************************************************************)
(* Portable recipes: the closed schema language and its values, the        *)
(* validation of a recipe against its contracts, the choice of one binding *)
(* candidate per requirement, the steps an absent optional requirement     *)
(* disables, and the caller's run of what was admitted under Usage.        *)
(***************************************************************************)
EXTENDS Integers, Sequences, FiniteSets, FiniteSetsExt

CONSTANTS MaxDepth,       \* schema nesting
          MaxStringBound, \* ceilings a schema may state
          MaxArrayBound,
          MaxBytes        \* and the ceiling of validLimits on a run's bytes

ASSUME SchemaAssumption ==
  MaxDepth \in Nat /\ MaxStringBound \in Nat /\ MaxArrayBound \in Nat /\ MaxBytes \in Nat

-----------------------------------------------------------------------------
(* Schemas: [type, props, req] for objects, [type, items, max] for arrays, *)
(* [type, max] for strings, [type] otherwise.  Values: [is, of] for        *)
(* objects and arrays, [is, n] for strings of n runes, [is, whole] for     *)
(* numbers.                                                                *)

Scalars == {"boolean", "integer", "number"}

NoSchema == [type |-> "absent"]

\* The parts of a schema or of a value: an object's by name, an array's by
\* place.
Parts(kind, x) ==
  CASE kind = "schema" /\ x.type = "object" -> x.props
    [] kind = "schema" /\ x.type = "array" -> [i \in 1..x.max |-> x.items]
    [] kind = "value" /\ x.is \in {"object", "array"} -> x.of
    [] OTHER -> <<>>

\* What assignable compares at one place of two schemas.
Agrees(src, dst) ==
  /\ src.type = dst.type
  /\ src.type \in {"string", "array"} => src.max <= dst.max
  /\ src.type = "object" =>
       dst.req \subseteq src.req /\ DOMAIN src.props \subseteq DOMAIN dst.props

\* What value checks at one place of a schema and a value.
Holds(s, v) ==
  CASE s.type = "object" ->
         v.is = "object" /\ s.req \subseteq DOMAIN v.of /\ DOMAIN v.of \subseteq DOMAIN s.props
    [] s.type = "array" -> v.is = "array" /\ DOMAIN v.of \subseteq 1..s.max
    [] s.type = "string" -> v.is = "string" /\ v.n \in 0..s.max
    [] s.type = "boolean" -> v.is = "boolean"
    [] s.type = "number" -> v.is = "number"
    [] s.type = "integer" -> v.is = "number" /\ v.whole
    [] OTHER -> FALSE

Meets(kind, p) == IF kind = "schema" THEN Agrees(p[1], p[2]) ELSE Holds(p[1], p[2])

\* Going down a schema and, beside it, another one or a value: the pairs of
\* parts one level below a pair, and those at each level below a and b.
Below(kind, p) ==
  LET x == Parts("schema", p[1])
      y == Parts(kind, p[2])
  IN IF Meets(kind, p) THEN {<<x[k], y[k]>>: k \in DOMAIN x \cap DOMAIN y} ELSE {}

Levels(kind, a, b) ==
  LET level[n \in 0..(MaxDepth + 1)] ==
        IF n = 0 THEN {<<a, b>>} ELSE UNION {Below(kind, p): p \in level[n - 1]}
  IN level

MeetsThroughout(kind, a, b) ==
  \A n \in 0..MaxDepth: \A p \in Levels(kind, a, b)[n]: Meets(kind, p)

\* One place of a schema: its keywords, beside its parts.
KeywordsValid(s) ==
  \/ s.type = "object" /\ s.req \subseteq DOMAIN s.props
  \/ s.type = "array" /\ s.max \in 1..MaxArrayBound
  \/ s.type = "string" /\ s.max \in 1..MaxStringBound
  \/ s.type \in Scalars

SchemaValid(s) ==
  /\ \A n \in 0..MaxDepth: \A p \in Levels("schema", s, s)[n]: KeywordsValid(p[1])
  /\ Levels("schema", s, s)[MaxDepth + 1] = {}

\* Both recurse into the parts of valid schemas only.
Assignable(src, dst) == MeetsThroughout("schema", src, dst)
ValueOk(s, v) == MeetsThroughout("value", s, v)

\* A pointer reaches only what is guaranteed to be present: required
\* properties of objects, never an element of an array.
SchemaAt(s, path) ==
  LET at[n \in 0..Len(path)] ==
        IF n = 0 THEN s
        ELSE IF at[n - 1].type = "object" /\ path[n] \in at[n - 1].req
             THEN at[n - 1].props[path[n]]
             ELSE NoSchema
  IN at[Len(path)]

-----------------------------------------------------------------------------
(* Validate.  A recipe d has reqs, a function from requirement keys to     *)
(* [cap, opt]; groups, a sequence of sets of keys; steps, a function from  *)
(* step names to [req, after, inputs, each]; task, its input schema; and   *)
(* limits [steps, iters, calls, bytes].  An input or an iteration names    *)
(* its source step ("" for the task, "$item" for the element at hand).         *)

NoEach == [step |-> "none"]

GroupsValid(d) ==
  /\ \A i \in 1..Len(d.groups):
       Cardinality(d.groups[i]) >= 2 /\ d.groups[i] \subseteq DOMAIN d.reqs
  /\ \A i, j \in 1..Len(d.groups): i # j => d.groups[i] \cap d.groups[j] = {}

RequirementsValid(d) ==
  /\ DOMAIN d.reqs # {}
  /\ \A k, l \in DOMAIN d.reqs: d.reqs[k].cap = d.reqs[l].cap => k = l
  /\ DOMAIN d.reqs = {d.steps[s].req: s \in DOMAIN d.steps}

\* The depth-first visit: predecessors exist, none is optional under a
\* required step, and the steps have an order, which no cycle would.
OrderValid(d) ==
  LET S == DOMAIN d.steps
  IN /\ \A s \in S: d.steps[s].after \subseteq S
     /\ \A s \in S: \A p \in d.steps[s].after:
          d.reqs[d.steps[p].req].opt => d.reqs[d.steps[s].req].opt
     /\ \E place \in [S -> 1..Cardinality(S)]:
          \A s \in S: \A p \in d.steps[s].after: place[p] < place[s]

SourceSchema(d, contracts, s, from, path) ==
  IF from = "" THEN SchemaAt(d.task, path)
  ELSE IF from \notin d.steps[s].after THEN NoSchema
  ELSE SchemaAt(contracts[d.steps[from].req].out, path)

EachValid(d, contracts, s) ==
  LET each == d.steps[s].each
      arr == SourceSchema(d, contracts, s, each.step, each.path)
  IN each # NoEach =>
       /\ each.step # ""
       /\ each.max \in 1..d.limits.iters
       /\ arr.type = "array"
       /\ arr.max <= each.max
       /\ d.steps[each.step].each = NoEach

InputsValid(d, contracts, s) ==
  LET step == d.steps[s]
      dst == contracts[step.req].in
      item == SourceSchema(d, contracts, s, step.each.step, step.each.path).items
      src(m) ==
        IF m.step = "$item" THEN IF step.each = NoEach THEN NoSchema ELSE SchemaAt(item, m.path)
        ELSE IF m.step \in DOMAIN d.steps /\ d.steps[m.step].each # NoEach THEN NoSchema
        ELSE SourceSchema(d, contracts, s, m.step, m.path)
  IN /\ dst.req \subseteq DOMAIN step.inputs
     /\ \A k \in DOMAIN step.inputs:
          k \in DOMAIN dst.props /\ Assignable(src(step.inputs[k]), dst.props[k])

\* The calls of a run: one for each step, or one for each element.
CallsOf(d, steps) ==
  UNION {{<<s, i>>: i \in 1..(IF d.steps[s].each = NoEach THEN 1 ELSE d.steps[s].each.max)}: s \in steps}
Iterated(d) == {s \in DOMAIN d.steps: d.steps[s].each # NoEach}
Iterations(d) == Cardinality(CallsOf(d, Iterated(d)))
Calls(d) == Cardinality(CallsOf(d, DOMAIN d.steps))

\* Mutant of BudgetValid: an iterated step counts as one call.
BudgetCountsSteps(d) ==
  /\ Cardinality(DOMAIN d.steps) <= d.limits.calls
  /\ Iterations(d) <= d.limits.iters

BudgetValid(d) ==
  /\ Calls(d) <= d.limits.calls
  /\ Iterations(d) <= d.limits.iters

\* validLimits; bytes stands for the input and the output bytes.
LimitsValid(l) ==
  l.steps \in 1..64 /\ l.iters \in 1..20 /\ l.calls \in 1..128 /\ l.bytes \in 1..MaxBytes

Validate(d, contracts) ==
  /\ LimitsValid(d.limits)
  /\ Cardinality(DOMAIN d.steps) \in 1..d.limits.steps
  /\ SchemaValid(d.task) /\ d.task.type = "object"
  /\ \A k \in DOMAIN d.reqs:
       /\ k \in DOMAIN contracts
       /\ SchemaValid(contracts[k].in) /\ SchemaValid(contracts[k].out)
       /\ contracts[k].in.type = "object" /\ contracts[k].out.type = "object"
  /\ RequirementsValid(d)
  /\ GroupsValid(d)
  /\ OrderValid(d)
  /\ \A s \in DOMAIN d.steps: EachValid(d, contracts, s) /\ InputsValid(d, contracts, s)
  /\ BudgetValid(d)

-----------------------------------------------------------------------------
(* assemble: from the candidates the index found for each requirement, a   *)
(* set of [binding, conn, admitted], to one selected candidate per key.    *)
(* want holds the caller's own selections by key: a binding, a connection, *)
(* or "any".                                                               *)

Eligible(found, want, k) ==
  {c \in found[k]: /\ c.admitted
                   /\ want[k].binding \in {"any", c.binding}
                   /\ want[k].conn \in {"any", c.conn}}

Connections(S) == {c.conn: c \in S}

\* Mutant of Deciding: an optional member takes part wherever it has a
\* candidate.
DecidingAll(d, cands, g) == {k \in g: d.reqs[k].opt => cands[k] # {}}

\* The members of a group that decide its connection: the required ones, or
\* in a group of optional ones those with a candidate.
Deciding(d, cands, g) ==
  IF \E k \in g: ~d.reqs[k].opt THEN {k \in g: ~d.reqs[k].opt}
  ELSE {k \in g: cands[k] # {}}

Viable(d, cands, g) ==
  LET deciding == Deciding(d, cands, g)
      some == CHOOSE k \in deciding: TRUE
  IN {x \in Connections(cands[some]): \A k \in deciding: x \in Connections(cands[k])}

GroupStatus(d, cands, g) ==
  IF Deciding(d, cands, g) = {} THEN "untouched"
  ELSE LET n == Cardinality(Viable(d, cands, g))
       IN CASE n = 0 -> IF \E k \in g: ~d.reqs[k].opt THEN "connection_mismatch" ELSE "dropped"
            [] n = 1 -> "shared"
            [] OTHER -> "requires_selection"

\* The candidates left once every group has settled on its connection.
Settled(d, cands) ==
  [k \in DOMAIN d.reqs |->
     LET of == {i \in 1..Len(d.groups): k \in d.groups[i]}
     IN IF of = {} THEN cands[k]
        ELSE LET g == d.groups[CHOOSE i \in of: TRUE]
                 status == GroupStatus(d, cands, g)
             IN CASE status = "shared" -> {c \in cands[k]: c.conn \in Viable(d, cands, g)}
                  [] status = "dropped" -> {}
                  [] OTHER -> cands[k]]

\* The steps whose requirement is missing and all that come after one: the
\* least set that neither rule adds a step to.
Disabled(d, missing) ==
  LET S == DOMAIN d.steps
      closed(C) == \A s \in S: d.steps[s].req \in missing \/ d.steps[s].after \cap C # {} => s \in C
  IN {s \in S: \A C \in SUBSET S: closed(C) => s \in C}

Failed(status) == [status |-> status, selected |-> <<>>, disabled |-> {}]

Assemble(d, found, want) ==
  LET keys == DOMAIN d.reqs
      required == {k \in keys: ~d.reqs[k].opt}
      cands == [k \in keys |-> Eligible(found, want, k)]
      failing == {i \in 1..Len(d.groups):
                    GroupStatus(d, cands, d.groups[i]) \in {"connection_mismatch", "requires_selection"}}
      settled == Settled(d, cands)
      missing == {k \in keys: settled[k] = {}}
  IN IF \E k \in required: cands[k] = {} THEN Failed("requires_connection")
     ELSE IF failing # {} THEN Failed(GroupStatus(d, cands, d.groups[Min(failing)]))
     ELSE IF \E k \in keys: Cardinality(settled[k]) > 1 THEN Failed("requires_selection")
     ELSE IF missing \cap required # {} THEN Failed("requires_connection")
     ELSE [status |-> "ready",
           selected |-> [k \in keys \ missing |-> CHOOSE c \in settled[k]: TRUE],
           disabled |-> Disabled(d, missing)]

-----------------------------------------------------------------------------
(* Usage: the caller's own accounting of one run. *)

NoUsage == [calls |-> 0, iters |-> 0, bytes |-> 0]

Fits(l, u, iteration, n) ==
  /\ u.calls < l.calls
  /\ u.iters <= l.iters - (IF iteration THEN 1 ELSE 0)
  /\ n <= l.bytes - u.bytes

Consume(u, iteration, n) ==
  [calls |-> u.calls + 1, iters |-> u.iters + (IF iteration THEN 1 ELSE 0), bytes |-> u.bytes + n]

=============================================================================
