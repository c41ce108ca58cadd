----------------------------- MODULE Resolution -----------------------------
(***************************************************************************)
(* Resolver.Resolve for a skill with one required capability: authorize    *)
(* and read the skill, the capability, the one binding that names it, and  *)
(* the tool and provider it names; classify what was found; persist the    *)
(* pinned result under a lease and only then answer.                       *)
(***************************************************************************)
EXTENDS CatalogWorld

CONSTANTS MaxLease,     \* maxLease
          Lease,        \* the lease a request asks for
          Fixed         \* the immutable documents a behaviour may have

VARIABLES shape,    \* the documents of this behaviour, a member of Fixed
          res,      \* the resolution in progress
          pinned    \* the resolutions table

resVars == <<shape, res, pinned>>

-----------------------------------------------------------------------------
(* shape has: optional, whether the capability is; conforms, whether the   *)
(* binding passed conformance at exact versions; supported, the provider's *)
(* support state; location, where the tool runs; local and files, the      *)
(* skill's runtime requirements; and creds, whether the tool needs any.    *)

Classify(owned) ==
  IF ~shape.supported THEN "incomplete"
  ELSE IF shape.location = "gist_gateway" THEN "requires_gateway"
  ELSE IF shape.files \/ (shape.local /\ shape.location # "client") THEN "unsupported_runtime"
  ELSE IF shape.creds /\ ~owned THEN "requires_connection"
  ELSE "ready"

Pinned(status) == status \notin {"incomplete", "requires_selection"}

Finding(status, binding) ==
  [status |-> status,
   closure |-> IF Pinned(status) THEN <<"cap", binding, "tool", "prov">> ELSE <<>>]

NoResult == [status |-> "none", finding |-> Finding("incomplete", "bind")]
Resting == [pc |-> "rest", owned |-> FALSE, binding |-> "bind", out |-> NoResult]

\* The aggregate: only a required finding keeps a resolution from ready.
Aggregate(f) == IF f.status # "ready" /\ ~shape.optional THEN "incomplete" ELSE "ready"

StartResolve(owned) == res' = [Resting EXCEPT !.pc = "skill", !.owned = owned]
Raise == res' = [Resting EXCEPT !.pc = "failed"]
Conclude(f) == res' = [res EXCEPT !.pc = "persist",
                                  !.out = [status |-> Aggregate(f), finding |-> f]]
NextRead(pc) == res' = [res EXCEPT !.pc = pc]

-----------------------------------------------------------------------------

ReadSkill ==
  /\ res.pc = "skill"
  /\ IF Readable("skill") THEN NextRead("capability") ELSE Raise

\* A denied or revoked artifact fails the call; one that is not there only
\* leaves the finding incomplete.
ReadCapability ==
  /\ res.pc = "capability"
  /\ IF Readable("cap") THEN NextRead("search")
     ELSE IF member /\ state["cap"] = "absent" THEN Conclude(Finding("incomplete", "bind"))
     ELSE Raise

\* The complete scan of live bindings that name the capability.
SearchBindings ==
  LET matches == {b \in Bindings: Alive(b)}
  IN /\ res.pc = "search"
     /\ CASE matches = {} -> Conclude(Finding("incomplete", "bind"))
          [] Cardinality(matches) > 1 -> Conclude(Finding("requires_selection", "bind"))
          [] OTHER -> res' = [res EXCEPT !.pc = "binding", !.binding = CHOOSE b \in matches: TRUE]

ReadBinding ==
  /\ res.pc = "binding"
  /\ IF ~Readable(res.binding) THEN Raise
     ELSE IF ~shape.conforms THEN Conclude(Finding("incomplete", res.binding))
     ELSE NextRead("tool")

ReadTool ==
  /\ res.pc = "tool"
  /\ IF ~member THEN Raise
     ELSE IF Alive("tool") THEN NextRead("provider")
     ELSE Raise

ReadProvider ==
  /\ res.pc = "provider"
  /\ IF Alive("prov") THEN Conclude(Finding(Classify(res.owned), res.binding)) ELSE Raise

LeaseExpiry == now + (IF Lease \in 1..MaxLease THEN Lease ELSE MaxLease)

\* persist: the row is inserted under the caller's tenant, or the call fails.
Persist ==
  /\ res.pc = "persist"
  /\ \/ /\ pinned' = pinned \cup {[out |-> res.out, expires |-> LeaseExpiry]}
        /\ NextRead("resolved")
     \/ Raise /\ UNCHANGED pinned

ResolveStep ==
  /\ \/ (ReadSkill \/ ReadCapability \/ SearchBindings \/ ReadBinding \/ ReadTool \/ ReadProvider)
          /\ UNCHANGED pinned
     \/ Persist
  /\ UNCHANGED shape

\* GetPinnedResolution for the principal that stored it.
Retained(out) == \E p \in pinned: p.out = out /\ p.expires > now

ResolutionInit ==
  /\ shape \in Fixed
  /\ res = Resting
  /\ pinned = {}

=============================================================================
