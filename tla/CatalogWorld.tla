---------------------------- MODULE CatalogWorld ----------------------------
(***************************************************************************)
(* What the readers of the catalog see and cannot hold still: the states   *)
(* of one skill and the artifacts of its capability's closure (and of      *)
(* another skill), the caller's membership,                                *)
(* the caller-owned connection and task admission, and the clock.  Each    *)
(* read is a step of its own; everything here may change between two.      *)
(***************************************************************************)
EXTENDS Integers, Sequences, FiniteSets, FiniteSetsExt

CONSTANTS MaxChanges,   \* changes of this world in one behaviour
          MaxTime

VARIABLES state,    \* per artifact: published, deprecated, revoked or absent
          member,   \* whether the authorizer allows the principal
          conn,     \* the caller's connection: its generation, and ready
          task,     \* the intent-to-recipe admission: its generation, and ok
          now,
          changes   \* changes made so far

worldVars == <<state, member, conn, task, now, changes>>

Artifacts == {"skill", "cap", "bind", "rival", "tool", "prov", "other"}
Bindings == {"bind", "rival"}
Alive(a) == state[a] \in {"published", "deprecated"}

\* Retrieve and its siblings: the policy first, then the record's state.
Readable(a) == member /\ Alive(a)

Change == changes < MaxChanges /\ changes' = changes + 1

Revoke(a) ==
  /\ Change
  /\ state[a] # "absent" /\ state[a] # "revoked"
  /\ state' = [state EXCEPT ![a] = "revoked"]
  /\ UNCHANGED <<member, conn, task, now>>

\* A second binding of the same capability is published.
PublishRival ==
  /\ Change
  /\ state["rival"] = "absent"
  /\ state' = [state EXCEPT !["rival"] = "published"]
  /\ UNCHANGED <<member, conn, task, now>>

\* The membership ends or its policy generation advances; either way the
\* principal of the call is denied from then on.
Offboard ==
  /\ Change
  /\ member
  /\ member' = FALSE
  /\ UNCHANGED <<state, conn, task, now>>

ChangeConnection ==
  /\ Change
  /\ \E r \in BOOLEAN: conn' = [gen |-> conn.gen + 1, ready |-> r]
  /\ UNCHANGED <<state, member, task, now>>

ChangeAdmission ==
  /\ Change
  /\ \E ok \in BOOLEAN: task' = [gen |-> task.gen + 1, ok |-> ok]
  /\ UNCHANGED <<state, member, conn, now>>

Tick ==
  /\ now < MaxTime
  /\ now' = now + 1
  /\ UNCHANGED <<state, member, conn, task, changes>>

WorldInit ==
  /\ \E s \in {"published", "deprecated"}, o, c \in {"absent", "published"}:
       state = [a \in Artifacts |-> CASE a = "rival" -> "absent" [] a = "other" -> o
                                      [] a = "cap" -> c [] OTHER -> s]
  /\ member = TRUE
  /\ conn \in {[gen |-> 1, ready |-> r]: r \in BOOLEAN}
  /\ task \in {[gen |-> 1, ok |-> ok]: ok \in BOOLEAN}
  /\ now = 0
  /\ changes = 0

WorldNext ==
  \/ \E a \in Artifacts: Revoke(a)
  \/ PublishRival \/ Offboard \/ ChangeConnection \/ ChangeAdmission \/ Tick

=============================================================================
