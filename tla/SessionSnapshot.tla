-------------------------- MODULE SessionSnapshot --------------------------
(***************************************************************************)
(* A session's event log (session.go) and BuildSnapshot over it            *)
(* (snapshot.go) while other goroutines add events: the builder takes the  *)
(* session's mutex five times, once per view it needs, and events may come *)
(* in between.  The log only grows, so a view is the length of the log     *)
(* when it was taken.                                                      *)
(***************************************************************************)
EXTENDS Snippets

CONSTANTS
  MaxEvents,   \* bound on the events of the session
  RecentMax,   \* how many events "Recent Activity" shows (5)
  LineLen,     \* the bytes of one line of a section
  Budgets      \* the token budgets Render is called with

ASSUME SessionAssumptions ==
  MaxEvents \in Nat /\ RecentMax \in Nat /\ LineLen \in Nat \ {0} /\ Budgets \subseteq Nat

VARIABLES
  log,    \* the events of the session, by type
  views,  \* the views taken so far: lengths of the log, in order
  snap    \* the snapshot: <<>> or [sections, budget, written]

sessVars == <<log, views, snap>>

EventTypes == {"index", "search", "error"}

SessInit == log = <<>> /\ views = <<>> /\ snap = <<>>

AddEvent(e) ==
  /\ Len(log) < MaxEvents
  /\ log' = Append(log, e)
  /\ UNCHANGED <<views, snap>>

\* EventsByType on the first n events: their positions.
EventsByType(n, type) == {i \in 1..n: log[i] = type}

\* The last events of the first n.
Recent(n) == {i \in 1..n: i > n - RecentMax}

\* Text of k lines.
Lines(k) == [i \in 1..(k * LineLen + k - 1) |-> IF i % (LineLen + 1) = 0 THEN "n" ELSE "w"]

\* The types of the first n events.
Kinds(n) == {log[i]: i \in 1..n}

\* One locked read: Events, EventsByType("error"), ("search"), ("index") and
\* Summary, in this order.
TakeView ==
  /\ Len(views) < 5 /\ snap = <<>>
  /\ views' = Append(views, Len(log))
  /\ UNCHANGED <<log, snap>>

\* A section, left out when it has nothing to show.
Titled(title, shows) == IF shows = {} THEN <<>> ELSE <<[title |-> title, shows |-> shows]>>

\* Mutant of Sections: the errors are read before the recent events.
SectionsErrorsFirst ==
  Titled("Errors", EventsByType(views[1], "error"))
    \o Titled("RecentActivity", Recent(views[2]))
    \o Titled("SearchSummary", EventsByType(views[3], "search"))
    \o Titled("IndexedSources", EventsByType(views[4], "index"))

\* The sections of the snapshot before the metadata, and what each shows.
Sections ==
  Titled("Errors", EventsByType(views[2], "error"))
    \o Titled("RecentActivity", Recent(views[1]))
    \o Titled("SearchSummary", EventsByType(views[3], "search"))
    \o Titled("IndexedSources", EventsByType(views[4], "index"))

\* The texts of the sections; the session's metadata comes last, three lines
\* and one for each type seen.
Texts == [i \in 1..Len(Sections) |-> Lines(Cardinality(Sections[i].shows))]
           \o <<Lines(3 + Cardinality(Kinds(views[5])))>>

\* The snapshot is built from its views and rendered to a budget.
RenderSnapshot(b) ==
  /\ Len(views) = 5 /\ snap = <<>>
  /\ snap' = [sections |-> Sections, texts |-> Texts, budget |-> b,
              written |-> Render(Texts, b)]
  /\ UNCHANGED <<log, views>>

SessNext ==
  \/ \E e \in EventTypes: AddEvent(e)
  \/ TakeView
  \/ \E b \in Budgets: RenderSnapshot(b)

SessSpec == SessInit /\ [][SessNext]_sessVars

(***************************************************************************)
(* No error that "Recent Activity" mentions is missing from "Errors",      *)
(* although the two come from different reads of the log: the errors are   *)
(* read later, so they include all that the earlier read saw.  And what    *)
(* Render writes of the sections costs at most its budget: a prefix of     *)
(* them in priority order, all whole but the last.                         *)
(***************************************************************************)
SnapshotKeepsItsErrors ==
  snap # <<>> =>
    LET Shown(t) == UNION {snap.sections[i].shows: i \in
                             {j \in 1..Len(snap.sections): snap.sections[j].title = t}}
        w == snap.written
    IN /\ \A i \in Shown("RecentActivity"): log[i] = "error" => i \in Shown("Errors")
       /\ Len(w) <= Len(snap.texts)
       /\ \A i \in 1..Len(w): w[i] = Len(snap.texts[i]) \/ (i = Len(w) /\ w[i] < Len(snap.texts[i]))
       /\ snap.budget > 0 => Costs(w)[Len(w)] <= snap.budget
       /\ snap.budget = 0 => Len(w) = Len(snap.texts)

=============================================================================
