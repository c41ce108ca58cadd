------------------------------ MODULE McpServer ------------------------------
(* The remote MCP transport of the registry (remotemcp.Handler) inside the *)
(* request lifetime of the application (app.requestContext, App.Shutdown). *)
(*                                                                         *)
(* The session table is kept in three recency lists: all sessions, those   *)
(* of a principal and those of a workspace.  A list gives each session in  *)
(* it with the sessions behind it, since all that the handler asks of a    *)
(* list is what lies between a session and the cold end.  The handler's    *)
(* mutex makes every change of the table one step; what interleaves are    *)
(* requests, calls in flight, the clock and the shutdown.                  *)
EXTENDS Integers, FiniteSets

CONSTANTS
  MaxDrawn,        \* bound: session identifiers newSession may draw
  Principal,       \* authenticated callers
  Workspace,       \* tenants
  Home,            \* the workspace of each principal
  Request,         \* HTTP requests in flight
  Janitor,         \* background janitors of this process
  None,
  MaxPerPrincipal, \* Config.MaxSessionsPerPrincipal
  MaxPerWorkspace, \* Config.MaxSessionsPerWorkspace
  MaxSessions,     \* Config.MaxSessions
  MaxCalls,        \* Config.MaxCalls
  TTL,             \* Config.SessionTTL
  MaxTime          \* bound: the clock stops here

(* New clamps each smaller cap to the next larger one.                     *)
ASSUME CapAssumption ==
  /\ MaxPerPrincipal \in Nat \ {0}
  /\ MaxPerWorkspace \in Nat /\ MaxPerPrincipal <= MaxPerWorkspace
  /\ MaxSessions \in Nat /\ MaxPerWorkspace <= MaxSessions
  /\ MaxCalls \in Nat \ {0}
  /\ TTL \in Nat
  /\ MaxTime \in Nat
  /\ MaxDrawn \in Nat

ASSUME HomeAssumption == Home \in [Principal -> Workspace]

ASSUME NoneAssumption == None \notin Nat \union Principal

(* Each request in flight is a goroutine of the process.                   *)
ASSUME RequestAssumption == IsFiniteSet(Request)

(* Identifiers are random and never repeat; they are numbered in the order *)
(* they are drawn.                                                         *)
Session == 1..MaxDrawn

VARIABLES
  clock,    \* Handler.now
  table,    \* the sessions map with session.last, and the three lists
  calls,    \* tools/call requests in flight per session
  drawn,    \* identifiers drawn so far
  req,      \* where each request is
  phase,    \* progress of App.Shutdown
  janitors  \* what the janitors' goroutines do

vars == <<clock, table, calls, drawn, req, phase, janitors>>

(* A recency list: list[s] is the part of the list from s to the cold end, *)
(* and empty for a session that is not in the list.                        *)
Members(list) == {s \in Session : list[s] # {}}
EmptyList == [s \in Session |-> {}]

NoSessions ==
  [owner |-> [s \in Session |-> None],        \* sessions[id].principal
   last  |-> [s \in Session |-> 0],           \* sessions[id].last
   all   |-> EmptyList,                       \* lru
   own   |-> [p \in Principal |-> EmptyList], \* byPrincipal
   ws    |-> [w \in Workspace |-> EmptyList]] \* byWorkspace

(* A request remembers its caller until it is answered, and its session    *)
(* during a call.                                                          *)
At(pc, p, s) == [pc |-> pc, principal |-> p, session |-> s]
Absent == At("absent", None, None)

Init ==
  /\ clock = 0
  /\ table = NoSessions
  /\ calls = [s \in Session |-> 0]
  /\ drawn = 0
  /\ req = [r \in Request |-> Absent]
  /\ phase = "up"
  /\ janitors = [j \in Janitor |-> "running"]

-----------------------------------------------------------------------------
(* The session table: the operators below are the "Locked" methods, from   *)
(* a value of the table to the next.                                       *)

Expired(s) == clock - table.last[s] > TTL
Busy(s) == calls[s] > 0

Without(list, S) == [s \in Session |-> IF s \in S THEN {} ELSE list[s] \ S]

(* removeLocked, for each session of S.                                    *)
Drop(t, S) ==
  [owner |-> [s \in Session |-> IF s \in S THEN None ELSE t.owner[s]],
   last  |-> [s \in Session |-> IF s \in S THEN 0 ELSE t.last[s]],
   all   |-> Without(t.all, S),
   own   |-> [p \in Principal |-> Without(t.own[p], S)],
   ws    |-> [w \in Workspace |-> Without(t.ws[w], S)]]

(* sweepExpiredLocked: from the cold end up to the first session within    *)
(* its TTL, every idle one goes.                                           *)
Swept(list) ==
  {s \in Members(list) : ~Busy(s) /\ \A x \in list[s] : Expired(x)}

(* evictIdleLocked: the coldest idle session, or none.                     *)
Evicted(list) ==
  {s \in Members(list) : ~Busy(s) /\ \A x \in list[s] \ {s} : Busy(x)}

(* What one cap evicts, and whether it refuses the new session.            *)
Full(list, cap) == Cardinality(Members(list)) >= cap
Evictions(list, cap) == IF Full(list, cap) THEN Evicted(list) ELSE {}
Refuses(list, cap) == Full(list, cap) /\ Evicted(list) = {}

(* Mutant: the machine-wide cap is applied first.                          *)
MakeRoomGlobalFirst(p) ==
  LET own(gone) == Without(table.own[p], gone)
      ws(gone) == Without(table.ws[Home[p]], gone)
      all(gone) == Without(table.all, gone)
      g0 == Swept(table.all)
      g1 == g0 \union Evictions(all(g0), MaxSessions)
      g2 == g1 \union Evictions(own(g1), MaxPerPrincipal)
      g3 == g2 \union Evictions(ws(g2), MaxPerWorkspace)
  IN  IF Refuses(all(g0), MaxSessions) THEN [ok |-> FALSE, gone |-> g0]
      ELSE IF Refuses(own(g1), MaxPerPrincipal) THEN [ok |-> FALSE, gone |-> g1]
      ELSE IF Refuses(ws(g2), MaxPerWorkspace) THEN [ok |-> FALSE, gone |-> g2]
      ELSE [ok |-> TRUE, gone |-> g3]

(* addSessionLocked up to the insertion: sweep, then make room under each  *)
(* cap in turn.  A refusal keeps what was removed before it.               *)
MakeRoom(p) ==
  LET own(gone) == Without(table.own[p], gone)
      ws(gone) == Without(table.ws[Home[p]], gone)
      all(gone) == Without(table.all, gone)
      g0 == Swept(table.all)
      g1 == g0 \union Evictions(own(g0), MaxPerPrincipal)
      g2 == g1 \union Evictions(ws(g1), MaxPerWorkspace)
      g3 == g2 \union Evictions(all(g2), MaxSessions)
  IN  IF Refuses(own(g0), MaxPerPrincipal) THEN [ok |-> FALSE, gone |-> g0]
      ELSE IF Refuses(ws(g1), MaxPerWorkspace) THEN [ok |-> FALSE, gone |-> g1]
      ELSE IF Refuses(all(g2), MaxSessions) THEN [ok |-> FALSE, gone |-> g2]
      ELSE [ok |-> TRUE, gone |-> g3]

(* A new session, or one of the list, becomes the most recent.             *)
ToFront(list, s) ==
  [x \in Session |-> IF x = s THEN Members(list) \union {s} ELSE list[x] \ {s}]

(* The insertion: in front of the three lists.                             *)
PushFront(t, s, p) ==
  [owner |-> [t.owner EXCEPT ![s] = p],
   last  |-> [t.last EXCEPT ![s] = clock],
   all   |-> ToFront(t.all, s),
   own   |-> [t.own EXCEPT ![p] = ToFront(@, s)],
   ws    |-> [t.ws EXCEPT ![Home[p]] = ToFront(@, s)]]

AddSession(s, p) ==
  LET room == MakeRoom(p)
      kept == Drop(table, room.gone)
  IN  IF room.ok THEN PushFront(kept, s, p) ELSE kept

-----------------------------------------------------------------------------
(* Requests.                                                               *)

Becomes(r, value) == req' = [req EXCEPT ![r] = value]

(* Mutant: the fence is not consulted.                                     *)
EnterUnfenced(r) ==
  /\ req[r].pc = "absent"
  /\ Becomes(r, At("entered", None, None))
  /\ UNCHANGED <<clock, table, calls, drawn, phase, janitors>>

(* requestLifetime.enter: nothing enters once stop was called.             *)
Enter(r) ==
  /\ req[r].pc = "absent"
  /\ phase = "up"
  /\ Becomes(r, At("entered", None, None))
  /\ UNCHANGED <<clock, table, calls, drawn, phase, janitors>>

(* The slot is free and the caller authenticates as p.  (A full semaphore  *)
(* answers 429: the request Leaves.)                                       *)
Admit(r, p) ==
  /\ req[r].pc = "entered"
  /\ Becomes(r, At("admitted", p, None))
  /\ UNCHANGED <<clock, table, calls, drawn, phase, janitors>>

(* Method initialize.                                                      *)
Initialize(r) ==
  /\ req[r].pc = "admitted"
  /\ drawn < MaxDrawn
  /\ drawn' = drawn + 1
  /\ table' = AddSession(drawn + 1, req[r].principal)
  /\ Becomes(r, At("answered", None, None))
  /\ UNCHANGED <<clock, calls, phase, janitors>>

(* touchLocked: the session is the caller's own and within its TTL.        *)
Live(s, p) == table.owner[s] = p /\ ~Expired(s)

(* Mutant: the principal's list is not reordered.                          *)
TouchForgetsOwn(s, p) ==
  [table EXCEPT !.last[s] = clock,
                !.all = ToFront(@, s),
                !.ws[Home[p]] = ToFront(@, s)]

Touch(s, p) ==
  [owner |-> table.owner,
   last  |-> [table.last EXCEPT ![s] = clock],
   all   |-> ToFront(table.all, s),
   own   |-> [table.own EXCEPT ![p] = ToFront(@, s)],
   ws    |-> [table.ws EXCEPT ![Home[p]] = ToFront(@, s)]]

(* touchLocked fails: an idle session of the caller past its TTL goes.     *)
Refused(r, s) ==
  /\ req[r].pc = "admitted"
  /\ s <= drawn
  /\ ~Live(s, req[r].principal)
  /\ table' = IF table.owner[s] = req[r].principal /\ ~Busy(s)
              THEN Drop(table, {s}) ELSE table
  /\ Becomes(r, At("answered", None, None))
  /\ UNCHANGED <<clock, calls, drawn, phase, janitors>>

(* tools/list and unknown methods.                                         *)
List(r, s) ==
  /\ req[r].pc = "admitted"
  /\ Live(s, req[r].principal)
  /\ table' = Touch(s, req[r].principal)
  /\ Becomes(r, At("answered", None, None))
  /\ UNCHANGED <<clock, calls, drawn, phase, janitors>>

(* admitCall: the session is checked and the call counted in one critical  *)
(* section; a call over MaxCalls is counted too, and answered rate_limited. *)
AdmitCall(r, s) ==
  /\ req[r].pc = "admitted"
  /\ Live(s, req[r].principal)
  /\ table' = Touch(s, req[r].principal)
  /\ calls' = [calls EXCEPT ![s] = @ + 1]
  /\ Becomes(r, At(IF calls[s] + 1 > MaxCalls THEN "limited" ELSE "call", None, s))
  /\ UNCHANGED <<clock, drawn, phase, janitors>>

(* releaseCall: deferred, so it follows a served call, a call over         *)
(* MaxCalls and a panic alike.                                             *)
ReleaseCall(r) ==
  /\ req[r].pc \in {"call", "limited"}
  /\ calls' = [calls EXCEPT ![req[r].session] = @ - 1]
  /\ Becomes(r, At("answered", None, None))
  /\ UNCHANGED <<clock, table, drawn, phase, janitors>>

(* Mutant: the early returns of the transport do not leave the lifetime.   *)
LeaveAuthenticated(r) ==
  /\ req[r].pc \in {"admitted", "answered"}
  /\ Becomes(r, Absent)
  /\ UNCHANGED <<clock, table, calls, drawn, phase, janitors>>

(* The deferred release of the slot and of the lifetime: after an answer,  *)
(* and after those that touch no session (another method or route, a       *)
(* foreign origin, no free slot, no token, a body too large, a             *)
(* notification).                                                          *)
Leave(r) ==
  /\ req[r].pc \in {"entered", "admitted", "answered"}
  /\ Becomes(r, Absent)
  /\ UNCHANGED <<clock, table, calls, drawn, phase, janitors>>

Tick ==
  /\ clock < MaxTime
  /\ clock' = clock + 1
  /\ UNCHANGED <<table, calls, drawn, req, phase, janitors>>

-----------------------------------------------------------------------------
(* App.Shutdown.                                                           *)

(* closeOnce: admission stops and the janitors are cancelled.              *)
Stop ==
  /\ phase = "up"
  /\ phase' = "stopping"
  /\ UNCHANGED <<clock, table, calls, drawn, req, janitors>>

JanitorReturns(j) ==
  /\ phase # "up"
  /\ janitors[j] = "running"
  /\ janitors' = [janitors EXCEPT ![j] = "returned"]
  /\ UNCHANGED <<clock, table, calls, drawn, req, phase>>

(* server.Shutdown returns, drained or at its deadline, and in the second  *)
(* case server.Close: handlers may still be running.  Then the janitors    *)
(* are awaited.                                                            *)
JanitorsAwaited ==
  /\ phase = "stopping"
  /\ \A j \in Janitor : janitors[j] = "returned"
  /\ phase' = "draining"
  /\ UNCHANGED <<clock, table, calls, drawn, req, janitors>>

(* requestLifetime.wait, then objects.Close and pool.Close.                *)
CloseBackends ==
  /\ phase = "draining"
  /\ \A r \in Request : req[r].pc = "absent"
  /\ phase' = "down"
  /\ UNCHANGED <<clock, table, calls, drawn, req, janitors>>

-----------------------------------------------------------------------------
Serve(r) ==
  \/ \E p \in Principal : Admit(r, p)
  \/ Initialize(r)
  \/ \E s \in Session : Refused(r, s) \/ List(r, s) \/ AdmitCall(r, s)
  \/ ReleaseCall(r)
  \/ Leave(r)

Shutdown == JanitorsAwaited \/ CloseBackends

Next ==
  \/ \E r \in Request : Enter(r) \/ Serve(r)
  \/ \E j \in Janitor : JanitorReturns(j)
  \/ Tick
  \/ Stop
  \/ Shutdown

Spec == Init /\ [][Next]_vars

(* A call in flight returns, and a handler that does not go on otherwise   *)
(* reaches its end (a request takes no step twice, so this is all that     *)
(* weak fairness of the handler says); a cancelled janitor returns and the *)
(* shutdown goroutine takes its next step: the deadline of the HTTP server *)
(* passes.                                                                 *)
Fairness ==
  /\ \A r \in Request : WF_vars(ReleaseCall(r)) /\ WF_vars(Leave(r))
  /\ \A j \in Janitor : WF_vars(JanitorReturns(j))
  /\ WF_vars(Shutdown)

FairSpec == Spec /\ Fairness

-----------------------------------------------------------------------------
(* Properties.                                                             *)

LiveSessions == {s \in Session : table.owner[s] # None}

(* Type invariant: the table, the counts and the requests have their shape. *)
TypeOK ==
  /\ clock \in 0..MaxTime
  /\ table.owner \in [Session -> Principal \union {None}]
  /\ table.last \in [Session -> 0..MaxTime]
  /\ table.all \in [Session -> SUBSET Session]
  /\ table.own \in [Principal -> [Session -> SUBSET Session]]
  /\ table.ws \in [Workspace -> [Session -> SUBSET Session]]
  /\ calls \in [Session -> 0..Cardinality(Request)]
  /\ drawn \in 0..MaxDrawn
  /\ req \in [Request ->
       [pc : {"absent", "entered", "admitted", "call", "limited", "answered"},
        principal : Principal \union {None},
        session : Session \union {None}]]
  /\ phase \in {"up", "stopping", "draining", "down"}
  /\ janitors \in [Janitor -> {"running", "returned"}]

(* A list is linear: of two sessions one is behind the other, with all     *)
(* that is behind it.                                                      *)
IsList(list) ==
  LET on == Members(list)
  IN  /\ \A s \in on : list[s] \subseteq on
      /\ \A s, x \in on :
           /\ x \in list[s] \/ s \in list[x]
           /\ x \in list[s] => list[x] \subseteq list[s]
           /\ x \in list[s] /\ s \in list[x] => x = s

(* Each list holds exactly the sessions it is for, in the order of the     *)
(* global list, and that order is the order of last use: sweepExpired and  *)
(* evictIdle, which stop at the first session that fits, rely on it.       *)
IndexesAgree ==
  /\ IsList(table.all) /\ Members(table.all) = LiveSessions
  /\ \A p \in Principal :
       table.own[p] = Without(table.all, {s \in Session : table.owner[s] # p})
  /\ \A w \in Workspace :
       table.ws[w] = Without(table.all, {s \in LiveSessions : Home[table.owner[s]] # w})
  /\ \A s \in Session : \A x \in table.all[s] : table.last[x] <= table.last[s]

(* No sequence of initializations exceeds the cap of a principal, of a     *)
(* workspace or of the process, in the sessions map itself.                *)
CapsHold ==
  /\ \A p \in Principal :
       Cardinality({s \in Session : table.owner[s] = p}) <= MaxPerPrincipal
  /\ \A w \in Workspace :
       Cardinality({s \in LiveSessions : Home[table.owner[s]] = w}) <= MaxPerWorkspace
  /\ Cardinality(LiveSessions) <= MaxSessions

(* The count of a session is the number of its calls in flight, at most    *)
(* MaxCalls of them are served, and a session with a call in flight is in  *)
(* the table: neither expiry nor eviction takes it from under the call.    *)
CallsCounted ==
  \A s \in Session :
    LET inFlight == {r \in Request : req[r].session = s}
    IN  /\ calls[s] = Cardinality(inFlight)
        /\ Cardinality({r \in inFlight : req[r].pc = "call"}) <= MaxCalls
        /\ inFlight # {} => s \in LiveSessions

(* The session table adds up, through touches, evictions, expiry, refusals *)
(* and calls in flight: map and lists agree in the order of last use, the  *)
(* caps hold, and the counts are those of the calls (addSessionLocked,     *)
(* touchLocked, admitCall, releaseCall).                                   *)
SessionTableAddsUp == TypeOK /\ IndexesAgree /\ CapsHold /\ CallsCounted

(* The database pool and the object store are closed only when every       *)
(* admitted request and every janitor has returned, and nothing enters     *)
(* afterwards.                                                             *)
BackendsOutliveWork ==
  phase = "down" =>
    /\ \A r \in Request : req[r].pc = "absent"
    /\ \A j \in Janitor : janitors[j] = "returned"

(* The sessions of a list that a sweep would leave.                        *)
Kept(list) == {s \in Members(list) : Busy(s) \/ ~Expired(s)}

(* What a new session may cost: at most one unexpired idle session, and    *)
(* none when the new session is refused.  It is another principal's only   *)
(* when the caller is below its own cap, another workspace's only when the *)
(* caller's workspace is below its cap too, and never one more recently    *)
(* used than another idle session of the same owner.                       *)
EvictionsAreFair ==
  [][\A r \in Request : drawn' # drawn /\ req'[r] # req[r] =>
       LET p == req[r].principal
           lost == {x \in LiveSessions : table'.owner[x] = None /\ ~Expired(x)}
       IN  /\ Cardinality(lost) <= 1
           /\ table'.owner[drawn'] = None => lost = {}
           /\ \A x \in lost :
                /\ table.owner[x] # p =>
                     Cardinality(Kept(table.own[p])) < MaxPerPrincipal
                /\ Home[table.owner[x]] # Home[p] =>
                     Cardinality(Kept(table.ws[Home[p]])) < MaxPerWorkspace
                /\ \A y \in LiveSessions :
                     table.owner[y] = table.owner[x] /\ ~Busy(y) /\ ~Expired(y)
                       => table.last[x] <= table.last[y]]_vars

(* A shutdown that was asked for closes the backends, however many         *)
(* requests and janitor passes were under way.                             *)
ShutdownCompletes == phase # "up" ~> phase = "down"

=============================================================================
