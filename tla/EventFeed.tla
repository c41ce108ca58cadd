------------------------------ MODULE EventFeed ------------------------------
(***************************************************************************)
(* The durable event feed of the hosted registry for one workspace and one *)
(* principal (hosted/internal/storage/events.go, event_retention_probe.go, *)
(* hosted/internal/rest/events.go) with the writers that append to it and  *)
(* the retention janitor of each replica (hosted/internal/app/             *)
(* event_janitor.go).                                                      *)
(*                                                                         *)
(* event_id is an IDENTITY column: an id is drawn when the writer inserts  *)
(* the row and the row becomes visible when its transaction commits, so    *)
(* ids need not become visible in order.  Transactions are READ COMMITTED: *)
(* the statements of one read see different snapshots, and a read is two   *)
(* steps here, the retention check and the selection of the page.          *)
(*                                                                         *)
(* Cursor ids are random and never reused; they are numbered in the order  *)
(* of their insertion, which is the cursor_order column.  Ages, times and  *)
(* policy generations are abstracted to "older than seven days", "cursor   *)
(* expired" and "the generation is still the principal's".                 *)
(***************************************************************************)
EXTENDS Naturals, FiniteSetsExt

CONSTANTS
  Client,     \* concurrent requests of the principal
  Janitor,    \* replicas that purge this workspace
  PageSize,   \* MaxEventsPerPage, 100
  CursorCap,  \* MaxEventCursors, 16
  PurgeBatch, \* MaxEventPurgeBatch, 1000
  MaxBatches, \* maxEventMaintenanceBatches, 20
  MaxEvent,   \* model bound on event ids
  MaxCursor   \* model bound on cursors ever inserted

ASSUME FeedAssumption ==
  /\ {PageSize, CursorCap, PurgeBatch, MaxBatches} \subseteq Nat \ {0}
  /\ {MaxEvent, MaxCursor} \subseteq Nat

EventId == 1..MaxEvent
CursorId == 1..MaxCursor

VARIABLES
  drawn,     \* last event_id drawn from the sequence
  writing,   \* ids drawn by transactions that are still open
  committed, \* every event that was ever committed
  late,      \* history: events committed when a greater id already was
  outbox,    \* event_outbox: committed and not purged
  old,       \* events older than EventRetention
  floor,     \* event_retention_floors.through_event_id
  issued,    \* last cursor_order drawn
  cursors,   \* event_cursors; base and got say what its chain has covered
  reading,   \* Client -> cursor whose read is past the retention check, or 0
  janitor,   \* Janitor -> its pass: batches done and rows it is deleting
  backlog    \* Janitor -> maintenanceErr of the last pass

vars == <<drawn, writing, committed, late, outbox, old, floor, issued, cursors,
          reading, janitor, backlog>>

feed == <<drawn, writing, committed, late>>
access == <<issued, cursors, reading>>
upkeep == <<janitor, backlog>>

Resting == [pc |-> "idle", batch |-> 0, rows |-> {}]

NoCursor == [live |-> FALSE, pos |-> 0, current |-> FALSE, expired |-> FALSE,
             base |-> {}, got |-> {}]

Init ==
  /\ drawn = 0
  /\ writing = {}
  /\ committed = {}
  /\ late = {}
  /\ outbox = {}
  /\ old = {}
  /\ floor = 0
  /\ issued = 0
  /\ cursors = [c \in CursorId |-> NoCursor]
  /\ reading = [k \in Client |-> 0]
  /\ janitor = [j \in Janitor |-> Resting]
  /\ backlog = [j \in Janitor |-> FALSE]

Lowest(S, n) == {e \in S : Cardinality({x \in S : x < e}) < n}

-----------------------------------------------------------------------------
(* Writers: publication, revocation and Append insert an event in their    *)
(* own transaction, any number of them at a time; a transaction is known   *)
(* here by the id it drew.                                                 *)

InsertEvent ==
  /\ drawn < MaxEvent
  /\ drawn' = drawn + 1
  /\ writing' = writing \union {drawn + 1}
  /\ UNCHANGED <<committed, late, outbox, old, floor, access, upkeep>>

CommitEvent(e) ==
  /\ e \in writing
  /\ writing' = writing \ {e}
  /\ committed' = committed \union {e}
  /\ late' = IF \E x \in committed : x > e THEN late \union {e} ELSE late
  /\ outbox' = outbox \union {e}
  /\ UNCHANGED <<drawn, old, floor, access, upkeep>>

(* The id of a rolled back insert is never used again.                     *)
RollBackEvent(e) ==
  /\ e \in writing
  /\ writing' = writing \ {e}
  /\ UNCHANGED <<drawn, committed, late, outbox, old, floor, access, upkeep>>

(* Seven days pass since the event occurred.                               *)
GrowOld(e) ==
  /\ e \in outbox \ old
  /\ old' = old \union {e}
  /\ UNCHANGED <<feed, outbox, floor, access, upkeep>>

-----------------------------------------------------------------------------
(* Cursors.  The principal's advisory lock keeps its transactions apart.   *)

Unlocked == \A k \in Client : reading[k] = 0

LiveCursors(cs) == {c \in CursorId : cs[c].live}

(* pruneEventCursors: DELETE ... WHERE expires_at <= now.                  *)
Pruned(cs) == [c \in CursorId |-> IF cs[c].expired THEN NoCursor ELSE cs[c]]

(* makeCursorRoom: all but the newest MaxEventCursors - 1 rows go.         *)
Roomy(cs) ==
  LET newer(c) == {d \in LiveCursors(cs) : d > c}
  IN  [c \in CursorId |-> IF Cardinality(newer(c)) < CursorCap - 1
                          THEN cs[c] ELSE NoCursor]

(* OpenEventPageForPrincipal and NewEventCursor: a new cursor behind       *)
(* everything visible or purged.  An empty page that exceeds the response  *)
(* budget is refused before anything is written.                           *)
OpenPage ==
  /\ Unlocked
  /\ issued < MaxCursor
  /\ issued' = issued + 1
  /\ cursors' = [Roomy(Pruned(cursors)) EXCEPT ![issued + 1] =
                   [live |-> TRUE, pos |-> Max(outbox \union {floor}),
                    current |-> TRUE, expired |-> FALSE,
                    base |-> committed, got |-> {}]]
  /\ UNCHANGED <<feed, outbox, old, floor, reading, upkeep>>

(* readEventPage up to the retention check.  An unknown, foreign, expired  *)
(* or overtaken cursor answers 409 cursor_expired and changes nothing.     *)
ReadCheck(k, c) ==
  /\ Unlocked
  /\ cursors[c].live
  /\ cursors[c].current
  /\ ~cursors[c].expired
  /\ cursors[c].pos >= floor
  /\ reading' = [reading EXCEPT ![k] = c]
  /\ UNCHANGED <<feed, outbox, old, floor, issued, cursors, upkeep>>

Page(c) == Lowest({e \in outbox : e > cursors[c].pos}, PageSize)

(* Mutant: the continuation is placed behind every row, not behind the     *)
(* page.                                                                   *)
ReadPageSkips(k) ==
  LET c == reading[k]
  IN  /\ c # 0
      /\ Page(c) # {}
      /\ issued < MaxCursor
      /\ issued' = issued + 1
      /\ cursors' = [Roomy(Pruned(cursors)) EXCEPT ![issued + 1] =
                       [cursors[c] EXCEPT !.pos = Max(outbox),
                                          !.got = @ \union Page(c)]]
      /\ reading' = [reading EXCEPT ![k] = 0]
      /\ UNCHANGED <<feed, outbox, old, floor, upkeep>>

(* The page fits the budget: the input slides its expiry, and a page with  *)
(* events gets a continuation cursor behind its last event.                *)
ReadPage(k) ==
  LET c == reading[k]
      slid == [cursors EXCEPT ![c].expired = FALSE]
  IN  /\ c # 0
      /\ \/ /\ Page(c) = {}
            /\ cursors' = slid
            /\ UNCHANGED issued
         \/ /\ Page(c) # {}
            /\ issued < MaxCursor
            /\ issued' = issued + 1
            /\ cursors' = [Roomy(Pruned(slid)) EXCEPT ![issued + 1] =
                             [slid[c] EXCEPT !.pos = Max(Page(c)),
                                             !.got = @ \union Page(c)]]
      /\ reading' = [reading EXCEPT ![k] = 0]
      /\ UNCHANGED <<feed, outbox, old, floor, upkeep>>

(* The page exceeds the budget, or the transaction fails: rolled back.     *)
ReadFails(k) ==
  /\ reading[k] # 0
  /\ reading' = [reading EXCEPT ![k] = 0]
  /\ UNCHANGED <<feed, outbox, old, floor, issued, cursors, upkeep>>

CursorExpires(c) ==
  /\ cursors[c].live
  /\ ~cursors[c].expired
  /\ \A k \in Client : reading[k] # c
  /\ cursors' = [cursors EXCEPT ![c].expired = TRUE]
  /\ UNCHANGED <<feed, outbox, old, floor, issued, reading, upkeep>>

(* A cursor is bound to the policy generation it was inserted under.       *)
ChangePolicy ==
  /\ cursors' = [c \in CursorId |-> [cursors[c] EXCEPT !.current = FALSE]]
  /\ UNCHANGED <<feed, outbox, old, floor, issued, reading, upkeep>>

-----------------------------------------------------------------------------
(* The retention janitor: on each tick up to MaxBatches purges.            *)

EndPass(j, failed) ==
  /\ janitor' = [janitor EXCEPT ![j] = Resting]
  /\ backlog' = [backlog EXCEPT ![j] = failed]

(* PurgeEvents selects the lowest expired rows no other purge has locked.  *)
StartPurge(j) ==
  LET locked == UNION {janitor[i].rows : i \in Janitor}
  IN  /\ \/ janitor[j].pc = "idle"
         \/ janitor[j].pc = "next" /\ janitor[j].batch < MaxBatches
      /\ janitor' = [janitor EXCEPT
                       ![j].pc = "purge",
                       ![j].rows = Lowest((outbox \intersect old) \ locked, PurgeBatch)]
      /\ UNCHANGED <<feed, outbox, old, floor, access, backlog>>

(* Mutant: the floor is overwritten by a late purge of older rows.         *)
CommitPurgeLowers(j) ==
  LET rows == janitor[j].rows
  IN  /\ janitor[j].pc = "purge"
      /\ outbox' = outbox \ rows
      /\ floor' = IF rows = {} THEN floor ELSE Max(rows)
      /\ EndPass(j, FALSE)
      /\ UNCHANGED <<feed, old, access>>

(* The rows go and the floor rises in one transaction; a short batch ends  *)
(* the pass.                                                               *)
CommitPurge(j) ==
  LET rows == janitor[j].rows
  IN  /\ janitor[j].pc = "purge"
      /\ outbox' = outbox \ rows
      /\ floor' = Max(rows \union {floor})
      /\ IF Cardinality(rows) < PurgeBatch
         THEN EndPass(j, FALSE)
         ELSE /\ janitor' = [janitor EXCEPT ![j] =
                               [pc |-> "next", batch |-> @.batch + 1, rows |-> {}]]
              /\ UNCHANGED backlog
      /\ UNCHANGED <<feed, old, access>>

(* Full batches only: HasExpiredEvents decides what readiness reports.     *)
ProbeBacklog(j) ==
  /\ janitor[j].pc = "next"
  /\ janitor[j].batch = MaxBatches
  /\ EndPass(j, outbox \intersect old # {})
  /\ UNCHANGED <<feed, outbox, old, floor, access>>

(* Mutant: a failed pass leaves the last verdict standing.                 *)
PassFailsSilently(j) ==
  /\ janitor[j].pc # "idle"
  /\ janitor' = [janitor EXCEPT ![j] = Resting]
  /\ UNCHANGED <<feed, outbox, old, floor, access, backlog>>

(* Authority was lost, the deadline passed, or the database failed.        *)
PassFails(j) ==
  /\ janitor[j].pc # "idle"
  /\ EndPass(j, TRUE)
  /\ UNCHANGED <<feed, outbox, old, floor, access>>

-----------------------------------------------------------------------------
PurgePass(j) ==
  StartPurge(j) \/ CommitPurge(j) \/ ProbeBacklog(j) \/ PassFails(j)

Next ==
  \/ InsertEvent
  \/ \E e \in EventId : CommitEvent(e) \/ RollBackEvent(e) \/ GrowOld(e)
  \/ OpenPage
  \/ \E k \in Client : ReadPage(k) \/ ReadFails(k) \/ \E c \in CursorId : ReadCheck(k, c)
  \/ \E c \in CursorId : CursorExpires(c)
  \/ ChangePolicy
  \/ \E j \in Janitor : PurgePass(j)

Spec == Init /\ [][Next]_vars

(* The ticker of every replica keeps starting passes, and a pass goes on   *)
(* until it ends or fails; no purge is assumed to succeed.                 *)
FairSpec == Spec /\ \A j \in Janitor : WF_vars(PurgePass(j))

-----------------------------------------------------------------------------
(* Properties.                                                             *)

(* Tables, requests and passes keep their shape, within the bounds.        *)
TypeOK ==
  /\ drawn \in 0..MaxEvent
  /\ writing \subseteq EventId
  /\ committed \subseteq EventId
  /\ late \subseteq committed
  /\ outbox \subseteq committed
  /\ old \subseteq committed
  /\ floor \in 0..MaxEvent
  /\ issued \in 0..MaxCursor
  /\ cursors \in [CursorId -> [live : BOOLEAN, pos : 0..MaxEvent,
                               current : BOOLEAN, expired : BOOLEAN,
                               base : SUBSET EventId, got : SUBSET EventId]]
  /\ reading \in [Client -> 0..MaxCursor]
  /\ janitor \in [Janitor -> [pc : {"idle", "purge", "next"},
                              batch : 0..MaxBatches, rows : SUBSET EventId]]
  /\ backlog \in [Janitor -> BOOLEAN]

(* The principal never holds more cursors than MaxEventCursors, whichever  *)
(* of its requests open or continue one.                                   *)
CursorsWithinCap == Cardinality(LiveCursors(cursors)) <= CursorCap

(* Whatever order replicas' purges commit in, an event that is gone lies   *)
(* at or below the retention floor: a cursor at or above the floor has     *)
(* everything behind it still to read.                                     *)
PurgedBelowFloor == \A e \in committed \ outbox : e <= floor

(* A cursor chain never moves past an event that is still in the outbox    *)
(* and became visible after the chain was opened.                          *)
NoVisibleEventSkipped ==
  \A c \in LiveCursors(cursors) : \A e \in outbox :
    e <= cursors[c].pos => e \in cursors[c].base \union cursors[c].got

(* Whatever writers, clients, purges and evictions do, a chain moves past  *)
(* an event it has not delivered only when that event became visible after *)
(* a greater id had: continuation, retry, eviction and purge never lose    *)
(* one (readEventPage, OpenEventPageForPrincipal, PurgeEvents).            *)
OnlyLateEventsAreSkipped ==
  \A c \in LiveCursors(cursors) : \A e \in outbox :
    e <= cursors[c].pos => e \in cursors[c].base \union cursors[c].got \union late

(* A position is immutable and a dropped cursor never comes back: a client *)
(* that retries a page starts from the same event.                         *)
PositionsAreImmutable ==
  [][\A c \in CursorId :
       /\ cursors[c].live /\ cursors'[c].live => cursors'[c].pos = cursors[c].pos
       /\ c <= issued /\ ~cursors[c].live => ~cursors'[c].live]_vars

(* Positions, cap and floor hold together: while reads, retries, purges of *)
(* two replicas and evictions at the cap interleave, no cursor moves or    *)
(* returns, there are never more than MaxEventCursors, and every purged    *)
(* event lies at or below the floor that tells readers of it.              *)
PositionsHold ==
  /\ PositionsAreImmutable
  /\ [](TypeOK /\ CursorsWithinCap /\ PurgedBelowFloor)

(* An expired event is purged, or readiness reports a failing janitor.     *)
ExpiredEventsGo ==
  \A e \in EventId :
    e \in outbox \intersect old ~> e \notin outbox \/ \E j \in Janitor : backlog[j]

=============================================================================
