--------------------------- MODULE EventFeedProofs ---------------------------
(***************************************************************************)
(* Proofs about EventFeed for every number of writers, clients and         *)
(* janitors and for every value of the bounds.                             *)
(***************************************************************************)
EXTENDS EventFeed, FiniteSetTheorems, TLAPS

(* A cursor row carries an order that was drawn.                           *)
LiveCursorsDrawn == \A c \in LiveCursors(cursors) : c <= issued

(* A pass that is purging has batches left; a resting one starts at zero.  *)
PassesCount ==
  \A j \in Janitor :
    /\ janitor[j].pc = "idle" => janitor[j] = Resting
    /\ janitor[j].pc = "purge" => janitor[j].batch < MaxBatches

(* The floor and every cursor stand on an event that was visible, or at    *)
(* the beginning.                                                          *)
PositionsWereVisible ==
  /\ floor \in committed \union {0}
  /\ \A c \in LiveCursors(cursors) : cursors[c].pos \in committed \union {0}

(* A purge deletes rows that were visible.                                 *)
PurgesVisible == \A j \in Janitor : janitor[j].rows \subseteq committed

(* The inductive invariant: positions hold whatever order ids become       *)
(* visible in.                                                             *)
FeedInv ==
  /\ TypeOK
  /\ CursorsWithinCap
  /\ PurgedBelowFloor
  /\ LiveCursorsDrawn
  /\ PassesCount
  /\ PurgesVisible
  /\ PositionsWereVisible

(* An event becomes visible behind every event that is visible or purged:  *)
(* what a writer that commits before the next id is drawn gives, and what  *)
(* concurrent publishers and revokers need not.                            *)
VisibleInOrder ==
  \A e \in committed' \ committed : \A d \in committed : d < e

-----------------------------------------------------------------------------
(* The operators on rows.                                                  *)

(* Every non-empty set of naturals has a least member.                     *)
LEMMA LeastExists ==
  ASSUME NEW S \in SUBSET Nat, S # {}
  PROVE  \E x \in S : \A y \in S : x <= y
<1> DEFINE Less == {p \in Nat \X Nat : p[1] < p[2]}
<1>1. IsWellFoundedOn(Less, Nat)
  BY NatLessThanWellFounded DEF OpToRel
<1>2. PICK x \in S : \A y \in S : ~(<<y, x>> \in Less)
  <2> HIDE DEF Less
  <2> QED BY <1>1, WFMin
<1>3. \A y \in S : ~(y < x)
  BY <1>2
<1> QED BY <1>3

(* Max is what ORDER BY event_id DESC LIMIT 1 and GREATEST return: a       *)
(* member that no other exceeds.                                           *)
LEMMA MaxIsGreatest ==
  ASSUME NEW n \in Nat, NEW S \in SUBSET (0..n), S # {}
  PROVE  Max(S) \in S /\ \A y \in S : y <= Max(S)
<1> DEFINE U == {u \in Nat : \A x \in S : x <= u}
<1>1. PICK m \in U : \A u \in U : m <= u
  <2> n \in U
    OBVIOUS
  <2> QED BY LeastExists
<1>2. m \in S
  <2> SUFFICES ASSUME m \notin S PROVE FALSE
    OBVIOUS
  <2>1. \A x \in S : x < m
    BY <1>1
  <2>2. m # 0
    <3> PICK x \in S : TRUE
      OBVIOUS
    <3> QED BY <2>1
  <2>3. m - 1 \in U
    BY <2>1, <2>2
  <2> QED BY <1>1, <2>3
<1> QED BY <1>1, <1>2 DEF Max

(* The rows of LIMIT n are rows of the table, and no row before one of     *)
(* them is left out.                                                       *)
LEMMA LowestIsPrefix ==
  ASSUME NEW m \in Nat, NEW S \in SUBSET (1..m), NEW n \in Nat
  PROVE  /\ Lowest(S, n) \subseteq S
         /\ \A x \in Lowest(S, n) : \A y \in S : y <= x => y \in Lowest(S, n)
<1>1. IsFiniteSet(S)
  <2> IsFiniteSet(1..m)
    BY FS_Interval
  <2> QED BY FS_Subset
<1>2. ASSUME NEW x \in Lowest(S, n), NEW y \in S, y <= x
      PROVE  y \in Lowest(S, n)
  <2> DEFINE B(z) == {w \in S : w < z}
  <2>1. B(y) \subseteq B(x)
    <3> x \in Nat /\ y \in Nat /\ S \subseteq Nat
      BY DEF Lowest
    <3> SUFFICES ASSUME NEW w \in S, w < y PROVE w < x
      OBVIOUS
    <3> QED BY <1>2
  <2>2. IsFiniteSet(B(x)) /\ IsFiniteSet(B(y))
    BY <1>1, FS_Subset
  <2>3. Cardinality(B(y)) <= Cardinality(B(x))
    BY <2>1, <2>2, FS_Subset
  <2>4. Cardinality(B(y)) \in Nat /\ Cardinality(B(x)) \in Nat
    BY <2>2, FS_CardinalityType
  <2>5. Cardinality(B(x)) < n
    BY DEF Lowest
  <2>6. Cardinality(B(y)) < n
    BY <2>3, <2>4, <2>5
  <2> QED BY <2>6 DEF Lowest
<1> QED BY <1>2 DEF Lowest

(* makeCursorRoom leaves room for one more cursor below the cap.           *)
LEMMA RoomyMakesRoom ==
  ASSUME FeedAssumption, NEW cs
  PROVE  /\ IsFiniteSet(LiveCursors(Roomy(cs)))
         /\ Cardinality(LiveCursors(Roomy(cs))) <= CursorCap - 1
<1> DEFINE live == LiveCursors(cs)
           newer(c) == {d \in live : d > c}
           kept == LiveCursors(Roomy(cs))
<1>0. kept = {c \in live : Cardinality(newer(c)) < CursorCap - 1}
  BY DEF LiveCursors, Roomy, NoCursor
<1>1. live \in SUBSET CursorId /\ CursorId \subseteq Nat /\ IsFiniteSet(CursorId)
  <2> IsFiniteSet(1..MaxCursor)
    <3> MaxCursor \in Int /\ 1 \in Int
      BY DEF FeedAssumption
    <3> QED BY FS_Interval
  <2> QED BY DEF LiveCursors, CursorId
<1>2. IsFiniteSet(live)
  BY <1>1, FS_Subset
<1> CursorCap \in Nat /\ CursorCap # 0
  BY DEF FeedAssumption
<1> HIDE DEF live, kept
<1>3. IsFiniteSet(kept)
  BY <1>0, <1>2, FS_Subset
<1>4. CASE kept = {}
  <2> Cardinality(kept) = 0
    BY <1>4, FS_EmptySet
  <2> QED BY <1>3 DEF kept
<1>5. CASE kept # {}
  <2>1. PICK m \in kept : \A y \in kept : m <= y
    <3> kept \subseteq Nat
      BY <1>0, <1>1
    <3> QED BY <1>5, LeastExists
  <2>2. kept \ {m} \subseteq newer(m)
    <3> SUFFICES ASSUME NEW y \in kept, y # m PROVE y \in live /\ y > m
      OBVIOUS
    <3> y \in Nat /\ m \in Nat /\ m <= y
      BY <1>0, <1>1, <2>1
    <3> QED BY <1>0
  <2>3. IsFiniteSet(newer(m)) /\ Cardinality(newer(m)) \in Nat
    BY <1>2, FS_Subset, FS_CardinalityType
  <2>4. Cardinality(kept \ {m}) <= Cardinality(newer(m))
    BY <2>2, <2>3, FS_Subset
  <2>5. Cardinality(kept \ {m}) = Cardinality(kept) - 1
    BY <1>3, <2>1, FS_RemoveElement
  <2>6. Cardinality(newer(m)) < CursorCap - 1
    BY <1>0, <2>1
  <2>7. Cardinality(kept) \in Nat
    BY <1>3, FS_CardinalityType
  <2> QED BY <1>3, <2>3, <2>4, <2>5, <2>6, <2>7 DEF kept
<1> QED BY <1>4, <1>5

-----------------------------------------------------------------------------
(* Cursor rows.                                                            *)

CursorRow == [live : BOOLEAN, pos : 0..MaxEvent, current : BOOLEAN,
              expired : BOOLEAN, base : SUBSET EventId, got : SUBSET EventId]

LEMMA NoCursorIsRow ==
  ASSUME FeedAssumption PROVE NoCursor \in CursorRow
BY DEF NoCursor, CursorRow, FeedAssumption

(* Pruning and making room keep a row as it is or remove it.               *)
LEMMA SurvivorsUnchanged ==
  ASSUME NEW cs, NEW c \in CursorId
  PROVE  Roomy(Pruned(cs))[c] \in {cs[c], NoCursor}
BY DEF Roomy, Pruned

LEMMA SurvivorsAreRows ==
  ASSUME FeedAssumption, NEW cs \in [CursorId -> CursorRow]
  PROVE  Roomy(Pruned(cs)) \in [CursorId -> CursorRow]
<1> DEFINE r == Roomy(Pruned(cs))
<1>1. r = [c \in CursorId |-> r[c]]
  BY DEF Roomy
<1>2. \A c \in CursorId : r[c] \in CursorRow
  <2> HIDE DEF r
  <2> TAKE c \in CursorId
  <2> r[c] \in {cs[c], NoCursor}
    BY SurvivorsUnchanged DEF r
  <2> QED BY NoCursorIsRow
<1> HIDE DEF r
<1> r \in [CursorId -> CursorRow]
  BY <1>1, <1>2
<1> QED BY DEF r

Inserted(cs, n, row) == [Roomy(Pruned(cs)) EXCEPT ![n] = row]

(* A cursor that is inserted after making room keeps the table in shape    *)
(* and under its cap.                                                      *)
LEMMA InsertedUnderCap ==
  ASSUME FeedAssumption,
         NEW cs \in [CursorId -> CursorRow], NEW n \in CursorId,
         NEW row \in CursorRow
  PROVE  /\ Inserted(cs, n, row) \in [CursorId -> CursorRow]
         /\ Cardinality(LiveCursors(Inserted(cs, n, row))) <= CursorCap
         /\ Inserted(cs, n, row)[n] = row
         /\ \A c \in CursorId \ {n} : Inserted(cs, n, row)[c] \in {cs[c], NoCursor}
<1> DEFINE after == Inserted(cs, n, row)
           r == Roomy(Pruned(cs))
           kept == LiveCursors(r)
<1>1. r \in [CursorId -> CursorRow]
  BY SurvivorsAreRows
<1>2. \A c \in CursorId : r[c] \in {cs[c], NoCursor}
  BY SurvivorsUnchanged
<1>3. IsFiniteSet(kept) /\ Cardinality(kept) <= CursorCap - 1
  BY RoomyMakesRoom
<1>4. after = [r EXCEPT ![n] = row]
  BY DEF Inserted
<1> HIDE DEF r, after, kept
<1>5. after \in [CursorId -> CursorRow]
  BY <1>1, <1>4
<1>6. Cardinality(LiveCursors(after)) <= CursorCap
  <2>1. LiveCursors(after) \subseteq kept \union {n}
    BY <1>1, <1>4 DEF LiveCursors, kept
  <2>2. /\ IsFiniteSet(kept \union {n})
        /\ Cardinality(kept \union {n}) <= Cardinality(kept) + 1
    <3>1. IsFiniteSet(kept) /\ Cardinality(kept) \in Nat
      BY <1>3, FS_CardinalityType
    <3>2. /\ IsFiniteSet(kept \union {n})
          /\ Cardinality(kept \union {n}) =
               IF n \in kept THEN Cardinality(kept) ELSE Cardinality(kept) + 1
      BY <3>1, FS_AddElement, Zenon
    <3> QED BY <3>1, <3>2
  <2>3. IsFiniteSet(LiveCursors(after)) /\ Cardinality(LiveCursors(after)) <= Cardinality(kept \union {n})
    BY <2>1, <2>2, FS_Subset
  <2>4. /\ Cardinality(kept) \in Nat
        /\ Cardinality(kept \union {n}) \in Nat
        /\ Cardinality(LiveCursors(after)) \in Nat
    BY <1>3, <2>2, <2>3, FS_CardinalityType
  <2> QED BY <1>3, <2>2, <2>3, <2>4 DEF FeedAssumption
<1>7. after[n] = row /\ \A c \in CursorId \ {n} : after[c] = r[c]
  BY <1>1, <1>4
<1> QED BY <1>2, <1>5, <1>6, <1>7 DEF after

-----------------------------------------------------------------------------
(* The invariant, action by action.                                        *)

LEMMA FeedInit ==
  ASSUME FeedAssumption, Init PROVE FeedInv
<1> {PageSize, CursorCap, PurgeBatch, MaxBatches} \subseteq Nat \ {0}
  BY DEF FeedAssumption
<1> {MaxEvent, MaxCursor} \subseteq Nat
  BY DEF FeedAssumption
<1>1. LiveCursors(cursors) = {}
  BY DEF Init, LiveCursors, NoCursor
<1>2. TypeOK
  <2>1. cursors \in [CursorId -> CursorRow]
    BY NoCursorIsRow DEF Init
  <2>2. janitor \in [Janitor -> [pc : {"idle", "purge", "next"},
                              batch : 0..MaxBatches, rows : SUBSET EventId]]
    BY DEF Init, Resting
  <2>3. backlog \in [Janitor -> BOOLEAN]
    BY DEF Init
  <2> QED BY <2>1, <2>2, <2>3 DEF Init, TypeOK, CursorRow
<1>3. CursorsWithinCap
  BY <1>1, FS_EmptySet DEF CursorsWithinCap
<1> QED BY <1>1, <1>2, <1>3
        DEF Init, FeedInv, PurgedBelowFloor, LiveCursorsDrawn, PassesCount,
            PurgesVisible, PositionsWereVisible, Resting

(* Steps of writers and of time leave cursors and passes alone.            *)
LEMMA WritersKeepInv ==
  ASSUME FeedAssumption, FeedInv,
         \/ InsertEvent
         \/ \E e \in EventId : CommitEvent(e) \/ RollBackEvent(e) \/ GrowOld(e)
  PROVE  FeedInv'
<1> {MaxEvent, MaxCursor} \subseteq Nat
  BY DEF FeedAssumption
<1> USE DEF FeedInv
<1> access' = access /\ upkeep' = upkeep /\ floor' = floor
  BY DEF InsertEvent, CommitEvent, RollBackEvent, GrowOld, access, upkeep
<1>1. UNCHANGED <<issued, cursors, reading, janitor, backlog, floor>>
  BY DEF access, upkeep
<1>2. /\ drawn' \in 0..MaxEvent
      /\ writing' \subseteq EventId
      /\ committed' \subseteq EventId
      /\ late' \subseteq committed'
      /\ outbox' \subseteq committed'
      /\ old' \subseteq committed'
      /\ committed \subseteq committed'
      /\ committed' \ outbox' \subseteq committed \ outbox
  <2>1. CASE InsertEvent
    BY <2>1 DEF InsertEvent, TypeOK, EventId
  <2>2. CASE \E e \in EventId : CommitEvent(e)
    BY <2>2 DEF CommitEvent, TypeOK
  <2>3. CASE \E e \in EventId : RollBackEvent(e)
    BY <2>3 DEF RollBackEvent, TypeOK
  <2>4. CASE \E e \in EventId : GrowOld(e)
    BY <2>4 DEF GrowOld, TypeOK, feed
  <2> QED BY <2>1, <2>2, <2>3, <2>4
<1>3. TypeOK'
  BY <1>1, <1>2 DEF TypeOK
<1>4. CursorsWithinCap' /\ LiveCursorsDrawn'
  BY <1>1 DEF CursorsWithinCap, LiveCursorsDrawn, LiveCursors
<1>5. PassesCount' /\ PurgesVisible'
  BY <1>1, <1>2 DEF PassesCount, PurgesVisible
<1>6. PurgedBelowFloor'
  BY <1>1, <1>2 DEF PurgedBelowFloor
<1>7. PositionsWereVisible'
  BY <1>1, <1>2 DEF PositionsWereVisible, LiveCursors
<1> QED BY <1>3, <1>4, <1>5, <1>6, <1>7

(* A cursor that is inserted while the feed stands still.                  *)
LEMMA InsertedKeepsInv ==
  ASSUME FeedAssumption, FeedInv,
         NEW cs \in [CursorId -> CursorRow], NEW row \in CursorRow,
         \A c \in CursorId : /\ cs[c].live => cursors[c].live
                             /\ cs[c].pos = cursors[c].pos,
         row.pos \in committed \union {0},
         issued < MaxCursor, issued' = issued + 1,
         cursors' = [Roomy(Pruned(cs)) EXCEPT ![issued + 1] = row],
         reading' \in [Client -> 0..MaxCursor],
         UNCHANGED <<feed, outbox, old, floor, upkeep>>
  PROVE  FeedInv'
<1> {MaxEvent, MaxCursor} \subseteq Nat
  BY DEF FeedAssumption
<1> USE DEF FeedInv
<1>1. UNCHANGED <<drawn, writing, committed, late, outbox, old, floor, janitor, backlog>>
  BY DEF feed, upkeep
<1>2. issued + 1 \in CursorId /\ issued \in Nat
  BY DEF TypeOK, CursorId
<1>3. /\ cursors' \in [CursorId -> CursorRow]
      /\ Cardinality(LiveCursors(cursors')) <= CursorCap
      /\ cursors'[issued + 1] = row
      /\ \A c \in CursorId \ {issued + 1} : cursors'[c] \in {cs[c], NoCursor}
  <2> DEFINE n == issued + 1
             after == Inserted(cs, n, row)
  <2>1. cursors' = after
    BY DEF Inserted
  <2>2. n \in CursorId
    BY <1>2
  <2> HIDE DEF n
  <2>3. /\ after \in [CursorId -> CursorRow]
        /\ Cardinality(LiveCursors(after)) <= CursorCap
        /\ after[n] = row
        /\ \A c \in CursorId \ {n} : after[c] \in {cs[c], NoCursor}
    BY <2>2, InsertedUnderCap
  <2> HIDE DEF after
  <2> QED BY <2>1, <2>3 DEF n
<1>4. TypeOK'
  <2> issued' \in 0..MaxCursor
    BY <1>2 DEF TypeOK
  <2> QED BY <1>1, <1>3 DEF TypeOK, CursorRow
<1>5. \A c \in LiveCursors(cursors') \ {issued + 1} :
        c \in LiveCursors(cursors) /\ cursors'[c].pos = cursors[c].pos
  BY <1>3 DEF LiveCursors, NoCursor
<1>6. CursorsWithinCap'
  BY <1>3 DEF CursorsWithinCap, LiveCursors
<1>7. LiveCursorsDrawn'
  <2> SUFFICES ASSUME NEW c \in LiveCursors(cursors') PROVE c <= issued + 1
    BY DEF LiveCursorsDrawn, LiveCursors
  <2>1. c \in Nat
    BY DEF LiveCursors, CursorId
  <2>2. c = issued + 1 \/ c <= issued
    BY <1>5 DEF LiveCursorsDrawn
  <2> QED BY <1>2, <2>1, <2>2
<1>8. PositionsWereVisible'
  <2>1. \A c \in LiveCursors(cursors') : cursors'[c].pos \in committed \union {0}
    BY <1>3, <1>5 DEF PositionsWereVisible
  <2> QED BY <1>1, <2>1 DEF PositionsWereVisible, LiveCursors
<1>9. PurgedBelowFloor' /\ PassesCount' /\ PurgesVisible'
  BY <1>1 DEF PurgedBelowFloor, PassesCount, PurgesVisible
<1> QED BY <1>4, <1>6, <1>7, <1>8, <1>9

LEMMA OpenPageKeepsInv ==
  ASSUME FeedAssumption, FeedInv, OpenPage PROVE FeedInv'
<1> {MaxEvent, MaxCursor} \subseteq Nat
  BY DEF FeedAssumption
<1> DEFINE row == [live |-> TRUE, pos |-> Max(outbox \union {floor}),
                   current |-> TRUE, expired |-> FALSE,
                   base |-> committed, got |-> {}]
<1>1. outbox \union {floor} \in SUBSET (0..MaxEvent)
  <2> EventId \subseteq 0..MaxEvent
    BY DEF EventId
  <2>1. outbox \subseteq EventId /\ floor \in 0..MaxEvent
    BY DEF FeedInv, TypeOK
  <2> QED BY <2>1
<1>2. Max(outbox \union {floor}) \in outbox \union {floor}
  BY <1>1, MaxIsGreatest
<1>3. row.pos \in committed \union {0}
  BY <1>2 DEF FeedInv, TypeOK, PositionsWereVisible
<1>4. row \in CursorRow
  BY <1>1, <1>2 DEF FeedInv, TypeOK, CursorRow
<1>5. cursors \in [CursorId -> CursorRow] /\ reading \in [Client -> 0..MaxCursor]
  BY DEF FeedInv, TypeOK, CursorRow
<1>6. /\ issued < MaxCursor
      /\ issued' = issued + 1
      /\ cursors' = [Roomy(Pruned(cursors)) EXCEPT ![issued + 1] = row]
      /\ reading' = reading
      /\ UNCHANGED <<feed, outbox, old, floor, upkeep>>
  BY DEF OpenPage
<1> HIDE DEF row
<1> QED BY <1>3, <1>4, <1>5, <1>6, InsertedKeepsInv

LEMMA ReadPageKeepsInv ==
  ASSUME FeedAssumption, FeedInv, NEW k \in Client, ReadPage(k) PROVE FeedInv'
<1> {MaxEvent, MaxCursor, PageSize} \subseteq Nat
  BY DEF FeedAssumption
<1> DEFINE c == reading[k]
           slid == [cursors EXCEPT ![c].expired = FALSE]
           row == [slid[c] EXCEPT !.pos = Max(Page(c)), !.got = @ \union Page(c)]
<1>1. c \in CursorId
  BY DEF FeedInv, TypeOK, ReadPage, CursorId
<1>2. cursors \in [CursorId -> CursorRow] /\ reading' \in [Client -> 0..MaxCursor]
  BY DEF FeedInv, TypeOK, CursorRow, ReadPage
<1>3. slid \in [CursorId -> CursorRow]
  <2>1. [cursors[c] EXCEPT !.expired = FALSE] \in CursorRow
    BY <1>1, <1>2 DEF CursorRow
  <2> QED BY <1>1, <1>2, <2>1
<1>4. \A d \in CursorId : /\ slid[d].live = cursors[d].live
                          /\ slid[d].pos = cursors[d].pos
  BY <1>1, <1>2 DEF CursorRow
<1>5. UNCHANGED <<drawn, writing, committed, late, outbox, old, floor, janitor, backlog>>
  BY DEF ReadPage, feed, upkeep
<1>6. CASE Page(c) = {}
  <2>1. cursors' = slid /\ issued' = issued
    BY <1>6 DEF ReadPage
  <2>2. LiveCursors(cursors') = LiveCursors(cursors)
    BY <1>4, <2>1 DEF LiveCursors
  <2>3. \A d \in LiveCursors(cursors) : cursors'[d].pos = cursors[d].pos
    BY <1>4, <2>1 DEF LiveCursors
  <2>4. TypeOK'
    BY <1>2, <1>3, <1>5, <2>1 DEF FeedInv, TypeOK, CursorRow
  <2>5. CursorsWithinCap' /\ LiveCursorsDrawn' /\ PositionsWereVisible'
    BY <1>5, <2>1, <2>2, <2>3
    DEF FeedInv, CursorsWithinCap, LiveCursorsDrawn, PositionsWereVisible, LiveCursors
  <2>6. PurgedBelowFloor' /\ PassesCount' /\ PurgesVisible'
    BY <1>5 DEF FeedInv, PurgedBelowFloor, PassesCount, PurgesVisible
  <2> QED BY <2>4, <2>5, <2>6 DEF FeedInv
<1>7. CASE Page(c) # {}
  <2>1. Page(c) \subseteq outbox
    <3> DEFINE rest == {e \in outbox : e > cursors[c].pos}
    <3> rest \in SUBSET (1..MaxEvent)
      BY DEF FeedInv, TypeOK, EventId
    <3> QED BY LowestIsPrefix DEF Page
  <2>2. Page(c) \in SUBSET (0..MaxEvent) /\ Page(c) \subseteq EventId
    <3> EventId \subseteq 0..MaxEvent
      BY DEF EventId
    <3> outbox \subseteq EventId
      BY DEF FeedInv, TypeOK
    <3> QED BY <2>1
  <2>3. Max(Page(c)) \in Page(c)
    BY <1>7, <2>2, MaxIsGreatest
  <2>4. row.pos \in committed \union {0}
    BY <1>1, <1>3, <2>1, <2>3 DEF FeedInv, TypeOK, CursorRow
  <2>5. row \in CursorRow
    <3>1. slid[c] \in CursorRow
      BY <1>1, <1>3
    <3>2. Max(Page(c)) \in 0..MaxEvent
      BY <2>2, <2>3
    <3>3. slid[c].got \union Page(c) \in SUBSET EventId
      BY <2>2, <3>1 DEF CursorRow
    <3> HIDE DEF slid
    <3> QED BY <3>1, <3>2, <3>3 DEF CursorRow
  <2>6. /\ issued < MaxCursor
        /\ issued' = issued + 1
        /\ cursors' = [Roomy(Pruned(slid)) EXCEPT ![issued + 1] = row]
        /\ UNCHANGED <<feed, outbox, old, floor, upkeep>>
    BY <1>7 DEF ReadPage
  <2> HIDE DEF row, slid
  <2> QED BY <1>2, <1>3, <1>4, <2>4, <2>5, <2>6, InsertedKeepsInv
<1> QED BY <1>6, <1>7

(* A new policy generation refuses the cursors, but moves none.            *)
LEMMA NewPolicyKeepsCoverage ==
  ASSUME cursors \in [CursorId -> CursorRow], ChangePolicy
  PROVE  /\ cursors' \in [CursorId -> CursorRow]
         /\ \A c \in CursorId : /\ cursors'[c].live = cursors[c].live
                                /\ cursors'[c].pos = cursors[c].pos
                                /\ cursors'[c].base = cursors[c].base
                                /\ cursors'[c].got = cursors[c].got
<1>1. cursors' = [c \in CursorId |-> [cursors[c] EXCEPT !.current = FALSE]]
  BY DEF ChangePolicy
<1>2. \A c \in CursorId : [cursors[c] EXCEPT !.current = FALSE] \in CursorRow
  BY DEF CursorRow
<1> QED BY <1>1, <1>2 DEF CursorRow

(* A read that starts or fails, a deadline and a new policy leave the      *)
(* positions as they are.                                                  *)
LEMMA OtherRequestsKeepInv ==
  ASSUME FeedAssumption, FeedInv,
         \/ \E k \in Client : ReadFails(k) \/ \E c \in CursorId : ReadCheck(k, c)
         \/ \E c \in CursorId : CursorExpires(c)
         \/ ChangePolicy
  PROVE  FeedInv'
<1> {MaxEvent, MaxCursor} \subseteq Nat
  BY DEF FeedAssumption
<1>1. UNCHANGED <<drawn, writing, committed, late, outbox, old, floor, issued, janitor, backlog>>
  BY DEF ReadFails, ReadCheck, CursorExpires, ChangePolicy, feed, upkeep
<1>2. cursors \in [CursorId -> CursorRow]
  BY DEF FeedInv, TypeOK, CursorRow
<1>3. /\ cursors' \in [CursorId -> CursorRow]
      /\ \A d \in CursorId : /\ cursors'[d].live = cursors[d].live
                             /\ cursors'[d].pos = cursors[d].pos
  <2>1. CASE \E c \in CursorId : CursorExpires(c)
    <3>1. PICK c \in CursorId : cursors' = [cursors EXCEPT ![c].expired = TRUE]
      BY <2>1 DEF CursorExpires
    <3>2. [cursors[c] EXCEPT !.expired = TRUE] \in CursorRow
      BY <1>2 DEF CursorRow
    <3>3. cursors' \in [CursorId -> CursorRow]
      BY <1>2, <3>1, <3>2
    <3> QED BY <1>2, <3>1, <3>3 DEF CursorRow
  <2>2. CASE cursors' = cursors
    BY <1>2, <2>2
  <2>3. CASE ChangePolicy
    BY <1>2, <2>3, NewPolicyKeepsCoverage
  <2> QED BY <2>1, <2>2, <2>3 DEF ReadFails, ReadCheck
<1>4. reading' \in [Client -> 0..MaxCursor]
  <2> reading \in [Client -> 0..MaxCursor]
    BY DEF FeedInv, TypeOK
  <2>1. CASE \E k \in Client : ReadFails(k) \/ \E c \in CursorId : ReadCheck(k, c)
    BY <2>1 DEF ReadFails, ReadCheck, CursorId
  <2>2. CASE \E c \in CursorId : CursorExpires(c)
    BY <2>2 DEF CursorExpires
  <2>3. CASE ChangePolicy
    BY <2>3 DEF ChangePolicy
  <2> QED BY <2>1, <2>2, <2>3
<1>5. LiveCursors(cursors') = LiveCursors(cursors)
  BY <1>3 DEF LiveCursors
<1>6. TypeOK'
  BY <1>1, <1>3, <1>4 DEF FeedInv, TypeOK, CursorRow
<1>7. CursorsWithinCap' /\ LiveCursorsDrawn' /\ PositionsWereVisible'
  BY <1>1, <1>3, <1>5
  DEF FeedInv, CursorsWithinCap, LiveCursorsDrawn, PositionsWereVisible, LiveCursors
<1>8. PurgedBelowFloor' /\ PassesCount' /\ PurgesVisible'
  BY <1>1 DEF FeedInv, PurgedBelowFloor, PassesCount, PurgesVisible
<1> QED BY <1>6, <1>7, <1>8 DEF FeedInv

(* Passes change the outbox and the floor only where a purge commits.      *)
LEMMA PassesKeepInv ==
  ASSUME FeedAssumption, FeedInv, NEW j \in Janitor, PurgePass(j) PROVE FeedInv'
<1> {MaxEvent, MaxCursor, PurgeBatch} \subseteq Nat
  BY DEF FeedAssumption
<1>0. MaxBatches \in Nat /\ 0 < MaxBatches
  BY DEF FeedAssumption
<1> DEFINE PassType == [Janitor -> [pc : {"idle", "purge", "next"},
                                    batch : 0..MaxBatches, rows : SUBSET EventId]]
<1>1. UNCHANGED <<drawn, writing, committed, late, old, issued, cursors, reading>>
  BY DEF PurgePass, StartPurge, CommitPurge, ProbeBacklog, PassFails, feed, access
<1>2. /\ janitor \in PassType /\ backlog \in [Janitor -> BOOLEAN]
      /\ outbox \subseteq EventId /\ floor \in 0..MaxEvent
  BY DEF FeedInv, TypeOK
<1>3. /\ outbox' \subseteq outbox /\ floor <= floor'
      /\ floor' \in committed \union {0} /\ floor' \in 0..MaxEvent
      /\ \A e \in outbox \ outbox' : e <= floor'
  <2>1. CASE CommitPurge(j)
    <3> DEFINE rows == janitor[j].rows
    <3>1. outbox' = outbox \ rows /\ floor' = Max(rows \union {floor})
      BY <2>1 DEF CommitPurge
    <3>2. rows \union {floor} \in SUBSET (0..MaxEvent)
      <4> EventId \subseteq 0..MaxEvent
        BY DEF EventId
      <4> rows \subseteq EventId
        BY <1>2
      <4> QED BY <1>2
    <3>3. floor' \in rows \union {floor} /\ \A y \in rows \union {floor} : y <= floor'
      BY <3>1, <3>2, MaxIsGreatest
    <3>4. rows \subseteq committed
      BY DEF FeedInv, PurgesVisible
    <3> QED BY <3>1, <3>2, <3>3, <3>4 DEF FeedInv, PositionsWereVisible
  <2>2. CASE outbox' = outbox /\ floor' = floor
    BY <1>2, <2>2 DEF FeedInv, PositionsWereVisible
  <2> QED BY <2>1, <2>2 DEF PurgePass, StartPurge, ProbeBacklog, PassFails
<1>4. Resting \in [pc : {"idle", "purge", "next"}, batch : 0..MaxBatches,
                   rows : SUBSET EventId]
  BY <1>0 DEF Resting
<1>5. /\ janitor' \in PassType /\ backlog' \in [Janitor -> BOOLEAN]
      /\ PassesCount' /\ PurgesVisible'
  <2>1. CASE StartPurge(j)
    <3> DEFINE rows == (outbox \intersect old) \ UNION {janitor[i].rows : i \in Janitor}
               taken == Lowest(rows, PurgeBatch)
    <3>1. taken \subseteq outbox
      <4>1. rows \in SUBSET (1..MaxEvent) /\ rows \subseteq outbox
        BY <1>2 DEF EventId
      <4>2. PurgeBatch \in Nat /\ MaxEvent \in Nat
        OBVIOUS
      <4> HIDE DEF rows
      <4>3. Lowest(rows, PurgeBatch) \subseteq rows
        BY <4>1, <4>2, LowestIsPrefix
      <4> QED BY <4>1, <4>3
    <3>2. janitor[j].batch \in 0..MaxBatches /\ janitor[j].batch < MaxBatches
      BY <1>0, <1>2, <2>1 DEF StartPurge, FeedInv, PassesCount, Resting
    <3> HIDE DEF rows, taken
    <3>3. janitor' = [janitor EXCEPT ![j].pc = "purge", ![j].rows = taken]
      BY <2>1 DEF StartPurge, rows, taken
    <3> DEFINE pass == [janitor[j] EXCEPT !.pc = "purge", !.rows = taken]
    <3>4. /\ janitor' = [janitor EXCEPT ![j] = pass]
          /\ pass \in [pc : {"idle", "purge", "next"}, batch : 0..MaxBatches,
                       rows : SUBSET EventId]
          /\ pass.pc = "purge" /\ pass.batch = janitor[j].batch /\ pass.rows = taken
      <4>1. janitor[j] \in [pc : {"idle", "purge", "next"}, batch : 0..MaxBatches,
                            rows : SUBSET EventId]
        BY <1>2
      <4>2. taken \in SUBSET EventId
        BY <1>2, <3>1
      <4>3. janitor' = [janitor EXCEPT ![j] = pass]
        BY <3>3
      <4> QED BY <4>1, <4>2, <4>3
    <3> HIDE DEF pass
    <3>5. janitor' \in PassType
      BY <1>2, <3>1, <3>2, <3>4
    <3>6. backlog' = backlog
      BY <2>1 DEF StartPurge
    <3>7. PassesCount'
      BY <1>2, <3>2, <3>4 DEF FeedInv, PassesCount
    <3>8. PurgesVisible'
      BY <1>1, <1>2, <3>1, <3>4 DEF FeedInv, PurgesVisible, TypeOK
    <3> QED BY <1>2, <3>5, <3>6, <3>7, <3>8
  <2>2. ASSUME NEW failed \in BOOLEAN, EndPass(j, failed)
        PROVE  /\ janitor' \in PassType /\ backlog' \in [Janitor -> BOOLEAN]
               /\ PassesCount' /\ PurgesVisible'
    <3>1. janitor' = [janitor EXCEPT ![j] = Resting]
      BY <2>2 DEF EndPass
    <3>2. backlog' \in [Janitor -> BOOLEAN]
      BY <1>2, <2>2, Zenon DEF EndPass
    <3>3. janitor' \in PassType
      BY <1>2, <1>4, <3>1
    <3>4. PassesCount' /\ PurgesVisible'
      BY <1>1, <1>2, <3>1 DEF FeedInv, PassesCount, PurgesVisible, Resting
    <3> QED BY <3>2, <3>3, <3>4
  <2>3. CASE CommitPurge(j)
    <3>1. CASE EndPass(j, FALSE)
      BY <2>2, <3>1
    <3>2. CASE /\ janitor' = [janitor EXCEPT ![j] = [pc |-> "next",
                                batch |-> janitor[j].batch + 1, rows |-> {}]]
               /\ backlog' = backlog
      <4>1. janitor[j].batch + 1 \in 0..MaxBatches
        BY <1>0, <1>2, <2>3 DEF CommitPurge, FeedInv, PassesCount
      <4>2. janitor' \in PassType
        BY <1>2, <3>2, <4>1
      <4>3. PassesCount' /\ PurgesVisible'
        BY <1>1, <1>2, <3>2 DEF FeedInv, PassesCount, PurgesVisible
      <4> QED BY <1>2, <3>2, <4>2, <4>3
    <3> QED BY <2>3, <3>1, <3>2 DEF CommitPurge
  <2>4. CASE ProbeBacklog(j)
    BY <2>2, <2>4 DEF ProbeBacklog
  <2>5. CASE PassFails(j)
    BY <2>2, <2>5 DEF PassFails
  <2> QED BY <2>1, <2>3, <2>4, <2>5 DEF PurgePass
<1>6. TypeOK'
  <2> outbox' \subseteq committed'
    BY <1>1, <1>3 DEF FeedInv, TypeOK
  <2> QED BY <1>1, <1>3, <1>5 DEF FeedInv, TypeOK
<1>7. CursorsWithinCap' /\ LiveCursorsDrawn' /\ PositionsWereVisible'
  BY <1>1, <1>3
  DEF FeedInv, CursorsWithinCap, LiveCursorsDrawn, PositionsWereVisible, LiveCursors
<1>8. PurgedBelowFloor'
  <2> SUFFICES ASSUME NEW e \in committed \ outbox' PROVE e <= floor'
    BY <1>1 DEF PurgedBelowFloor
  <2>1. e \in Nat /\ floor \in Nat /\ floor' \in Nat
    BY <1>2, <1>3 DEF FeedInv, TypeOK, EventId
  <2>2. CASE e \in outbox
    BY <1>3, <2>2
  <2>3. CASE e \notin outbox
    BY <1>3, <2>1, <2>3 DEF FeedInv, PurgedBelowFloor
  <2> QED BY <2>2, <2>3
<1> QED BY <1>5, <1>6, <1>7, <1>8 DEF FeedInv

LEMMA FeedStep ==
  ASSUME FeedAssumption, FeedInv, [Next]_vars PROVE FeedInv'
<1>1. CASE UNCHANGED vars
  BY <1>1 DEF vars, FeedInv, TypeOK, CursorsWithinCap, PurgedBelowFloor, LiveCursorsDrawn,
              LiveCursors, PassesCount, PurgesVisible, PositionsWereVisible
<1>2. CASE \/ InsertEvent
           \/ \E e \in EventId : CommitEvent(e) \/ RollBackEvent(e) \/ GrowOld(e)
  BY <1>2, WritersKeepInv
<1>3. CASE OpenPage
  BY <1>3, OpenPageKeepsInv
<1>4. CASE \E k \in Client : ReadPage(k)
  BY <1>4, ReadPageKeepsInv
<1>5. CASE \/ \E k \in Client : ReadFails(k) \/ \E c \in CursorId : ReadCheck(k, c)
           \/ \E c \in CursorId : CursorExpires(c)
           \/ ChangePolicy
  BY <1>5, OtherRequestsKeepInv
<1>6. CASE \E j \in Janitor : PurgePass(j)
  BY <1>6, PassesKeepInv
<1> QED BY <1>1, <1>2, <1>3, <1>4, <1>5, <1>6 DEF Next

(* The inductive invariant holds in every state.                           *)
THEOREM FeedInvHolds == Spec => []FeedInv
<1>1. Init => FeedInv
  BY FeedAssumption, FeedInit
<1>2. FeedInv /\ [Next]_vars => FeedInv'
  BY FeedAssumption, FeedStep
<1> QED BY <1>1, <1>2, PTL DEF Spec

(* A row that is live keeps its position, and an order that was drawn and  *)
(* is not live never comes back (openEventCursor, makeCursorRoom).         *)
Immutable ==
  \A c \in CursorId :
    /\ cursors[c].live /\ cursors'[c].live => cursors'[c].pos = cursors[c].pos
    /\ c <= issued /\ ~cursors[c].live => ~cursors'[c].live

LEMMA StepKeepsPositions ==
  ASSUME FeedAssumption, FeedInv, [Next]_vars PROVE Immutable
<1> {MaxEvent, MaxCursor} \subseteq Nat
  BY DEF FeedAssumption
<1>1. cursors \in [CursorId -> CursorRow] /\ issued \in Nat
  BY DEF FeedInv, TypeOK, CursorRow
<1>2. CASE cursors' = cursors
  BY <1>2 DEF Immutable
<1>3. ASSUME NEW cs \in [CursorId -> CursorRow], NEW row \in CursorRow,
             \A c \in CursorId : /\ cs[c].live = cursors[c].live
                                 /\ cs[c].pos = cursors[c].pos,
             issued < MaxCursor,
             cursors' = [Roomy(Pruned(cs)) EXCEPT ![issued + 1] = row]
      PROVE  Immutable
  <2> SUFFICES ASSUME NEW c \in CursorId
               PROVE  /\ cursors[c].live /\ cursors'[c].live =>
                           cursors'[c].pos = cursors[c].pos
                      /\ c <= issued /\ ~cursors[c].live => ~cursors'[c].live
    BY DEF Immutable
  <2>1. CASE c = issued + 1
    <3> ~cursors[c].live
      BY <1>1, <2>1 DEF FeedInv, LiveCursorsDrawn, LiveCursors
    <3> QED BY <1>1, <2>1
  <2>2. CASE c # issued + 1
    <3> cursors'[c] = Roomy(Pruned(cs))[c]
      BY <1>3, <2>2 DEF Roomy
    <3> cursors'[c] \in {cs[c], NoCursor}
      BY SurvivorsUnchanged
    <3> QED BY <1>3 DEF NoCursor
  <2> QED BY <2>1, <2>2
<1>4. CASE OpenPage
  <2> DEFINE row == [live |-> TRUE, pos |-> Max(outbox \union {floor}),
                     current |-> TRUE, expired |-> FALSE,
                     base |-> committed, got |-> {}]
  <2>1. row \in CursorRow
    <3>1. FeedInv'
      BY <1>4, OpenPageKeepsInv
    <3>2. issued + 1 \in CursorId
      BY <1>1, <1>4 DEF OpenPage, CursorId
    <3>3. cursors'[issued + 1] = row
      BY <1>4, <3>2 DEF OpenPage, Roomy
    <3>4. cursors'[issued + 1] \in CursorRow
      BY <3>1, <3>2 DEF FeedInv, TypeOK, CursorRow
    <3> QED BY <3>3, <3>4
  <2>2. issued < MaxCursor /\ cursors' = [Roomy(Pruned(cursors)) EXCEPT ![issued + 1] = row]
    BY <1>4 DEF OpenPage
  <2> HIDE DEF row
  <2> QED BY <1>1, <1>3, <2>1, <2>2
<1>5. ASSUME NEW k \in Client, ReadPage(k) PROVE Immutable
  <2> DEFINE c == reading[k]
             slid == [cursors EXCEPT ![c].expired = FALSE]
             row == [slid[c] EXCEPT !.pos = Max(Page(c)), !.got = @ \union Page(c)]
  <2>1. c \in CursorId
    BY <1>5 DEF FeedInv, TypeOK, ReadPage, CursorId
  <2>2. slid \in [CursorId -> CursorRow]
    <3> [cursors[c] EXCEPT !.expired = FALSE] \in CursorRow
      BY <1>1, <2>1 DEF CursorRow
    <3> QED BY <1>1, <2>1
  <2>3. \A d \in CursorId : /\ slid[d].live = cursors[d].live
                            /\ slid[d].pos = cursors[d].pos
    BY <1>1, <2>1 DEF CursorRow
  <2>4. CASE cursors' = slid
    BY <2>3, <2>4 DEF Immutable
  <2>5. CASE /\ issued < MaxCursor
             /\ cursors' = [Roomy(Pruned(slid)) EXCEPT ![issued + 1] = row]
    <3> HIDE DEF slid, row
    <3>1. issued + 1 \in CursorId
      BY <1>1, <2>5 DEF CursorId
    <3>2. cursors'[issued + 1] = row
      BY <2>5, <3>1 DEF Roomy
    <3>3. cursors'[issued + 1] \in CursorRow
      BY <1>5, <3>1, ReadPageKeepsInv DEF FeedInv, TypeOK, CursorRow
    <3> QED BY <1>3, <2>2, <2>3, <2>5, <3>2, <3>3
  <2> QED BY <1>5, <2>4, <2>5 DEF ReadPage
<1>6. ASSUME NEW c \in CursorId, CursorExpires(c) PROVE Immutable
  BY <1>1, <1>6 DEF CursorExpires, Immutable, CursorRow
<1>7. CASE ChangePolicy
  BY <1>1, <1>7, NewPolicyKeepsCoverage DEF Immutable
<1>8. \/ cursors' = cursors
      \/ OpenPage
      \/ \E k \in Client : ReadPage(k)
      \/ \E c \in CursorId : CursorExpires(c)
      \/ ChangePolicy
  BY DEF Next, vars, access, InsertEvent, CommitEvent, RollBackEvent, GrowOld, ReadFails,
         ReadCheck, PurgePass, StartPurge, CommitPurge, ProbeBacklog, PassFails
<1> QED BY <1>2, <1>4, <1>5, <1>6, <1>7, <1>8

(* A position is immutable, a dropped cursor never comes back              *)
(* (openEventCursor, makeCursorRoom).                                      *)
THEOREM PositionsNeverMove == Spec => PositionsAreImmutable
<1>1. FeedInv /\ [Next]_vars => Immutable
  BY FeedAssumption, StepKeepsPositions
<1>2. Spec => [][Immutable]_vars
  BY <1>1, FeedInvHolds, PTL DEF Spec
<1> QED BY <1>2, PTL DEF PositionsAreImmutable, Immutable

(* No cursor moves or comes back, there are never more than                *)
(* MaxEventCursors of them, and a purged event lies at or below the floor, *)
(* for any number of clients and replicas and in whatever order events     *)
(* become visible (makeCursorRoom, PurgeEvents).                           *)
THEOREM PositionsAlwaysHold == Spec => PositionsHold
<1>1. FeedInv => TypeOK /\ CursorsWithinCap /\ PurgedBelowFloor
  BY DEF FeedInv
<1>2. Spec => [](TypeOK /\ CursorsWithinCap /\ PurgedBelowFloor)
  BY <1>1, FeedInvHolds, PTL
<1> QED BY <1>2, PositionsNeverMove DEF PositionsHold

-----------------------------------------------------------------------------
(* What a reader sees.                                                     *)

(* A chain that is extended by a page covers everything up to the last     *)
(* event of the page: the rows before it are in the page or were covered.  *)
LEMMA PageCoversGap ==
  ASSUME FeedAssumption, FeedInv, NEW c \in CursorId, Page(c) # {},
         NEW e \in outbox, e <= Max(Page(c))
  PROVE  e <= cursors[c].pos \/ e \in Page(c)
<1> {MaxEvent, PageSize} \subseteq Nat
  BY DEF FeedAssumption
<1> DEFINE rest == {d \in outbox : d > cursors[c].pos}
<1>1. outbox \subseteq EventId /\ EventId = 1..MaxEvent /\ cursors[c].pos \in Nat
  BY DEF FeedInv, TypeOK, EventId
<1>2. rest \in SUBSET (1..MaxEvent)
  BY <1>1
<1>3. /\ Page(c) \subseteq rest
      /\ \A x \in Page(c) : \A y \in rest : y <= x => y \in Page(c)
  <2>1. Page(c) = Lowest(rest, PageSize)
    BY DEF Page
  <2>2. MaxEvent \in Nat /\ PageSize \in Nat
    OBVIOUS
  <2> HIDE DEF rest
  <2>3. /\ Lowest(rest, PageSize) \subseteq rest
        /\ \A x \in Lowest(rest, PageSize) :
             \A y \in rest : y <= x => y \in Lowest(rest, PageSize)
    BY <1>2, <2>2, LowestIsPrefix
  <2> QED BY <2>1, <2>3
<1>4. Max(Page(c)) \in Page(c)
  <2> Page(c) \in SUBSET (0..MaxEvent)
    BY <1>2, <1>3
  <2> QED BY MaxIsGreatest
<1> QED BY <1>1, <1>3, <1>4


(* An id is drawn once and becomes visible once: an id whose transaction   *)
(* is open was not committed, and no purged event comes back.              *)
IdsDrawnOnce ==
  /\ \A e \in committed \union writing : e <= drawn
  /\ committed \intersect writing = {}

LEMMA IdsStep ==
  ASSUME FeedAssumption, FeedInv, IdsDrawnOnce, [Next]_vars PROVE IdsDrawnOnce'
<1>1. /\ drawn \in Nat /\ writing \subseteq Nat
      /\ committed \subseteq Nat /\ MaxEvent \in Nat
  BY DEF FeedInv, TypeOK, EventId, FeedAssumption
<1>2. CASE InsertEvent
  BY <1>1, <1>2 DEF InsertEvent, IdsDrawnOnce
<1>3. ASSUME NEW e \in EventId, CommitEvent(e) \/ RollBackEvent(e) PROVE IdsDrawnOnce'
  BY <1>1, <1>3 DEF CommitEvent, RollBackEvent, IdsDrawnOnce
<1>4. CASE UNCHANGED <<drawn, writing, committed>>
  BY <1>4 DEF IdsDrawnOnce
<1> QED
  BY <1>2, <1>3, <1>4
  DEF Next, vars, feed, GrowOld, OpenPage, ReadPage, ReadFails, ReadCheck, CursorExpires,
      ChangePolicy, PurgePass, StartPurge, CommitPurge, ProbeBacklog, PassFails

(* No event is drawn or becomes visible twice (the IDENTITY column of      *)
(* event_outbox).                                                          *)
THEOREM IdsAreDrawnOnce == Spec => []IdsDrawnOnce
<1>1. Init => IdsDrawnOnce
  BY DEF Init, IdsDrawnOnce
<1>2. FeedInv /\ IdsDrawnOnce /\ [Next]_vars => IdsDrawnOnce'
  BY FeedAssumption, IdsStep
<1> QED BY <1>1, <1>2, FeedInvHolds, PTL DEF Spec

(* The principal's advisory lock keeps its transactions apart: one read at *)
(* a time is past the retention check, and its cursor stays while it is.   *)
ReadsStandApart ==
  /\ \A k \in Client : reading[k] # 0 => cursors[reading[k]].live
  /\ \A k, l \in Client : reading[k] # 0 /\ reading[l] # 0 => k = l

LEMMA ReadsStep ==
  ASSUME FeedAssumption, FeedInv, ReadsStandApart, [Next]_vars PROVE ReadsStandApart'
<1>1. /\ cursors \in [CursorId -> CursorRow] /\ reading \in [Client -> 0..MaxCursor]
      /\ MaxCursor \in Nat
  BY DEF FeedInv, TypeOK, CursorRow, FeedAssumption
<1>2. ASSUME OpenPage PROVE ReadsStandApart'
  BY <1>2 DEF OpenPage, Unlocked, ReadsStandApart
<1>3. ASSUME NEW k \in Client, ReadPage(k) \/ ReadFails(k) PROVE ReadsStandApart'
  <2>1. reading[k] # 0 /\ reading' = [reading EXCEPT ![k] = 0]
    BY <1>3 DEF ReadPage, ReadFails
  <2>2. \A l \in Client : reading'[l] = 0
    BY <1>1, <2>1 DEF ReadsStandApart
  <2> QED BY <2>2 DEF ReadsStandApart
<1>4. ASSUME NEW k \in Client, NEW c \in CursorId, ReadCheck(k, c) PROVE ReadsStandApart'
  BY <1>1, <1>4 DEF ReadCheck, Unlocked, ReadsStandApart
<1>5. ASSUME NEW c \in CursorId, CursorExpires(c) PROVE ReadsStandApart'
  <2>1. reading' = reading /\ cursors' = [cursors EXCEPT ![c].expired = TRUE]
    BY <1>5 DEF CursorExpires
  <2>2. \A d \in CursorId : cursors'[d].live = cursors[d].live
    BY <1>1, <2>1 DEF CursorRow
  <2>3. \A k \in Client : reading[k] # 0 => reading[k] \in CursorId
    BY <1>1 DEF CursorId
  <2> QED BY <2>1, <2>2, <2>3 DEF ReadsStandApart
<1>6. CASE UNCHANGED <<cursors, reading>>
  BY <1>6 DEF ReadsStandApart
<1>7. CASE ChangePolicy
  <2>1. reading' = reading /\ \A d \in CursorId : cursors'[d].live = cursors[d].live
    BY <1>1, <1>7, NewPolicyKeepsCoverage DEF ChangePolicy
  <2>2. \A k \in Client : reading[k] # 0 => reading[k] \in CursorId
    BY <1>1 DEF CursorId
  <2> QED BY <2>1, <2>2 DEF ReadsStandApart
<1> QED
  BY <1>2, <1>3, <1>4, <1>5, <1>6, <1>7
  DEF Next, vars, access, InsertEvent, CommitEvent, RollBackEvent, GrowOld,
      PurgePass, StartPurge, CommitPurge, ProbeBacklog, PassFails

LEMMA SkippingStep ==
  ASSUME FeedAssumption, FeedInv, IdsDrawnOnce, ReadsStandApart,
         OnlyLateEventsAreSkipped, [Next]_vars
  PROVE  OnlyLateEventsAreSkipped'
<1> {MaxEvent, MaxCursor} \subseteq Nat
  BY DEF FeedAssumption
<1>1. cursors \in [CursorId -> CursorRow] /\ issued \in Nat /\ outbox \subseteq committed
      /\ committed \subseteq Nat
  BY DEF FeedInv, TypeOK, CursorRow, EventId
<1>2. ASSUME outbox' \subseteq outbox, late \subseteq late',
             \A c \in LiveCursors(cursors') :
               /\ c \in LiveCursors(cursors)
               /\ cursors'[c].pos = cursors[c].pos
               /\ cursors'[c].base = cursors[c].base
               /\ cursors'[c].got = cursors[c].got
      PROVE  OnlyLateEventsAreSkipped'
  BY <1>2 DEF OnlyLateEventsAreSkipped, LiveCursors
<1>3. ASSUME NEW w \in EventId, CommitEvent(w) PROVE OnlyLateEventsAreSkipped'
  <2>1. /\ outbox' = outbox \union {w} /\ cursors' = cursors
        /\ w \in Nat /\ 0 < w /\ w \notin committed
        /\ late' = IF \E x \in committed : x > w THEN late \union {w} ELSE late
    BY <1>3 DEF CommitEvent, access, EventId, IdsDrawnOnce
  <2> SUFFICES ASSUME NEW c \in LiveCursors(cursors), NEW e \in outbox',
                      e <= cursors[c].pos
               PROVE  e \in cursors[c].base \union cursors[c].got \union late'
    BY <2>1 DEF OnlyLateEventsAreSkipped, LiveCursors
  <2>2. CASE e \in outbox
    BY <2>1, <2>2 DEF OnlyLateEventsAreSkipped
  <2>3. CASE e \notin outbox
    <3>1. e = w
      BY <2>1, <2>3
    <3>2. cursors[c].pos \in committed \union {0} /\ cursors[c].pos \in Nat
      BY <1>1 DEF FeedInv, PositionsWereVisible, LiveCursors, CursorRow
    <3>3. cursors[c].pos \in committed /\ cursors[c].pos > w
      BY <2>1, <3>1, <3>2
    <3> QED BY <2>1, <3>1, <3>3
  <2> QED BY <2>2, <2>3
<1>4. ASSUME NEW cs \in [CursorId -> CursorRow], NEW row,
             \A c \in CursorId : /\ cs[c].live = cursors[c].live
                                 /\ cs[c].pos = cursors[c].pos
                                 /\ cs[c].base = cursors[c].base
                                 /\ cs[c].got = cursors[c].got,
             \A e \in outbox : e <= row.pos => e \in row.base \union row.got \union late,
             cursors' = [Roomy(Pruned(cs)) EXCEPT ![issued + 1] = row],
             outbox' = outbox, late' = late
      PROVE  OnlyLateEventsAreSkipped'
  <2> SUFFICES ASSUME NEW c \in CursorId, cursors'[c].live, NEW e \in outbox,
                      e <= cursors'[c].pos
               PROVE  e \in cursors'[c].base \union cursors'[c].got \union late'
    BY <1>4 DEF OnlyLateEventsAreSkipped, LiveCursors
  <2>1. CASE c = issued + 1
    <3> cursors'[c] = row
      BY <1>4, <2>1 DEF Roomy
    <3> QED BY <1>4
  <2>2. CASE c # issued + 1
    <3> cursors'[c] = Roomy(Pruned(cs))[c]
      BY <1>4, <2>2 DEF Roomy
    <3>1. cursors'[c] \in {cs[c], NoCursor}
      BY SurvivorsUnchanged
    <3>2. cursors'[c] = cs[c] /\ c \in LiveCursors(cursors)
      BY <1>4, <3>1 DEF NoCursor, LiveCursors
    <3> QED BY <1>4, <3>2 DEF OnlyLateEventsAreSkipped
  <2> QED BY <2>1, <2>2
<1>5. CASE OpenPage
  <2> DEFINE row == [live |-> TRUE, pos |-> Max(outbox \union {floor}),
                     current |-> TRUE, expired |-> FALSE,
                     base |-> committed, got |-> {}]
  <2>1. cursors' = [Roomy(Pruned(cursors)) EXCEPT ![issued + 1] = row]
        /\ outbox' = outbox /\ late' = late
    BY <1>5 DEF OpenPage, feed
  <2>2. \A e \in outbox : e \in row.base
    BY <1>1
  <2> HIDE DEF row
  <2> QED BY <1>1, <1>4, <2>1, <2>2
<1>6. ASSUME NEW k \in Client, ReadPage(k) PROVE OnlyLateEventsAreSkipped'
  <2> DEFINE c == reading[k]
             slid == [cursors EXCEPT ![c].expired = FALSE]
             row == [slid[c] EXCEPT !.pos = Max(Page(c)), !.got = @ \union Page(c)]
  <2>1. c \in CursorId
    BY <1>6 DEF FeedInv, TypeOK, ReadPage, CursorId
  <2>2. slid \in [CursorId -> CursorRow]
    <3> [cursors[c] EXCEPT !.expired = FALSE] \in CursorRow
      BY <1>1, <2>1 DEF CursorRow
    <3> QED BY <1>1, <2>1
  <2>3. \A d \in CursorId : /\ slid[d].live = cursors[d].live
                            /\ slid[d].pos = cursors[d].pos
                            /\ slid[d].base = cursors[d].base
                            /\ slid[d].got = cursors[d].got
    BY <1>1, <2>1 DEF CursorRow
  <2>4. outbox' = outbox /\ late' = late
    BY <1>6 DEF ReadPage, feed
  <2>5. CASE cursors' = slid
    <3> HIDE DEF slid
    <3> QED BY <1>2, <2>3, <2>4, <2>5 DEF LiveCursors
  <2>6. CASE /\ Page(c) # {}
             /\ cursors' = [Roomy(Pruned(slid)) EXCEPT ![issued + 1] = row]
    <3>1. row.pos = Max(Page(c)) /\ row.base = cursors[c].base
          /\ row.got = cursors[c].got \union Page(c)
      BY <2>1, <2>2, <2>3 DEF CursorRow
    <3>2. \A e \in outbox : e <= row.pos => e \in row.base \union row.got \union late
      <4> SUFFICES ASSUME NEW e \in outbox, e <= Max(Page(c))
                   PROVE  e \in cursors[c].base \union cursors[c].got \union Page(c)
                          \union late
        BY <3>1
      <4>1. e <= cursors[c].pos \/ e \in Page(c)
        BY <2>1, <2>6, PageCoversGap
      <4>2. cursors[c].live
        BY <1>6 DEF ReadPage, ReadsStandApart
      <4> QED BY <2>1, <4>1, <4>2 DEF OnlyLateEventsAreSkipped, LiveCursors
    <3> HIDE DEF slid, row
    <3> QED BY <1>4, <2>2, <2>3, <2>4, <2>6, <3>2
  <2> QED BY <1>6, <2>5, <2>6 DEF ReadPage
<1>7. ASSUME NEW c \in CursorId, CursorExpires(c) PROVE OnlyLateEventsAreSkipped'
  BY <1>1, <1>2, <1>7 DEF CursorExpires, LiveCursors, CursorRow, feed
<1>8. CASE ChangePolicy
  <2>1. outbox' = outbox /\ late' = late
    BY <1>8 DEF ChangePolicy, feed
  <2> QED BY <1>1, <1>2, <1>8, <2>1, NewPolicyKeepsCoverage DEF LiveCursors
<1>9. CASE cursors' = cursors /\ outbox' \subseteq outbox /\ late' = late
  BY <1>2, <1>9
<1>10. \/ cursors' = cursors /\ outbox' \subseteq outbox /\ late' = late
       \/ \E w \in EventId : CommitEvent(w)
       \/ OpenPage
       \/ \E k \in Client : ReadPage(k)
       \/ \E c \in CursorId : CursorExpires(c)
       \/ ChangePolicy
  BY DEF Next, vars, access, feed, InsertEvent, RollBackEvent, GrowOld, ReadFails,
         ReadCheck, PurgePass, StartPurge, CommitPurge, ProbeBacklog, PassFails
<1> QED BY <1>3, <1>5, <1>6, <1>7, <1>8, <1>9, <1>10

(* Reads of one principal never interleave: while one is past its          *)
(* retention check no other is, and the cursor it reads from is not        *)
(* dropped (the advisory lock of readEventPage).                           *)
LEMMA ReadsAlwaysStandApart == Spec => []ReadsStandApart
<1>1. Init => ReadsStandApart
  BY DEF Init, ReadsStandApart
<1>2. FeedInv /\ ReadsStandApart /\ [Next]_vars => ReadsStandApart'
  BY FeedAssumption, ReadsStep
<1> QED BY <1>1, <1>2, FeedInvHolds, PTL DEF Spec

(* Whatever writers, clients, purges and evictions do, in whatever order   *)
(* the ids of the events become visible: a cursor chain moves past an      *)
(* event it has not delivered and a reader could still see only when that  *)
(* event became visible after a greater id (OpenEventPageForPrincipal,     *)
(* readEventPage, PurgeEvents).                                            *)
THEOREM SkippedEventsWereLate == Spec => []OnlyLateEventsAreSkipped
<1>1. Init => OnlyLateEventsAreSkipped
  BY DEF Init, OnlyLateEventsAreSkipped
<1>2. FeedInv /\ IdsDrawnOnce /\ ReadsStandApart /\ OnlyLateEventsAreSkipped /\ [Next]_vars
        => OnlyLateEventsAreSkipped'
  BY FeedAssumption, SkippingStep
<1> QED BY <1>1, <1>2, FeedInvHolds, IdsAreDrawnOnce, ReadsAlwaysStandApart, PTL DEF Spec

(* No event ever became visible after a greater id.                        *)
NothingLate == late = {}

(* Whenever events become visible in the order of their ids, no cursor     *)
(* chain moves past an event it has not delivered and a reader could still *)
(* see, whatever clients, purges and evictions do meanwhile                *)
(* (SelectEventPage, OpenEventPageForPrincipal).                           *)
THEOREM NothingSkippedInOrder ==
  Spec /\ [][VisibleInOrder]_vars => []NoVisibleEventSkipped
<1>1. Init => NothingLate
  BY DEF Init, NothingLate
<1>2. FeedInv /\ IdsDrawnOnce /\ NothingLate /\ [Next]_vars /\ [VisibleInOrder]_vars
        => NothingLate'
  <2> SUFFICES ASSUME FeedInv, IdsDrawnOnce, late = {}, [Next]_vars, [VisibleInOrder]_vars
               PROVE  late' = {}
    BY DEF NothingLate
  <2>1. ASSUME NEW w \in EventId, CommitEvent(w) PROVE late' = {}
    <3>1. /\ committed' = committed \union {w} /\ w \notin committed
          /\ late' = IF \E x \in committed : x > w THEN late \union {w} ELSE late
      BY <2>1 DEF CommitEvent, IdsDrawnOnce
    <3>2. VisibleInOrder
      BY <3>1 DEF vars
    <3>3. \A d \in committed : d < w
      BY <3>1, <3>2 DEF VisibleInOrder
    <3>4. committed \subseteq Nat /\ w \in Nat
      BY DEF FeedInv, TypeOK, EventId
    <3> QED BY <3>1, <3>3, <3>4
  <2>2. late' = late \/ \E w \in EventId : CommitEvent(w)
    BY DEF Next, vars, feed, InsertEvent, RollBackEvent, GrowOld, OpenPage, ReadPage,
           ReadFails, ReadCheck, CursorExpires, ChangePolicy, PurgePass, StartPurge,
           CommitPurge, ProbeBacklog, PassFails
  <2> QED BY <2>1, <2>2
<1>3. NothingLate /\ OnlyLateEventsAreSkipped => NoVisibleEventSkipped
  BY DEF NothingLate, OnlyLateEventsAreSkipped, NoVisibleEventSkipped
<1> QED BY <1>1, <1>2, <1>3, FeedInvHolds, IdsAreDrawnOnce, SkippedEventsWereLate, PTL DEF Spec
=============================================================================
