--------------------------- MODULE McpServerProofs ---------------------------
(***************************************************************************)
(* Proofs about McpServer for every number of principals, workspaces,      *)
(* requests, sessions and janitors and for every cap, TTL and clock.       *)
(***************************************************************************)
EXTENDS McpServer, FiniteSetTheorems, TLAPS

Lists == [Session -> SUBSET Session]

-----------------------------------------------------------------------------
(* The operators on recency lists.                                         *)

LEMMA WithoutType ==
  ASSUME NEW L \in Lists, NEW S PROVE Without(L, S) \in Lists
BY DEF Lists, Without

LEMMA ToFrontType ==
  ASSUME NEW L \in Lists, NEW s \in Session PROVE ToFront(L, s) \in Lists
BY DEF Lists, ToFront, Members

(* A list holds the sessions that are not taken out, and no others.        *)
LEMMA MembersWithout ==
  ASSUME NEW L \in Lists, IsList(L), NEW S
  PROVE  Members(Without(L, S)) = Members(L) \ S
<1>1. \A x \in Members(L) : x \in L[x]
  BY DEF IsList
<1> QED BY <1>1 DEF Members, Without, Lists

LEMMA MembersToFront ==
  ASSUME NEW L \in Lists, IsList(L), NEW s \in Session
  PROVE  Members(ToFront(L, s)) = Members(L) \union {s}
<1>1. \A x \in Members(L) : x \in L[x]
  BY DEF IsList
<1> QED BY <1>1 DEF Members, ToFront, Lists

(* Taking sessions out, and moving one to the front, leave a list.         *)
LEMMA WithoutIsList ==
  ASSUME NEW L \in Lists, IsList(L), NEW S PROVE IsList(Without(L, S))
<1> DEFINE M == Without(L, S)
<1>1. Members(M) = Members(L) \ S
  BY MembersWithout
<1>2. \A s \in Members(M) : M[s] = L[s] \ S
  BY <1>1 DEF Without, Members
<1> QED BY <1>1, <1>2 DEF IsList

LEMMA ToFrontIsList ==
  ASSUME NEW L \in Lists, IsList(L), NEW s \in Session PROVE IsList(ToFront(L, s))
<1> DEFINE M == ToFront(L, s)
           on == Members(L)
<1>1. Members(M) = on \union {s}
  BY MembersToFront
<1>2. M[s] = on \union {s} /\ \A x \in on \ {s} : M[x] = L[x] \ {s}
  BY DEF ToFront, Members
<1>3. /\ \A x \in on : L[x] \subseteq on
      /\ \A x, y \in on : /\ y \in L[x] \/ x \in L[y]
                          /\ y \in L[x] => L[y] \subseteq L[x]
                          /\ y \in L[x] /\ x \in L[y] => y = x
  BY DEF IsList
<1> HIDE DEF M, on
<1>4. \A x \in on \union {s} : M[x] \subseteq on \union {s}
  BY <1>2, <1>3
<1>5. ASSUME NEW x \in on \union {s}, NEW y \in on \union {s}
      PROVE  /\ y \in M[x] \/ x \in M[y]
             /\ y \in M[x] => M[y] \subseteq M[x]
             /\ y \in M[x] /\ x \in M[y] => y = x
  <2>1. CASE x = s
    BY <1>2, <1>4, <2>1
  <2>2. CASE x # s /\ y = s
    BY <1>2, <2>2
  <2>3. CASE x # s /\ y # s
    BY <1>2, <1>3, <2>3
  <2> QED BY <2>1, <2>2, <2>3
<1>6. IsList(M)
  BY <1>1, <1>4, <1>5 DEF IsList
<1> QED BY <1>6 DEF M

(* The order of taking out and moving does not matter.                     *)
LEMMA WithoutTwice ==
  ASSUME NEW L \in Lists, NEW S, NEW R
  PROVE  Without(Without(L, S), R) = Without(L, S \union R)
BY DEF Without, Lists

LEMMA WithoutSame ==
  ASSUME NEW L \in Lists, IsList(L), NEW S, NEW R,
         \A x \in Members(L) : x \in S <=> x \in R
  PROVE  Without(L, S) = Without(L, R)
<1>1. \A x \in Session : L[x] # {} => x \in Members(L) /\ L[x] \subseteq Members(L)
  BY DEF IsList, Members
<1>2. \A x \in Session : Without(L, S)[x] = Without(L, R)[x]
  BY <1>1 DEF Without, Lists
<1> QED BY <1>2 DEF Without

LEMMA ToFrontOfPart ==
  ASSUME NEW L \in Lists, IsList(L), NEW S, NEW s \in Session
  PROVE  ToFront(Without(L, S), s) = Without(ToFront(L, s), S \ {s})
<1>1. Members(Without(L, S)) = Members(L) \ S
  BY MembersWithout
<1>2. \A x \in Session :
        ToFront(Without(L, S), s)[x] = Without(ToFront(L, s), S \ {s})[x]
  BY <1>1 DEF ToFront, Without, Lists
<1> QED BY <1>2 DEF ToFront, Without

LEMMA ToFrontElsewhere ==
  ASSUME NEW L \in Lists, NEW S, NEW s \in Session, s \in S
  PROVE  Without(ToFront(L, s), S) = Without(L, S)
<1>1. \A x \in Session : Without(ToFront(L, s), S)[x] = Without(L, S)[x]
  BY DEF ToFront, Without, Lists
<1> QED BY <1>1 DEF Without

-----------------------------------------------------------------------------
(* The session table.                                                      *)

TableType(t) ==
  /\ t = [owner |-> t.owner, last |-> t.last, all |-> t.all,
          own |-> t.own, ws |-> t.ws]
  /\ t.owner \in [Session -> Principal \union {None}]
  /\ t.last \in [Session -> 0..MaxTime]
  /\ t.all \in Lists
  /\ t.own \in [Principal -> Lists]
  /\ t.ws \in [Workspace -> Lists]

(* IndexesAgree of a table value.                                          *)
Agrees(t) ==
  /\ IsList(t.all)
  /\ Members(t.all) = {s \in Session : t.owner[s] # None}
  /\ \A p \in Principal :
       t.own[p] = Without(t.all, {s \in Session : t.owner[s] # p})
  /\ \A w \in Workspace :
       t.ws[w] = Without(t.all, {s \in Session : t.owner[s] # None /\ Home[t.owner[s]] # w})
  /\ \A s \in Session : \A x \in t.all[s] : t.last[x] <= t.last[s]

LEMMA AgreesIsIndexesAgree ==
  TableType(table) => (Agrees(table) <=> IndexesAgree)
BY DEF Agrees, IndexesAgree, LiveSessions

(* removeLocked, for any set of sessions.                                  *)
LEMMA DropAgrees ==
  ASSUME NEW t, TableType(t), Agrees(t), NEW S \in SUBSET Session
  PROVE  TableType(Drop(t, S)) /\ Agrees(Drop(t, S))
<1> DEFINE u == Drop(t, S)
<1>0. /\ MaxTime \in Nat /\ t.all \in Lists /\ IsList(t.all)
      /\ t.owner \in [Session -> Principal \union {None}] /\ None \notin Principal
  BY CapAssumption, NoneAssumption DEF TableType, Agrees
<1>1. /\ u.owner = [s \in Session |-> IF s \in S THEN None ELSE t.owner[s]]
      /\ u.last = [s \in Session |-> IF s \in S THEN 0 ELSE t.last[s]]
      /\ u.all = Without(t.all, S)
      /\ u.own = [p \in Principal |-> Without(t.own[p], S)]
      /\ u.ws = [w \in Workspace |-> Without(t.ws[w], S)]
      /\ u = [owner |-> u.owner, last |-> u.last, all |-> u.all, own |-> u.own, ws |-> u.ws]
  BY DEF Drop
<1> HIDE DEF u
<1>2. TableType(u)
  <2>1. u.owner \in [Session -> Principal \union {None}] /\ u.last \in [Session -> 0..MaxTime]
    BY <1>0, <1>1 DEF TableType
  <2>2. u.all \in Lists
    BY <1>0, <1>1, WithoutType
  <2>3. u.own \in [Principal -> Lists] /\ u.ws \in [Workspace -> Lists]
    BY <1>1, WithoutType DEF TableType
  <2> QED BY <1>1, <2>1, <2>2, <2>3 DEF TableType
<1>3. IsList(u.all) /\ Members(u.all) = {s \in Session : u.owner[s] # None}
  <2>1. Members(t.all) = {s \in Session : t.owner[s] # None}
    BY DEF Agrees
  <2> QED BY <1>0, <1>1, <2>1, WithoutIsList, MembersWithout
<1>4. ASSUME NEW p \in Principal
      PROVE  u.own[p] = Without(u.all, {s \in Session : u.owner[s] # p})
  <2> DEFINE R == {s \in Session : t.owner[s] # p}
             Q == {s \in Session : u.owner[s] # p}
  <2>1. t.own[p] = Without(t.all, R)
    BY DEF Agrees
  <2>2. u.own[p] = Without(t.all, R \union S) /\ Without(u.all, Q) = Without(t.all, S \union Q)
    <3>1. u.own[p] = Without(Without(t.all, R), S) /\ Without(u.all, Q) = Without(Without(t.all, S), Q)
      BY <1>1, <2>1
    <3> HIDE DEF R, Q
    <3> QED BY <1>0, <3>1, WithoutTwice
  <2>3. \A s \in Members(t.all) : s \in R \union S <=> s \in S \union Q
    BY <1>0, <1>1 DEF Members
  <2>4. Without(t.all, R \union S) = Without(t.all, S \union Q)
    <3> HIDE DEF R, Q
    <3> QED BY <1>0, <2>3, WithoutSame
  <2> QED BY <2>2, <2>4
<1>5. ASSUME NEW w \in Workspace
      PROVE  u.ws[w] = Without(u.all, {s \in Session : u.owner[s] # None /\ Home[u.owner[s]] # w})
  <2> DEFINE R == {s \in Session : t.owner[s] # None /\ Home[t.owner[s]] # w}
             Q == {s \in Session : u.owner[s] # None /\ Home[u.owner[s]] # w}
  <2>1. t.ws[w] = Without(t.all, R)
    BY DEF Agrees
  <2>2. u.ws[w] = Without(t.all, R \union S) /\ Without(u.all, Q) = Without(t.all, S \union Q)
    <3>1. u.ws[w] = Without(Without(t.all, R), S) /\ Without(u.all, Q) = Without(Without(t.all, S), Q)
      BY <1>1, <2>1
    <3> HIDE DEF R, Q
    <3> QED BY <1>0, <3>1, WithoutTwice
  <2>3. \A s \in Members(t.all) : s \in R \union S <=> s \in S \union Q
    BY <1>0, <1>1 DEF Members
  <2>4. Without(t.all, R \union S) = Without(t.all, S \union Q)
    <3> HIDE DEF R, Q
    <3> QED BY <1>0, <2>3, WithoutSame
  <2> QED BY <2>2, <2>4
<1>6. \A s \in Session : \A x \in u.all[s] : u.last[x] <= u.last[s]
  <2>1. \A s \in Session : \A x \in u.all[s] : x \in t.all[s] /\ x \notin S /\ s \notin S
    BY <1>0, <1>1 DEF Without
  <2>2. \A s \in Session : \A x \in t.all[s] : x \in Session /\ t.last[x] <= t.last[s]
    BY <1>0 DEF Agrees, Lists
  <2> QED BY <1>1, <2>1, <2>2
<1>7. Agrees(u)
  BY <1>3, <1>4, <1>5, <1>6 DEF Agrees
<1> QED BY <1>2, <1>7 DEF u

(* A session enters, or moves, in front of its three lists.                *)
LEMMA PushAgrees ==
  ASSUME NEW t, TableType(t), Agrees(t), NEW s \in Session, NEW p \in Principal,
         t.owner[s] \in {None, p}, clock \in 0..MaxTime,
         \A x \in Session : t.last[x] <= clock
  PROVE  TableType(PushFront(t, s, p)) /\ Agrees(PushFront(t, s, p))
<1> DEFINE u == PushFront(t, s, p)
           h == Home[p]
<1>0. /\ MaxTime \in Nat /\ t.all \in Lists /\ IsList(t.all)
      /\ t.owner \in [Session -> Principal \union {None}] /\ None \notin Principal
      /\ h \in Workspace /\ t.own \in [Principal -> Lists] /\ t.ws \in [Workspace -> Lists]
  BY CapAssumption, NoneAssumption, HomeAssumption DEF TableType, Agrees
<1>1. /\ u.owner = [t.owner EXCEPT ![s] = p]
      /\ u.last = [t.last EXCEPT ![s] = clock]
      /\ u.all = ToFront(t.all, s)
      /\ u.own = [t.own EXCEPT ![p] = ToFront(t.own[p], s)]
      /\ u.ws = [t.ws EXCEPT ![h] = ToFront(t.ws[h], s)]
      /\ u = [owner |-> u.owner, last |-> u.last, all |-> u.all, own |-> u.own, ws |-> u.ws]
  BY DEF PushFront
<1> HIDE DEF u, h
<1>2. TableType(u)
  <2>1. u.owner \in [Session -> Principal \union {None}] /\ u.last \in [Session -> 0..MaxTime]
    BY <1>0, <1>1 DEF TableType
  <2>2. u.all \in Lists
    BY <1>0, <1>1, ToFrontType
  <2>3. u.own \in [Principal -> Lists] /\ u.ws \in [Workspace -> Lists]
    BY <1>0, <1>1, ToFrontType
  <2> QED BY <1>1, <2>1, <2>2, <2>3 DEF TableType
<1>3. IsList(u.all) /\ Members(u.all) = {x \in Session : u.owner[x] # None}
  <2>1. Members(t.all) = {x \in Session : t.owner[x] # None}
    BY DEF Agrees
  <2> QED BY <1>0, <1>1, <2>1, ToFrontIsList, MembersToFront
<1>4. ASSUME NEW q \in Principal
      PROVE  u.own[q] = Without(u.all, {x \in Session : u.owner[x] # q})
  <2> DEFINE R == {x \in Session : t.owner[x] # q}
             Q == {x \in Session : u.owner[x] # q}
  <2>1. t.own[q] = Without(t.all, R)
    BY DEF Agrees
  <2>2. CASE q = p
    <3>1. Q = R \ {s}
      BY <1>0, <1>1, <2>2
    <3>2. ToFront(Without(t.all, R), s) = Without(ToFront(t.all, s), R \ {s})
      BY <1>0, ToFrontOfPart
    <3> QED BY <1>0, <1>1, <2>1, <2>2, <3>1, <3>2
  <2>3. CASE q # p
    <3>1. Q = R \union {s}
      BY <1>0, <1>1, <2>3
    <3>2. Without(t.all, R) = Without(t.all, Q)
      <4>1. \A x \in Members(t.all) : x \in R <=> x \in Q
        BY <1>0, <2>3, <3>1 DEF Agrees
      <4> HIDE DEF R, Q
      <4> QED BY <1>0, <4>1, WithoutSame
    <3>3. Without(ToFront(t.all, s), Q) = Without(t.all, Q)
      <4>1. s \in Q
        BY <3>1
      <4> HIDE DEF Q
      <4> QED BY <1>0, <4>1, ToFrontElsewhere
    <3> QED BY <1>0, <1>1, <2>1, <2>3, <3>2, <3>3
  <2> QED BY <2>2, <2>3
<1>5. ASSUME NEW w \in Workspace
      PROVE  u.ws[w] = Without(u.all, {x \in Session : u.owner[x] # None /\ Home[u.owner[x]] # w})
  <2> DEFINE R == {x \in Session : t.owner[x] # None /\ Home[t.owner[x]] # w}
             Q == {x \in Session : u.owner[x] # None /\ Home[u.owner[x]] # w}
  <2>1. t.ws[w] = Without(t.all, R)
    BY DEF Agrees
  <2>2. CASE w = h
    <3>1. Q = R \ {s}
      BY <1>0, <1>1, <2>2 DEF h
    <3>2. ToFront(Without(t.all, R), s) = Without(ToFront(t.all, s), R \ {s})
      BY <1>0, ToFrontOfPart
    <3> QED BY <1>0, <1>1, <2>1, <2>2, <3>1, <3>2
  <2>3. CASE w # h
    <3>1. Q = R \union {s}
      BY <1>0, <1>1, <2>3 DEF h
    <3>2. Without(t.all, R) = Without(t.all, Q)
      <4>1. \A x \in Members(t.all) : x \in R <=> x \in Q
        BY <1>0, <2>3, <3>1 DEF Agrees, h
      <4> HIDE DEF R, Q
      <4> QED BY <1>0, <4>1, WithoutSame
    <3>3. Without(ToFront(t.all, s), Q) = Without(t.all, Q)
      <4>1. s \in Q
        BY <3>1
      <4> HIDE DEF Q
      <4> QED BY <1>0, <4>1, ToFrontElsewhere
    <3> QED BY <1>0, <1>1, <2>1, <2>3, <3>2, <3>3
  <2> QED BY <2>2, <2>3
<1>6. \A y \in Session : \A x \in u.all[y] : u.last[x] <= u.last[y]
  <2>1. /\ \A y \in Session : \A x \in t.all[y] : x \in Session /\ t.last[x] <= t.last[y]
        /\ t.last \in [Session -> Nat] /\ clock \in Nat
    BY <1>0 DEF Agrees, Lists, TableType
  <2>2. \A y \in Session : \A x \in u.all[y] : x \in Session /\ (y = s \/ (x # s /\ x \in t.all[y]))
    BY <1>0, <1>1 DEF ToFront, Members, Lists
  <2> QED BY <1>1, <2>1, <2>2
<1>7. Agrees(u)
  BY <1>3, <1>4, <1>5, <1>6 DEF Agrees
<1> QED BY <1>2, <1>7 DEF u

(* touchLocked reinserts a session under its own principal.                *)
LEMMA TouchPushes ==
  ASSUME TableType(table), NEW s \in Session, NEW p \in Principal, table.owner[s] = p
  PROVE  Touch(s, p) = PushFront(table, s, p)
<1>1. [table.owner EXCEPT ![s] = p] = table.owner
  BY DEF TableType
<1> QED BY <1>1 DEF Touch, PushFront

-----------------------------------------------------------------------------
(* The inductive invariant.                                                *)

(* Identifiers are used in the order they are drawn, and no session was    *)
(* used later than now.                                                    *)
SessionsDrawn ==
  \A s \in Session :
    /\ s > drawn => table.owner[s] = None
    /\ table.last[s] <= clock

(* A request holds a session exactly while its call is counted, and an     *)
(* admitted one has its caller.                                            *)
CallsHoldSessions ==
  \A r \in Request :
    /\ req[r].session # None <=> req[r].pc \in {"call", "limited"}
    /\ req[r].pc = "admitted" => req[r].principal \in Principal

(* Shutdown goes step by step: the janitors are awaited before the         *)
(* requests, both before the backends are closed.                          *)
ShutdownInOrder ==
  /\ phase \in {"draining", "down"} => \A j \in Janitor : janitors[j] = "returned"
  /\ phase = "down" => \A r \in Request : req[r].pc = "absent"

TableInv == TableType(table) /\ Agrees(table) /\ SessionsDrawn /\ CapsHold

ServerInv ==
  /\ TypeOK
  /\ TableInv
  /\ CallsHoldSessions
  /\ CallsCounted
  /\ ShutdownInOrder

-----------------------------------------------------------------------------
(* Making room.                                                            *)

(* The members of a principal's and of a workspace's list.                 *)
LEMMA ListMembers ==
  ASSUME NEW t, TableType(t), Agrees(t)
  PROVE  /\ \A p \in Principal :
              /\ t.own[p] \in Lists /\ IsList(t.own[p])
              /\ Members(t.own[p]) = {s \in Session : t.owner[s] = p}
         /\ \A w \in Workspace :
              /\ t.ws[w] \in Lists /\ IsList(t.ws[w])
              /\ Members(t.ws[w]) = {s \in Session : t.owner[s] # None /\ Home[t.owner[s]] = w}
<1>0. t.all \in Lists /\ IsList(t.all) /\ Members(t.all) = {s \in Session : t.owner[s] # None}
  BY DEF TableType, Agrees
<1>1. ASSUME NEW p \in Principal
      PROVE  /\ t.own[p] \in Lists /\ IsList(t.own[p])
             /\ Members(t.own[p]) = {s \in Session : t.owner[s] = p}
  <2> DEFINE R == {s \in Session : t.owner[s] # p}
  <2>1. t.own[p] = Without(t.all, R) /\ t.own[p] \in Lists
    BY DEF Agrees, TableType
  <2>2. IsList(t.own[p]) /\ Members(t.own[p]) = Members(t.all) \ R
    <3> HIDE DEF R
    <3> QED BY <1>0, <2>1, WithoutIsList, MembersWithout
  <2>3. None \notin Principal
    BY NoneAssumption
  <2> QED BY <1>0, <2>1, <2>2, <2>3
<1>2. ASSUME NEW w \in Workspace
      PROVE  /\ t.ws[w] \in Lists /\ IsList(t.ws[w])
             /\ Members(t.ws[w]) = {s \in Session : t.owner[s] # None /\ Home[t.owner[s]] = w}
  <2> DEFINE R == {s \in Session : t.owner[s] # None /\ Home[t.owner[s]] # w}
  <2>1. t.ws[w] = Without(t.all, R) /\ t.ws[w] \in Lists
    BY DEF Agrees, TableType
  <2>2. IsList(t.ws[w]) /\ Members(t.ws[w]) = Members(t.all) \ R
    <3> HIDE DEF R
    <3> QED BY <1>0, <2>1, WithoutIsList, MembersWithout
  <2> QED BY <1>0, <2>1, <2>2
<1> QED BY <1>1, <1>2

LEMMA SessionsFinite == IsFiniteSet(Session)
<1>1. 1 \in Int /\ MaxDrawn \in Int
  BY CapAssumption
<1> QED BY <1>1, FS_Interval DEF Session

(* Taking a member out of a set within its cap leaves room for one.        *)
LEMMA FewerLeft ==
  ASSUME NEW S, IsFiniteSet(S), NEW cap \in Nat, Cardinality(S) <= cap,
         NEW x \in S, NEW T, T \subseteq S \ {x}
  PROVE  Cardinality(T) < cap
<1>1. /\ IsFiniteSet(S \ {x}) /\ Cardinality(S \ {x}) = Cardinality(S) - 1
      /\ Cardinality(S) \in Nat
  BY FS_RemoveElement, FS_CardinalityType
<1>2. IsFiniteSet(T) /\ Cardinality(T) <= Cardinality(S \ {x}) /\ Cardinality(T) \in Nat
  BY <1>1, FS_Subset, FS_CardinalityType
<1> QED BY <1>1, <1>2

(* evictIdleLocked finds the one idle session that no other idle session   *)
(* of the list is behind, and evicting it makes room.                      *)
LEMMA CapEvicts ==
  ASSUME NEW L \in Lists, IsList(L), NEW cap \in Nat, Cardinality(Members(L)) <= cap
  PROVE  /\ Evictions(L, cap) \subseteq Members(L)
         /\ \A x \in Evictions(L, cap) :
              /\ ~Busy(x)
              /\ \A y \in Members(L) : ~Busy(y) => x \in L[y]
         /\ \A x, y \in Evictions(L, cap) : x = y
         /\ Refuses(L, cap) => Evictions(L, cap) = {}
         /\ ~Refuses(L, cap) => Cardinality(Members(L) \ Evictions(L, cap)) < cap
<1> DEFINE on == Members(L)
           E == Evictions(L, cap)
<1>1. /\ \A x, y \in on : /\ y \in L[x] \/ x \in L[y]
                          /\ y \in L[x] /\ x \in L[y] => y = x
  BY DEF IsList
<1>2. /\ E \subseteq on /\ (Refuses(L, cap) => E = {})
      /\ \A x \in E : ~Busy(x) /\ \A y \in L[x] \ {x} : Busy(y)
  BY DEF Evictions, Evicted, Refuses
<1>3. \A x \in E : \A y \in on : ~Busy(y) => x \in L[y]
  BY <1>1, <1>2
<1>4. \A x, y \in E : x = y
  BY <1>1, <1>2, <1>3
<1>5. IsFiniteSet(on) /\ Cardinality(on) \in Nat
  BY SessionsFinite, FS_Subset, FS_CardinalityType DEF Members
<1>6. ASSUME ~Refuses(L, cap) PROVE Cardinality(on \ E) < cap
  <2>1. CASE ~Full(L, cap)
    <3>1. on \ E = on /\ Cardinality(on) < cap
      BY <1>5, <2>1 DEF Full, Evictions
    <3> QED BY <3>1
  <2>2. CASE Full(L, cap)
    <3>1. PICK x \in on : x \in E
      BY <1>2, <1>6, <2>2 DEF Refuses, Evictions
    <3>2. on \ E \subseteq on \ {x}
      BY <3>1
    <3> HIDE DEF on, E
    <3>3. Cardinality(on) <= cap
      BY DEF on
    <3> QED BY <1>5, <3>1, <3>2, <3>3, FewerLeft
  <2> QED BY <2>1, <2>2
<1> QED BY <1>2, <1>3, <1>4, <1>6

(* What addSessionLocked removes for a new session of p, cap by cap.       *)
Expiries == Swept(table.all)
OwnEvicted(p) == Evictions(Without(table.own[p], Expiries), MaxPerPrincipal)
AfterOwn(p) == Expiries \union OwnEvicted(p)
WsEvicted(p) == Evictions(Without(table.ws[Home[p]], AfterOwn(p)), MaxPerWorkspace)
AfterWs(p) == AfterOwn(p) \union WsEvicted(p)
AllEvicted(p) == Evictions(Without(table.all, AfterWs(p)), MaxSessions)

OwnRefuses(p) == Refuses(Without(table.own[p], Expiries), MaxPerPrincipal)
WsRefuses(p) == Refuses(Without(table.ws[Home[p]], AfterOwn(p)), MaxPerWorkspace)
AllRefuses(p) == Refuses(Without(table.all, AfterWs(p)), MaxSessions)

LEMMA RoomCases ==
  ASSUME NEW p \in Principal
  PROVE  \/ OwnRefuses(p) /\ MakeRoom(p) = [ok |-> FALSE, gone |-> Expiries]
         \/ /\ ~OwnRefuses(p) /\ WsRefuses(p)
            /\ MakeRoom(p) = [ok |-> FALSE, gone |-> AfterOwn(p)]
         \/ /\ ~OwnRefuses(p) /\ ~WsRefuses(p) /\ AllRefuses(p)
            /\ MakeRoom(p) = [ok |-> FALSE, gone |-> AfterWs(p)]
         \/ /\ ~OwnRefuses(p) /\ ~WsRefuses(p) /\ ~AllRefuses(p)
            /\ MakeRoom(p) = [ok |-> TRUE, gone |-> AfterWs(p) \union AllEvicted(p)]
<1>1. MakeRoom(p) =
        IF OwnRefuses(p) THEN [ok |-> FALSE, gone |-> Expiries]
        ELSE IF WsRefuses(p) THEN [ok |-> FALSE, gone |-> AfterOwn(p)]
        ELSE IF AllRefuses(p) THEN [ok |-> FALSE, gone |-> AfterWs(p)]
        ELSE [ok |-> TRUE, gone |-> AfterWs(p) \union AllEvicted(p)]
  BY DEF MakeRoom, OwnRefuses, WsRefuses, AllRefuses, Expiries, AfterOwn, AfterWs,
         OwnEvicted, WsEvicted, AllEvicted
<1> QED BY <1>1

(* Only idle sessions are removed: expired ones, then at most one other,   *)
(* found under the first cap that was full, and only for a session that is *)
(* admitted.                                                               *)
LEMMA RoomIsMade ==
  ASSUME TableType(table), Agrees(table), CapsHold, NEW p \in Principal
  PROVE  /\ Expiries \subseteq Members(table.all)
         /\ \A x \in Expiries : ~Busy(x) /\ Expired(x)
         /\ OwnEvicted(p) \subseteq Members(table.own[p]) \ Expiries
         /\ WsEvicted(p) \subseteq Members(table.ws[Home[p]]) \ Expiries
         /\ AllEvicted(p) \subseteq Members(table.all) \ Expiries
         /\ \A x, y \in OwnEvicted(p) \union WsEvicted(p) \union AllEvicted(p) : x = y
         /\ \A x \in OwnEvicted(p) : ~Busy(x) /\
              \A y \in Members(table.own[p]) \ Expiries : ~Busy(y) => x \in table.own[p][y]
         /\ \A x \in WsEvicted(p) : ~Busy(x) /\
              \A y \in Members(table.ws[Home[p]]) \ AfterOwn(p) :
                ~Busy(y) => x \in table.ws[Home[p]][y]
         /\ \A x \in AllEvicted(p) : ~Busy(x) /\
              \A y \in Members(table.all) \ AfterWs(p) : ~Busy(y) => x \in table.all[y]
         /\ OwnRefuses(p) \/ WsRefuses(p) => OwnEvicted(p) = {}
         /\ ~OwnRefuses(p) =>
              Cardinality(Members(table.own[p]) \ AfterOwn(p)) < MaxPerPrincipal
         /\ ~WsRefuses(p) =>
              Cardinality(Members(table.ws[Home[p]]) \ AfterWs(p)) < MaxPerWorkspace
         /\ AllRefuses(p) => OwnEvicted(p) \union WsEvicted(p) = {}
         /\ ~AllRefuses(p) =>
              Cardinality(Members(table.all) \ (AfterWs(p) \union AllEvicted(p))) < MaxSessions
<1> DEFINE own == table.own[p]
           ws == table.ws[Home[p]]
           all == table.all
           L1 == Without(own, Expiries)
           L2 == Without(ws, AfterOwn(p))
           L3 == Without(all, AfterWs(p))
           e1 == OwnEvicted(p)
           e2 == WsEvicted(p)
           e3 == AllEvicted(p)
<1>0. Home[p] \in Workspace
  BY HomeAssumption
<1>1. /\ own \in Lists /\ IsList(own) /\ Members(own) = {s \in Session : table.owner[s] = p}
      /\ ws \in Lists /\ IsList(ws)
      /\ Members(ws) = {s \in Session : table.owner[s] # None /\ Home[table.owner[s]] = Home[p]}
      /\ all \in Lists /\ IsList(all) /\ Members(all) = {s \in Session : table.owner[s] # None}
  BY <1>0, ListMembers DEF TableType, Agrees
<1>2. Members(own) \subseteq Members(ws) /\ Members(ws) \subseteq Members(all)
  BY <1>1, NoneAssumption
<1>3. Expiries \subseteq Members(all) /\ \A x \in Expiries : ~Busy(x) /\ Expired(x)
  <2>1. \A x \in Members(all) : x \in all[x]
    BY <1>1 DEF IsList
  <2> QED BY <2>1 DEF Expiries, Swept
<1>4. /\ L1 \in Lists /\ IsList(L1) /\ Members(L1) = Members(own) \ Expiries
      /\ L2 \in Lists /\ IsList(L2) /\ Members(L2) = Members(ws) \ AfterOwn(p)
      /\ L3 \in Lists /\ IsList(L3) /\ Members(L3) = Members(all) \ AfterWs(p)
  BY <1>1, WithoutType, WithoutIsList, MembersWithout
<1>5. /\ IsFiniteSet(Members(own)) /\ Cardinality(Members(own)) <= MaxPerPrincipal
      /\ IsFiniteSet(Members(ws)) /\ Cardinality(Members(ws)) <= MaxPerWorkspace
      /\ IsFiniteSet(Members(all)) /\ Cardinality(Members(all)) <= MaxSessions
  <2>1. Members(own) \subseteq Session /\ Members(ws) \subseteq Session /\ Members(all) \subseteq Session
    BY DEF Members
  <2>2. {s \in LiveSessions : Home[table.owner[s]] = Home[p]} = Members(ws)
    BY <1>1 DEF LiveSessions
  <2>3. LiveSessions = Members(all)
    BY <1>1 DEF LiveSessions
  <2>4. /\ Cardinality(Members(own)) <= MaxPerPrincipal
        /\ Cardinality(Members(ws)) <= MaxPerWorkspace
        /\ Cardinality(Members(all)) <= MaxSessions
    BY <1>0, <1>1, <2>2, <2>3 DEF CapsHold
  <2> QED BY <2>1, <2>4, SessionsFinite, FS_Subset
<1>6. /\ Cardinality(Members(L1)) <= MaxPerPrincipal
      /\ Cardinality(Members(L2)) <= MaxPerWorkspace
      /\ Cardinality(Members(L3)) <= MaxSessions
      /\ MaxPerPrincipal \in Nat /\ MaxPerWorkspace \in Nat /\ MaxSessions \in Nat
  <2>1. ASSUME NEW S, IsFiniteSet(S), NEW T, T \subseteq S, NEW cap \in Nat, Cardinality(S) <= cap
        PROVE  Cardinality(T) <= cap
    <3>1. /\ IsFiniteSet(T) /\ Cardinality(T) <= Cardinality(S)
          /\ Cardinality(T) \in Nat /\ Cardinality(S) \in Nat
      BY <2>1, FS_Subset, FS_CardinalityType
    <3> QED BY <2>1, <3>1
  <2>2. MaxPerPrincipal \in Nat /\ MaxPerWorkspace \in Nat /\ MaxSessions \in Nat
    BY CapAssumption
  <2> HIDE DEF L1, L2, L3, own, ws, all
  <2> QED BY <1>4, <1>5, <2>1, <2>2
<1>7. /\ e1 = Evictions(L1, MaxPerPrincipal) /\ e2 = Evictions(L2, MaxPerWorkspace)
      /\ e3 = Evictions(L3, MaxSessions)
      /\ OwnRefuses(p) = Refuses(L1, MaxPerPrincipal)
      /\ WsRefuses(p) = Refuses(L2, MaxPerWorkspace)
      /\ AllRefuses(p) = Refuses(L3, MaxSessions)
  BY DEF OwnEvicted, WsEvicted, AllEvicted, OwnRefuses, WsRefuses, AllRefuses
<1> HIDE DEF L1, L2, L3, own, ws, all, e1, e2, e3
<1>8. /\ e1 \subseteq Members(L1)
      /\ \A x \in e1 : ~Busy(x) /\ \A y \in Members(L1) : ~Busy(y) => x \in L1[y]
      /\ \A x, y \in e1 : x = y
      /\ OwnRefuses(p) => e1 = {}
      /\ ~OwnRefuses(p) => Cardinality(Members(L1) \ e1) < MaxPerPrincipal
  BY <1>4, <1>6, <1>7, CapEvicts
<1>9. /\ e2 \subseteq Members(L2)
      /\ \A x \in e2 : ~Busy(x) /\ \A y \in Members(L2) : ~Busy(y) => x \in L2[y]
      /\ \A x, y \in e2 : x = y
      /\ ~WsRefuses(p) => Cardinality(Members(L2) \ e2) < MaxPerWorkspace
  BY <1>4, <1>6, <1>7, CapEvicts
<1>10. /\ e3 \subseteq Members(L3)
       /\ \A x \in e3 : ~Busy(x) /\ \A y \in Members(L3) : ~Busy(y) => x \in L3[y]
       /\ \A x, y \in e3 : x = y
       /\ ~AllRefuses(p) => Cardinality(Members(L3) \ e3) < MaxSessions
  BY <1>4, <1>6, <1>7, CapEvicts
<1>11. AfterOwn(p) = Expiries \union e1 /\ AfterWs(p) = AfterOwn(p) \union e2
  BY DEF AfterOwn, AfterWs, e1, e2
<1>12. ASSUME e1 # {} PROVE ~WsRefuses(p) /\ e2 = {}
  <2>1. PICK x \in e1 : TRUE
    BY <1>12
  <2>2. x \in Members(ws) /\ Members(L2) \subseteq Members(ws) \ {x}
    BY <1>2, <1>4, <1>8, <1>11, <2>1
  <2>3. Cardinality(Members(L2)) < MaxPerWorkspace
    BY <1>5, <1>6, <2>2, FewerLeft
  <2>4. Cardinality(Members(L2)) \in Nat
    BY <1>4, <1>5, FS_Subset, FS_CardinalityType
  <2>5. ~Full(L2, MaxPerWorkspace)
    BY <1>6, <2>3, <2>4 DEF Full
  <2> QED BY <1>7, <2>5 DEF Refuses, Evictions
<1>13. ASSUME e1 \union e2 # {} PROVE ~AllRefuses(p) /\ e3 = {}
  <2>1. PICK x \in e1 \union e2 : TRUE
    BY <1>13
  <2>2. x \in Members(all) /\ Members(L3) \subseteq Members(all) \ {x}
    BY <1>2, <1>4, <1>8, <1>9, <1>11, <2>1
  <2>3. Cardinality(Members(L3)) < MaxSessions
    BY <1>5, <1>6, <2>2, FewerLeft
  <2>4. Cardinality(Members(L3)) \in Nat
    BY <1>4, <1>5, FS_Subset, FS_CardinalityType
  <2>5. ~Full(L3, MaxSessions)
    BY <1>6, <2>3, <2>4 DEF Full
  <2> QED BY <1>7, <2>5 DEF Refuses, Evictions
<1>14. \A x, y \in e1 \union e2 \union e3 : x = y
  BY <1>8, <1>9, <1>10, <1>12, <1>13
<1>15. /\ \A y : y \in Session \ Expiries => L1[y] \subseteq own[y]
       /\ \A y : y \in Session \ AfterOwn(p) => L2[y] \subseteq ws[y]
       /\ \A y : y \in Session \ AfterWs(p) => L3[y] \subseteq all[y]
  BY DEF L1, L2, L3, Without
<1>16. /\ \A x \in e1 : ~Busy(x) /\ \A y \in Members(own) \ Expiries : ~Busy(y) => x \in own[y]
       /\ \A x \in e2 : ~Busy(x) /\ \A y \in Members(ws) \ AfterOwn(p) : ~Busy(y) => x \in ws[y]
       /\ \A x \in e3 : ~Busy(x) /\ \A y \in Members(all) \ AfterWs(p) : ~Busy(y) => x \in all[y]
  <2>1. \A L \in {own, ws, all} : Members(L) \subseteq Session
    BY DEF Members
  <2> QED BY <1>4, <1>8, <1>9, <1>10, <1>15, <2>1
<1>17. /\ Members(L1) \ e1 = Members(own) \ AfterOwn(p)
       /\ Members(L2) \ e2 = Members(ws) \ AfterWs(p)
       /\ Members(L3) \ e3 = Members(all) \ (AfterWs(p) \union e3)
  BY <1>4, <1>11
<1>18. /\ e1 \subseteq Members(own) \ Expiries /\ e2 \subseteq Members(ws) \ Expiries
       /\ e3 \subseteq Members(all) \ Expiries
  BY <1>4, <1>8, <1>9, <1>10, <1>11
<1>19. /\ OwnRefuses(p) \/ WsRefuses(p) => e1 = {}
       /\ AllRefuses(p) => e1 \union e2 = {}
       /\ ~OwnRefuses(p) => Cardinality(Members(own) \ AfterOwn(p)) < MaxPerPrincipal
       /\ ~WsRefuses(p) => Cardinality(Members(ws) \ AfterWs(p)) < MaxPerWorkspace
       /\ ~AllRefuses(p) => Cardinality(Members(all) \ (AfterWs(p) \union e3)) < MaxSessions
  BY <1>8, <1>9, <1>10, <1>12, <1>13, <1>17
<1> USE DEF own, ws, all, e1, e2, e3
<1> QED BY <1>3, <1>14, <1>16, <1>18, <1>19

-----------------------------------------------------------------------------
(* Steps of the table.                                                     *)

LEMMA PartWithinCap ==
  ASSUME NEW S, IsFiniteSet(S), NEW cap \in Nat, Cardinality(S) <= cap, NEW T, T \subseteq S
  PROVE  Cardinality(T) <= cap
<1>1. /\ IsFiniteSet(T) /\ Cardinality(T) <= Cardinality(S)
      /\ Cardinality(T) \in Nat /\ Cardinality(S) \in Nat
  BY FS_Subset, FS_CardinalityType
<1> QED BY <1>1

LEMMA OneMoreWithinCap ==
  ASSUME NEW S, IsFiniteSet(S), NEW cap \in Nat, Cardinality(S) < cap,
         NEW x, NEW T, T \subseteq S \union {x}
  PROVE  Cardinality(T) <= cap
<1>1. IsFiniteSet(S \union {x}) /\ Cardinality(S \union {x}) <= Cardinality(S) + 1
  <2>1. /\ IsFiniteSet(S \union {x}) /\ Cardinality(S) \in Nat
        /\ Cardinality(S \union {x}) = IF x \in S THEN Cardinality(S) ELSE Cardinality(S) + 1
    BY FS_AddElement, FS_CardinalityType
  <2> QED BY <2>1
<1>2. Cardinality(S) \in Nat /\ Cardinality(S \union {x}) \in Nat
  BY <1>1, FS_CardinalityType
<1>3. Cardinality(S \union {x}) <= cap
  BY <1>1, <1>2
<1> QED BY <1>1, <1>3, PartWithinCap

(* The sessions that each cap counts.                                      *)
OwnedBy(p) == {s \in Session : table.owner[s] = p}
HomedIn(w) == {s \in LiveSessions : Home[table.owner[s]] = w}

LEMMA CapsCount ==
  CapsHold <=> /\ \A p \in Principal : Cardinality(OwnedBy(p)) <= MaxPerPrincipal
               /\ \A w \in Workspace : Cardinality(HomedIn(w)) <= MaxPerWorkspace
               /\ Cardinality(LiveSessions) <= MaxSessions
BY DEF CapsHold, OwnedBy, HomedIn

LEMMA CountedFinite ==
  /\ \A p \in Principal : IsFiniteSet(OwnedBy(p))
  /\ \A w \in Workspace : IsFiniteSet(HomedIn(w))
  /\ IsFiniteSet(LiveSessions)
<1>1. /\ \A p \in Principal : OwnedBy(p) \subseteq Session
      /\ \A w \in Workspace : HomedIn(w) \subseteq Session
      /\ LiveSessions \subseteq Session
  BY DEF OwnedBy, HomedIn, LiveSessions
<1> QED BY <1>1, SessionsFinite, FS_Subset

(* A step that gives no session away keeps the caps.                       *)
LEMMA CapsKept ==
  ASSUME CapsHold, \A s \in Session : table'.owner[s] \in {table.owner[s], None}
  PROVE  CapsHold'
<1>0. None \notin Principal /\ MaxPerPrincipal \in Nat /\ MaxPerWorkspace \in Nat /\ MaxSessions \in Nat
  BY NoneAssumption, CapAssumption
<1>1. /\ \A p \in Principal : OwnedBy(p)' \subseteq OwnedBy(p)
      /\ \A w \in Workspace : HomedIn(w)' \subseteq HomedIn(w)
      /\ LiveSessions' \subseteq LiveSessions
  BY <1>0 DEF OwnedBy, HomedIn, LiveSessions
<1>2. /\ \A p \in Principal : Cardinality(OwnedBy(p)') <= MaxPerPrincipal
      /\ \A w \in Workspace : Cardinality(HomedIn(w)') <= MaxPerWorkspace
      /\ Cardinality(LiveSessions') <= MaxSessions
  BY <1>0, <1>1, CapsCount, CountedFinite, PartWithinCap
<1> QED BY <1>2 DEF CapsHold, OwnedBy, HomedIn

(* Sessions go.                                                            *)
LEMMA DropStep ==
  ASSUME TableInv, clock \in 0..MaxTime, clock' = clock, drawn' = drawn,
         NEW S \in SUBSET Session, table' = Drop(table, S)
  PROVE  TableInv'
<1>1. TableType(table') /\ Agrees(table')
  BY DropAgrees DEF TableInv
<1>2. /\ \A s \in Session : table'.owner[s] = IF s \in S THEN None ELSE table.owner[s]
      /\ \A s \in Session : table'.last[s] = IF s \in S THEN 0 ELSE table.last[s]
  BY DEF Drop
<1>3. SessionsDrawn' /\ CapsHold'
  <2>1. SessionsDrawn'
    BY <1>2, CapAssumption DEF TableInv, SessionsDrawn
  <2>2. CapsHold'
    BY <1>2, CapsKept DEF TableInv
  <2> QED BY <2>1, <2>2
<1> QED BY <1>1, <1>3 DEF TableInv, TableType, Agrees

(* A session of p is used.                                                 *)
LEMMA TouchStep ==
  ASSUME TableInv, clock \in 0..MaxTime, clock' = clock, drawn' = drawn,
         NEW s \in Session, NEW p \in Principal, table.owner[s] = p, table' = Touch(s, p)
  PROVE  TableInv' /\ table'.owner = table.owner
<1>0. TableType(table) /\ Agrees(table) /\ \A x \in Session : table.last[x] <= clock
  BY DEF TableInv, SessionsDrawn
<1>1. TableType(table') /\ Agrees(table')
  BY <1>0, TouchPushes, PushAgrees
<1>2. /\ table'.owner = table.owner
      /\ table'.last = [table.last EXCEPT ![s] = clock]
  BY DEF Touch
<1>3. SessionsDrawn' /\ CapsHold'
  <2>1. SessionsDrawn'
    BY <1>0, <1>2, CapAssumption DEF TableInv, SessionsDrawn, TableType
  <2>2. CapsHold'
    BY <1>2, CapsKept DEF TableInv
  <2> QED BY <2>1, <2>2
<1> QED BY <1>1, <1>2, <1>3 DEF TableInv, TableType, Agrees

(* A new session of p, or its refusal.                                     *)
LEMMA AddStep ==
  ASSUME TableInv, clock \in 0..MaxTime, clock' = clock, drawn \in Nat, drawn < MaxDrawn,
         drawn' = drawn + 1, NEW p \in Principal, table' = AddSession(drawn + 1, p)
  PROVE  /\ TableInv'
         /\ MakeRoom(p).gone \subseteq LiveSessions
         /\ \A x \in MakeRoom(p).gone : ~Busy(x)
         /\ \A x \in LiveSessions : table'.owner[x] =
              IF x \in MakeRoom(p).gone THEN None ELSE table.owner[x]
         /\ table'.owner[drawn + 1] = IF MakeRoom(p).ok THEN p ELSE None
<1> DEFINE n == drawn + 1
           gone == MakeRoom(p).gone
           kept == Drop(table, gone)
           h == Home[p]
<1>0. /\ TableType(table) /\ Agrees(table) /\ CapsHold /\ SessionsDrawn
      /\ n \in Session /\ h \in Workspace /\ None \notin Principal
      /\ MaxTime \in Nat
      /\ MaxPerPrincipal \in Nat /\ MaxPerWorkspace \in Nat /\ MaxSessions \in Nat
  BY CapAssumption, HomeAssumption, NoneAssumption DEF TableInv, Session
<1>1. /\ Members(table.own[p]) = OwnedBy(p)
      /\ Members(table.ws[h]) = HomedIn(h)
      /\ Members(table.all) = LiveSessions
  BY <1>0, ListMembers DEF OwnedBy, HomedIn, LiveSessions, Agrees
<1>2. OwnedBy(p) \subseteq LiveSessions /\ HomedIn(h) \subseteq LiveSessions /\ LiveSessions \subseteq Session
  BY <1>0 DEF OwnedBy, HomedIn, LiveSessions
<1>3. /\ gone \subseteq Expiries \union OwnEvicted(p) \union WsEvicted(p) \union AllEvicted(p)
      /\ MakeRoom(p).ok \in BOOLEAN
      /\ MakeRoom(p).ok =>
           /\ ~OwnRefuses(p) /\ ~WsRefuses(p) /\ ~AllRefuses(p)
           /\ gone = AfterWs(p) \union AllEvicted(p)
  <2>1. \/ gone = Expiries /\ MakeRoom(p).ok = FALSE
        \/ gone = AfterOwn(p) /\ MakeRoom(p).ok = FALSE
        \/ gone = AfterWs(p) /\ MakeRoom(p).ok = FALSE
        \/ /\ ~OwnRefuses(p) /\ ~WsRefuses(p) /\ ~AllRefuses(p)
           /\ gone = AfterWs(p) \union AllEvicted(p) /\ MakeRoom(p).ok = TRUE
    BY RoomCases
  <2> HIDE DEF gone
  <2> QED BY <2>1 DEF AfterOwn, AfterWs
<1>4. gone \subseteq LiveSessions /\ \A x \in gone : ~Busy(x)
  <2>1. /\ Expiries \subseteq LiveSessions /\ \A x \in Expiries : ~Busy(x)
        /\ OwnEvicted(p) \subseteq LiveSessions /\ \A x \in OwnEvicted(p) : ~Busy(x)
        /\ WsEvicted(p) \subseteq LiveSessions /\ \A x \in WsEvicted(p) : ~Busy(x)
        /\ AllEvicted(p) \subseteq LiveSessions /\ \A x \in AllEvicted(p) : ~Busy(x)
    <3>1. /\ Expiries \subseteq Members(table.all)
          /\ \A x \in Expiries : ~Busy(x)
          /\ OwnEvicted(p) \subseteq Members(table.own[p]) \ Expiries
          /\ WsEvicted(p) \subseteq Members(table.ws[Home[p]]) \ Expiries
          /\ AllEvicted(p) \subseteq Members(table.all) \ Expiries
          /\ \A x \in OwnEvicted(p) : ~Busy(x)
          /\ \A x \in WsEvicted(p) : ~Busy(x)
          /\ \A x \in AllEvicted(p) : ~Busy(x)
      BY <1>0, RoomIsMade
    <3> HIDE DEF gone
    <3> QED BY <1>1, <1>2, <3>1
  <2> HIDE DEF gone
  <2> QED BY <1>3, <2>1
<1>5. TableType(kept) /\ Agrees(kept) /\ gone \in SUBSET Session
  BY <1>0, <1>2, <1>4, DropAgrees
<1>6. /\ \A x \in Session : kept.owner[x] = IF x \in gone THEN None ELSE table.owner[x]
      /\ \A x \in Session : kept.last[x] = IF x \in gone THEN 0 ELSE table.last[x]
  BY DEF Drop
<1>7. \A x \in Session : x > drawn => table.owner[x] = None /\ x \notin gone
  BY <1>0, <1>4 DEF SessionsDrawn, LiveSessions
<1>8. kept.owner[n] = None
  BY <1>0, <1>6, <1>7 DEF Session
<1>9. \A x \in Session : table.last[x] <= clock /\ kept.last[x] <= clock
  BY <1>0, <1>6 DEF SessionsDrawn
<1>10. CASE ~MakeRoom(p).ok
  <2>1. table' = kept
    BY <1>10 DEF AddSession
  <2>2. SessionsDrawn'
    BY <1>6, <1>7, <1>9, <2>1 DEF SessionsDrawn, Session
  <2>3. CapsHold'
    BY <1>0, <1>6, <2>1, CapsKept
  <2>4. TableInv'
    BY <1>5, <2>1, <2>2, <2>3 DEF TableInv, TableType, Agrees
  <2> QED BY <1>2, <1>4, <1>6, <1>8, <1>10, <2>1, <2>4
<1>11. CASE MakeRoom(p).ok
  <2>1. table' = PushFront(kept, n, p)
    BY <1>11 DEF AddSession
  <2>2. TableType(table') /\ Agrees(table')
    <3> HIDE DEF kept, n
    <3> QED BY <1>0, <1>5, <1>8, <1>9, <2>1, PushAgrees
  <2>3. /\ \A x \in Session : table'.owner[x] = IF x = n THEN p ELSE kept.owner[x]
        /\ \A x \in Session : table'.last[x] = IF x = n THEN clock ELSE kept.last[x]
    BY <1>0, <1>5, <2>1 DEF PushFront, TableType
  <2>4. SessionsDrawn'
    BY <1>0, <1>6, <1>7, <1>9, <2>3 DEF SessionsDrawn, Session
  <2>5. /\ Cardinality(OwnedBy(p) \ AfterOwn(p)) < MaxPerPrincipal
        /\ Cardinality(HomedIn(h) \ AfterWs(p)) < MaxPerWorkspace
        /\ Cardinality(LiveSessions \ (AfterWs(p) \union AllEvicted(p))) < MaxSessions
    BY <1>0, <1>1, <1>3, <1>11, RoomIsMade
  <2>6. /\ OwnedBy(p)' \subseteq (OwnedBy(p) \ AfterOwn(p)) \union {n}
        /\ HomedIn(h)' \subseteq (HomedIn(h) \ AfterWs(p)) \union {n}
        /\ LiveSessions' \subseteq (LiveSessions \ (AfterWs(p) \union AllEvicted(p))) \union {n}
        /\ \A q \in Principal : q # p => OwnedBy(q)' \subseteq OwnedBy(q)
        /\ \A w \in Workspace : w # h => HomedIn(w)' \subseteq HomedIn(w)
    <3>1. AfterOwn(p) \subseteq gone /\ AfterWs(p) \subseteq gone /\ gone = AfterWs(p) \union AllEvicted(p)
      BY <1>3, <1>11 DEF AfterWs
    <3>2. \A x \in Session : table'.owner[x] # None =>
            x = n \/ (x \notin gone /\ table'.owner[x] = table.owner[x])
      BY <1>6, <2>3
    <3>3. table'.owner[n] = p
      BY <1>0, <2>3
    <3> HIDE DEF gone, kept, n, h
    <3>4. h = Home[p]
      BY DEF h
    <3> QED BY <1>0, <3>1, <3>2, <3>3, <3>4 DEF OwnedBy, HomedIn, LiveSessions
  <2>7. /\ IsFiniteSet(OwnedBy(p) \ AfterOwn(p)) /\ IsFiniteSet(HomedIn(h) \ AfterWs(p))
        /\ IsFiniteSet(LiveSessions \ (AfterWs(p) \union AllEvicted(p)))
    <3>1. IsFiniteSet(OwnedBy(p)) /\ IsFiniteSet(HomedIn(h)) /\ IsFiniteSet(LiveSessions)
      BY <1>0, CountedFinite
    <3> QED BY <3>1, FS_Difference
  <2>8. /\ Cardinality(OwnedBy(p)') <= MaxPerPrincipal
        /\ Cardinality(HomedIn(h)') <= MaxPerWorkspace
        /\ Cardinality(LiveSessions') <= MaxSessions
    <3> HIDE DEF h, n
    <3> QED BY <1>0, <2>5, <2>6, <2>7, OneMoreWithinCap
  <2>9. /\ \A q \in Principal : q # p => Cardinality(OwnedBy(q)') <= MaxPerPrincipal
        /\ \A w \in Workspace : w # h => Cardinality(HomedIn(w)') <= MaxPerWorkspace
    BY <1>0, <2>6, CapsCount, CountedFinite, PartWithinCap
  <2>10. CapsHold'
    BY <2>8, <2>9 DEF CapsHold, OwnedBy, HomedIn
  <2>11. TableInv'
    BY <2>2, <2>4, <2>10 DEF TableInv, TableType, Agrees
  <2> QED BY <1>0, <1>2, <1>4, <1>6, <1>7, <1>11, <2>3, <2>11 DEF LiveSessions, Session
<1> QED BY <1>3, <1>10, <1>11

-----------------------------------------------------------------------------
(* Steps of the requests.                                                  *)

InFlight(s) == {r \in Request : req[r].session = s}
Served(s) == {r \in InFlight(s) : req[r].pc = "call"}

RequestRec ==
  [pc : {"absent", "entered", "admitted", "call", "limited", "answered"},
   principal : Principal \union {None},
   session : Session \union {None}]

Counted ==
  \A s \in Session :
    /\ calls[s] = Cardinality(InFlight(s))
    /\ Cardinality(Served(s)) <= MaxCalls
    /\ InFlight(s) # {} => s \in LiveSessions

LEMMA CountedIs == Counted <=> CallsCounted
BY DEF Counted, CallsCounted, InFlight, Served

LEMMA FlightsFinite ==
  \A s : /\ IsFiniteSet(InFlight(s)) /\ Cardinality(InFlight(s)) \in 0..Cardinality(Request)
         /\ IsFiniteSet(Served(s)) /\ Cardinality(Served(s)) \in Nat
<1> TAKE s
<1>1. InFlight(s) \subseteq Request /\ Served(s) \subseteq Request
  BY DEF InFlight, Served
<1>2. IsFiniteSet(Request) /\ Cardinality(Request) \in Nat
  BY RequestAssumption, FS_CardinalityType
<1>3. /\ IsFiniteSet(InFlight(s)) /\ Cardinality(InFlight(s)) <= Cardinality(Request)
      /\ IsFiniteSet(Served(s)) /\ Cardinality(InFlight(s)) \in Nat /\ Cardinality(Served(s)) \in Nat
  BY <1>1, <1>2, FS_Subset, FS_CardinalityType
<1> QED BY <1>2, <1>3

(* The count of a session is positive exactly while a call holds it.       *)
LEMMA BusyHolds ==
  ASSUME CallsCounted, NEW s \in Session
  PROVE  Busy(s) <=> InFlight(s) # {}
<1>1. calls[s] = Cardinality(InFlight(s)) /\ IsFiniteSet(InFlight(s))
      /\ Cardinality(InFlight(s)) \in Nat
  BY CountedIs, FlightsFinite, FS_CardinalityType DEF Counted
<1>2. Cardinality(InFlight(s)) = 0 <=> InFlight(s) = {}
  BY <1>1, FS_EmptySet
<1> QED BY <1>1, <1>2 DEF Busy

(* A step of a request that is not in a call, or of none.                  *)
LEMMA QuietRequest ==
  ASSUME CallsCounted, CallsHoldSessions, req \in [Request -> RequestRec],
         NEW r \in Request, NEW pc \in {"absent", "entered", "admitted", "answered"},
         NEW p \in Principal \union {None}, pc = "admitted" => p \in Principal,
         req[r].pc \notin {"call", "limited"}, Becomes(r, At(pc, p, None)), calls' = calls,
         \A s \in LiveSessions : Busy(s) => s \in LiveSessions'
  PROVE  CallsCounted' /\ CallsHoldSessions' /\ req' \in [Request -> RequestRec]
<1>0. None \notin Session
  BY NoneAssumption DEF Session
<1>1. /\ req' \in [Request -> RequestRec]
      /\ req'[r].pc = pc /\ req'[r].principal = p /\ req'[r].session = None
      /\ req[r].session = None
      /\ \A q \in Request : q # r => req'[q] = req[q]
  BY DEF Becomes, At, RequestRec, CallsHoldSessions
<1>2. CallsHoldSessions'
  BY <1>1 DEF CallsHoldSessions
<1>3. \A s \in Session : InFlight(s)' = InFlight(s) /\ Served(s)' = Served(s)
  BY <1>0, <1>1 DEF InFlight, Served
<1>4. Counted'
  BY <1>3, CountedIs, BusyHolds DEF Counted
<1>5. CallsCounted'
  BY <1>4 DEF Counted, CallsCounted, InFlight, Served
<1> QED BY <1>1, <1>2, <1>5

LEMMA CallsAreCounts ==
  ASSUME Counted, calls \in [Session -> Int]
  PROVE  calls \in [Session -> 0..Cardinality(Request)]
BY FlightsFinite DEF Counted

LEMMA AdmitCallStep ==
  ASSUME CallsCounted, CallsHoldSessions, req \in [Request -> RequestRec],
         calls \in [Session -> 0..Cardinality(Request)],
         NEW r \in Request, NEW s \in Session, AdmitCall(r, s), table'.owner = table.owner
  PROVE  /\ CallsCounted' /\ CallsHoldSessions' /\ req' \in [Request -> RequestRec]
         /\ calls' \in [Session -> 0..Cardinality(Request)]
<1>0. None \notin Session /\ None \notin Principal /\ MaxCalls \in Nat /\ Cardinality(Request) \in Nat
  BY NoneAssumption, CapAssumption, RequestAssumption, FS_CardinalityType DEF Session
<1>1. /\ req[r].pc = "admitted" /\ req[r].session = None
      /\ table.owner[s] = req[r].principal /\ req[r].principal \in Principal
      /\ calls' = [calls EXCEPT ![s] = calls[s] + 1]
      /\ req' = [req EXCEPT ![r] =
           [pc |-> IF calls[s] + 1 > MaxCalls THEN "limited" ELSE "call",
            principal |-> None, session |-> s]]
  BY DEF AdmitCall, Live, CallsHoldSessions, Becomes, At
<1>2. /\ req' \in [Request -> RequestRec]
      /\ req'[r].session = s
      /\ req'[r].pc = IF calls[s] + 1 > MaxCalls THEN "limited" ELSE "call"
      /\ \A q \in Request : q # r => req'[q] = req[q]
  BY <1>1 DEF RequestRec
<1>3. CallsHoldSessions'
  BY <1>0, <1>1, <1>2 DEF CallsHoldSessions
<1>4. /\ InFlight(s)' = InFlight(s) \union {r} /\ r \notin InFlight(s)
      /\ \A x \in Session : x # s => InFlight(x)' = InFlight(x) /\ Served(x)' = Served(x)
  BY <1>0, <1>1, <1>2 DEF InFlight, Served
<1>5. Counted
  BY CountedIs
<1>6. Cardinality(InFlight(s)') = Cardinality(InFlight(s)) + 1 /\ IsFiniteSet(InFlight(s)')
  <2>1. IsFiniteSet(InFlight(s))
    BY FlightsFinite
  <2> QED BY <1>4, <2>1, FS_AddElement
<1>7. Cardinality(Served(s)') <= MaxCalls
  <2>1. CASE calls[s] + 1 > MaxCalls
    <3>1. Served(s)' = Served(s)
      BY <1>1, <1>2, <1>4, <2>1 DEF Served
    <3> QED BY <1>5, <3>1 DEF Counted
  <2>2. CASE ~(calls[s] + 1 > MaxCalls)
    <3>1. Cardinality(InFlight(s)') <= MaxCalls
      BY <1>0, <1>5, <1>6, <2>2 DEF Counted
    <3>2. Served(s)' \subseteq InFlight(s)'
      BY DEF Served
    <3> QED BY <1>0, <1>6, <3>1, <3>2, PartWithinCap
  <2> QED BY <2>1, <2>2
<1>8. s \in LiveSessions'
  BY <1>0, <1>1 DEF LiveSessions
<1>9. LiveSessions' = LiveSessions
  BY DEF LiveSessions
<1>10. Counted'
  <2> SUFFICES ASSUME NEW x \in Session
               PROVE  /\ calls'[x] = Cardinality(InFlight(x)')
                      /\ Cardinality(Served(x)') <= MaxCalls
                      /\ InFlight(x)' # {} => x \in LiveSessions'
    BY DEF Counted
  <2>1. CASE x = s
    BY <1>1, <1>5, <1>6, <1>7, <1>8, <2>1 DEF Counted
  <2>2. CASE x # s
    <3>1. InFlight(x)' = InFlight(x) /\ Served(x)' = Served(x) /\ calls'[x] = calls[x]
      BY <1>1, <1>4, <2>2
    <3> QED BY <1>5, <1>9, <3>1 DEF Counted
  <2> QED BY <2>1, <2>2
<1>11. calls' \in [Session -> 0..Cardinality(Request)]
  <2>1. \A x \in Session : calls'[x] \in 0..Cardinality(Request)
    <3>1. \A x : Cardinality(InFlight(x)') \in 0..Cardinality(Request)
      <4>1. \A x : InFlight(x)' \subseteq Request
        BY DEF InFlight
      <4> QED BY <1>0, <4>1, RequestAssumption, FS_Subset, FS_CardinalityType
    <3> QED BY <1>10, <3>1 DEF Counted
  <2> QED BY <1>1, <2>1
<1> QED BY <1>2, <1>3, <1>10, <1>11 DEF Counted, CallsCounted, InFlight, Served

LEMMA ReleaseStep ==
  ASSUME CallsCounted, CallsHoldSessions, req \in [Request -> RequestRec],
         calls \in [Session -> 0..Cardinality(Request)],
         NEW r \in Request, ReleaseCall(r)
  PROVE  /\ CallsCounted' /\ CallsHoldSessions' /\ req' \in [Request -> RequestRec]
         /\ calls' \in [Session -> 0..Cardinality(Request)]
<1>0. None \notin Session /\ MaxCalls \in Nat /\ Cardinality(Request) \in Nat
  BY NoneAssumption, CapAssumption, RequestAssumption, FS_CardinalityType DEF Session
<1> PICK s \in Session : s = req[r].session
  BY DEF ReleaseCall, CallsHoldSessions, RequestRec
<1>1. /\ s \in Session
      /\ calls' = [calls EXCEPT ![s] = calls[s] - 1]
      /\ req' = [req EXCEPT ![r] = [pc |-> "answered", principal |-> None, session |-> None]]
      /\ table' = table
  BY DEF ReleaseCall, CallsHoldSessions, Becomes, At, RequestRec
<1>2. /\ req' \in [Request -> RequestRec]
      /\ req'[r].session = None /\ req'[r].pc = "answered"
      /\ \A q \in Request : q # r => req'[q] = req[q]
  BY <1>1 DEF RequestRec
<1>3. CallsHoldSessions'
  BY <1>0, <1>1, <1>2 DEF CallsHoldSessions
<1>4. /\ InFlight(s)' = InFlight(s) \ {r} /\ r \in InFlight(s)
      /\ Served(s)' \subseteq Served(s)
      /\ \A x \in Session : x # s => InFlight(x)' = InFlight(x) /\ Served(x)' = Served(x)
  BY <1>0, <1>1, <1>2 DEF InFlight, Served
<1>5. Counted
  BY CountedIs
<1>6. Cardinality(InFlight(s)') = Cardinality(InFlight(s)) - 1
  <2>1. IsFiniteSet(InFlight(s))
    BY FlightsFinite
  <2> QED BY <1>4, <2>1, FS_RemoveElement
<1>7. Cardinality(Served(s)') <= MaxCalls
  <2>1. IsFiniteSet(Served(s)) /\ Cardinality(Served(s)) <= MaxCalls
    BY <1>1, <1>5, FlightsFinite DEF Counted
  <2> QED BY <1>0, <1>4, <2>1, PartWithinCap
<1>8. LiveSessions' = LiveSessions
  BY <1>1 DEF LiveSessions
<1>9. Counted'
  <2> SUFFICES ASSUME NEW x \in Session
               PROVE  /\ calls'[x] = Cardinality(InFlight(x)')
                      /\ Cardinality(Served(x)') <= MaxCalls
                      /\ InFlight(x)' # {} => x \in LiveSessions'
    BY DEF Counted
  <2>1. CASE x = s
    <3>1. s \in LiveSessions'
      BY <1>1, <1>4, <1>5, <1>8 DEF Counted
    <3> QED BY <1>1, <1>5, <1>6, <1>7, <2>1, <3>1 DEF Counted
  <2>2. CASE x # s
    <3>1. InFlight(x)' = InFlight(x) /\ Served(x)' = Served(x) /\ calls'[x] = calls[x]
      BY <1>1, <1>4, <2>2
    <3> QED BY <1>5, <1>8, <3>1 DEF Counted
  <2> QED BY <2>1, <2>2
<1>10. calls' \in [Session -> 0..Cardinality(Request)]
  <2>1. \A x \in Session : calls'[x] \in 0..Cardinality(Request)
    <3>1. \A x : Cardinality(InFlight(x)') \in 0..Cardinality(Request)
      <4>1. \A x : InFlight(x)' \subseteq Request
        BY DEF InFlight
      <4> QED BY <1>0, <4>1, RequestAssumption, FS_Subset, FS_CardinalityType
    <3> QED BY <1>9, <3>1 DEF Counted
  <2> QED BY <1>1, <2>1
<1> QED BY <1>2, <1>3, <1>9, <1>10 DEF Counted, CallsCounted, InFlight, Served

-----------------------------------------------------------------------------
(* Every step keeps the invariant.                                         *)

(* What TypeOK says beyond the table.                                      *)
Shape ==
  /\ clock \in 0..MaxTime
  /\ calls \in [Session -> 0..Cardinality(Request)]
  /\ drawn \in 0..MaxDrawn
  /\ req \in [Request -> RequestRec]
  /\ phase \in {"up", "stopping", "draining", "down"}
  /\ janitors \in [Janitor -> {"running", "returned"}]

LEMMA ShapeIsType == TableType(table) => (TypeOK <=> Shape)
BY DEF TypeOK, Shape, TableType, RequestRec, Lists

LEMMA ServerInvParts ==
  ServerInv <=> /\ Shape /\ TableInv /\ CallsHoldSessions /\ CallsCounted /\ ShutdownInOrder
BY ShapeIsType DEF ServerInv, TableInv

LEMMA ServerInvAgain ==
  ASSUME Shape', TableInv', CallsHoldSessions', CallsCounted', ShutdownInOrder'
  PROVE  ServerInv'
BY DEF ServerInv, TypeOK, Shape, TableInv, TableType, RequestRec, Lists

LEMMA ServerInit == Init => ServerInv
<1> SUFFICES ASSUME Init PROVE ServerInv
  OBVIOUS
<1>0. /\ None \notin Session /\ None \notin Principal /\ Home \in [Principal -> Workspace]
      /\ MaxTime \in Nat /\ MaxDrawn \in Nat /\ MaxCalls \in Nat
      /\ MaxPerPrincipal \in Nat /\ MaxPerWorkspace \in Nat /\ MaxSessions \in Nat
      /\ Cardinality(Request) \in Nat
  BY NoneAssumption, CapAssumption, HomeAssumption, RequestAssumption, FS_CardinalityType DEF Session
<1>1. Cardinality({}) = 0
  BY FS_EmptySet
<1>2. /\ EmptyList \in Lists /\ Members(EmptyList) = {} /\ IsList(EmptyList)
      /\ \A S : Without(EmptyList, S) = EmptyList
  <2>1. EmptyList \in Lists /\ Members(EmptyList) = {} /\ \A S : Without(EmptyList, S) = EmptyList
    BY DEF EmptyList, Lists, Members, Without
  <2> QED BY <2>1 DEF IsList
<1>3. /\ table.owner = [s \in Session |-> None] /\ table.last = [s \in Session |-> 0]
      /\ table.all = EmptyList /\ table.own = [p \in Principal |-> EmptyList]
      /\ table.ws = [w \in Workspace |-> EmptyList]
      /\ table = [owner |-> table.owner, last |-> table.last, all |-> table.all,
                  own |-> table.own, ws |-> table.ws]
  BY DEF Init, NoSessions
<1>4. TableType(table)
  BY <1>0, <1>2, <1>3 DEF TableType
<1>5. Agrees(table)
  BY <1>2, <1>3 DEF Agrees, EmptyList
<1>6. SessionsDrawn
  BY <1>0, <1>3 DEF SessionsDrawn, Init
<1>7. CapsHold
  <2>1. /\ LiveSessions = {} /\ \A p \in Principal : OwnedBy(p) = {}
        /\ \A w \in Workspace : HomedIn(w) = {}
    BY <1>0, <1>3 DEF LiveSessions, OwnedBy, HomedIn
  <2> QED BY <1>0, <1>1, <2>1, CapsCount
<1>8. /\ req = [r \in Request |-> [pc |-> "absent", principal |-> None, session |-> None]]
      /\ calls = [s \in Session |-> 0]
  BY DEF Init, Absent, At
<1>9. Shape
  BY <1>0, <1>8 DEF Shape, Init, RequestRec
<1>10. CallsHoldSessions
  BY <1>8 DEF CallsHoldSessions
<1>11. CallsCounted
  <2>1. \A s \in Session : InFlight(s) = {} /\ Served(s) = {}
    BY <1>0, <1>8 DEF InFlight, Served
  <2> QED BY <1>0, <1>1, <1>8, <2>1, CountedIs DEF Counted
<1>12. ShutdownInOrder
  BY DEF Init, ShutdownInOrder
<1> QED BY <1>4, <1>5, <1>6, <1>7, <1>9, <1>10, <1>11, <1>12, ServerInvParts DEF TableInv

LEMMA InitializeStep ==
  ASSUME ServerInv, NEW r \in Request, Initialize(r)
  PROVE  ServerInv'
<1>0. /\ Shape /\ TableInv /\ CallsHoldSessions /\ CallsCounted /\ ShutdownInOrder
  BY ServerInvParts
<1>1. /\ req[r].pc = "admitted" /\ req[r].principal \in Principal
      /\ drawn < MaxDrawn /\ drawn' = drawn + 1 /\ drawn \in Nat
      /\ table' = AddSession(drawn + 1, req[r].principal)
      /\ Becomes(r, At("answered", None, None))
      /\ UNCHANGED <<clock, calls, phase, janitors>>
  BY <1>0, CapAssumption DEF Initialize, CallsHoldSessions, Shape
<1>2. PICK p \in Principal : p = req[r].principal
  BY <1>1
<1>3. /\ TableInv'
      /\ \A x \in MakeRoom(p).gone : ~Busy(x)
      /\ \A x \in LiveSessions : table'.owner[x] =
           IF x \in MakeRoom(p).gone THEN None ELSE table.owner[x]
  BY <1>0, <1>1, <1>2, AddStep DEF Shape
<1>4. \A s \in LiveSessions : Busy(s) => s \in LiveSessions'
  BY <1>3 DEF LiveSessions
<1>5. CallsCounted' /\ CallsHoldSessions' /\ req' \in [Request -> RequestRec]
  BY <1>0, <1>1, <1>4, QuietRequest DEF Shape
<1>6. Shape'
  BY <1>0, <1>1, <1>5, CapAssumption DEF Shape
<1>7. ShutdownInOrder'
  BY <1>0, <1>1 DEF ShutdownInOrder, Becomes
<1> QED BY <1>3, <1>5, <1>6, <1>7, ServerInvAgain

LEMMA RefusedStep ==
  ASSUME ServerInv, NEW r \in Request, NEW s \in Session, Refused(r, s)
  PROVE  ServerInv'
<1>0. /\ Shape /\ TableInv /\ CallsHoldSessions /\ CallsCounted /\ ShutdownInOrder
  BY ServerInvParts
<1>1. /\ req[r].pc = "admitted"
      /\ Becomes(r, At("answered", None, None))
      /\ UNCHANGED <<clock, calls, drawn, phase, janitors>>
      /\ table' = table \/ (~Busy(s) /\ table' = Drop(table, {s}))
  BY DEF Refused
<1>2. TableInv'
  <2>1. CASE table' = table
    BY <1>0, <1>1, <2>1 DEF TableInv, TableType, Agrees, SessionsDrawn, CapsHold, LiveSessions
  <2>2. CASE table' = Drop(table, {s})
    BY <1>0, <1>1, <2>2, DropStep DEF Shape
  <2> QED BY <1>1, <2>1, <2>2
<1>3. \A x \in LiveSessions : Busy(x) => x \in LiveSessions'
  BY <1>1 DEF LiveSessions, Drop
<1>4. CallsCounted' /\ CallsHoldSessions' /\ req' \in [Request -> RequestRec]
  BY <1>0, <1>1, <1>3, QuietRequest DEF Shape
<1>5. Shape' /\ ShutdownInOrder'
  BY <1>0, <1>1, <1>4 DEF Shape, ShutdownInOrder, Becomes
<1> QED BY <1>2, <1>4, <1>5, ServerInvAgain

LEMMA ListStep ==
  ASSUME ServerInv, NEW r \in Request, NEW s \in Session, List(r, s)
  PROVE  ServerInv'
<1>0. /\ Shape /\ TableInv /\ CallsHoldSessions /\ CallsCounted /\ ShutdownInOrder
  BY ServerInvParts
<1>1. /\ req[r].pc = "admitted" /\ req[r].principal \in Principal
      /\ table.owner[s] = req[r].principal
      /\ table' = Touch(s, req[r].principal)
      /\ Becomes(r, At("answered", None, None))
      /\ UNCHANGED <<clock, calls, drawn, phase, janitors>>
  BY <1>0 DEF List, Live, CallsHoldSessions
<1>2. TableInv' /\ table'.owner = table.owner
  BY <1>0, <1>1, TouchStep DEF Shape
<1>3. LiveSessions' = LiveSessions
  BY <1>2 DEF LiveSessions
<1>4. CallsCounted' /\ CallsHoldSessions' /\ req' \in [Request -> RequestRec]
  BY <1>0, <1>1, <1>3, QuietRequest DEF Shape
<1>5. Shape' /\ ShutdownInOrder'
  BY <1>0, <1>1, <1>4 DEF Shape, ShutdownInOrder, Becomes
<1> QED BY <1>2, <1>4, <1>5, ServerInvAgain

LEMMA CallStep ==
  ASSUME ServerInv, NEW r \in Request, NEW s \in Session, AdmitCall(r, s)
  PROVE  ServerInv'
<1>0. /\ Shape /\ TableInv /\ CallsHoldSessions /\ CallsCounted /\ ShutdownInOrder
  BY ServerInvParts
<1>1. /\ req[r].pc = "admitted" /\ req[r].principal \in Principal
      /\ table.owner[s] = req[r].principal
      /\ table' = Touch(s, req[r].principal)
      /\ UNCHANGED <<clock, drawn, phase, janitors>>
  BY <1>0 DEF AdmitCall, Live, CallsHoldSessions
<1>2. TableInv' /\ table'.owner = table.owner
  BY <1>0, <1>1, TouchStep DEF Shape
<1>3. /\ CallsCounted' /\ CallsHoldSessions' /\ req' \in [Request -> RequestRec]
      /\ calls' \in [Session -> 0..Cardinality(Request)]
  BY <1>0, <1>2, AdmitCallStep DEF Shape
<1>4. Shape' /\ ShutdownInOrder'
  BY <1>0, <1>1, <1>3 DEF Shape, ShutdownInOrder
<1> QED BY <1>2, <1>3, <1>4, ServerInvAgain

LEMMA ServerStep == ServerInv /\ [Next]_vars => ServerInv'
<1> SUFFICES ASSUME ServerInv, [Next]_vars PROVE ServerInv'
  OBVIOUS
<1>0. /\ Shape /\ TableInv /\ CallsHoldSessions /\ CallsCounted /\ ShutdownInOrder
  BY ServerInvParts
<1>1. ASSUME table' = table, clock' >= clock, clock' \in 0..MaxTime, drawn' = drawn
      PROVE  TableInv' /\ LiveSessions' = LiveSessions
  <2>1. SessionsDrawn'
    <3>1. \A s \in Session : table.last[s] \in Nat
      BY <1>0, CapAssumption DEF TableInv, TableType
    <3>2. clock \in Nat /\ clock' \in Nat
      BY <1>0, <1>1, CapAssumption DEF Shape
    <3> QED BY <1>0, <1>1, <3>1, <3>2 DEF SessionsDrawn, TableInv
  <2> QED BY <1>0, <1>1, <2>1 DEF TableInv, TableType, Agrees, CapsHold, LiveSessions
<1>2. clock' = clock => clock' >= clock /\ clock' \in 0..MaxTime
  BY <1>0, CapAssumption DEF Shape
<1>3. ASSUME NEW r \in Request, Enter(r) \/ (\E p \in Principal : Admit(r, p)) \/ Leave(r)
      PROVE  ServerInv'
  <2>1. /\ UNCHANGED <<clock, table, calls, drawn, phase, janitors>>
        /\ req[r].pc \notin {"call", "limited"}
        /\ phase = "up" \/ Becomes(r, Absent) \/ req[r].pc = "entered"
    BY <1>3 DEF Enter, Admit, Leave
  <2>2. PICK pc \in {"absent", "entered", "admitted", "answered"}, p \in Principal \union {None} :
          (pc = "admitted" => p \in Principal) /\ Becomes(r, At(pc, p, None))
    BY <1>3 DEF Enter, Admit, Leave, Absent
  <2>3. TableInv' /\ LiveSessions' = LiveSessions
    BY <1>1, <1>2, <2>1
  <2>4. CallsCounted' /\ CallsHoldSessions' /\ req' \in [Request -> RequestRec]
    BY <1>0, <2>1, <2>2, <2>3, QuietRequest DEF Shape
  <2>5. Shape'
    BY <1>0, <2>1, <2>4 DEF Shape
  <2>6. ShutdownInOrder'
    BY <1>0, <1>3, <2>1 DEF ShutdownInOrder, Becomes, Absent, At, Shape, Enter, Admit, Leave
  <2> QED BY <2>3, <2>4, <2>5, <2>6, ServerInvAgain
<1>4. ASSUME NEW r \in Request, ReleaseCall(r) PROVE ServerInv'
  <2>1. UNCHANGED <<clock, table, drawn, phase, janitors>> /\ req[r].pc # "absent"
    BY <1>4 DEF ReleaseCall
  <2>2. TableInv'
    BY <1>1, <1>2, <2>1
  <2>3. /\ CallsCounted' /\ CallsHoldSessions' /\ req' \in [Request -> RequestRec]
        /\ calls' \in [Session -> 0..Cardinality(Request)]
    BY <1>0, <1>4, ReleaseStep DEF Shape
  <2>4. Shape' /\ ShutdownInOrder'
    BY <1>0, <2>1, <2>3 DEF Shape, ShutdownInOrder
  <2> QED BY <2>2, <2>3, <2>4, ServerInvAgain
<1>5. CASE \/ \E j \in Janitor : JanitorReturns(j)
           \/ Tick \/ Stop \/ Shutdown
           \/ UNCHANGED vars
  <2>1. /\ UNCHANGED <<table, calls, drawn, req>>
        /\ clock' >= clock /\ clock' \in 0..MaxTime
    BY <1>0, <1>2, <1>5, CapAssumption
       DEF JanitorReturns, Tick, Stop, Shutdown, JanitorsAwaited, CloseBackends, vars, Shape
  <2>2. TableInv' /\ LiveSessions' = LiveSessions
    BY <1>1, <2>1
  <2>3. CallsHoldSessions' /\ CallsCounted'
    BY <1>0, <2>1, <2>2 DEF CallsHoldSessions, CallsCounted
  <2>4. Shape' /\ ShutdownInOrder'
    BY <1>0, <1>5, <2>1
       DEF Shape, ShutdownInOrder, JanitorReturns, Tick, Stop, Shutdown, JanitorsAwaited,
           CloseBackends, vars
  <2> QED BY <2>2, <2>3, <2>4, ServerInvAgain
<1> QED BY <1>3, <1>4, <1>5, InitializeStep, RefusedStep, ListStep, CallStep DEF Next, Serve

(* Whatever requests, calls in flight, the clock and a shutdown do, the    *)
(* session table, the counts and the phases of the shutdown agree.         *)
THEOREM ServerInvariant == Spec => []ServerInv
<1> QED BY ServerInit, ServerStep, PTL DEF Spec

-----------------------------------------------------------------------------
(* The properties.                                                         *)

(* The session table adds up through touches, evictions, expiry, refusals  *)
(* and calls in flight: map and lists agree in the order of last use, the  *)
(* caps hold, and the counts are those of the calls (addSessionLocked,     *)
(* touchLocked, admitCall, releaseCall).                                   *)
THEOREM TableAlwaysAddsUp == Spec => []SessionTableAddsUp
<1>1. ServerInv => SessionTableAddsUp
  BY AgreesIsIndexesAgree DEF ServerInv, TableInv, SessionTableAddsUp
<1> QED BY <1>1, ServerInvariant, PTL

(* The database pool and the object store are closed only after every      *)
(* admitted request and every janitor has returned (App.Shutdown).         *)
THEOREM BackendsAreClosedLast == Spec => []BackendsOutliveWork
<1>1. ServerInv => BackendsOutliveWork
  BY DEF ServerInv, ShutdownInOrder, BackendsOutliveWork
<1> QED BY <1>1, ServerInvariant, PTL

(* The price of a new session of p in unexpired sessions of others.        *)
LEMMA FairInitialize ==
  ASSUME ServerInv, NEW r \in Request, Initialize(r)
  PROVE  LET p == req[r].principal
             lost == {x \in LiveSessions : table'.owner[x] = None /\ ~Expired(x)}
         IN  /\ Cardinality(lost) <= 1
             /\ table'.owner[drawn'] = None => lost = {}
             /\ \A x \in lost :
                  /\ table.owner[x] # p =>
                       Cardinality(Kept(table.own[p])) < MaxPerPrincipal
                  /\ Home[table.owner[x]] # Home[p] =>
                       Cardinality(Kept(table.ws[Home[p]])) < MaxPerWorkspace
                  /\ \A y \in LiveSessions :
                       table.owner[y] = table.owner[x] /\ ~Busy(y) /\ ~Expired(y)
                         => table.last[x] <= table.last[y]
<1>0. /\ Shape /\ TableInv /\ CallsHoldSessions
      /\ TableType(table) /\ Agrees(table) /\ CapsHold
      /\ None \notin Principal
      /\ MaxPerPrincipal \in Nat /\ MaxPerWorkspace \in Nat
  BY ServerInvParts, NoneAssumption, CapAssumption DEF TableInv
<1> PICK p \in Principal : p = req[r].principal
  BY <1>0 DEF Initialize, CallsHoldSessions
<1> DEFINE gone == MakeRoom(p).gone
           lost == {x \in LiveSessions : table'.owner[x] = None /\ ~Expired(x)}
           own == table.own[p]
           ws == table.ws[Home[p]]
           all == table.all
           e1 == OwnEvicted(p)
           e2 == WsEvicted(p)
           e3 == AllEvicted(p)
<1>1. /\ gone \subseteq LiveSessions
      /\ \A x \in LiveSessions : table'.owner[x] = IF x \in gone THEN None ELSE table.owner[x]
      /\ table'.owner[drawn'] = IF MakeRoom(p).ok THEN p ELSE None
  BY <1>0, CapAssumption, AddStep DEF Initialize, Shape
<1>2. lost = {x \in gone : ~Expired(x)}
  BY <1>1 DEF LiveSessions
<1>3. \/ OwnRefuses(p) /\ MakeRoom(p).ok = FALSE /\ gone = Expiries
      \/ ~OwnRefuses(p) /\ WsRefuses(p) /\ MakeRoom(p).ok = FALSE /\ gone = AfterOwn(p)
      \/ /\ ~OwnRefuses(p) /\ ~WsRefuses(p) /\ AllRefuses(p)
         /\ MakeRoom(p).ok = FALSE /\ gone = AfterWs(p)
      \/ /\ ~OwnRefuses(p) /\ ~WsRefuses(p) /\ ~AllRefuses(p)
         /\ MakeRoom(p).ok = TRUE /\ gone = AfterWs(p) \union e3
  BY RoomCases
<1>4. /\ \A x \in Expiries : Expired(x)
      /\ \A x, y \in e1 \union e2 \union e3 : x = y
      /\ OwnRefuses(p) \/ WsRefuses(p) => e1 = {}
      /\ AllRefuses(p) => e1 \union e2 = {}
      /\ e1 \subseteq Members(own) \ Expiries /\ e2 \subseteq Members(ws) \ Expiries
      /\ e3 \subseteq Members(all) \ Expiries
  BY <1>0, RoomIsMade
<1>5. /\ \A x \in e1 : \A y \in Members(own) \ Expiries : ~Busy(y) => x \in own[y]
      /\ \A x \in e2 : \A y \in Members(ws) \ AfterOwn(p) : ~Busy(y) => x \in ws[y]
      /\ \A x \in e3 : \A y \in Members(all) \ AfterWs(p) : ~Busy(y) => x \in all[y]
  BY <1>0, RoomIsMade
<1>6. /\ ~OwnRefuses(p) => Cardinality(Members(own) \ AfterOwn(p)) < MaxPerPrincipal
      /\ ~WsRefuses(p) => Cardinality(Members(ws) \ AfterWs(p)) < MaxPerWorkspace
  BY <1>0, RoomIsMade
<1>7. AfterOwn(p) = Expiries \union e1 /\ AfterWs(p) = AfterOwn(p) \union e2
  BY DEF AfterOwn, AfterWs
<1>8. /\ Home[p] \in Workspace
      /\ Members(own) = {s \in Session : table.owner[s] = p}
      /\ Members(ws) = {s \in Session : table.owner[s] # None /\ Home[table.owner[s]] = Home[p]}
      /\ Members(all) = LiveSessions
  BY <1>0, HomeAssumption, ListMembers DEF Agrees, LiveSessions
<1>9. /\ \A y \in Session : \A x \in own[y] \union ws[y] : x \in all[y]
      /\ \A y \in Session : \A x \in all[y] : table.last[x] <= table.last[y]
  <2> DEFINE others == {s \in Session : table.owner[s] # p}
             strangers == {s \in Session : table.owner[s] # None /\ Home[table.owner[s]] # Home[p]}
  <2>1. own = Without(all, others) /\ ws = Without(all, strangers)
    BY <1>0, <1>8 DEF Agrees
  <2>2. \A y \in Session : \A x \in all[y] : table.last[x] <= table.last[y]
    BY <1>0 DEF Agrees
  <2> HIDE DEF own, ws, all, others, strangers
  <2>3. \A y \in Session : \A x \in own[y] \union ws[y] : x \in all[y]
    BY <2>1 DEF Without
  <2> QED BY <2>2, <2>3
<1>10. /\ Kept(own) \subseteq Members(own) \ Expiries /\ Kept(ws) \subseteq Members(ws) \ Expiries
       /\ Members(own) \subseteq Session /\ Members(ws) \subseteq Session
  <2>1. \A x \in Expiries : ~Busy(x) /\ Expired(x)
    BY <1>0, RoomIsMade
  <2> QED BY <2>1, <1>8 DEF Kept
<1>11. None \notin Principal
  BY <1>0
<1>12. ASSUME NEW x \in lost
       PROVE  /\ x \in e1 \union e2 \union e3
              /\ ~OwnRefuses(p) /\ ~WsRefuses(p) /\ ~AllRefuses(p) /\ MakeRoom(p).ok = TRUE
              /\ AfterWs(p) \union e3 = Expiries \union {x}
  <2> HIDE DEF gone, lost, e1, e2, e3, own, ws, all
  <2>1. x \in gone /\ x \notin Expiries
    BY <1>2, <1>4
  <2>2. ~OwnRefuses(p) /\ ~WsRefuses(p) /\ ~AllRefuses(p) /\ MakeRoom(p).ok = TRUE
        /\ gone = AfterWs(p) \union e3
    BY <1>3, <1>4, <1>7, <2>1
  <2>3. x \in e1 \union e2 \union e3
    BY <1>7, <2>1, <2>2
  <2>4. e1 \union e2 \union e3 = {x}
    BY <1>4, <2>3
  <2> QED BY <1>7, <2>2, <2>3, <2>4
<1> HIDE DEF gone, lost, e1, e2, e3, own, ws, all
<1>13. Cardinality(lost) <= 1
  <2>1. CASE lost = {}
    BY <2>1, FS_EmptySet
  <2>2. CASE lost # {}
    <3>1. PICK x \in lost : TRUE
      BY <2>2
    <3>2. \A y \in lost : y \in e1 \union e2 \union e3
      BY <1>12
    <3>3. lost = {x}
      BY <1>4, <3>1, <3>2
    <3>4. Cardinality({x}) = 1
      BY FS_Singleton
    <3> QED BY <3>3, <3>4
  <2> QED BY <2>1, <2>2
<1>14. table'.owner[drawn'] = None => lost = {}
  BY <1>1, <1>11, <1>12
<1>15. ASSUME NEW x \in lost
       PROVE  /\ table.owner[x] # p => Cardinality(Kept(own)) < MaxPerPrincipal
              /\ Home[table.owner[x]] # Home[p] => Cardinality(Kept(ws)) < MaxPerWorkspace
              /\ \A y \in LiveSessions :
                   table.owner[y] = table.owner[x] /\ ~Busy(y) /\ ~Expired(y)
                     => table.last[x] <= table.last[y]
  <2>0. /\ x \in e1 \union e2 \union e3 /\ ~OwnRefuses(p) /\ ~WsRefuses(p)
        /\ AfterWs(p) \union e3 = Expiries \union {x}
    BY <1>12
  <2>1. ASSUME table.owner[x] # p PROVE Cardinality(Kept(own)) < MaxPerPrincipal
    <3>1. e1 = {}
      BY <1>4, <1>8, <2>0, <2>1
    <3>2. Kept(own) \subseteq Members(own) \ AfterOwn(p)
      BY <1>7, <1>10, <3>1
    <3>3. IsFiniteSet(Members(own) \ AfterOwn(p))
      BY <1>10, SessionsFinite, FS_Subset
    <3>4. Cardinality(Kept(own)) <= Cardinality(Members(own) \ AfterOwn(p))
          /\ Cardinality(Kept(own)) \in Nat /\ Cardinality(Members(own) \ AfterOwn(p)) \in Nat
      BY <3>2, <3>3, FS_Subset, FS_CardinalityType
    <3> QED BY <1>0, <1>6, <2>0, <3>4
  <2>2. ASSUME Home[table.owner[x]] # Home[p] PROVE Cardinality(Kept(ws)) < MaxPerWorkspace
    <3>1. e1 = {} /\ e2 = {}
      BY <1>4, <1>8, <2>0, <2>2
    <3>2. Kept(ws) \subseteq Members(ws) \ AfterWs(p)
      BY <1>7, <1>10, <3>1
    <3>3. IsFiniteSet(Members(ws) \ AfterWs(p))
      BY <1>10, SessionsFinite, FS_Subset
    <3>4. Cardinality(Kept(ws)) <= Cardinality(Members(ws) \ AfterWs(p))
          /\ Cardinality(Kept(ws)) \in Nat /\ Cardinality(Members(ws) \ AfterWs(p)) \in Nat
      BY <3>2, <3>3, FS_Subset, FS_CardinalityType
    <3> QED BY <1>0, <1>6, <2>0, <3>4
  <2>3. ASSUME NEW y \in LiveSessions, table.owner[y] = table.owner[x], ~Busy(y), ~Expired(y)
        PROVE  table.last[x] <= table.last[y]
    <3>0. y \in Session /\ y \notin Expiries
      BY <1>4, <2>3 DEF LiveSessions
    <3>1. CASE y = x
      <4>1. table.last[x] \in Nat
        BY <1>0, <3>0, <3>1, CapAssumption DEF TableType
      <4> QED BY <3>1, <4>1
    <3>2. CASE y # x
      <4>1. y \notin AfterWs(p) /\ y \notin AfterOwn(p)
        BY <1>7, <2>0, <3>0, <3>2
      <4>2. CASE x \in e1
        BY <1>4, <1>5, <1>8, <1>9, <2>3, <3>0, <4>2
      <4>3. CASE x \in e2
        BY <1>4, <1>5, <1>8, <1>9, <2>3, <3>0, <4>1, <4>3
      <4>4. CASE x \in e3
        BY <1>4, <1>5, <1>8, <1>9, <2>3, <3>0, <4>1, <4>4
      <4> QED BY <2>0, <4>2, <4>3, <4>4
    <3> QED BY <3>1, <3>2
  <2> QED BY <2>1, <2>2, <2>3
<1> QED BY <1>13, <1>14, <1>15 DEF lost, own, ws

(* A new session costs at most one unexpired idle session, none when it is *)
(* refused, another principal's or workspace's only while the caller's own *)
(* caps have room, and the least recently used of its owner's idle ones    *)
(* (addSessionLocked, evictIdleLocked).                                    *)
THEOREM EvictionsStayFair == Spec => EvictionsAreFair
<1> DEFINE Fair ==
      \A r \in Request : drawn' # drawn /\ req'[r] # req[r] =>
       LET p == req[r].principal
           lost == {x \in LiveSessions : table'.owner[x] = None /\ ~Expired(x)}
       IN  /\ Cardinality(lost) <= 1
           /\ table'.owner[drawn'] = None => lost = {}
           /\ \A x \in lost :
                /\ table.owner[x] # p =>
                     Cardinality(Kept(table.own[p])) < MaxPerPrincipal
                /\ Home[table.owner[x]] # Home[p] =>
                     Cardinality(Kept(table.ws[Home[p]])) < MaxPerWorkspace
                /\ \A y \in LiveSessions :
                     table.owner[y] = table.owner[x] /\ ~Busy(y) /\ ~Expired(y)
                       => table.last[x] <= table.last[y]
<1>1. ServerInv /\ [Next]_vars => Fair
  <2> SUFFICES ASSUME ServerInv, [Next]_vars, drawn' # drawn, NEW r \in Request, req'[r] # req[r]
               PROVE  Initialize(r)
    BY FairInitialize
  <2>1. PICK q \in Request : Initialize(q)
    BY DEF Next, Serve, Enter, Admit, Leave, ReleaseCall, Refused, List, AdmitCall,
           JanitorReturns, Tick, Stop, Shutdown, JanitorsAwaited, CloseBackends, vars
  <2>2. q = r
    BY <2>1 DEF Initialize, Becomes, ServerInv, TypeOK
  <2> QED BY <2>1, <2>2
<1>2. Spec => [][Fair]_vars
  BY <1>1, ServerInvariant, PTL DEF Spec
<1> QED BY <1>2, PTL DEF EvictionsAreFair
==============================================================================
