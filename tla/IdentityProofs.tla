--------------------------- MODULE IdentityProofs ---------------------------
(***************************************************************************)
(* Who the registry takes a caller for.  People: every session and every   *)
(* membership is backed by what one use of a flow and an invitation gave,  *)
(* for every number of accounts, flows, invitations and concurrent         *)
(* callbacks.  Workloads: keys rotate and processes restart, but a token   *)
(* outlives neither.  Delegated issuers: whatever one does wrong, the row  *)
(* of the checklist that asks about it fails, and nothing is delegated.    *)
(***************************************************************************)
EXTENDS Enrollment, SigningKeys, IssuerQualification, SequenceTheorems,
        FiniteSetTheorems, TLAPS

-----------------------------------------------------------------------------
(* Operator enrollment. *)

(* A callback at work, and a session, belong to a flow that is consumed:   *)
(* no other request can take it.                                           *)
CallbacksHoldFlows ==
  /\ \A c \in Callback :
       /\ cb[c].pc = "idle" => cb[c].flow = None
       /\ cb[c].pc # "idle" => cb[c].flow \in Flow /\ flows[cb[c].flow] = "consumed"
       /\ cb[c].pc \in {"lookup", "admit", "issue"} => cb[c].account \in Account
  /\ \A s \in sessions : flows[s.flow] = "consumed"

(* A written or checked invitation is for a real role, by an account.      *)
InvitesNameRoles ==
  \A i \in Invitation : invites[i].state # "unused" =>
    invites[i].role # "none" /\ invites[i].by \in Account

(* The inductive invariant.                                                *)
IInv ==
  /\ TypeOK
  /\ CallbacksHoldFlows
  /\ InvitesNameRoles
  /\ OneSessionPerFlow
  /\ AdmissionsAreBacked
  /\ NoEscalation
  /\ SessionsAreMembers

(* Changing the state or the expiry of an invitation keeps it a row.       *)
LEMMA RowUpdate ==
  ASSUME NEW v \in InvitationRow, NEW st \in {"open", "consumed"}
  PROVE  /\ [v EXCEPT !.state = st] \in InvitationRow
         /\ [v EXCEPT !.expired = TRUE] \in InvitationRow
BY DEF InvitationRow

(* The initial state satisfies the invariant.                              *)
LEMMA InitIInv == Init => IInv
<1> SUFFICES ASSUME Init PROVE IInv
  OBVIOUS
<1> USE NoneAssumption DEF Init
<1>1. TypeOK
  BY DEF TypeOK, InvitationRow, NoInvitation, NoMember, Idle
<1>2. CallbacksHoldFlows
  BY DEF CallbacksHoldFlows, Idle
<1>3. OneSessionPerFlow
  BY DEF OneSessionPerFlow, Idle
<1>4. AdmissionsAreBacked
  BY DEF AdmissionsAreBacked, Enrolled, Redeemed, NoMember, NoInvitation
<1>5. NoEscalation
  BY DEF NoEscalation, NoMember, NoInvitation
<1>6. SessionsAreMembers
  BY DEF SessionsAreMembers, Idle
<1>7. InvitesNameRoles
  BY DEF InvitesNameRoles, NoInvitation
<1> QED BY <1>1, <1>2, <1>3, <1>4, <1>5, <1>6, <1>7 DEF IInv

(* Start preserves the invariant.                                    *)
LEMMA StartStep ==
  ASSUME IInv, NEW f \in Flow, NEW i \in Invitation \union {None}, Start(f, i)
  PROVE  IInv'
<1> USE NoneAssumption
<1>1. TypeOK'
  BY DEF IInv, TypeOK, Start
<1>2. CallbacksHoldFlows'
  BY <1>1 DEF IInv, TypeOK, CallbacksHoldFlows, Start
<1>3. InvitesNameRoles'
  BY DEF IInv, InvitesNameRoles, Start
<1>4. OneSessionPerFlow'
  BY DEF IInv, OneSessionPerFlow, Start
<1>5. AdmissionsAreBacked'
  BY DEF IInv, AdmissionsAreBacked, Start, Enrolled, Founded, Invited, Redeemed
<1>6. NoEscalation'
  BY DEF IInv, NoEscalation, Start, Enrolled
<1>7. SessionsAreMembers'
  BY DEF IInv, SessionsAreMembers, Start, Enrolled
<1> QED BY <1>1, <1>2, <1>3, <1>4, <1>5, <1>6, <1>7 DEF IInv

(* FlowExpires preserves the invariant.                              *)
LEMMA FlowExpiresStep ==
  ASSUME IInv, NEW f \in Flow, FlowExpires(f)
  PROVE  IInv'
<1> USE NoneAssumption
<1>1. TypeOK'
  BY DEF IInv, TypeOK, FlowExpires
<1>2. CallbacksHoldFlows'
  BY <1>1 DEF IInv, TypeOK, CallbacksHoldFlows, FlowExpires
<1>3. InvitesNameRoles'
  BY DEF IInv, InvitesNameRoles, FlowExpires
<1>4. OneSessionPerFlow'
  BY DEF IInv, OneSessionPerFlow, FlowExpires
<1>5. AdmissionsAreBacked'
  BY DEF IInv, AdmissionsAreBacked, FlowExpires, Enrolled, Founded, Invited, Redeemed
<1>6. NoEscalation'
  BY DEF IInv, NoEscalation, FlowExpires, Enrolled
<1>7. SessionsAreMembers'
  BY DEF IInv, SessionsAreMembers, FlowExpires, Enrolled
<1> QED BY <1>1, <1>2, <1>3, <1>4, <1>5, <1>6, <1>7 DEF IInv

(* ConsumeFlow preserves the invariant.                              *)
LEMMA ConsumeFlowStep ==
  ASSUME IInv, NEW c \in Callback, NEW f \in Flow, ConsumeFlow(c, f)
  PROVE  IInv'
<1> USE NoneAssumption
<1>1. TypeOK'
  BY DEF IInv, TypeOK, ConsumeFlow, Idle
<1>2. CallbacksHoldFlows'
  BY <1>1 DEF IInv, TypeOK, CallbacksHoldFlows, ConsumeFlow, Idle
<1>3. InvitesNameRoles'
  BY DEF IInv, InvitesNameRoles, ConsumeFlow
<1>4. OneSessionPerFlow'
  BY <1>1 DEF IInv, TypeOK, OneSessionPerFlow, ConsumeFlow, Idle, CallbacksHoldFlows
<1>5. AdmissionsAreBacked'
  BY DEF IInv, AdmissionsAreBacked, ConsumeFlow, Enrolled, Founded, Invited, Redeemed
<1>6. NoEscalation'
  BY DEF IInv, NoEscalation, ConsumeFlow, Enrolled
<1>7. SessionsAreMembers'
  BY <1>1 DEF IInv, TypeOK, SessionsAreMembers, ConsumeFlow, Idle, Enrolled
<1> QED BY <1>1, <1>2, <1>3, <1>4, <1>5, <1>6, <1>7 DEF IInv

(* Identify preserves the invariant.                                 *)
LEMMA IdentifyStep ==
  ASSUME IInv, NEW c \in Callback, NEW a \in Account, Identify(c, a)
  PROVE  IInv'
<1> USE NoneAssumption
<1>1. TypeOK'
  <2>1. cb[c].flow \in Flow
    BY DEF IInv, CallbacksHoldFlows, Identify
  <2>2. (cookie[cb[c].flow] # None /\ ~invites[cookie[cb[c].flow]].expired) \in BOOLEAN
    OBVIOUS
  <2>3. cb' \in [Callback ->
           [pc : {"idle", "identify", "lookup", "admit", "issue"},
            flow : Flow \union {None}, account : Account \union {None}, inTime : BOOLEAN]]
    BY <2>1, <2>2 DEF IInv, TypeOK, Identify
  <2> QED BY <2>3 DEF IInv, TypeOK, Identify
<1>2. CallbacksHoldFlows'
  <2>1. cb'[c].pc = "lookup" /\ cb'[c].flow = cb[c].flow /\ cb'[c].account = a
    BY DEF IInv, TypeOK, Identify
  <2>2. \A d \in Callback \ {c} : cb'[d] = cb[d]
    BY DEF IInv, TypeOK, Identify
  <2>3. cb[c].pc = "identify" /\ UNCHANGED <<flows, sessions>>
    BY DEF Identify
  <2> QED BY <2>1, <2>2, <2>3 DEF IInv, CallbacksHoldFlows
<1>3. InvitesNameRoles'
  BY DEF IInv, InvitesNameRoles, Identify
<1>4. OneSessionPerFlow'
  BY <1>1 DEF IInv, TypeOK, OneSessionPerFlow, Identify, CallbacksHoldFlows
<1>5. AdmissionsAreBacked'
  BY DEF IInv, AdmissionsAreBacked, Identify, Enrolled, Founded, Invited, Redeemed
<1>6. NoEscalation'
  BY DEF IInv, NoEscalation, Identify, Enrolled
<1>7. SessionsAreMembers'
  BY <1>1 DEF IInv, TypeOK, SessionsAreMembers, Identify, Enrolled
<1> QED BY <1>1, <1>2, <1>3, <1>4, <1>5, <1>6, <1>7 DEF IInv

(* GiveUp preserves the invariant.                                   *)
LEMMA GiveUpStep ==
  ASSUME IInv, NEW c \in Callback, GiveUp(c)
  PROVE  IInv'
<1> USE NoneAssumption
<1>1. TypeOK'
  BY DEF IInv, TypeOK, GiveUp, Idle
<1>2. CallbacksHoldFlows'
  BY <1>1 DEF IInv, TypeOK, CallbacksHoldFlows, GiveUp, Idle
<1>3. InvitesNameRoles'
  BY DEF IInv, InvitesNameRoles, GiveUp
<1>4. OneSessionPerFlow'
  BY <1>1 DEF IInv, TypeOK, OneSessionPerFlow, GiveUp, Idle, CallbacksHoldFlows
<1>5. AdmissionsAreBacked'
  BY DEF IInv, AdmissionsAreBacked, GiveUp, Enrolled, Founded, Invited, Redeemed
<1>6. NoEscalation'
  BY DEF IInv, NoEscalation, GiveUp, Enrolled
<1>7. SessionsAreMembers'
  BY <1>1 DEF IInv, TypeOK, SessionsAreMembers, GiveUp, Idle, Enrolled
<1> QED BY <1>1, <1>2, <1>3, <1>4, <1>5, <1>6, <1>7 DEF IInv

(* Lookup preserves the invariant.                                   *)
LEMMA LookupStep ==
  ASSUME IInv, NEW c \in Callback, Lookup(c)
  PROVE  IInv'
<1> USE NoneAssumption
<1>1. TypeOK'
  BY DEF IInv, TypeOK, Lookup, Enrolled, Idle
<1>2. CallbacksHoldFlows'
  BY <1>1 DEF IInv, TypeOK, CallbacksHoldFlows, Lookup, Enrolled, Idle
<1>3. InvitesNameRoles'
  BY DEF IInv, InvitesNameRoles, Lookup
<1>4. OneSessionPerFlow'
  BY <1>1 DEF IInv, TypeOK, OneSessionPerFlow, Lookup, Enrolled, Idle, CallbacksHoldFlows
<1>5. AdmissionsAreBacked'
  BY DEF IInv, AdmissionsAreBacked, Lookup, Enrolled, Founded, Invited, Redeemed
<1>6. NoEscalation'
  BY DEF IInv, NoEscalation, Lookup, Enrolled
<1>7. SessionsAreMembers'
  BY <1>1 DEF IInv, TypeOK, SessionsAreMembers, Lookup, Enrolled, Idle, CallbacksHoldFlows
<1> QED BY <1>1, <1>2, <1>3, <1>4, <1>5, <1>6, <1>7 DEF IInv

(* Redeem preserves the invariant.                                   *)
LEMMA RedeemStep ==
  ASSUME IInv, NEW c \in Callback, Redeem(c)
  PROVE  IInv'
<1> USE NoneAssumption
<1>1. TypeOK'
  <2>0. PICK i \in Invitation, a \in Account : i = cookie[cb[c].flow] /\ a = cb[c].account
    BY DEF IInv, TypeOK, CallbacksHoldFlows, Redeem
  <2>2. invites' = [invites EXCEPT ![i].state = "consumed"]
    BY <2>0 DEF Redeem
  <2>3. members' = [members EXCEPT ![a] =
           [role |-> invites[i].role, scopes |-> invites[i].scopes, active |-> TRUE]]
    BY <2>0 DEF Redeem
  <2>4. invites' \in [Invitation -> InvitationRow]
    BY <2>0, <2>2, RowUpdate DEF IInv, TypeOK
  <2>5. members' \in [Account ->
           [role : {"none", "reader", "maintainer"}, scopes : SUBSET Scope,
            active : BOOLEAN]]
    <3>1. invites[i].role \in {"none", "reader", "maintainer"} /\ invites[i].scopes \in SUBSET Scope
      BY <2>0 DEF IInv, TypeOK, InvitationRow
    <3> QED BY <2>0, <2>3, <3>1 DEF IInv, TypeOK
  <2>6. cb' \in [Callback ->
           [pc : {"idle", "identify", "lookup", "admit", "issue"},
            flow : Flow \union {None}, account : Account \union {None}, inTime : BOOLEAN]]
    BY DEF IInv, TypeOK, Redeem
  <2> QED BY <2>4, <2>5, <2>6 DEF IInv, TypeOK, Redeem
<1>2. CallbacksHoldFlows'
  BY <1>1 DEF IInv, TypeOK, CallbacksHoldFlows, Redeem, Redeemable, Enrolled
<1>3. InvitesNameRoles'
  BY <1>1 DEF IInv, TypeOK, InvitesNameRoles, Redeem, Redeemable, Enrolled
<1>4. OneSessionPerFlow'
  BY <1>1 DEF IInv, TypeOK, OneSessionPerFlow, Redeem, Redeemable, Enrolled, CallbacksHoldFlows
<1>5. AdmissionsAreBacked'
  <2>0. PICK i \in Invitation, a \in Account : i = cookie[cb[c].flow] /\ a = cb[c].account
    BY DEF IInv, TypeOK, CallbacksHoldFlows, Redeem
  <2>2. invites[i].state = "open" /\ invites[i].account = a /\ ~Enrolled(a)
    BY <2>0 DEF Redeem, Redeemable
  <2>3. /\ invites'[i] = [invites[i] EXCEPT !.state = "consumed"]
        /\ \A j \in Invitation \ {i} : invites'[j] = invites[j]
    BY <2>0 DEF IInv, TypeOK, Redeem
  <2>4. /\ members'[a] =
             [role |-> invites[i].role, scopes |-> invites[i].scopes, active |-> TRUE]
        /\ \A b \in Account \ {a} : members'[b] = members[b]
    BY <2>0 DEF IInv, TypeOK, Redeem
  <2>5. /\ invites'[i].state = "consumed" /\ invites'[i].account = a
        /\ invites'[i].role = invites[i].role /\ invites'[i].scopes = invites[i].scopes
        /\ invites'[i].by = invites[i].by
    BY <2>0, <2>2, <2>3 DEF IInv, TypeOK, InvitationRow
  <2>6. bootstrap' = bootstrap /\ workspace' = workspace
    BY DEF Redeem
  <2>7. invites[i].role # "none"
    BY <2>0, <2>2 DEF IInv, InvitesNameRoles
  <2>8. Redeemed(a) = {} /\ bootstrap # a
    BY <2>0, <2>2 DEF IInv, AdmissionsAreBacked
  <2>9. Redeemed(a)' = {i}
    <3>1. \A j \in Invitation \ {i} : ~(invites'[j].state = "consumed" /\ invites'[j].account = a)
      BY <2>3, <2>8 DEF Redeemed
    <3> QED BY <2>0, <2>5, <3>1 DEF Redeemed
  <2>10. Invited(a)' /\ Enrolled(a)'
    BY <2>0, <2>4, <2>5, <2>6, <2>7, <2>8, <2>9 DEF Invited, Enrolled
  <2>11. ASSUME NEW b \in Account, b # a
         PROVE  /\ Redeemed(b)' = Redeemed(b) /\ members'[b] = members[b]
                /\ i \notin Redeemed(b)
    <3>1. \A j \in Invitation : (invites'[j].state = "consumed" /\ invites'[j].account = b)
                                 <=> (invites[j].state = "consumed" /\ invites[j].account = b)
      BY <2>2, <2>3, <2>5, <2>11
    <3>2. Redeemed(b)' = Redeemed(b)
      BY <3>1 DEF Redeemed
    <3>3. members'[b] = members[b] /\ i \notin Redeemed(b)
      BY <2>2, <2>4, <2>11 DEF Redeemed
    <3> QED BY <3>2, <3>3
  <2>12. ASSUME NEW b \in Account, b # a
         PROVE  /\ Enrolled(b)' <=> Enrolled(b)
                /\ Founded(b) => Founded(b)'
                /\ Invited(b) => Invited(b)'
    <3>1. \A j \in Redeemed(b) : j # i /\ invites'[j] = invites[j]
      BY <2>3, <2>11, <2>12 DEF Redeemed
    <3> QED BY <2>6, <2>11, <2>12, <3>1 DEF Founded, Invited, Enrolled
  <2> QED BY <2>6, <2>10, <2>11, <2>12 DEF IInv, AdmissionsAreBacked
<1>6. NoEscalation'
  <2>0. PICK i \in Invitation, a \in Account : i = cookie[cb[c].flow] /\ a = cb[c].account
    BY DEF IInv, TypeOK, CallbacksHoldFlows, Redeem
  <2>2. invites[i].state = "open" /\ invites[i].account = a /\ ~Enrolled(a)
    BY <2>0 DEF Redeem, Redeemable
  <2>3. /\ invites'[i] = [invites[i] EXCEPT !.state = "consumed"]
        /\ \A j \in Invitation \ {i} : invites'[j] = invites[j]
    BY <2>0 DEF IInv, TypeOK, Redeem
  <2>4. /\ members'[a] =
             [role |-> invites[i].role, scopes |-> invites[i].scopes, active |-> TRUE]
        /\ \A b \in Account \ {a} : members'[b] = members[b]
    BY <2>0 DEF IInv, TypeOK, Redeem
  <2>5. /\ invites'[i].state = "consumed" /\ invites'[i].account = a
        /\ invites'[i].role = invites[i].role /\ invites'[i].scopes = invites[i].scopes
        /\ invites'[i].by = invites[i].by
    BY <2>0, <2>2, <2>3 DEF IInv, TypeOK, InvitationRow
  <2>6. invites[i].scopes \subseteq BootstrapScopes
    BY <2>0, <2>2 DEF IInv, NoEscalation
  <2>7. \A b \in Account : Enrolled(b) => Enrolled(b)'
    BY <2>2, <2>4 DEF Enrolled
  <2>8. \A j \in Invitation : invites[j].state # "unused" => invites[j].by \in Account
    BY DEF IInv, InvitesNameRoles
  <2>9. ASSUME NEW b \in Account PROVE members'[b].scopes \subseteq BootstrapScopes
    BY <2>4, <2>6 DEF IInv, NoEscalation
  <2>10. ASSUME NEW j \in Invitation, invites'[j].state # "unused"
         PROVE  invites'[j].scopes \subseteq BootstrapScopes /\ (Enrolled(invites[j].by))'
    <3>1. /\ invites[j].state # "unused" /\ invites'[j].scopes = invites[j].scopes
          /\ invites'[j].by = invites[j].by
      BY <2>2, <2>3, <2>5, <2>10
    <3>2. invites[j].scopes \subseteq BootstrapScopes /\ Enrolled(invites[j].by)
      BY <3>1 DEF IInv, NoEscalation
    <3> QED BY <2>7, <2>8, <3>1, <3>2 DEF Enrolled
  <2> QED BY <2>9, <2>10 DEF NoEscalation, Enrolled
<1>7. SessionsAreMembers'
  <2>0. PICK i \in Invitation, a \in Account : i = cookie[cb[c].flow] /\ a = cb[c].account
    BY DEF IInv, TypeOK, CallbacksHoldFlows, Redeem
  <2>2. invites[i].state = "open" /\ invites[i].account = a /\ ~Enrolled(a)
    BY <2>0 DEF Redeem, Redeemable
  <2>3. /\ invites'[i] = [invites[i] EXCEPT !.state = "consumed"]
        /\ \A j \in Invitation \ {i} : invites'[j] = invites[j]
    BY <2>0 DEF IInv, TypeOK, Redeem
  <2>4. /\ members'[a] =
             [role |-> invites[i].role, scopes |-> invites[i].scopes, active |-> TRUE]
        /\ \A b \in Account \ {a} : members'[b] = members[b]
    BY <2>0 DEF IInv, TypeOK, Redeem
  <2>5. /\ invites'[i].state = "consumed" /\ invites'[i].account = a
        /\ invites'[i].role = invites[i].role /\ invites'[i].scopes = invites[i].scopes
        /\ invites'[i].by = invites[i].by
    BY <2>0, <2>2, <2>3 DEF IInv, TypeOK, InvitationRow
  <2>6. sessions' = sessions /\ \A d \in Callback : cb'[d].account = cb[d].account
    BY DEF IInv, TypeOK, Redeem
  <2>7. \A d \in Callback \ {c} : cb'[d] = cb[d]
    BY DEF IInv, TypeOK, Redeem
  <2>8. invites[i].role # "none"
    BY <2>0, <2>2 DEF IInv, InvitesNameRoles
  <2>9. (Enrolled(cb[c].account))' /\ \A b \in Account : Enrolled(b) => Enrolled(b)'
    BY <2>0, <2>4, <2>6, <2>8 DEF Enrolled
  <2>10. \A s \in sessions : s.account \in Account
    BY DEF IInv, TypeOK
  <2>11. \A d \in Callback : cb[d].pc = "issue" => cb[d].account \in Account
    BY DEF IInv, CallbacksHoldFlows
  <2> QED BY <2>6, <2>7, <2>9, <2>10, <2>11 DEF IInv, SessionsAreMembers, Enrolled
<1> QED BY <1>1, <1>2, <1>3, <1>4, <1>5, <1>6, <1>7 DEF IInv

(* Found preserves the invariant.                                    *)
LEMMA FoundStep ==
  ASSUME IInv, NEW c \in Callback, Found(c)
  PROVE  IInv'
<1> USE NoneAssumption
<1>1. TypeOK'
  BY ScopeAssumption, FounderAssumption DEF IInv, TypeOK, Found, Enrolled
<1>2. CallbacksHoldFlows'
  BY <1>1, ScopeAssumption, FounderAssumption DEF IInv, TypeOK, CallbacksHoldFlows, Found, Enrolled
<1>3. InvitesNameRoles'
  BY DEF IInv, InvitesNameRoles, Found
<1>4. OneSessionPerFlow'
  BY <1>1, ScopeAssumption, FounderAssumption DEF IInv, TypeOK, OneSessionPerFlow, Found, Enrolled, CallbacksHoldFlows
<1>5. AdmissionsAreBacked'
  BY <1>1, ScopeAssumption, FounderAssumption DEF IInv, TypeOK, AdmissionsAreBacked, Found, Enrolled, Founded, Invited, Redeemed, CallbacksHoldFlows
<1>6. NoEscalation'
  BY <1>1, ScopeAssumption, FounderAssumption DEF IInv, TypeOK, NoEscalation, Found, Enrolled
<1>7. SessionsAreMembers'
  BY <1>1, ScopeAssumption, FounderAssumption DEF IInv, TypeOK, SessionsAreMembers, Found, Enrolled, CallbacksHoldFlows
<1> QED BY <1>1, <1>2, <1>3, <1>4, <1>5, <1>6, <1>7 DEF IInv

(* Issue preserves the invariant.                                    *)
LEMMA IssueStep ==
  ASSUME IInv, NEW c \in Callback, Issue(c)
  PROVE  IInv'
<1> USE NoneAssumption
<1>1. TypeOK'
  <2>1. cb[c].flow \in Flow /\ cb[c].account \in Account
    BY DEF IInv, CallbacksHoldFlows, Issue
  <2>2. sessions' \subseteq [flow : Flow, account : Account]
    BY <2>1 DEF IInv, TypeOK, Issue
  <2>3. cb' \in [Callback ->
           [pc : {"idle", "identify", "lookup", "admit", "issue"},
            flow : Flow \union {None}, account : Account \union {None}, inTime : BOOLEAN]]
    BY DEF IInv, TypeOK, Issue, Idle
  <2> QED BY <2>2, <2>3 DEF IInv, TypeOK, Issue
<1>2. CallbacksHoldFlows'
  BY <1>1 DEF IInv, TypeOK, CallbacksHoldFlows, Issue, Idle
<1>3. InvitesNameRoles'
  BY DEF IInv, InvitesNameRoles, Issue
<1>4. OneSessionPerFlow'
  BY <1>1 DEF IInv, TypeOK, OneSessionPerFlow, Issue, Idle, CallbacksHoldFlows
<1>5. AdmissionsAreBacked'
  BY DEF IInv, AdmissionsAreBacked, Issue, Enrolled, Founded, Invited, Redeemed
<1>6. NoEscalation'
  BY DEF IInv, NoEscalation, Issue, Enrolled
<1>7. SessionsAreMembers'
  BY <1>1 DEF IInv, TypeOK, SessionsAreMembers, Issue, Idle, Enrolled, CallbacksHoldFlows
<1> QED BY <1>1, <1>2, <1>3, <1>4, <1>5, <1>6, <1>7 DEF IInv

(* CheckInvitation preserves the invariant.                          *)
LEMMA CheckInvitationStep ==
  ASSUME IInv, NEW i \in Invitation, NEW actor \in Account, NEW a \in Account,
                NEW role \in {"reader", "maintainer"}, NEW scopes \in SUBSET Scope, CheckInvitation(i, actor, a, role, scopes)
  PROVE  IInv'
<1> USE NoneAssumption
<1>1. TypeOK'
  BY DEF IInv, TypeOK, CheckInvitation, Enrolled, InvitationRow
<1>2. CallbacksHoldFlows'
  BY DEF IInv, CallbacksHoldFlows, CheckInvitation
<1>3. InvitesNameRoles'
  BY <1>1 DEF IInv, TypeOK, InvitesNameRoles, CheckInvitation, Enrolled, InvitationRow
<1>4. OneSessionPerFlow'
  BY DEF IInv, OneSessionPerFlow, CheckInvitation
<1>5. AdmissionsAreBacked'
  <2>1. \A j \in Invitation \ {i} : invites'[j] = invites[j]
    BY DEF IInv, TypeOK, InvitationRow, CheckInvitation, NoInvitation
  <2>2. invites[i].state # "consumed" /\ invites'[i].state # "consumed"
    BY DEF IInv, TypeOK, InvitationRow, CheckInvitation, NoInvitation
  <2>3. UNCHANGED <<members, bootstrap, workspace>>
    BY DEF CheckInvitation
  <2>4. ASSUME NEW a0 \in Account PROVE Redeemed(a0)' = Redeemed(a0)
    BY <2>1, <2>2 DEF Redeemed
  <2>5. ASSUME NEW a0 \in Account
        PROVE  Enrolled(a0)' = Enrolled(a0) /\ (Founded(a0) => Founded(a0)')
    BY <2>3, <2>4 DEF Enrolled, Founded
  <2>6. ASSUME NEW a0 \in Account, Invited(a0) PROVE Invited(a0)'
    <3>1. \A j \in Redeemed(a0) : invites'[j] = invites[j]
      BY <2>1, <2>2 DEF Redeemed
    <3> QED BY <2>3, <2>4, <2>6, <3>1 DEF Invited
  <2> QED BY <2>3, <2>4, <2>5, <2>6 DEF IInv, AdmissionsAreBacked
<1>6. NoEscalation'
  BY <1>1 DEF IInv, TypeOK, NoEscalation, CheckInvitation, Enrolled, InvitationRow
<1>7. SessionsAreMembers'
  BY DEF IInv, SessionsAreMembers, CheckInvitation, Enrolled
<1> QED BY <1>1, <1>2, <1>3, <1>4, <1>5, <1>6, <1>7 DEF IInv

(* EndInvitation preserves the invariant.                            *)
LEMMA EndInvitationStep ==
  ASSUME IInv, NEW i \in Invitation, EndInvitation(i)
  PROVE  IInv'
<1> USE NoneAssumption
<1>1. TypeOK'
  <2>1. CASE invites' = [invites EXCEPT ![i].state = "open"]
    <3>1. invites' \in [Invitation -> InvitationRow]
      BY <2>1, RowUpdate DEF IInv, TypeOK
    <3> QED BY <3>1 DEF IInv, TypeOK, EndInvitation
  <2>2. CASE invites' = [invites EXCEPT ![i] = NoInvitation]
    <3>1. NoInvitation \in InvitationRow
      BY DEF NoInvitation, InvitationRow
    <3>2. invites' \in [Invitation -> InvitationRow]
      BY <2>2, <3>1 DEF IInv, TypeOK
    <3> QED BY <3>2 DEF IInv, TypeOK, EndInvitation
  <2> QED BY <2>1, <2>2 DEF EndInvitation
<1>2. CallbacksHoldFlows'
  BY DEF IInv, CallbacksHoldFlows, EndInvitation
<1>3. InvitesNameRoles'
  BY <1>1 DEF IInv, TypeOK, InvitesNameRoles, EndInvitation, NoInvitation, InvitationRow
<1>4. OneSessionPerFlow'
  BY DEF IInv, OneSessionPerFlow, EndInvitation
<1>5. AdmissionsAreBacked'
  <2>1. \A j \in Invitation \ {i} : invites'[j] = invites[j]
    BY DEF IInv, TypeOK, InvitationRow, EndInvitation, NoInvitation
  <2>2. invites[i].state # "consumed" /\ invites'[i].state # "consumed"
    BY DEF IInv, TypeOK, InvitationRow, EndInvitation, NoInvitation
  <2>3. UNCHANGED <<members, bootstrap, workspace>>
    BY DEF EndInvitation
  <2>4. ASSUME NEW a0 \in Account PROVE Redeemed(a0)' = Redeemed(a0)
    BY <2>1, <2>2 DEF Redeemed
  <2>5. ASSUME NEW a0 \in Account
        PROVE  Enrolled(a0)' = Enrolled(a0) /\ (Founded(a0) => Founded(a0)')
    BY <2>3, <2>4 DEF Enrolled, Founded
  <2>6. ASSUME NEW a0 \in Account, Invited(a0) PROVE Invited(a0)'
    <3>1. \A j \in Redeemed(a0) : invites'[j] = invites[j]
      BY <2>1, <2>2 DEF Redeemed
    <3> QED BY <2>3, <2>4, <2>6, <3>1 DEF Invited
  <2> QED BY <2>3, <2>4, <2>5, <2>6 DEF IInv, AdmissionsAreBacked
<1>6. NoEscalation'
  <2>1. \A j \in Invitation \ {i} : invites'[j] = invites[j]
    BY DEF IInv, TypeOK, InvitationRow, EndInvitation, NoInvitation
  <2>2. \/ /\ invites'[i].state = "open" /\ invites[i].state = "checked"
           /\ invites'[i].by = invites[i].by /\ invites'[i].scopes = invites[i].scopes
        \/ invites'[i].state = "unused"
    BY DEF IInv, TypeOK, InvitationRow, EndInvitation, NoInvitation
  <2>3. members' = members
    BY DEF EndInvitation
  <2> QED BY <2>1, <2>2, <2>3 DEF IInv, NoEscalation, Enrolled
<1>7. SessionsAreMembers'
  BY DEF IInv, SessionsAreMembers, EndInvitation, Enrolled
<1> QED BY <1>1, <1>2, <1>3, <1>4, <1>5, <1>6, <1>7 DEF IInv

(* InvitationExpires preserves the invariant.                        *)
LEMMA InvitationExpiresStep ==
  ASSUME IInv, NEW i \in Invitation, InvitationExpires(i)
  PROVE  IInv'
<1> USE NoneAssumption
<1>1. TypeOK'
  <2>1. invites' \in [Invitation -> InvitationRow]
    BY RowUpdate DEF IInv, TypeOK, InvitationExpires
  <2> QED BY <2>1 DEF IInv, TypeOK, InvitationExpires
<1>2. CallbacksHoldFlows'
  BY DEF IInv, CallbacksHoldFlows, InvitationExpires
<1>3. InvitesNameRoles'
  BY <1>1 DEF IInv, TypeOK, InvitesNameRoles, InvitationExpires
<1>4. OneSessionPerFlow'
  BY DEF IInv, OneSessionPerFlow, InvitationExpires
<1>5. AdmissionsAreBacked'
  <2>1. \A j \in Invitation \ {i} : invites'[j] = invites[j]
    BY DEF IInv, TypeOK, InvitationRow, InvitationExpires, NoInvitation
  <2>2. invites[i].state # "consumed" /\ invites'[i].state # "consumed"
    BY DEF IInv, TypeOK, InvitationRow, InvitationExpires, NoInvitation
  <2>3. UNCHANGED <<members, bootstrap, workspace>>
    BY DEF InvitationExpires
  <2>4. ASSUME NEW a0 \in Account PROVE Redeemed(a0)' = Redeemed(a0)
    BY <2>1, <2>2 DEF Redeemed
  <2>5. ASSUME NEW a0 \in Account
        PROVE  Enrolled(a0)' = Enrolled(a0) /\ (Founded(a0) => Founded(a0)')
    BY <2>3, <2>4 DEF Enrolled, Founded
  <2>6. ASSUME NEW a0 \in Account, Invited(a0) PROVE Invited(a0)'
    <3>1. \A j \in Redeemed(a0) : invites'[j] = invites[j]
      BY <2>1, <2>2 DEF Redeemed
    <3> QED BY <2>3, <2>4, <2>6, <3>1 DEF Invited
  <2> QED BY <2>3, <2>4, <2>5, <2>6 DEF IInv, AdmissionsAreBacked
<1>6. NoEscalation'
  BY <1>1 DEF IInv, TypeOK, NoEscalation, InvitationExpires, Enrolled
<1>7. SessionsAreMembers'
  BY DEF IInv, SessionsAreMembers, InvitationExpires, Enrolled
<1> QED BY <1>1, <1>2, <1>3, <1>4, <1>5, <1>6, <1>7 DEF IInv

(* Offboard preserves the invariant.                                 *)
LEMMA OffboardStep ==
  ASSUME IInv, NEW a \in Account, Offboard(a)
  PROVE  IInv'
<1> USE NoneAssumption
<1>1. TypeOK'
  BY DEF IInv, TypeOK, Offboard, Enrolled
<1>2. CallbacksHoldFlows'
  BY DEF IInv, CallbacksHoldFlows, Offboard
<1>3. InvitesNameRoles'
  BY DEF IInv, InvitesNameRoles, Offboard
<1>4. OneSessionPerFlow'
  BY DEF IInv, OneSessionPerFlow, Offboard
<1>5. AdmissionsAreBacked'
  <2>1. UNCHANGED <<invites, bootstrap, workspace>>
    BY DEF Offboard
  <2>2. ASSUME NEW b \in Account
        PROVE  /\ members'[b].role = members[b].role
               /\ members'[b].scopes \subseteq members[b].scopes
    BY DEF IInv, TypeOK, Offboard
  <2>3. ASSUME NEW b \in Account
        PROVE  /\ Enrolled(b)' = Enrolled(b) /\ Redeemed(b)' = Redeemed(b)
               /\ Founded(b) => Founded(b)'
               /\ Invited(b) => Invited(b)'
    BY <2>1, <2>2 DEF Enrolled, Redeemed, Founded, Invited
  <2> QED BY <2>1, <2>3 DEF IInv, AdmissionsAreBacked
<1>6. NoEscalation'
  BY <1>1 DEF IInv, TypeOK, NoEscalation, Offboard, Enrolled
<1>7. SessionsAreMembers'
  BY <1>1 DEF IInv, TypeOK, SessionsAreMembers, Offboard, Enrolled
<1> QED BY <1>1, <1>2, <1>3, <1>4, <1>5, <1>6, <1>7 DEF IInv

(* Narrow preserves the invariant.                                   *)
LEMMA NarrowStep ==
  ASSUME IInv, NEW a \in Account, NEW s \in Scope, Narrow(a, s)
  PROVE  IInv'
<1> USE NoneAssumption
<1>1. TypeOK'
  BY DEF IInv, TypeOK, Narrow, Enrolled
<1>2. CallbacksHoldFlows'
  BY DEF IInv, CallbacksHoldFlows, Narrow
<1>3. InvitesNameRoles'
  BY DEF IInv, InvitesNameRoles, Narrow
<1>4. OneSessionPerFlow'
  BY DEF IInv, OneSessionPerFlow, Narrow
<1>5. AdmissionsAreBacked'
  <2>1. UNCHANGED <<invites, bootstrap, workspace>>
    BY DEF Narrow
  <2>2. ASSUME NEW b \in Account
        PROVE  /\ members'[b].role = members[b].role
               /\ members'[b].scopes \subseteq members[b].scopes
    BY DEF IInv, TypeOK, Narrow
  <2>3. ASSUME NEW b \in Account
        PROVE  /\ Enrolled(b)' = Enrolled(b) /\ Redeemed(b)' = Redeemed(b)
               /\ Founded(b) => Founded(b)'
               /\ Invited(b) => Invited(b)'
    BY <2>1, <2>2 DEF Enrolled, Redeemed, Founded, Invited
  <2> QED BY <2>1, <2>3 DEF IInv, AdmissionsAreBacked
<1>6. NoEscalation'
  BY <1>1 DEF IInv, TypeOK, NoEscalation, Narrow, Enrolled
<1>7. SessionsAreMembers'
  BY <1>1 DEF IInv, TypeOK, SessionsAreMembers, Narrow, Enrolled
<1> QED BY <1>1, <1>2, <1>3, <1>4, <1>5, <1>6, <1>7 DEF IInv

(* Every step of the system preserves the invariant.                       *)
LEMMA NextIInv == IInv /\ [Next]_vars => IInv'
<1> SUFFICES ASSUME IInv, [Next]_vars PROVE IInv'
  OBVIOUS
<1>1. ASSUME NEW f \in Flow, NEW i \in Invitation \union {None}, Start(f, i) PROVE IInv'
  BY <1>1, StartStep
<1>2. ASSUME NEW f \in Flow, FlowExpires(f) PROVE IInv'
  BY <1>2, FlowExpiresStep
<1>3. ASSUME NEW c \in Callback, NEW f \in Flow, ConsumeFlow(c, f) PROVE IInv'
  BY <1>3, ConsumeFlowStep
<1>4. ASSUME NEW c \in Callback, NEW a \in Account, Identify(c, a) PROVE IInv'
  BY <1>4, IdentifyStep
<1>5. ASSUME NEW c \in Callback, GiveUp(c) PROVE IInv'
  BY <1>5, GiveUpStep
<1>6. ASSUME NEW c \in Callback, Lookup(c) PROVE IInv'
  BY <1>6, LookupStep
<1>7. ASSUME NEW c \in Callback, Redeem(c) PROVE IInv'
  BY <1>7, RedeemStep
<1>8. ASSUME NEW c \in Callback, Found(c) PROVE IInv'
  BY <1>8, FoundStep
<1>9. ASSUME NEW c \in Callback, Issue(c) PROVE IInv'
  BY <1>9, IssueStep
<1>10. ASSUME NEW i \in Invitation, NEW actor \in Account, NEW a \in Account,
                NEW role \in {"reader", "maintainer"}, NEW scopes \in SUBSET Scope, CheckInvitation(i, actor, a, role, scopes) PROVE IInv'
  BY <1>10, CheckInvitationStep
<1>11. ASSUME NEW i \in Invitation, EndInvitation(i) PROVE IInv'
  BY <1>11, EndInvitationStep
<1>12. ASSUME NEW i \in Invitation, InvitationExpires(i) PROVE IInv'
  BY <1>12, InvitationExpiresStep
<1>13. ASSUME NEW a \in Account, Offboard(a) PROVE IInv'
  BY <1>13, OffboardStep
<1>14. ASSUME NEW a \in Account, NEW s \in Scope, Narrow(a, s) PROVE IInv'
  BY <1>14, NarrowStep
<1>15. CASE UNCHANGED vars
  BY <1>15 DEF vars, IInv, TypeOK, CallbacksHoldFlows, InvitesNameRoles, OneSessionPerFlow,
     AdmissionsAreBacked, NoEscalation, SessionsAreMembers, Enrolled, Founded, Invited,
     Redeemed
<1> QED
  BY <1>1, <1>2, <1>3, <1>4, <1>5, <1>6, <1>7, <1>8, <1>9, <1>10, <1>11, <1>12,
     <1>13, <1>14, <1>15 DEF Next, CompleteLogin

(* The invariant of enrollment, for every value of the constants.          *)
THEOREM EnrollmentInvariant == Spec => []IInv
<1> QED BY InitIInv, NextIInv, PTL DEF Spec

(* Tables, cookies and callbacks keep their shape.                         *)
THEOREM EnrollmentTypeOK == Spec => []TypeOK
<1>1. IInv => TypeOK
  BY DEF IInv
<1> QED BY <1>1, EnrollmentInvariant, PTL

(* ConsumeFlow lets one callback work with a flow, and one session follow. *)
THEOREM FlowsAreSingleUse == Spec => []OneSessionPerFlow
<1>1. IInv => OneSessionPerFlow
  BY DEF IInv
<1> QED BY <1>1, EnrollmentInvariant, PTL

(* CompleteLogin's memberships and consumed invitations correspond.        *)
THEOREM MembershipsAreBacked == Spec => []AdmissionsAreBacked
<1>1. IInv => AdmissionsAreBacked
  BY DEF IInv
<1> QED BY <1>1, EnrollmentInvariant, PTL

(* Chains of CreateInvitation never leave the founder's scopes.            *)
THEOREM InvitationsOnlyDelegate == Spec => []NoEscalation
<1>1. IInv => NoEscalation
  BY DEF IInv
<1> QED BY <1>1, EnrollmentInvariant, PTL

(* A session cookie always belongs to an enrolled account.                 *)
THEOREM SessionsBelongToMembers == Spec => []SessionsAreMembers
<1>1. IInv => SessionsAreMembers
  BY DEF IInv
<1> QED BY <1>1, EnrollmentInvariant, PTL

(* Sessions rest on one use of one flow by an enrolled account.            *)
THEOREM SessionsAreEarnedOnce == Spec => []SessionsAreEarned
<1>1. IInv => SessionsAreEarned
  BY DEF IInv, SessionsAreEarned
<1> QED BY <1>1, EnrollmentInvariant, PTL

(* A step of the system never undoes an offboarding.                       *)
LEMMA OffboardedStep ==
  IInv /\ [Next]_vars => [MembersOnlyNarrow /\ InactiveAreDenied]_vars
<1> SUFFICES ASSUME IInv, Next PROVE MembersOnlyNarrow /\ InactiveAreDenied
  OBVIOUS
<1>1. ASSUME NEW f \in Flow, NEW i \in Invitation \union {None}, Start(f, i)
     PROVE  MembersOnlyNarrow /\ InactiveAreDenied
  BY <1>1 DEF IInv, TypeOK, MembersOnlyNarrow, InactiveAreDenied, Start, Enrolled
<1>2. ASSUME NEW f \in Flow, FlowExpires(f)
     PROVE  MembersOnlyNarrow /\ InactiveAreDenied
  BY <1>2 DEF IInv, TypeOK, MembersOnlyNarrow, InactiveAreDenied, FlowExpires, Enrolled
<1>3. ASSUME NEW c \in Callback, NEW f \in Flow, ConsumeFlow(c, f)
     PROVE  MembersOnlyNarrow /\ InactiveAreDenied
  BY <1>3 DEF IInv, TypeOK, MembersOnlyNarrow, InactiveAreDenied, ConsumeFlow, Enrolled, Idle
<1>4. ASSUME NEW c \in Callback, NEW a \in Account, Identify(c, a)
     PROVE  MembersOnlyNarrow /\ InactiveAreDenied
  BY <1>4 DEF IInv, TypeOK, MembersOnlyNarrow, InactiveAreDenied, Identify, Enrolled
<1>5. ASSUME NEW c \in Callback, GiveUp(c)
     PROVE  MembersOnlyNarrow /\ InactiveAreDenied
  BY <1>5 DEF IInv, TypeOK, MembersOnlyNarrow, InactiveAreDenied, GiveUp, Enrolled, Idle
<1>6. ASSUME NEW c \in Callback, Lookup(c)
     PROVE  MembersOnlyNarrow /\ InactiveAreDenied
  BY <1>6 DEF IInv, TypeOK, MembersOnlyNarrow, InactiveAreDenied, Lookup, Enrolled, Idle
<1>7. ASSUME NEW c \in Callback, Redeem(c)
     PROVE  MembersOnlyNarrow /\ InactiveAreDenied
  BY <1>7 DEF IInv, TypeOK, MembersOnlyNarrow, InactiveAreDenied, Redeem, Enrolled, Redeemable
<1>8. ASSUME NEW c \in Callback, Found(c)
     PROVE  MembersOnlyNarrow /\ InactiveAreDenied
  BY <1>8 DEF IInv, TypeOK, MembersOnlyNarrow, InactiveAreDenied, Found, Enrolled
<1>9. ASSUME NEW c \in Callback, Issue(c)
     PROVE  MembersOnlyNarrow /\ InactiveAreDenied
  BY <1>9 DEF IInv, TypeOK, MembersOnlyNarrow, InactiveAreDenied, Issue, Enrolled, Idle
<1>10. ASSUME NEW i \in Invitation, NEW actor \in Account, NEW a \in Account,
                NEW role \in {"reader", "maintainer"}, NEW scopes \in SUBSET Scope, CheckInvitation(i, actor, a, role, scopes)
     PROVE  MembersOnlyNarrow /\ InactiveAreDenied
  BY <1>10 DEF IInv, TypeOK, MembersOnlyNarrow, InactiveAreDenied, CheckInvitation, Enrolled
<1>11. ASSUME NEW i \in Invitation, EndInvitation(i)
     PROVE  MembersOnlyNarrow /\ InactiveAreDenied
  BY <1>11 DEF IInv, TypeOK, MembersOnlyNarrow, InactiveAreDenied, EndInvitation, Enrolled
<1>12. ASSUME NEW i \in Invitation, InvitationExpires(i)
     PROVE  MembersOnlyNarrow /\ InactiveAreDenied
  BY <1>12 DEF IInv, TypeOK, MembersOnlyNarrow, InactiveAreDenied, InvitationExpires, Enrolled
<1>13. ASSUME NEW a \in Account, Offboard(a)
     PROVE  MembersOnlyNarrow /\ InactiveAreDenied
  BY <1>13 DEF IInv, TypeOK, MembersOnlyNarrow, InactiveAreDenied, Offboard, Enrolled
<1>14. ASSUME NEW a \in Account, NEW s \in Scope, Narrow(a, s)
     PROVE  MembersOnlyNarrow /\ InactiveAreDenied
  BY <1>14 DEF IInv, TypeOK, MembersOnlyNarrow, InactiveAreDenied, Narrow, Enrolled
<1> QED
  BY <1>1, <1>2, <1>3, <1>4, <1>5, <1>6, <1>7, <1>8, <1>9, <1>10, <1>11, <1>12,
     <1>13, <1>14 DEF Next, CompleteLogin

(* Enrollment never brings an offboarded member back.                      *)
THEOREM OffboardingIsFinal == Spec => OffboardedStayOut
<1> QED BY OffboardedStep, EnrollmentInvariant, PTL DEF Spec, OffboardedStayOut

-----------------------------------------------------------------------------
(* Signing keys: the inductive invariant behind TokensOutliveRotation. *)

KeysTypeOK ==
  /\ clock \in 0..MaxClock
  /\ keyset = [current |-> keyset.current, notAfter |-> keyset.notAfter]
  /\ keyset.current \in Kids
  /\ DOMAIN keyset.notAfter \subseteq Kids
  /\ keyset.notAfter \in [DOMAIN keyset.notAfter -> Nat]
  /\ token \in [pc: {"none", "timed", "keyed", "out"}, kid: Kids, exp: Nat]
  /\ verifier \in [pc: {"idle", "lookup", "claims", "lease"}, began: Nat,
                   answer: {"none", "unknown_key", "expired", "revoked", "accepted"},
                   barred: BOOLEAN, expected: BOOLEAN]
  /\ revoked \in Nat

\* The current key is known, and has no retirement unless one was chosen.
CurrentStays ==
  /\ keyset.current \in DOMAIN keyset.notAfter
  /\ keyset.current \in chosen \/ keyset.notAfter[keyset.current] = Never

\* No token lives longer than its age from now, and the key of a token to be
\* signed or signed stays known as long as the token may be accepted.
KeyIsKept ==
  /\ token.pc # "none" => token.exp <= clock + MaxAge
  /\ token.pc \in {"keyed", "out"} /\ token.kid \notin chosen =>
       /\ token.kid \in DOMAIN keyset.notAfter
       /\ token.exp + Skew <= keyset.notAfter[token.kid]

\* A revocation lasts at least as long as the token.
RevocationLasts ==
  revoked > 0 => token.pc = "out" /\ token.exp <= revoked

\* What a verification has established so far.
VerifierKnows ==
  /\ verifier.pc # "idle" \/ verifier.answer # "none" => token.pc = "out"
  /\ verifier.pc # "idle" => verifier.began <= clock /\ verifier.answer = "none"
  /\ verifier.pc # "idle" /\ verifier.barred =>
       verifier.began < token.exp /\ token.exp <= revoked
  /\ verifier.pc = "lease" => verifier.began < token.exp + Skew

AnswersHold ==
  /\ verifier.answer = "unknown_key" /\ verifier.expected => token.kid \in chosen
  /\ verifier.answer = "accepted" => verifier.began < token.exp + Skew /\ ~verifier.barred

KeysInv ==
  /\ KeysTypeOK
  /\ CurrentStays
  /\ KeyIsKept
  /\ RevocationLasts
  /\ VerifierKnows
  /\ AnswersHold

-----------------------------------------------------------------------------

LEMMA InitEstablishes == KeysInit => KeysInv
<1> SUFFICES ASSUME KeysInit PROVE KeysInv
  OBVIOUS
<1>1. FirstKid \in Kids
  BY KeysAssumption DEF FirstKid
<1>2. Never \in Nat
  BY KeysAssumption DEF Never
<1>3. KeysTypeOK
  BY <1>1, <1>2, KeysAssumption DEF KeysInit, KeysTypeOK, NoToken, NoVerification
<1>4. CurrentStays /\ KeyIsKept /\ RevocationLasts /\ VerifierKnows /\ AnswersHold
  BY DEF KeysInit, CurrentStays, KeyIsKept, RevocationLasts, VerifierKnows, AnswersHold,
         NoToken, NoVerification
<1> QED
  BY <1>3, <1>4 DEF KeysInv

LEMMA RotateKeeps ==
  ASSUME KeysInv, NEW next \in Kids, NEW notAfter \in {Never, clock + 1}, Rotate(next, notAfter)
  PROVE  KeysInv'
<1> USE KeysAssumption
<1>1. Never \in Nat /\ notAfter \in Nat /\ clock + MaxAge + Skew \in Nat
  BY DEF KeysInv, KeysTypeOK, Never
<1>2. /\ keyset' = [current |-> next, notAfter |-> keyset'.notAfter]
      /\ DOMAIN keyset'.notAfter = DOMAIN keyset.notAfter \cup {next}
      /\ keyset'.notAfter \in [DOMAIN keyset'.notAfter -> Nat]
      /\ keyset'.notAfter[next] = notAfter
      /\ keyset'.notAfter[keyset.current]
           = Smaller(keyset.notAfter[keyset.current], clock + MaxAge + Skew)
      /\ \A k \in DOMAIN keyset.notAfter \ {keyset.current}:
           keyset'.notAfter[k] = keyset.notAfter[k]
  <2> DEFINE f == keyset.notAfter
             prev == keyset.current
             kept == [f EXCEPT ![prev] = Smaller(@, clock + MaxAge + Skew)]
             all == [k \in DOMAIN kept \cup {next} |-> IF k = next THEN notAfter ELSE kept[k]]
  <2>1. keyset' = [current |-> next, notAfter |-> all]
    BY DEF Rotate, Rotated
  <2>2. /\ prev \in DOMAIN f /\ f \in [DOMAIN f -> Nat]
        /\ DOMAIN f \subseteq Kids /\ next \notin DOMAIN f
    BY DEF Rotate, KeysInv, KeysTypeOK, CurrentStays
  <2>3. /\ kept \in [DOMAIN f -> Nat] /\ kept[prev] = Smaller(f[prev], clock + MaxAge + Skew)
        /\ \A k \in DOMAIN f \ {prev}: kept[k] = f[k]
    BY <1>1, <2>2 DEF Smaller
  <2>4. DOMAIN kept = DOMAIN f /\ all \in [DOMAIN f \cup {next} -> Nat]
    BY <1>1, <2>3
  <2>5. keyset'.current = next /\ keyset'.notAfter = all
    BY <2>1
  <2> QED
    BY <2>1, <2>2, <2>3, <2>4, <2>5
<1>3. KeysTypeOK'
  BY <1>2 DEF KeysInv, KeysTypeOK, Rotate
<1>4. CurrentStays'
  BY <1>2 DEF CurrentStays, Rotate
<1>5. KeyIsKept'
  <2>1. token.pc # "none" => token'.exp <= clock' + MaxAge
    BY DEF KeysInv, KeyIsKept, Rotate
  <2>2. ASSUME token.pc \in {"keyed", "out"}, token.kid \notin chosen'
        PROVE  /\ token.kid \in DOMAIN keyset'.notAfter
               /\ token.exp + Skew <= keyset'.notAfter[token.kid]
    <3>1. /\ token.kid \in DOMAIN keyset.notAfter
          /\ token.exp + Skew <= keyset.notAfter[token.kid]
          /\ token.exp <= clock + MaxAge
      BY <2>2 DEF KeysInv, KeyIsKept, Rotate
    <3>2. CASE token.kid = keyset.current
      <4>1. keyset'.notAfter[token.kid] \in
              {keyset.notAfter[token.kid], clock + MaxAge + Skew}
        BY <3>2, <1>2 DEF Smaller
      <4> QED
        BY <4>1, <3>1, <1>2 DEF KeysInv, KeysTypeOK
    <3>3. CASE token.kid # keyset.current
      BY <3>3, <3>1, <1>2
    <3> QED
      BY <3>2, <3>3
  <2> QED
    BY <2>1, <2>2 DEF KeyIsKept, Rotate
<1>6. RevocationLasts' /\ VerifierKnows'
  BY DEF KeysInv, RevocationLasts, VerifierKnows, Rotate
<1>7. AnswersHold'
  BY DEF KeysInv, AnswersHold, Rotate
<1> QED
  BY <1>3, <1>4, <1>5, <1>6, <1>7 DEF KeysInv

LEMMA RestartKeeps ==
  ASSUME KeysInv, NEW ks \in SUBSET DOMAIN keyset.notAfter, NEW next \in Kids,
         NEW retired \in [ks -> {1, clock + MaxAge + Skew}], Restart(next, retired)
  PROVE  KeysInv'
<1> USE KeysAssumption
<1>1. Never \in Nat /\ clock + MaxAge + Skew \in Nat /\ retired \in [ks -> Nat]
  BY DEF KeysInv, KeysTypeOK, Never
<1> DEFINE all == [k \in ks \cup {next} |-> IF k = next THEN Never ELSE retired[k]]
<1>2. keyset' = [current |-> next, notAfter |-> all]
  BY DEF Restart
<1>3. keyset'.current = next /\ keyset'.notAfter = all
  BY <1>2
<1>4. all \in [ks \cup {next} -> Nat]
  BY <1>1
<1>5. token' \in [pc: {"none", "timed", "keyed", "out"}, kid: Kids, exp: Nat]
      /\ token'.kid = token.kid /\ token'.exp = token.exp
      /\ token'.pc = IF token.pc \in {"timed", "keyed"} THEN "none" ELSE token.pc
  BY DEF KeysInv, KeysTypeOK, Restart
<1>6. KeysTypeOK'
  <2>1. /\ keyset' = [current |-> keyset'.current, notAfter |-> keyset'.notAfter]
        /\ keyset'.current \in Kids
        /\ DOMAIN keyset'.notAfter \subseteq Kids
        /\ keyset'.notAfter \in [DOMAIN keyset'.notAfter -> Nat]
    BY <1>2, <1>3, <1>4 DEF KeysInv, KeysTypeOK
  <2>2. verifier' \in [pc: {"idle", "lookup", "claims", "lease"}, began: Nat,
                       answer: {"none", "unknown_key", "expired", "revoked", "accepted"},
                       barred: BOOLEAN, expected: BOOLEAN]
    BY DEF KeysInv, KeysTypeOK, Restart
  <2> QED
    BY <1>5, <2>1, <2>2 DEF KeysInv, KeysTypeOK, Restart
<1>7. CurrentStays'
  BY <1>3, <1>4 DEF CurrentStays
<1>8. KeyIsKept'
  <2>1. token'.pc # "none" => token'.exp <= clock' + MaxAge
    BY <1>5 DEF KeysInv, KeyIsKept, Restart
  <2>2. ASSUME token'.pc \in {"keyed", "out"}, token.kid \notin chosen'
        PROVE  /\ token.kid \in DOMAIN keyset'.notAfter
               /\ token.exp + Skew <= keyset'.notAfter[token.kid]
    <3>1. token.pc = "out" /\ token.exp <= clock + MaxAge
      BY <1>5, <2>2 DEF KeysInv, KeyIsKept
    <3>2. CASE token.kid = next
      <4>1. keyset'.notAfter[token.kid] = Never
        BY <3>2, <1>3
      <4>2. token.kid \in DOMAIN keyset'.notAfter
        BY <3>2, <1>3
      <4> QED
        BY <4>1, <4>2, <3>1 DEF Never, KeysInv, KeysTypeOK
    <3>3. CASE token.kid # next
      <4>1. token.kid \notin chosen \cup DOMAIN keyset.notAfter \/
              (token.kid \in ks /\ ~(retired[token.kid] < clock + MaxAge + Skew))
        BY <3>3, <2>2 DEF Restart
      <4>2. token.kid \in ks /\ ~(retired[token.kid] < clock + MaxAge + Skew)
        <5>1. CASE token.kid \in chosen
          BY <5>1, <4>1
        <5>2. CASE token.kid \notin chosen
          BY <5>2, <4>1, <3>1 DEF KeysInv, KeyIsKept
        <5> QED
          BY <5>1, <5>2
      <4>3. keyset'.notAfter[token.kid] = retired[token.kid]
            /\ token.kid \in DOMAIN keyset'.notAfter
        BY <4>2, <3>3, <1>3
      <4> QED
        BY <4>2, <4>3, <3>1, <1>1 DEF KeysInv, KeysTypeOK
    <3> QED
      BY <3>2, <3>3
  <2> QED
    BY <2>1, <2>2, <1>5 DEF KeyIsKept
<1>9. RevocationLasts'
  BY DEF RevocationLasts, Restart
<1>10. VerifierKnows' /\ AnswersHold'
  BY DEF KeysInv, KeysTypeOK, VerifierKnows, AnswersHold, Restart
<1> QED
  BY <1>6, <1>7, <1>8, <1>9, <1>10 DEF KeysInv

\* The remaining actions leave the keys alone.
LEMMA ClockAndMintKeep ==
  ASSUME KeysInv,
         \/ Tick \/ ReadCurrentKey \/ Sign
         \/ \E ttl \in 1..MaxAge: ReadMintClock(ttl)
  PROVE  KeysInv'
<1> USE KeysAssumption DEF KeysInv
<1>1. CASE Tick
  <2>1. KeysTypeOK'
    BY <1>1 DEF KeysTypeOK, Tick
  <2>2. CurrentStays' /\ RevocationLasts' /\ AnswersHold'
    BY <1>1 DEF CurrentStays, RevocationLasts, AnswersHold, Tick
  <2>3. KeyIsKept' /\ VerifierKnows'
    BY <1>1 DEF KeysTypeOK, KeyIsKept, VerifierKnows, Tick
  <2> QED
    BY <2>1, <2>2, <2>3
<1>2. CASE ReadCurrentKey
  <2>1. KeysTypeOK'
    BY <1>2 DEF KeysTypeOK, ReadCurrentKey
  <2>2. token'.kid = keyset.current /\ token'.exp = token.exp /\ token'.pc = "keyed"
        /\ token.exp <= clock + MaxAge
    BY <1>2 DEF KeysTypeOK, KeyIsKept, ReadCurrentKey
  <2>3. token'.kid \notin chosen =>
          /\ token'.kid \in DOMAIN keyset.notAfter
          /\ token'.exp + Skew <= keyset.notAfter[token'.kid]
    BY <2>2 DEF KeysTypeOK, CurrentStays, Never
  <2>4. KeyIsKept'
    BY <1>2, <2>2, <2>3 DEF KeyIsKept, ReadCurrentKey
  <2>5. CurrentStays' /\ RevocationLasts'
    BY <1>2 DEF KeysTypeOK, CurrentStays, RevocationLasts, ReadCurrentKey
  <2>6. VerifierKnows' /\ AnswersHold'
    BY <1>2, <2>2 DEF KeysTypeOK, VerifierKnows, AnswersHold, ReadCurrentKey
  <2> QED
    BY <2>1, <2>4, <2>5, <2>6
<1>3. CASE Sign
  <2>1. KeysTypeOK'
    BY <1>3 DEF KeysTypeOK, Sign
  <2>2. token'.kid = token.kid /\ token'.exp = token.exp /\ token'.pc = "out"
    BY <1>3 DEF KeysTypeOK, Sign
  <2>3. CurrentStays' /\ KeyIsKept' /\ RevocationLasts'
    BY <1>3, <2>2 DEF CurrentStays, KeyIsKept, RevocationLasts, Sign
  <2>4. VerifierKnows' /\ AnswersHold'
    BY <1>3, <2>2 DEF VerifierKnows, AnswersHold, Sign
  <2> QED
    BY <2>1, <2>3, <2>4
<1>4. ASSUME NEW ttl \in 1..MaxAge, ReadMintClock(ttl) PROVE KeysInv'
  <2>1. ttl \in Nat /\ ttl <= MaxAge /\ clock \in Nat /\ clock + ttl \in Nat
    BY DEF KeysTypeOK
  <2>2. token'.exp = clock + ttl /\ token'.pc = "timed" /\ token'.kid = token.kid
        /\ token' \in [pc: {"none", "timed", "keyed", "out"}, kid: Kids, exp: Nat]
    BY <1>4, <2>1 DEF KeysTypeOK, ReadMintClock
  <2>3. KeysTypeOK'
    BY <1>4, <2>2 DEF KeysTypeOK, ReadMintClock
  <2>4. CurrentStays' /\ RevocationLasts'
    BY <1>4 DEF KeysTypeOK, CurrentStays, RevocationLasts, ReadMintClock
  <2>5. KeyIsKept'
    <3>1. clock' = clock
      BY <1>4 DEF ReadMintClock
    <3>2. clock + ttl <= clock + MaxAge
      BY <2>1
    <3> QED
      BY <3>1, <3>2, <2>2 DEF KeyIsKept
  <2>6. VerifierKnows' /\ AnswersHold'
    BY <1>4, <2>2 DEF VerifierKnows, AnswersHold, ReadMintClock
  <2> QED
    BY <2>3, <2>4, <2>5, <2>6
<1> QED
  BY <1>1, <1>2, <1>3, <1>4

LEMMA RevokeKeeps ==
  ASSUME KeysInv, NEW ttl \in Leases, Revoke(ttl)
  PROVE  KeysInv'
<1> USE KeysAssumption DEF KeysInv
<1>1. revoked' \in Nat /\ revoked <= revoked' /\ token.exp <= revoked'
  BY DEF Revoke, Larger, KeysTypeOK
<1>2. KeysTypeOK'
  BY <1>1 DEF KeysTypeOK, Revoke
<1>3. CurrentStays' /\ KeyIsKept' /\ RevocationLasts' /\ AnswersHold'
  BY <1>1 DEF CurrentStays, KeyIsKept, RevocationLasts, AnswersHold, Revoke
<1>4. VerifierKnows'
  BY <1>1 DEF VerifierKnows, Revoke
<1> QED
  BY <1>2, <1>3, <1>4

LEMMA VerifyKeeps ==
  ASSUME KeysInv, BeginVerify \/ VerifyKey \/ Validate \/ AskLease
  PROVE  KeysInv'
<1> USE KeysAssumption DEF KeysInv
<1>1. CurrentStays' /\ KeyIsKept' /\ RevocationLasts'
  BY DEF CurrentStays, KeyIsKept, RevocationLasts, BeginVerify, VerifyKey, Validate, AskLease
<1>2. CASE BeginVerify
  <2>1. KeysTypeOK'
    BY <1>2 DEF KeysTypeOK, BeginVerify
  <2>2. /\ verifier'.pc = "lookup" /\ verifier'.began = clock /\ verifier'.answer = "none"
        /\ verifier'.barred => revoked > 0 /\ clock < token.exp
        /\ token.pc = "out"
    BY <1>2 DEF BeginVerify
  <2>3. VerifierKnows'
    BY <1>2, <2>2 DEF KeysTypeOK, RevocationLasts, VerifierKnows, BeginVerify
  <2>4. AnswersHold'
    BY <2>2 DEF AnswersHold
  <2> QED
    BY <1>1, <2>1, <2>3, <2>4
<1>3. CASE VerifyKey
  <2>1. KeysTypeOK'
    <3>1. CASE Knows(token.kid, verifier.began)
      BY <1>3, <3>1 DEF KeysTypeOK, VerifyKey
    <3>2. CASE ~Knows(token.kid, verifier.began)
      <4>1. (clock < token.exp + Skew) \in BOOLEAN
        OBVIOUS
      <4>2. verifier' = [verifier EXCEPT !.pc = "idle", !.answer = "unknown_key",
                                         !.expected = clock < token.exp + Skew]
        BY <1>3, <3>2 DEF VerifyKey
      <4>3. verifier' \in [pc: {"idle", "lookup", "claims", "lease"}, began: Nat,
                   answer: {"none", "unknown_key", "expired", "revoked", "accepted"},
                   barred: BOOLEAN, expected: BOOLEAN]
        BY <4>1, <4>2, Zenon DEF KeysTypeOK
      <4> QED
        BY <1>3, <4>3 DEF KeysTypeOK, VerifyKey
    <3> QED
      BY <3>1, <3>2
  <2>2. token.pc = "out" /\ verifier.began <= clock
    BY <1>3 DEF VerifierKnows, VerifyKey
  <2>3. verifier'.began = verifier.began /\ verifier'.barred = verifier.barred
    BY <1>3 DEF KeysTypeOK, VerifyKey
  <2>4. VerifierKnows'
    BY <1>3, <2>2, <2>3 DEF KeysTypeOK, VerifierKnows, VerifyKey
  <2>5. ~Knows(token.kid, verifier.began) /\ clock < token.exp + Skew => token.kid \in chosen
    BY <2>2 DEF Knows, KeyIsKept, KeysTypeOK
  <2>6. AnswersHold'
    BY <1>3, <2>5 DEF KeysTypeOK, VerifierKnows, AnswersHold, VerifyKey
  <2> QED
    BY <1>1, <2>1, <2>4, <2>6
<1>4. CASE Validate
  <2>1. KeysTypeOK'
    BY <1>4 DEF KeysTypeOK, Validate
  <2>2. VerifierKnows'
    BY <1>4 DEF KeysTypeOK, VerifierKnows, Validate
  <2>3. AnswersHold'
    BY <1>4 DEF KeysTypeOK, AnswersHold, Validate
  <2> QED
    BY <1>1, <2>1, <2>2, <2>3
<1>5. CASE AskLease
  <2>1. KeysTypeOK'
    BY <1>5 DEF KeysTypeOK, AskLease
  <2>2. VerifierKnows'
    BY <1>5 DEF KeysTypeOK, VerifierKnows, AskLease
  <2>3. AnswersHold'
    BY <1>5 DEF KeysTypeOK, VerifierKnows, AnswersHold, AskLease
  <2> QED
    BY <1>1, <2>1, <2>2, <2>3
<1> QED
  BY <1>2, <1>3, <1>4, <1>5

LEMMA KeysStutter ==
  ASSUME KeysInv, UNCHANGED keyVars
  PROVE  KeysInv'
BY DEF keyVars, KeysInv, KeysTypeOK, CurrentStays, KeyIsKept, RevocationLasts,
       VerifierKnows, AnswersHold

LEMMA KeysInvHolds == KeysSpec => []KeysInv
<1>1. KeysInv /\ [KeysNext]_keyVars => KeysInv'
  BY RotateKeeps, RestartKeeps, ClockAndMintKeep, RevokeKeeps, VerifyKeeps, KeysStutter
     DEF KeysNext
<1> QED
  BY InitEstablishes, <1>1, PTL DEF KeysSpec

LEMMA KeysInvImplies == KeysInv => TokensOutliveRotation
<1> SUFFICES ASSUME KeysInv PROVE TokensOutliveRotation
  OBVIOUS
<1>1. ASSUME token.pc = "out", clock < token.exp + Skew, token.kid \notin chosen
      PROVE  Knows(token.kid, clock) /\ token.kid \in VerificationKeys
  BY <1>1, KeysAssumption DEF KeysInv, KeysTypeOK, KeyIsKept, Knows, VerificationKeys
<1> QED
  BY <1>1 DEF KeysInv, AnswersHold, TokensOutliveRotation

\* However keys rotate and processes restart between the steps of minting and
\* verifying, a token's key stays known until the token has expired with its
\* skew unless an operator retired it, and no verification accepts a token
\* that had expired or been revoked before it began (KeySet.Rotate,
\* LoadKeySet, Issuer.Mint, Verifier.Verify, RevocationLease).
THEOREM TokensOutliveEveryRotation == KeysSpec => []TokensOutliveRotation
BY KeysInvHolds, KeysInvImplies, PTL

-----------------------------------------------------------------------------
(* The issuer under test. *)

Scopes == {"default", "unknown", "narrow"}
Resources == {"none", "here", "other", "unlisted"}
Errors == {"none", "no_endpoint", "invalid_redirect_uri", "invalid_client_metadata", "invalid_target",
           "invalid_scope", "invalid_request", "access_denied", "invalid_grant", "cacheable"}

Response == [ok: BOOLEAN, why: Errors, id: Nat, gen: Nat, aud: Resources, client: Nat]
Code == [client: Nat, resource: Resources, used: BOOLEAN]
Family == [client: Nat, resource: Resources, gen: Nat, dead: BOOLEAN]
Issuer == [clients: Seq(Scopes), codes: Seq(Code), fams: Seq(Family), consent: BOOLEAN, r: Response]

\* The parts of an issuer.
LEMMA IssuerFacts ==
  ASSUME NEW s \in Issuer
  PROVE  /\ NoResponse \in Response
         /\ s.r \in Response /\ s.r.ok \in BOOLEAN /\ s.r.why \in Errors /\ s.r.id \in Nat
         /\ s.r.gen \in Nat /\ s.r.aud \in Resources /\ s.r.client \in Nat
         /\ s.clients \in Seq(Scopes) /\ s.codes \in Seq(Code) /\ s.fams \in Seq(Family)
         /\ Len(s.clients) \in Nat /\ Len(s.codes) \in Nat /\ Len(s.fams) \in Nat
         /\ s.consent \in BOOLEAN
BY DEF Issuer, Response, NoResponse, Errors, Resources

\* The same issuer with another response.
LEMMA Answered ==
  ASSUME NEW s \in Issuer, NEW r \in Response,
         NEW t, t = [s EXCEPT !.r = r]
  PROVE  /\ t \in Issuer /\ t.clients = s.clients /\ t.codes = s.codes /\ t.fams = s.fams
         /\ t.consent = s.consent /\ t.r = r
BY DEF Issuer

\* A refusal changes nothing but the answer.
LEMMA RefuseFacts ==
  ASSUME NEW s \in Issuer, NEW why \in Errors
  PROVE  LET t == Refuse(s, why)
         IN /\ t \in Issuer /\ ~t.r.ok /\ t.r.why = why
            /\ t.clients = s.clients /\ t.codes = s.codes /\ t.fams = s.fams /\ t.consent = s.consent
<1> DEFINE r == [NoResponse EXCEPT !.ok = FALSE, !.why = why]
<1>1. r \in Response /\ r.ok = FALSE /\ r.why = why
  BY DEF NoResponse, Response, Errors, Resources
<1>2. Refuse(s, why) = [s EXCEPT !.r = r]
  BY DEF Refuse
<1> DEFINE t == Refuse(s, why)
<1> HIDE DEF r, t
<1>3. /\ t \in Issuer /\ t.clients = s.clients /\ t.codes = s.codes /\ t.fams = s.fams
      /\ t.consent = s.consent /\ t.r = r
  BY <1>1, <1>2, Answered DEF t
<1> QED BY <1>1, <1>3 DEF t

\* A probe that discovers the issuer first: it fails where there is no
\* metadata, and changes nothing else.
LEMMA FreshFacts ==
  ASSUME NEW s \in Issuer
  PROVE  LET t == Fresh(s)
         IN /\ t \in Issuer /\ t.r.ok = ~Has("noMetadata")
            /\ t.clients = s.clients /\ t.codes = s.codes /\ t.fams = s.fams /\ t.consent = s.consent
<1> DEFINE r == [NoResponse EXCEPT !.ok = ~Has("noMetadata"), !.why = "no_endpoint"]
<1>1. r \in Response /\ r.ok = ~Has("noMetadata")
  BY DEF NoResponse, Response, Has, Errors, Resources
<1>2. Fresh(s) = [s EXCEPT !.r = r]
  BY DEF Fresh
<1> DEFINE t == Fresh(s)
<1> HIDE DEF r, t
<1>3. /\ t \in Issuer /\ t.clients = s.clients /\ t.codes = s.codes /\ t.fams = s.fams
      /\ t.consent = s.consent /\ t.r = r
  BY <1>1, <1>2, Answered DEF t
<1> QED BY <1>1, <1>3 DEF t

Registers(s, scope, why, t) ==
  /\ t \in Issuer /\ t.codes = s.codes /\ t.fams = s.fams /\ t.consent = s.consent
  /\ Len(s.clients) <= Len(t.clients)
  /\ t.r.ok = (s.r.ok /\ why = "none")
  /\ t.r.ok => /\ t.clients = Append(s.clients, scope) /\ Len(t.clients) = Len(s.clients) + 1
               /\ t.r.client = Len(s.clients) + 1
  /\ s.r.ok /\ ~t.r.ok => t.r.why = why
  /\ ~s.r.ok => t = s

\* Register answers a new client, or refuses for its reason.
LEMMA RegisterFacts ==
  ASSUME NEW s \in Issuer, NEW https \in BOOLEAN, NEW scope \in Scopes
  PROVE  Registers(s, scope, RegisterError(https, scope), Register(s, https, scope))
<1> DEFINE t == Register(s, https, scope)
           why == RegisterError(https, scope)
           r == [NoResponse EXCEPT !.client = Len(s.clients) + 1]
           cl == Append(s.clients, scope)
<1> USE DEF Registers
<1>1. why \in Errors
  BY DEF RegisterError, Errors
<1>2. CASE ~s.r.ok
  <2>1. t = s
    BY <1>2 DEF Register
  <2> QED BY <2>1, <1>2, IssuerFacts
<1>3. CASE s.r.ok /\ why # "none"
  <2>1. t = Refuse(s, why)
    BY <1>3 DEF Register
  <2> HIDE DEF t, why
  <2> QED BY <2>1, <1>1, <1>3, RefuseFacts, IssuerFacts DEF t, why
<1>4. CASE s.r.ok /\ why = "none"
  <2>1. t = [s EXCEPT !.clients = cl, !.r = r]
    BY <1>4 DEF Register
  <2>2. r \in Response /\ r.ok = TRUE /\ r.client = Len(s.clients) + 1
    <3> DEFINE n == Len(s.clients) + 1
    <3>1. n \in Nat
      BY IssuerFacts
    <3> HIDE DEF n
    <3> QED BY <3>1 DEF NoResponse, Response, Errors, Resources, n
  <2>3. cl \in Seq(Scopes) /\ Len(cl) = Len(s.clients) + 1
    BY IssuerFacts
  <2> HIDE DEF t, why, r, cl
  <2>4. /\ t \in Issuer /\ t.clients = cl /\ t.codes = s.codes /\ t.fams = s.fams
        /\ t.consent = s.consent /\ t.r = r
    BY <2>1, <2>2, <2>3 DEF Issuer
  <2> QED BY <2>2, <2>3, <2>4, <1>4, IssuerFacts DEF t, why, cl
<1> QED BY <1>2, <1>3, <1>4, IssuerFacts

Authorizes(s, client, resource, why, t) ==
  /\ t \in Issuer /\ t.clients = s.clients /\ t.fams = s.fams /\ t.consent = s.consent
  /\ t.r.ok = (s.r.ok /\ why = "none")
  /\ t.r.ok => /\ Len(t.codes) = Len(s.codes) + 1 /\ t.r.id = Len(t.codes) /\ t.r.client = client
               /\ t.codes[t.r.id] = [client |-> client, resource |-> resource, used |-> FALSE]
  /\ s.r.ok /\ ~t.r.ok => t.r.why = why
  /\ ~s.r.ok => t = s

\* Authorize answers a new code, or refuses for its reason.
LEMMA AuthorizeFacts ==
  ASSUME NEW s \in Issuer, NEW client \in Nat, NEW resource \in Resources, NEW scope, NEW method, NEW approve
  PROVE  Authorizes(s, client, resource, AuthorizeError(s, client, resource, scope, method, approve),
                    Authorize(s, client, resource, scope, method, approve))
<1> DEFINE t == Authorize(s, client, resource, scope, method, approve)
           why == AuthorizeError(s, client, resource, scope, method, approve)
           c == [client |-> client, resource |-> resource, used |-> FALSE]
           r == [NoResponse EXCEPT !.id = Len(s.codes) + 1, !.client = client]
           co == Append(s.codes, c)
<1> USE DEF Authorizes
<1>1. why \in Errors
  BY DEF AuthorizeError, Errors
<1>2. CASE ~s.r.ok
  <2>1. t = s
    BY <1>2 DEF Authorize
  <2> QED BY <2>1, <1>2, IssuerFacts
<1>3. CASE s.r.ok /\ why # "none"
  <2>1. t = Refuse(s, why)
    BY <1>3 DEF Authorize
  <2> HIDE DEF t, why
  <2> QED BY <2>1, <1>1, <1>3, RefuseFacts, IssuerFacts DEF t, why
<1>4. CASE s.r.ok /\ why = "none"
  <2>1. t = [s EXCEPT !.codes = co, !.r = r]
    BY <1>4 DEF Authorize
  <2>2. r \in Response /\ r.ok = TRUE /\ r.id = Len(s.codes) + 1 /\ r.client = client
    <3> DEFINE n == Len(s.codes) + 1
    <3>1. n \in Nat
      BY IssuerFacts
    <3> HIDE DEF n
    <3> QED BY <3>1 DEF NoResponse, Response, Errors, Resources, n
  <2>3. c \in Code
    BY DEF Code
  <2>4. co \in Seq(Code) /\ Len(co) = Len(s.codes) + 1 /\ co[Len(s.codes) + 1] = c
    BY <2>3, IssuerFacts
  <2> HIDE DEF t, why, r, co, c
  <2>5. /\ t \in Issuer /\ t.clients = s.clients /\ t.codes = co /\ t.fams = s.fams
        /\ t.consent = s.consent /\ t.r = r
    BY <2>1, <2>2, <2>4 DEF Issuer
  <2> QED BY <2>2, <2>4, <2>5, <1>4, IssuerFacts DEF t, why, c
<1> QED BY <1>2, <1>3, <1>4, IssuerFacts

\* Tokens answers the family it was asked for, unless caches may keep it.
LEMMA TokensFacts ==
  ASSUME NEW s \in Issuer, NEW fam \in 1..Len(s.fams), NEW gen \in Nat, NEW aud \in Resources
  PROVE  LET t == Tokens(s, fam, gen, aud)
         IN /\ t \in Issuer /\ t.clients = s.clients /\ t.codes = s.codes /\ t.fams = s.fams
            /\ t.consent = s.consent /\ t.r.ok = ~Has("cacheable") /\ t.r.why = "cacheable"
            /\ t.r.id = fam /\ t.r.gen = gen /\ t.r.aud = aud /\ t.r.client = s.fams[fam].client
<1> DEFINE t == Tokens(s, fam, gen, aud)
           n == s.fams[fam].client
           r == [NoResponse EXCEPT !.ok = ~Has("cacheable"), !.why = "cacheable", !.id = fam,
                                   !.gen = gen, !.aud = aud, !.client = n]
<1>1. n \in Nat /\ fam \in Nat
  <2>1. s.fams[fam] \in Family /\ fam \in Nat
    BY IssuerFacts, ElementOfSeq
  <2> QED BY <2>1 DEF Family
<1>2. t = [s EXCEPT !.r = r]
  BY DEF Tokens
<1>3. /\ r \in Response /\ r.ok = ~Has("cacheable") /\ r.why = "cacheable" /\ r.id = fam
      /\ r.gen = gen /\ r.aud = aud /\ r.client = n
  <2> HIDE DEF n
  <2> QED BY <1>1 DEF NoResponse, Response, Errors, Has
<1> HIDE DEF t, r
<1>4. /\ t \in Issuer /\ t.clients = s.clients /\ t.codes = s.codes /\ t.fams = s.fams
      /\ t.consent = s.consent /\ t.r = r
  BY <1>2, <1>3, Answered
<1> QED BY <1>3, <1>4 DEF t

Exchanges(s, client, code, why, t) ==
  /\ t \in Issuer /\ t.clients = s.clients /\ t.consent = s.consent
  /\ Len(t.codes) = Len(s.codes)
  /\ Len(s.fams) <= Len(t.fams) /\ \A i \in 1..Len(s.fams): t.fams[i] = s.fams[i]
  /\ t.r.ok = (s.r.ok /\ why = "none" /\ ~Has("cacheable"))
  /\ t.r.ok => /\ t.r.id = Len(s.fams) + 1 /\ Len(t.fams) = Len(s.fams) + 1
               /\ t.r.gen = 1 /\ t.r.aud = s.codes[code].resource /\ t.r.client = client
               /\ t.fams[t.r.id] = [client |-> client, resource |-> s.codes[code].resource,
                                    gen |-> 1, dead |-> FALSE]
               /\ t.codes[code] = [s.codes[code] EXCEPT !.used = TRUE]
  /\ s.r.ok /\ why # "none" => t.r.why = why
  /\ s.r.ok /\ why = "none" => t.r.why = "cacheable"
  /\ ~s.r.ok => t = s

\* Exchange uses the code up for a new family, or refuses for its reason.
LEMMA ExchangeFacts ==
  ASSUME NEW s \in Issuer, NEW client \in Nat, NEW code, s.r.ok => code \in 1..Len(s.codes),
         NEW redirect, NEW verifies, NEW resource \in Resources
  PROVE  Exchanges(s, client, code, ExchangeError(s, client, code, redirect, verifies, resource),
                   Exchange(s, client, code, redirect, verifies, resource))
<1> DEFINE t == Exchange(s, client, code, redirect, verifies, resource)
           why == ExchangeError(s, client, code, redirect, verifies, resource)
           c == s.codes[code]
           f == [client |-> client, resource |-> c.resource, gen |-> 1, dead |-> FALSE]
           fa == Append(s.fams, f)
           co == [s.codes EXCEPT ![code].used = TRUE]
           u == [s EXCEPT !.codes = co, !.fams = fa]
           n == Len(s.fams) + 1
<1> USE DEF Exchanges
<1>1. why \in Errors
  BY DEF ExchangeError, Errors
<1>2. CASE ~s.r.ok
  <2>1. t = s
    BY <1>2 DEF Exchange
  <2> QED BY <2>1, <1>2, IssuerFacts
<1>3. CASE s.r.ok /\ why # "none"
  <2>1. t = Refuse(s, why)
    BY <1>3 DEF Exchange
  <2> HIDE DEF t, why
  <2> QED BY <2>1, <1>1, <1>3, RefuseFacts, IssuerFacts DEF t, why
<1>4. CASE s.r.ok /\ why = "none"
  <2>1. c \in Code /\ code \in 1..Len(s.codes)
    BY <1>4, IssuerFacts, ElementOfSeq
  <2>2. c.resource \in Resources
    BY <2>1 DEF Code
  <2>3. f \in Family
    BY <2>2 DEF Family
  <2>4. /\ fa \in Seq(Family) /\ Len(fa) = n /\ n \in Nat /\ fa[n] = f /\ n \in 1..Len(fa)
        /\ Len(s.fams) <= Len(fa) /\ \A i \in 1..Len(s.fams): fa[i] = s.fams[i]
    <3> HIDE DEF f
    <3> QED BY <2>3, IssuerFacts
  <2>5. co \in Seq(Code) /\ Len(co) = Len(s.codes) /\ co[code] = [c EXCEPT !.used = TRUE]
    <3>1. [c EXCEPT !.used = TRUE] \in Code
      BY <2>1 DEF Code
    <3>2. co = [s.codes EXCEPT ![code] = [c EXCEPT !.used = TRUE]]
      OBVIOUS
    <3> QED BY <3>1, <3>2, <2>1, IssuerFacts
  <2>6. t = Tokens(u, n, 1, c.resource)
    BY <1>4 DEF Exchange
  <2>7. f.client = client
    OBVIOUS
  <2> HIDE DEF fa, co, f
  <2>8. u \in Issuer /\ u.clients = s.clients /\ u.codes = co /\ u.fams = fa /\ u.consent = s.consent
    BY <2>4, <2>5 DEF Issuer
  <2> HIDE DEF u, n, t
  <2>9. /\ t \in Issuer /\ t.clients = u.clients /\ t.codes = u.codes /\ t.fams = u.fams
        /\ t.consent = u.consent /\ t.r.ok = ~Has("cacheable") /\ t.r.why = "cacheable"
        /\ t.r.id = n /\ t.r.gen = 1 /\ t.r.aud = c.resource /\ t.r.client = u.fams[n].client
    BY <2>2, <2>4, <2>6, <2>8, TokensFacts
  <2> HIDE DEF why
  <2>10. /\ t.r.client = client /\ t.clients = s.clients /\ t.codes = co /\ t.fams = fa
         /\ t.consent = s.consent
    BY <2>4, <2>7, <2>8, <2>9
  <2> QED BY <1>4, <2>4, <2>5, <2>9, <2>10 DEF t, why, f, n
<1> QED BY <1>2, <1>3, <1>4, IssuerFacts

Refreshes(s, fam, gen, why, t) ==
  /\ t \in Issuer /\ t.clients = s.clients /\ t.consent = s.consent
  /\ Len(t.fams) = Len(s.fams) /\ \A i \in 1..Len(s.fams): i # fam => t.fams[i] = s.fams[i]
  /\ t.r.ok = (s.r.ok /\ why = "none" /\ ~Has("cacheable"))
  /\ s.r.ok /\ why = "none" =>
       /\ t.r.why = "cacheable" /\ t.r.id = fam /\ t.r.aud = s.fams[fam].resource
       /\ t.r.gen = IF Has("noRotation") THEN gen ELSE s.fams[fam].gen + 1
       /\ t.fams[fam] = [s.fams[fam] EXCEPT !.gen = t.r.gen]
  /\ s.r.ok /\ why # "none" =>
       /\ t.r.why = why
       /\ t.fams[fam] = [s.fams[fam] EXCEPT !.dead = s.fams[fam].dead \/ Ends(s, fam, gen)]
  /\ ~s.r.ok => t = s

\* Refresh moves one family, or ends it where the issuer does.
LEMMA RefreshFacts ==
  ASSUME NEW s \in Issuer, NEW client \in Nat, NEW fam, s.r.ok => fam \in 1..Len(s.fams),
         NEW gen \in Nat, NEW scope, NEW resource \in Resources
  PROVE  Refreshes(s, fam, gen, RefreshError(s, client, fam, gen, scope, resource),
                   Refresh(s, client, fam, gen, scope, resource))
<1> DEFINE t == Refresh(s, client, fam, gen, scope, resource)
           why == RefreshError(s, client, fam, gen, scope, resource)
           f == s.fams[fam]
           next == IF Has("noRotation") THEN gen ELSE f.gen + 1
           fd == [f EXCEPT !.dead = f.dead \/ Ends(s, fam, gen)]
           fg == [f EXCEPT !.gen = next]
           dead == [s.fams EXCEPT ![fam] = fd]
           on == [s.fams EXCEPT ![fam] = fg]
           d == [s EXCEPT !.fams = dead]
           u == [s EXCEPT !.fams = on]
<1> USE DEF Refreshes
<1>1. why \in Errors
  BY DEF RefreshError, Errors
<1>2. CASE ~s.r.ok
  <2>1. t = s
    BY <1>2 DEF Refresh
  <2> QED BY <2>1, <1>2, IssuerFacts
<1>3. CASE s.r.ok
  <2>1. f \in Family /\ fam \in 1..Len(s.fams)
    BY <1>3, IssuerFacts, ElementOfSeq
  <2>2. f.gen \in Nat /\ f.dead \in BOOLEAN /\ f.resource \in Resources /\ f.client \in Nat
    <3> HIDE DEF f
    <3> QED BY <2>1 DEF Family
  <2>3. next \in Nat
    BY <2>2
  <2>4. fd \in Family /\ fg \in Family /\ fg.client = f.client
    <3> HIDE DEF f, next
    <3>1. Ends(s, fam, gen) \in BOOLEAN
      BY DEF Ends
    <3>2. (f.dead \/ Ends(s, fam, gen)) \in BOOLEAN
      BY <3>1, <2>2
    <3> QED BY <2>1, <2>3, <3>2 DEF Family
  <2>5. /\ dead \in Seq(Family) /\ Len(dead) = Len(s.fams) /\ dead[fam] = fd
        /\ on \in Seq(Family) /\ Len(on) = Len(s.fams) /\ on[fam] = fg
        /\ \A i \in 1..Len(s.fams): i # fam => dead[i] = s.fams[i] /\ on[i] = s.fams[i]
    <3> HIDE DEF fd, fg
    <3> QED BY <2>1, <2>4, IssuerFacts
  <2>6. CASE why # "none"
    <3>1. t = Refuse(d, why)
      BY <1>3, <2>6 DEF Refresh
    <3> HIDE DEF dead, on, fd, fg
    <3>2. d \in Issuer /\ d.clients = s.clients /\ d.fams = dead /\ d.consent = s.consent
      BY <2>5 DEF Issuer
    <3> HIDE DEF t, why, d
    <3>3. /\ t \in Issuer /\ ~t.r.ok /\ t.r.why = why
          /\ t.clients = d.clients /\ t.fams = d.fams /\ t.consent = d.consent
      BY <3>1, <3>2, <1>1, RefuseFacts
    <3> QED BY <1>3, <2>5, <2>6, <3>2, <3>3, IssuerFacts DEF t, why, fd
  <2>7. CASE why = "none"
    <3>1. t = Tokens(u, fam, next, f.resource)
      BY <1>3, <2>7 DEF Refresh
    <3> HIDE DEF dead, on, fd, fg
    <3>2. u \in Issuer /\ u.clients = s.clients /\ u.fams = on /\ u.consent = s.consent
      BY <2>5 DEF Issuer
    <3> HIDE DEF t, why, u, next
    <3>3. fam \in 1..Len(u.fams)
      BY <3>2, <2>1, <2>5
    <3>4. /\ t \in Issuer /\ t.clients = u.clients /\ t.fams = u.fams /\ t.consent = u.consent
          /\ t.r.ok = ~Has("cacheable") /\ t.r.why = "cacheable" /\ t.r.id = fam
          /\ t.r.gen = next /\ t.r.aud = f.resource
      BY <3>1, <3>2, <3>3, <2>2, <2>3, TokensFacts
    <3> QED BY <1>3, <2>5, <2>7, <3>2, <3>4 DEF t, why, fg, next
  <2> QED BY <2>6, <2>7
<1> QED BY <1>2, <1>3

-----------------------------------------------------------------------------
(* The prober's own steps. *)

\* A client of the prober registers with nothing to refuse.
LEMMA ClientFacts ==
  ASSUME NEW s \in Issuer, NEW scope \in {"default", "narrow"}
  PROVE  Registers(s, scope, "none", Client(s, scope))
<1>1. RegisterError(TRUE, scope) = "none" /\ scope \in Scopes
  BY DEF RegisterError, Scopes
<1>2. Registers(s, scope, RegisterError(TRUE, scope), Register(s, TRUE, scope))
  BY <1>1, RegisterFacts
<1> QED BY <1>1, <1>2 DEF Client

\* A code for the client and the resource, unless there is no consent.
Coded(s, resource, t) ==
  /\ t \in Issuer /\ t.clients = s.clients /\ t.fams = s.fams /\ t.consent = s.consent
  /\ t.r.ok = (s.r.ok /\ s.consent)
  /\ t.r.ok => /\ t.r.client = s.r.client /\ t.r.id \in 1..Len(t.codes)
               /\ t.codes[t.r.id] = [client |-> t.r.client, resource |-> resource, used |-> FALSE]

\* A code of the prober goes to a client of its own.
LEMMA CodeForFacts ==
  ASSUME NEW s \in Issuer, NEW resource \in {"here", "other"}
  PROVE  Coded(s, resource, CodeFor(s, resource))
<1> DEFINE t == CodeFor(s, resource)
           why == AuthorizeError(s, s.r.client, resource, "narrow", "S256", TRUE)
<1>1. why = IF s.consent THEN "none" ELSE "access_denied"
  BY DEF AuthorizeError
<1>2. s.r.client \in Nat /\ resource \in Resources /\ s.consent \in BOOLEAN /\ s.r.ok \in BOOLEAN
  BY IssuerFacts DEF Resources
<1>3. Authorizes(s, s.r.client, resource, why, t)
  BY <1>2, AuthorizeFacts DEF CodeFor
<1>4. why = "none" <=> s.consent
  BY <1>1
<1> HIDE DEF t, why
<1>5. /\ t \in Issuer /\ t.clients = s.clients /\ t.fams = s.fams /\ t.consent = s.consent
      /\ t.r.ok = (s.r.ok /\ why = "none")
      /\ t.r.ok => /\ Len(t.codes) = Len(s.codes) + 1 /\ t.r.id = Len(t.codes) /\ t.r.client = s.r.client
                   /\ t.codes[t.r.id] = [client |-> s.r.client, resource |-> resource, used |-> FALSE]
  BY <1>3 DEF Authorizes
<1>6. t.r.ok = (s.r.ok /\ s.consent)
  BY <1>4, <1>5
<1>7. Len(s.codes) \in Nat
  BY IssuerFacts
<1>8. ASSUME t.r.ok PROVE t.r.id \in 1..Len(t.codes)
  BY <1>5, <1>7, <1>8
<1> QED BY <1>5, <1>6, <1>8 DEF Coded, t

\* What a probe leaves alone: consent and the families there were.
Keeps(s, t) ==
  /\ t \in Issuer /\ t.consent = s.consent
  /\ Len(s.clients) <= Len(t.clients) /\ Len(s.fams) <= Len(t.fams)
  /\ \A i \in 1..Len(s.fams): t.fams[i] = s.fams[i]

\* What is kept twice is kept.
LEMMA KeepsTwice ==
  ASSUME NEW s \in Issuer, NEW t, NEW u, Keeps(s, t), Keeps(t, u)
  PROVE  Keeps(s, u)
<1>1. /\ Len(s.clients) \in Nat /\ Len(t.clients) \in Nat /\ Len(u.clients) \in Nat
      /\ Len(s.fams) \in Nat /\ Len(t.fams) \in Nat /\ Len(u.fams) \in Nat
  BY IssuerFacts DEF Keeps
<1>2. \A i \in 1..Len(s.fams): i \in 1..Len(t.fams)
  BY <1>1 DEF Keeps
<1> QED BY <1>1, <1>2 DEF Keeps

\* A grant for resource: a family that stands at its first token.
Granted(s, resource, t) ==
  /\ Keeps(s, t)
  /\ t.r.ok = (~Has("noMetadata") /\ s.consent /\ ~Has("cacheable"))
  /\ t.r.ok => /\ t.r.id \in 1..Len(t.fams) /\ t.r.id \notin 1..Len(s.fams)
               /\ t.r.gen = 1 /\ t.r.aud = resource
               /\ t.fams[t.r.id] = [client |-> t.r.client, resource |-> resource, gen |-> 1, dead |-> FALSE]

\* A grant of the prober is a family of its own, as the code asked for it.
LEMMA GrantFacts ==
  ASSUME NEW s \in Issuer, NEW resource \in {"here", "other"}
  PROVE  Granted(s, resource, Grant(s, resource))
<1> DEFINE t == Grant(s, resource)
           f == Fresh(s)
           n == Client(f, "default")
           c == CodeFor(n, resource)
           k == c.codes[c.r.id]
           why == ExchangeError(c, c.r.client, c.r.id, "main", TRUE, "none")
<1>1. t = Exchange(c, c.r.client, c.r.id, "main", TRUE, "none")
  BY DEF Grant
<1>2. f \in Issuer /\ f.r.ok = ~Has("noMetadata") /\ f.clients = s.clients /\ f.fams = s.fams /\ f.consent = s.consent
  BY FreshFacts
<1> HIDE DEF f, t
<1>3. n \in Issuer /\ n.fams = f.fams /\ n.consent = f.consent /\ Len(f.clients) <= Len(n.clients) /\ n.r.ok = f.r.ok
  <2>1. Registers(f, "default", "none", n)
    BY <1>2, ClientFacts
  <2> HIDE DEF n
  <2> QED BY <2>1, <1>2, IssuerFacts DEF Registers
<1> HIDE DEF n
<1>4. Coded(n, resource, c)
  BY <1>3, CodeForFacts
<1> HIDE DEF c
<1>5. /\ c \in Issuer /\ c.clients = n.clients /\ c.fams = n.fams /\ c.consent = n.consent
      /\ c.r.ok = (n.r.ok /\ n.consent)
      /\ c.r.ok => c.r.id \in 1..Len(c.codes) /\ k = [client |-> c.r.client, resource |-> resource, used |-> FALSE]
  BY <1>4 DEF Coded
<1>6. ASSUME c.r.ok PROVE why = "none"
  <2> HIDE DEF k
  <2>1. k.client = c.r.client /\ k.used = FALSE /\ c.consent = TRUE
    BY <1>3, <1>5, <1>6, IssuerFacts
  <2> QED BY <2>1 DEF ExchangeError, k
<1>7. c.r.client \in Nat /\ "none" \in Resources /\ c.r.ok \in BOOLEAN
  BY <1>5, IssuerFacts DEF Resources
<1>8. Exchanges(c, c.r.client, c.r.id, why, t)
  BY <1>1, <1>5, <1>7, ExchangeFacts
<1> HIDE DEF why, k
<1>9. /\ t \in Issuer /\ t.clients = c.clients /\ t.consent = c.consent
      /\ Len(c.fams) <= Len(t.fams) /\ \A i \in 1..Len(c.fams): t.fams[i] = c.fams[i]
      /\ t.r.ok = (c.r.ok /\ why = "none" /\ ~Has("cacheable"))
  BY <1>8 DEF Exchanges
<1>10. Keeps(s, t)
  BY <1>2, <1>3, <1>5, <1>9 DEF Keeps
<1>11. t.r.ok = (~Has("noMetadata") /\ s.consent /\ ~Has("cacheable"))
  BY <1>2, <1>3, <1>5, <1>6, <1>7, <1>9, IssuerFacts
<1>12. ASSUME t.r.ok
       PROVE  /\ t.r.id \in 1..Len(t.fams) /\ t.r.id \notin 1..Len(s.fams)
              /\ t.r.gen = 1 /\ t.r.aud = resource
              /\ t.fams[t.r.id] = [client |-> t.r.client, resource |-> resource, gen |-> 1, dead |-> FALSE]
  <2>1. c.r.ok
    BY <1>9, <1>12
  <2>2. k.resource = resource
    BY <1>5, <2>1
  <2>3. /\ t.r.id = Len(c.fams) + 1 /\ Len(t.fams) = Len(c.fams) + 1
        /\ t.r.gen = 1 /\ t.r.aud = k.resource /\ t.r.client = c.r.client
        /\ t.fams[t.r.id] = [client |-> c.r.client, resource |-> k.resource, gen |-> 1, dead |-> FALSE]
    BY <1>8, <1>12 DEF Exchanges, k
  <2>4. Len(c.fams) \in Nat /\ c.fams = s.fams
    BY <1>2, <1>3, <1>5, IssuerFacts
  <2> QED BY <2>2, <2>3, <2>4
<1> QED BY <1>10, <1>11, <1>12 DEF Granted, t

-----------------------------------------------------------------------------
(* The checklist. *)

Memory == [client: Nat, grant: Response, next: Nat, named: BOOLEAN]

\* The faults that a probe asks about.  A resource that is not checked also
\* shows when there is no consent, in the probe after.
Asked ==
  [discovery |-> <<{"noMetadata"}, {"otherIssuer"}, {"plainEndpoint"}, {"deadRevocation"},
                   {"plainAdvertised"}, {"noRefreshGrant"}, {"resourceOmitted"}>>,
   registration |-> <<{}, {"plainRedirect"}, {"dropsUnknownScope"}, {"narrowsScope"}>>,
   code |-> <<{}, {"plainChallenge"}, {"noChallenge"}, {"codeOnDenial"},
              {"anyVerifier"}, {"anyRedirect"}, {"anyClient"}, {"codeReuse", "cacheable"}>>,
   refresh |-> <<{}, {"noRotation"}, {"widens"}, {"replaysReused"}, {"familySurvives"},
                 {"ignoresConsent", "consentReturns"}>>,
   prm |-> <<{"challengeElsewhere"}, {"noPRM", "prmOtherIssuer"}, {}>>,
   audience |-> <<{}, {"anyResource"}, {"anyAudience"}, {}, {"redeemsElsewhere"}, {"refreshesElsewhere"}>>]

\* The family of a grant for this resource.
Stands(s, g, gen, dead) ==
  s.fams[g.id] = [client |-> g.client, resource |-> "here", gen |-> gen, dead |-> dead]

\* What the probes of a row that passed have left for the next one.
Left(row, at, s, m) ==
  /\ row = "code" /\ at >= 2 => m.client \in 1..Len(s.clients)
  /\ row = "refresh" /\ at = 2 => Stands(s, m.grant, m.grant.gen, FALSE)
  /\ row = "refresh" /\ at \in {3, 4} =>
       m.next # 0 /\ m.next # m.grant.gen /\ Stands(s, m.grant, m.next, FALSE)
  /\ row = "refresh" /\ at = 5 => m.next # 0 /\ Stands(s, m.grant, m.next, ~Has("familySurvives"))
  /\ row = "prm" /\ at = 3 => m.named
  /\ row = "audience" /\ at = 2 => ~Has("anyResource") \/ ~s.consent
  /\ row = "audience" /\ at \in 3..6 =>
       m.grant.ok /\ m.grant.aud = "here" /\ s.consent /\ Stands(s, m.grant, m.grant.gen, FALSE)

\* Whether or not they passed: the grant remembered is one of the issuer's.
Known(row, at, s, m) ==
  /\ s \in Issuer /\ m \in Memory
  /\ m.grant.ok => m.grant.id \in 1..Len(s.fams)
  /\ row = "refresh" /\ at >= 2 => m.grant.ok

\* What is known of the outcome of a probe.
Tells(row, at, o) ==
  /\ o.ok \in BOOLEAN
  /\ o.s.consent = as.consent /\ Len(as.fams) <= Len(o.s.fams)
  /\ Known("none", 0, o.s, o.mem)
  /\ row = "refresh" /\ (at >= 2 \/ o.ok) => o.mem.grant.ok
  /\ Left(row, at, as, probe.mem) /\ o.ok =>
       Asked[row][at] \cap faults = {} /\ Left(row, at + 1, o.s, o.mem)
  /\ Left(row, at, as, probe.mem) /\ as.consent /\ faults = {} => o.ok

\* The parts of what the prober remembers.
LEMMA MemoryFacts ==
  ASSUME NEW m \in Memory
  PROVE  /\ m.client \in Nat /\ m.next \in Nat /\ m.named \in BOOLEAN /\ m.grant \in Response
         /\ m.grant.ok \in BOOLEAN /\ m.grant.id \in Nat /\ m.grant.gen \in Nat
         /\ m.grant.aud \in Resources /\ m.grant.client \in Nat
BY DEF Memory, Response

\* A probe that only looks.
LEMMA LookTells ==
  ASSUME NEW row, NEW at, NEW o, row # "refresh", Known(row, at, as, probe.mem),
         o.s = as, o.mem = probe.mem, o.ok \in BOOLEAN,
         o.ok /\ Left(row, at, as, probe.mem) => Asked[row][at] \cap faults = {} /\ Left(row, at + 1, as, probe.mem),
         Left(row, at, as, probe.mem) /\ as.consent /\ faults = {} => o.ok
  PROVE  Tells(row, at, o)
<1>1. Known("none", 0, as, probe.mem)
  BY DEF Known
<1>2. Len(as.fams) \in Nat
  BY IssuerFacts DEF Known
<1>3. Len(as.fams) <= Len(o.s.fams)
  BY <1>2
<1> QED BY <1>1, <1>3 DEF Tells

\* Each probe of the discovery row tells of the faults it asks about.
LEMMA DiscoveryTells ==
  ASSUME NEW j \in 1..7, Known("discovery", j, as, probe.mem)
  PROVE  Tells("discovery", j, Discovery(as, Checklist["discovery"][j]))
<1> DEFINE a == Asked["discovery"][j]
           o == Discovery(as, Checklist["discovery"][j])
<1>1. o.s = as /\ o.mem = probe.mem /\ o.ok \in BOOLEAN /\ (o.ok <=> a \cap faults = {})
  <2>1. CASE j = 1
    BY <2>1 DEF Checklist, Asked, Discovery, Outcome, Has
  <2>2. CASE j = 2
    BY <2>2 DEF Checklist, Asked, Discovery, Outcome, Has
  <2>3. CASE j = 3
    BY <2>3 DEF Checklist, Asked, Discovery, Outcome, Has
  <2>4. CASE j = 4
    BY <2>4 DEF Checklist, Asked, Discovery, Outcome, Has
  <2>5. CASE j = 5
    BY <2>5 DEF Checklist, Asked, Discovery, Outcome, Has
  <2>6. CASE j = 6
    BY <2>6 DEF Checklist, Asked, Discovery, Outcome, Has
  <2>7. CASE j = 7
    BY <2>7 DEF Checklist, Asked, Discovery, Outcome, Has
  <2>8. j \in {1, 2, 3, 4, 5, 6, 7}
    OBVIOUS
  <2> HIDE DEF o, a
  <2> QED BY <2>1, <2>2, <2>3, <2>4, <2>5, <2>6, <2>7, <2>8
<1>2. Left("discovery", j + 1, as, probe.mem)
  BY DEF Left
<1> HIDE DEF o, a
<1>3. faults = {} => o.ok
  BY <1>1
<1>4. Tells("discovery", j, o)
  BY <1>1, <1>2, <1>3, LookTells DEF a
<1> QED BY <1>4 DEF o

\* Each probe of the protected resource metadata row tells of its faults.
LEMMA ProtectedResourceTells ==
  ASSUME NEW j \in 1..3, Known("prm", j, as, probe.mem)
  PROVE  Tells("prm", j, ProtectedResource(as, Checklist["prm"][j]))
<1> DEFINE a == Asked["prm"][j]
           o == ProtectedResource(as, Checklist["prm"][j])
           m == probe.mem
<1>1. ASSUME j = 1 PROVE Tells("prm", j, o)
  <2>1. o.s = as /\ o.mem = m /\ o.ok \in BOOLEAN /\ (o.ok <=> a \cap faults = {})
    BY <1>1 DEF Checklist, Asked, ProtectedResource, Outcome, Has
  <2>2. Left("prm", j + 1, as, m)
    BY <1>1 DEF Left
  <2> HIDE DEF o, a
  <2>3. faults = {} => o.ok
    BY <2>1
  <2> QED BY <2>1, <2>2, <2>3, LookTells DEF a
<1>2. ASSUME j = 2 PROVE Tells("prm", j, o)
  <2> DEFINE document == ~Has("noPRM") /\ ~Has("prmOtherIssuer")
  <2>1. o = [s |-> as, ok |-> document, mem |-> [m EXCEPT !.named = document]]
    BY <1>2 DEF Checklist, ProtectedResource, Remember
  <2>2. document \in BOOLEAN /\ (document <=> a \cap faults = {})
    BY <1>2 DEF Asked, Has
  <2> DEFINE n == [m EXCEPT !.named = document]
  <2>3. n \in Memory /\ n.named = document /\ n.grant = m.grant
    <3> HIDE DEF m, document
    <3>1. m \in Memory
      BY DEF Known, m
    <3> QED BY <2>2, <3>1 DEF Memory
  <2>4. o.s = as /\ o.ok = document /\ o.mem = n
    BY <2>1
  <2> HIDE DEF o, n, document, a
  <2>5. Known("none", 0, as, n)
    BY <2>3 DEF Known
  <2>6. document => Left("prm", j + 1, as, n)
    BY <1>2, <2>3 DEF Left
  <2>7. Len(as.fams) \in Nat
    BY IssuerFacts DEF Known
  <2>8. Len(as.fams) <= Len(as.fams)
    BY <2>7
  <2> QED BY <2>2, <2>4, <2>5, <2>6, <2>8 DEF Tells, a
<1>3. ASSUME j = 3 PROVE Tells("prm", j, o)
  <2>1. o.s = as /\ o.mem = m /\ o.ok = (m.named /\ ~Has("noMetadata") /\ ~Has("otherIssuer")) /\ a = {}
    BY <1>3 DEF Checklist, Asked, ProtectedResource, Outcome
  <2>2. Left("prm", j + 1, as, m) /\ (Left("prm", j, as, m) => m.named)
    BY <1>3 DEF Left
  <2>3. Left("prm", j, as, m) /\ faults = {} => o.ok
    BY <2>1, <2>2 DEF Has
  <2>4. o.ok \in BOOLEAN
    BY <2>1
  <2> HIDE DEF o, a
  <2> QED BY <2>1, <2>2, <2>3, <2>4, LookTells DEF a
<1>4. j \in {1, 2, 3}
  OBVIOUS
<1> HIDE DEF o
<1>5. Tells("prm", j, o)
  BY <1>1, <1>2, <1>3, <1>4
<1> QED BY <1>5 DEF o

\* A probe that asks and remembers nothing.
LEMMA OutcomeTells ==
  ASSUME NEW row, NEW at \in Nat, NEW o, row = "refresh" => at >= 2, Known(row, at, as, probe.mem),
         Keeps(as, o.s), o.mem = probe.mem, o.ok \in BOOLEAN,
         o.ok /\ Left(row, at, as, probe.mem) => Asked[row][at] \cap faults = {} /\ Left(row, at + 1, o.s, probe.mem),
         Left(row, at, as, probe.mem) /\ as.consent /\ faults = {} => o.ok
  PROVE  Tells(row, at, o)
<1>1. Len(as.fams) \in Nat /\ Len(o.s.fams) \in Nat
  BY IssuerFacts DEF Known, Keeps
<1>2. 1..Len(as.fams) \subseteq 1..Len(o.s.fams)
  <2> DEFINE x == Len(as.fams)
             y == Len(o.s.fams)
  <2>1. x \in Nat /\ y \in Nat /\ x <= y
    BY <1>1 DEF Keeps
  <2> HIDE DEF x, y
  <2>2. 1..x \subseteq 1..y
    BY <2>1
  <2> QED BY <2>2 DEF x, y
<1>3. /\ o.s \in Issuer /\ o.s.consent = as.consent /\ Len(as.fams) <= Len(o.s.fams) /\ probe.mem \in Memory
      /\ probe.mem.grant.ok => probe.mem.grant.id \in 1..Len(o.s.fams)
      /\ row = "refresh" /\ at >= 2 => probe.mem.grant.ok
  BY <1>2 DEF Known, Keeps
<1>4. Known("none", 0, o.s, probe.mem)
  BY <1>3 DEF Known
<1> QED BY <1>3, <1>4 DEF Tells

\* Discovery keeps the clients, the families and the consent.
LEMMA KeepsFresh ==
  ASSUME NEW s \in Issuer
  PROVE  /\ Keeps(s, Fresh(s)) /\ Fresh(s).r.ok = ~Has("noMetadata")
         /\ Fresh(s) \in Issuer /\ Fresh(s).consent = s.consent
<1>1. Fresh(s) \in Issuer /\ Fresh(s).r.ok = ~Has("noMetadata") /\ Fresh(s).clients = s.clients
      /\ Fresh(s).fams = s.fams /\ Fresh(s).consent = s.consent
  BY FreshFacts
<1> QED BY <1>1, IssuerFacts DEF Keeps

\* So does a registration,
LEMMA RegistersKeeps ==
  ASSUME NEW s \in Issuer, NEW t, NEW scope, NEW why, Registers(s, scope, why, t)
  PROVE  Keeps(s, t)
BY IssuerFacts DEF Registers, Keeps

\* an authorization,
LEMMA AuthorizesKeeps ==
  ASSUME NEW s \in Issuer, NEW t, NEW client, NEW resource, NEW why, Authorizes(s, client, resource, why, t)
  PROVE  Keeps(s, t)
BY IssuerFacts DEF Authorizes, Keeps

\* a code for a new client,
LEMMA CodedKeeps ==
  ASSUME NEW s \in Issuer, NEW t, NEW resource, Coded(s, resource, t)
  PROVE  Keeps(s, t)
BY IssuerFacts DEF Coded, Keeps

\* and an exchange.
LEMMA ExchangesKeeps ==
  ASSUME NEW s \in Issuer, NEW t, NEW client, NEW code, NEW why, Exchanges(s, client, code, why, t)
  PROVE  Keeps(s, t)
BY IssuerFacts DEF Exchanges, Keeps

\* Each probe of the registration row tells of the faults it asks about.
LEMMA RegistrationTells ==
  ASSUME NEW j \in 1..4, Known("registration", j, as, probe.mem)
  PROVE  Tells("registration", j, Registration(as, Checklist["registration"][j]))
<1> DEFINE a == Asked["registration"][j]
           o == Registration(as, Checklist["registration"][j])
           m == probe.mem
           f == Fresh(as)
<1>0. as \in Issuer /\ f \in Issuer /\ Keeps(as, f) /\ f.r.ok = ~Has("noMetadata") /\ f.consent = as.consent
  BY KeepsFresh DEF Known
<1>l. Left("registration", j, as, m) /\ \A s: Left("registration", j + 1, s, m)
  BY DEF Left
<1>1. ASSUME j = 1 PROVE Tells("registration", j, o)
  <2> DEFINE c == Client(f, "default")
  <2>1. o = Outcome(c, c.r.ok) /\ a = {}
    BY <1>1 DEF Checklist, Asked, Registration
  <2> HIDE DEF f
  <2>2. Registers(f, "default", "none", c)
    BY <1>0, ClientFacts
  <2>3. o.s = c /\ o.ok = c.r.ok /\ o.mem = m
    BY <2>1 DEF Outcome
  <2> HIDE DEF c, o
  <2>4. Keeps(as, c) /\ c.r.ok = f.r.ok
    BY <1>0, <2>2, RegistersKeeps, KeepsTwice, IssuerFacts DEF Registers
  <2>5. o.ok \in BOOLEAN /\ (faults = {} => o.ok)
    BY <1>0, <2>3, <2>4 DEF Has
  <2> HIDE DEF a
  <2> QED BY <1>1, <1>l, <2>1, <2>3, <2>4, <2>5, OutcomeTells DEF a
<1>2. ASSUME j = 2 PROVE Tells("registration", j, o)
  <2> DEFINE c == Register(f, FALSE, "default")
             why == RegisterError(FALSE, "default")
  <2>1. o = Outcome(c, Refused(f, c, {"invalid_redirect_uri", "invalid_client_metadata"})) /\ a = {"plainRedirect"}
    BY <1>2 DEF Checklist, Asked, Registration
  <2> HIDE DEF f
  <2>2. Registers(f, "default", why, c)
    BY <1>0, RegisterFacts DEF Scopes
  <2>3. why = IF Has("plainRedirect") THEN "none" ELSE "invalid_redirect_uri"
    BY DEF RegisterError
  <2>4. o.s = c /\ o.ok = Refused(f, c, {"invalid_redirect_uri", "invalid_client_metadata"}) /\ o.mem = m
    BY <2>1 DEF Outcome
  <2> HIDE DEF c, o, why
  <2>5. Keeps(as, c)
    BY <1>0, <2>2, RegistersKeeps, KeepsTwice, IssuerFacts
  <2>6. o.ok \in BOOLEAN
    BY <2>4 DEF Refused
  <2>7. o.ok => ~Has("plainRedirect")
    BY <1>0, <2>2, <2>3, <2>4 DEF Refused, Registers
  <2>8. faults = {} => o.ok
    BY <1>0, <2>2, <2>3, <2>4 DEF Refused, Registers, Has
  <2>9. o.ok => a \cap faults = {}
    BY <2>1, <2>7 DEF Has
  <2> HIDE DEF a
  <2> QED BY <1>2, <1>l, <2>4, <2>5, <2>6, <2>8, <2>9, OutcomeTells DEF a
<1>3. ASSUME j = 3 PROVE Tells("registration", j, o)
  <2> DEFINE c == Register(f, TRUE, "unknown")
             why == RegisterError(TRUE, "unknown")
  <2>1. o = Outcome(c, Refused(f, c, {"invalid_client_metadata", "invalid_scope"})) /\ a = {"dropsUnknownScope"}
    BY <1>3 DEF Checklist, Asked, Registration
  <2> HIDE DEF f
  <2>2. Registers(f, "unknown", why, c)
    BY <1>0, RegisterFacts DEF Scopes
  <2>3. why = IF Has("dropsUnknownScope") THEN "none" ELSE "invalid_client_metadata"
    BY DEF RegisterError
  <2>4. o.s = c /\ o.ok = Refused(f, c, {"invalid_client_metadata", "invalid_scope"}) /\ o.mem = m
    BY <2>1 DEF Outcome
  <2> HIDE DEF c, o, why
  <2>5. Keeps(as, c)
    BY <1>0, <2>2, RegistersKeeps, KeepsTwice, IssuerFacts
  <2>6. o.ok \in BOOLEAN
    BY <2>4 DEF Refused
  <2>7. o.ok => ~Has("dropsUnknownScope")
    BY <1>0, <2>2, <2>3, <2>4 DEF Refused, Registers
  <2>8. faults = {} => o.ok
    BY <1>0, <2>2, <2>3, <2>4 DEF Refused, Registers, Has
  <2>9. o.ok => a \cap faults = {}
    BY <2>1, <2>7 DEF Has
  <2> HIDE DEF a
  <2> QED BY <1>3, <1>l, <2>4, <2>5, <2>6, <2>8, <2>9, OutcomeTells DEF a
<1>4. ASSUME j = 4 PROVE Tells("registration", j, o)
  <2> DEFINE n == Client(f, "narrow")
             c == Authorize(n, n.r.client, "here", "excess", "S256", TRUE)
             why == AuthorizeError(n, n.r.client, "here", "excess", "S256", TRUE)
  <2>1. o = Outcome(c, Refused(n, c, {"invalid_scope"})) /\ a = {"narrowsScope"}
    BY <1>4 DEF Checklist, Asked, Registration
  <2> HIDE DEF f
  <2>2. Registers(f, "narrow", "none", n)
    BY <1>0, ClientFacts
  <2> HIDE DEF n
  <2>3. n \in Issuer /\ n.r.client \in Nat /\ n.r.ok = f.r.ok /\ Keeps(as, n)
    BY <1>0, <2>2, RegistersKeeps, KeepsTwice, IssuerFacts DEF Registers
  <2>4. Authorizes(n, n.r.client, "here", why, c)
    BY <2>3, AuthorizeFacts DEF Resources
  <2>5. n.r.ok => n.clients[n.r.client] = "narrow"
    <3> SUFFICES ASSUME n.r.ok PROVE n.clients[n.r.client] = "narrow"
      OBVIOUS
    <3>1. n.clients = Append(f.clients, "narrow") /\ n.r.client = Len(f.clients) + 1
      BY <2>2 DEF Registers
    <3> QED BY <1>0, <3>1, IssuerFacts
  <2>6. /\ Has("narrowsScope") => why \in {"none", "access_denied"}
        /\ n.r.ok /\ ~Has("narrowsScope") => why = "invalid_scope"
    BY <2>5 DEF AuthorizeError
  <2>7. o.s = c /\ o.ok = Refused(n, c, {"invalid_scope"}) /\ o.mem = m
    BY <2>1 DEF Outcome
  <2> HIDE DEF c, o, why
  <2>8. Keeps(as, c)
    BY <1>0, <2>3, <2>4, AuthorizesKeeps, KeepsTwice
  <2>9. o.ok \in BOOLEAN
    BY <2>7 DEF Refused
  <2>10. o.ok => ~Has("narrowsScope")
    BY <2>3, <2>4, <2>6, <2>7 DEF Refused, Authorizes
  <2>11. faults = {} => o.ok
    BY <1>0, <2>3, <2>4, <2>6, <2>7 DEF Refused, Authorizes, Has
  <2>12. o.ok => a \cap faults = {}
    BY <2>1, <2>10 DEF Has
  <2> HIDE DEF a
  <2> QED BY <1>4, <1>l, <2>7, <2>8, <2>9, <2>11, <2>12, OutcomeTells DEF a
<1>5. j \in {1, 2, 3, 4}
  OBVIOUS
<1> HIDE DEF o
<1>6. Tells("registration", j, o)
  BY <1>1, <1>2, <1>3, <1>4, <1>5
<1> QED BY <1>6 DEF o

\* An issuer with the same clients, families and consent is kept.
LEMMA SameKeeps ==
  ASSUME NEW s \in Issuer, NEW t \in Issuer, t.clients = s.clients, t.fams = s.fams, t.consent = s.consent
  PROVE  Keeps(s, t)
BY IssuerFacts DEF Keeps

\* An index stays one when a sequence grows.
LEMMA RangesGrow ==
  ASSUME NEW i, NEW m \in Nat, NEW n \in Nat, m <= n, i \in 1..m
  PROVE  i \in 1..n
OBVIOUS

\* The issuer before the requests of a client that is registered already.
Begun(s, client, t) ==
  /\ t \in Issuer /\ t.r.ok = ~Has("noMetadata") /\ t.r.client = client
  /\ t.clients = s.clients /\ t.fams = s.fams /\ t.consent = s.consent

\* A probe of the code row begins with discovery and the row's client.
LEMMA BegunFacts ==
  ASSUME NEW s \in Issuer, NEW client \in Nat
  PROVE  Begun(s, client, [Fresh(s) EXCEPT !.r.client = client])
<1> DEFINE f == Fresh(s)
           r == [f.r EXCEPT !.client = client]
           me == [f EXCEPT !.r.client = client]
<1>1. f \in Issuer /\ f.r.ok = ~Has("noMetadata") /\ f.clients = s.clients /\ f.fams = s.fams /\ f.consent = s.consent
  BY FreshFacts
<1> HIDE DEF f
<1>2. f.r \in Response
  BY <1>1, IssuerFacts
<1>3. r \in Response /\ r.ok = f.r.ok /\ r.client = client
  BY <1>2 DEF Response
<1>4. me = [f EXCEPT !.r = r]
  BY DEF r
<1> HIDE DEF r, me
<1>5. /\ me \in Issuer /\ me.clients = f.clients /\ me.fams = f.fams /\ me.consent = f.consent /\ me.r = r
  BY <1>1, <1>3, <1>4, Answered
<1> QED BY <1>1, <1>3, <1>5 DEF me, f, Begun

\* What the probes of the code row leave to one another: the client.
LEMMA LeftCode ==
  \A at \in 2..9: \A s, m: Left("code", at, s, m) <=> m.client \in 1..Len(s.clients)
BY DEF Left

\* What is left to show of a probe of the code row.
LEMMA CodeOutcome ==
  ASSUME NEW j \in 2..8, NEW o, Known("code", j, as, probe.mem),
         Keeps(as, o.s), o.mem = probe.mem, o.ok \in BOOLEAN,
         o.ok => Asked["code"][j] \cap faults = {},
         Left("code", j, as, probe.mem) /\ faults = {} => o.ok
  PROVE  Tells("code", j, o)
<1> DEFINE m == probe.mem
<1>1. \A at \in 2..9: \A s: Left("code", at, s, m) <=> m.client \in 1..Len(s.clients)
  BY LeftCode
<1>2. j \in 2..9 /\ j + 1 \in 2..9 /\ j \in Nat
  OBVIOUS
<1>3. ASSUME Left("code", j, as, m) PROVE Left("code", j + 1, o.s, m)
  <2> HIDE DEF m
  <2>1. m.client \in 1..Len(as.clients)
    BY <1>1, <1>2, <1>3
  <2>2. Len(as.clients) \in Nat /\ Len(o.s.clients) \in Nat /\ Len(as.clients) <= Len(o.s.clients)
    BY IssuerFacts DEF Keeps, Known
  <2>3. m.client \in 1..Len(o.s.clients)
    BY <2>1, <2>2, RangesGrow
  <2> QED BY <1>1, <1>2, <2>3
<1>4. o.ok /\ Left("code", j, as, probe.mem) =>
        Asked["code"][j] \cap faults = {} /\ Left("code", j + 1, o.s, probe.mem)
  BY <1>3
<1>5. "code" = "refresh" => j >= 2
  OBVIOUS
<1> QED BY <1>2, <1>4, <1>5, OutcomeTells

\* Each probe of the authorization code row tells of the faults it asks about.
LEMMA AuthorizationCodeTells ==
  ASSUME NEW j \in 1..8, Known("code", j, as, probe.mem), as.consent
  PROVE  Tells("code", j, AuthorizationCode(as, Checklist["code"][j]))
<1> DEFINE a == Asked["code"][j]
           o == AuthorizationCode(as, Checklist["code"][j])
           m == probe.mem
           me == [Fresh(as) EXCEPT !.r.client = probe.mem.client]
           c == CodeFor(me, "here")
           k == c.codes[c.r.id]
<1>0. as \in Issuer /\ m \in Memory /\ m.client \in Nat
  BY MemoryFacts DEF Known
<1>a. /\ me \in Issuer /\ me.r.ok = ~Has("noMetadata") /\ me.r.client = m.client
      /\ me.clients = as.clients /\ me.fams = as.fams /\ me.consent = TRUE
  <2>1. Begun(as, m.client, me)
    BY <1>0, BegunFacts
  <2> HIDE DEF me, m
  <2>2. as.consent = TRUE
    BY <1>0, IssuerFacts
  <2> QED BY <2>1, <2>2 DEF Begun
<1>b. Keeps(as, me)
  <2> HIDE DEF me, m
  <2> QED BY <1>0, <1>a, IssuerFacts, SameKeeps
<1>c. /\ c \in Issuer /\ c.consent = TRUE /\ c.r.ok = me.r.ok /\ c.clients = as.clients /\ Keeps(as, c)
      /\ c.r.client \in Nat
      /\ c.r.ok => /\ c.r.client = m.client /\ c.r.id \in 1..Len(c.codes)
                   /\ k.client = c.r.client /\ k.used = FALSE
  <2> HIDE DEF me
  <2>1. Coded(me, "here", c)
    BY <1>a, CodeForFacts
  <2> HIDE DEF c
  <2>2. Keeps(as, c)
    BY <1>0, <1>b, <2>1, CodedKeeps, KeepsTwice, <1>a
  <2>3. /\ c \in Issuer /\ c.consent = me.consent /\ c.r.ok = (me.r.ok /\ me.consent) /\ c.clients = me.clients
        /\ c.r.ok => /\ c.r.client = me.r.client /\ c.r.id \in 1..Len(c.codes)
                     /\ c.codes[c.r.id] = [client |-> c.r.client, resource |-> "here", used |-> FALSE]
    BY <2>1 DEF Coded
  <2>4. c.r.client \in Nat /\ me.r.ok \in BOOLEAN
    BY <1>a, <2>3, IssuerFacts
  <2>5. c.r.ok => k.client = c.r.client /\ k.used = FALSE
    BY <2>3
  <2> HIDE DEF k
  <2> QED BY <1>a, <2>2, <2>3, <2>4, <2>5
<1>1. ASSUME j = 1 PROVE Tells("code", j, o)
  <2> DEFINE f == Fresh(as)
             n == Client(f, "default")
             m2 == [m EXCEPT !.client = n.r.client]
  <2>1. o = Remember(n, n.r.ok, m2) /\ a = {}
    BY <1>1 DEF Checklist, Asked, AuthorizationCode
  <2>2. f \in Issuer /\ Keeps(as, f) /\ f.r.ok = ~Has("noMetadata")
    BY <1>0, KeepsFresh
  <2> HIDE DEF f
  <2>3. Registers(f, "default", "none", n)
    BY <2>2, ClientFacts
  <2>4. o.s = n /\ o.ok = n.r.ok /\ o.mem = m2
    BY <2>1 DEF Remember
  <2> HIDE DEF n, o
  <2>5. Keeps(as, n) /\ n.r.ok = f.r.ok /\ n.r.client \in Nat /\ n \in Issuer
    BY <1>0, <2>2, <2>3, RegistersKeeps, KeepsTwice, IssuerFacts DEF Registers
  <2>6. m2 \in Memory /\ m2.grant = m.grant /\ m2.client = n.r.client
    <3> HIDE DEF m
    <3> QED BY <1>0, <2>5 DEF Memory
  <2>7. n.r.ok => n.r.client \in 1..Len(n.clients)
    <3> SUFFICES ASSUME n.r.ok PROVE n.r.client \in 1..Len(n.clients)
      OBVIOUS
    <3>1. Len(n.clients) = Len(f.clients) + 1 /\ n.r.client = Len(f.clients) + 1 /\ Len(f.clients) \in Nat
      BY <2>2, <2>3, IssuerFacts DEF Registers
    <3> QED BY <3>1
  <2> HIDE DEF m2, a
  <2>8. Left("code", 2, n, m2) <=> m2.client \in 1..Len(n.clients)
    BY DEF Left
  <2>9. 1..Len(as.fams) \subseteq 1..Len(n.fams)
    <3> DEFINE x == Len(as.fams)
               y == Len(n.fams)
    <3>1. x \in Nat /\ y \in Nat /\ x <= y
      BY <1>0, <2>5, IssuerFacts DEF Keeps
    <3> HIDE DEF x, y
    <3>2. 1..x \subseteq 1..y
      BY <3>1
    <3> QED BY <3>2 DEF x, y
  <2>10. Known("none", 0, n, m2)
    BY <2>5, <2>6, <2>9 DEF Known
  <2>11. n.consent = as.consent /\ Len(as.fams) <= Len(n.fams) /\ n.r.ok \in BOOLEAN /\ (faults = {} => n.r.ok)
    BY <2>2, <2>5 DEF Keeps, Has
  <2>12. a \cap faults = {} /\ 1 + 1 = 2
    BY <2>1
  <2> QED BY <1>1, <2>4, <2>6, <2>7, <2>8, <2>10, <2>11, <2>12 DEF Tells, a

<1>2. ASSUME j = 2 PROVE Tells("code", j, o)
  <2> DEFINE x == Authorize(me, me.r.client, "here", "narrow", "plain", TRUE)
             why == AuthorizeError(me, me.r.client, "here", "narrow", "plain", TRUE)
  <2>1. o = Outcome(x, me.r.ok /\ ~x.r.ok) /\ a = {"plainChallenge"}
    BY <1>2 DEF Checklist, Asked, AuthorizationCode
  <2> HIDE DEF me
  <2>2. Authorizes(me, me.r.client, "here", why, x)
    BY <1>0, <1>a, AuthorizeFacts DEF Resources
  <2>3. why = IF Has("plainChallenge") THEN "none" ELSE "invalid_request"
    BY <1>a DEF AuthorizeError
  <2>4. o.s = x /\ o.ok = (me.r.ok /\ ~x.r.ok) /\ o.mem = m
    BY <2>1 DEF Outcome
  <2> HIDE DEF x, o, why
  <2>5. Keeps(as, x)
    BY <1>0, <1>a, <1>b, <2>2, AuthorizesKeeps, KeepsTwice
  <2>6. o.ok \in BOOLEAN
    BY <2>4
  <2>7. o.ok => ~Has("plainChallenge")
    BY <1>a, <2>2, <2>3, <2>4 DEF Refused, Authorizes
  <2>8. faults = {} => o.ok
    BY <1>a, <2>2, <2>3, <2>4 DEF Refused, Authorizes, Has
  <2>9. o.ok => a \cap faults = {}
    BY <2>1, <2>7 DEF Has
  <2>u. Keeps(as, o.s) /\ o.mem = probe.mem /\ (Left("code", j, as, probe.mem) /\ faults = {} => o.ok)
    BY <2>4, <2>5, <2>6, <2>8, <2>9
  <2>v. j \in 2..8 /\ (o.ok => Asked["code"][j] \cap faults = {})
    BY <1>2, <2>4, <2>5, <2>6, <2>8, <2>9 DEF a
  <2> HIDE DEF m, k
  <2> QED BY <2>6, <2>u, <2>v, CodeOutcome
<1>3. ASSUME j = 3 PROVE Tells("code", j, o)
  <2> DEFINE x == Authorize(me, me.r.client, "here", "narrow", "none", TRUE)
             why == AuthorizeError(me, me.r.client, "here", "narrow", "none", TRUE)
  <2>1. o = Outcome(x, me.r.ok /\ ~x.r.ok) /\ a = {"noChallenge"}
    BY <1>3 DEF Checklist, Asked, AuthorizationCode
  <2> HIDE DEF me
  <2>2. Authorizes(me, me.r.client, "here", why, x)
    BY <1>0, <1>a, AuthorizeFacts DEF Resources
  <2>3. why = IF Has("noChallenge") THEN "none" ELSE "invalid_request"
    BY <1>a DEF AuthorizeError
  <2>4. o.s = x /\ o.ok = (me.r.ok /\ ~x.r.ok) /\ o.mem = m
    BY <2>1 DEF Outcome
  <2> HIDE DEF x, o, why
  <2>5. Keeps(as, x)
    BY <1>0, <1>a, <1>b, <2>2, AuthorizesKeeps, KeepsTwice
  <2>6. o.ok \in BOOLEAN
    BY <2>4
  <2>7. o.ok => ~Has("noChallenge")
    BY <1>a, <2>2, <2>3, <2>4 DEF Refused, Authorizes
  <2>8. faults = {} => o.ok
    BY <1>a, <2>2, <2>3, <2>4 DEF Refused, Authorizes, Has
  <2>9. o.ok => a \cap faults = {}
    BY <2>1, <2>7 DEF Has
  <2>u. Keeps(as, o.s) /\ o.mem = probe.mem /\ (Left("code", j, as, probe.mem) /\ faults = {} => o.ok)
    BY <2>4, <2>5, <2>6, <2>8, <2>9
  <2>v. j \in 2..8 /\ (o.ok => Asked["code"][j] \cap faults = {})
    BY <1>3, <2>4, <2>5, <2>6, <2>8, <2>9 DEF a
  <2> HIDE DEF m, k
  <2> QED BY <2>6, <2>u, <2>v, CodeOutcome
<1>4. ASSUME j = 4 PROVE Tells("code", j, o)
  <2> DEFINE x == Authorize(me, me.r.client, "here", "narrow", "S256", FALSE)
             why == AuthorizeError(me, me.r.client, "here", "narrow", "S256", FALSE)
  <2>1. o = Outcome(x, Refused(me, x, {"access_denied"})) /\ a = {"codeOnDenial"}
    BY <1>4 DEF Checklist, Asked, AuthorizationCode
  <2> HIDE DEF me
  <2>2. Authorizes(me, me.r.client, "here", why, x)
    BY <1>0, <1>a, AuthorizeFacts DEF Resources
  <2>3. why = IF Has("codeOnDenial") THEN "none" ELSE "access_denied"
    BY <1>a DEF AuthorizeError
  <2>4. o.s = x /\ o.ok = (Refused(me, x, {"access_denied"})) /\ o.mem = m
    BY <2>1 DEF Outcome
  <2> HIDE DEF x, o, why
  <2>5. Keeps(as, x)
    BY <1>0, <1>a, <1>b, <2>2, AuthorizesKeeps, KeepsTwice
  <2>6. o.ok \in BOOLEAN
    BY <2>4 DEF Refused
  <2>7. o.ok => ~Has("codeOnDenial")
    BY <1>a, <2>2, <2>3, <2>4 DEF Refused, Authorizes
  <2>8. faults = {} => o.ok
    BY <1>a, <2>2, <2>3, <2>4 DEF Refused, Authorizes, Has
  <2>9. o.ok => a \cap faults = {}
    BY <2>1, <2>7 DEF Has
  <2>u. Keeps(as, o.s) /\ o.mem = probe.mem /\ (Left("code", j, as, probe.mem) /\ faults = {} => o.ok)
    BY <2>4, <2>5, <2>6, <2>8, <2>9
  <2>v. j \in 2..8 /\ (o.ok => Asked["code"][j] \cap faults = {})
    BY <1>4, <2>4, <2>5, <2>6, <2>8, <2>9 DEF a
  <2> HIDE DEF m, k
  <2> QED BY <2>6, <2>u, <2>v, CodeOutcome
<1>5. ASSUME j = 5 PROVE Tells("code", j, o)
  <2> DEFINE x == Exchange(c, c.r.client, c.r.id, "main", FALSE, "none")
             why == ExchangeError(c, c.r.client, c.r.id, "main", FALSE, "none")
  <2>1. o = Outcome(x, Refused(c, x, {"invalid_grant"})) /\ a = {"anyVerifier"}
    BY <1>5 DEF Checklist, Asked, AuthorizationCode
  <2> HIDE DEF me, c
  <2>2. Exchanges(c, c.r.client, c.r.id, why, x)
    BY <1>c, ExchangeFacts DEF Resources
  <2>3. c.r.ok => why = IF Has("anyVerifier") THEN "none" ELSE "invalid_grant"
    <3> HIDE DEF k
    <3> QED BY <1>c DEF ExchangeError, k
  <2>4. o.s = x /\ o.ok = Refused(c, x, {"invalid_grant"}) /\ o.mem = m
    BY <2>1 DEF Outcome
  <2> HIDE DEF x, o, why
  <2>5. Keeps(as, x)
    <3>1. Keeps(c, x)
      BY <1>c, <2>2, ExchangesKeeps
    <3> QED BY <1>0, <1>c, <3>1, KeepsTwice
  <2>6. o.ok \in BOOLEAN
    BY <2>4 DEF Refused
  <2>7. o.ok => ~Has("anyVerifier")
    BY <2>2, <2>3, <2>4 DEF Refused, Exchanges
  <2>8. faults = {} => o.ok
    BY <1>a, <1>c, <2>2, <2>3, <2>4 DEF Refused, Exchanges, Has
  <2>9. o.ok => a \cap faults = {}
    BY <2>1, <2>7 DEF Has
  <2>u. Keeps(as, o.s) /\ o.mem = probe.mem /\ (Left("code", j, as, probe.mem) /\ faults = {} => o.ok)
    BY <2>4, <2>5, <2>6, <2>8, <2>9
  <2>v. j \in 2..8 /\ (o.ok => Asked["code"][j] \cap faults = {})
    BY <1>5, <2>4, <2>5, <2>6, <2>8, <2>9 DEF a
  <2> HIDE DEF m, k
  <2> QED BY <2>6, <2>u, <2>v, CodeOutcome
<1>6. ASSUME j = 6 PROVE Tells("code", j, o)
  <2> DEFINE x == Exchange(c, c.r.client, c.r.id, "alt", TRUE, "none")
             why == ExchangeError(c, c.r.client, c.r.id, "alt", TRUE, "none")
  <2>1. o = Outcome(x, Refused(c, x, {"invalid_grant"})) /\ a = {"anyRedirect"}
    BY <1>6 DEF Checklist, Asked, AuthorizationCode
  <2> HIDE DEF me, c
  <2>2. Exchanges(c, c.r.client, c.r.id, why, x)
    BY <1>c, ExchangeFacts DEF Resources
  <2>3. c.r.ok => why = IF Has("anyRedirect") THEN "none" ELSE "invalid_grant"
    <3> HIDE DEF k
    <3> QED BY <1>c DEF ExchangeError, k
  <2>4. o.s = x /\ o.ok = Refused(c, x, {"invalid_grant"}) /\ o.mem = m
    BY <2>1 DEF Outcome
  <2> HIDE DEF x, o, why
  <2>5. Keeps(as, x)
    <3>1. Keeps(c, x)
      BY <1>c, <2>2, ExchangesKeeps
    <3> QED BY <1>0, <1>c, <3>1, KeepsTwice
  <2>6. o.ok \in BOOLEAN
    BY <2>4 DEF Refused
  <2>7. o.ok => ~Has("anyRedirect")
    BY <2>2, <2>3, <2>4 DEF Refused, Exchanges
  <2>8. faults = {} => o.ok
    BY <1>a, <1>c, <2>2, <2>3, <2>4 DEF Refused, Exchanges, Has
  <2>9. o.ok => a \cap faults = {}
    BY <2>1, <2>7 DEF Has
  <2>u. Keeps(as, o.s) /\ o.mem = probe.mem /\ (Left("code", j, as, probe.mem) /\ faults = {} => o.ok)
    BY <2>4, <2>5, <2>6, <2>8, <2>9
  <2>v. j \in 2..8 /\ (o.ok => Asked["code"][j] \cap faults = {})
    BY <1>6, <2>4, <2>5, <2>6, <2>8, <2>9 DEF a
  <2> HIDE DEF m, k
  <2> QED BY <2>6, <2>u, <2>v, CodeOutcome
<1>7. ASSUME j = 7 PROVE Tells("code", j, o)
  <2> DEFINE n == Client(c, "default")
             x == Exchange(n, n.r.client, c.r.id, "main", TRUE, "none")
             why == ExchangeError(n, n.r.client, c.r.id, "main", TRUE, "none")
  <2>1. o = Outcome(x, Refused(c, x, {"invalid_grant"})) /\ a = {"anyClient"}
    BY <1>7 DEF Checklist, Asked, AuthorizationCode
  <2> HIDE DEF me, c
  <2>2. Registers(c, "default", "none", n)
    BY <1>c, ClientFacts
  <2> HIDE DEF n
  <2>3. /\ n \in Issuer /\ n.codes = c.codes /\ n.consent = TRUE /\ n.r.ok = c.r.ok /\ Keeps(as, n)
        /\ n.r.client \in Nat
        /\ n.r.ok => n.r.client = Len(c.clients) + 1
    BY <1>0, <1>c, <2>2, RegistersKeeps, KeepsTwice, IssuerFacts DEF Registers
  <2>4. Exchanges(n, n.r.client, c.r.id, why, x)
    BY <1>c, <2>3, ExchangeFacts DEF Resources
  <2>5. n.r.ok => why = IF n.r.client # k.client /\ ~Has("anyClient") THEN "invalid_grant" ELSE "none"
    <3> HIDE DEF k
    <3> QED BY <1>c, <2>3 DEF ExchangeError, k
  <2>6. n.r.ok /\ m.client \in 1..Len(as.clients) => n.r.client # k.client
    <3> SUFFICES ASSUME n.r.ok, m.client \in 1..Len(as.clients) PROVE n.r.client # k.client
      OBVIOUS
    <3>1. k.client = m.client /\ n.r.client = Len(as.clients) + 1 /\ Len(as.clients) \in Nat
      BY <1>0, <1>c, <2>3, IssuerFacts
    <3> DEFINE l == Len(as.clients)
               y == n.r.client
    <3>2. m.client \in 1..l /\ y = l + 1 /\ l \in Nat /\ k.client = m.client
      BY <3>1
    <3> HIDE DEF k, m, l, y
    <3>3. y # k.client
      BY <3>2
    <3> QED BY <3>3 DEF y
  <2>7. o.s = x /\ o.ok = Refused(c, x, {"invalid_grant"}) /\ o.mem = m
    BY <2>1 DEF Outcome
  <2> HIDE DEF x, o, why, k
  <2>8. Keeps(as, x)
    <3>1. Keeps(n, x)
      BY <2>3, <2>4, ExchangesKeeps
    <3> QED BY <1>0, <2>3, <3>1, KeepsTwice
  <2>9. o.ok \in BOOLEAN
    BY <2>7 DEF Refused
  <2>10. o.ok => ~Has("anyClient")
    BY <2>3, <2>4, <2>5, <2>7 DEF Refused, Exchanges
  <2>11. Left("code", j, as, m) => m.client \in 1..Len(as.clients)
    <3>1. j \in 2..9
      BY <1>7
    <3> HIDE DEF m
    <3> QED BY <3>1, LeftCode
  <2>12. Left("code", j, as, m) /\ faults = {} => o.ok
    BY <1>a, <1>c, <2>3, <2>4, <2>5, <2>6, <2>7, <2>11 DEF Refused, Exchanges, Has
  <2>13. o.ok => a \cap faults = {}
    BY <2>1, <2>10 DEF Has
  <2>u. Keeps(as, o.s) /\ o.mem = probe.mem /\ (Left("code", j, as, probe.mem) /\ faults = {} => o.ok)
    BY <2>7, <2>8, <2>9, <2>12, <2>13
  <2>v. j \in 2..8 /\ (o.ok => Asked["code"][j] \cap faults = {})
    BY <1>7, <2>7, <2>8, <2>9, <2>12, <2>13 DEF a
  <2> HIDE DEF m, k
  <2> QED BY <2>9, <2>u, <2>v, CodeOutcome
<1>8. ASSUME j = 8 PROVE Tells("code", j, o)
  <2> DEFINE n == Exchange(c, c.r.client, c.r.id, "main", TRUE, "none")
             first == ExchangeError(c, c.r.client, c.r.id, "main", TRUE, "none")
             x == Exchange(n, c.r.client, c.r.id, "main", TRUE, "none")
             why == ExchangeError(n, c.r.client, c.r.id, "main", TRUE, "none")
  <2>1. o = Outcome(x, Refused(n, x, {"invalid_grant"})) /\ a = {"codeReuse", "cacheable"}
    BY <1>8 DEF Checklist, Asked, AuthorizationCode
  <2> HIDE DEF me, c
  <2>2. Exchanges(c, c.r.client, c.r.id, first, n)
    BY <1>c, ExchangeFacts DEF Resources
  <2>3. c.r.ok => first = "none"
    <3> HIDE DEF k
    <3> QED BY <1>c DEF ExchangeError, k
  <2> HIDE DEF n, first
  <2>4. /\ n \in Issuer /\ n.consent = TRUE /\ Len(n.codes) = Len(c.codes) /\ Keeps(as, n)
        /\ n.r.ok = (c.r.ok /\ ~Has("cacheable"))
    <3>1. c.r.ok \in BOOLEAN
      BY <1>c, IssuerFacts
    <3>2. Keeps(c, n)
      BY <1>c, <2>2, ExchangesKeeps
    <3>3. Keeps(as, n)
      BY <1>0, <1>c, <3>2, KeepsTwice
    <3> QED BY <1>c, <2>2, <2>3, <3>1, <3>3 DEF Exchanges
  <2>5. n.r.ok => /\ c.r.id \in 1..Len(n.codes)
                  /\ n.codes[c.r.id].used = TRUE /\ n.codes[c.r.id].client = c.r.client
    <3> SUFFICES ASSUME n.r.ok PROVE /\ c.r.id \in 1..Len(n.codes)
                                     /\ n.codes[c.r.id].used = TRUE /\ n.codes[c.r.id].client = c.r.client
      OBVIOUS
    <3>1. n.codes[c.r.id] = [k EXCEPT !.used = TRUE] /\ c.r.ok
      BY <2>2, <2>4 DEF Exchanges
    <3>2. k \in Code
      BY <1>c, <3>1, IssuerFacts, ElementOfSeq
    <3>3. k.client = c.r.client
      BY <1>c, <3>1
    <3> HIDE DEF k
    <3> QED BY <1>c, <2>4, <3>1, <3>2, <3>3 DEF Code
  <2>6. Exchanges(n, c.r.client, c.r.id, why, x)
    BY <1>c, <2>4, <2>5, ExchangeFacts DEF Resources
  <2>7. n.r.ok => why = IF Has("codeReuse") THEN "none" ELSE "invalid_grant"
    BY <2>4, <2>5 DEF ExchangeError
  <2>8. o.s = x /\ o.ok = Refused(n, x, {"invalid_grant"}) /\ o.mem = m
    BY <2>1 DEF Outcome
  <2> HIDE DEF x, o, why, k
  <2>9. Keeps(as, x)
    <3>1. Keeps(n, x)
      BY <2>4, <2>6, ExchangesKeeps
    <3> QED BY <1>0, <2>4, <3>1, KeepsTwice
  <2>10. o.ok \in BOOLEAN
    BY <2>8 DEF Refused
  <2>11. o.ok => ~Has("codeReuse") /\ ~Has("cacheable")
    BY <2>4, <2>6, <2>7, <2>8 DEF Refused, Exchanges
  <2>12. faults = {} => o.ok
    BY <1>a, <1>c, <2>4, <2>6, <2>7, <2>8 DEF Refused, Exchanges, Has
  <2>13. o.ok => a \cap faults = {}
    BY <2>1, <2>11 DEF Has
  <2>u. Keeps(as, o.s) /\ o.mem = probe.mem /\ (Left("code", j, as, probe.mem) /\ faults = {} => o.ok)
    BY <2>8, <2>9, <2>10, <2>12, <2>13
  <2>v. j \in 2..8 /\ (o.ok => Asked["code"][j] \cap faults = {})
    BY <1>8, <2>8, <2>9, <2>10, <2>12, <2>13 DEF a
  <2> HIDE DEF m, k
  <2> QED BY <2>10, <2>u, <2>v, CodeOutcome
<1>9. j \in {1, 2, 3, 4, 5, 6, 7, 8}
  OBVIOUS
<1> HIDE DEF o
<1>10. Tells("code", j, o)
  BY <1>1, <1>2, <1>3, <1>4, <1>5, <1>6, <1>7, <1>8, <1>9
<1> QED BY <1>10 DEF o

\* The fields of an outcome.
LEMMA Records ==
  ASSUME NEW o, NEW t, NEW ok, NEW n, o = [s |-> t, ok |-> ok, mem |-> n]
  PROVE  o.s = t /\ o.ok = ok /\ o.mem = n
OBVIOUS

\* What the probes of the refresh row leave to one another: the family of
\* the first grant, at the generation they know, alive or ended.
LEMMA LeftRefresh ==
  \A s, m:
    /\ Left("refresh", 1, s, m) /\ Left("refresh", 6, s, m) /\ Left("refresh", 7, s, m)
    /\ Left("refresh", 2, s, m) <=> Stands(s, m.grant, m.grant.gen, FALSE)
    /\ Left("refresh", 3, s, m) <=> m.next # 0 /\ m.next # m.grant.gen /\ Stands(s, m.grant, m.next, FALSE)
    /\ Left("refresh", 4, s, m) <=> m.next # 0 /\ m.next # m.grant.gen /\ Stands(s, m.grant, m.next, FALSE)
    /\ Left("refresh", 5, s, m) <=> m.next # 0 /\ Stands(s, m.grant, m.next, ~Has("familySurvives"))
BY DEF Left

\* Past its first probe the refresh row has a grant.
LEMMA KnownRefresh ==
  ASSUME NEW j \in 2..6, NEW s, NEW m, Known("refresh", j, s, m)
  PROVE  /\ s \in Issuer /\ m \in Memory /\ m.grant.ok /\ m.grant.id \in 1..Len(s.fams)
         /\ m.grant.client \in Nat /\ m.grant.gen \in Nat /\ m.next \in Nat /\ Len(s.fams) \in Nat
<1>1. s \in Issuer /\ m \in Memory
  BY DEF Known
<1>2. m.grant.ok
  BY DEF Known
<1> QED BY <1>1, <1>2, MemoryFacts, IssuerFacts DEF Known

\* What is left to show of a probe of the refresh row.
LEMMA RefreshOutcome ==
  ASSUME NEW s, NEW m, s = as, m = probe.mem, NEW j \in 2..6, Known("refresh", j, s, m),
         NEW o, NEW t, NEW ok, NEW n, o = [s |-> t, ok |-> ok, mem |-> n],
         t \in Issuer, t.consent = s.consent, Len(s.fams) <= Len(t.fams),
         n \in Memory, n.grant = m.grant, ok \in BOOLEAN,
         ok /\ Left("refresh", j, s, m) =>
           Asked["refresh"][j] \cap faults = {} /\ Left("refresh", j + 1, t, n),
         Left("refresh", j, s, m) /\ faults = {} => ok
  PROVE  Tells("refresh", j, o)
<1>1. m.grant.ok /\ m.grant.id \in 1..Len(s.fams) /\ Len(s.fams) \in Nat /\ Len(t.fams) \in Nat
  BY KnownRefresh, IssuerFacts
<1>2. n.grant.id \in 1..Len(t.fams) /\ n.grant.ok
  BY <1>1, RangesGrow
<1>3. Known("none", 0, t, n)
  BY <1>2 DEF Known
<1>4. o.s = t /\ o.ok = ok /\ o.mem = n
  BY Records
<1> QED BY <1>2, <1>3, <1>4 DEF Tells

\* What a refresh of a family that stands is refused for, and whether the
\* refusal ends it.
Refusal(s, scope, gen, was, dead) ==
  IF dead \/ (~s.consent /\ ~Has("ignoresConsent")) \/ (gen # was /\ ~Has("replaysReused"))
  THEN "invalid_grant" ELSE IF scope = "excess" /\ ~Has("widens") THEN "invalid_scope" ELSE "none"
Ended(s, gen, was) ==
  \/ gen # was /\ ~Has("familySurvives") /\ ~Has("replaysReused")
  \/ ~s.consent /\ ~Has("consentReturns") /\ ~Has("ignoresConsent")

Renewed(s, client, fam, gen, was, dead, why, t) ==
  /\ t.r.ok = (s.r.ok /\ why = "none" /\ ~Has("cacheable"))
  /\ s.r.ok /\ why = "none" =>
       /\ t.r.why = "cacheable" /\ t.r.aud = "here"
       /\ t.r.gen = IF Has("noRotation") THEN gen ELSE was + 1
       /\ t.fams[fam] = [client |-> client, resource |-> "here", gen |-> t.r.gen, dead |-> dead]
  /\ s.r.ok /\ why # "none" =>
       /\ t.r.why = why
       /\ t.fams[fam] = [client |-> client, resource |-> "here", gen |-> was,
                         dead |-> dead \/ Ended(s, gen, was)]

\* A refresh of a family that is known exactly.
LEMMA RenewedFacts ==
  ASSUME NEW s, NEW t, NEW client, NEW fam, NEW gen, NEW scope, NEW was, NEW dead \in BOOLEAN,
         s.fams[fam] = [client |-> client, resource |-> "here", gen |-> was, dead |-> dead],
         Refreshes(s, fam, gen, RefreshError(s, client, fam, gen, scope, "none"), t)
  PROVE  Renewed(s, client, fam, gen, was, dead, Refusal(s, scope, gen, was, dead), t)
<1> DEFINE k == s.fams[fam]
           why == RefreshError(s, client, fam, gen, scope, "none")
<1>1. k.client = client /\ k.gen = was /\ k.dead = dead /\ k.resource = "here"
  OBVIOUS
<1>2. \A g: [k EXCEPT !.gen = g] = [client |-> client, resource |-> "here", gen |-> g, dead |-> dead]
  OBVIOUS
<1>3. \A d: [k EXCEPT !.dead = d] = [client |-> client, resource |-> "here", gen |-> was, dead |-> d]
  OBVIOUS
<1> HIDE DEF k
<1>4. why = Refusal(s, scope, gen, was, dead)
  BY <1>1 DEF RefreshError, Refusal, k
<1>5. Ends(s, fam, gen) = Ended(s, gen, was)
  BY <1>1 DEF Ends, Ended, k
<1> HIDE DEF why
<1>6. /\ t.r.ok = (s.r.ok /\ why = "none" /\ ~Has("cacheable"))
      /\ s.r.ok /\ why = "none" =>
           /\ t.r.why = "cacheable" /\ t.r.aud = k.resource
           /\ t.r.gen = IF Has("noRotation") THEN gen ELSE k.gen + 1
           /\ t.fams[fam] = [k EXCEPT !.gen = t.r.gen]
      /\ s.r.ok /\ why # "none" =>
           /\ t.r.why = why
           /\ t.fams[fam] = [k EXCEPT !.dead = k.dead \/ Ended(s, gen, was)]
  BY <1>5 DEF Refreshes, why, k
<1> QED BY <1>1, <1>2, <1>3, <1>4, <1>6 DEF Renewed

\* grant-issued tells of its faults, and leaves a family that stands.
LEMMA RefreshTellsFirst ==
  ASSUME NEW s, NEW m, s = as, m = probe.mem, Known("refresh", 1, s, m), s.consent
  PROVE  Tells("refresh", 1, RefreshGrants(s, "grant-issued"))
<1> DEFINE o == RefreshGrants(s, "grant-issued")
           w == Grant(s, "here")
           n == [m EXCEPT !.grant = w.r, !.next = 0]
<1>0. s \in Issuer /\ m \in Memory
  BY DEF Known
<1>1. o = [s |-> w, ok |-> w.r.ok, mem |-> n]
  BY DEF RefreshGrants, Remember
<1>2. Granted(s, "here", w)
  BY <1>0, GrantFacts
<1> HIDE DEF o, w
<1>4. /\ w \in Issuer /\ w.r \in Response /\ w.r.ok \in BOOLEAN /\ w.consent = s.consent
      /\ Len(s.fams) <= Len(w.fams)
      /\ w.r.ok = (~Has("noMetadata") /\ s.consent /\ ~Has("cacheable"))
  BY <1>2, IssuerFacts DEF Granted, Keeps
<1>5. n \in Memory /\ n.grant = w.r /\ n.next = 0
  BY <1>0, <1>4 DEF Memory
<1> HIDE DEF n
<1>3. o.s = w /\ o.ok = w.r.ok /\ o.mem = n
  BY <1>1, Records
<1>6. w.r.ok => w.r.id \in 1..Len(w.fams) /\ Stands(w, w.r, w.r.gen, FALSE)
  BY <1>2 DEF Granted, Stands
<1>7. Known("none", 0, w, n)
  BY <1>4, <1>5, <1>6 DEF Known
<1>8. w.r.ok => Left("refresh", 1 + 1, w, n)
  <2>1. 1 + 1 = 2
    OBVIOUS
  <2> QED BY <1>5, <1>6, <2>1, LeftRefresh
<1>9. Asked["refresh"][1] \cap faults = {}
  BY DEF Asked
<1>10. faults = {} => w.r.ok
  BY <1>4 DEF Has
<1>12. ~(1 >= 2)
  OBVIOUS
<1>11. Tells("refresh", 1, o)
  BY <1>3, <1>4, <1>5, <1>7, <1>8, <1>9, <1>10, <1>12 DEF Tells
<1> QED BY <1>11 DEF o

\* A refresh of the remembered grant.
Retried(s, g, gen, f, t) ==
  /\ t \in Issuer /\ t.consent = s.consent /\ Len(t.fams) = Len(s.fams)
  /\ f.r.ok = ~Has("noMetadata") /\ t.r.ok \in BOOLEAN /\ t.r.gen \in Nat
  /\ \A was: \A dead \in BOOLEAN: Stands(s, g, was, dead) =>
       /\ dead \/ (gen # was /\ ~Has("replaysReused")) =>
            /\ ~t.r.ok
            /\ f.r.ok => /\ t.r.why = "invalid_grant"
                         /\ Stands(t, g, was, dead \/ (gen # was /\ ~Has("familySurvives") /\ ~Has("replaysReused")))
       /\ ~dead /\ (gen = was \/ Has("replaysReused")) =>
            /\ t.r.ok = (f.r.ok /\ ~Has("cacheable"))
            /\ f.r.ok => /\ t.r.why = "cacheable" /\ t.r.aud = "here"
                         /\ t.r.gen = IF Has("noRotation") THEN gen ELSE was + 1
                         /\ Stands(t, g, t.r.gen, FALSE)

\* Discovery and a refresh of the row's grant at a given generation.
LEMMA RetriedFacts ==
  ASSUME NEW s \in Issuer, s.consent, NEW g, g.id \in 1..Len(s.fams), g.client \in Nat, NEW gen \in Nat
  PROVE  Retried(s, g, gen, Fresh(s), Refresh(Fresh(s), g.client, g.id, gen, "none", "none"))
<1> DEFINE f == Fresh(s)
           t == Refresh(f, g.client, g.id, gen, "none", "none")
<1>1. f \in Issuer /\ f.r.ok = ~Has("noMetadata") /\ f.fams = s.fams /\ f.consent = TRUE /\ s.consent = TRUE
  BY FreshFacts, IssuerFacts
<1> HIDE DEF f
<1>2. Refreshes(f, g.id, gen, RefreshError(f, g.client, g.id, gen, "none", "none"), t)
  BY <1>1, RefreshFacts DEF Resources
<1> HIDE DEF t
<1>3. /\ t \in Issuer /\ t.consent = s.consent /\ Len(t.fams) = Len(s.fams)
      /\ t.r.ok \in BOOLEAN /\ t.r.gen \in Nat
  BY <1>1, <1>2, IssuerFacts DEF Refreshes
<1>4. ASSUME NEW was, NEW dead \in BOOLEAN, Stands(s, g, was, dead)
      PROVE  /\ dead \/ (gen # was /\ ~Has("replaysReused")) =>
                  /\ ~t.r.ok
                  /\ f.r.ok => /\ t.r.why = "invalid_grant"
                               /\ Stands(t, g, was, dead \/ (gen # was /\ ~Has("familySurvives") /\ ~Has("replaysReused")))
             /\ ~dead /\ (gen = was \/ Has("replaysReused")) =>
                  /\ t.r.ok = (f.r.ok /\ ~Has("cacheable"))
                  /\ f.r.ok => /\ t.r.why = "cacheable" /\ t.r.aud = "here"
                               /\ t.r.gen = IF Has("noRotation") THEN gen ELSE was + 1
                               /\ Stands(t, g, t.r.gen, FALSE)
  <2>1. f.fams[g.id] = [client |-> g.client, resource |-> "here", gen |-> was, dead |-> dead]
    BY <1>1, <1>4 DEF Stands
  <2>2. Renewed(f, g.client, g.id, gen, was, dead, Refusal(f, "none", gen, was, dead), t)
    BY <1>2, <2>1, RenewedFacts
  <2>3. Refusal(f, "none", gen, was, dead)
          = IF dead \/ (gen # was /\ ~Has("replaysReused")) THEN "invalid_grant" ELSE "none"
    BY <1>1 DEF Refusal
  <2>4. Ended(f, gen, was) = (gen # was /\ ~Has("familySurvives") /\ ~Has("replaysReused"))
    BY <1>1 DEF Ended
  <2>5. CASE dead \/ (gen # was /\ ~Has("replaysReused"))
    <3>1. Refusal(f, "none", gen, was, dead) = "invalid_grant"
      BY <2>3, <2>5
    <3>2. Renewed(f, g.client, g.id, gen, was, dead, "invalid_grant", t)
      BY <2>2, <3>1
    <3> QED BY <2>4, <2>5, <3>2 DEF Renewed, Stands
  <2>6. CASE ~(dead \/ (gen # was /\ ~Has("replaysReused")))
    <3>1. Refusal(f, "none", gen, was, dead) = "none"
      BY <2>3, <2>6
    <3>2. Renewed(f, g.client, g.id, gen, was, FALSE, "none", t)
      BY <2>2, <2>6, <3>1
    <3> QED BY <2>6, <3>2 DEF Renewed, Stands
  <2> QED BY <2>5, <2>6
<1> QED BY <1>1, <1>3, <1>4 DEF Retried, f, t

\* refresh-rotates tells of its faults, and leaves the next generation.
LEMMA RefreshTellsRotation ==
  ASSUME NEW s, NEW m, s = as, m = probe.mem, Known("refresh", 2, s, m), s.consent
  PROVE  Tells("refresh", 2, RefreshGrants(s, "refresh-rotates"))
<1> DEFINE o == RefreshGrants(s, "refresh-rotates")
           g == m.grant
           f == Fresh(s)
           t == Refresh(f, g.client, g.id, g.gen, "none", "none")
           rotates == t.r.ok /\ t.r.gen # g.gen
           ok == rotates /\ Accepts("here", t.r.aud) /\ ~Accepts("other", t.r.aud)
           next == IF rotates THEN t.r.gen ELSE 0
           n == [m EXCEPT !.next = next]
<1>0. /\ s \in Issuer /\ m \in Memory /\ g.ok /\ g.id \in 1..Len(s.fams) /\ g.client \in Nat /\ g.gen \in Nat
      /\ Len(s.fams) \in Nat
  <2>1. 2 \in 2..6
    OBVIOUS
  <2> HIDE DEF o, f, t, ok, next, n
  <2> QED BY <2>1, KnownRefresh
<1>1. o = [s |-> t, ok |-> ok, mem |-> n]
  BY DEF RefreshGrants, Remember
<1> HIDE DEF o
<1>2. Retried(s, g, g.gen, f, t)
  BY <1>0, RetriedFacts
<1> HIDE DEF f, t, g
<1>3. /\ t \in Issuer /\ t.consent = s.consent /\ Len(t.fams) = Len(s.fams)
      /\ f.r.ok = ~Has("noMetadata") /\ t.r.ok \in BOOLEAN /\ t.r.gen \in Nat
  BY <1>2 DEF Retried
<1>4. ok \in BOOLEAN /\ next \in Nat
  BY <1>3 DEF Accepts
<1> HIDE DEF next
<1>5. n \in Memory /\ n.grant = m.grant /\ n.next = next
  BY <1>0, <1>4 DEF Memory
<1> HIDE DEF n
<1>6. ASSUME Left("refresh", 2, s, m)
      PROVE  /\ t.r.ok = (f.r.ok /\ ~Has("cacheable"))
             /\ f.r.ok => /\ t.r.aud = "here" /\ t.r.gen = IF Has("noRotation") THEN g.gen ELSE g.gen + 1
                          /\ Stands(t, g, t.r.gen, FALSE)
  <2>1. Stands(s, g, g.gen, FALSE)
    BY <1>6, LeftRefresh DEF g
  <2> QED BY <1>2, <2>1 DEF Retried
<1>7. ASSUME ok, Left("refresh", 2, s, m)
      PROVE  ~Has("noRotation") /\ Left("refresh", 3, t, n)
  <2>1. t.r.ok /\ t.r.gen # g.gen /\ next = t.r.gen
    BY <1>7 DEF next
  <2>a. f.r.ok /\ t.r.gen = (IF Has("noRotation") THEN g.gen ELSE g.gen + 1) /\ Stands(t, g, t.r.gen, FALSE)
    BY <1>3, <1>6, <1>7, <2>1
  <2>b. ~Has("noRotation") /\ t.r.gen = g.gen + 1
    BY <2>1, <2>a
  <2>2. ~Has("noRotation") /\ t.r.gen # 0 /\ Stands(t, g, t.r.gen, FALSE)
    <3> DEFINE x == g.gen
               y == t.r.gen
    <3>1. x \in Nat /\ y = x + 1
      BY <1>0, <2>b
    <3> HIDE DEF x, y
    <3>2. y # 0
      BY <3>1
    <3> QED BY <3>2, <2>a, <2>b DEF y
  <2>3. n.next # 0 /\ n.next # n.grant.gen /\ Stands(t, n.grant, n.next, FALSE)
    BY <1>5, <2>1, <2>2 DEF g
  <2> QED BY <2>2, <2>3, LeftRefresh
<1>8. ASSUME faults = {}, Left("refresh", 2, s, m) PROVE ok
  <2>1. ~Has("noMetadata") /\ ~Has("cacheable") /\ ~Has("noRotation") /\ ~Has("anyAudience")
    BY <1>8 DEF Has
  <2>a. t.r.ok /\ t.r.gen = g.gen + 1 /\ t.r.aud = "here"
    BY <1>3, <1>6, <1>8, <2>1
  <2>2. t.r.ok /\ t.r.gen # g.gen /\ t.r.aud = "here"
    <3> DEFINE x == g.gen
               y == t.r.gen
    <3>1. x \in Nat /\ y = x + 1
      BY <1>0, <2>a
    <3> HIDE DEF x, y
    <3>2. y # x
      BY <3>1
    <3> QED BY <3>2, <2>a DEF x, y
  <2> QED BY <2>1, <2>2 DEF Accepts
<1>9. Asked["refresh"][2] = {"noRotation"} /\ 2 + 1 = 3
  BY DEF Asked
<1> HIDE DEF ok
<1>10. ok /\ Left("refresh", 2, s, m) => Asked["refresh"][2] \cap faults = {} /\ Left("refresh", 2 + 1, t, n)
  BY <1>7, <1>9 DEF Has
<1>11. Len(s.fams) <= Len(t.fams)
  BY <1>0, <1>3
<1>12. Left("refresh", 2, s, m) /\ faults = {} => ok
  BY <1>8
<1>14. 2 \in 2..6
  OBVIOUS
<1> HIDE DEF rotates
<1>13. Tells("refresh", 2, o)
  BY <1>14, <1>1, <1>3, <1>4, <1>5, <1>10, <1>11, <1>12, RefreshOutcome
<1> QED BY <1>13 DEF o

\* A family stands as long as the families are kept.
LEMMA StandsKept ==
  ASSUME NEW s \in Issuer, NEW t, Keeps(s, t), NEW g, g.id \in 1..Len(s.fams), NEW gen, NEW dead, Stands(s, g, gen, dead)
  PROVE  Stands(t, g, gen, dead)
BY DEF Stands, Keeps

\* A refresh of a grant made for the purpose.
LEMMA GrantThenRefreshKeeps ==
  ASSUME NEW s \in Issuer, NEW w, NEW resource, Granted(s, resource, w), NEW gen, NEW why, NEW t, Refreshes(w, w.r.id, gen, why, t)
  PROVE  Keeps(s, t)
<1>1. /\ w \in Issuer /\ w.r.ok \in BOOLEAN /\ Len(s.fams) \in Nat /\ Len(w.fams) \in Nat /\ Len(s.fams) <= Len(w.fams)
  BY IssuerFacts DEF Granted, Keeps
<1>2. CASE ~w.r.ok
  BY <1>2 DEF Refreshes, Granted
<1>3. CASE w.r.ok
  <2>1. /\ t \in Issuer /\ t.clients = w.clients /\ t.consent = w.consent
        /\ Len(t.fams) = Len(w.fams) /\ \A i \in 1..Len(w.fams): i # w.r.id => t.fams[i] = w.fams[i]
    BY DEF Refreshes
  <2>2. w.r.id \notin 1..Len(s.fams) /\ Keeps(s, w)
    BY <1>3 DEF Granted
  <2>3. ASSUME NEW i \in 1..Len(s.fams) PROVE t.fams[i] = s.fams[i]
    <3>1. i \in 1..Len(w.fams) /\ i # w.r.id
      BY <1>1, <2>2, RangesGrow
    <3> QED BY <2>1, <2>2, <3>1 DEF Keeps
  <2> QED BY <2>1, <2>2, <2>3 DEF Keeps
<1> QED BY <1>1, <1>2, <1>3

\* refresh-rejects-widening tells of its faults.
LEMMA RefreshTellsWidening ==
  ASSUME NEW s, NEW m, s = as, m = probe.mem, Known("refresh", 3, s, m), s.consent
  PROVE  Tells("refresh", 3, RefreshGrants(s, "refresh-rejects-widening"))
<1> DEFINE o == RefreshGrants(s, "refresh-rejects-widening")
           g == m.grant
           w == Grant(s, "here")
           t == Refresh(w, w.r.client, w.r.id, w.r.gen, "excess", "none")
           ok == Refused(w, t, {"invalid_scope", "invalid_grant"})
<1>a. 3 \in 2..6 /\ Asked["refresh"][3] = {"widens"} /\ 3 + 1 = 4
  BY DEF Asked
<1>1. o = [s |-> t, ok |-> ok, mem |-> m]
  BY DEF RefreshGrants, Outcome
<1> HIDE DEF o
<1>0. s \in Issuer /\ m \in Memory /\ g.id \in 1..Len(s.fams) /\ Len(s.fams) \in Nat
  <2> HIDE DEF t, ok, w
  <2> QED BY <1>a, KnownRefresh
<1>2. Granted(s, "here", w)
  BY <1>0, GrantFacts
<1> HIDE DEF w
<1>3. /\ w \in Issuer /\ w.consent = TRUE /\ w.r.client \in Nat /\ w.r.gen \in Nat
      /\ w.r.ok = (~Has("noMetadata") /\ ~Has("cacheable"))
      /\ w.r.ok => /\ w.r.id \in 1..Len(w.fams) /\ w.r.gen = 1
                   /\ w.fams[w.r.id] = [client |-> w.r.client, resource |-> "here", gen |-> 1, dead |-> FALSE]
  BY <1>0, <1>2, IssuerFacts DEF Granted, Keeps
<1>4. Refreshes(w, w.r.id, w.r.gen, RefreshError(w, w.r.client, w.r.id, w.r.gen, "excess", "none"), t)
  BY <1>3, RefreshFacts DEF Resources
<1> HIDE DEF t
<1>5. Keeps(s, t)
  BY <1>0, <1>2, <1>4, GrantThenRefreshKeeps
<1>6. ASSUME w.r.ok
      PROVE  /\ ~Has("widens") => ~t.r.ok /\ t.r.why = "invalid_scope"
             /\ Has("widens") => t.r.ok = ~Has("cacheable")
  <2>1. Renewed(w, w.r.client, w.r.id, w.r.gen, 1, FALSE, Refusal(w, "excess", w.r.gen, 1, FALSE), t)
    BY <1>3, <1>4, <1>6, RenewedFacts
  <2>2. Refusal(w, "excess", w.r.gen, 1, FALSE) = IF Has("widens") THEN "none" ELSE "invalid_scope"
    BY <1>3, <1>6 DEF Refusal
  <2> QED BY <1>6, <2>1, <2>2 DEF Renewed
<1>7. ok \in BOOLEAN /\ (ok => ~Has("widens")) /\ (faults = {} => ok)
  BY <1>3, <1>6 DEF Refused, Has
<1> HIDE DEF ok
<1>8. Left("refresh", 3, s, m) => Left("refresh", 3 + 1, t, m)
  <2> SUFFICES ASSUME Left("refresh", 3, s, m) PROVE Left("refresh", 4, t, m)
    BY <1>a
  <2>1. m.next # 0 /\ m.next # m.grant.gen /\ Stands(s, m.grant, m.next, FALSE)
    BY LeftRefresh
  <2>2. Stands(t, m.grant, m.next, FALSE)
    BY <1>0, <1>5, <2>1, StandsKept
  <2> QED BY <2>1, <2>2, LeftRefresh
<1> HIDE DEF g
<1>9. ok /\ Left("refresh", 3, s, m) => Asked["refresh"][3] \cap faults = {} /\ Left("refresh", 3 + 1, t, m)
  BY <1>a, <1>7, <1>8 DEF Has
<1>10. t \in Issuer /\ t.consent = s.consent /\ Len(s.fams) <= Len(t.fams)
  BY <1>5 DEF Keeps
<1>11. Left("refresh", 3, s, m) /\ faults = {} => ok
  BY <1>7
<1>12. Tells("refresh", 3, o)
  BY <1>a, <1>0, <1>1, <1>7, <1>9, <1>10, <1>11, RefreshOutcome
<1> QED BY <1>12 DEF o

\* reused-refresh-rejected tells of its faults, and leaves the family ended
\* where the issuer ends it.
LEMMA RefreshTellsReuse ==
  ASSUME NEW s, NEW m, s = as, m = probe.mem, Known("refresh", 4, s, m), s.consent
  PROVE  Tells("refresh", 4, RefreshGrants(s, "reused-refresh-rejected"))
<1> DEFINE o == RefreshGrants(s, "reused-refresh-rejected")
           g == m.grant
           f == Fresh(s)
           t == Refresh(f, g.client, g.id, g.gen, "none", "none")
           ok == Refused(f, t, {"invalid_grant"})
<1>a. 4 \in 2..6 /\ Asked["refresh"][4] = {"replaysReused"} /\ 4 + 1 = 5
  BY DEF Asked
<1>1. o = [s |-> t, ok |-> ok, mem |-> m]
  BY DEF RefreshGrants, Outcome
<1> HIDE DEF o
<1>0. /\ s \in Issuer /\ m \in Memory /\ g.id \in 1..Len(s.fams) /\ g.client \in Nat /\ g.gen \in Nat
      /\ Len(s.fams) \in Nat
  <2> HIDE DEF t, ok, f
  <2> QED BY <1>a, KnownRefresh
<1>2. Retried(s, g, g.gen, f, t)
  BY <1>0, RetriedFacts
<1> HIDE DEF f, t, g
<1>3. /\ t \in Issuer /\ t.consent = s.consent /\ Len(t.fams) = Len(s.fams)
      /\ f.r.ok = ~Has("noMetadata") /\ t.r.ok \in BOOLEAN
  BY <1>2 DEF Retried
<1>4. ok \in BOOLEAN
  BY DEF Refused
<1>5. ASSUME Left("refresh", 4, s, m)
      PROVE  /\ m.next # 0
             /\ ~Has("replaysReused") =>
                  /\ ~t.r.ok
                  /\ f.r.ok => t.r.why = "invalid_grant" /\ Stands(t, g, m.next, ~Has("familySurvives"))
             /\ Has("replaysReused") => (f.r.ok => t.r.why = "cacheable")
  <2>1. m.next # 0 /\ g.gen # m.next /\ Stands(s, g, m.next, FALSE)
    BY <1>5, LeftRefresh DEF g
  <2>2. /\ ~Has("replaysReused") =>
             /\ ~t.r.ok
             /\ f.r.ok => /\ t.r.why = "invalid_grant"
                          /\ Stands(t, g, m.next, FALSE \/ (g.gen # m.next /\ ~Has("familySurvives") /\ ~Has("replaysReused")))
        /\ Has("replaysReused") => (f.r.ok => t.r.why = "cacheable")
    BY <1>2, <2>1 DEF Retried
  <2>3. ~Has("replaysReused") =>
          (FALSE \/ (g.gen # m.next /\ ~Has("familySurvives") /\ ~Has("replaysReused"))) = ~Has("familySurvives")
    BY <2>1
  <2> QED BY <2>1, <2>2, <2>3
<1>6. ASSUME ok, Left("refresh", 4, s, m)
      PROVE  ~Has("replaysReused") /\ Left("refresh", 5, t, m)
  <2>1. f.r.ok /\ ~t.r.ok /\ t.r.why = "invalid_grant"
    BY <1>6 DEF Refused
  <2>2. ~Has("replaysReused")
    BY <1>5, <1>6, <2>1
  <2>3. m.next # 0 /\ Stands(t, m.grant, m.next, ~Has("familySurvives"))
    BY <1>5, <1>6, <2>1, <2>2 DEF g
  <2> QED BY <2>2, <2>3, LeftRefresh
<1>7. ASSUME faults = {}, Left("refresh", 4, s, m) PROVE ok
  BY <1>3, <1>5, <1>7 DEF Refused, Has
<1> HIDE DEF ok
<1>8. ok /\ Left("refresh", 4, s, m) => Asked["refresh"][4] \cap faults = {} /\ Left("refresh", 4 + 1, t, m)
  BY <1>a, <1>6 DEF Has
<1>9. Len(s.fams) <= Len(t.fams)
  BY <1>0, <1>3
<1>10. Left("refresh", 4, s, m) /\ faults = {} => ok
  BY <1>7
<1>11. Tells("refresh", 4, o)
  BY <1>a, <1>0, <1>1, <1>3, <1>4, <1>8, <1>9, <1>10, RefreshOutcome
<1> QED BY <1>11 DEF o

\* reuse-revokes-family tells of its faults.
LEMMA RefreshTellsRevocation ==
  ASSUME NEW s, NEW m, s = as, m = probe.mem, Known("refresh", 5, s, m), s.consent
  PROVE  Tells("refresh", 5, RefreshGrants(s, "reuse-revokes-family"))
<1> DEFINE o == RefreshGrants(s, "reuse-revokes-family")
           g == m.grant
           f == Fresh(s)
           t == Refresh(f, g.client, g.id, m.next, "none", "none")
           ok == Refused(f, t, {"invalid_grant"})
<1>a. 5 \in 2..6 /\ Asked["refresh"][5] = {"familySurvives"} /\ 5 + 1 = 6
  BY DEF Asked
<1>1. o = IF m.next = 0 THEN Outcome(s, FALSE) ELSE Outcome(t, ok)
  BY DEF RefreshGrants
<1>b. Outcome(s, FALSE) = [s |-> s, ok |-> FALSE, mem |-> m] /\ Outcome(t, ok) = [s |-> t, ok |-> ok, mem |-> m]
  BY DEF Outcome
<1> HIDE DEF o
<1>0. /\ s \in Issuer /\ m \in Memory /\ g.id \in 1..Len(s.fams) /\ g.client \in Nat /\ m.next \in Nat
      /\ Len(s.fams) \in Nat
  <2> HIDE DEF t, ok, f
  <2> QED BY <1>a, KnownRefresh
<1>2. Retried(s, g, m.next, f, t)
  BY <1>0, RetriedFacts
<1> HIDE DEF f, t, g
<1>3. /\ t \in Issuer /\ t.consent = s.consent /\ Len(t.fams) = Len(s.fams)
      /\ f.r.ok = ~Has("noMetadata") /\ t.r.ok \in BOOLEAN
  BY <1>2 DEF Retried
<1>4. ok \in BOOLEAN
  BY DEF Refused
<1>5. ASSUME Left("refresh", 5, s, m)
      PROVE  /\ m.next # 0
             /\ ~Has("familySurvives") => ~t.r.ok /\ (f.r.ok => t.r.why = "invalid_grant")
             /\ Has("familySurvives") => (f.r.ok => t.r.why = "cacheable")
  <2>1. m.next # 0 /\ Stands(s, g, m.next, ~Has("familySurvives"))
    BY <1>5, LeftRefresh DEF g
  <2>2. CASE Has("familySurvives")
    <3>1. Stands(s, g, m.next, FALSE)
      BY <2>1, <2>2
    <3> QED BY <1>2, <2>1, <2>2, <3>1 DEF Retried
  <2>3. CASE ~Has("familySurvives")
    <3>1. Stands(s, g, m.next, TRUE)
      BY <2>1, <2>3
    <3> QED BY <1>2, <2>1, <2>3, <3>1 DEF Retried
  <2> QED BY <2>2, <2>3
<1>6. ASSUME ok, Left("refresh", 5, s, m) PROVE ~Has("familySurvives")
  BY <1>5, <1>6 DEF Refused
<1>7. ASSUME faults = {}, Left("refresh", 5, s, m) PROVE ok
  BY <1>3, <1>5, <1>7 DEF Refused, Has
<1> HIDE DEF ok
<1>8. \A x: Left("refresh", 5 + 1, x, m)
  BY <1>a, LeftRefresh
<1>9. ASSUME m.next = 0 PROVE Tells("refresh", 5, o)
  <2>1. o = [s |-> s, ok |-> FALSE, mem |-> m]
    BY <1>1, <1>b, <1>9
  <2>2. Left("refresh", 5, s, m) /\ faults = {} => FALSE
    BY <1>5, <1>9
  <2>3. FALSE /\ Left("refresh", 5, s, m) => Asked["refresh"][5] \cap faults = {} /\ Left("refresh", 5 + 1, s, m)
    OBVIOUS
  <2>4. Len(s.fams) <= Len(s.fams) /\ FALSE \in BOOLEAN
    BY <1>0
  <2> QED BY <1>a, <1>0, <2>1, <2>2, <2>3, <2>4, RefreshOutcome
<1>10. ASSUME m.next # 0 PROVE Tells("refresh", 5, o)
  <2>1. o = [s |-> t, ok |-> ok, mem |-> m]
    BY <1>1, <1>b, <1>10
  <2>2. Left("refresh", 5, s, m) /\ faults = {} => ok
    BY <1>7
  <2>3. ok /\ Left("refresh", 5, s, m) => Asked["refresh"][5] \cap faults = {} /\ Left("refresh", 5 + 1, t, m)
    BY <1>a, <1>6, <1>8 DEF Has
  <2>4. Len(s.fams) <= Len(t.fams)
    BY <1>0, <1>3
  <2> QED BY <1>a, <1>0, <1>3, <1>4, <2>1, <2>2, <2>3, <2>4, RefreshOutcome
<1>11. Tells("refresh", 5, o)
  BY <1>9, <1>10
<1> QED BY <1>11 DEF o

\* The same issuer with its consent and its response set.
LEMMA Reset ==
  ASSUME NEW s \in Issuer, NEW c \in BOOLEAN, NEW r \in Response
  PROVE  LET t == [s EXCEPT !.consent = c, !.r = r]
         IN t \in Issuer /\ t.fams = s.fams /\ t.clients = s.clients /\ t.codes = s.codes /\ t.consent = c /\ t.r = r
BY DEF Issuer

\* Giving and withdrawing consent changes nothing else.
LEMMA Consented ==
  ASSUME NEW s \in Issuer, NEW c \in BOOLEAN
  PROVE  LET t == [s EXCEPT !.consent = c]
         IN t \in Issuer /\ t.fams = s.fams /\ t.clients = s.clients /\ t.codes = s.codes /\ t.consent = c /\ t.r = s.r
BY DEF Issuer

\* revoked-consent-rejected tells of its faults, and gives the consent back.
LEMMA RefreshTellsConsent ==
  ASSUME NEW s, NEW m, s = as, m = probe.mem, Known("refresh", 6, s, m), s.consent
  PROVE  Tells("refresh", 6, RefreshGrants(s, "revoked-consent-rejected"))
<1> DEFINE o == RefreshGrants(s, "revoked-consent-rejected")
           w == Grant(s, "here")
           u == [w EXCEPT !.consent = FALSE]
           off == Refresh(u, w.r.client, w.r.id, w.r.gen, "none", "none")
           v == [off EXCEPT !.consent = TRUE, !.r = Fresh(off).r]
           back == Refresh(v, w.r.client, w.r.id, w.r.gen, "none", "none")
           first == Refused(w, off, {"invalid_grant"})
           last == Refused(v, back, {"invalid_grant"})
           end == IF ~w.r.ok THEN w ELSE IF ~first THEN v ELSE back
           ok == w.r.ok /\ first /\ last
<1>a. 6 \in 2..6 /\ Asked["refresh"][6] = {"ignoresConsent", "consentReturns"} /\ 6 + 1 = 7
  BY DEF Asked
<1>1. o = IF ~w.r.ok THEN Outcome(w, FALSE) ELSE IF ~first THEN Outcome(v, FALSE) ELSE Outcome(back, last)
  BY DEF RefreshGrants
<1> HIDE DEF o, w, first, last, v, back
<1>b. \A x, y: Outcome(x, y) = [s |-> x, ok |-> y, mem |-> m]
  BY DEF Outcome
<1>c. last \in BOOLEAN
  BY DEF last, Refused
<1>d. o = [s |-> end, ok |-> ok, mem |-> m]
  <2>1. CASE ~w.r.ok
    BY <1>1, <1>b, <2>1
  <2>2. CASE w.r.ok /\ ~first
    BY <1>1, <1>b, <2>2
  <2>3. CASE w.r.ok /\ first
    BY <1>1, <1>b, <1>c, <2>3
  <2> QED BY <2>1, <2>2, <2>3
<1>0. s \in Issuer /\ m \in Memory /\ Len(s.fams) \in Nat
  <2> HIDE DEF end, ok
  <2> QED BY <1>a, KnownRefresh
<1>2. Granted(s, "here", w)
  BY <1>0, GrantFacts DEF w
<1>3. /\ w \in Issuer /\ w.consent = s.consent /\ w.r.client \in Nat /\ w.r.gen \in Nat /\ w.r.ok \in BOOLEAN
      /\ Len(s.fams) <= Len(w.fams) /\ Len(w.fams) \in Nat
      /\ w.r.ok = (~Has("noMetadata") /\ ~Has("cacheable"))
      /\ w.r.ok => /\ w.r.id \in 1..Len(w.fams) /\ w.r.gen = 1
                   /\ w.fams[w.r.id] = [client |-> w.r.client, resource |-> "here", gen |-> 1, dead |-> FALSE]
  BY <1>0, <1>2, IssuerFacts DEF Granted, Keeps
<1>4. u \in Issuer /\ u.fams = w.fams /\ u.consent = FALSE /\ u.r = w.r
  BY <1>3, Consented
<1> HIDE DEF u
<1>5. Refreshes(u, w.r.id, w.r.gen, RefreshError(u, w.r.client, w.r.id, w.r.gen, "none", "none"), off)
  BY <1>3, <1>4, RefreshFacts DEF Resources
<1> HIDE DEF off
<1>6. off \in Issuer /\ Len(off.fams) = Len(w.fams)
  BY <1>4, <1>5 DEF Refreshes
<1>7. v \in Issuer /\ v.fams = off.fams /\ v.consent = TRUE /\ v.r.ok = ~Has("noMetadata")
  <2> DEFINE r == Fresh(off).r
  <2>1. r \in Response /\ r.ok = ~Has("noMetadata")
    BY <1>6, FreshFacts, IssuerFacts
  <2> HIDE DEF r
  <2>2. v = [off EXCEPT !.consent = TRUE, !.r = r]
    BY DEF v, r
  <2> QED BY <1>6, <2>1, <2>2, Reset
<1>8. ASSUME w.r.ok
      PROVE  Refreshes(v, w.r.id, w.r.gen, RefreshError(v, w.r.client, w.r.id, w.r.gen, "none", "none"), back)
  BY <1>3, <1>6, <1>7, <1>8, RefreshFacts DEF Resources, back
<1>9. ASSUME w.r.ok PROVE back \in Issuer /\ Len(back.fams) = Len(w.fams) /\ back.consent = TRUE
  BY <1>6, <1>7, <1>8, <1>9 DEF Refreshes
<1>10. end \in Issuer /\ end.consent = s.consent /\ Len(s.fams) <= Len(end.fams)
  BY <1>0, <1>3, <1>6, <1>7, <1>9, IssuerFacts
<1>11. ASSUME w.r.ok
       PROVE  /\ Has("ignoresConsent") => off.r.ok
              /\ ~Has("ignoresConsent") =>
                   /\ ~off.r.ok /\ off.r.why = "invalid_grant"
                   /\ off.fams[w.r.id] = [client |-> w.r.client, resource |-> "here", gen |-> 1,
                                          dead |-> ~Has("consentReturns")]
  <2>1. Renewed(u, w.r.client, w.r.id, w.r.gen, 1, FALSE, Refusal(u, "none", w.r.gen, 1, FALSE), off)
    BY <1>3, <1>4, <1>5, <1>11, RenewedFacts
  <2>2. Refusal(u, "none", w.r.gen, 1, FALSE) = IF Has("ignoresConsent") THEN "none" ELSE "invalid_grant"
    BY <1>3, <1>4, <1>11 DEF Refusal
  <2>3. ~Has("ignoresConsent") => Ended(u, w.r.gen, 1) = ~Has("consentReturns")
    BY <1>3, <1>4, <1>11 DEF Ended
  <2>4. CASE Has("ignoresConsent")
    <3>1. Renewed(u, w.r.client, w.r.id, w.r.gen, 1, FALSE, "none", off)
      BY <2>1, <2>2, <2>4
    <3> QED BY <1>3, <1>4, <1>11, <2>4, <3>1 DEF Renewed
  <2>5. CASE ~Has("ignoresConsent")
    <3>1. Renewed(u, w.r.client, w.r.id, w.r.gen, 1, FALSE, "invalid_grant", off)
      BY <2>1, <2>2, <2>5
    <3>2. /\ off.r.ok = FALSE /\ off.r.why = "invalid_grant"
          /\ off.fams[w.r.id] = [client |-> w.r.client, resource |-> "here", gen |-> 1,
                                 dead |-> FALSE \/ Ended(u, w.r.gen, 1)]
      BY <1>4, <1>11, <3>1 DEF Renewed
    <3>3. (FALSE \/ Ended(u, w.r.gen, 1)) = ~Has("consentReturns")
      BY <2>3, <2>5 DEF Ended
    <3> QED BY <2>5, <3>2, <3>3
  <2> QED BY <2>4, <2>5
<1>12. ASSUME w.r.ok, ~Has("ignoresConsent")
       PROVE  /\ Has("consentReturns") => back.r.ok
              /\ ~Has("consentReturns") => ~back.r.ok /\ back.r.why = "invalid_grant"
  <2> DEFINE dead == ~Has("consentReturns")
  <2>1. v.fams[w.r.id] = [client |-> w.r.client, resource |-> "here", gen |-> 1, dead |-> dead] /\ dead \in BOOLEAN
    BY <1>7, <1>11, <1>12 DEF Has
  <2> HIDE DEF dead
  <2>2. Renewed(v, w.r.client, w.r.id, w.r.gen, 1, dead, Refusal(v, "none", w.r.gen, 1, dead), back)
    BY <1>8, <1>12, <2>1, RenewedFacts
  <2>3. Refusal(v, "none", w.r.gen, 1, dead) = IF dead THEN "invalid_grant" ELSE "none"
    BY <1>3, <1>7, <1>12 DEF Refusal
  <2>4. CASE dead
    <3>1. Renewed(v, w.r.client, w.r.id, w.r.gen, 1, dead, "invalid_grant", back)
      BY <2>2, <2>3, <2>4
    <3> QED BY <1>3, <1>7, <1>12, <2>4, <3>1 DEF Renewed, dead
  <2>5. CASE ~dead
    <3>1. Renewed(v, w.r.client, w.r.id, w.r.gen, 1, dead, "none", back)
      BY <2>2, <2>3, <2>5
    <3> QED BY <1>3, <1>7, <1>12, <2>5, <3>1 DEF Renewed, dead
  <2> QED BY <2>4, <2>5
<1>13. ok => ~Has("ignoresConsent") /\ ~Has("consentReturns")
  BY <1>11, <1>12 DEF first, last, Refused
<1>14. faults = {} => ok
  BY <1>3, <1>7, <1>11, <1>12 DEF first, last, Refused, Has
<1>15. ok \in BOOLEAN
  BY <1>3, <1>c DEF first, Refused
<1> HIDE DEF ok, end
<1>16. ok /\ Left("refresh", 6, s, m) => Asked["refresh"][6] \cap faults = {} /\ Left("refresh", 6 + 1, end, m)
  BY <1>a, <1>13, LeftRefresh DEF Has
<1>17. Left("refresh", 6, s, m) /\ faults = {} => ok
  BY <1>14
<1>18. Tells("refresh", 6, o)
  BY <1>a, <1>0, <1>d, <1>10, <1>15, <1>16, <1>17, RefreshOutcome
<1> QED BY <1>18 DEF o

\* What is left to show of a probe outside the refresh row.
LEMMA AnyOutcome ==
  ASSUME NEW s, NEW m, s = as, m = probe.mem, NEW row, row # "refresh", NEW j \in Nat, Known(row, j, s, m),
         NEW o, NEW t, NEW ok, NEW n, o = [s |-> t, ok |-> ok, mem |-> n],
         t \in Issuer, t.consent = s.consent, Len(s.fams) <= Len(t.fams),
         n \in Memory, n.grant.ok => n.grant.id \in 1..Len(t.fams), ok \in BOOLEAN,
         ok /\ Left(row, j, s, m) => Asked[row][j] \cap faults = {} /\ Left(row, j + 1, t, n),
         Left(row, j, s, m) /\ s.consent /\ faults = {} => ok
  PROVE  Tells(row, j, o)
<1>1. Known("none", 0, t, n)
  BY DEF Known
<1>2. o.s = t /\ o.ok = ok /\ o.mem = n
  BY Records
<1> QED BY <1>1, <1>2 DEF Tells

\* The grant remembered is for this resource, and stands.
Bound(s, m) ==
  m.grant.ok /\ m.grant.aud = "here" /\ s.consent /\ Stands(s, m.grant, m.grant.gen, FALSE)

\* What the probes of the audience row leave to one another: the family of
\* the accepted token, bound to its resource.
LEMMA LeftAudience ==
  \A s, m:
    /\ Left("audience", 1, s, m) /\ Left("audience", 7, s, m)
    /\ Left("audience", 2, s, m) <=> ~Has("anyResource") \/ ~s.consent
    /\ \A j \in 3..6: Left("audience", j, s, m)
         <=> Bound(s, m)
BY DEF Left, Bound

\* The parts of what is known whatever passed.
LEMMA KnownAny ==
  ASSUME NEW row, NEW j, NEW s, NEW m, Known(row, j, s, m)
  PROVE  /\ s \in Issuer /\ m \in Memory /\ (m.grant.ok => m.grant.id \in 1..Len(s.fams))
         /\ m.grant.ok \in BOOLEAN /\ m.grant.client \in Nat /\ m.grant.gen \in Nat
         /\ Len(s.fams) \in Nat /\ s.consent \in BOOLEAN
<1>1. s \in Issuer /\ m \in Memory /\ (m.grant.ok => m.grant.id \in 1..Len(s.fams))
  BY DEF Known
<1> QED BY <1>1, MemoryFacts, IssuerFacts

\* A family that is there stays there.
LEMMA KeepsRange ==
  ASSUME NEW s \in Issuer, NEW t, Keeps(s, t), NEW i \in 1..Len(s.fams)
  PROVE  i \in 1..Len(t.fams)
<1>1. Len(s.fams) \in Nat /\ Len(t.fams) \in Nat /\ Len(s.fams) <= Len(t.fams)
  BY IssuerFacts DEF Keeps
<1> QED BY <1>1, RangesGrow

\* unknown-resource-rejected leaves an issuer that refuses unlisted resources,
\* or one without consent, which token-accepted then tells apart.
LEMMA AudienceTellsUnknown ==
  ASSUME NEW s, NEW m, s = as, m = probe.mem, Known("audience", 1, s, m)
  PROVE  Tells("audience", 1, ResourceAudience(s, "unknown-resource-rejected"))
<1> DEFINE o == ResourceAudience(s, "unknown-resource-rejected")
           f == Fresh(s)
           c == Client(f, "default")
           t == Authorize(c, c.r.client, "unlisted", "narrow", "S256", TRUE)
           why == AuthorizeError(c, c.r.client, "unlisted", "narrow", "S256", TRUE)
           ok == c.r.ok /\ ~t.r.ok
<1>a. Asked["audience"][1] = {} /\ 1 + 1 = 2 /\ "audience" # "refresh" /\ 1 \in Nat
  BY DEF Asked
<1>1. o = [s |-> t, ok |-> ok, mem |-> m]
  BY DEF ResourceAudience, Outcome
<1> HIDE DEF o
<1>0. s \in Issuer /\ m \in Memory /\ (m.grant.ok => m.grant.id \in 1..Len(s.fams)) /\ s.consent \in BOOLEAN
  <2> HIDE DEF t, ok
  <2> QED BY KnownAny
<1>2. Keeps(s, f) /\ f.r.ok = ~Has("noMetadata") /\ f \in Issuer /\ f.consent = s.consent
  BY <1>0, KeepsFresh
<1> HIDE DEF f
<1>3. Registers(f, "default", "none", c)
  BY <1>2, ClientFacts
<1> HIDE DEF c
<1>4. Keeps(s, c)
  <2>1. Keeps(f, c)
    BY <1>2, <1>3, RegistersKeeps
  <2> QED BY <1>0, <1>2, <2>1, KeepsTwice
<1>5. c \in Issuer /\ c.r.ok = ~Has("noMetadata") /\ c.r.client \in Nat /\ c.consent = s.consent
  BY <1>2, <1>3, IssuerFacts DEF Registers
<1>6. Authorizes(c, c.r.client, "unlisted", why, t)
  BY <1>5, AuthorizeFacts DEF Resources
<1>7. why = IF ~Has("anyResource") THEN "invalid_target" ELSE IF ~s.consent THEN "access_denied" ELSE "none"
  BY <1>5 DEF AuthorizeError
<1> HIDE DEF t, why
<1>8. Keeps(s, t)
  <2>1. Keeps(c, t)
    BY <1>5, <1>6, AuthorizesKeeps
  <2> QED BY <1>0, <1>4, <2>1, KeepsTwice
<1>9. ok \in BOOLEAN /\ (ok => ~Has("anyResource") \/ ~s.consent) /\ (faults = {} => ok)
  BY <1>5, <1>6, <1>7 DEF Authorizes, Has
<1> HIDE DEF ok
<1>10. t \in Issuer /\ t.consent = s.consent /\ Len(s.fams) <= Len(t.fams)
  BY <1>8 DEF Keeps
<1>11. m.grant.ok => m.grant.id \in 1..Len(t.fams)
  BY <1>0, <1>8, KeepsRange
<1>12. ok /\ Left("audience", 1, s, m) => Asked["audience"][1] \cap faults = {} /\ Left("audience", 1 + 1, t, m)
  BY <1>a, <1>9, <1>10, LeftAudience
<1>13. Left("audience", 1, s, m) /\ s.consent /\ faults = {} => ok
  BY <1>9
<1>14. Tells("audience", 1, o)
  BY <1>a, <1>0, <1>1, <1>9, <1>10, <1>11, <1>12, <1>13, AnyOutcome
<1> QED BY <1>14 DEF o

\* token-accepted tells of its faults, and leaves a bound family.
LEMMA AudienceTellsAccepted ==
  ASSUME NEW s, NEW m, s = as, m = probe.mem, Known("audience", 2, s, m)
  PROVE  Tells("audience", 2, ResourceAudience(s, "token-accepted"))
<1> DEFINE o == ResourceAudience(s, "token-accepted")
           t == Grant(s, "here")
           ok == t.r.ok /\ Accepts("here", t.r.aud)
           n == [m EXCEPT !.grant = t.r]
<1>a. Asked["audience"][2] = {"anyResource"} /\ 2 + 1 = 3 /\ 3 \in 3..6 /\ "audience" # "refresh" /\ 2 \in Nat
  BY DEF Asked
<1>1. o = [s |-> t, ok |-> ok, mem |-> n]
  BY DEF ResourceAudience, Remember
<1> HIDE DEF o
<1>0. s \in Issuer /\ m \in Memory /\ s.consent \in BOOLEAN
  <2> HIDE DEF t, ok
  <2> QED BY KnownAny
<1>2. Granted(s, "here", t)
  BY <1>0, GrantFacts
<1> HIDE DEF t
<1>3. /\ t \in Issuer /\ t.r \in Response /\ t.r.ok \in BOOLEAN /\ t.consent = s.consent
      /\ Len(s.fams) <= Len(t.fams)
      /\ t.r.ok = (~Has("noMetadata") /\ s.consent /\ ~Has("cacheable"))
      /\ t.r.ok => t.r.id \in 1..Len(t.fams) /\ t.r.aud = "here" /\ Stands(t, t.r, t.r.gen, FALSE)
  BY <1>0, <1>2, IssuerFacts DEF Granted, Keeps, Stands
<1>4. n \in Memory /\ n.grant = t.r
  BY <1>0, <1>3 DEF Memory
<1> HIDE DEF n
<1>5. ok \in BOOLEAN /\ (ok => t.r.ok) /\ (t.r.ok => ok)
  BY <1>3 DEF Accepts
<1> HIDE DEF ok
<1>6. n.grant.ok => n.grant.id \in 1..Len(t.fams)
  BY <1>3, <1>4
<1>7. ASSUME ok, Left("audience", 2, s, m)
      PROVE  Asked["audience"][2] \cap faults = {} /\ Left("audience", 2 + 1, t, n)
  <2>1. t.r.ok /\ s.consent /\ t.consent
    BY <1>3, <1>5, <1>7
  <2>2. ~Has("anyResource")
    BY <1>7, <2>1, LeftAudience
  <2>3. n.grant.ok /\ n.grant.aud = "here" /\ t.consent /\ Stands(t, n.grant, n.grant.gen, FALSE)
    BY <1>3, <1>4, <2>1
  <2>4. Left("audience", 3, t, n)
    BY <1>a, <2>3, LeftAudience DEF Bound
  <2> QED BY <1>a, <2>2, <2>4 DEF Has
<1>8. ok /\ Left("audience", 2, s, m) => Asked["audience"][2] \cap faults = {} /\ Left("audience", 2 + 1, t, n)
  BY <1>7
<1>9. Left("audience", 2, s, m) /\ s.consent /\ faults = {} => ok
  BY <1>3, <1>5 DEF Has
<1>10. Tells("audience", 2, o)
  BY <1>a, <1>1, <1>3, <1>4, <1>5, <1>6, <1>8, <1>9, AnyOutcome
<1> QED BY <1>10 DEF o

\* token-rejected-elsewhere tells of its faults.
LEMMA AudienceTellsElsewhere ==
  ASSUME NEW s, NEW m, s = as, m = probe.mem, Known("audience", 3, s, m)
  PROVE  Tells("audience", 3, ResourceAudience(s, "token-rejected-elsewhere"))
<1> DEFINE o == ResourceAudience(s, "token-rejected-elsewhere")
           a == m.grant
           ok == a.ok /\ ~Accepts("other", a.aud)
<1>a. Asked["audience"][3] = {"anyAudience"} /\ 3 + 1 = 4 /\ 3 \in 3..6 /\ 4 \in 3..6 /\ "audience" # "refresh" /\ 3 \in Nat
  BY DEF Asked
<1>1. o = [s |-> s, ok |-> ok, mem |-> m]
  BY DEF ResourceAudience, Outcome
<1> HIDE DEF o
<1>0. /\ s \in Issuer /\ m \in Memory /\ a.ok \in BOOLEAN /\ (m.grant.ok => m.grant.id \in 1..Len(s.fams))
      /\ Len(s.fams) \in Nat
  <2> HIDE DEF ok
  <2> QED BY KnownAny
<1>b. Len(s.fams) <= Len(s.fams)
  BY <1>0
<1>2. ok \in BOOLEAN /\ (ok => ~Has("anyAudience"))
  BY <1>0 DEF Accepts
<1>3. ASSUME Left("audience", 3, s, m), faults = {} PROVE ok
  <2>1. a.ok /\ a.aud = "here"
    BY <1>a, <1>3, LeftAudience DEF Bound
  <2> HIDE DEF a
  <2> QED BY <1>3, <2>1 DEF Accepts, Has
<1> HIDE DEF ok, a
<1>4. Left("audience", 3, s, m) => Left("audience", 4, s, m)
  BY <1>a, LeftAudience
<1>5. ok /\ Left("audience", 3, s, m) => Asked["audience"][3] \cap faults = {} /\ Left("audience", 3 + 1, s, m)
  BY <1>a, <1>2, <1>4 DEF Has
<1>6. Left("audience", 3, s, m) /\ s.consent /\ faults = {} => ok
  BY <1>3
<1>7. Tells("audience", 3, o)
  BY <1>a, <1>0, <1>b, <1>1, <1>2, <1>5, <1>6, AnyOutcome
<1> QED BY <1>7 DEF o

\* What a passed token-accepted leaves is left again by a probe that keeps it.
LEMMA AudienceKept ==
  ASSUME NEW s, NEW t, Keeps(s, t), NEW m, NEW j, Known("audience", j, s, m), Bound(s, m)
  PROVE  Bound(t, m)
<1>0. s \in Issuer /\ (m.grant.ok => m.grant.id \in 1..Len(s.fams))
  BY DEF Known
<1>1. m.grant.ok /\ m.grant.aud = "here" /\ s.consent /\ Stands(s, m.grant, m.grant.gen, FALSE)
  BY DEF Bound
<1>2. Stands(t, m.grant, m.grant.gen, FALSE)
  BY <1>0, <1>1, StandsKept
<1>3. t.consent
  BY <1>1 DEF Keeps
<1> QED BY <1>1, <1>2, <1>3 DEF Bound

\* other-token-rejected-here keeps the accepted family as it stands.
LEMMA AudienceTellsOther ==
  ASSUME NEW s, NEW m, s = as, m = probe.mem, Known("audience", 4, s, m)
  PROVE  Tells("audience", 4, ResourceAudience(s, "other-token-rejected-here"))
<1> DEFINE o == ResourceAudience(s, "other-token-rejected-here")
           t == Grant(s, "other")
           ok == t.r.ok /\ Accepts("other", t.r.aud) /\ ~Accepts("here", t.r.aud)
<1>a. Asked["audience"][4] = {} /\ 4 + 1 = 5 /\ 4 \in 3..6 /\ 5 \in 3..6 /\ "audience" # "refresh" /\ 4 \in Nat
  BY DEF Asked
<1>1. o = [s |-> t, ok |-> ok, mem |-> m]
  BY DEF ResourceAudience, Outcome
<1> HIDE DEF o
<1>0. s \in Issuer /\ m \in Memory /\ (m.grant.ok => m.grant.id \in 1..Len(s.fams)) /\ s.consent \in BOOLEAN
  <2> HIDE DEF t, ok
  <2> QED BY KnownAny
<1>2. Granted(s, "other", t)
  BY <1>0, GrantFacts
<1> HIDE DEF t
<1>3. /\ Keeps(s, t) /\ t \in Issuer /\ t.consent = s.consent /\ t.r.ok \in BOOLEAN
      /\ Len(s.fams) <= Len(t.fams)
      /\ t.r.ok = (~Has("noMetadata") /\ s.consent /\ ~Has("cacheable"))
      /\ t.r.ok => t.r.aud = "other"
  BY <1>0, <1>2, IssuerFacts DEF Granted, Keeps
<1>4. ok \in BOOLEAN
  BY <1>3 DEF Accepts
<1>5. Left("audience", 4, s, m) /\ s.consent /\ faults = {} => ok
  BY <1>3 DEF Accepts, Has
<1> HIDE DEF ok
<1>6. m.grant.ok => m.grant.id \in 1..Len(t.fams)
  BY <1>0, <1>3, KeepsRange
<1>7. ok /\ Left("audience", 4, s, m) => Asked["audience"][4] \cap faults = {} /\ Left("audience", 4 + 1, t, m)
  <2>1. ASSUME Left("audience", 4, s, m) PROVE Left("audience", 5, t, m)
    <3>1. Bound(s, m)
      BY <1>a, <2>1, LeftAudience
    <3>2. Bound(t, m)
      BY <1>3, <3>1, AudienceKept
    <3> QED BY <1>a, <3>2, LeftAudience
  <2> QED BY <1>a, <2>1
<1>8. Tells("audience", 4, o)
  BY <1>a, <1>0, <1>1, <1>3, <1>4, <1>5, <1>6, <1>7, AnyOutcome
<1> QED BY <1>8 DEF o

\* redemption-resource-bound tells of its faults.
LEMMA AudienceTellsRedemption ==
  ASSUME NEW s, NEW m, s = as, m = probe.mem, Known("audience", 5, s, m)
  PROVE  Tells("audience", 5, ResourceAudience(s, "redemption-resource-bound"))
<1> DEFINE o == ResourceAudience(s, "redemption-resource-bound")
           f == Fresh(s)
           n == Client(f, "default")
           c == CodeFor(n, "here")
           t == Exchange(c, c.r.client, c.r.id, "main", TRUE, "other")
           why == ExchangeError(c, c.r.client, c.r.id, "main", TRUE, "other")
           ok == Refused(c, t, {"invalid_target", "invalid_grant"})
           k == c.codes[c.r.id]
<1>a. Asked["audience"][5] = {"redeemsElsewhere"} /\ 5 + 1 = 6 /\ 5 \in 3..6 /\ 6 \in 3..6 /\ "audience" # "refresh" /\ 5 \in Nat
  BY DEF Asked
<1>1. o = [s |-> t, ok |-> ok, mem |-> m]
  BY DEF ResourceAudience, Outcome
<1> HIDE DEF o
<1>0. s \in Issuer /\ m \in Memory /\ (m.grant.ok => m.grant.id \in 1..Len(s.fams)) /\ s.consent \in BOOLEAN
  <2> HIDE DEF t, ok
  <2> QED BY KnownAny
<1>2. Keeps(s, f) /\ f.r.ok = ~Has("noMetadata") /\ f \in Issuer /\ f.consent = s.consent
  BY <1>0, KeepsFresh
<1> HIDE DEF f
<1>3. Registers(f, "default", "none", n)
  BY <1>2, ClientFacts
<1> HIDE DEF n
<1>4. Keeps(s, n)
  <2>1. Keeps(f, n)
    BY <1>2, <1>3, RegistersKeeps
  <2> QED BY <1>0, <1>2, <2>1, KeepsTwice
<1>5. n \in Issuer /\ n.r.ok = ~Has("noMetadata") /\ n.consent = s.consent
  BY <1>2, <1>3 DEF Registers
<1>6. Coded(n, "here", c)
  BY <1>5, CodeForFacts
<1> HIDE DEF c
<1>7. Keeps(s, c)
  <2>1. Keeps(n, c)
    BY <1>5, <1>6, CodedKeeps
  <2> QED BY <1>0, <1>4, <2>1, KeepsTwice
<1>8. /\ c \in Issuer /\ c.r.ok = (~Has("noMetadata") /\ s.consent) /\ c.r.client \in Nat
      /\ c.r.ok => c.r.id \in 1..Len(c.codes) /\ k = [client |-> c.r.client, resource |-> "here", used |-> FALSE]
      /\ c.consent = s.consent
  BY <1>5, <1>6, IssuerFacts DEF Coded
<1>9. Exchanges(c, c.r.client, c.r.id, why, t)
  BY <1>8, ExchangeFacts DEF Resources
<1>10. ASSUME c.r.ok PROVE why = IF Has("redeemsElsewhere") THEN "none" ELSE "invalid_target"
  <2>0. k = [client |-> c.r.client, resource |-> "here", used |-> FALSE]
    BY <1>8, <1>10
  <2>b. c.consent = TRUE
    BY <1>0, <1>8, <1>10
  <2> HIDE DEF k
  <2>1. k.client = c.r.client /\ k.used = FALSE /\ k.resource = "here"
    BY <2>0
  <2> QED BY <2>1, <2>b DEF ExchangeError, k
<1> HIDE DEF t, why, k
<1>11. Keeps(s, t)
  <2>1. Keeps(c, t)
    BY <1>8, <1>9, ExchangesKeeps
  <2> QED BY <1>0, <1>7, <2>1, KeepsTwice
<1>12. ok \in BOOLEAN
  BY DEF Refused
<1>13. ok => ~Has("redeemsElsewhere")
  BY <1>9, <1>10 DEF Refused, Exchanges
<1>14. Left("audience", 5, s, m) /\ s.consent /\ faults = {} => ok
  BY <1>8, <1>9, <1>10 DEF Refused, Exchanges, Has
<1> HIDE DEF ok
<1>15. t \in Issuer /\ t.consent = s.consent /\ Len(s.fams) <= Len(t.fams)
  BY <1>11 DEF Keeps
<1>16. m.grant.ok => m.grant.id \in 1..Len(t.fams)
  BY <1>0, <1>11, KeepsRange
<1>17. ok /\ Left("audience", 5, s, m) => Asked["audience"][5] \cap faults = {} /\ Left("audience", 5 + 1, t, m)
  <2>1. ASSUME Left("audience", 5, s, m) PROVE Left("audience", 6, t, m)
    <3>1. Bound(s, m)
      BY <1>a, <2>1, LeftAudience
    <3>2. Bound(t, m)
      BY <1>11, <3>1, AudienceKept
    <3> QED BY <1>a, <3>2, LeftAudience
  <2> QED BY <1>a, <1>13, <2>1 DEF Has
<1>18. Tells("audience", 5, o)
  BY <1>a, <1>0, <1>1, <1>12, <1>14, <1>15, <1>16, <1>17, AnyOutcome
<1> QED BY <1>18 DEF o

\* refresh-resource-bound tells of its faults.
LEMMA AudienceTellsMoved ==
  ASSUME NEW s, NEW m, s = as, m = probe.mem, Known("audience", 6, s, m)
  PROVE  Tells("audience", 6, ResourceAudience(s, "refresh-resource-bound"))
<1> DEFINE o == ResourceAudience(s, "refresh-resource-bound")
           a == m.grant
           f == Fresh(s)
           moved == Refresh(f, a.client, a.id, a.gen, "none", "other")
           b == Grant(moved, "here")
           kept == Refresh(b, b.r.client, b.r.id, b.r.gen, "none", "none")
           refused == Refused(f, moved, {"invalid_target", "invalid_grant"})
           last == kept.r.ok /\ Accepts("here", kept.r.aud) /\ ~Accepts("other", kept.r.aud)
           end == IF ~a.ok THEN s ELSE IF ~refused THEN moved ELSE kept
           ok == a.ok /\ refused /\ last
<1>a. Asked["audience"][6] = {"refreshesElsewhere"} /\ 6 + 1 = 7 /\ 6 \in 3..6 /\ "audience" # "refresh" /\ 6 \in Nat
  BY DEF Asked
<1>1. o = IF ~a.ok THEN Outcome(s, FALSE) ELSE IF ~refused THEN Outcome(moved, FALSE) ELSE Outcome(kept, last)
  BY DEF ResourceAudience
<1> HIDE DEF o, f, kept, refused, last
<1>b. \A x, y: Outcome(x, y) = [s |-> x, ok |-> y, mem |-> m]
  BY DEF Outcome
<1>0. /\ s \in Issuer /\ m \in Memory /\ (a.ok => a.id \in 1..Len(s.fams)) /\ a.ok \in BOOLEAN
      /\ a.client \in Nat /\ a.gen \in Nat /\ Len(s.fams) \in Nat /\ s.consent \in BOOLEAN
  <2> HIDE DEF ok, end, moved
  <2> QED BY KnownAny
<1>c. refused \in BOOLEAN
  BY DEF refused, Refused
<1>2. f \in Issuer /\ f.r.ok = ~Has("noMetadata") /\ f.fams = s.fams /\ f.consent = s.consent
  BY <1>0, FreshFacts DEF f
<1> HIDE DEF a
<1>3. ASSUME a.ok
      PROVE  Refreshes(f, a.id, a.gen, RefreshError(f, a.client, a.id, a.gen, "none", "other"), moved)
  BY <1>0, <1>2, <1>3, RefreshFacts DEF Resources
<1> HIDE DEF moved
<1>4. ASSUME a.ok PROVE moved \in Issuer /\ Len(moved.fams) = Len(s.fams) /\ moved.consent = s.consent
  BY <1>2, <1>3, <1>4 DEF Refreshes
<1>5. ASSUME a.ok PROVE Granted(moved, "here", b)
  BY <1>4, <1>5, GrantFacts
<1> HIDE DEF b
<1>6. ASSUME a.ok
      PROVE  /\ b \in Issuer /\ b.r.client \in Nat /\ b.r.gen \in Nat /\ b.r.ok \in BOOLEAN /\ b.consent = s.consent
             /\ b.r.ok = (~Has("noMetadata") /\ s.consent /\ ~Has("cacheable"))
             /\ b.r.ok => /\ b.r.id \in 1..Len(b.fams) /\ b.r.gen = 1
                          /\ b.fams[b.r.id] = [client |-> b.r.client, resource |-> "here", gen |-> 1, dead |-> FALSE]
  BY <1>4, <1>5, <1>6, IssuerFacts DEF Granted, Keeps
<1>7. ASSUME a.ok
      PROVE  Refreshes(b, b.r.id, b.r.gen, RefreshError(b, b.r.client, b.r.id, b.r.gen, "none", "none"), kept)
  BY <1>6, <1>7, RefreshFacts DEF Resources, kept
<1>8. ASSUME a.ok PROVE Keeps(moved, kept)
  BY <1>4, <1>5, <1>7, <1>8, GrantThenRefreshKeeps
<1>9. ASSUME a.ok
      PROVE  /\ kept \in Issuer /\ kept.consent = s.consent /\ a.id \in 1..Len(kept.fams)
             /\ kept.r.ok \in BOOLEAN /\ a.id \in 1..Len(moved.fams)
             /\ Len(s.fams) <= Len(moved.fams) /\ Len(s.fams) <= Len(kept.fams)
  <2>1. a.id \in 1..Len(moved.fams)
    BY <1>0, <1>4, <1>9
  <2>2. a.id \in 1..Len(kept.fams)
    BY <1>4, <1>8, <1>9, <2>1, KeepsRange
  <2>3. Len(s.fams) <= Len(moved.fams) /\ Len(s.fams) <= Len(kept.fams)
    <3>1. Len(moved.fams) = Len(s.fams)
      BY <1>4, <1>9
    <3>2. Len(moved.fams) <= Len(kept.fams)
      BY <1>8, <1>9 DEF Keeps
    <3>3. Len(s.fams) <= Len(s.fams)
      BY <1>0
    <3> QED BY <3>1, <3>2, <3>3
  <2> QED BY <1>4, <1>8, <1>9, <2>1, <2>2, <2>3, IssuerFacts DEF Keeps
<1>d. last \in BOOLEAN \/ ~a.ok
  BY <1>9 DEF last, Accepts
<1>10. o = [s |-> end, ok |-> ok, mem |-> m] /\ ok \in BOOLEAN
  <2>1. CASE ~a.ok
    BY <1>1, <1>b, <2>1
  <2>2. CASE a.ok /\ ~refused
    BY <1>1, <1>b, <2>2
  <2>3. CASE a.ok /\ refused
    BY <1>1, <1>b, <1>d, <2>3
  <2> QED BY <2>1, <2>2, <2>3
<1>11. end \in Issuer /\ end.consent = s.consent /\ Len(s.fams) <= Len(end.fams) /\ (a.ok => a.id \in 1..Len(end.fams))
  <2>1. CASE ~a.ok
    <3>1. end = s
      BY <2>1
    <3>2. Len(s.fams) <= Len(s.fams)
      BY <1>0
    <3> HIDE DEF end
    <3> QED BY <1>0, <2>1, <3>1, <3>2
  <2>2. CASE a.ok
    <3>1. end = moved \/ end = kept
      BY <2>2
    <3> HIDE DEF end
    <3> QED BY <1>4, <1>9, <2>2, <3>1
  <2> QED BY <1>0, <2>1, <2>2
<1>12. ASSUME Left("audience", 6, s, m)
       PROVE  /\ a.ok /\ s.consent
              /\ f.r.ok => RefreshError(f, a.client, a.id, a.gen, "none", "other")
                             = IF Has("refreshesElsewhere") THEN "none" ELSE "invalid_target"
  <2>1. a.ok /\ s.consent /\ Stands(s, a, a.gen, FALSE)
    BY <1>a, <1>12, LeftAudience DEF a, Bound
  <2> DEFINE k == f.fams[a.id]
  <2>2. k = [client |-> a.client, resource |-> "here", gen |-> a.gen, dead |-> FALSE]
    BY <1>2, <2>1 DEF Stands
  <2>3. k.client = a.client /\ k.resource = "here" /\ k.gen = a.gen /\ k.dead = FALSE
    <3> HIDE DEF k
    <3> QED BY <2>2
  <2>4. f.consent = TRUE
    BY <1>0, <1>2, <2>1
  <2> HIDE DEF k
  <2> QED BY <2>1, <2>3, <2>4 DEF RefreshError, k
<1>13. ASSUME ok, Left("audience", 6, s, m) PROVE ~Has("refreshesElsewhere")
  <2>1. a.ok /\ f.r.ok /\ ~moved.r.ok /\ moved.r.why \in {"invalid_target", "invalid_grant"}
    BY <1>13 DEF refused, Refused
  <2> QED BY <1>3, <1>12, <1>13, <2>1 DEF Refreshes
<1>14. ASSUME Left("audience", 6, s, m), faults = {} PROVE ok
  <2>1. a.ok /\ s.consent = TRUE /\ ~Has("noMetadata") /\ ~Has("cacheable") /\ ~Has("refreshesElsewhere") /\ ~Has("anyAudience")
    BY <1>0, <1>12, <1>14 DEF Has
  <2>2. f.r.ok /\ ~moved.r.ok /\ moved.r.why = "invalid_target"
    BY <1>2, <1>3, <1>12, <1>14, <2>1 DEF Refreshes
  <2>3. refused
    BY <2>2 DEF refused, Refused
  <2>4. b.r.ok /\ b.consent = TRUE /\ b.r.gen = 1
    BY <1>6, <2>1
  <2>5. Renewed(b, b.r.client, b.r.id, b.r.gen, 1, FALSE, Refusal(b, "none", b.r.gen, 1, FALSE), kept)
    BY <1>6, <1>7, <2>1, <2>4, RenewedFacts
  <2>6. Refusal(b, "none", b.r.gen, 1, FALSE) = "none"
    BY <2>4 DEF Refusal
  <2>7. kept.r.ok /\ kept.r.aud = "here"
    BY <2>1, <2>4, <2>5, <2>6 DEF Renewed
  <2> QED BY <2>1, <2>3, <2>7 DEF last, Accepts
<1> HIDE DEF ok, end
<1>15. ok /\ Left("audience", 6, s, m) => Asked["audience"][6] \cap faults = {} /\ Left("audience", 6 + 1, end, m)
  BY <1>a, <1>13, LeftAudience DEF Has
<1>16. Left("audience", 6, s, m) /\ s.consent /\ faults = {} => ok
  BY <1>14
<1>17. m.grant.ok => m.grant.id \in 1..Len(end.fams)
  BY <1>11 DEF a
<1>18. Tells("audience", 6, o)
  BY <1>a, <1>0, <1>10, <1>11, <1>15, <1>16, <1>17, AnyOutcome
<1> QED BY <1>18 DEF o

\* Each probe of the refresh row tells of the faults it asks about.
LEMMA RefreshTells ==
  ASSUME NEW j \in 1..6, Known("refresh", j, as, probe.mem), as.consent
  PROVE  Tells("refresh", j, RefreshGrants(as, Checklist["refresh"][j]))
<1>1. ASSUME j = 1 PROVE Tells("refresh", j, RefreshGrants(as, Checklist["refresh"][j]))
  <2>1. Checklist["refresh"][j] = "grant-issued"
    BY <1>1 DEF Checklist
  <2> QED BY <1>1, <2>1, RefreshTellsFirst
<1>2. ASSUME j = 2 PROVE Tells("refresh", j, RefreshGrants(as, Checklist["refresh"][j]))
  <2>1. Checklist["refresh"][j] = "refresh-rotates"
    BY <1>2 DEF Checklist
  <2> QED BY <1>2, <2>1, RefreshTellsRotation
<1>3. ASSUME j = 3 PROVE Tells("refresh", j, RefreshGrants(as, Checklist["refresh"][j]))
  <2>1. Checklist["refresh"][j] = "refresh-rejects-widening"
    BY <1>3 DEF Checklist
  <2> QED BY <1>3, <2>1, RefreshTellsWidening
<1>4. ASSUME j = 4 PROVE Tells("refresh", j, RefreshGrants(as, Checklist["refresh"][j]))
  <2>1. Checklist["refresh"][j] = "reused-refresh-rejected"
    BY <1>4 DEF Checklist
  <2> QED BY <1>4, <2>1, RefreshTellsReuse
<1>5. ASSUME j = 5 PROVE Tells("refresh", j, RefreshGrants(as, Checklist["refresh"][j]))
  <2>1. Checklist["refresh"][j] = "reuse-revokes-family"
    BY <1>5 DEF Checklist
  <2> QED BY <1>5, <2>1, RefreshTellsRevocation
<1>6. ASSUME j = 6 PROVE Tells("refresh", j, RefreshGrants(as, Checklist["refresh"][j]))
  <2>1. Checklist["refresh"][j] = "revoked-consent-rejected"
    BY <1>6 DEF Checklist
  <2> QED BY <1>6, <2>1, RefreshTellsConsent
<1>7. j \in {1, 2, 3, 4, 5, 6}
  OBVIOUS
<1> QED BY <1>1, <1>2, <1>3, <1>4, <1>5, <1>6, <1>7

\* Each probe of the audience row tells of the faults it asks about.
LEMMA AudienceTells ==
  ASSUME NEW j \in 1..6, Known("audience", j, as, probe.mem)
  PROVE  Tells("audience", j, ResourceAudience(as, Checklist["audience"][j]))
<1>1. ASSUME j = 1 PROVE Tells("audience", j, ResourceAudience(as, Checklist["audience"][j]))
  <2>1. Checklist["audience"][j] = "unknown-resource-rejected"
    BY <1>1 DEF Checklist
  <2> QED BY <1>1, <2>1, AudienceTellsUnknown
<1>2. ASSUME j = 2 PROVE Tells("audience", j, ResourceAudience(as, Checklist["audience"][j]))
  <2>1. Checklist["audience"][j] = "token-accepted"
    BY <1>2 DEF Checklist
  <2> QED BY <1>2, <2>1, AudienceTellsAccepted
<1>3. ASSUME j = 3 PROVE Tells("audience", j, ResourceAudience(as, Checklist["audience"][j]))
  <2>1. Checklist["audience"][j] = "token-rejected-elsewhere"
    BY <1>3 DEF Checklist
  <2> QED BY <1>3, <2>1, AudienceTellsElsewhere
<1>4. ASSUME j = 4 PROVE Tells("audience", j, ResourceAudience(as, Checklist["audience"][j]))
  <2>1. Checklist["audience"][j] = "other-token-rejected-here"
    BY <1>4 DEF Checklist
  <2> QED BY <1>4, <2>1, AudienceTellsOther
<1>5. ASSUME j = 5 PROVE Tells("audience", j, ResourceAudience(as, Checklist["audience"][j]))
  <2>1. Checklist["audience"][j] = "redemption-resource-bound"
    BY <1>5 DEF Checklist
  <2> QED BY <1>5, <2>1, AudienceTellsRedemption
<1>6. ASSUME j = 6 PROVE Tells("audience", j, ResourceAudience(as, Checklist["audience"][j]))
  <2>1. Checklist["audience"][j] = "refresh-resource-bound"
    BY <1>6 DEF Checklist
  <2> QED BY <1>6, <2>1, AudienceTellsMoved
<1>7. j \in {1, 2, 3, 4, 5, 6}
  OBVIOUS
<1> QED BY <1>1, <1>2, <1>3, <1>4, <1>5, <1>6, <1>7

\* The rows in the order Qualify runs them.
LEMMA RowsFacts ==
  /\ Rows[1] = "discovery" /\ Rows[2] = "registration" /\ Rows[3] = "code" /\ Rows[4] = "refresh"
  /\ Rows[5] = "prm" /\ Rows[6] = "audience" /\ Len(Rows) = 6
BY DEF Rows

\* How many probes each row has.
LEMMA ChecklistFacts ==
  /\ Len(Checklist["discovery"]) = 7 /\ Len(Checklist["registration"]) = 4 /\ Len(Checklist["code"]) = 8
  /\ Len(Checklist["refresh"]) = 6 /\ Len(Checklist["prm"]) = 3 /\ Len(Checklist["audience"]) = 6
BY DEF Checklist

\* Every probe of the checklist tells what it asks about.
LEMMA ProbeTells ==
  ASSUME NEW k \in 1..6, NEW j \in 1..Len(Checklist[Rows[k]]), Known(Rows[k], j, as, probe.mem),
         k <= 4 => as.consent
  PROVE  Tells(Rows[k], j, Probe(as, Rows[k], Checklist[Rows[k]][j]))
<1> DEFINE row == Rows[k]
           o == Probe(as, row, Checklist[row][j])
<1>1. ASSUME k = 1 PROVE Tells(row, j, o)
  <2>1. row = "discovery" /\ j \in 1..7
    BY <1>1, RowsFacts, ChecklistFacts
  <2>2. o = Discovery(as, Checklist["discovery"][j])
    BY <2>1 DEF Probe
  <2> HIDE DEF o, row
  <2>3. Known("discovery", j, as, probe.mem)
    BY <2>1 DEF row
  <2> QED BY <2>1, <2>2, <2>3, DiscoveryTells
<1>2. ASSUME k = 2 PROVE Tells(row, j, o)
  <2>1. row = "registration" /\ j \in 1..4
    BY <1>2, RowsFacts, ChecklistFacts
  <2>2. o = Registration(as, Checklist["registration"][j])
    BY <2>1 DEF Probe
  <2> HIDE DEF o, row
  <2>3. Known("registration", j, as, probe.mem)
    BY <2>1 DEF row
  <2> QED BY <2>1, <2>2, <2>3, RegistrationTells
<1>3. ASSUME k = 3 PROVE Tells(row, j, o)
  <2>1. row = "code" /\ j \in 1..8
    BY <1>3, RowsFacts, ChecklistFacts
  <2>c. as.consent
    <3>1. k <= 4
      BY <1>3
    <3> HIDE DEF o, row
    <3> QED BY <3>1
  <2>2. o = AuthorizationCode(as, Checklist["code"][j])
    BY <2>1 DEF Probe
  <2> HIDE DEF o, row
  <2>3. Known("code", j, as, probe.mem)
    BY <2>1 DEF row
  <2> QED BY <2>1, <2>c, <2>2, <2>3, AuthorizationCodeTells
<1>4. ASSUME k = 4 PROVE Tells(row, j, o)
  <2>1. row = "refresh" /\ j \in 1..6
    BY <1>4, RowsFacts, ChecklistFacts
  <2>c. as.consent
    <3>1. k <= 4
      BY <1>4
    <3> HIDE DEF o, row
    <3> QED BY <3>1
  <2>2. o = RefreshGrants(as, Checklist["refresh"][j])
    BY <2>1 DEF Probe
  <2> HIDE DEF o, row
  <2>3. Known("refresh", j, as, probe.mem)
    BY <2>1 DEF row
  <2> QED BY <2>1, <2>c, <2>2, <2>3, RefreshTells
<1>5. ASSUME k = 5 PROVE Tells(row, j, o)
  <2>1. row = "prm" /\ j \in 1..3
    BY <1>5, RowsFacts, ChecklistFacts
  <2>2. o = ProtectedResource(as, Checklist["prm"][j])
    BY <2>1 DEF Probe
  <2> HIDE DEF o, row
  <2>3. Known("prm", j, as, probe.mem)
    BY <2>1 DEF row
  <2> QED BY <2>1, <2>2, <2>3, ProtectedResourceTells
<1>6. ASSUME k = 6 PROVE Tells(row, j, o)
  <2>1. row = "audience" /\ j \in 1..6
    BY <1>6, RowsFacts, ChecklistFacts
  <2>2. o = ResourceAudience(as, Checklist["audience"][j])
    BY <2>1 DEF Probe
  <2> HIDE DEF o, row
  <2>3. Known("audience", j, as, probe.mem)
    BY <2>1 DEF row
  <2> QED BY <2>1, <2>2, <2>3, AudienceTells
<1>7. k \in {1, 2, 3, 4, 5, 6}
  OBVIOUS
<1> HIDE DEF o
<1>8. Tells(row, j, o)
  BY <1>1, <1>2, <1>3, <1>4, <1>5, <1>6, <1>7
<1> QED BY <1>8 DEF o

\* Every fault is asked about in its row.
LEMMA EveryFaultIsAsked ==
  ASSUME NEW f \in Faults
  PROVE  /\ FaultRow[f] \in AllRows
         /\ \E j \in 1..Len(Checklist[FaultRow[f]]): f \in Asked[FaultRow[f]][j]
<1>1. /\ "discovery" \in AllRows /\ "registration" \in AllRows /\ "code" \in AllRows
      /\ "refresh" \in AllRows /\ "prm" \in AllRows /\ "audience" \in AllRows
  BY RowsFacts DEF AllRows
<1>2. \/ f \in {"noMetadata", "otherIssuer", "plainEndpoint", "deadRevocation", "plainAdvertised", "noRefreshGrant", "resourceOmitted"}
      \/ f \in {"plainRedirect", "dropsUnknownScope", "narrowsScope"}
      \/ f \in {"plainChallenge", "noChallenge", "codeOnDenial", "anyVerifier", "anyRedirect", "anyClient", "codeReuse", "cacheable"}
      \/ f \in {"noRotation", "widens", "replaysReused", "familySurvives", "ignoresConsent", "consentReturns"}
      \/ f \in {"challengeElsewhere", "noPRM", "prmOtherIssuer"}
      \/ f \in {"anyResource", "anyAudience", "redeemsElsewhere", "refreshesElsewhere"}
  BY DEF Faults, FaultRow
<1>3. ASSUME f \in {"noMetadata", "otherIssuer", "plainEndpoint", "deadRevocation", "plainAdvertised", "noRefreshGrant", "resourceOmitted"}
      PROVE  FaultRow[f] = "discovery" /\ \E j \in 1..Len(Checklist["discovery"]): f \in Asked["discovery"][j]
  <2>1. FaultRow[f] = "discovery"
    BY <1>3 DEF FaultRow
  <2>2. f \in Asked["discovery"][1] \/ f \in Asked["discovery"][2] \/ f \in Asked["discovery"][3] \/ f \in Asked["discovery"][4] \/ f \in Asked["discovery"][5] \/ f \in Asked["discovery"][6] \/ f \in Asked["discovery"][7]
    BY <1>3 DEF Asked
  <2>3. 1 \in 1..Len(Checklist["discovery"]) /\ 2 \in 1..Len(Checklist["discovery"]) /\ 3 \in 1..Len(Checklist["discovery"]) /\ 4 \in 1..Len(Checklist["discovery"]) /\ 5 \in 1..Len(Checklist["discovery"]) /\ 6 \in 1..Len(Checklist["discovery"]) /\ 7 \in 1..Len(Checklist["discovery"])
    BY ChecklistFacts
  <2> QED BY <2>1, <2>2, <2>3
<1>4. ASSUME f \in {"plainRedirect", "dropsUnknownScope", "narrowsScope"}
      PROVE  FaultRow[f] = "registration" /\ \E j \in 1..Len(Checklist["registration"]): f \in Asked["registration"][j]
  <2>1. FaultRow[f] = "registration"
    BY <1>4 DEF FaultRow
  <2>2. f \in Asked["registration"][2] \/ f \in Asked["registration"][3] \/ f \in Asked["registration"][4]
    BY <1>4 DEF Asked
  <2>3. 2 \in 1..Len(Checklist["registration"]) /\ 3 \in 1..Len(Checklist["registration"]) /\ 4 \in 1..Len(Checklist["registration"])
    BY ChecklistFacts
  <2> QED BY <2>1, <2>2, <2>3
<1>5. ASSUME f \in {"plainChallenge", "noChallenge", "codeOnDenial", "anyVerifier", "anyRedirect", "anyClient", "codeReuse", "cacheable"}
      PROVE  FaultRow[f] = "code" /\ \E j \in 1..Len(Checklist["code"]): f \in Asked["code"][j]
  <2>1. FaultRow[f] = "code"
    BY <1>5 DEF FaultRow
  <2>2. f \in Asked["code"][2] \/ f \in Asked["code"][3] \/ f \in Asked["code"][4] \/ f \in Asked["code"][5] \/ f \in Asked["code"][6] \/ f \in Asked["code"][7] \/ f \in Asked["code"][8]
    BY <1>5 DEF Asked
  <2>3. 2 \in 1..Len(Checklist["code"]) /\ 3 \in 1..Len(Checklist["code"]) /\ 4 \in 1..Len(Checklist["code"]) /\ 5 \in 1..Len(Checklist["code"]) /\ 6 \in 1..Len(Checklist["code"]) /\ 7 \in 1..Len(Checklist["code"]) /\ 8 \in 1..Len(Checklist["code"])
    BY ChecklistFacts
  <2> QED BY <2>1, <2>2, <2>3
<1>6. ASSUME f \in {"noRotation", "widens", "replaysReused", "familySurvives", "ignoresConsent", "consentReturns"}
      PROVE  FaultRow[f] = "refresh" /\ \E j \in 1..Len(Checklist["refresh"]): f \in Asked["refresh"][j]
  <2>1. FaultRow[f] = "refresh"
    BY <1>6 DEF FaultRow
  <2>2. f \in Asked["refresh"][2] \/ f \in Asked["refresh"][3] \/ f \in Asked["refresh"][4] \/ f \in Asked["refresh"][5] \/ f \in Asked["refresh"][6]
    BY <1>6 DEF Asked
  <2>3. 2 \in 1..Len(Checklist["refresh"]) /\ 3 \in 1..Len(Checklist["refresh"]) /\ 4 \in 1..Len(Checklist["refresh"]) /\ 5 \in 1..Len(Checklist["refresh"]) /\ 6 \in 1..Len(Checklist["refresh"])
    BY ChecklistFacts
  <2> QED BY <2>1, <2>2, <2>3
<1>7. ASSUME f \in {"challengeElsewhere", "noPRM", "prmOtherIssuer"}
      PROVE  FaultRow[f] = "prm" /\ \E j \in 1..Len(Checklist["prm"]): f \in Asked["prm"][j]
  <2>1. FaultRow[f] = "prm"
    BY <1>7 DEF FaultRow
  <2>2. f \in Asked["prm"][1] \/ f \in Asked["prm"][2]
    BY <1>7 DEF Asked
  <2>3. 1 \in 1..Len(Checklist["prm"]) /\ 2 \in 1..Len(Checklist["prm"])
    BY ChecklistFacts
  <2> QED BY <2>1, <2>2, <2>3
<1>8. ASSUME f \in {"anyResource", "anyAudience", "redeemsElsewhere", "refreshesElsewhere"}
      PROVE  FaultRow[f] = "audience" /\ \E j \in 1..Len(Checklist["audience"]): f \in Asked["audience"][j]
  <2>1. FaultRow[f] = "audience"
    BY <1>8 DEF FaultRow
  <2>2. f \in Asked["audience"][2] \/ f \in Asked["audience"][3] \/ f \in Asked["audience"][5] \/ f \in Asked["audience"][6]
    BY <1>8 DEF Asked
  <2>3. 2 \in 1..Len(Checklist["audience"]) /\ 3 \in 1..Len(Checklist["audience"]) /\ 5 \in 1..Len(Checklist["audience"]) /\ 6 \in 1..Len(Checklist["audience"])
    BY ChecklistFacts
  <2> QED BY <2>1, <2>2, <2>3
<1> QED BY <1>1, <1>2, <1>3, <1>4, <1>5, <1>6, <1>7, <1>8

-----------------------------------------------------------------------------
(* Qualify, and the decision. *)

Progress == [pc: {"probing", "probed", "decided"}, row: 1..6, at: Nat, failed: SUBSET AllRows,
             cuts: Nat, mem: Memory]

\* What the probes of this row that passed have told and left.
InRow ==
  Row \notin probe.failed =>
    /\ Left(Row, probe.at, as, probe.mem)
    /\ \A j \in 1..Len(Checklist[Row]): j < probe.at => Asked[Row][j] \cap faults = {}

\* What a row that ended has told.
Told(k) == Rows[k] \in probe.failed \/ \A f \in faults: FaultRow[f] # Rows[k]

\* Where the prober is, what it knows, and what the rows before have told.
QualInv ==
  /\ faults \subseteq Faults /\ probe \in Progress
  /\ probe.at \in 1..Len(Checklist[Row])
  /\ Known(Row, probe.at, as, probe.mem)
  /\ probe.row <= 4 \/ probe.cuts = 0 => as.consent
  /\ probe.pc = "probing" => InRow
  /\ \A k \in 1..6: k < probe.row \/ probe.pc # "probing" => Told(k)
  /\ faults = {} /\ probe.cuts = 0 => probe.failed = {}

\* Every row has more than one probe, and the fourth is refresh.
LEMMA RowNames ==
  ASSUME NEW k \in 1..6
  PROVE  /\ Rows[k] \in AllRows /\ Len(Checklist[Rows[k]]) \in Nat \ {0, 1}
         /\ Rows[k] = "refresh" <=> k = 4
<1>1. Rows[k] \in AllRows
  BY RowsFacts DEF AllRows
<1>2. k \in {1, 2, 3, 4, 5, 6}
  OBVIOUS
<1>3. /\ Rows[k] \in {"discovery", "registration", "code", "prm", "audience", "refresh"}
      /\ Rows[k] = "refresh" <=> k = 4
  BY <1>2, RowsFacts
<1>4. Len(Checklist[Rows[k]]) \in Nat \ {0, 1}
  <2> DEFINE r == Rows[k]
  <2>1. r \in {"discovery", "registration", "code", "prm", "audience", "refresh"}
    BY <1>3
  <2> HIDE DEF r
  <2>2. Len(Checklist[r]) \in {3, 4, 6, 7, 8}
    BY <2>1, ChecklistFacts
  <2>3. Len(Checklist[r]) \in Nat \ {0, 1}
    <3> DEFINE l == Len(Checklist[r])
    <3>1. l \in {3, 4, 6, 7, 8}
      BY <2>2
    <3> HIDE DEF l
    <3>2. l \in Nat \ {0, 1}
      BY <3>1
    <3> QED BY <3>2 DEF l
  <2> QED BY <2>3 DEF r
<1> QED BY <1>1, <1>3, <1>4

\* At its first probe a row has left nothing.
LEMMA LeftNothing ==
  \A row, s, m: Left(row, 1, s, m)
BY DEF Left

\* At its first probe a row knows nothing of its own.
LEMMA KnownFirst ==
  ASSUME NEW s, NEW m, Known("none", 0, s, m)
  PROVE  \A row: Known(row, 1, s, m)
BY DEF Known

\* A row whose last probe passed, and the ones before, has none of its faults.
LEMMA RowEnds ==
  ASSUME faults \subseteq Faults, NEW row,
         \A j \in 1..Len(Checklist[row]): Asked[row][j] \cap faults = {}
  PROVE  \A f \in faults: FaultRow[f] # row
<1> SUFFICES ASSUME NEW f \in faults, FaultRow[f] = row
             PROVE  FALSE
  OBVIOUS
<1>1. \E j \in 1..Len(Checklist[row]): f \in Asked[row][j]
  BY EveryFaultIsAsked
<1> QED BY <1>1

\* Where the prober goes after a probe.
LEMMA AdvanceFacts ==
  ASSUME probe \in Progress, NEW ok \in BOOLEAN, NEW mem \in Memory, NEW cuts \in Nat,
         Advance(ok, mem, cuts), NEW over \in BOOLEAN,
         over = ((probe.at = Len(Checklist[Row])) \/ (~ok /\ probe.at = 1 /\ Row \in Leading))
  PROVE  /\ probe' \in Progress
         /\ probe'.failed = IF ok THEN probe.failed ELSE probe.failed \cup {Row}
         /\ probe'.mem = mem /\ probe'.cuts = cuts
         /\ probe'.at = IF over THEN 1 ELSE probe.at + 1
         /\ probe'.row = IF over /\ probe.row < 6 THEN probe.row + 1 ELSE probe.row
         /\ probe'.pc = IF over /\ probe.row = 6 THEN "probed" ELSE probe.pc
<1> DEFINE failed == IF ok THEN probe.failed ELSE probe.failed \cup {Row}
           at == IF over THEN 1 ELSE probe.at + 1
           row == IF over /\ probe.row < 6 THEN probe.row + 1 ELSE probe.row
           pc == IF over /\ probe.row = 6 THEN "probed" ELSE probe.pc
<1>1. /\ probe.pc \in {"probing", "probed", "decided"} /\ probe.row \in 1..6 /\ probe.at \in Nat
      /\ probe.failed \in SUBSET AllRows
  BY DEF Progress
<1>2. Row \in AllRows
  BY <1>1, RowNames DEF Row
<1>3. failed \in SUBSET AllRows /\ at \in Nat /\ row \in 1..6 /\ pc \in {"probing", "probed", "decided"}
  BY <1>1, <1>2
<1>4. probe' = [probe EXCEPT !.failed = failed, !.mem = mem, !.cuts = cuts, !.at = at, !.row = row, !.pc = pc]
  BY RowsFacts DEF Advance
<1> HIDE DEF failed, at, row, pc
<1>5. /\ probe' \in Progress /\ probe'.failed = failed /\ probe'.mem = mem /\ probe'.cuts = cuts
      /\ probe'.at = at /\ probe'.row = row /\ probe'.pc = pc
  BY <1>3, <1>4 DEF Progress
<1> QED BY <1>5 DEF failed, at, row, pc

\* What a row left depends on the issuer's faults alone.
LEMMA SameFaults ==
  ASSUME faults' = faults, NEW row, NEW at, NEW s, NEW m
  PROVE  Left(row, at, s, m)' <=> Left(row, at, s, m)
BY DEF Left, Has, Stands

\* One probe, run or cut off.
LEMMA Advances ==
  ASSUME QualInv, probe.pc = "probing", faults' = faults,
         NEW ok \in BOOLEAN, NEW mem, NEW cuts \in Nat, Advance(ok, mem, cuts), probe.cuts <= cuts,
         Known("none", 0, as', mem),
         Row = "refresh" /\ (probe.at >= 2 \/ ok) => mem.grant.ok,
         ok /\ Left(Row, probe.at, as, probe.mem) =>
           Asked[Row][probe.at] \cap faults = {} /\ Left(Row, probe.at + 1, as', mem),
         Row \notin probe.failed /\ faults = {} /\ cuts = 0 => ok,
         as'.consent = as.consent \/ (probe.row = 4 /\ probe.at = 6 /\ cuts # 0)
  PROVE  QualInv'
<1> DEFINE k == probe.row
           j == probe.at
           n == Len(Checklist[Row])
           over == (j = n) \/ (~ok /\ j = 1 /\ Row \in Leading)
<1>1. /\ faults \subseteq Faults /\ probe \in Progress /\ j \in 1..n
      /\ k <= 4 \/ probe.cuts = 0 => as.consent
      /\ InRow /\ \A i \in 1..6: i < k => Told(i)
      /\ faults = {} /\ probe.cuts = 0 => probe.failed = {}
  BY DEF QualInv
<1>2. k \in 1..6 /\ probe.cuts \in Nat /\ n \in Nat /\ Row = Rows[k] /\ mem \in Memory
  BY <1>1, RowNames DEF Progress, Row, Known
<1>3. /\ probe' \in Progress
      /\ probe'.failed = IF ok THEN probe.failed ELSE probe.failed \cup {Row}
      /\ probe'.mem = mem /\ probe'.cuts = cuts
      /\ probe'.at = IF over THEN 1 ELSE j + 1
      /\ probe'.row = IF over /\ k < 6 THEN k + 1 ELSE k
      /\ probe'.pc = IF over /\ k = 6 THEN "probed" ELSE probe.pc
  BY <1>1, <1>2, AdvanceFacts
<1>4. Row' = Rows[probe'.row]
  BY DEF Row
<1> HIDE DEF over
<1>5. over /\ ok => j = n
  BY DEF over
<1>6. over \in BOOLEAN /\ (~over => j + 1 \in 1..n)
  BY <1>1, <1>2 DEF over
<1>7. Row \in probe'.failed \/ (ok /\ Row \notin probe.failed)
  BY <1>3
<1> DEFINE k2 == probe'.row
           j2 == probe'.at
           n2 == Len(Checklist[Rows[k2]])
<1>8. k2 \in 1..6 /\ j2 \in 1..n2
  <2>1. k2 \in 1..6
    BY <1>3 DEF Progress
  <2>2. n2 \in Nat \ {0, 1}
    BY <2>1, RowNames
  <2>3. CASE over
    BY <1>3, <2>1, <2>2, <2>3
  <2>4. CASE ~over
    <3>1. j2 = j + 1 /\ k2 = k
      BY <1>3, <2>4
    <3> QED BY <1>2, <1>6, <2>1, <2>4, <3>1
  <2> QED BY <1>6, <2>3, <2>4
<1>9. Known(Rows[k2], j2, as', mem)
  <2>1. CASE over
    <3>1. j2 = 1
      BY <1>3, <2>1
    <3> QED BY <3>1, KnownFirst
  <2>2. CASE ~over
    <3>1. j2 = j + 1 /\ Rows[k2] = Row
      BY <1>2, <1>3, <2>2
    <3>2. Row = "refresh" => j >= 2 \/ ok
      BY <1>1, <1>2, <2>2 DEF over, Leading
    <3> QED BY <3>1, <3>2 DEF Known
  <2> QED BY <1>6, <2>1, <2>2
<1>10. k2 <= 4 \/ cuts = 0 => as'.consent
  <2>1. CASE as'.consent = as.consent
    <3>1. k <= k2
      BY <1>2, <1>3
    <3>2. k2 <= 4 => k <= 4
      BY <1>2, <1>8, <3>1
    <3>3. cuts = 0 => probe.cuts = 0
      BY <1>2
    <3> QED BY <1>1, <2>1, <3>2, <3>3
  <2>2. CASE k = 4 /\ j = 6 /\ cuts # 0
    <3>1. n = 6
      BY <1>2, <2>2, RowsFacts, ChecklistFacts
    <3>2. over
      BY <2>2, <3>1 DEF over
    <3>3. k2 = 5
      BY <1>3, <2>2, <3>2
    <3> QED BY <2>2, <3>3
  <2> QED BY <2>1, <2>2
<1>11. ASSUME ~over, Row \notin probe'.failed
       PROVE  /\ Left(Row, j2, as', mem)
              /\ \A i \in 1..n: i < j2 => Asked[Row][i] \cap faults = {}
  <2>1. ok /\ Row \notin probe.failed /\ j2 = j + 1
    BY <1>3, <1>7, <1>11
  <2>2. Left(Row, j, as, probe.mem) /\ \A i \in 1..n: i < j => Asked[Row][i] \cap faults = {}
    BY <1>1, <2>1 DEF InRow
  <2>3. Asked[Row][j] \cap faults = {} /\ Left(Row, j + 1, as', mem)
    BY <2>1, <2>2
  <2>4. \A i \in 1..n: i < j + 1 => i < j \/ i = j
    BY <1>1, <1>2
  <2> QED BY <2>1, <2>2, <2>3, <2>4
<1>12. ASSUME over PROVE Row \in probe'.failed \/ \A f \in faults: FaultRow[f] # Row
  <2> SUFFICES ASSUME Row \notin probe'.failed PROVE \A f \in faults: FaultRow[f] # Row
    OBVIOUS
  <2>1. ok /\ Row \notin probe.failed /\ j = n
    BY <1>5, <1>7, <1>12
  <2>2. Left(Row, j, as, probe.mem) /\ \A i \in 1..n: i < j => Asked[Row][i] \cap faults = {}
    BY <1>1, <2>1 DEF InRow
  <2>3. Asked[Row][j] \cap faults = {}
    BY <2>1, <2>2
  <2>4. \A i \in 1..n: i < j \/ i = j
    BY <1>1, <1>2, <2>1
  <2>5. \A i \in 1..n: Asked[Row][i] \cap faults = {}
    BY <2>2, <2>3, <2>4
  <2> QED BY <1>1, <2>5, RowEnds
<1>13. InRow' \/ probe'.pc # "probing"
  <2>1. CASE over
    <3>1. j2 = 1
      BY <1>3, <2>1
    <3>2. \A i \in 1..n2: ~(i < 1)
      OBVIOUS
    <3>3. Left(Row, probe.at, as, probe.mem)'
      BY <3>1, LeftNothing, SameFaults
    <3> QED BY <1>4, <3>1, <3>2, <3>3 DEF InRow
  <2>2. CASE ~over
    <3>1. Rows[k2] = Row /\ Row' = Row
      BY <1>2, <1>3, <1>4, <2>2
    <3> SUFFICES ASSUME Row' \notin probe'.failed
                 PROVE  /\ Left(Row, probe.at, as, probe.mem)'
                        /\ \A i \in 1..Len(Checklist[Row]'): i < j2 => Asked[Row'][i] \cap faults' = {}
      BY DEF InRow
    <3>2. /\ Left(Row, j2, as', mem)
          /\ \A i \in 1..n: i < j2 => Asked[Row][i] \cap faults = {}
      BY <1>11, <2>2, <3>1
    <3> QED BY <1>3, <3>1, <3>2, SameFaults
  <2> QED BY <1>6, <2>1, <2>2
<1>14. ASSUME NEW i \in 1..6, i < k2 \/ probe'.pc # "probing"
       PROVE  Rows[i] \in probe'.failed \/ \A f \in faults: FaultRow[f] # Rows[i]
  <2>1. i < k \/ (i = k /\ over)
    <3>1. CASE probe'.pc # "probing"
      <4>1. over /\ k = 6
        BY <1>3, <3>1
      <4> QED BY <1>2, <4>1
    <3>2. CASE i < k2
      <4>1. CASE over
        BY <1>2, <1>3, <3>2, <4>1
      <4>2. CASE ~over
        BY <1>2, <1>3, <3>2, <4>2
      <4> QED BY <1>6, <4>1, <4>2
    <3> QED BY <1>14, <3>1, <3>2
  <2>2. CASE i < k
    BY <1>1, <1>3, <2>2 DEF Told
  <2>3. CASE i = k /\ over
    BY <1>2, <1>12, <2>3
  <2> QED BY <2>1, <2>2, <2>3
<1>15. faults = {} /\ cuts = 0 => probe'.failed = {}
  <2> SUFFICES ASSUME faults = {}, cuts = 0 PROVE probe'.failed = {}
    OBVIOUS
  <2>1. probe.failed = {}
    BY <1>1, <1>2
  <2>2. ok
    BY <2>1
  <2> QED BY <1>3, <2>1, <2>2
<1>16. probe'.pc = "probing" => InRow'
  BY <1>13
<1>17. \A i \in 1..6: i < probe'.row \/ probe'.pc # "probing" => Told(i)'
  BY <1>14 DEF Told
<1>18. /\ probe'.at \in 1..Len(Checklist[Row'])
       /\ Known(Row', probe'.at, as', probe'.mem)
  BY <1>3, <1>4, <1>8, <1>9
<1>19. /\ probe'.row <= 4 \/ probe'.cuts = 0 => as'.consent
       /\ faults' = {} /\ probe'.cuts = 0 => probe'.failed = {}
  BY <1>3, <1>10, <1>15
<1> HIDE DEF k, j, n, k2, j2, n2
<1> QED BY <1>1, <1>3, <1>16, <1>17, <1>18, <1>19 DEF QualInv

\* What holds of the decision once there is one.
Decides ==
  /\ choice.strategy = "delegated" =>
       faults = {} /\ choice.allowed /\ choice.receipts = "accepted" /\ choice.own = {}
  /\ choice.strategy # "error" => Validates(choice)
  /\ choice.strategy = "error" <=> choice.own # {}

QualifyInv == QualInv /\ (choice.made => Decides)

\* A qualification starts with nothing known.
LEMMA QualifyStarts ==
  ASSUME QualifyInit
  PROVE  QualifyInv
<1> DEFINE r == [NoResponse EXCEPT !.ok = FALSE]
           m == [client |-> 0, grant |-> r, next |-> 0, named |-> FALSE]
<1>1. r \in Response /\ r.ok = FALSE
  BY DEF NoResponse, Response, Errors, Resources
<1> HIDE DEF r
<1>2. m \in Memory /\ m.grant.ok = FALSE
  BY <1>1 DEF Memory
<1>3. NoIssuer \in Issuer /\ NoIssuer.consent = TRUE
  <2>1. NoResponse \in Response
    BY DEF NoResponse, Response, Errors, Resources
  <2> QED BY <2>1 DEF NoIssuer, Issuer
<1>4. probe = [pc |-> "probing", row |-> 1, at |-> 1, failed |-> {}, cuts |-> 0, mem |-> m]
  BY DEF QualifyInit, NoProbe, r
<1> HIDE DEF m
<1>5. /\ probe.pc = "probing" /\ probe.row = 1 /\ probe.at = 1 /\ probe.failed = {} /\ probe.cuts = 0
      /\ probe.mem = m /\ probe \in Progress
  BY <1>2, <1>4 DEF Progress
<1>6. Row = "discovery"
  BY <1>5, RowsFacts DEF Row
<1>7. faults \subseteq Faults /\ as = NoIssuer /\ choice.made = FALSE
  BY QualifyAssumption DEF QualifyInit, Untold
<1>8. Known(Row, probe.at, as, probe.mem)
  BY <1>2, <1>3, <1>5, <1>7 DEF Known
<1>9. InRow
  <2>1. \A j \in 1..Len(Checklist[Row]): ~(j < 1)
    OBVIOUS
  <2> QED BY <1>5, <2>1, LeftNothing DEF InRow
<1>10. probe.at \in 1..Len(Checklist[Row])
  BY <1>5, <1>6, ChecklistFacts
<1>11. \A k \in 1..6: ~(k < 1)
  OBVIOUS
<1> QED BY <1>3, <1>5, <1>7, <1>8, <1>9, <1>10, <1>11 DEF QualInv, QualifyInv

\* The probe at hand tells of the faults it asks about.
LEMMA Probing ==
  ASSUME QualInv, probe.pc = "probing"
  PROVE  LET o == Probe(as, Row, Step)
         IN Tells(Row, probe.at, o)
<1>1. /\ probe.row \in 1..6 /\ probe.at \in 1..Len(Checklist[Rows[probe.row]])
      /\ Known(Rows[probe.row], probe.at, as, probe.mem)
      /\ probe.row <= 4 => as.consent
  BY DEF QualInv, Progress, Row
<1>2. Tells(Rows[probe.row], probe.at, Probe(as, Rows[probe.row], Checklist[Rows[probe.row]][probe.at]))
  BY <1>1, ProbeTells
<1> QED BY <1>2 DEF Row, Step

\* A probe that runs keeps the invariant.
LEMMA RunProbeKeeps ==
  ASSUME QualifyInv, RunProbe
  PROVE  QualifyInv'
<1> DEFINE o == Probe(as, Row, Step)
<1>1. QualInv /\ probe.pc = "probing" /\ faults' = faults /\ choice' = choice
  BY DEF QualifyInv, RunProbe
<1>2. as' = o.s /\ Advance(o.ok, o.mem, probe.cuts)
  BY DEF RunProbe
<1>3. Tells(Row, probe.at, o)
  BY <1>1, Probing
<1> HIDE DEF o
<1>4. /\ o.ok \in BOOLEAN
      /\ Known("none", 0, as', o.mem)
      /\ Row = "refresh" /\ (probe.at >= 2 \/ o.ok) => o.mem.grant.ok
      /\ o.ok /\ Left(Row, probe.at, as, probe.mem) =>
           Asked[Row][probe.at] \cap faults = {} /\ Left(Row, probe.at + 1, as', o.mem)
      /\ Left(Row, probe.at, as, probe.mem) /\ as.consent /\ faults = {} => o.ok
      /\ as'.consent = as.consent
  BY <1>2, <1>3 DEF Tells
<1>5. probe.cuts \in Nat /\ probe.cuts <= probe.cuts
  BY <1>1 DEF QualInv, Progress
<1>6. Row \notin probe.failed /\ faults = {} /\ probe.cuts = 0 => o.ok
  BY <1>1, <1>4 DEF QualInv, InRow
<1>7. /\ Row = "refresh" /\ (probe.at >= 2 \/ o.ok) => o.mem.grant.ok
      /\ o.ok /\ Left(Row, probe.at, as, probe.mem) =>
           Asked[Row][probe.at] \cap faults = {} /\ Left(Row, probe.at + 1, as', o.mem)
      /\ as'.consent = as.consent \/ (probe.row = 4 /\ probe.at = 6 /\ probe.cuts # 0)
  BY <1>4
<1> DEFINE ok == o.ok
           m == o.mem
           cuts == probe.cuts
<1>8. /\ ok \in BOOLEAN /\ cuts \in Nat /\ Advance(ok, m, cuts) /\ probe.cuts <= cuts
      /\ Known("none", 0, as', m)
  BY <1>2, <1>4, <1>5
<1>9. Row = "refresh" /\ (probe.at >= 2 \/ ok) => m.grant.ok
  BY <1>7
<1>10. ok /\ Left(Row, probe.at, as, probe.mem) =>
         Asked[Row][probe.at] \cap faults = {} /\ Left(Row, probe.at + 1, as', m)
  BY <1>7
<1>11. Row \notin probe.failed /\ faults = {} /\ cuts = 0 => ok
  BY <1>6
<1>12. as'.consent = as.consent \/ (probe.row = 4 /\ probe.at = 6 /\ cuts # 0)
  BY <1>7
<1> HIDE DEF ok, m, cuts
<1>13. QualInv'
  BY <1>1, <1>8, <1>9, <1>10, <1>11, <1>12, Advances
<1>14. (choice.made => Decides)'
  BY <1>1 DEF QualifyInv, Decides, Validates, Passed
<1> QED BY <1>13, <1>14 DEF QualifyInv

\* The one probe that withdraws the test user's consent.
LEMMA RevokedStep ==
  ASSUME NEW k \in 1..6, NEW j \in 1..Len(Checklist[Rows[k]]), Checklist[Rows[k]][j] = "revoked-consent-rejected"
  PROVE  k = 4 /\ j = 6
<1>1. CASE k = 1
  BY <1>1, RowsFacts, ChecklistFacts DEF Checklist
<1>2. CASE k = 2
  BY <1>2, RowsFacts, ChecklistFacts DEF Checklist
<1>3. CASE k = 3
  BY <1>3, RowsFacts, ChecklistFacts DEF Checklist
<1>4. CASE k = 4
  BY <1>4, RowsFacts, ChecklistFacts DEF Checklist
<1>5. CASE k = 5
  BY <1>5, RowsFacts, ChecklistFacts DEF Checklist
<1>6. CASE k = 6
  BY <1>6, RowsFacts, ChecklistFacts DEF Checklist
<1> QED BY <1>1, <1>2, <1>3, <1>4, <1>5, <1>6

\* So does one whose connection fails, wherever it does,
LEMMA CutProbeKeeps ==
  ASSUME QualifyInv, CutProbe
  PROVE  QualifyInv'
<1> DEFINE o == Probe(as, Row, Step)
           m == probe.mem
           g == m.grant
           lost == [g EXCEPT !.ok = FALSE]
           kept == [m EXCEPT !.grant = lost]
           mem == IF Step \in {"grant-issued", "token-accepted"} THEN kept ELSE m
           cuts == probe.cuts + 1
           ok == FALSE
<1>1. QualInv /\ probe.pc = "probing" /\ faults' = faults /\ choice' = choice
  BY DEF QualifyInv, CutProbe
<1>2. /\ \/ as' = as
         \/ as' = o.s
         \/ Step = "revoked-consent-rejected" /\ as' = [o.s EXCEPT !.consent = FALSE]
      /\ Advance(ok, mem, cuts)
  BY DEF CutProbe
<1>3. Tells(Row, probe.at, o)
  BY <1>1, Probing
<1> HIDE DEF o
<1>4. o.s \in Issuer /\ o.s.consent = as.consent /\ Len(as.fams) <= Len(o.s.fams)
  BY <1>3 DEF Tells, Known
<1>5. /\ as \in Issuer /\ m \in Memory /\ (g.ok => g.id \in 1..Len(as.fams))
      /\ Row = "refresh" /\ probe.at >= 2 => g.ok
      /\ probe.row \in 1..6 /\ probe.at \in 1..Len(Checklist[Row]) /\ probe.cuts \in Nat
  BY <1>1 DEF QualInv, Known, Progress
<1>6. as' \in Issuer /\ Len(as.fams) <= Len(as'.fams)
  <2>1. Len(as.fams) \in Nat
    BY <1>5, IssuerFacts
  <2>2. CASE as' = as
    <3>1. Len(as.fams) <= Len(as.fams)
      BY <2>1
    <3> QED BY <1>5, <2>2, <3>1
  <2>3. CASE as' = o.s
    BY <1>4, <2>3
  <2>4. CASE as' = [o.s EXCEPT !.consent = FALSE]
    <3> DEFINE s == o.s
    <3>1. s \in Issuer /\ as' = [s EXCEPT !.consent = FALSE]
      BY <1>4, <2>4
    <3> HIDE DEF s
    <3>2. as' \in Issuer /\ as'.fams = s.fams
      BY <3>1, Consented
    <3> QED BY <1>4, <3>2 DEF s
  <2> QED BY <1>2, <2>2, <2>3, <2>4
<1>7. as'.consent = as.consent \/ (probe.row = 4 /\ probe.at = 6)
  <2>1. CASE Step = "revoked-consent-rejected"
    <3>1. probe.row = 4 /\ probe.at = 6
      <4>1. Row = Rows[probe.row] /\ Step = Checklist[Row][probe.at]
        BY DEF Row, Step
      <4> QED BY <1>5, <2>1, <4>1, RevokedStep
    <3> QED BY <3>1
  <2>2. CASE Step # "revoked-consent-rejected"
    BY <1>2, <1>4, <2>2
  <2> QED BY <2>1, <2>2
<1>8. kept \in Memory /\ kept.grant.ok = FALSE
  <2>1. g \in Response
    BY <1>5, MemoryFacts
  <2> HIDE DEF g
  <2>2. lost \in Response /\ lost.ok = FALSE
    BY <2>1 DEF Response
  <2> HIDE DEF m, lost
  <2>3. kept \in Memory /\ kept.grant = lost
    BY <1>5, <2>2 DEF Memory
  <2> QED BY <2>2, <2>3
<1> HIDE DEF kept
<1>9. mem \in Memory /\ (mem.grant.ok => mem.grant.ok = m.grant.ok /\ mem.grant.id = m.grant.id)
  BY <1>5, <1>8
<1>10. Row = "refresh" /\ (probe.at >= 2 \/ ok) => mem.grant.ok
  <2> SUFFICES ASSUME Row = "refresh", probe.at >= 2 PROVE mem.grant.ok
    OBVIOUS
  <2>1. Step \notin {"grant-issued", "token-accepted"}
    <3>1. \A j \in 1..6: j >= 2 => Checklist["refresh"][j] \notin {"grant-issued", "token-accepted"}
      BY DEF Checklist
    <3> QED BY <1>5, <3>1, ChecklistFacts DEF Step
  <2> QED BY <1>5, <2>1
<1> HIDE DEF mem, m, g
<1>11. Known("none", 0, as', mem)
  <2>1. ASSUME mem.grant.ok PROVE mem.grant.id \in 1..Len(as'.fams)
    <3>1. mem.grant.id \in 1..Len(as.fams)
      BY <1>5, <1>9, <2>1 DEF g
    <3>2. Len(as.fams) \in Nat /\ Len(as'.fams) \in Nat
      BY <1>5, <1>6, IssuerFacts
    <3> QED BY <1>6, <3>1, <3>2, RangesGrow
  <2> QED BY <1>6, <1>9, <2>1 DEF Known
<1>12. /\ ok \in BOOLEAN /\ cuts \in Nat /\ probe.cuts <= cuts /\ cuts # 0
  BY <1>5
<1>13. ok /\ Left(Row, probe.at, as, probe.mem) =>
         Asked[Row][probe.at] \cap faults = {} /\ Left(Row, probe.at + 1, as', mem)
  OBVIOUS
<1>14. Row \notin probe.failed /\ faults = {} /\ cuts = 0 => ok
  BY <1>12
<1>15. as'.consent = as.consent \/ (probe.row = 4 /\ probe.at = 6 /\ cuts # 0)
  BY <1>7, <1>12
<1> HIDE DEF ok, cuts
<1>16. QualInv'
  BY <1>1, <1>2, <1>10, <1>11, <1>12, <1>13, <1>14, <1>15, Advances
<1>17. (choice.made => Decides)'
  BY <1>1 DEF QualifyInv, Decides, Validates, Passed
<1> QED BY <1>16, <1>17 DEF QualifyInv

\* The rows of a checklist that no fault got past are those of the faults.
LEMMA ToldAll ==
  ASSUME QualInv, probe.pc # "probing"
  PROVE  {FaultRow[f]: f \in faults} \subseteq probe.failed
<1> SUFFICES ASSUME NEW f \in faults PROVE FaultRow[f] \in probe.failed
  OBVIOUS
<1>1. f \in Faults /\ \A k \in 1..6: Told(k)
  BY DEF QualInv
<1>2. FaultRow[f] \in AllRows
  BY <1>1, EveryFaultIsAsked
<1>3. PICK k \in 1..6: FaultRow[f] = Rows[k]
  BY <1>2, RowsFacts DEF AllRows
<1> QED BY <1>1, <1>3 DEF Told

\* A qualification that is put before SelectIssuer has failed nothing only
\* if the prober's own rows failed nothing.
LEMMA ExternalFacts ==
  ASSUME NEW q, q \in {Probed, PendingQualification, [Probed EXCEPT !.issuer = "another"]}
  PROVE  /\ q.strategy = "delegated" /\ q.issuer \in {"external", "another"}
         /\ q.issuer = "external" /\ q.failing = {} => probe.failed = {}
<1>1. "discovery" \in AllRows
  BY RowNames, RowsFacts
<1>2. CASE q = Probed
  BY <1>2 DEF Probed, Qualification
<1>3. CASE q = PendingQualification
  BY <1>1, <1>3 DEF PendingQualification, Qualification
<1>4. CASE q = [Probed EXCEPT !.issuer = "another"]
  BY <1>4 DEF Probed, Qualification
<1> QED BY <1>2, <1>3, <1>4

\* A selection for the built-in issuer with no failing rows, or with some.
LEMMA SelectionFacts ==
  ASSUME NEW b, b.issuer = "self", b.strategy = "built-in", NEW issuer \in {"none", "external"},
         NEW allowed \in BOOLEAN, NEW receipts, NEW external \in Externals,
         NEW sel, sel = SelectIssuer(b, issuer, allowed, receipts, external)
  PROVE  /\ ~Passed(b) => sel.strategy = "error"
         /\ Passed(b) => \/ sel.strategy = "built-in" /\ sel.issuer = "self"
                         \/ /\ sel.strategy = "delegated" /\ sel.issuer = "external"
                            /\ allowed /\ receipts = "accepted" /\ external # <<>>
                            /\ external[1].issuer = "external" /\ external[1].failing = {}
<1> DEFINE rows == IF external = <<>> THEN AllRows
                   ELSE IF external[1].issuer # issuer \/ external[1].strategy # "delegated" THEN AllRows
                   ELSE external[1].failing
<1>1. sel = IF ~Passed(b) THEN [strategy |-> "error", failing |-> {}, issuer |-> "none"]
            ELSE IF issuer # "none" /\ allowed /\ receipts = "accepted" /\ rows = {}
            THEN [strategy |-> "delegated", failing |-> {}, issuer |-> issuer]
            ELSE [strategy |-> "built-in", issuer |-> b.issuer, failing |-> IF issuer = "none" THEN {} ELSE rows]
  BY DEF SelectIssuer
<1>2. "discovery" \in AllRows
  BY RowNames, RowsFacts
<1>3. rows = {} => external # <<>> /\ external[1].issuer = issuer /\ external[1].failing = {}
  BY <1>2
<1> HIDE DEF rows
<1>4. CASE ~Passed(b)
  BY <1>1, <1>4
<1>5. CASE Passed(b) /\ issuer # "none" /\ allowed /\ receipts = "accepted" /\ rows = {}
  BY <1>1, <1>3, <1>5
<1>6. CASE Passed(b) /\ ~(issuer # "none" /\ allowed /\ receipts = "accepted" /\ rows = {})
  BY <1>1, <1>6
<1> QED BY <1>4, <1>5, <1>6

\* Validate accepts the qualifications of the built-in issuer and at most one
\* other, with a selection that agrees with them.
LEMMA ValidFacts ==
  ASSUME NEW d, NEW b, NEW E, d.quals = {b} \cup E,
         b.strategy = "built-in", b.issuer = "self", Passed(b),
         E = {} \/ \E q: E = {q} /\ q.strategy = "delegated",
         \/ d.sel.strategy = "built-in" /\ d.sel.issuer = "self"
         \/ d.sel.strategy = "delegated" /\ \E q \in E: Passed(q) /\ q.issuer = d.sel.issuer
  PROVE  Validates(d)
<1> DEFINE builtIn == {q \in d.quals: q.strategy = "built-in"}
           delegated == {q \in d.quals: q.strategy = "delegated"}
<1>1. \A q \in E: q.strategy = "delegated"
  OBVIOUS
<1>2. builtIn = {b} /\ delegated = E
  BY <1>1
<1> HIDE DEF builtIn, delegated
<1>3. Cardinality(delegated) <= 1
  <2>1. CASE E = {}
    BY <1>2, <2>1, FS_EmptySet
  <2>2. CASE \E q: E = {q}
    BY <1>2, <2>2, FS_Singleton
  <2> QED BY <2>1, <2>2
<1>4. builtIn # {} /\ \A q \in builtIn: Passed(q) /\ q.issuer = "self"
  BY <1>2
<1>5. CASE d.sel.strategy = "built-in" /\ d.sel.issuer = "self"
  BY <1>3, <1>4, <1>5 DEF Validates, builtIn, delegated
<1>6. CASE d.sel.strategy = "delegated" /\ \E q \in E: Passed(q) /\ q.issuer = d.sel.issuer
  BY <1>2, <1>3, <1>4, <1>6 DEF Validates, builtIn, delegated
<1> QED BY <1>5, <1>6

\* and the selection.
LEMMA SelectKeeps ==
  ASSUME QualifyInv, Select
  PROVE  QualifyInv'
<1>1. QualInv /\ probe.pc = "probed" /\ faults' = faults /\ as' = as /\ probe' = [probe EXCEPT !.pc = "decided"]
  BY DEF QualifyInv, Select
<1>2. QualInv'
  <2>1. /\ probe' \in Progress /\ probe'.pc = "decided" /\ probe'.row = probe.row /\ probe'.at = probe.at
        /\ probe'.failed = probe.failed /\ probe'.cuts = probe.cuts /\ probe'.mem = probe.mem
    BY <1>1 DEF QualInv, Progress
  <2>2. Row' = Row
    BY <2>1 DEF Row
  <2> QED BY <1>1, <2>1, <2>2 DEF QualInv, Told
<1>3. PICK own \in {{}, {"discovery"}}, issuer \in {"none", "external"}, allowed \in BOOLEAN,
           receipts \in Receipts, external \in Externals:
        LET b == Qualification("built-in", "self", own, FALSE)
            sel == SelectIssuer(b, issuer, allowed, receipts, external)
        IN choice' = [made |-> TRUE, strategy |-> sel.strategy, failing |-> sel.failing,
                      sel |-> sel, allowed |-> allowed, receipts |-> receipts, own |-> own,
                      quals |-> {b} \cup {external[i]: i \in 1..Len(external)}]
  BY DEF Select
<1> DEFINE b == Qualification("built-in", "self", own, FALSE)
           sel == SelectIssuer(b, issuer, allowed, receipts, external)
           E == {external[i]: i \in 1..Len(external)}
           d == choice'
<1>4. b.strategy = "built-in" /\ b.issuer = "self" /\ (Passed(b) <=> own = {})
  BY DEF Qualification, Passed
<1> HIDE DEF sel, b, E
<1>5. d = [made |-> TRUE, strategy |-> sel.strategy, failing |-> sel.failing,
           sel |-> sel, allowed |-> allowed, receipts |-> receipts, own |-> own, quals |-> {b} \cup E]
  BY <1>3 DEF sel, b, E
<1> HIDE DEF d
<1>6. /\ d.strategy = sel.strategy /\ d.sel = sel /\ d.allowed = allowed /\ d.receipts = receipts
      /\ d.own = own /\ d.quals = {b} \cup E
  BY <1>5
<1>7. /\ ~Passed(b) => sel.strategy = "error"
      /\ Passed(b) => \/ sel.strategy = "built-in" /\ sel.issuer = "self"
                      \/ /\ sel.strategy = "delegated" /\ sel.issuer = "external"
                         /\ allowed /\ receipts = "accepted" /\ external # <<>>
                         /\ external[1].issuer = "external" /\ external[1].failing = {}
  BY <1>4, SelectionFacts DEF sel
<1>8. \/ external = <<>> /\ E = {}
      \/ \E q \in {Probed, PendingQualification, [Probed EXCEPT !.issuer = "another"]}:
           external = <<q>> /\ E = {q}
  <2>1. CASE external = <<>>
    BY <2>1 DEF E
  <2>2. ASSUME NEW q, external = <<q>> PROVE E = {q}
    BY <2>2 DEF E
  <2> QED BY <2>1, <2>2 DEF Externals
<1>9. E = {} \/ \E q: E = {q} /\ q.strategy = "delegated"
  BY <1>8, ExternalFacts
<1>10. ASSUME d.strategy = "delegated"
       PROVE  /\ Passed(b) /\ faults = {} /\ d.allowed /\ d.receipts = "accepted" /\ d.own = {}
              /\ \E q \in E: Passed(q) /\ q.issuer = sel.issuer
  <2>1. Passed(b) /\ sel.issuer = "external" /\ allowed /\ receipts = "accepted" /\ external # <<>>
        /\ external[1].issuer = "external" /\ external[1].failing = {}
    BY <1>6, <1>7, <1>10
  <2>2. PICK q \in {Probed, PendingQualification, [Probed EXCEPT !.issuer = "another"]}: external = <<q>> /\ E = {q}
    BY <1>8, <2>1
  <2>3. q.issuer = "external" /\ q.failing = {}
    BY <2>1, <2>2
  <2>4. probe.failed = {}
    BY <2>2, <2>3, ExternalFacts
  <2>5. faults = {}
    BY <1>1, <2>4, ToldAll
  <2> QED BY <1>4, <1>6, <2>1, <2>2, <2>3, <2>5 DEF Passed
<1>11. ASSUME d.strategy # "error" PROVE Validates(d)
  <2>1. Passed(b)
    BY <1>6, <1>7, <1>11
  <2>2. \/ d.sel.strategy = "built-in" /\ d.sel.issuer = "self"
        \/ d.sel.strategy = "delegated" /\ \E q \in E: Passed(q) /\ q.issuer = d.sel.issuer
    BY <1>6, <1>7, <1>10, <2>1
  <2> QED BY <1>4, <1>6, <1>9, <2>1, <2>2, ValidFacts
<1>12. d.strategy = "error" <=> d.own # {}
  BY <1>4, <1>6, <1>7
<1>13. Decides'
  <2>1. Validates(choice)' <=> Validates(d)
    BY DEF Validates, Passed, d
  <2> QED BY <1>1, <1>10, <1>11, <1>12, <2>1 DEF Decides, d
<1> QED BY <1>2, <1>13 DEF QualifyInv

\* QualifiedIssuersComply: whatever an issuer does wrong, alone or in any
\* combination, and however often its connection fails, the qualification
\* fails it at the row that asks, and delegates to nothing else than a
\* conforming issuer (Qualify, SelectIssuer, DeploymentRecord.Validate).
THEOREM QualifiedIssuersAlwaysComply == QualifySpec => []QualifiedIssuersComply
<1>1. QualifyInit => QualifyInv
  BY QualifyStarts
<1>2. QualifyInv /\ [QualifyNext]_qualifyVars => QualifyInv'
  <2> SUFFICES ASSUME QualifyInv, [QualifyNext]_qualifyVars
               PROVE  QualifyInv'
    OBVIOUS
  <2>1. CASE RunProbe
    BY <2>1, RunProbeKeeps
  <2>2. CASE CutProbe
    BY <2>2, CutProbeKeeps
  <2>3. CASE Select
    BY <2>3, SelectKeeps
  <2>4. CASE UNCHANGED qualifyVars
    <3>1. faults' = faults /\ as' = as /\ probe' = probe /\ choice' = choice
      BY <2>4 DEF qualifyVars
    <3>2. QualInv' <=> QualInv
      <4>1. Row' = Row
        BY <3>1 DEF Row
      <4>2. InRow' <=> InRow
        BY <3>1, <4>1 DEF InRow, Left, Has, Stands
      <4>3. \A k: Told(k)' <=> Told(k)
        BY <3>1 DEF Told
      <4> QED BY <3>1, <4>1, <4>2, <4>3 DEF QualInv
    <3>3. Decides' <=> Decides
      BY <3>1 DEF Decides, Validates, Passed
    <3> QED BY <3>1, <3>2, <3>3 DEF QualifyInv
  <2> QED BY <2>1, <2>2, <2>3, <2>4 DEF QualifyNext
<1>3. QualifyInv => QualifiedIssuersComply
  <2> SUFFICES ASSUME QualifyInv PROVE QualifiedIssuersComply
    OBVIOUS
  <2>1. probe.pc # "probing" => {FaultRow[f]: f \in faults} \subseteq probe.failed
    BY ToldAll DEF QualifyInv
  <2>2. faults = {} /\ probe.cuts = 0 => Status(Probed) = "qualified"
    BY DEF QualifyInv, QualInv, Status, Probed, Qualification, Passed
  <2>3. choice.made => Decides
    BY DEF QualifyInv
  <2> QED BY <2>1, <2>2, <2>3 DEF QualifiedIssuersComply, Decides
<1> QED BY <1>1, <1>2, <1>3, PTL DEF QualifySpec

=============================================================================
