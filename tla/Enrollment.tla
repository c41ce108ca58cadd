----------------------------- MODULE Enrollment -----------------------------
(* Operator enrollment of the registry: GitHub sign-in flows, invitations  *)
(* to the configured workspace, memberships and the founder's bootstrap    *)
(* (enrollment.Handler over storage.EnrollmentStore, migration 010).       *)
(*                                                                         *)
(* Callbacks run concurrently, on any replica.  CompleteLogin is one READ  *)
(* COMMITTED transaction of two steps: the lookup of the membership, and   *)
(* the writes, whose row locks and unique keys are held until the commit.  *)
(* A refused request leaves the state as it was and, unless it gives up a  *)
(* callback, is a stuttering step.                                         *)
EXTENDS FiniteSets

CONSTANTS
  Account,         \* GitHub accounts
  Founder,         \* Config.FounderAccount
  Flow,            \* states that start draws
  Invitation,      \* invitation tokens that createInvitation draws
  Callback,        \* concurrent callback requests
  Scope,
  BootstrapScopes, \* Config.BootstrapScopes
  AllowedScopes,   \* Config.AllowedScopes
  None

ASSUME ScopeAssumption == BootstrapScopes \subseteq Scope /\ AllowedScopes \subseteq Scope

ASSUME FounderAssumption == Founder \in Account

ASSUME NoneAssumption == None \notin Account \union Invitation \union Flow

VARIABLES
  flows,     \* github_login_flows
  cookie,    \* the invitation sealed in each flow's cookie
  invites,   \* workspace_invitations
  members,   \* workspace_memberships
  bootstrap, \* founder_bootstrap: the subject of the only row, or None
  workspace, \* whether the configured workspace exists
  cb,        \* callbacks in progress
  sessions   \* session cookies issued, with the flow they came from

vars == <<flows, cookie, invites, members, bootstrap, workspace, cb, sessions>>

NoInvitation ==
  [state |-> "unused", account |-> None, role |-> "none", scopes |-> {}, by |-> None,
   expired |-> FALSE]
NoMember == [role |-> "none", scopes |-> {}, active |-> FALSE]
Idle == [pc |-> "idle", flow |-> None, account |-> None, inTime |-> FALSE]

(* The workspace may have been created before enrollment was configured.   *)
Init ==
  /\ flows = [f \in Flow |-> "unused"]
  /\ cookie = [f \in Flow |-> None]
  /\ invites = [i \in Invitation |-> NoInvitation]
  /\ members = [a \in Account |-> NoMember]
  /\ bootstrap = None
  /\ workspace \in BOOLEAN
  /\ cb = [c \in Callback |-> Idle]
  /\ sessions = {}

Enrolled(a) == members[a].role # "none"

-----------------------------------------------------------------------------
(* Sign-in flows.                                                          *)

(* start, with or without an invitation token: CreateFlow inserts the      *)
(* flow.  It also prunes expired rows, which nothing tells from rows that  *)
(* are past their time: ConsumeFlow takes neither.                         *)
Start(f, i) ==
  /\ flows[f] = "unused"
  /\ flows' = [flows EXCEPT ![f] = "open"]
  /\ cookie' = [cookie EXCEPT ![f] = i]
  /\ UNCHANGED <<invites, members, bootstrap, workspace, cb, sessions>>

FlowExpires(f) ==
  /\ flows[f] = "open"
  /\ flows' = [flows EXCEPT ![f] = "expired"]
  /\ UNCHANGED <<cookie, invites, members, bootstrap, workspace, cb, sessions>>

(* Mutant: an existing flow is enough, consumed or not.                    *)
ConsumeFlowAgain(c, f) ==
  /\ cb[c].pc = "idle"
  /\ flows[f] \in {"open", "consumed"}
  /\ flows' = [flows EXCEPT ![f] = "consumed"]
  /\ cb' = [cb EXCEPT ![c] = [Idle EXCEPT !.pc = "identify", !.flow = f]]
  /\ UNCHANGED <<cookie, invites, members, bootstrap, workspace, sessions>>

(* callback up to ConsumeFlow: the cookie opens, matches the state and is  *)
(* within its time, and this request is the first to consume the flow.     *)
ConsumeFlow(c, f) ==
  /\ cb[c].pc = "idle"
  /\ flows[f] = "open"
  /\ flows' = [flows EXCEPT ![f] = "consumed"]
  /\ cb' = [cb EXCEPT ![c] = [Idle EXCEPT !.pc = "identify", !.flow = f]]
  /\ UNCHANGED <<cookie, invites, members, bootstrap, workspace, sessions>>

(* githubAccount answers the account that signed in; the call of           *)
(* CompleteLogin takes the time by which the invitation is judged.         *)
Identify(c, a) ==
  LET i == cookie[cb[c].flow]
  IN  /\ cb[c].pc = "identify"
      /\ cb' = [cb EXCEPT ![c] = [pc |-> "lookup", flow |-> cb[c].flow, account |-> a,
                                  inTime |-> i # None /\ ~invites[i].expired]]
      /\ UNCHANGED <<flows, cookie, invites, members, bootstrap, workspace, sessions>>

(* The callback ends without a session: GitHub fails, a query fails, the   *)
(* commit is not acknowledged, the session cannot be issued.               *)
GiveUp(c) ==
  /\ cb[c].pc # "idle"
  /\ cb' = [cb EXCEPT ![c] = Idle]
  /\ UNCHANGED <<flows, cookie, invites, members, bootstrap, workspace, sessions>>

(* CompleteLogin, the lookup: an active member is let in, an inactive one  *)
(* denied, anybody else needs an invitation or to be the founder.          *)
Lookup(c) ==
  LET m == members[cb[c].account]
  IN  /\ cb[c].pc = "lookup"
      /\ cb' = IF Enrolled(cb[c].account)
               THEN IF m.active THEN [cb EXCEPT ![c].pc = "issue"]
                                ELSE [cb EXCEPT ![c] = Idle]
               ELSE [cb EXCEPT ![c].pc = "admit"]
      /\ UNCHANGED <<flows, cookie, invites, members, bootstrap, workspace, sessions>>

(* The update of the invitation finds a row.                               *)
Redeemable(i, c) ==
  /\ invites[i].state = "open"
  /\ invites[i].account = cb[c].account
  /\ cb[c].inTime

(* Mutant: the membership is upserted.                                     *)
RedeemUpserts(c) ==
  LET i == cookie[cb[c].flow]
      a == cb[c].account
  IN  /\ cb[c].pc = "admit" /\ i # None
      /\ Redeemable(i, c)
      /\ invites' = [invites EXCEPT ![i].state = "consumed"]
      /\ members' = [members EXCEPT ![a] =
           [role |-> invites[i].role, scopes |-> invites[i].scopes, active |-> TRUE]]
      /\ cb' = [cb EXCEPT ![c].pc = "issue"]
      /\ UNCHANGED <<flows, cookie, bootstrap, workspace, sessions>>

(* Mutant: the update of the invitation survives the failed insert.        *)
RedeemNoRollback(c) ==
  LET i == cookie[cb[c].flow]
      a == cb[c].account
  IN  /\ cb[c].pc = "admit" /\ i # None
      /\ Redeemable(i, c)
      /\ invites' = [invites EXCEPT ![i].state = "consumed"]
      /\ members' = IF Enrolled(a) THEN members ELSE [members EXCEPT ![a] =
           [role |-> invites[i].role, scopes |-> invites[i].scopes, active |-> TRUE]]
      /\ cb' = [cb EXCEPT ![c].pc = "issue"]
      /\ UNCHANGED <<flows, cookie, bootstrap, workspace, sessions>>

(* CompleteLogin, the writes with an invitation.  When the invitation is   *)
(* not redeemable, or another transaction enrolled the account meanwhile   *)
(* (the primary key rejects the insert), all is rolled back: GiveUp.       *)
Redeem(c) ==
  LET i == cookie[cb[c].flow]
      a == cb[c].account
  IN  /\ cb[c].pc = "admit" /\ i # None
      /\ Redeemable(i, c)
      /\ ~Enrolled(a)
      /\ invites' = [invites EXCEPT ![i].state = "consumed"]
      /\ members' = [members EXCEPT ![a] =
           [role |-> invites[i].role, scopes |-> invites[i].scopes, active |-> TRUE]]
      /\ cb' = [cb EXCEPT ![c].pc = "issue"]
      /\ UNCHANGED <<flows, cookie, bootstrap, workspace, sessions>>

(* CompleteLogin, the writes without one: only the founder, only once and  *)
(* only when the workspace does not exist yet.                             *)
Found(c) ==
  LET a == cb[c].account
  IN  /\ cb[c].pc = "admit" /\ cookie[cb[c].flow] = None
      /\ a = Founder
      /\ bootstrap = None
      /\ ~workspace
      /\ ~Enrolled(a)
      /\ bootstrap' = a
      /\ workspace' = TRUE
      /\ members' = [members EXCEPT ![a] =
           [role |-> "maintainer", scopes |-> BootstrapScopes, active |-> TRUE]]
      /\ cb' = [cb EXCEPT ![c].pc = "issue"]
      /\ UNCHANGED <<flows, cookie, invites, sessions>>

(* The session cookie is issued.                                           *)
Issue(c) ==
  /\ cb[c].pc = "issue"
  /\ sessions' = sessions \union {[flow |-> cb[c].flow, account |-> cb[c].account]}
  /\ cb' = [cb EXCEPT ![c] = Idle]
  /\ UNCHANGED <<flows, cookie, invites, members, bootstrap, workspace>>

-----------------------------------------------------------------------------
(* Invitations.                                                            *)

SignedIn(a) == \E s \in sessions : s.account = a

(* Mutant: the scopes are only checked against the configuration.          *)
CheckInvitationWider(i, actor, a, role, scopes) ==
  /\ invites[i].state = "unused"
  /\ SignedIn(actor)
  /\ scopes # {} /\ scopes \subseteq AllowedScopes
  /\ members[actor].active /\ members[actor].role = "maintainer"
  /\ ~Enrolled(a)
  /\ invites' = [invites EXCEPT ![i] =
       [state |-> "checked", account |-> a, role |-> role, scopes |-> scopes,
        by |-> actor, expired |-> FALSE]]
  /\ UNCHANGED <<flows, cookie, members, bootstrap, workspace, cb, sessions>>

(* createInvitation and the reads of CreateInvitation: the actor is an     *)
(* active maintainer, whose row stays share-locked, and invites to no more *)
(* than its own scopes somebody who is not enrolled.                       *)
CheckInvitation(i, actor, a, role, scopes) ==
  /\ invites[i].state = "unused"
  /\ SignedIn(actor)
  /\ scopes # {} /\ scopes \subseteq AllowedScopes
  /\ members[actor].active /\ members[actor].role = "maintainer"
  /\ scopes \subseteq members[actor].scopes
  /\ ~Enrolled(a)
  /\ invites' = [invites EXCEPT ![i] =
       [state |-> "checked", account |-> a, role |-> role, scopes |-> scopes,
        by |-> actor, expired |-> FALSE]]
  /\ UNCHANGED <<flows, cookie, members, bootstrap, workspace, cb, sessions>>

(* The insert and the commit, or the rollback.                             *)
EndInvitation(i) ==
  /\ invites[i].state = "checked"
  /\ \/ invites' = [invites EXCEPT ![i].state = "open"]
     \/ invites' = [invites EXCEPT ![i] = NoInvitation]
  /\ UNCHANGED <<flows, cookie, members, bootstrap, workspace, cb, sessions>>

InvitationExpires(i) ==
  /\ invites[i].state = "open" /\ ~invites[i].expired
  /\ invites' = [invites EXCEPT ![i].expired = TRUE]
  /\ UNCHANGED <<flows, cookie, members, bootstrap, workspace, cb, sessions>>

-----------------------------------------------------------------------------
(* External: an operator offboards a member or takes scopes from it, with  *)
(* an UPDATE that waits for share locks on the row.                        *)

Locked(a) == \E i \in Invitation : invites[i].state = "checked" /\ invites[i].by = a

Offboard(a) ==
  /\ Enrolled(a) /\ members[a].active /\ ~Locked(a)
  /\ members' = [members EXCEPT ![a].active = FALSE]
  /\ UNCHANGED <<flows, cookie, invites, bootstrap, workspace, cb, sessions>>

Narrow(a, s) ==
  /\ Enrolled(a) /\ s \in members[a].scopes /\ ~Locked(a)
  /\ members' = [members EXCEPT ![a].scopes = @ \ {s}]
  /\ UNCHANGED <<flows, cookie, invites, bootstrap, workspace, cb, sessions>>

-----------------------------------------------------------------------------
CompleteLogin(c) == Lookup(c) \/ Redeem(c) \/ Found(c)

Next ==
  \/ \E f \in Flow, i \in Invitation \union {None} : Start(f, i)
  \/ \E f \in Flow : FlowExpires(f)
  \/ \E c \in Callback, f \in Flow : ConsumeFlow(c, f)
  \/ \E c \in Callback, a \in Account : Identify(c, a)
  \/ \E c \in Callback : GiveUp(c) \/ CompleteLogin(c) \/ Issue(c)
  \/ \E i \in Invitation, actor, a \in Account, role \in {"reader", "maintainer"},
        scopes \in SUBSET Scope : CheckInvitation(i, actor, a, role, scopes)
  \/ \E i \in Invitation : EndInvitation(i) \/ InvitationExpires(i)
  \/ \E a \in Account : Offboard(a) \/ \E s \in Scope : Narrow(a, s)

Spec == Init /\ [][Next]_vars

-----------------------------------------------------------------------------
(* Properties.                                                             *)

InvitationRow ==
  [state : {"unused", "checked", "open", "consumed"},
   account : Account \union {None},
   role : {"none", "reader", "maintainer"},
   scopes : SUBSET Scope,
   by : Account \union {None},
   expired : BOOLEAN]

(* Type invariant: tables, cookies and callbacks have their shape.         *)
TypeOK ==
  /\ flows \in [Flow -> {"unused", "open", "consumed", "expired"}]
  /\ cookie \in [Flow -> Invitation \union {None}]
  /\ invites \in [Invitation -> InvitationRow]
  /\ members \in [Account ->
       [role : {"none", "reader", "maintainer"}, scopes : SUBSET Scope, active : BOOLEAN]]
  /\ bootstrap \in Account \union {None}
  /\ workspace \in BOOLEAN
  /\ cb \in [Callback ->
       [pc : {"idle", "identify", "lookup", "admit", "issue"},
        flow : Flow \union {None}, account : Account \union {None}, inTime : BOOLEAN]]
  /\ sessions \subseteq [flow : Flow, account : Account]

(* A sign-in flow is good for one session, of one account: however often   *)
(* and on however many replicas its callback arrives, at most one request  *)
(* works with it, and none after it has issued a session.                  *)
OneSessionPerFlow ==
  \A f \in Flow :
    LET working == {c \in Callback : cb[c].flow = f}
        issued == {s \in sessions : s.flow = f}
    IN  \/ issued = {} /\ \A c, d \in working : c = d
        \/ working = {} /\ \A s, t \in issued : s = t

(* The invitations an account has redeemed.                                *)
Redeemed(a) == {i \in Invitation : invites[i].state = "consumed" /\ invites[i].account = a}

Founded(a) ==
  /\ bootstrap = a /\ Redeemed(a) = {}
  /\ members[a].role = "maintainer"
  /\ members[a].scopes \subseteq BootstrapScopes

Invited(a) ==
  /\ bootstrap # a
  /\ \E i \in Redeemed(a) :
       /\ Redeemed(a) = {i}
       /\ members[a].role = invites[i].role
       /\ members[a].scopes \subseteq invites[i].scopes

(* Every membership rests on exactly one act of admission, the founder's   *)
(* bootstrap or one consumed invitation to that account, with its role and *)
(* no more than its scopes; and every consumed invitation and the          *)
(* bootstrap produced a membership: redemption is all or nothing.          *)
AdmissionsAreBacked ==
  /\ \A a \in Account : IF Enrolled(a) THEN Founded(a) \/ Invited(a)
                         ELSE Redeemed(a) = {} /\ bootstrap # a
  /\ bootstrap # None => workspace

(* Invitations delegate: through any chain of maintainers inviting         *)
(* maintainers, nobody holds or is offered a scope that the founder was    *)
(* not given, and every inviter is itself enrolled.                        *)
NoEscalation ==
  /\ \A a \in Account : members[a].scopes \subseteq BootstrapScopes
  /\ \A i \in Invitation : invites[i].state # "unused" =>
       /\ invites[i].scopes \subseteq BootstrapScopes
       /\ Enrolled(invites[i].by)

(* A session is only ever issued to an enrolled account, and a callback    *)
(* about to issue one has found or created the membership.                 *)
SessionsAreMembers ==
  /\ \A s \in sessions : Enrolled(s.account)
  /\ \A c \in Callback : cb[c].pc = "issue" => Enrolled(cb[c].account)

(* A session is earned by one enrolled account through one use of one      *)
(* flow, whichever callbacks repeat it (ConsumeFlow, CompleteLogin).       *)
SessionsAreEarned == OneSessionPerFlow /\ SessionsAreMembers

MembersOnlyNarrow ==
  \A a \in Account : Enrolled(a) =>
    /\ members'[a].role = members[a].role
    /\ members'[a].scopes \subseteq members[a].scopes
    /\ members'[a].active => members[a].active

InactiveAreDenied ==
  \A c \in Callback :
    /\ cb[c].pc = "lookup" /\ Enrolled(cb[c].account)
    /\ ~members[cb[c].account].active
    => cb'[c].pc \in {"idle", "lookup"}

(* Offboarding is final for enrollment: no later sign-in or invitation     *)
(* makes an inactive member active or widens anybody's scopes, and a       *)
(* sign-in that looks an inactive member up ends without a session.        *)
OffboardedStayOut == [][MembersOnlyNarrow /\ InactiveAreDenied]_vars

=============================================================================
