---------------------------- MODULE OAuthGrants ----------------------------
(***************************************************************************)
(* The grants of the reference authorization server                        *)
(* (hosted/internal/oauth over hosted/internal/storage/oauth.go) for one    *)
(* person in one workspace: authorization codes, the refresh-token family  *)
(* each code opens, the rotation of refresh tokens, and the minting of an   *)
(* access token that follows each redemption and each rotation.            *)
(*                                                                         *)
(* Every store method is one database transaction that locks the rows it   *)
(* reads, so it is one atomic action.  A token request is several of them: *)
(* the redemption or rotation, then the three transactions of MintAccess,  *)
(* then the reply, or RevokeFamily when the minting failed.  Between any    *)
(* two of them other requests run, the person's policy changes, the server *)
(* stops or the client goes away.                                          *)
(*                                                                         *)
(* A request that presents an unknown credential, a token of a revoked     *)
(* family, or a refresh token that fails a check changes nothing, and so   *)
(* is a stuttering step.                                                   *)
(***************************************************************************)
EXTENDS Naturals, Sequences, FiniteSets

CONSTANTS
    Codes,      \* the authorization codes that newOpaque can draw
    Tokens,     \* the refresh tokens that newOpaque can draw
    Clients,    \* the registered public clients
    Scopes,     \* the scopes a client may ask for
    Requests,   \* the token requests that may be in flight at once
    MaxPolicy,  \* bound on the number of policies the person lives through
    MaxConsents, \* bound on the consents that may be in flight at once
    None        \* the absent row, the idle request

VARIABLES
    policies,   \* the person's membership, oldest version first; the last is current
    identity,   \* the row of workload_identities: "absent", "live" or "revoked"
    consents,   \* consents that passed the membership check and are not saved yet
    codes,      \* oauth_authorization_codes
    families,   \* oauth_refresh_families, each named by its first token
    tokens,     \* oauth_refresh_tokens
    requests,   \* the token requests past their redemption or rotation
    access,     \* the access token recorded together with a refresh token
    known,      \* the codes and refresh tokens that left the server
    replayed,   \* history: the credentials presented after their consumption
    failed      \* history: the families one of whose mintings failed

vars == <<policies, identity, consents, codes, families, tokens, requests, access,
          known, replayed, failed>>

Policy == [allowed : BOOLEAN, scopes : SUBSET Scopes]
Consent == [client : Clients, scopes : SUBSET Scopes \ {{}}]
CodeRow == [client : Clients, scopes : SUBSET Scopes, consumed : BOOLEAN, expired : BOOLEAN]
FamilyRow == [code : Codes, client : Clients, scopes : SUBSET Scopes, revoked : BOOLEAN]
TokenRow == [family : Tokens, consumed : BOOLEAN, expired : BOOLEAN]
Minting == {"mint", "verify", "record"}
Request == [step : Minting \cup {"revoke", "reply"}, token : Tokens,
            scopes : SUBSET Scopes, gen : Nat]
Access == [scopes : SUBSET Scopes, gen : Nat]

\* Codes and refresh tokens carry different prefixes; no row is the absent row.
ASSUME OAuthAssumption ==
    /\ MaxPolicy \in Nat \ {0}
    /\ MaxConsents \in Nat \ {0}
    /\ Codes \cap Tokens = {}
    /\ None \notin CodeRow \cup FamilyRow \cup TokenRow \cup Request \cup Access

Generation == Len(policies)
Current == policies[Generation]

\* postgresPolicy.CheckWorkload: an active membership of the workspace's own
\* policy generation, whose scopes cover the request.
Allows(scopes) == Current.allowed /\ scopes \subseteq Current.scopes

Fresh(t) == tokens[t] = None
FamilyOf(t) == families[tokens[t].family]
Revoke(fs) == [f \in Tokens |-> IF f \in fs THEN [families[f] EXCEPT !.revoked = TRUE]
                                            ELSE families[f]]
FamiliesFrom(c) == {f \in Tokens : families[f] # None /\ families[f].code = c}

Init ==
    /\ \E p \in Policy : p.allowed /\ policies = <<p>>
    /\ identity = "absent"
    /\ consents = {}
    /\ codes = [c \in Codes |-> None]
    /\ families = [t \in Tokens |-> None]
    /\ tokens = [t \in Tokens |-> None]
    /\ requests = [r \in Requests |-> None]
    /\ access = [t \in Tokens |-> None]
    /\ known = {}
    /\ replayed = {}
    /\ failed = {}

-----------------------------------------------------------------------------
(* The consent page.                                                       *)

\* handleConsent up to checkMembership: the person allows the client the scopes
\* of the sealed request.
CheckConsent(client, scopes) ==
    /\ Cardinality(consents) < MaxConsents
    /\ Allows(scopes)
    /\ consents' = consents \cup {[client |-> client, scopes |-> scopes]}
    /\ UNCHANGED <<policies, identity, codes, families, tokens, requests, access,
                   known, replayed, failed>>

\* handleConsent from newOpaque on: the code is saved, whatever became of the
\* membership since, and the redirect carries it to the client or is lost.
SaveCode(consent, c, delivered) ==
    /\ codes[c] = None
    /\ consents' = consents \ {consent}
    /\ codes' = [codes EXCEPT ![c] = [client |-> consent.client, scopes |-> consent.scopes,
                                      consumed |-> FALSE, expired |-> FALSE]]
    /\ known' = IF delivered THEN known \cup {c} ELSE known
    /\ UNCHANGED <<policies, identity, families, tokens, requests, access, replayed, failed>>

\* SaveCode returns an error, or the server stops before it.
ConsentLost(consent) ==
    /\ consents' = consents \ {consent}
    /\ UNCHANGED <<policies, identity, codes, families, tokens, requests, access,
                   known, replayed, failed>>

-----------------------------------------------------------------------------
(* The token endpoint, grant_type=authorization_code.                      *)

\* The check closure of redeemCode.  "matches" stands for the redirect URI, the
\* PKCE verifier and the resource, which a request gets right or wrong.
CodeChecks(c, client, matches) ==
    ~codes[c].expired /\ codes[c].client = client /\ matches

\* RedeemCode on an unconsumed code that fails a check: the consumption is
\* committed, the redemption fails.
RedeemRefused(c, client, matches) ==
    /\ ~codes[c].consumed
    /\ ~CodeChecks(c, client, matches)
    /\ codes' = [codes EXCEPT ![c].consumed = TRUE]
    /\ UNCHANGED <<policies, identity, consents, families, tokens, requests, access,
                   known, replayed, failed>>

\* RedeemCode on a consumed code: every family made from it is revoked.
RedeemReplayed(c) ==
    /\ codes[c].consumed
    /\ families' = Revoke(FamiliesFrom(c))
    /\ replayed' = replayed \cup {c}
    /\ UNCHANGED <<policies, identity, consents, codes, tokens, requests, access,
                   known, failed>>

\* Mutant: the code is left unconsumed, so that a client may retry.
RedeemGrantedTwice(r, c, client, t) ==
    /\ ~codes[c].consumed
    /\ CodeChecks(c, client, TRUE)
    /\ families' = [families EXCEPT ![t] = [code |-> c, client |-> client,
                                            scopes |-> codes[c].scopes, revoked |-> FALSE]]
    /\ tokens' = [tokens EXCEPT ![t] = [family |-> t, consumed |-> FALSE, expired |-> FALSE]]
    /\ requests' = [requests EXCEPT ![r] = [step |-> "mint", token |-> t,
                                            scopes |-> codes[c].scopes, gen |-> 0]]
    /\ UNCHANGED <<policies, identity, consents, codes, access, known, replayed, failed>>

\* RedeemCode on a good code: one transaction consumes it, creates its family
\* and the family's first token.
RedeemGranted(r, c, client, t) ==
    /\ ~codes[c].consumed
    /\ CodeChecks(c, client, TRUE)
    /\ codes' = [codes EXCEPT ![c].consumed = TRUE]
    /\ families' = [families EXCEPT ![t] = [code |-> c, client |-> client,
                                            scopes |-> codes[c].scopes, revoked |-> FALSE]]
    /\ tokens' = [tokens EXCEPT ![t] = [family |-> t, consumed |-> FALSE, expired |-> FALSE]]
    /\ requests' = [requests EXCEPT ![r] = [step |-> "mint", token |-> t,
                                            scopes |-> codes[c].scopes, gen |-> 0]]
    /\ UNCHANGED <<policies, identity, consents, access, known, replayed, failed>>

\* redeemCode: any registered client presents a code it holds.
RedeemCode ==
    \E c \in Codes \cap known, client \in Clients :
        \/ \E matches \in BOOLEAN : RedeemRefused(c, client, matches)
        \/ RedeemReplayed(c)
        \/ \E r \in Requests, t \in Tokens :
              requests[r] = None /\ Fresh(t) /\ RedeemGranted(r, c, client, t)

-----------------------------------------------------------------------------
(* The token endpoint, grant_type=refresh_token.                           *)

\* Mutant: the token's own name is taken for the name of its family.
RotateReusedOwn(old) ==
    /\ ~FamilyOf(old).revoked
    /\ tokens[old].consumed
    /\ families' = Revoke({old} \cap {f \in Tokens : families[f] # None})
    /\ replayed' = replayed \cup {old}
    /\ UNCHANGED <<policies, identity, consents, codes, tokens, requests, access,
                   known, failed>>

\* RotateRefresh on a consumed token of a live family: the family is revoked,
\* whichever client presents the token.
RotateReused(old) ==
    /\ ~FamilyOf(old).revoked
    /\ tokens[old].consumed
    /\ families' = Revoke({tokens[old].family})
    /\ replayed' = replayed \cup {old}
    /\ UNCHANGED <<policies, identity, consents, codes, tokens, requests, access,
                   known, failed>>

\* The check closure of refresh; "requested" are the scopes of the form, or the
\* family's own when the form has none.
RefreshChecks(old, client, requested) ==
    /\ FamilyOf(old).client = client
    /\ ~tokens[old].expired
    /\ requested \subseteq FamilyOf(old).scopes
    /\ requested # {}

\* The writes of RotateRefresh, and the request they leave to be minted.
Rotated(r, old, requested, t) ==
    /\ tokens' = [tokens EXCEPT ![old].consumed = TRUE,
                                ![t] = [family |-> tokens[old].family,
                                        consumed |-> FALSE, expired |-> FALSE]]
    /\ requests' = [requests EXCEPT ![r] = [step |-> "mint", token |-> t,
                                            scopes |-> requested, gen |-> 0]]
    /\ UNCHANGED <<policies, identity, consents, codes, families, access, known,
                   replayed, failed>>

\* Mutant: the family's revocation is not looked at.
RotateGrantedRevoked(r, old, client, requested, t) ==
    /\ ~tokens[old].consumed
    /\ RefreshChecks(old, client, requested)
    /\ Rotated(r, old, requested, t)

\* Mutant: the requested scopes are not held to the family's.
RotateGrantedWider(r, old, client, requested, t) ==
    /\ ~FamilyOf(old).revoked /\ ~tokens[old].consumed
    /\ FamilyOf(old).client = client /\ ~tokens[old].expired
    /\ Rotated(r, old, requested, t)

\* RotateRefresh on a good token: consumed, and its successor created.
RotateGranted(r, old, client, requested, t) ==
    /\ ~FamilyOf(old).revoked /\ ~tokens[old].consumed
    /\ RefreshChecks(old, client, requested)
    /\ Rotated(r, old, requested, t)

\* refresh: any registered client presents a refresh token it holds.
RotateRefresh ==
    \E old \in Tokens \cap known, client \in Clients :
        \/ RotateReused(old)
        \/ \E r \in Requests, requested \in SUBSET Scopes, t \in Tokens :
              requests[r] = None /\ Fresh(t) /\ RotateGranted(r, old, client, requested, t)

-----------------------------------------------------------------------------
(* Minting, and the reply.                                                 *)

InStep(r, steps) == requests[r] # None /\ requests[r].step \in steps

\* WorkloadIssuer.Mint: the membership allows the scopes; the token carries the
\* policy generation that was read.
Mint(r) ==
    /\ InStep(r, {"mint"})
    /\ Allows(requests[r].scopes)
    /\ requests' = [requests EXCEPT ![r].step = "verify", ![r].gen = Generation]
    /\ UNCHANGED <<policies, identity, consents, codes, families, tokens, access,
                   known, replayed, failed>>

\* WorkloadIssuer.Verify, run by MintAccess on the token it just signed.
Verify(r) ==
    /\ InStep(r, {"verify"})
    /\ Allows(requests[r].scopes)
    /\ Generation = requests[r].gen
    /\ requests' = [requests EXCEPT ![r].step = "record"]
    /\ UNCHANGED <<policies, identity, consents, codes, families, tokens, access,
                   known, replayed, failed>>

\* RecordIssued: the identity row is inserted or refreshed unless it is revoked.
RecordIssued(r) ==
    /\ InStep(r, {"record"})
    /\ identity # "revoked"
    /\ identity' = "live"
    /\ access' = [access EXCEPT ![requests[r].token] =
                     [scopes |-> requests[r].scopes, gen |-> requests[r].gen]]
    /\ requests' = [requests EXCEPT ![r].step = "reply"]
    /\ UNCHANGED <<policies, consents, codes, families, tokens, known, replayed, failed>>

\* MintAccess returns an error: the policy or the identity refuses, or a
\* transaction fails.
MintFails(r) ==
    /\ InStep(r, Minting)
    /\ requests' = [requests EXCEPT ![r].step = "revoke"]
    /\ failed' = failed \cup {tokens[requests[r].token].family}
    /\ UNCHANGED <<policies, identity, consents, codes, families, tokens, access,
                   known, replayed>>

\* RevokeFamily after a failed minting; the client gets an error and no token.
RevokeFamily(r) ==
    /\ InStep(r, {"revoke"})
    /\ families' = Revoke({tokens[requests[r].token].family})
    /\ requests' = [requests EXCEPT ![r] = None]
    /\ UNCHANGED <<policies, identity, consents, codes, tokens, access, known,
                   replayed, failed>>

\* The client receives the access token and the new refresh token.
Reply(r) ==
    /\ InStep(r, {"reply"})
    /\ known' = known \cup {requests[r].token}
    /\ requests' = [requests EXCEPT ![r] = None]
    /\ UNCHANGED <<policies, identity, consents, codes, families, tokens, access,
                   replayed, failed>>

\* The request ends where it stands: the server stops, the reply is lost, or
\* RevokeFamily fails and its error is dropped.
RequestLost(r) ==
    /\ requests[r] # None
    /\ requests' = [requests EXCEPT ![r] = None]
    /\ UNCHANGED <<policies, identity, consents, codes, families, tokens, access, known,
                   replayed, failed>>

-----------------------------------------------------------------------------
(* Revocation, and the environment.                                        *)

\* handleRevoke: a client revokes the family of a refresh token of its own.
RevokeRefresh(t, client) ==
    /\ FamilyOf(t).client = client
    /\ families' = Revoke({tokens[t].family})
    /\ UNCHANGED <<policies, identity, consents, codes, tokens, requests, access, known,
                   replayed, failed>>

\* Postgres.Revoke: an operator revokes the recorded identity.
RevokeIdentity ==
    /\ identity # "absent"
    /\ identity' = "revoked"
    /\ UNCHANGED <<policies, consents, codes, families, tokens, requests, access, known,
                   replayed, failed>>

ExpireCode(c) ==
    /\ codes[c] # None
    /\ codes' = [codes EXCEPT ![c].expired = TRUE]
    /\ UNCHANGED <<policies, identity, consents, families, tokens, requests, access, known,
                   replayed, failed>>

ExpireToken(t) ==
    /\ tokens[t] # None
    /\ tokens' = [tokens EXCEPT ![t].expired = TRUE]
    /\ UNCHANGED <<policies, identity, consents, codes, families, requests, access, known,
                   replayed, failed>>

\* The operator's policy tooling, outside this repository: a new generation.
ChangePolicy(policy) ==
    /\ Generation < MaxPolicy
    /\ policies' = Append(policies, policy)
    /\ UNCHANGED <<identity, consents, codes, families, tokens, requests, access, known,
                   replayed, failed>>

Next ==
    \/ \E client \in Clients, scopes \in SUBSET Scopes \ {{}} : CheckConsent(client, scopes)
    \/ \E consent \in consents :
          \/ ConsentLost(consent)
          \/ \E c \in Codes, delivered \in BOOLEAN : SaveCode(consent, c, delivered)
    \/ RedeemCode
    \/ RotateRefresh
    \/ \E r \in Requests :
          Mint(r) \/ Verify(r) \/ RecordIssued(r) \/ MintFails(r)
             \/ RevokeFamily(r) \/ Reply(r) \/ RequestLost(r)
    \/ \E t \in Tokens \cap known, client \in Clients : RevokeRefresh(t, client)
    \/ RevokeIdentity
    \/ \E c \in Codes : ExpireCode(c)
    \/ \E t \in Tokens : ExpireToken(t)
    \/ \E policy \in Policy : ChangePolicy(policy)

Spec == Init /\ [][Next]_vars

-----------------------------------------------------------------------------
(* Properties.                                                             *)

\* Every row names rows that exist, and a token never carries a policy
\* generation that the person has not reached.
TypeOK ==
    /\ policies \in Seq(Policy) /\ Generation >= 1
    /\ identity \in {"absent", "live", "revoked"}
    /\ consents \subseteq Consent
    /\ codes \in [Codes -> CodeRow \cup {None}]
    /\ families \in [Tokens -> FamilyRow \cup {None}]
    /\ tokens \in [Tokens -> TokenRow \cup {None}]
    /\ requests \in [Requests -> Request \cup {None}]
    /\ access \in [Tokens -> Access \cup {None}]
    /\ known \subseteq Codes \cup Tokens
    /\ replayed \subseteq Codes \cup Tokens
    /\ failed \subseteq Tokens
    /\ \A t \in Tokens : tokens[t] # None => FamilyOf(t) # None
    /\ \A f \in Tokens : families[f] # None => codes[families[f].code] # None
    /\ \A r \in Requests : requests[r] # None => tokens[requests[r].token] # None
    /\ \A r \in Requests : requests[r] # None => requests[r].gen <= Generation
    /\ \A c \in known \cap Codes : codes[c] # None
    /\ \A t \in known \cap Tokens : tokens[t] # None

\* One consent never has two usable refresh tokens: of all the tokens that
\* descend from a code, through its family and every rotation, at most one is
\* unconsumed, whatever redemptions and rotations raced.
OneLiveToken ==
    \A t, u \in Tokens :
        /\ tokens[t] # None /\ ~tokens[t].consumed
        /\ tokens[u] # None /\ ~tokens[u].consumed
        /\ FamilyOf(t).code = FamilyOf(u).code
        => t = u

\* A code or a refresh token that was presented again after its consumption
\* leaves nothing behind: every family that descends from the code, or holds
\* the token, is revoked, and stays so.
ReplaysEndGrants ==
    /\ \A c \in replayed \cap Codes : \A f \in FamiliesFrom(c) : families[f].revoked
    /\ \A t \in replayed \cap Tokens : FamilyOf(t).revoked

\* An access token never exceeds what the person allowed the client on the
\* consent page, nor what the policy it was minted under allowed the person,
\* however often the grant was refreshed and the policy changed since.
AccessWithinConsent ==
    \A t \in Tokens : access[t] # None =>
        /\ access[t].scopes \subseteq codes[FamilyOf(t).code].scopes
        /\ FamilyOf(t).client = codes[FamilyOf(t).code].client
        /\ access[t].gen \in 1..Generation
        /\ policies[access[t].gen].allowed
        /\ access[t].scopes \subseteq policies[access[t].gen].scopes

\* A family once revoked stays revoked and gets no further token; a revoked
\* identity stays revoked and gets no further access token, not even from a
\* request that had verified its token before the revocation.
DeadGrantsStayDead ==
    [][/\ \A f \in Tokens : families[f] # None /\ families[f].revoked =>
            /\ families'[f] # None /\ families'[f].revoked
            /\ \A t \in Tokens : tokens[t] = None /\ tokens'[t] # None => tokens'[t].family # f
       /\ identity = "revoked" => identity' = "revoked" /\ access' = access]_vars

\* Once a minting failed in a family, no later refresh revives it: no access
\* token is ever issued in it again, even when the RevokeFamily that should
\* have ended it was lost.
NoRevival ==
    [][\A t \in Tokens : access'[t] # access[t] => tokens[t].family \notin failed]_vars

\* Ending a grant is final, whether it ended by a revocation or because a mint
\* failed after the rotation: no later request, retry or reply yields a token
\* in it (RotateRefresh, RevokeFamily, RecordIssued).
EndedGrantsStayEnded == DeadGrantsStayDead /\ NoRevival

=============================================================================
