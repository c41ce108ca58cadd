-------------------------- MODULE OAuthGrantsProofs --------------------------
(***************************************************************************)
(* Proofs about OAuthGrants for every number of codes, refresh tokens,      *)
(* clients, scopes and requests in flight, and for every bound on the       *)
(* policies.                                                               *)
(***************************************************************************)
EXTENDS OAuthGrants, TLAPS

\* A family is named by its first token, and repeats what its code, which is
\* consumed, was granted for; no two families come from one code.
FamiliesMatchCodes ==
    /\ \A f \in Tokens : families[f] # None =>
          /\ tokens[f] # None /\ tokens[f].family = f
          /\ codes[families[f].code].consumed
          /\ families[f].scopes = codes[families[f].code].scopes
          /\ families[f].client = codes[families[f].code].client
    /\ \A f, g \in Tokens :
          families[f] # None /\ families[g] # None /\ families[f].code = families[g].code => f = g

\* Of the tokens of one family at most one is unconsumed.
OneLivePerFamily ==
    \A t, u \in Tokens :
        /\ tokens[t] # None /\ ~tokens[t].consumed
        /\ tokens[u] # None /\ ~tokens[u].consumed
        /\ tokens[t].family = tokens[u].family
        => t = u

\* A token leaves the server only with its access token, and is consumed only
\* after it left.
TokensLeaveMinted ==
    /\ \A t \in known \cap Tokens : access[t] # None
    /\ \A t \in Tokens : tokens[t] # None /\ tokens[t].consumed => t \in known
    /\ \A t \in Tokens : access[t] # None => tokens[t] # None

\* A request in flight is the only one that works on its token, which nobody
\* outside holds, and asks for no more than its family was granted.
RequestsOwnTokens ==
    /\ \A r \in Requests : requests[r] # None =>
          /\ requests[r].token \notin known
          /\ requests[r].scopes \subseteq FamilyOf(requests[r].token).scopes
          /\ requests[r].step \in Minting => access[requests[r].token] = None
          /\ requests[r].step = "reply" => access[requests[r].token] # None
          /\ requests[r].step \in {"verify", "record"} =>
                /\ requests[r].gen \in 1..Generation
                /\ policies[requests[r].gen].allowed
                /\ requests[r].scopes \subseteq policies[requests[r].gen].scopes
    /\ \A r, q \in Requests :
          /\ requests[r] # None /\ requests[q] # None
          /\ requests[r].token = requests[q].token
          => r = q

\* The unconsumed token of a family whose minting failed never left the
\* server, and the only request left in that family is about to revoke it.
FailedFamiliesAreStuck ==
    /\ \A f \in failed : families[f] # None
    /\ \A t \in Tokens :
          /\ tokens[t] # None /\ ~tokens[t].consumed /\ tokens[t].family \in failed
          => t \notin known
    /\ \A r \in Requests :
          requests[r] # None /\ requests[r].step # "revoke" =>
             tokens[requests[r].token].family \notin failed

ReplaysAreOfConsumed ==
    /\ \A c \in replayed \cap Codes : codes[c] # None /\ codes[c].consumed
    /\ \A t \in replayed \cap Tokens : tokens[t] # None

IInv ==
    /\ TypeOK
    /\ FamiliesMatchCodes
    /\ OneLivePerFamily
    /\ TokensLeaveMinted
    /\ RequestsOwnTokens
    /\ FailedFamiliesAreStuck
    /\ ReplaysAreOfConsumed
    /\ ReplaysEndGrants
    /\ AccessWithinConsent


\* What revoking families changes: their revoked field, and nothing else.
LEMMA RevokeEffect ==
    ASSUME TypeOK, NEW fs \in SUBSET Tokens, \A f \in fs : families[f] # None,
           families' = Revoke(fs)
    PROVE  /\ families' \in [Tokens -> FamilyRow \cup {None}]
           /\ \A f \in Tokens : families'[f] # None <=> families[f] # None
           /\ \A f \in Tokens : families[f] # None =>
                 /\ families'[f].code = families[f].code
                 /\ families'[f].client = families[f].client
                 /\ families'[f].scopes = families[f].scopes
                 /\ (families[f].revoked \/ f \in fs => families'[f].revoked)
<1>0. \A f \in Tokens : families[f] # None => families[f] \in FamilyRow
    BY DEF TypeOK
<1>1. \A f \in Tokens : families[f] # None =>
          /\ families[f] \in FamilyRow
          /\ [families[f] EXCEPT !.revoked = TRUE] \in FamilyRow
    BY <1>0 DEF FamilyRow
<1>2. \A f \in Tokens : families'[f] = IF f \in fs THEN [families[f] EXCEPT !.revoked = TRUE]
                                                   ELSE families[f]
    BY DEF Revoke
<1>3. None \notin FamilyRow
    BY OAuthAssumption
<1>4. families' \in [Tokens -> FamilyRow \cup {None}]
    BY <1>1 DEF Revoke, TypeOK
<1>5. \A f \in Tokens : families'[f] # None <=> families[f] # None
    BY <1>1, <1>2, <1>3
<1>6. \A f \in Tokens : families[f] # None =>
          /\ families'[f].code = families[f].code
          /\ families'[f].client = families[f].client
          /\ families'[f].scopes = families[f].scopes
          /\ (families[f].revoked \/ f \in fs => families'[f].revoked)
    BY <1>1, <1>2 DEF FamilyRow
<1>q. QED
    BY <1>4, <1>5, <1>6

\* What updating the row of a request does to the table.
LEMMA RequestUpdate ==
    ASSUME TypeOK, NEW r \in Requests, NEW q \in Request \cup {None},
           requests' = [requests EXCEPT ![r] = q]
    PROVE  /\ requests' \in [Requests -> Request \cup {None}]
           /\ requests'[r] = q
           /\ \A p \in Requests \ {r} : requests'[p] = requests[p]
    BY DEF TypeOK

\* The same for the tokens.
LEMMA TokenUpdate ==
    ASSUME TypeOK, NEW t \in Tokens, NEW row \in TokenRow, tokens' = [tokens EXCEPT ![t] = row]
    PROVE  /\ tokens' \in [Tokens -> TokenRow \cup {None}]
           /\ tokens'[t] = row /\ tokens'[t] # None
           /\ \A u \in Tokens \ {t} : tokens'[u] = tokens[u]
    BY OAuthAssumption DEF TypeOK

\* The same for the codes.
LEMMA CodeUpdate ==
    ASSUME TypeOK, NEW c \in Codes, NEW row \in CodeRow, codes' = [codes EXCEPT ![c] = row]
    PROVE  /\ codes' \in [Codes -> CodeRow \cup {None}]
           /\ codes'[c] = row /\ codes'[c] # None
           /\ \A d \in Codes \ {c} : codes'[d] = codes[d]
    BY OAuthAssumption DEF TypeOK


\* The rows that a row names are there.
LEMMA TypeFacts ==
    ASSUME TypeOK
    PROVE  /\ \A t \in Tokens : tokens[t] # None =>
                 tokens[t] \in TokenRow /\ tokens[t].family \in Tokens /\ FamilyOf(t) # None
           /\ \A f \in Tokens : families[f] # None =>
                 /\ families[f] \in FamilyRow
                 /\ families[f].code \in Codes /\ codes[families[f].code] # None
           /\ \A r \in Requests : requests[r] # None =>
                 /\ requests[r] \in Request
                 /\ requests[r].token \in Tokens /\ tokens[requests[r].token] # None
<1>1. \A t \in Tokens : tokens[t] # None =>
          tokens[t] \in TokenRow /\ tokens[t].family \in Tokens /\ FamilyOf(t) # None
    BY DEF TypeOK, TokenRow
<1>2. \A f \in Tokens : families[f] # None =>
          /\ families[f] \in FamilyRow
          /\ families[f].code \in Codes /\ codes[families[f].code] # None
    BY DEF TypeOK, FamilyRow
<1>3. \A r \in Requests : requests[r] # None =>
          /\ requests[r] \in Request
          /\ requests[r].token \in Tokens /\ tokens[requests[r].token] # None
    BY DEF TypeOK, Request
<1>q. QED
    BY <1>1, <1>2, <1>3

\* Revoking families keeps everything that does not speak of replays, also when
\* the request that revokes ends.
LEMMA RevokesKeep ==
    ASSUME IInv, NEW fs \in SUBSET Tokens, \A f \in fs : families[f] # None,
           families' = Revoke(fs),
           UNCHANGED <<policies, identity, consents, codes, tokens, access, known, failed>>,
           replayed' \subseteq Codes \cup Tokens,
           requests' \in [Requests -> Request \cup {None}],
           \A r \in Requests : requests'[r] # None => requests'[r] = requests[r]
    PROVE  /\ TypeOK' /\ FamiliesMatchCodes' /\ OneLivePerFamily' /\ TokensLeaveMinted'
           /\ RequestsOwnTokens' /\ FailedFamiliesAreStuck' /\ AccessWithinConsent'
<1>1. /\ families' \in [Tokens -> FamilyRow \cup {None}]
      /\ \A f \in Tokens : families'[f] # None <=> families[f] # None
    BY RevokeEffect DEF IInv
<1>2. \A f \in Tokens : families[f] # None =>
          /\ families'[f].code = families[f].code
          /\ families'[f].client = families[f].client
          /\ families'[f].scopes = families[f].scopes
    BY RevokeEffect DEF IInv
<1>3. /\ \A t \in Tokens : tokens[t] # None => tokens[t].family \in Tokens /\ FamilyOf(t) # None
      /\ \A r \in Requests : requests[r] # None =>
            requests[r].token \in Tokens /\ tokens[requests[r].token] # None
    BY TypeFacts DEF IInv
<1>4. \A t \in Tokens : tokens[t] # None =>
          /\ FamilyOf(t)' # None
          /\ FamilyOf(t)'.code = FamilyOf(t).code
          /\ FamilyOf(t)'.client = FamilyOf(t).client
          /\ FamilyOf(t)'.scopes = FamilyOf(t).scopes
    BY <1>1, <1>2, <1>3 DEF FamilyOf
<1>5. TypeOK'
  <2>1. \A t \in Tokens : tokens'[t] # None => FamilyOf(t)' # None
    BY <1>4
  <2>2. \A f \in Tokens : families'[f] # None => codes'[families'[f].code] # None
    BY <1>1, <1>2 DEF IInv, TypeOK
  <2>3. \A r \in Requests : requests'[r] # None =>
            tokens'[requests'[r].token] # None /\ requests'[r].gen <= Generation'
    BY DEF IInv, TypeOK, Generation
  <2>q. QED
    BY <1>1, <2>1, <2>2, <2>3 DEF IInv, TypeOK, Generation
<1>6. FamiliesMatchCodes'
    BY <1>1, <1>2 DEF IInv, FamiliesMatchCodes
<1>7. OneLivePerFamily' /\ TokensLeaveMinted'
    BY DEF IInv, OneLivePerFamily, TokensLeaveMinted
<1>8. RequestsOwnTokens'
    BY <1>3, <1>4 DEF IInv, RequestsOwnTokens, Generation
<1>9. FailedFamiliesAreStuck'
    BY <1>1 DEF IInv, TypeOK, FailedFamiliesAreStuck
<1>10. AccessWithinConsent'
    BY <1>3, <1>4 DEF IInv, AccessWithinConsent, TokensLeaveMinted, Generation
<1>q. QED
    BY <1>5, <1>6, <1>7, <1>8, <1>9, <1>10

\* A replayed code keeps the invariant.
LEMMA RedeemReplayedKeeps ==
    ASSUME IInv, NEW c \in Codes \cap known, RedeemReplayed(c)
    PROVE  IInv'
<1>1. FamiliesFrom(c) \in SUBSET Tokens /\ \A f \in FamiliesFrom(c) : families[f] # None
    BY DEF FamiliesFrom
<1>2. /\ families' = Revoke(FamiliesFrom(c)) /\ replayed' = replayed \cup {c} /\ codes[c].consumed
      /\ UNCHANGED <<policies, identity, consents, codes, tokens, requests, access, known, failed>>
    BY DEF RedeemReplayed
<1>3. replayed' \subseteq Codes \cup Tokens /\ requests' \in [Requests -> Request \cup {None}]
    BY <1>2 DEF IInv, TypeOK
<1>4. /\ TypeOK' /\ FamiliesMatchCodes' /\ OneLivePerFamily' /\ TokensLeaveMinted'
      /\ RequestsOwnTokens' /\ FailedFamiliesAreStuck' /\ AccessWithinConsent'
    BY <1>1, <1>2, <1>3, RevokesKeep
<1>5. ReplaysAreOfConsumed'
    BY <1>2, OAuthAssumption DEF IInv, TypeOK, ReplaysAreOfConsumed
<1>6. /\ \A f \in Tokens : families'[f] # None <=> families[f] # None
      /\ \A f \in Tokens : families[f] # None =>
            /\ families'[f].code = families[f].code
            /\ families[f].revoked \/ f \in FamiliesFrom(c) => families'[f].revoked
    BY <1>1, <1>2, RevokeEffect DEF IInv
<1>7. ReplaysEndGrants'
  <2>1. ASSUME NEW d \in replayed' \cap Codes, NEW f \in Tokens, families'[f] # None,
               families'[f].code = d
        PROVE  families'[f].revoked
    BY <1>2, <1>6, <2>1 DEF IInv, ReplaysEndGrants, FamiliesFrom
  <2>2. ASSUME NEW t \in replayed' \cap Tokens
        PROVE  FamilyOf(t)'.revoked
    <3>1. t \in replayed /\ tokens[t] # None /\ FamilyOf(t).revoked
        BY <1>2, <2>2, OAuthAssumption DEF IInv, ReplaysEndGrants, ReplaysAreOfConsumed
    <3>q. QED
        BY <1>2, <1>6, <3>1, TypeFacts DEF IInv, FamilyOf
  <2>q. QED
    BY <2>1, <2>2 DEF ReplaysEndGrants, FamiliesFrom
<1>q. QED
    BY <1>4, <1>5, <1>7 DEF IInv

\* A reused refresh token keeps the invariant.
LEMMA RotateReusedKeeps ==
    ASSUME IInv, NEW old \in Tokens \cap known, RotateReused(old)
    PROVE  IInv'
<1> DEFINE fam == tokens[old].family
<1>1. tokens[old] # None /\ fam \in Tokens /\ families[fam] # None
    BY TypeFacts DEF IInv, TypeOK, FamilyOf
<1>2. /\ families' = Revoke({fam}) /\ replayed' = replayed \cup {old}
      /\ UNCHANGED <<policies, identity, consents, codes, tokens, requests, access, known, failed>>
    BY DEF RotateReused
<1>3. replayed' \subseteq Codes \cup Tokens /\ requests' \in [Requests -> Request \cup {None}]
    BY <1>2 DEF IInv, TypeOK
<1>4. /\ TypeOK' /\ FamiliesMatchCodes' /\ OneLivePerFamily' /\ TokensLeaveMinted'
      /\ RequestsOwnTokens' /\ FailedFamiliesAreStuck' /\ AccessWithinConsent'
    BY <1>1, <1>2, <1>3, RevokesKeep
<1>5. ReplaysAreOfConsumed'
    BY <1>1, <1>2, OAuthAssumption DEF IInv, TypeOK, ReplaysAreOfConsumed
<1>6. /\ \A f \in Tokens : families'[f] # None <=> families[f] # None
      /\ \A f \in Tokens : families[f] # None =>
            /\ families'[f].code = families[f].code
            /\ families[f].revoked \/ f = fam => families'[f].revoked
  <2>1. {fam} \in SUBSET Tokens /\ \A f \in {fam} : families[f] # None
    BY <1>1
  <2>2. \A f \in Tokens : f = fam => f \in {fam}
    OBVIOUS
  <2>q. QED
    BY <1>2, <2>1, <2>2, RevokeEffect DEF IInv
<1>7. ReplaysEndGrants'
  <2>1. ASSUME NEW d \in replayed' \cap Codes, NEW f \in Tokens, families'[f] # None,
               families'[f].code = d
        PROVE  families'[f].revoked
    BY <1>2, <1>6, <2>1, OAuthAssumption DEF IInv, ReplaysEndGrants, FamiliesFrom
  <2>2. ASSUME NEW t \in replayed' \cap Tokens
        PROVE  FamilyOf(t)'.revoked
    <3>1. CASE t = old
        BY <1>1, <1>2, <1>6, <3>1 DEF FamilyOf
    <3>2. CASE t # old
      <4>1. t \in replayed /\ tokens[t] # None /\ FamilyOf(t).revoked
        BY <1>2, <2>2, <3>2 DEF IInv, ReplaysEndGrants, ReplaysAreOfConsumed
      <4>q. QED
        BY <1>2, <1>6, <4>1, TypeFacts DEF IInv, FamilyOf
    <3>q. QED
        BY <3>1, <3>2
  <2>q. QED
    BY <2>1, <2>2 DEF ReplaysEndGrants, FamiliesFrom
<1>q. QED
    BY <1>4, <1>5, <1>7 DEF IInv

\* Revoking a family that no replay asked for.
LEMMA RevokesKeepReplays ==
    ASSUME IInv, NEW f0 \in Tokens, families[f0] # None, families' = Revoke({f0}),
           UNCHANGED <<codes, tokens, replayed>>
    PROVE  ReplaysAreOfConsumed' /\ ReplaysEndGrants'
<1>1. /\ \A f \in Tokens : families'[f] # None <=> families[f] # None
      /\ \A f \in Tokens : families[f] # None =>
            /\ families'[f].code = families[f].code
            /\ families[f].revoked => families'[f].revoked
  <2>1. {f0} \in SUBSET Tokens /\ \A f \in {f0} : families[f] # None
    OBVIOUS
  <2>q. QED
    BY <2>1, RevokeEffect DEF IInv
<1>2. ReplaysAreOfConsumed'
    BY DEF IInv, ReplaysAreOfConsumed
<1>3. ASSUME NEW d \in replayed \cap Codes, NEW f \in Tokens, families'[f] # None,
             families'[f].code = d
      PROVE  families'[f].revoked
    BY <1>1, <1>3 DEF IInv, ReplaysEndGrants, FamiliesFrom
<1>4. ASSUME NEW t \in replayed \cap Tokens
      PROVE  FamilyOf(t)'.revoked
    BY <1>1, <1>4, TypeFacts DEF IInv, ReplaysEndGrants, ReplaysAreOfConsumed, FamilyOf
<1>q. QED
    BY <1>2, <1>3, <1>4 DEF ReplaysEndGrants, FamiliesFrom

\* RevokeFamily after a failed minting keeps the invariant.
LEMMA RevokeFamilyKeeps ==
    ASSUME IInv, NEW r \in Requests, RevokeFamily(r)
    PROVE  IInv'
<1> DEFINE fam == tokens[requests[r].token].family
<1>1. requests[r] # None /\ fam \in Tokens /\ families[fam] # None
    BY TypeFacts DEF IInv, RevokeFamily, InStep, FamilyOf
<1>2. /\ families' = Revoke({fam}) /\ requests' = [requests EXCEPT ![r] = None]
      /\ UNCHANGED <<policies, identity, consents, codes, tokens, access, known, replayed, failed>>
    BY DEF RevokeFamily
<1>3. /\ replayed' \subseteq Codes \cup Tokens /\ requests' \in [Requests -> Request \cup {None}]
      /\ \A q \in Requests : requests'[q] # None => requests'[q] = requests[q]
    BY <1>2 DEF IInv, TypeOK
<1>4. /\ TypeOK' /\ FamiliesMatchCodes' /\ OneLivePerFamily' /\ TokensLeaveMinted'
      /\ RequestsOwnTokens' /\ FailedFamiliesAreStuck' /\ AccessWithinConsent'
    BY <1>1, <1>2, <1>3, RevokesKeep
<1>5. ReplaysAreOfConsumed' /\ ReplaysEndGrants'
    BY <1>1, <1>2, RevokesKeepReplays
<1>q. QED
    BY <1>4, <1>5 DEF IInv

\* A client's revocation keeps the invariant.
LEMMA RevokeRefreshKeeps ==
    ASSUME IInv, NEW t \in Tokens \cap known, NEW client \in Clients, RevokeRefresh(t, client)
    PROVE  IInv'
<1> DEFINE fam == tokens[t].family
<1>1. fam \in Tokens /\ families[fam] # None
    BY TypeFacts DEF IInv, TypeOK, FamilyOf
<1>2. /\ families' = Revoke({fam})
      /\ UNCHANGED <<policies, identity, consents, codes, tokens, requests, access, known,
                     replayed, failed>>
    BY DEF RevokeRefresh
<1>3. /\ replayed' \subseteq Codes \cup Tokens /\ requests' \in [Requests -> Request \cup {None}]
      /\ \A q \in Requests : requests'[q] # None => requests'[q] = requests[q]
    BY <1>2 DEF IInv, TypeOK
<1>4. /\ TypeOK' /\ FamiliesMatchCodes' /\ OneLivePerFamily' /\ TokensLeaveMinted'
      /\ RequestsOwnTokens' /\ FailedFamiliesAreStuck' /\ AccessWithinConsent'
    BY <1>1, <1>2, <1>3, RevokesKeep
<1>5. ReplaysAreOfConsumed' /\ ReplaysEndGrants'
    BY <1>1, <1>2, RevokesKeepReplays
<1>q. QED
    BY <1>4, <1>5 DEF IInv

\* The actions that touch neither codes, families, tokens nor requests.
LEMMA AsideKeeps ==
    ASSUME IInv, TypeOK',
           UNCHANGED <<policies, codes, families, tokens, requests, access, known, replayed,
                       failed>>
    PROVE  IInv'
    BY DEF IInv, FamiliesMatchCodes, OneLivePerFamily, TokensLeaveMinted, RequestsOwnTokens,
           FailedFamiliesAreStuck, ReplaysAreOfConsumed, ReplaysEndGrants, AccessWithinConsent,
           FamilyOf, FamiliesFrom, Generation

\* A consent that passed the membership check keeps the invariant.
LEMMA CheckConsentKeeps ==
    ASSUME IInv, NEW client \in Clients, NEW scopes \in SUBSET Scopes \ {{}},
           CheckConsent(client, scopes)
    PROVE  IInv'
<1>1. TypeOK'
    BY DEF IInv, TypeOK, CheckConsent, Consent, Generation, FamilyOf
<1>q. QED
    BY <1>1, AsideKeeps DEF CheckConsent

\* A lost consent keeps the invariant.
LEMMA ConsentLostKeeps ==
    ASSUME IInv, NEW consent \in consents, ConsentLost(consent)
    PROVE  IInv'
<1>1. TypeOK'
    BY DEF IInv, TypeOK, ConsentLost, Generation, FamilyOf
<1>q. QED
    BY <1>1, AsideKeeps DEF ConsentLost

\* The revocation of the identity keeps the invariant.
LEMMA RevokeIdentityKeeps ==
    ASSUME IInv, RevokeIdentity
    PROVE  IInv'
<1>1. TypeOK'
    BY DEF IInv, TypeOK, RevokeIdentity, Generation, FamilyOf
<1>q. QED
    BY <1>1, AsideKeeps DEF RevokeIdentity

\* A saved code keeps the invariant.
LEMMA SaveCodeKeeps ==
    ASSUME IInv, NEW consent \in consents, NEW c \in Codes, NEW delivered \in BOOLEAN,
           SaveCode(consent, c, delivered)
    PROVE  IInv'
<1> DEFINE row == [client |-> consent.client, scopes |-> consent.scopes,
                   consumed |-> FALSE, expired |-> FALSE]
<1>1. row \in CodeRow
    BY DEF IInv, TypeOK, CodeRow, Consent
<1>2. codes[c] = None /\ codes' = [codes EXCEPT ![c] = row]
    BY DEF SaveCode
<1>3. /\ codes' \in [Codes -> CodeRow \cup {None}]
      /\ codes'[c] # None
      /\ \A d \in Codes \ {c} : codes'[d] = codes[d]
    BY <1>1, <1>2, CodeUpdate DEF IInv
<1>4. /\ UNCHANGED <<policies, identity, families, tokens, requests, access, replayed, failed>>
      /\ consents' \subseteq consents /\ known' \in {known, known \cup {c}}
    BY DEF SaveCode
<1>5. known' \cap Tokens = known \cap Tokens
    BY <1>4, OAuthAssumption
<1>6. \A f \in Tokens : families[f] # None => families[f].code \in Codes \ {c}
    BY <1>2, TypeFacts DEF IInv
<1>7. TypeOK'
  <2>1. \A f \in Tokens : families'[f] # None => codes'[families'[f].code] # None
    BY <1>3, <1>4, <1>6 DEF IInv, TypeOK
  <2>2. /\ \A d \in known' \cap Codes : codes'[d] # None
        /\ \A t \in known' \cap Tokens : tokens'[t] # None
    BY <1>3, <1>4, <1>5 DEF IInv, TypeOK
  <2>q. QED
    BY <1>3, <1>4, <2>1, <2>2 DEF IInv, TypeOK, FamilyOf, Generation
<1>8. FamiliesMatchCodes'
    BY <1>3, <1>4, <1>6 DEF IInv, FamiliesMatchCodes
<1>9. OneLivePerFamily' /\ TokensLeaveMinted'
    BY <1>4, <1>5 DEF IInv, OneLivePerFamily, TokensLeaveMinted
<1>10. RequestsOwnTokens'
    BY <1>4, <1>5, TypeFacts DEF IInv, RequestsOwnTokens, FamilyOf, Generation
<1>11. FailedFamiliesAreStuck'
    BY <1>4, <1>5 DEF IInv, FailedFamiliesAreStuck
<1>12. ReplaysAreOfConsumed' /\ ReplaysEndGrants'
    BY <1>2, <1>3, <1>4 DEF IInv, ReplaysAreOfConsumed, ReplaysEndGrants, FamilyOf, FamiliesFrom
<1>13. AccessWithinConsent'
    BY <1>3, <1>4, <1>6, TypeFacts DEF IInv, AccessWithinConsent, TokensLeaveMinted, FamilyOf,
       Generation
<1>q. QED
    BY <1>7, <1>8, <1>9, <1>10, <1>11, <1>12, <1>13 DEF IInv

\* Updating a saved code without changing whom and what it was issued for.
LEMMA CodeFlagKeeps ==
    ASSUME IInv, NEW c \in Codes, NEW row \in CodeRow, codes[c] # None,
           codes' = [codes EXCEPT ![c] = row],
           row.client = codes[c].client, row.scopes = codes[c].scopes,
           codes[c].consumed => row.consumed,
           UNCHANGED <<policies, identity, consents, families, tokens, requests, access,
                       known, replayed, failed>>
    PROVE  IInv'
<1>1. /\ codes' \in [Codes -> CodeRow \cup {None}]
      /\ codes'[c] = row /\ codes'[c] # None
      /\ \A d \in Codes \ {c} : codes'[d] = codes[d]
    BY CodeUpdate DEF IInv
<1>2. \A d \in Codes : codes[d] # None =>
          /\ codes'[d] # None
          /\ codes'[d].client = codes[d].client /\ codes'[d].scopes = codes[d].scopes
          /\ codes[d].consumed => codes'[d].consumed
    BY <1>1
<1>3. TypeOK'
    BY <1>1, <1>2, TypeFacts DEF IInv, TypeOK, FamilyOf, Generation
<1>4. FamiliesMatchCodes'
    BY <1>2, TypeFacts DEF IInv, FamiliesMatchCodes
<1>5. OneLivePerFamily' /\ TokensLeaveMinted' /\ RequestsOwnTokens' /\ FailedFamiliesAreStuck'
    BY DEF IInv, OneLivePerFamily, TokensLeaveMinted, RequestsOwnTokens,
       FailedFamiliesAreStuck, FamilyOf, Generation
<1>6. ReplaysAreOfConsumed' /\ ReplaysEndGrants'
    BY <1>2 DEF IInv, ReplaysAreOfConsumed, ReplaysEndGrants, FamilyOf, FamiliesFrom
<1>7. AccessWithinConsent'
    BY <1>2, TypeFacts DEF IInv, AccessWithinConsent, TokensLeaveMinted, FamilyOf, Generation
<1>q. QED
    BY <1>3, <1>4, <1>5, <1>6, <1>7 DEF IInv

\* A refused redemption keeps the invariant.
LEMMA RedeemRefusedKeeps ==
    ASSUME IInv, NEW c \in Codes \cap known, NEW client \in Clients, NEW matches \in BOOLEAN,
           RedeemRefused(c, client, matches)
    PROVE  IInv'
<1> DEFINE row == [codes[c] EXCEPT !.consumed = TRUE]
<1>1. codes[c] # None /\ codes[c] \in CodeRow
    BY DEF IInv, TypeOK
<1>2. row \in CodeRow /\ row.client = codes[c].client /\ row.scopes = codes[c].scopes
      /\ row.consumed
    BY <1>1 DEF CodeRow
<1>3. codes' = [codes EXCEPT ![c] = row]
    BY DEF RedeemRefused
<1>q. QED
    BY <1>1, <1>2, <1>3, CodeFlagKeeps DEF RedeemRefused

\* The expiry of a code keeps the invariant.
LEMMA ExpireCodeKeeps ==
    ASSUME IInv, NEW c \in Codes, ExpireCode(c)
    PROVE  IInv'
<1> DEFINE row == [codes[c] EXCEPT !.expired = TRUE]
<1>1. codes[c] # None /\ codes[c] \in CodeRow
    BY DEF IInv, TypeOK, ExpireCode
<1>2. /\ row \in CodeRow /\ row.client = codes[c].client /\ row.scopes = codes[c].scopes
      /\ row.consumed = codes[c].consumed
    BY <1>1 DEF CodeRow
<1>3. codes' = [codes EXCEPT ![c] = row]
    BY DEF ExpireCode
<1>q. QED
    BY <1>1, <1>2, <1>3, CodeFlagKeeps DEF ExpireCode

\* The expiry of a token keeps the invariant.
LEMMA ExpireTokenKeeps ==
    ASSUME IInv, NEW t \in Tokens, ExpireToken(t)
    PROVE  IInv'
<1> DEFINE row == [tokens[t] EXCEPT !.expired = TRUE]
<1>1. tokens[t] # None /\ tokens[t] \in TokenRow
    BY DEF IInv, TypeOK, ExpireToken
<1>2. row \in TokenRow /\ row.family = tokens[t].family /\ row.consumed = tokens[t].consumed
    BY <1>1 DEF TokenRow
<1>3. tokens' = [tokens EXCEPT ![t] = row]
    BY DEF ExpireToken
<1>4. /\ tokens' \in [Tokens -> TokenRow \cup {None}]
      /\ tokens'[t] = row /\ tokens'[t] # None
      /\ \A u \in Tokens \ {t} : tokens'[u] = tokens[u]
    BY <1>2, <1>3, TokenUpdate DEF IInv
<1>5. \A u \in Tokens :
          /\ tokens'[u] # None <=> tokens[u] # None
          /\ tokens[u] # None => /\ tokens'[u].family = tokens[u].family
                                 /\ tokens'[u].consumed = tokens[u].consumed
    BY <1>1, <1>2, <1>4
<1>6. UNCHANGED <<policies, identity, consents, codes, families, requests, access, known,
                  replayed, failed>>
    BY DEF ExpireToken
<1>7. TypeOK'
    BY <1>4, <1>5, <1>6, TypeFacts DEF IInv, TypeOK, FamilyOf, Generation
<1>8. FamiliesMatchCodes' /\ OneLivePerFamily' /\ TokensLeaveMinted'
    BY <1>5, <1>6 DEF IInv, FamiliesMatchCodes, OneLivePerFamily, TokensLeaveMinted
<1>9. RequestsOwnTokens' /\ FailedFamiliesAreStuck'
    BY <1>5, <1>6, TypeFacts DEF IInv, RequestsOwnTokens, FailedFamiliesAreStuck, FamilyOf,
       Generation
<1>10. ReplaysAreOfConsumed' /\ ReplaysEndGrants'
    BY <1>5, <1>6 DEF IInv, ReplaysAreOfConsumed, ReplaysEndGrants, FamilyOf, FamiliesFrom
<1>11. AccessWithinConsent'
    BY <1>5, <1>6 DEF IInv, AccessWithinConsent, TokensLeaveMinted, FamilyOf, Generation
<1>q. QED
    BY <1>7, <1>8, <1>9, <1>10, <1>11 DEF IInv

\* A new policy keeps the invariant.
LEMMA ChangePolicyKeeps ==
    ASSUME IInv, NEW policy \in Policy, ChangePolicy(policy)
    PROVE  IInv'
<1>1. /\ policies' = Append(policies, policy) /\ policies \in Seq(Policy)
      /\ UNCHANGED <<identity, consents, codes, families, tokens, requests, access, known,
                     replayed, failed>>
    BY DEF IInv, TypeOK, ChangePolicy
<1>2. /\ policies' \in Seq(Policy) /\ Generation' = Generation + 1 /\ Generation \in Nat
      /\ \A g \in 1..Generation : g \in 1..Generation' /\ policies'[g] = policies[g]
    BY <1>1 DEF Generation
<1>3. TypeOK'
  <2>1. \A r \in Requests : requests[r] # None => requests[r].gen \in Nat
    BY TypeFacts DEF IInv, Request
  <2>2. \A r \in Requests : requests'[r] # None => requests'[r].gen <= Generation'
    BY <1>1, <1>2, <2>1 DEF IInv, TypeOK
  <2>q. QED
    BY <1>1, <1>2, <2>2 DEF IInv, TypeOK, FamilyOf
<1>4. RequestsOwnTokens'
    BY <1>1, <1>2 DEF IInv, RequestsOwnTokens, FamilyOf
<1>5. AccessWithinConsent'
    BY <1>1, <1>2 DEF IInv, AccessWithinConsent, FamilyOf
<1>6. FamiliesMatchCodes' /\ OneLivePerFamily' /\ TokensLeaveMinted' /\ FailedFamiliesAreStuck'
      /\ ReplaysAreOfConsumed' /\ ReplaysEndGrants'
    BY <1>1 DEF IInv, FamiliesMatchCodes, OneLivePerFamily, TokensLeaveMinted,
       FailedFamiliesAreStuck, ReplaysAreOfConsumed, ReplaysEndGrants, FamilyOf, FamiliesFrom
<1>q. QED
    BY <1>3, <1>4, <1>5, <1>6 DEF IInv

\* A request moves on, or ends, without touching the tables.
LEMMA RequestMoves ==
    ASSUME IInv, NEW r \in Requests, requests[r] # None, NEW q \in Request \cup {None},
           requests' = [requests EXCEPT ![r] = q],
           q # None => /\ q.token = requests[r].token /\ q.scopes = requests[r].scopes
                       /\ q.gen <= Generation
                       /\ q.step \in Minting => requests[r].step \in Minting
                       /\ q.step # "reply"
                       /\ q.step \in {"verify", "record"} =>
                             /\ q.gen \in 1..Generation
                             /\ policies[q.gen].allowed
                             /\ q.scopes \subseteq policies[q.gen].scopes,
           UNCHANGED <<policies, identity, consents, codes, families, tokens, access, known,
                       replayed>>
    PROVE  /\ TypeOK' \/ ~(failed' \subseteq Tokens)
           /\ FamiliesMatchCodes' /\ OneLivePerFamily' /\ TokensLeaveMinted'
           /\ RequestsOwnTokens' /\ ReplaysAreOfConsumed' /\ ReplaysEndGrants'
           /\ AccessWithinConsent'
<1>1. /\ requests' \in [Requests -> Request \cup {None}]
      /\ requests'[r] = q
      /\ \A p \in Requests \ {r} : requests'[p] = requests[p]
    BY RequestUpdate DEF IInv
<1>2. requests[r] \in Request /\ requests[r].token \in Tokens /\ tokens[requests[r].token] # None
    BY TypeFacts DEF IInv
<1>3. ASSUME failed' \subseteq Tokens
      PROVE  TypeOK'
  <2>1. \A p \in Requests : requests'[p] # None =>
            tokens'[requests'[p].token] # None /\ requests'[p].gen <= Generation'
    BY <1>1, <1>2 DEF IInv, TypeOK, Generation
  <2>q. QED
    BY <1>1, <1>3, <2>1 DEF IInv, TypeOK, FamilyOf, Generation
<1>4. RequestsOwnTokens'
  <2>1. \A p \in Requests : requests'[p] # None =>
            requests[p] # None /\ requests'[p].token = requests[p].token
    BY <1>1
  <2>2. \A p, s \in Requests :
            requests'[p] # None /\ requests'[s] # None /\ requests'[p].token = requests'[s].token
            => p = s
    BY <2>1 DEF IInv, RequestsOwnTokens
  <2>3. ASSUME NEW p \in Requests, requests'[p] # None
        PROVE  /\ requests'[p].token \notin known'
               /\ requests'[p].scopes \subseteq FamilyOf(requests[p].token)'.scopes
               /\ requests'[p].step \in Minting => access'[requests'[p].token] = None
               /\ requests'[p].step = "reply" => access'[requests'[p].token] # None
               /\ requests'[p].step \in {"verify", "record"} =>
                     /\ requests'[p].gen \in 1..Generation'
                     /\ policies'[requests'[p].gen].allowed
                     /\ requests'[p].scopes \subseteq policies'[requests'[p].gen].scopes
    <3>1. CASE p = r
        BY <1>1, <2>3, <3>1 DEF IInv, RequestsOwnTokens, FamilyOf, Generation
    <3>2. CASE p # r
        BY <1>1, <2>3, <3>2 DEF IInv, RequestsOwnTokens, FamilyOf, Generation
    <3>q. QED
        BY <3>1, <3>2
  <2>q. QED
    BY <2>1, <2>2, <2>3 DEF RequestsOwnTokens, FamilyOf
<1>5. FamiliesMatchCodes' /\ OneLivePerFamily' /\ TokensLeaveMinted' /\ ReplaysAreOfConsumed'
      /\ ReplaysEndGrants' /\ AccessWithinConsent'
    BY DEF IInv, FamiliesMatchCodes, OneLivePerFamily, TokensLeaveMinted, ReplaysAreOfConsumed,
       ReplaysEndGrants, AccessWithinConsent, FamilyOf, FamiliesFrom, Generation
<1>q. QED
    BY <1>3, <1>4, <1>5

\* The first transaction of MintAccess keeps the invariant.
LEMMA MintKeeps ==
    ASSUME IInv, NEW r \in Requests, Mint(r)
    PROVE  IInv'
<1> DEFINE q == [requests[r] EXCEPT !.step = "verify", !.gen = Generation]
<1>1. requests[r] # None /\ requests[r] \in Request /\ requests[r].step = "mint"
    BY TypeFacts DEF IInv, Mint, InStep
<1>2. Generation \in Nat /\ Generation \in 1..Generation
    BY DEF IInv, TypeOK, Generation
<1>3. /\ q \in Request /\ q.token = requests[r].token /\ q.scopes = requests[r].scopes
      /\ q.step = "verify" /\ q.gen = Generation
    BY <1>1, <1>2 DEF Request, Minting
<1>4. /\ requests' = [requests EXCEPT ![r] = q]
      /\ UNCHANGED <<policies, identity, consents, codes, families, tokens, access, known,
                     replayed, failed>>
    BY <1>1 DEF Mint
<1>5. /\ q.gen <= Generation /\ q.gen \in 1..Generation
      /\ policies[q.gen].allowed /\ q.scopes \subseteq policies[q.gen].scopes
    BY <1>2, <1>3 DEF Mint, Allows, Current
<1>6. /\ TypeOK' \/ ~(failed' \subseteq Tokens)
      /\ FamiliesMatchCodes' /\ OneLivePerFamily' /\ TokensLeaveMinted' /\ RequestsOwnTokens'
      /\ ReplaysAreOfConsumed' /\ ReplaysEndGrants' /\ AccessWithinConsent'
    BY <1>1, <1>3, <1>4, <1>5, RequestMoves DEF Minting
<1>7. FailedFamiliesAreStuck'
    BY <1>1, <1>3, <1>4 DEF IInv, FailedFamiliesAreStuck, TypeOK, Minting
<1>q. QED
    BY <1>4, <1>6, <1>7 DEF IInv, TypeOK

\* The second transaction of MintAccess keeps the invariant.
LEMMA VerifyKeeps ==
    ASSUME IInv, NEW r \in Requests, Verify(r)
    PROVE  IInv'
<1> DEFINE q == [requests[r] EXCEPT !.step = "record"]
<1>1. requests[r] # None /\ requests[r] \in Request /\ requests[r].step = "verify"
    BY TypeFacts DEF IInv, Verify, InStep
<1>2. /\ q \in Request /\ q.token = requests[r].token /\ q.scopes = requests[r].scopes
      /\ q.step = "record" /\ q.gen = requests[r].gen
    BY <1>1 DEF Request, Minting
<1>3. /\ requests' = [requests EXCEPT ![r] = q]
      /\ UNCHANGED <<policies, identity, consents, codes, families, tokens, access, known,
                     replayed, failed>>
    BY DEF Verify
<1>4. /\ q.gen <= Generation /\ q.gen \in 1..Generation
      /\ policies[q.gen].allowed /\ q.scopes \subseteq policies[q.gen].scopes
    BY <1>1, <1>2 DEF IInv, TypeOK, RequestsOwnTokens
<1>5. /\ TypeOK' \/ ~(failed' \subseteq Tokens)
      /\ FamiliesMatchCodes' /\ OneLivePerFamily' /\ TokensLeaveMinted' /\ RequestsOwnTokens'
      /\ ReplaysAreOfConsumed' /\ ReplaysEndGrants' /\ AccessWithinConsent'
    BY <1>1, <1>2, <1>3, <1>4, RequestMoves DEF Minting
<1>6. FailedFamiliesAreStuck'
    BY <1>1, <1>2, <1>3 DEF IInv, FailedFamiliesAreStuck, TypeOK, Minting
<1>q. QED
    BY <1>3, <1>5, <1>6 DEF IInv, TypeOK

\* A failed minting keeps the invariant.
LEMMA MintFailsKeeps ==
    ASSUME IInv, NEW r \in Requests, MintFails(r)
    PROVE  IInv'
<1> DEFINE q == [requests[r] EXCEPT !.step = "revoke"]
           tok == requests[r].token
           fam == tokens[tok].family
<1>1. requests[r] # None /\ requests[r] \in Request /\ requests[r].step \in Minting
    BY TypeFacts DEF IInv, MintFails, InStep
<1>2. /\ q \in Request /\ q.token = requests[r].token /\ q.scopes = requests[r].scopes
      /\ q.step = "revoke" /\ q.gen = requests[r].gen
    BY <1>1 DEF Request, Minting
<1>3. /\ requests' = [requests EXCEPT ![r] = q] /\ failed' = failed \cup {fam}
      /\ UNCHANGED <<policies, identity, consents, codes, families, tokens, access, known,
                     replayed>>
    BY DEF MintFails
<1>4. q.gen <= Generation
    BY <1>1, <1>2 DEF IInv, TypeOK
<1>5. /\ TypeOK' \/ ~(failed' \subseteq Tokens)
      /\ FamiliesMatchCodes' /\ OneLivePerFamily' /\ TokensLeaveMinted' /\ RequestsOwnTokens'
      /\ ReplaysAreOfConsumed' /\ ReplaysEndGrants' /\ AccessWithinConsent'
    BY <1>1, <1>2, <1>3, <1>4, RequestMoves DEF Minting
<1>6. /\ tok \in Tokens /\ tokens[tok] # None /\ fam \in Tokens /\ families[fam] # None
      /\ tok \notin known /\ ~tokens[tok].consumed
    BY <1>1, TypeFacts DEF IInv, RequestsOwnTokens, TokensLeaveMinted, FamilyOf
<1>7. FailedFamiliesAreStuck'
  <2>1. \A f \in failed' : families'[f] # None
    BY <1>3, <1>6 DEF IInv, FailedFamiliesAreStuck
  <2>2. ASSUME NEW t \in Tokens, tokens[t] # None, ~tokens[t].consumed,
               tokens[t].family \in failed'
        PROVE  t \notin known
    BY <1>3, <1>6, <2>2 DEF IInv, FailedFamiliesAreStuck, OneLivePerFamily
  <2>3. ASSUME NEW p \in Requests, requests'[p] # None, requests'[p].step # "revoke"
        PROVE  tokens[requests'[p].token].family \notin failed'
    <3>1. p # r /\ requests'[p] = requests[p]
        BY <1>2, <1>3, <2>3 DEF IInv, TypeOK, Minting
    <3>2. /\ requests[p].token \in Tokens /\ tokens[requests[p].token] # None
          /\ requests[p].token # tok /\ requests[p].token \notin known
        BY <1>1, <2>3, <3>1, TypeFacts DEF IInv, RequestsOwnTokens
    <3>3. ~tokens[requests[p].token].consumed
        BY <3>2 DEF IInv, TokensLeaveMinted
    <3>4. tokens[requests[p].token].family # fam
        BY <1>6, <3>2, <3>3 DEF IInv, OneLivePerFamily
    <3>q. QED
        BY <1>3, <2>3, <3>1, <3>4 DEF IInv, FailedFamiliesAreStuck
  <2>q. QED
    BY <1>3, <2>1, <2>2, <2>3 DEF FailedFamiliesAreStuck
<1>q. QED
    BY <1>3, <1>5, <1>6, <1>7 DEF IInv, TypeOK

\* A request that ends early keeps the invariant.
LEMMA RequestLostKeeps ==
    ASSUME IInv, NEW r \in Requests, RequestLost(r)
    PROVE  IInv'
<1>1. /\ requests[r] # None /\ requests' = [requests EXCEPT ![r] = None]
      /\ UNCHANGED <<policies, identity, consents, codes, families, tokens, access, known,
                     replayed, failed>>
    BY DEF RequestLost
<1>2. /\ TypeOK' \/ ~(failed' \subseteq Tokens)
      /\ FamiliesMatchCodes' /\ OneLivePerFamily' /\ TokensLeaveMinted' /\ RequestsOwnTokens'
      /\ ReplaysAreOfConsumed' /\ ReplaysEndGrants' /\ AccessWithinConsent'
    BY <1>1, RequestMoves
<1>3. FailedFamiliesAreStuck'
    BY <1>1 DEF IInv, FailedFamiliesAreStuck, TypeOK
<1>q. QED
    BY <1>1, <1>2, <1>3 DEF IInv, TypeOK

\* The last transaction of MintAccess keeps the invariant.
LEMMA RecordIssuedKeeps ==
    ASSUME IInv, NEW r \in Requests, RecordIssued(r)
    PROVE  IInv'
<1> DEFINE q == [requests[r] EXCEPT !.step = "reply"]
           tok == requests[r].token
           acc == [scopes |-> requests[r].scopes, gen |-> requests[r].gen]
<1>1. /\ requests[r] # None /\ requests[r] \in Request /\ requests[r].step = "record"
      /\ tok \in Tokens /\ tokens[tok] # None
    BY TypeFacts DEF IInv, RecordIssued, InStep
<1>2. /\ q \in Request /\ q.token = tok /\ q.scopes = requests[r].scopes
      /\ q.step = "reply" /\ q.gen = requests[r].gen /\ acc \in Access
    BY <1>1 DEF Request, Minting, Access
<1>3. /\ requests' = [requests EXCEPT ![r] = q] /\ access' = [access EXCEPT ![tok] = acc]
      /\ identity' = "live"
      /\ UNCHANGED <<policies, consents, codes, families, tokens, known, replayed, failed>>
    BY DEF RecordIssued
<1>4. /\ requests' \in [Requests -> Request \cup {None}] /\ requests'[r] = q
      /\ \A p \in Requests \ {r} : requests'[p] = requests[p]
    BY <1>2, <1>3, RequestUpdate DEF IInv
<1>5. /\ access' \in [Tokens -> Access \cup {None}] /\ access'[tok] = acc /\ access'[tok] # None
      /\ \A t \in Tokens \ {tok} : access'[t] = access[t]
    BY <1>1, <1>2, <1>3, OAuthAssumption DEF IInv, TypeOK
<1>6. TypeOK'
  <2>1. \A p \in Requests : requests'[p] # None =>
            tokens'[requests'[p].token] # None /\ requests'[p].gen <= Generation'
    BY <1>1, <1>2, <1>3, <1>4 DEF IInv, TypeOK, Generation
  <2>q. QED
    BY <1>3, <1>4, <1>5, <2>1 DEF IInv, TypeOK, FamilyOf, Generation
<1>7. TokensLeaveMinted'
    BY <1>1, <1>3, <1>5 DEF IInv, TokensLeaveMinted
<1>8. RequestsOwnTokens'
  <2>1. \A p \in Requests : requests'[p] # None =>
            requests[p] # None /\ requests'[p].token = requests[p].token
    BY <1>1, <1>2, <1>4
  <2>2. \A p, s \in Requests :
            requests'[p] # None /\ requests'[s] # None /\ requests'[p].token = requests'[s].token
            => p = s
    BY <2>1 DEF IInv, RequestsOwnTokens
  <2>3. ASSUME NEW p \in Requests, requests'[p] # None
        PROVE  /\ requests'[p].token \notin known'
               /\ requests'[p].scopes \subseteq FamilyOf(requests[p].token)'.scopes
               /\ requests'[p].step \in Minting => access'[requests'[p].token] = None
               /\ requests'[p].step = "reply" => access'[requests'[p].token] # None
               /\ requests'[p].step \in {"verify", "record"} =>
                     /\ requests'[p].gen \in 1..Generation'
                     /\ policies'[requests'[p].gen].allowed
                     /\ requests'[p].scopes \subseteq policies'[requests'[p].gen].scopes
    <3>1. CASE p = r
        BY <1>1, <1>2, <1>3, <1>4, <1>5, <3>1
           DEF IInv, RequestsOwnTokens, FamilyOf, Generation, Minting
    <3>2. CASE p # r
      <4>1. /\ requests'[p] = requests[p] /\ requests[p].token # tok
            /\ requests[p].token \in Tokens
        BY <1>1, <1>4, <2>3, <3>2, TypeFacts DEF IInv, RequestsOwnTokens
      <4>q. QED
        BY <1>3, <1>5, <2>3, <4>1 DEF IInv, RequestsOwnTokens, FamilyOf, Generation
    <3>q. QED
        BY <3>1, <3>2
  <2>q. QED
    BY <2>1, <2>2, <2>3 DEF RequestsOwnTokens, FamilyOf
<1>9. FailedFamiliesAreStuck'
    BY <1>1, <1>2, <1>3, <1>4 DEF IInv, FailedFamiliesAreStuck, Minting
<1>10. AccessWithinConsent'
  <2>1. /\ acc.scopes \subseteq FamilyOf(tok).scopes /\ acc.gen \in 1..Generation
        /\ policies[acc.gen].allowed /\ acc.scopes \subseteq policies[acc.gen].scopes
    BY <1>1 DEF IInv, RequestsOwnTokens
  <2>2. /\ FamilyOf(tok).scopes = codes[FamilyOf(tok).code].scopes
        /\ FamilyOf(tok).client = codes[FamilyOf(tok).code].client
    BY <1>1, TypeFacts DEF IInv, FamiliesMatchCodes, FamilyOf
  <2>q. QED
    BY <1>3, <1>5, <2>1, <2>2 DEF IInv, AccessWithinConsent, FamilyOf, Generation
<1>11. FamiliesMatchCodes' /\ OneLivePerFamily' /\ ReplaysAreOfConsumed' /\ ReplaysEndGrants'
    BY <1>3 DEF IInv, FamiliesMatchCodes, OneLivePerFamily, ReplaysAreOfConsumed,
       ReplaysEndGrants, FamilyOf, FamiliesFrom
<1>q. QED
    BY <1>6, <1>7, <1>8, <1>9, <1>10, <1>11 DEF IInv

\* The reply to the client keeps the invariant.
LEMMA ReplyKeeps ==
    ASSUME IInv, NEW r \in Requests, Reply(r)
    PROVE  IInv'
<1> DEFINE tok == requests[r].token
<1>1. /\ requests[r] # None /\ requests[r] \in Request /\ requests[r].step = "reply"
      /\ tok \in Tokens /\ tokens[tok] # None /\ access[tok] # None
    BY TypeFacts DEF IInv, Reply, InStep, RequestsOwnTokens
<1>2. /\ requests' = [requests EXCEPT ![r] = None] /\ known' = known \cup {tok}
      /\ UNCHANGED <<policies, identity, consents, codes, families, tokens, access, replayed,
                     failed>>
    BY DEF Reply
<1>3. /\ requests' \in [Requests -> Request \cup {None}] /\ requests'[r] = None
      /\ \A p \in Requests \ {r} : requests'[p] = requests[p]
    BY <1>2, RequestUpdate DEF IInv
<1>4. TypeOK'
    BY <1>1, <1>2, <1>3, OAuthAssumption DEF IInv, TypeOK, FamilyOf, Generation
<1>5. TokensLeaveMinted'
    BY <1>1, <1>2 DEF IInv, TokensLeaveMinted
<1>6. RequestsOwnTokens'
  <2>1. \A p \in Requests : requests'[p] # None =>
            /\ requests'[p] = requests[p] /\ requests[p] # None /\ requests[p].token # tok
    BY <1>1, <1>3 DEF IInv, RequestsOwnTokens
  <2>q. QED
    BY <1>2, <2>1 DEF IInv, RequestsOwnTokens, FamilyOf, Generation
<1>7. FailedFamiliesAreStuck'
  <2>1. tokens[tok].family \notin failed
    BY <1>1 DEF IInv, FailedFamiliesAreStuck
  <2>q. QED
    BY <1>2, <1>3, <2>1 DEF IInv, FailedFamiliesAreStuck
<1>8. FamiliesMatchCodes' /\ OneLivePerFamily' /\ ReplaysAreOfConsumed' /\ ReplaysEndGrants'
      /\ AccessWithinConsent'
    BY <1>2 DEF IInv, FamiliesMatchCodes, OneLivePerFamily, ReplaysAreOfConsumed,
       ReplaysEndGrants, AccessWithinConsent, FamilyOf, FamiliesFrom, Generation
<1>q. QED
    BY <1>4, <1>5, <1>6, <1>7, <1>8 DEF IInv

\* A redemption keeps the invariant.
LEMMA RedeemGrantedKeeps ==
    ASSUME IInv, NEW r \in Requests, NEW c \in Codes \cap known, NEW client \in Clients,
           NEW t \in Tokens, requests[r] = None, Fresh(t), RedeemGranted(r, c, client, t)
    PROVE  IInv'
<1> DEFINE code == [codes[c] EXCEPT !.consumed = TRUE]
           family == [code |-> c, client |-> client, scopes |-> codes[c].scopes, revoked |-> FALSE]
           token == [family |-> t, consumed |-> FALSE, expired |-> FALSE]
           q == [step |-> "mint", token |-> t, scopes |-> codes[c].scopes, gen |-> 0]
<1>1. codes[c] # None /\ codes[c] \in CodeRow
    BY DEF IInv, TypeOK
<1>2. /\ code \in CodeRow /\ code.client = codes[c].client /\ code.scopes = codes[c].scopes
      /\ code.consumed
    BY <1>1 DEF CodeRow
<1>3. family \in FamilyRow /\ token \in TokenRow /\ q \in Request
    BY <1>1 DEF CodeRow, FamilyRow, TokenRow, Request, Minting
<1>4. ~codes[c].consumed /\ codes[c].client = client
    BY DEF RedeemGranted, CodeChecks
<1>5. /\ codes' = [codes EXCEPT ![c] = code] /\ families' = [families EXCEPT ![t] = family]
      /\ tokens' = [tokens EXCEPT ![t] = token] /\ requests' = [requests EXCEPT ![r] = q]
      /\ UNCHANGED <<policies, identity, consents, access, known, replayed, failed>>
    BY DEF RedeemGranted
<1>6. /\ codes' \in [Codes -> CodeRow \cup {None}]
      /\ codes'[c] = code /\ codes'[c] # None
      /\ \A d \in Codes \ {c} : codes'[d] = codes[d]
    BY <1>2, <1>5, CodeUpdate DEF IInv
<1>7. /\ tokens' \in [Tokens -> TokenRow \cup {None}]
      /\ tokens'[t] = token /\ tokens'[t] # None
      /\ \A u \in Tokens \ {t} : tokens'[u] = tokens[u]
    BY <1>3, <1>5, TokenUpdate DEF IInv
<1>8. /\ families' \in [Tokens -> FamilyRow \cup {None}]
      /\ families'[t] = family /\ families'[t] # None
      /\ \A f \in Tokens \ {t} : families'[f] = families[f]
    BY <1>3, <1>5, OAuthAssumption DEF IInv, TypeOK
<1>9. /\ requests' \in [Requests -> Request \cup {None}] /\ requests'[r] = q
      /\ \A p \in Requests \ {r} : requests'[p] = requests[p]
    BY <1>3, <1>5, RequestUpdate DEF IInv
\* The new token and its family are new, and c has no family yet.
<1>10. tokens[t] = None /\ families[t] = None /\ t \notin known /\ access[t] = None
    BY DEF IInv, TypeOK, FamiliesMatchCodes, TokensLeaveMinted, Fresh
<1>11. \A u \in Tokens : tokens[u] # None =>
           u # t /\ tokens[u].family \in Tokens \ {t} /\ FamilyOf(u) # None
    BY <1>10, TypeFacts DEF IInv, FamilyOf
<1>12. \A f \in Tokens : families[f] # None =>
           f # t /\ families[f].code \in Codes \ {c} /\ codes[families[f].code] # None
    BY <1>4, <1>10, TypeFacts DEF IInv, FamiliesMatchCodes
<1>13. \A p \in Requests : requests[p] # None =>
           p # r /\ requests[p].token \in Tokens \ {t} /\ tokens[requests[p].token] # None
    BY <1>10, TypeFacts DEF IInv
<1>14. TypeOK'
  <2>1. \A u \in Tokens : tokens'[u] # None => families'[tokens'[u].family] # None
    BY <1>7, <1>8, <1>11 DEF FamilyOf
  <2>2. \A f \in Tokens : families'[f] # None => codes'[families'[f].code] # None
    BY <1>6, <1>8, <1>12
  <2>3. \A p \in Requests : requests'[p] # None => tokens'[requests'[p].token] # None
    BY <1>7, <1>9, <1>13
  <2>4. \A p \in Requests : requests'[p] # None => requests'[p].gen <= Generation'
    BY <1>5, <1>9 DEF IInv, TypeOK, Generation
  <2>5. /\ \A d \in known' \cap Codes : codes'[d] # None
        /\ \A u \in known' \cap Tokens : tokens'[u] # None
    BY <1>5, <1>6, <1>7 DEF IInv, TypeOK
  <2>q. QED
    BY <1>5, <1>6, <1>7, <1>8, <1>9, <2>1, <2>2, <2>3, <2>4, <2>5
       DEF IInv, TypeOK, FamilyOf, Generation
<1>15. FamiliesMatchCodes'
  <2>1. ASSUME NEW f \in Tokens, families'[f] # None
        PROVE  /\ tokens'[f] # None /\ tokens'[f].family = f
               /\ codes'[families'[f].code].consumed
               /\ families'[f].scopes = codes'[families'[f].code].scopes
               /\ families'[f].client = codes'[families'[f].code].client
    <3>1. CASE f = t
      <4>1. /\ families'[f].code = c /\ families'[f].scopes = codes[c].scopes
            /\ families'[f].client = client
        BY <1>8, <3>1
      <4>2. codes'[c] = code /\ tokens'[f] # None /\ tokens'[f].family = f
        BY <1>6, <1>7, <3>1
      <4>q. QED
        BY <1>2, <1>4, <4>1, <4>2
    <3>2. CASE f # t
        BY <1>6, <1>7, <1>8, <1>12, <2>1, <3>2 DEF IInv, FamiliesMatchCodes
    <3>q. QED
        BY <3>1, <3>2
  <2>2. \A f, g \in Tokens :
            families'[f] # None /\ families'[g] # None /\ families'[f].code = families'[g].code
            => f = g
    BY <1>8, <1>12 DEF IInv, FamiliesMatchCodes
  <2>q. QED
    BY <2>1, <2>2 DEF FamiliesMatchCodes
<1>16. OneLivePerFamily'
    BY <1>7, <1>11 DEF IInv, OneLivePerFamily
<1>17. TokensLeaveMinted'
    BY <1>5, <1>7, <1>10 DEF IInv, TokensLeaveMinted
<1>18. RequestsOwnTokens'
  <2>1. \A p, s \in Requests :
            requests'[p] # None /\ requests'[s] # None /\ requests'[p].token = requests'[s].token
            => p = s
    BY <1>9, <1>13 DEF IInv, RequestsOwnTokens
  <2>2. ASSUME NEW p \in Requests, requests'[p] # None
        PROVE  /\ requests'[p].token \notin known'
               /\ requests'[p].scopes \subseteq families'[tokens'[requests'[p].token].family].scopes
               /\ requests'[p].step \in Minting => access'[requests'[p].token] = None
               /\ requests'[p].step = "reply" => access'[requests'[p].token] # None
               /\ requests'[p].step \in {"verify", "record"} =>
                     /\ requests'[p].gen \in 1..Generation'
                     /\ policies'[requests'[p].gen].allowed
                     /\ requests'[p].scopes \subseteq policies'[requests'[p].gen].scopes
    <3>1. CASE p = r
        BY <1>5, <1>7, <1>8, <1>9, <1>10, <3>1 DEF Minting
    <3>2. CASE p # r
        BY <1>5, <1>7, <1>8, <1>9, <1>11, <1>13, <2>2, <3>2
           DEF IInv, RequestsOwnTokens, FamilyOf, Generation
    <3>q. QED
        BY <3>1, <3>2
  <2>q. QED
    BY <2>1, <2>2 DEF RequestsOwnTokens, FamilyOf
<1>19. FailedFamiliesAreStuck'
  <2>1. t \notin failed
    BY <1>10 DEF IInv, FailedFamiliesAreStuck
  <2>q. QED
    BY <1>5, <1>7, <1>8, <1>9, <1>13, <2>1 DEF IInv, TypeOK, FailedFamiliesAreStuck
<1>20. ReplaysAreOfConsumed'
    BY <1>2, <1>5, <1>6, <1>7 DEF IInv, ReplaysAreOfConsumed
<1>21. ReplaysEndGrants'
  <2>1. c \notin replayed /\ t \notin replayed
    BY <1>4, <1>10 DEF IInv, ReplaysAreOfConsumed
  <2>2. ASSUME NEW d \in replayed' \cap Codes, NEW f \in Tokens, families'[f] # None,
               families'[f].code = d
        PROVE  families'[f].revoked
    BY <1>5, <1>8, <2>1, <2>2 DEF IInv, ReplaysEndGrants, FamiliesFrom
  <2>3. ASSUME NEW u \in replayed' \cap Tokens
        PROVE  FamilyOf(u)'.revoked
    BY <1>5, <1>7, <1>8, <1>11, <2>1, <2>3
       DEF IInv, ReplaysEndGrants, ReplaysAreOfConsumed, FamilyOf
  <2>q. QED
    BY <2>2, <2>3 DEF ReplaysEndGrants, FamiliesFrom
<1>22. AccessWithinConsent'
  <2>1. \A u \in Tokens : access[u] # None =>
            /\ tokens'[u] = tokens[u] /\ FamilyOf(u)' = FamilyOf(u)
            /\ codes'[FamilyOf(u).code] = codes[FamilyOf(u).code]
    BY <1>6, <1>7, <1>8, <1>10, <1>11, <1>12 DEF IInv, TokensLeaveMinted, FamilyOf
  <2>q. QED
    BY <1>5, <2>1 DEF IInv, AccessWithinConsent, Generation
<1>q. QED
    BY <1>14, <1>15, <1>16, <1>17, <1>18, <1>19, <1>20, <1>21, <1>22 DEF IInv

\* A rotation keeps the invariant.
LEMMA RotateGrantedKeeps ==
    ASSUME IInv, NEW r \in Requests, NEW old \in Tokens \cap known, NEW client \in Clients,
           NEW requested \in SUBSET Scopes, NEW t \in Tokens, requests[r] = None, Fresh(t),
           RotateGranted(r, old, client, requested, t)
    PROVE  IInv'
<1> DEFINE used == [tokens[old] EXCEPT !.consumed = TRUE]
           token == [family |-> tokens[old].family, consumed |-> FALSE, expired |-> FALSE]
           q == [step |-> "mint", token |-> t, scopes |-> requested, gen |-> 0]
<1>1. tokens[old] # None /\ tokens[old] \in TokenRow /\ tokens[old].family \in Tokens /\ old # t
    BY TypeFacts DEF IInv, TypeOK, Fresh
<1>2. /\ used \in TokenRow /\ used.family = tokens[old].family /\ used.consumed
      /\ token \in TokenRow /\ q \in Request
    BY <1>1 DEF TokenRow, Request, Minting
<1>3. /\ ~tokens[old].consumed /\ ~FamilyOf(old).revoked
      /\ requested \subseteq FamilyOf(old).scopes
    BY DEF RotateGranted, RefreshChecks
<1>4. /\ tokens' = [tokens EXCEPT ![old] = used, ![t] = token]
      /\ requests' = [requests EXCEPT ![r] = q]
      /\ UNCHANGED <<policies, identity, consents, codes, families, access, known, replayed,
                     failed>>
    BY DEF RotateGranted, Rotated
<1>5. /\ tokens' \in [Tokens -> TokenRow \cup {None}]
      /\ tokens'[old] = used /\ tokens'[old] # None /\ tokens'[t] = token /\ tokens'[t] # None
      /\ \A u \in Tokens \ {old, t} : tokens'[u] = tokens[u]
    BY <1>1, <1>2, <1>4, OAuthAssumption DEF IInv, TypeOK
<1>6. /\ requests' \in [Requests -> Request \cup {None}] /\ requests'[r] = q
      /\ \A p \in Requests \ {r} : requests'[p] = requests[p]
    BY <1>2, <1>4, RequestUpdate DEF IInv
<1>7. tokens[t] = None /\ t \notin known /\ access[t] = None /\ t \notin replayed
    BY DEF IInv, TypeOK, TokensLeaveMinted, ReplaysAreOfConsumed, Fresh
<1>8. \A u \in Tokens : tokens[u] # None =>
          /\ u # t /\ tokens'[u] # None /\ tokens'[u].family = tokens[u].family
          /\ tokens[u].family \in Tokens /\ FamilyOf(u) # None
    BY <1>2, <1>5, <1>7, TypeFacts DEF IInv
<1>9. \A p \in Requests : requests[p] # None =>
          p # r /\ requests[p].token \in Tokens \ {t} /\ tokens[requests[p].token] # None
    BY <1>7, TypeFacts DEF IInv
\* No minting ever failed in the family of a token that left the server unconsumed.
<1>10. tokens[old].family \notin failed
    BY <1>1, <1>3 DEF IInv, FailedFamiliesAreStuck
<1>11. TypeOK'
  <2>1. \A u \in Tokens : tokens'[u] # None => families'[tokens'[u].family] # None
    <3>1. tokens'[t].family = tokens[old].family
        BY <1>5
    <3>2. \A u \in Tokens : tokens'[u] # None /\ u # t => tokens[u] # None
        BY <1>1, <1>5
    <3>q. QED
        BY <1>1, <1>4, <1>8, <3>1, <3>2 DEF FamilyOf
  <2>2. \A p \in Requests : requests'[p] # None => tokens'[requests'[p].token] # None
    BY <1>5, <1>6, <1>8, <1>9
  <2>3. \A p \in Requests : requests'[p] # None => requests'[p].gen <= Generation'
    BY <1>4, <1>6 DEF IInv, TypeOK, Generation
  <2>4. \A u \in known' \cap Tokens : tokens'[u] # None
    BY <1>4, <1>8 DEF IInv, TypeOK
  <2>q. QED
    BY <1>4, <1>5, <1>6, <2>1, <2>2, <2>3, <2>4 DEF IInv, TypeOK, FamilyOf, Generation
<1>12. FamiliesMatchCodes'
    BY <1>4, <1>8 DEF IInv, FamiliesMatchCodes
<1>13. OneLivePerFamily'
  <2>1. \A u \in Tokens : tokens'[u] # None /\ ~tokens'[u].consumed /\ u # t =>
            /\ tokens[u] # None /\ ~tokens[u].consumed /\ u # old
            /\ tokens'[u].family = tokens[u].family
    BY <1>2, <1>5
  <2>2. \A u \in Tokens : tokens'[u] # None /\ ~tokens'[u].consumed /\ u # t =>
            tokens'[u].family # tokens[old].family
    BY <1>1, <1>3, <2>1 DEF IInv, OneLivePerFamily
  <2>3. tokens'[t].family = tokens[old].family
    BY <1>5
  <2>4. \A u, w \in Tokens :
            /\ tokens'[u] # None /\ ~tokens'[u].consumed
            /\ tokens'[w] # None /\ ~tokens'[w].consumed
            /\ tokens'[u].family = tokens'[w].family
            => u = w
    BY <2>1, <2>2, <2>3 DEF IInv, OneLivePerFamily
  <2>q. QED
    BY <2>4 DEF OneLivePerFamily
<1>14. TokensLeaveMinted'
  <2>1. \A u \in Tokens : tokens'[u] # None /\ tokens'[u].consumed => u \in known
    <3>1. ~tokens'[t].consumed
        BY <1>5
    <3>q. QED
        BY <1>5, <3>1 DEF IInv, TokensLeaveMinted
  <2>q. QED
    BY <1>4, <1>8, <2>1 DEF IInv, TokensLeaveMinted
<1>15. RequestsOwnTokens'
  <2>1. \A p, s \in Requests :
            requests'[p] # None /\ requests'[s] # None /\ requests'[p].token = requests'[s].token
            => p = s
    BY <1>6, <1>9 DEF IInv, RequestsOwnTokens
  <2>2. ASSUME NEW p \in Requests, requests'[p] # None
        PROVE  /\ requests'[p].token \notin known'
               /\ requests'[p].scopes \subseteq families'[tokens'[requests'[p].token].family].scopes
               /\ requests'[p].step \in Minting => access'[requests'[p].token] = None
               /\ requests'[p].step = "reply" => access'[requests'[p].token] # None
               /\ requests'[p].step \in {"verify", "record"} =>
                     /\ requests'[p].gen \in 1..Generation'
                     /\ policies'[requests'[p].gen].allowed
                     /\ requests'[p].scopes \subseteq policies'[requests'[p].gen].scopes
    <3>1. CASE p = r
        BY <1>3, <1>4, <1>5, <1>6, <1>7, <3>1 DEF Minting, FamilyOf
    <3>2. CASE p # r
      <4>1. /\ requests'[p] = requests[p] /\ requests[p] # None
            /\ tokens'[requests[p].token].family = tokens[requests[p].token].family
        BY <1>6, <1>8, <1>9, <2>2, <3>2
      <4>q. QED
        BY <1>4, <4>1 DEF IInv, RequestsOwnTokens, FamilyOf, Generation
    <3>q. QED
        BY <3>1, <3>2
  <2>q. QED
    BY <2>1, <2>2 DEF RequestsOwnTokens, FamilyOf
<1>16. FailedFamiliesAreStuck'
  <2>1. ASSUME NEW u \in Tokens, tokens'[u] # None, ~tokens'[u].consumed,
               tokens'[u].family \in failed
        PROVE  u \notin known
    <3>1. tokens'[t].family = tokens[old].family /\ tokens'[old].consumed
        BY <1>2, <1>5
    <3>2. u # t /\ u # old
        BY <1>10, <2>1, <3>1
    <3>q. QED
        BY <1>5, <2>1, <3>2 DEF IInv, FailedFamiliesAreStuck
  <2>2. ASSUME NEW p \in Requests, requests'[p] # None, requests'[p].step # "revoke"
        PROVE  tokens'[requests'[p].token].family \notin failed
    BY <1>5, <1>6, <1>8, <1>9, <1>10, <2>2 DEF IInv, FailedFamiliesAreStuck
  <2>q. QED
    BY <1>4, <2>1, <2>2 DEF IInv, FailedFamiliesAreStuck
<1>17. ReplaysAreOfConsumed' /\ ReplaysEndGrants'
    BY <1>4, <1>8 DEF IInv, ReplaysAreOfConsumed, ReplaysEndGrants, FamilyOf, FamiliesFrom
<1>18. AccessWithinConsent'
    BY <1>4, <1>8 DEF IInv, AccessWithinConsent, TokensLeaveMinted, FamilyOf, Generation
<1>q. QED
    BY <1>11, <1>12, <1>13, <1>14, <1>15, <1>16, <1>17, <1>18 DEF IInv

-----------------------------------------------------------------------------

\* The empty tables satisfy the invariant.
LEMMA InitEstablishes == Init => IInv
<1> SUFFICES ASSUME Init PROVE IInv
    OBVIOUS
<1>1. PICK p \in Policy : p.allowed /\ policies = <<p>>
    BY DEF Init
<1>2. policies \in Seq(Policy) /\ Generation = 1
    BY <1>1 DEF Generation
<1>3. TypeOK
    BY <1>2 DEF Init, TypeOK
<1>q. QED
    BY <1>3 DEF Init, IInv, FamiliesMatchCodes, OneLivePerFamily, TokensLeaveMinted,
       RequestsOwnTokens, FailedFamiliesAreStuck, ReplaysAreOfConsumed, ReplaysEndGrants,
       AccessWithinConsent

\* Every step keeps the invariant, one case per action of Next.
LEMMA NextPreserves == IInv /\ [Next]_vars => IInv'
<1> SUFFICES ASSUME IInv, [Next]_vars PROVE IInv'
    OBVIOUS
<1>1. CASE \E client \in Clients, scopes \in SUBSET Scopes \ {{}} : CheckConsent(client, scopes)
    BY <1>1, CheckConsentKeeps
<1>2. CASE \E consent \in consents : ConsentLost(consent)
    BY <1>2, ConsentLostKeeps
<1>3. CASE \E consent \in consents, c \in Codes, delivered \in BOOLEAN :
               SaveCode(consent, c, delivered)
    BY <1>3, SaveCodeKeeps
<1>4. CASE RedeemCode
    BY <1>4, RedeemRefusedKeeps, RedeemReplayedKeeps, RedeemGrantedKeeps DEF RedeemCode
<1>5. CASE RotateRefresh
    BY <1>5, RotateReusedKeeps, RotateGrantedKeeps DEF RotateRefresh
<1>6. CASE \E r \in Requests : Mint(r) \/ Verify(r) \/ RecordIssued(r) \/ MintFails(r)
    BY <1>6, MintKeeps, VerifyKeeps, RecordIssuedKeeps, MintFailsKeeps
<1>7. CASE \E r \in Requests : RevokeFamily(r) \/ Reply(r) \/ RequestLost(r)
    BY <1>7, RevokeFamilyKeeps, ReplyKeeps, RequestLostKeeps
<1>8. CASE \E t \in Tokens \cap known, client \in Clients : RevokeRefresh(t, client)
    BY <1>8, RevokeRefreshKeeps
<1>9. CASE RevokeIdentity
    BY <1>9, RevokeIdentityKeeps
<1>10. CASE \E c \in Codes : ExpireCode(c)
    BY <1>10, ExpireCodeKeeps
<1>11. CASE \E t \in Tokens : ExpireToken(t)
    BY <1>11, ExpireTokenKeeps
<1>12. CASE \E policy \in Policy : ChangePolicy(policy)
    BY <1>12, ChangePolicyKeeps
<1>13. CASE UNCHANGED vars
  <2>1. TypeOK'
    BY <1>13 DEF IInv, TypeOK, vars, FamilyOf, Generation
  <2>q. QED
    BY <1>13, <2>1, AsideKeeps DEF vars
<1>q. QED
    BY <1>1, <1>2, <1>3, <1>4, <1>5, <1>6, <1>7, <1>8, <1>9, <1>10, <1>11, <1>12, <1>13 DEF Next

\* IInv is an inductive invariant of the grants.
THEOREM GrantsInvariant == Spec => []IInv
<1>1. Init => IInv
    BY InitEstablishes
<1>2. IInv /\ [Next]_vars => IInv'
    BY NextPreserves
<1>q. QED
    BY <1>1, <1>2, PTL DEF Spec

\* Type correctness: every row of storage/oauth.go names rows that exist.
THEOREM GrantsTypeOK == Spec => []TypeOK
<1>1. IInv => TypeOK
    BY DEF IInv
<1>q. QED
    BY <1>1, GrantsInvariant, PTL

\* RedeemCode and RotateRefresh never leave one consent two usable tokens.
THEOREM OneUsableToken == Spec => []OneLiveToken
<1>1. IInv => OneLiveToken
    BY TypeFacts DEF IInv, OneLiveToken, OneLivePerFamily, FamiliesMatchCodes, FamilyOf
<1>q. QED
    BY <1>1, GrantsInvariant, PTL

\* A replayed code or refresh token ends every grant that descends from it.
THEOREM ReplayEndsGrants == Spec => []ReplaysEndGrants
<1>1. IInv => ReplaysEndGrants
    BY DEF IInv
<1>q. QED
    BY <1>1, GrantsInvariant, PTL

\* refresh and mint never widen a grant beyond the consent or the policy.
THEOREM GrantsNeverWiden == Spec => []AccessWithinConsent
<1>1. IInv => AccessWithinConsent
    BY DEF IInv
<1>q. QED
    BY <1>1, GrantsInvariant, PTL

\* After a failed minting no refresh revives the family, whether or not the
\* RevokeFamily of refresh and redeemCode took effect.
THEOREM FailedGrantsStayDead == Spec => NoRevival
<1>1. ASSUME IInv, [Next]_vars, NEW t \in Tokens, access'[t] # access[t]
      PROVE  tokens[t].family \notin failed
  <2>1. PICK r \in Requests : RecordIssued(r)
    BY <1>1 DEF Next, vars, CheckConsent, ConsentLost, SaveCode, RedeemCode, RedeemRefused,
       RedeemReplayed, RedeemGranted, RotateRefresh, RotateReused, RotateGranted, Rotated, Mint,
       Verify, MintFails, RevokeFamily, Reply, RequestLost, RevokeRefresh, RevokeIdentity,
       ExpireCode, ExpireToken, ChangePolicy
  <2>2. t = requests[r].token /\ requests[r] # None /\ requests[r].step = "record"
    BY <1>1, <2>1 DEF RecordIssued, InStep, IInv, TypeOK
  <2>q. QED
    BY <1>1, <2>2 DEF IInv, FailedFamiliesAreStuck
<1>2. IInv /\ [Next]_vars =>
          [\A t \in Tokens : access'[t] # access[t] => tokens[t].family \notin failed]_vars
    BY <1>1
<1>q. QED
    BY <1>2, GrantsInvariant, PTL DEF Spec, NoRevival

\* A revoked family stays revoked, and no step adds a token to it.
LEMMA RevokedFamilyStep ==
    ASSUME IInv, [Next]_vars, NEW f \in Tokens, families[f] # None, families[f].revoked
    PROVE  /\ families'[f] # None /\ families'[f].revoked
           /\ \A t \in Tokens : tokens[t] = None /\ tokens'[t] # None => tokens'[t].family # f
<1> DEFINE Stays ==
        /\ families'[f] # None /\ families'[f].revoked
        /\ \A t \in Tokens : tokens[t] = None /\ tokens'[t] # None => tokens'[t].family # f
<1>1. ASSUME NEW fs \in SUBSET Tokens, \A g \in fs : families[g] # None,
             families' = Revoke(fs), tokens' = tokens
      PROVE  Stays
    BY <1>1, RevokeEffect DEF IInv
<1>2. ASSUME NEW g \in Tokens, families[g] # None, families' = Revoke({g}), tokens' = tokens
      PROVE  Stays
  <2>1. {g} \in SUBSET Tokens /\ \A h \in {g} : families[h] # None
    BY <1>2
  <2>q. QED
    BY <1>1, <1>2, <2>1
<1>3. CASE families' = families /\ tokens' = tokens
    BY <1>3
<1>4. ASSUME NEW c \in Codes \cap known, RedeemReplayed(c)
      PROVE  Stays
  <2>1. FamiliesFrom(c) \in SUBSET Tokens /\ \A g \in FamiliesFrom(c) : families[g] # None
    BY DEF FamiliesFrom
  <2>q. QED
    BY <1>1, <1>4, <2>1 DEF RedeemReplayed
<1>5. ASSUME NEW r \in Requests, NEW c \in Codes \cap known, NEW client \in Clients,
             NEW t \in Tokens, Fresh(t), RedeemGranted(r, c, client, t)
      PROVE  Stays
  <2>1. t # f
    BY <1>5 DEF IInv, FamiliesMatchCodes, Fresh
  <2>2. families'[f] = families[f]
    BY <1>5, <2>1 DEF RedeemGranted, IInv, TypeOK
  <2>3. tokens'[t].family = t /\ \A u \in Tokens \ {t} : tokens'[u] = tokens[u]
    BY <1>5 DEF RedeemGranted, IInv, TypeOK
  <2>q. QED
    BY <2>1, <2>2, <2>3
<1>6. ASSUME NEW old \in Tokens \cap known, RotateReused(old)
      PROVE  Stays
    BY <1>2, <1>6, TypeFacts DEF RotateReused, FamilyOf, IInv, TypeOK
<1>7. ASSUME NEW r \in Requests, NEW old \in Tokens \cap known, NEW client \in Clients,
             NEW requested \in SUBSET Scopes, NEW t \in Tokens, Fresh(t),
             RotateGranted(r, old, client, requested, t)
      PROVE  Stays
  <2>1. tokens[old].family # f /\ families' = families /\ tokens[old] # None /\ tokens[t] = None
    BY <1>7 DEF RotateGranted, Rotated, FamilyOf, IInv, TypeOK, Fresh
  <2>2. /\ tokens'[t].family = tokens[old].family
        /\ \A u \in Tokens \ {t, old} : tokens'[u] = tokens[u]
    BY <1>7 DEF RotateGranted, Rotated, IInv, TypeOK
  <2>q. QED
    BY <2>1, <2>2
<1>8. ASSUME NEW r \in Requests, RevokeFamily(r)
      PROVE  Stays
    BY <1>2, <1>8, TypeFacts DEF RevokeFamily, InStep, FamilyOf, IInv
<1>9. ASSUME NEW t \in Tokens \cap known, NEW client \in Clients, RevokeRefresh(t, client)
      PROVE  Stays
    BY <1>2, <1>9, TypeFacts DEF RevokeRefresh, FamilyOf, IInv, TypeOK
<1>10. ASSUME NEW t \in Tokens, ExpireToken(t)
       PROVE  Stays
  <2>1. families' = families /\ tokens[t] # None
        /\ \A u \in Tokens \ {t} : tokens'[u] = tokens[u]
    BY <1>10 DEF ExpireToken, IInv, TypeOK
  <2>q. QED
    BY <2>1
<1>11. CASE RedeemCode
  <2>1. ASSUME NEW c \in Codes \cap known, NEW client \in Clients, NEW matches \in BOOLEAN,
               RedeemRefused(c, client, matches)
        PROVE  Stays
    BY <1>3, <2>1 DEF RedeemRefused
  <2>q. QED
    BY <1>4, <1>5, <1>11, <2>1 DEF RedeemCode
<1>12. CASE RotateRefresh
    BY <1>6, <1>7, <1>12 DEF RotateRefresh
<1>q. QED
    BY <1>3, <1>8, <1>9, <1>10, <1>11, <1>12 DEF Next, vars, CheckConsent, ConsentLost, SaveCode,
       Mint, Verify, RecordIssued, MintFails, Reply, RequestLost, RevokeIdentity, ExpireCode,
       ChangePolicy

\* What RedeemCode, RotateRefresh, handleRevoke and RevokeFamily revoked stays
\* revoked; a revoked identity stays revoked and RecordIssued refuses it.
THEOREM RevocationIsFinal == Spec => DeadGrantsStayDead
<1>1. ASSUME IInv, [Next]_vars, identity = "revoked"
      PROVE  identity' = "revoked" /\ access' = access
    BY <1>1 DEF Next, vars, CheckConsent, ConsentLost, SaveCode, RedeemCode, RedeemRefused,
       RedeemReplayed, RedeemGranted, RotateRefresh, RotateReused, RotateGranted, Rotated, Mint,
       Verify, RecordIssued, MintFails, RevokeFamily, Reply, RequestLost, RevokeRefresh,
       RevokeIdentity, ExpireCode, ExpireToken, ChangePolicy
<1>2. IInv /\ [Next]_vars =>
        [/\ \A f \in Tokens : families[f] # None /\ families[f].revoked =>
              /\ families'[f] # None /\ families'[f].revoked
              /\ \A t \in Tokens : tokens[t] = None /\ tokens'[t] # None => tokens'[t].family # f
         /\ identity = "revoked" => identity' = "revoked" /\ access' = access]_vars
    BY <1>1, RevokedFamilyStep
<1>q. QED
    BY <1>2, GrantsInvariant, PTL DEF Spec, DeadGrantsStayDead

\* Both endings of a grant at once: revocation, and a mint that failed after
\* the rotation.
THEOREM EndingIsFinal == Spec => EndedGrantsStayEnded
<1> QED BY RevocationIsFinal, FailedGrantsStayDead, PTL DEF EndedGrantsStayEnded

=============================================================================
