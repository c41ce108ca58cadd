------------------------ MODULE IssuerQualification ------------------------
(***************************************************************************)
(* Qualification of a delegated issuer (oauth/delegated.go): the prober    *)
(* drives an authorization server through the checklist, probe by probe,   *)
(* and SelectIssuer turns the rows into one accepted issuer.  The server   *)
(* under test is external: a conforming one with a set of faults, each a   *)
(* request it answers otherwise than the checklist asks.                   *)
(***************************************************************************)
EXTENDS Naturals, Sequences, FiniteSets

CONSTANTS FaultSets,   \* what the issuers under test do wrong, by issuer
          CutSets,     \* the ones of them whose connection may fail
          MaxCuts      \* how many probes a failing connection may cut off

VARIABLES faults,      \* what the issuer under test does wrong
          as,          \* its state, and its last response (as.r)
          probe,       \* the prober: the row and the probe it is at, what failed
          choice       \* the deployment's decision

qualifyVars == <<faults, as, probe, choice>>

\* The fault and the checklist row that asks about it.
FaultRow ==
  [noMetadata |-> "discovery", otherIssuer |-> "discovery", plainEndpoint |-> "discovery",
   deadRevocation |-> "discovery", plainAdvertised |-> "discovery", noRefreshGrant |-> "discovery",
   resourceOmitted |-> "discovery",
   plainRedirect |-> "registration", dropsUnknownScope |-> "registration", narrowsScope |-> "registration",
   plainChallenge |-> "code", noChallenge |-> "code", codeOnDenial |-> "code", anyVerifier |-> "code",
   anyRedirect |-> "code", anyClient |-> "code", codeReuse |-> "code", cacheable |-> "code",
   noRotation |-> "refresh", widens |-> "refresh", replaysReused |-> "refresh",
   familySurvives |-> "refresh", ignoresConsent |-> "refresh", consentReturns |-> "refresh",
   challengeElsewhere |-> "prm", noPRM |-> "prm", prmOtherIssuer |-> "prm",
   anyResource |-> "audience", anyAudience |-> "audience", redeemsElsewhere |-> "audience",
   refreshesElsewhere |-> "audience"]
Faults == DOMAIN FaultRow
Has(f) == f \in faults

ASSUME QualifyAssumption == FaultSets \subseteq SUBSET Faults

-----------------------------------------------------------------------------
(* The issuer.  A request maps its state to the next one, the response in  *)
(* r; a request after a failed one is not made.                            *)

NoResponse == [ok |-> TRUE, why |-> "none", id |-> 0, gen |-> 0, aud |-> "none", client |-> 0]
Fresh(s) == [s EXCEPT !.r = [NoResponse EXCEPT !.ok = ~Has("noMetadata"), !.why = "no_endpoint"]]
Refuse(s, why) == [s EXCEPT !.r = [NoResponse EXCEPT !.ok = FALSE, !.why = why]]

\* What is wrong with a request, or "none".
RegisterError(https, scope) ==
  IF ~https /\ ~Has("plainRedirect") THEN "invalid_redirect_uri"
  ELSE IF scope = "unknown" /\ ~Has("dropsUnknownScope") THEN "invalid_client_metadata" ELSE "none"

Register(s, https, scope) ==
  IF ~s.r.ok THEN s
  ELSE IF RegisterError(https, scope) # "none" THEN Refuse(s, RegisterError(https, scope))
  ELSE [s EXCEPT !.clients = Append(@, scope), !.r = [NoResponse EXCEPT !.client = Len(s.clients) + 1]]

AuthorizeError(s, client, resource, scope, method, approve) ==
  IF resource = "unlisted" /\ ~Has("anyResource") THEN "invalid_target"
  ELSE IF scope = "excess" /\ s.clients[client] = "narrow" /\ ~Has("narrowsScope") THEN "invalid_scope"
  ELSE IF \/ method = "plain" /\ ~Has("plainChallenge")
          \/ method = "none" /\ ~Has("noChallenge") THEN "invalid_request"
  ELSE IF (~approve /\ ~Has("codeOnDenial")) \/ ~s.consent THEN "access_denied" ELSE "none"

Authorize(s, client, resource, scope, method, approve) ==
  LET why == AuthorizeError(s, client, resource, scope, method, approve)
  IN IF ~s.r.ok THEN s
     ELSE IF why # "none" THEN Refuse(s, why)
     ELSE [s EXCEPT !.codes = Append(@, [client |-> client, resource |-> resource, used |-> FALSE]),
                    !.r = [NoResponse EXCEPT !.id = Len(s.codes) + 1, !.client = client]]

Tokens(s, fam, gen, aud) ==
  [s EXCEPT !.r = [NoResponse EXCEPT !.ok = ~Has("cacheable"), !.why = "cacheable", !.id = fam,
                                     !.gen = gen, !.aud = aud, !.client = s.fams[fam].client]]

ExchangeError(s, client, code, redirect, verifies, resource) ==
  LET c == s.codes[code]
  IN IF \/ c.used /\ ~Has("codeReuse")
        \/ client # c.client /\ ~Has("anyClient")
        \/ redirect = "alt" /\ ~Has("anyRedirect")
        \/ ~verifies /\ ~Has("anyVerifier") THEN "invalid_grant"
     ELSE IF resource \notin {"none", c.resource} /\ ~Has("redeemsElsewhere") THEN "invalid_target"
     ELSE IF ~s.consent THEN "invalid_grant" ELSE "none"

Exchange(s, client, code, redirect, verifies, resource) ==
  LET why == ExchangeError(s, client, code, redirect, verifies, resource)
      c == s.codes[code]
  IN IF ~s.r.ok THEN s
     ELSE IF why # "none" THEN Refuse(s, why)
     ELSE Tokens([s EXCEPT !.codes[code].used = TRUE,
                           !.fams = Append(@, [client |-> client, resource |-> c.resource, gen |-> 1, dead |-> FALSE])],
                 Len(s.fams) + 1, 1, c.resource)

RefreshError(s, client, fam, gen, scope, resource) ==
  LET f == s.fams[fam]
  IN IF \/ f.dead \/ client # f.client
        \/ ~s.consent /\ ~Has("ignoresConsent")
        \/ gen # f.gen /\ ~Has("replaysReused") THEN "invalid_grant"
     ELSE IF scope = "excess" /\ ~Has("widens") THEN "invalid_scope"
     ELSE IF resource \notin {"none", f.resource} /\ ~Has("refreshesElsewhere") THEN "invalid_target" ELSE "none"

\* A reused refresh token and withdrawn consent end the family.
Ends(s, fam, gen) ==
  \/ gen # s.fams[fam].gen /\ ~Has("familySurvives") /\ ~Has("replaysReused")
  \/ ~s.consent /\ ~Has("consentReturns") /\ ~Has("ignoresConsent")

Refresh(s, client, fam, gen, scope, resource) ==
  LET why == RefreshError(s, client, fam, gen, scope, resource)
      next == IF Has("noRotation") THEN gen ELSE s.fams[fam].gen + 1
  IN IF ~s.r.ok THEN s
     ELSE IF why # "none" THEN Refuse([s EXCEPT !.fams[fam].dead = @ \/ Ends(s, fam, gen)], why)
     ELSE Tokens([s EXCEPT !.fams[fam].gen = next], fam, next, s.fams[fam].resource)

\* The two resource servers: the answer to a token bound to aud.
Accepts(resource, aud) == resource = aud \/ Has("anyAudience")

-----------------------------------------------------------------------------
(* The prober's own steps. *)

Client(s, scope) == Register(s, TRUE, scope)
CodeFor(s, resource) == Authorize(s, s.r.client, resource, "narrow", "S256", TRUE)
Grant(s, resource) ==
  LET c == CodeFor(Client(Fresh(s), "default"), resource)
  IN Exchange(c, c.r.client, c.r.id, "main", TRUE, "none")

\* Mutant of Refused: a step that failed before counts as the refusal.
RefusedSomewhere(before, after, codes) == ~after.r.ok

\* expectRejected: the request itself was made, and refused for one of codes.
Refused(before, after, codes) == before.r.ok /\ ~after.r.ok /\ after.r.why \in codes

Outcome(s, ok) == [s |-> s, ok |-> ok, mem |-> probe.mem]
Remember(s, ok, m) == [s |-> s, ok |-> ok, mem |-> m]

Rows == <<"discovery", "registration", "code", "refresh", "prm", "audience">>
Checklist ==
  [discovery |-> <<"metadata-served", "issuer-matches", "endpoints-https", "endpoints-live",
                   "pkce-s256-only", "code-and-refresh-grants", "resource-advertised">>,
   registration |-> <<"https-redirect-registered", "http-redirect-rejected",
                      "unknown-scope-rejected", "excess-scope-rejected">>,
   code |-> <<"client-registered", "pkce-plain-rejected", "pkce-challenge-required", "denial-issues-no-grant",
              "wrong-verifier-rejected", "redirect-mismatch-rejected", "stolen-code-rejected", "code-single-use">>,
   refresh |-> <<"grant-issued", "refresh-rotates", "refresh-rejects-widening", "reused-refresh-rejected",
                 "reuse-revokes-family", "revoked-consent-rejected">>,
   prm |-> <<"challenge-points-to-prm", "prm-document", "as-discoverable-from-prm">>,
   audience |-> <<"unknown-resource-rejected", "token-accepted", "token-rejected-elsewhere",
                  "other-token-rejected-here", "redemption-resource-bound", "refresh-resource-bound">>]
\* The rows whose first probe failing ends them.
Leading == {"discovery", "code", "refresh"}

Discovery(s, p) ==
  Outcome(s, CASE p = "metadata-served" -> ~Has("noMetadata")
               [] p = "issuer-matches" -> ~Has("otherIssuer")
               [] p = "endpoints-https" -> ~Has("plainEndpoint")
               [] p = "endpoints-live" -> ~Has("deadRevocation")
               [] p = "pkce-s256-only" -> ~Has("plainAdvertised")
               [] p = "code-and-refresh-grants" -> ~Has("noRefreshGrant")
               [] p = "resource-advertised" -> ~Has("resourceOmitted"))

Registration(s, p) ==
  LET f == Fresh(s)
      insecure == Register(f, FALSE, "default")
      unknown == Register(f, TRUE, "unknown")
      narrow == Client(f, "narrow")
      excess == Authorize(narrow, narrow.r.client, "here", "excess", "S256", TRUE)
  IN CASE p = "https-redirect-registered" -> LET c == Client(f, "default") IN Outcome(c, c.r.ok)
       [] p = "http-redirect-rejected" ->
            Outcome(insecure, Refused(f, insecure, {"invalid_redirect_uri", "invalid_client_metadata"}))
       [] p = "unknown-scope-rejected" ->
            Outcome(unknown, Refused(f, unknown, {"invalid_client_metadata", "invalid_scope"}))
       [] p = "excess-scope-rejected" -> Outcome(excess, Refused(narrow, excess, {"invalid_scope"}))

AuthorizationCode(s, p) ==
  LET me == [Fresh(s) EXCEPT !.r.client = probe.mem.client]
      ask(method, approve) == Authorize(me, me.r.client, "here", "narrow", method, approve)
      c == CodeFor(me, "here")
      redeem(from, client, redirect, verifies) == Exchange(from, client, c.r.id, redirect, verifies, "none")
      negative(x) == Outcome(x, Refused(c, x, {"invalid_grant"}))
      thief == Client(c, "default")
      first == redeem(c, c.r.client, "main", TRUE)
      again == redeem(first, c.r.client, "main", TRUE)
  IN CASE p = "client-registered" ->
            LET n == Client(Fresh(s), "default") IN Remember(n, n.r.ok, [probe.mem EXCEPT !.client = n.r.client])
       [] p = "pkce-plain-rejected" -> Outcome(ask("plain", TRUE), me.r.ok /\ ~ask("plain", TRUE).r.ok)
       [] p = "pkce-challenge-required" -> Outcome(ask("none", TRUE), me.r.ok /\ ~ask("none", TRUE).r.ok)
       [] p = "denial-issues-no-grant" ->
            Outcome(ask("S256", FALSE), Refused(me, ask("S256", FALSE), {"access_denied"}))
       [] p = "wrong-verifier-rejected" -> negative(redeem(c, c.r.client, "main", FALSE))
       [] p = "redirect-mismatch-rejected" -> negative(redeem(c, c.r.client, "alt", TRUE))
       [] p = "stolen-code-rejected" -> negative(redeem(thief, thief.r.client, "main", TRUE))
       [] p = "code-single-use" -> Outcome(again, Refused(first, again, {"invalid_grant"}))

\* The first family: rotated, its first token presented again, and then the
\* second one.  Widening and withdrawn consent have a grant of their own.
RefreshGrants(s, p) ==
  LET f == Fresh(s)
      g == probe.mem.grant
      w == Grant(s, "here")
      rotated == Refresh(f, g.client, g.id, g.gen, "none", "none")
      rotates == rotated.r.ok /\ rotated.r.gen # g.gen
      wide == Refresh(w, w.r.client, w.r.id, w.r.gen, "excess", "none")
      reused == Refresh(f, g.client, g.id, g.gen, "none", "none")
      after == Refresh(f, g.client, g.id, probe.mem.next, "none", "none")
      off == Refresh([w EXCEPT !.consent = FALSE], w.r.client, w.r.id, w.r.gen, "none", "none")
      restored == [off EXCEPT !.consent = TRUE, !.r = Fresh(off).r]
      back == Refresh(restored, w.r.client, w.r.id, w.r.gen, "none", "none")
  IN CASE p = "grant-issued" -> Remember(w, w.r.ok, [probe.mem EXCEPT !.grant = w.r, !.next = 0])
       [] p = "refresh-rotates" ->
            Remember(rotated, rotates /\ Accepts("here", rotated.r.aud) /\ ~Accepts("other", rotated.r.aud),
                     [probe.mem EXCEPT !.next = IF rotates THEN rotated.r.gen ELSE 0])
       [] p = "refresh-rejects-widening" -> Outcome(wide, Refused(w, wide, {"invalid_scope", "invalid_grant"}))
       [] p = "reused-refresh-rejected" -> Outcome(reused, Refused(f, reused, {"invalid_grant"}))
       [] p = "reuse-revokes-family" ->
            IF probe.mem.next = 0 THEN Outcome(s, FALSE) ELSE Outcome(after, Refused(f, after, {"invalid_grant"}))
       [] p = "revoked-consent-rejected" ->
            IF ~w.r.ok THEN Outcome(w, FALSE)
            ELSE IF ~Refused(w, off, {"invalid_grant"}) THEN Outcome(restored, FALSE)
            ELSE Outcome(back, Refused(restored, back, {"invalid_grant"}))

\* The protected resource's own documents; the last probe reads the issuer
\* out of the document that the one before it fetched.
ProtectedResource(s, p) ==
  LET document == ~Has("noPRM") /\ ~Has("prmOtherIssuer")
  IN CASE p = "challenge-points-to-prm" -> Outcome(s, ~Has("challengeElsewhere"))
       [] p = "prm-document" -> Remember(s, document, [probe.mem EXCEPT !.named = document])
       [] p = "as-discoverable-from-prm" -> Outcome(s, probe.mem.named /\ ~Has("noMetadata") /\ ~Has("otherIssuer"))

ResourceAudience(s, p) ==
  LET f == Fresh(s)
      c == Client(f, "default")
      lost == Authorize(c, c.r.client, "unlisted", "narrow", "S256", TRUE)
      a == probe.mem.grant
      mine == Grant(s, "here")
      theirs == Grant(s, "other")
      code == CodeFor(c, "here")
      elsewhere == Exchange(code, code.r.client, code.r.id, "main", TRUE, "other")
      moved == Refresh(f, a.client, a.id, a.gen, "none", "other")
      b == Grant(moved, "here")
      kept == Refresh(b, b.r.client, b.r.id, b.r.gen, "none", "none")
  IN CASE p = "unknown-resource-rejected" -> Outcome(lost, c.r.ok /\ ~lost.r.ok)
       [] p = "token-accepted" ->
            Remember(mine, mine.r.ok /\ Accepts("here", mine.r.aud), [probe.mem EXCEPT !.grant = mine.r])
       [] p = "token-rejected-elsewhere" -> Outcome(s, a.ok /\ ~Accepts("other", a.aud))
       [] p = "other-token-rejected-here" ->
            Outcome(theirs, theirs.r.ok /\ Accepts("other", theirs.r.aud) /\ ~Accepts("here", theirs.r.aud))
       [] p = "redemption-resource-bound" ->
            Outcome(elsewhere, Refused(code, elsewhere, {"invalid_target", "invalid_grant"}))
       [] p = "refresh-resource-bound" ->
            IF ~a.ok THEN Outcome(s, FALSE)
            ELSE IF ~Refused(f, moved, {"invalid_target", "invalid_grant"}) THEN Outcome(moved, FALSE)
            ELSE Outcome(kept, kept.r.ok /\ Accepts("here", kept.r.aud) /\ ~Accepts("other", kept.r.aud))

Probe(s, row, p) ==
  CASE row = "discovery" -> Discovery(s, p)
    [] row = "registration" -> Registration(s, p)
    [] row = "code" -> AuthorizationCode(s, p)
    [] row = "refresh" -> RefreshGrants(s, p)
    [] row = "prm" -> ProtectedResource(s, p)
    [] row = "audience" -> ResourceAudience(s, p)

-----------------------------------------------------------------------------
(* Qualify, and the decision. *)

Untold == [strategy |-> "none", failing |-> {}, made |-> FALSE]

NoIssuer == [clients |-> <<>>, codes |-> <<>>, fams |-> <<>>, consent |-> TRUE, r |-> NoResponse]
NoProbe == [pc |-> "probing", row |-> 1, at |-> 1, failed |-> {}, cuts |-> 0,
            mem |-> [client |-> 0, grant |-> [NoResponse EXCEPT !.ok = FALSE], next |-> 0, named |-> FALSE]]

QualifyInit ==
  /\ faults \in FaultSets
  /\ as = NoIssuer /\ probe = NoProbe /\ choice = Untold

Row == Rows[probe.row]
Step == Checklist[Row][probe.at]

Advance(ok, mem, cuts) ==
  LET over == (probe.at = Len(Checklist[Row])) \/ (~ok /\ probe.at = 1 /\ Row \in Leading)
  IN probe' = [probe EXCEPT !.failed = IF ok THEN @ ELSE @ \cup {Row},
                            !.mem = mem, !.cuts = cuts,
                            !.at = IF over THEN 1 ELSE @ + 1,
                            !.row = IF over /\ probe.row < Len(Rows) THEN @ + 1 ELSE @,
                            !.pc = IF over /\ probe.row = Len(Rows) THEN "probed" ELSE @]

RunProbe ==
  /\ probe.pc = "probing"
  /\ LET o == Probe(as, Row, Step)
     IN as' = o.s /\ Advance(o.ok, o.mem, probe.cuts)
  /\ UNCHANGED <<faults, choice>>

\* The connection fails within a probe: it did nothing at the issuer, or
\* all it does, or it could not give the test user its consent back.
CutProbe ==
  /\ probe.pc = "probing" /\ probe.cuts < MaxCuts /\ faults \in CutSets
  /\ \/ as' = as
     \/ as' = Probe(as, Row, Step).s
     \/ Step = "revoked-consent-rejected" /\ as' = [Probe(as, Row, Step).s EXCEPT !.consent = FALSE]
  /\ LET forgets == CASE Step \in {"grant-issued", "token-accepted"} -> [probe.mem EXCEPT !.grant.ok = FALSE]
                      [] OTHER -> probe.mem
     IN Advance(FALSE, forgets, probe.cuts + 1)
  /\ UNCHANGED <<faults, choice>>

\* failing and finish: the rows of the checklist that did not pass, where a
\* qualification that never ran has none that did.
AllRows == {Rows[i]: i \in 1..Len(Rows)}
Passed(q) == q.failing = {}
Status(q) == IF Passed(q) THEN "qualified" ELSE IF q.pending THEN "pending" ELSE "rejected"
Qualification(strategy, issuer, failing, pending) ==
  [strategy |-> strategy, issuer |-> issuer, failing |-> failing, pending |-> pending]
Probed == Qualification("delegated", "external", probe.failed, FALSE)
PendingQualification == Qualification("delegated", "external", AllRows, TRUE)

\* What a deployment may put before SelectIssuer.
Externals == {<<>>, <<Probed>>, <<PendingQualification>>, <<[Probed EXCEPT !.issuer = "another"]>>}
Receipts == {"accepted", "missing", "skipped"}

SelectIssuer(builtIn, issuer, allowed, receipts, external) ==
  LET rows == IF external = <<>> THEN AllRows
              ELSE IF external[1].issuer # issuer \/ external[1].strategy # "delegated" THEN AllRows
              ELSE external[1].failing
  IN IF ~Passed(builtIn) THEN [strategy |-> "error", failing |-> {}, issuer |-> "none"]
     ELSE IF issuer # "none" /\ allowed /\ receipts = "accepted" /\ rows = {}
     THEN [strategy |-> "delegated", failing |-> {}, issuer |-> issuer]
     ELSE [strategy |-> "built-in", issuer |-> builtIn.issuer,
           failing |-> IF issuer = "none" THEN {} ELSE rows]

\* DeploymentRecord.Validate.
Validates(d) ==
  LET builtIn == {q \in d.quals: q.strategy = "built-in"}
      delegated == {q \in d.quals: q.strategy = "delegated"}
  IN /\ Cardinality(delegated) <= 1
     /\ builtIn # {} /\ \A q \in builtIn: Passed(q)
     /\ CASE d.sel.strategy = "built-in" -> \A q \in builtIn: d.sel.issuer = q.issuer
          [] d.sel.strategy = "delegated" -> \E q \in delegated: Passed(q) /\ q.issuer = d.sel.issuer
          [] OTHER -> FALSE

Select ==
  /\ probe.pc = "probed"
  /\ \E own \in {{}, {"discovery"}}, issuer \in {"none", "external"}, allowed \in BOOLEAN,
        receipts \in Receipts, external \in Externals:
       LET builtIn == Qualification("built-in", "self", own, FALSE)
           sel == SelectIssuer(builtIn, issuer, allowed, receipts, external)
       IN choice' = [made |-> TRUE, strategy |-> sel.strategy, failing |-> sel.failing,
                     sel |-> sel, allowed |-> allowed, receipts |-> receipts, own |-> own,
                     quals |-> {builtIn} \cup {external[i]: i \in 1..Len(external)}]
  /\ probe' = [probe EXCEPT !.pc = "decided"]
  /\ UNCHANGED <<faults, as>>

QualifyNext == RunProbe \/ CutProbe \/ Select

QualifySpec == QualifyInit /\ [][QualifyNext]_qualifyVars

-----------------------------------------------------------------------------

\* Every fault of an issuer, alone or hidden behind another, fails the row
\* of the checklist that asks about it; a conforming issuer fails none
\* unless its connection did; delegation is selected only for an issuer
\* without faults that the deployment lists and has receipts for, and what
\* is selected validates as a deployment record (Qualify, SelectIssuer,
\* DeploymentRecord.Validate).
QualifiedIssuersComply ==
  /\ probe.pc # "probing" =>
       /\ {FaultRow[f]: f \in faults} \subseteq probe.failed
       /\ faults = {} /\ probe.cuts = 0 => Status(Probed) = "qualified"
  /\ choice.made =>
       /\ choice.strategy = "delegated" =>
            faults = {} /\ choice.allowed /\ choice.receipts = "accepted" /\ choice.own = {}
       /\ choice.strategy # "error" => Validates(choice)
       /\ choice.strategy = "error" <=> choice.own # {}

=============================================================================
