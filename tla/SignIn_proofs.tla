--------------------------- MODULE SignIn_proofs ---------------------------
(***************************************************************************)
(* Proofs about SignIn, for any number of sessions and of requests at      *)
(* once.  "Fine" says what a request under way may rely on whatever has    *)
(* happened since it was checked; a revocation leaves it true because it   *)
(* makes every other request "late".                                       *)
(***************************************************************************)
EXTENDS SignIn, FiniteSetTheorems, TLAPS

Requests == Request \cup {NoRequest}
Granted == {"fresh", "late"}

Fine(q) ==
  /\ q.op = "bootstrap" /\ q.at = "counted" => members = 0
  /\ members = 0 => q = NoRequest \/ (q.op = "bootstrap" /\ q.at = "counted")
  /\ q.op \in {"login", "complete"} => q.since \in Granted
  /\ q.op \in {"login", "complete"} /\ q.since = "fresh" => passwordLoginAvailable
  /\ q.op = "callback" /\ q.at = "issue" /\ q.since = "fresh" => q.provider \in bound
  /\ q.op = "complete" /\ q.at = "redeemed" => challenge.uses = 1 /\ challenge.tries = 0
  /\ ~crossed /\ q.op = "close" /\ q.at = "proved" => bound # {}
  /\ ~crossed /\ q.op = "unbind" /\ q.at = "proved" => password \/ bound \ {q.provider} # {}
  /\ q.at = "issue" => q.since \in Granted /\ q.by # "none"
  /\ q.at = "proved" => q.since \in Granted /\ q.by # "none"
  /\ q.by = "password" => q.since \in Granted /\ (totp => q.since = "late")

\* The lock of a bootstrap and the one use of a challenge each admit one request at a time.
Alone ==
  \A s, t \in Slots : s # t =>
    /\ ~(Is(s, "bootstrap", "counted") /\ Is(t, "bootstrap", "counted"))
    /\ ~(Is(s, "complete", "redeemed") /\ Is(t, "complete", "redeemed"))

\* Before there is an Administrator there is nothing else.
Nobody ==
  members = 0 =>
    /\ sessions = {} /\ bound = {} /\ ~totp
    /\ challenge = NoChallenge /\ transaction = NoTransaction

\* A session that a password alone could give while TOTP is required.
Plain(x) == x.by = "password" /\ x.since # "late"
OnePlain == totp => \A x, y \in sessions : Plain(x) /\ Plain(y) => x = y

Tried == challenge.tries <= challenge.uses /\ challenge.uses <= 1

Current == SessionsAreCurrent /\ GrantsAreCurrent

SignInInv ==
  /\ SignInTypeOK
  /\ \A s \in Slots : Fine(request[s])
  /\ Alone
  /\ OneAdministrator
  /\ Nobody
  /\ ClosedPasswordHasBinding
  /\ Current
  /\ OnePlain
  /\ Tried

-----------------------------------------------------------------------------
(* Records and the sets of sessions a revocation leaves.                   *)

LEMMA RequestFields ==
  ASSUME NEW q \in Requests
  PROVE  /\ q.op \in {"bootstrap", "login", "complete", "renew", "stepup", "change", "disable",
                      "close", "open", "unbind", "callback", "bind", "none"}
         /\ q.at \in {"counted", "checked", "asked", "redeemed", "proved", "exchanged", "issue",
                      "idle"}
         /\ q.id \in 0 .. MaxSessions
         /\ q.provider \in Providers \cup {NoProvider}
         /\ q.by \in {"password", "factor", "external", "none"}
         /\ q.since \in {"none", "fresh", "late"}
         /\ (q.op = "none") <=> (q = NoRequest)
         /\ q = [op |-> q.op, at |-> q.at, id |-> q.id, provider |-> q.provider, by |-> q.by,
                 since |-> q.since]
<1>1. 0 \in 0 .. MaxSessions
  BY SignInAssumption
<1>2. CASE q = NoRequest
  BY <1>1, <1>2 DEF NoRequest
<1>3. CASE q \in Request
  BY <1>3 DEF Request, NoRequest
<1> QED
  BY <1>2, <1>3 DEF Requests

LEMMA IssueIs ==
  ASSUME NEW q \in Requests, q # NoRequest,
         NEW by, by \in {"password", "factor", "external"}
  PROVE  /\ Issue(q, by) \in Request
         /\ Issue(q, by).op = q.op /\ Issue(q, by).at = "issue"
         /\ Issue(q, by).provider = q.provider /\ Issue(q, by).by = by
         /\ Issue(q, by).since = IF q.since = "none" THEN "fresh" ELSE q.since
<1>1. q \in Request /\ 0 \in 0 .. MaxSessions
  BY SignInAssumption DEF Requests
<1> QED
  BY <1>1 DEF Issue, Request

LEMMA SessionFields ==
  ASSUME SignInTypeOK, NEW x \in sessions
  PROVE  /\ x \in Session
         /\ x = [id |-> x.id, by |-> x.by, since |-> x.since, grant |-> x.grant]
         /\ [x EXCEPT !.grant = "none"]
              = [id |-> x.id, by |-> x.by, since |-> x.since, grant |-> "none"]
         /\ [id |-> x.id, by |-> x.by, since |-> x.since, grant |-> "none"] \in Session
  BY DEF SignInTypeOK, Session

\* A session without its grant.
Bare(x) == [id |-> x.id, by |-> x.by, since |-> x.since, grant |-> "none"]

\* What was bare and is the session that is kept does not change when it outlives.
LEMMA BareOutlives ==
  ASSUME NEW ss, NEW id, \A y \in ss : y.id = id /\ y.grant = "none" /\ y \in Session
  PROVE  Outlived(ss, id) = ss
<1> DEFINE outlived(y) == [y EXCEPT !.since = IF y.id = id THEN @ ELSE "stale",
                                    !.grant = IF @ = "none" THEN @ ELSE "stale"]
<1>1. ASSUME NEW y \in ss
      PROVE  outlived(y) = y
  <2>1. y \in Session /\ y.id = id /\ y.grant = "none"
    BY <1>1
  <2>2. y = [id |-> y.id, by |-> y.by, since |-> y.since, grant |-> y.grant]
    BY <2>1 DEF Session
  <2>3. outlived(y) = [y EXCEPT !.since = y.since, !.grant = y.grant]
    BY <2>1
  <2>4. [y EXCEPT !.since = y.since, !.grant = y.grant]
          = [id |-> y.id, by |-> y.by, since |-> y.since, grant |-> y.grant]
    BY <2>2
  <2> QED
    BY <2>2, <2>3, <2>4
<1>2. Outlived(ss, id) = {outlived(y) : y \in ss}
  BY DEF Outlived
<1> HIDE DEF outlived
<1> QED
  BY <1>1, <1>2

LEMMA KeptIs ==
  ASSUME SignInTypeOK, NEW id
  PROVE  /\ Outlived(DeleteOtherMemberSessions(DeleteMemberStepUpGrants(sessions), id), id)
              = {Bare(x) : x \in {z \in sessions : z.id = id}}
         /\ Outlived(DeleteMemberStepUpGrants(DeleteOtherMemberSessions(sessions, id)), id)
              = {Bare(x) : x \in {z \in sessions : z.id = id}}
<1> DEFINE kept == {Bare(x) : x \in {z \in sessions : z.id = id}}
<1>1. \A x \in sessions : [x EXCEPT !.grant = "none"] = Bare(x) /\ Bare(x).id = x.id
                          /\ Bare(x).grant = "none" /\ Bare(x) \in Session
  BY SessionFields DEF Bare
<1>2. DeleteOtherMemberSessions(DeleteMemberStepUpGrants(sessions), id) = kept
  <2>1. DeleteMemberStepUpGrants(sessions) = {Bare(x) : x \in sessions}
    BY <1>1 DEF DeleteMemberStepUpGrants
  <2> QED
    BY <1>1, <2>1 DEF DeleteOtherMemberSessions
<1>3. DeleteMemberStepUpGrants(DeleteOtherMemberSessions(sessions, id)) = kept
  BY <1>1 DEF DeleteMemberStepUpGrants, DeleteOtherMemberSessions
<1>4. \A y \in kept : y.id = id /\ y.grant = "none" /\ y \in Session
  BY <1>1
<1> HIDE DEF kept
<1>5. Outlived(kept, id) = kept
  BY <1>4, BareOutlives
<1> QED
  BY <1>2, <1>3, <1>5 DEF kept

\* The sessions that a revocation leaves are one at most, and as current as it was.
LEMMA KeptFine ==
  ASSUME SignInTypeOK, Current, NEW id,
         sessions' = {Bare(x) : x \in {z \in sessions : z.id = id}}
  PROVE  /\ sessions' \subseteq Session
         /\ \A x, y \in sessions' : x = y
         /\ \A x \in sessions' : x.since # "stale" /\ x.grant # "stale"
         /\ sessions = {} => sessions' = {}
<1>1. \A x \in sessions : Bare(x) \in Session /\ Bare(x).since = x.since /\ Bare(x).grant = "none"
  BY SessionFields DEF Bare
<1>2. \A x, y \in sessions : x.id = y.id => x = y
  BY DEF SignInTypeOK
<1> QED
  BY <1>1, <1>2 DEF Current, SessionsAreCurrent

-----------------------------------------------------------------------------
(* Steps of a shape.                                                       *)

\* What a step that touches sessions has to leave.
SessionsFine ==
  /\ sessions \subseteq Session
  /\ \A x, y \in sessions : x.id = y.id => x = y
  /\ Current
  /\ OnePlain
  /\ members = 0 => sessions = {}

\* What a step that touches the transaction has to leave.
TransactionFine ==
  transaction = NoTransaction \/ (transaction \in Transaction /\ members # 0)

LEMMA SessionsAreFine ==
  ASSUME SignInInv
  PROVE  SessionsFine /\ TransactionFine
  BY DEF SignInInv, SessionsFine, TransactionFine, SignInTypeOK, Nobody

LEMMA AloneKept ==
  ASSUME SignInInv,
         \A t \in Slots : request'[t] = request[t] \/ request'[t].at \notin {"counted", "redeemed"}
  PROVE  Alone'
  BY DEF SignInInv, Alone, Is

\* A step that changes neither the policies nor the challenge: what is fine before it is fine
\* after it.
LEMMA QuietStep ==
  ASSUME SignInInv,
         UNCHANGED <<members, codes, totp, password, bound, ready, challenge, crossed>>,
         TransactionFine',
         SessionsFine',
         request' \in [Slots -> Requests],
         \A t \in Slots : Fine(request'[t]),
         Alone'
  PROVE  SignInInv'
<1>1. \A t \in Slots : Fine(request[t])'
  BY DEF Fine, passwordLoginAvailable, externalLoginAvailable, ExternalIdentityBinding,
         OAuthIdentityBinding
<1>2. SignInTypeOK'
  BY DEF SignInInv, SignInTypeOK, SessionsFine, TransactionFine, Requests
<1>3. OneAdministrator' /\ Nobody' /\ ClosedPasswordHasBinding' /\ Tried'
  BY DEF SignInInv, OneAdministrator, Nobody, ClosedPasswordHasBinding, Tried, SessionsFine,
         TransactionFine
<1> QED
  BY <1>1, <1>2, <1>3 DEF SignInInv, SessionsFine

\* The request in one slot goes on as q, and sessions may change.
LEMMA RequestStep ==
  ASSUME SignInInv, NEW s \in Slots, NEW q \in Requests,
         UNCHANGED <<members, codes, totp, password, bound, ready, challenge, crossed>>,
         TransactionFine',
         SessionsFine',
         request' = [request EXCEPT ![s] = q],
         Fine(q), q.at \notin {"counted", "redeemed"}
  PROVE  SignInInv'
<1>1. request \in [Slots -> Requests]
  BY DEF SignInInv, SignInTypeOK, Requests
<1>2. /\ request' \in [Slots -> Requests]
      /\ \A t \in Slots : request'[t] = IF t = s THEN q ELSE request[t]
  BY <1>1
<1>3. \A t \in Slots : Fine(request'[t])
  BY <1>2 DEF SignInInv
<1>4. Alone'
  BY <1>2, AloneKept
<1> QED
  BY <1>2, <1>3, <1>4, QuietStep

\* Only sessions and the transaction change.
LEMMA SessionStep ==
  ASSUME SignInInv, UNCHANGED <<members, codes, totp, password, bound, ready, challenge, crossed>>,
         request' = request,
         TransactionFine',
         SessionsFine'
  PROVE  SignInInv'
<1>1. request' \in [Slots -> Requests] /\ \A t \in Slots : Fine(request'[t])
  BY DEF SignInInv, SignInTypeOK, Requests
<1>2. Alone'
  BY AloneKept
<1> QED
  BY <1>1, <1>2, QuietStep

LEMMA SessionsKept ==
  ASSUME SignInInv, UNCHANGED <<members, totp, sessions>>
  PROVE  SessionsFine'
  BY SessionsAreFine DEF SessionsFine, Current, SessionsAreCurrent, GrantsAreCurrent, OnePlain,
     Plain

LEMMA TransactionKept ==
  ASSUME SignInInv, UNCHANGED <<members, transaction>>
  PROVE  TransactionFine'
  BY SessionsAreFine DEF TransactionFine

LEMMA SessionsFewer ==
  ASSUME SignInInv, UNCHANGED <<members, totp>>, sessions' \subseteq sessions
  PROVE  SessionsFine'
  BY SessionsAreFine DEF SessionsFine, Current, SessionsAreCurrent, GrantsAreCurrent, OnePlain,
     Plain

LEMMA SessionsRegranted ==
  ASSUME SignInInv, UNCHANGED <<members, totp>>, NEW id, NEW grant \in {"none", "fresh", "late"},
         sessions' = {IF x.id = id THEN [x EXCEPT !.grant = grant] ELSE x : x \in sessions}
  PROVE  SessionsFine'
<1> DEFINE regranted(x) == IF x.id = id THEN [x EXCEPT !.grant = grant] ELSE x
<1>1. ASSUME NEW x \in sessions
      PROVE  /\ regranted(x) \in Session
             /\ regranted(x).id = x.id /\ regranted(x).by = x.by
             /\ regranted(x).since = x.since
             /\ regranted(x).grant = grant \/ regranted(x).grant = x.grant
  <2>1. x \in Session
    BY DEF SignInInv, SignInTypeOK
  <2> QED
    BY <2>1 DEF Session, Since
<1>2. sessions' = {regranted(x) : x \in sessions}
  OBVIOUS
<1> HIDE DEF regranted
<1> QED
  BY <1>1, <1>2, SessionsAreFine DEF SessionsFine, Current, SessionsAreCurrent,
     GrantsAreCurrent, OnePlain, Plain

LEMMA SomebodyActs ==
  ASSUME SignInInv
  PROVE  /\ sessions # {} => members # 0
         /\ challenge # NoChallenge => members # 0
         /\ \A s \in Slots : request[s].op \notin {"none", "bootstrap"} => members # 0
         /\ \A s \in Slots : request[s].at \notin {"idle", "counted"} => members # 0
  BY DEF SignInInv, Nobody, Fine, NoRequest

\* What a revocation makes of the requests of others, and of the challenge.
LEMMA OthersAreLate ==
  ASSUME SignInInv, NEW s \in Slots, NEW q \in Requests, Revoked(s, q)
  PROVE  /\ request' \in [Slots -> Requests] /\ request'[s] = q
         /\ \A t \in Slots \ {s} :
              /\ request'[t].op = request[t].op /\ request'[t].at = request[t].at
              /\ request'[t].provider = request[t].provider /\ request'[t].by = request[t].by
              /\ request'[t].since # "fresh"
              /\ request[t].since \in Granted => request'[t].since = "late"
              /\ request[t] = NoRequest => request'[t] = NoRequest
         /\ challenge' \in Challenge \cup {NoChallenge}
         /\ challenge'.uses = challenge.uses /\ challenge'.tries = challenge.tries
         /\ challenge = NoChallenge => challenge' = NoChallenge
<1>1. request \in [Slots -> Requests]
  BY DEF SignInInv, SignInTypeOK, Requests
<1>2. \A t \in Slots : request'[t] =
        IF t = s THEN q
        ELSE IF request[t].since = "fresh" THEN [request[t] EXCEPT !.since = "late"]
        ELSE request[t]
  BY DEF Revoked
<1>3. ASSUME NEW r \in Requests, r.since = "fresh"
      PROVE  /\ [r EXCEPT !.since = "late"] \in Requests
             /\ [r EXCEPT !.since = "late"] = [op |-> r.op, at |-> r.at, id |-> r.id,
                  provider |-> r.provider, by |-> r.by, since |-> "late"]
  <2>1. r \in Request
    BY <1>3 DEF Requests, NoRequest
  <2> QED
    BY <2>1 DEF Requests, Request
<1>4. ASSUME NEW t \in Slots
      PROVE  request'[t] \in Requests
  <2>1. request[t] \in Requests
    BY <1>1
  <2>2. CASE t # s /\ request[t].since = "fresh"
    <3>1. request'[t] = [request[t] EXCEPT !.since = "late"]
      BY <1>2, <2>2
    <3> QED
      BY <1>3, <2>1, <2>2, <3>1
  <2>3. CASE t = s \/ request[t].since # "fresh"
    BY <1>2, <2>1, <2>3
  <2> QED
    BY <2>2, <2>3
<1>5. request' = [t \in Slots |-> request'[t]]
  BY DEF Revoked
<1>6. ASSUME NEW t \in Slots \ {s}
      PROVE  /\ request'[t].op = request[t].op /\ request'[t].at = request[t].at
             /\ request'[t].provider = request[t].provider /\ request'[t].by = request[t].by
             /\ request'[t].since # "fresh"
             /\ request[t].since \in Granted => request'[t].since = "late"
             /\ request[t] = NoRequest => request'[t] = NoRequest
  <2>1. request[t] \in Requests
    BY <1>1
  <2>2. CASE request[t].since = "fresh"
    <3>1. request'[t] = [op |-> request[t].op, at |-> request[t].at, id |-> request[t].id,
                         provider |-> request[t].provider, by |-> request[t].by, since |-> "late"]
      BY <1>2, <1>3, <2>1, <2>2
    <3> QED
      BY <2>2, <3>1 DEF NoRequest
  <2>3. CASE request[t].since # "fresh"
    BY <1>2, <2>3 DEF Granted
  <2> QED
    BY <2>2, <2>3
<1>7. /\ challenge' \in Challenge \cup {NoChallenge}
      /\ challenge'.uses = challenge.uses /\ challenge'.tries = challenge.tries
      /\ challenge = NoChallenge => challenge' = NoChallenge
  <2>1. CASE challenge.since = "fresh"
    <3>1. challenge \in Challenge /\ challenge # NoChallenge
      BY <2>1 DEF SignInInv, SignInTypeOK, NoChallenge
    <3>2. challenge' = [challenge EXCEPT !.since = "late"]
      BY <2>1 DEF Revoked
    <3> QED
      BY <3>1, <3>2 DEF Challenge
  <2>2. CASE challenge.since # "fresh"
    BY <2>2 DEF Revoked, SignInInv, SignInTypeOK
  <2> QED
    BY <2>1, <2>2
<1> QED
  BY <1>2, <1>4, <1>5, <1>6, <1>7

\* A revocation by the request in slot s, which ends or goes on to the session it ends in.
LEMMA RevokeStep ==
  ASSUME SignInInv, NEW s \in Slots, NEW q \in Requests, Revoked(s, q),
         members # 0, UNCHANGED <<members, codes, ready, transaction>>,
         totp' \in BOOLEAN, password' \in BOOLEAN, bound' \subseteq Providers,
         crossed' \in BOOLEAN,
         ~crossed' => ~crossed /\ (Overlaps(s) => bound \subseteq bound' /\ password' = password),
         ClosedPasswordHasBinding',
         sessions' \subseteq Session, \A x, y \in sessions' : x = y,
         \A x \in sessions' : x.since # "stale" /\ x.grant # "stale",
         \/ q = NoRequest
         \/ /\ q.op = "change" /\ q.at = "issue" /\ q.since \in Granted /\ q.by # "none"
            /\ totp' /\ q.by = "password" => q.since = "late"
  PROVE  SignInInv'
<1>1. /\ request' \in [Slots -> Requests] /\ request'[s] = q
      /\ \A t \in Slots \ {s} :
           /\ request'[t].op = request[t].op /\ request'[t].at = request[t].at
           /\ request'[t].provider = request[t].provider /\ request'[t].by = request[t].by
           /\ request'[t].since # "fresh"
           /\ request[t].since \in Granted => request'[t].since = "late"
           /\ request[t] = NoRequest => request'[t] = NoRequest
      /\ challenge' \in Challenge \cup {NoChallenge}
      /\ challenge'.uses = challenge.uses /\ challenge'.tries = challenge.tries
  BY OthersAreLate
<1>2. SignInTypeOK'
  BY <1>1 DEF SignInInv, SignInTypeOK, Requests
<1>3. ASSUME NEW t \in Slots
      PROVE  Fine(request[t])'
  <2>1. CASE t = s
    BY <1>1, <2>1 DEF Fine, NoRequest
  <2>2. CASE t # s
    <3>1. Fine(request[t])
      BY DEF SignInInv
    <3>2. ~crossed' /\ request[t].at = "proved" /\ request[t].op \in {"close", "unbind"}
          => ~crossed /\ bound \subseteq bound' /\ password' = password
      BY <2>2 DEF Overlaps, Is
    <3> QED
      BY <1>1, <2>2, <3>1, <3>2 DEF Fine, Granted
  <2> QED
    BY <2>1, <2>2
<1>4. Alone'
  <2>1. \A t \in Slots : \/ request'[t].op = request[t].op /\ request'[t].at = request[t].at
                         \/ request'[t].at \notin {"counted", "redeemed"}
    BY <1>1 DEF NoRequest
  <2> QED
    BY <2>1 DEF SignInInv, Alone, Is
<1>5. OneAdministrator' /\ Nobody' /\ Tried'
  BY <1>1 DEF SignInInv, OneAdministrator, Nobody, Tried
<1>6. Current' /\ OnePlain'
  BY DEF Current, SessionsAreCurrent, GrantsAreCurrent, OnePlain
<1> QED
  BY <1>2, <1>3, <1>4, <1>5, <1>6 DEF SignInInv

-----------------------------------------------------------------------------
(* Requests that begin, go on or end without a revocation.                 *)

LEMMA ProveInv ==
  ASSUME SignInInv, NEW s \in Slots, NEW op, NEW id \in Ids,
         NEW p \in Providers \cup {NoProvider}, Prove(s, op, id, p),
         op \in {"renew", "stepup", "change", "disable", "open", "close", "unbind"},
         op = "close" => externalLoginAvailable,
         op = "unbind" => UnbindAllowed(p)
  PROVE  SignInInv'
<1> DEFINE q == [op |-> op, at |-> "proved", id |-> id, provider |-> p, by |-> Proof,
                 since |-> "fresh"]
<1>1. q \in Requests
  BY SignInAssumption DEF Requests, Request, Proof, Ids
<1>2. members # 0
  BY SomebodyActs DEF Prove, SessionByID
<1>3. externalLoginAvailable => bound # {}
  BY DEF externalLoginAvailable, ExternalIdentityBinding, OAuthIdentityBinding
<1>4. UnbindAllowed(p) => password \/ bound \ {p} # {}
  BY DEF UnbindAllowed
<1>5. Proof # "none" /\ (totp => Proof # "password")
  BY DEF Proof
<1>6. Fine(q)
  BY <1>2, <1>3, <1>4, <1>5 DEF Fine, Granted
<1>7. request' = [request EXCEPT ![s] = q]
  BY DEF Prove, Begin
<1>8. q.at \notin {"counted", "redeemed"}
  OBVIOUS
<1> HIDE DEF q
<1> QED
  BY <1>1, <1>6, <1>7, <1>8, RequestStep, SessionsKept, TransactionKept DEF Prove

LEMMA SessionRequestsInv ==
  ASSUME SignInInv, NEW s \in Slots, NEW id \in Ids,
         \/ RenewSession(s, id) \/ StepUp(s, id) \/ ChangeCredentials(s, id)
         \/ DisableTOTP(s, id)
         \/ OpenPasswordLogin(s, id) \/ ClosePasswordLogin(s, id)
         \/ UnbindOIDC(s, id) \/ UnbindOAuth(s, id)
  PROVE  SignInInv'
<1>1. ASSUME NEW p \in {"oidc", "oauth"}, Unbind(s, id, p)
      PROVE  SignInInv'
  <2>1. p \in Providers
    BY <1>1 DEF Unbind, SignInInv, SignInTypeOK
  <2> QED
    BY <1>1, <2>1, ProveInv DEF Unbind
<1>2. CASE RenewSession(s, id) \/ StepUp(s, id) \/ ChangeCredentials(s, id) \/ DisableTOTP(s, id)
  BY <1>2, ProveInv DEF RenewSession, StepUp, ChangeCredentials, DisableTOTP
<1>3. CASE OpenPasswordLogin(s, id) \/ ClosePasswordLogin(s, id)
  BY <1>3, ProveInv DEF OpenPasswordLogin, ClosePasswordLogin
<1> QED
  BY <1>1, <1>2, <1>3 DEF UnbindOIDC, UnbindOAuth

LEMMA CountInv ==
  ASSUME SignInInv, NEW s \in Slots, CountAdministrators(s)
  PROVE  SignInInv'
<1> DEFINE q == [op |-> "bootstrap", at |-> "counted", id |-> 0, provider |-> NoProvider,
                 by |-> "none", since |-> "none"]
<1>1. q \in Requests
  BY SignInAssumption DEF Requests, Request
<1>2. Fine(q)
  BY DEF Fine, CountAdministrators, AdminCount
<1>3. request' = [request EXCEPT ![s] = q] /\ request \in [Slots -> Requests]
  BY DEF CountAdministrators, Begin, SignInInv, SignInTypeOK, Requests
<1>4. request' \in [Slots -> Requests] /\ \A t \in Slots : Fine(request'[t])
  BY <1>1, <1>2, <1>3 DEF SignInInv
<1>5. Alone'
  BY <1>3 DEF CountAdministrators, Alone, Is, SignInInv
<1> HIDE DEF q
<1> QED
  BY <1>4, <1>5, QuietStep, SessionsKept, TransactionKept DEF CountAdministrators

LEMMA LoginInv ==
  ASSUME SignInInv, NEW s \in Slots, Login(s) \/ CompleteLogin(s)
  PROVE  SignInInv'
<1>1. CASE Login(s)
  <2> DEFINE q == [op |-> "login", at |-> IF totp THEN "checked" ELSE "issue", id |-> 0,
                   provider |-> NoProvider, by |-> Proof, since |-> "fresh"]
  <2>1. q \in Requests
    BY SignInAssumption DEF Requests, Request, Proof
  <2>2. Proof # "none" /\ (totp => Proof # "password")
    BY DEF Proof
  <2>3. members # 0 /\ passwordLoginAvailable
    BY <1>1 DEF Login
  <2>4. Fine(q)
    BY <2>2, <2>3 DEF Fine, Granted
  <2>5. request' = [request EXCEPT ![s] = q]
    BY <1>1 DEF Login, Begin
  <2>6. q.at \notin {"counted", "redeemed"}
    OBVIOUS
  <2> HIDE DEF q
  <2> QED
    BY <1>1, <2>1, <2>4, <2>5, <2>6, RequestStep, SessionsKept, TransactionKept DEF Login
<1>2. CASE CompleteLogin(s)
  <2> DEFINE q == [op |-> "complete", at |-> "asked", id |-> 0, provider |-> NoProvider,
                   by |-> "none", since |-> "fresh"]
  <2>1. q \in Requests
    BY SignInAssumption DEF Requests, Request
  <2>2. members # 0 /\ passwordLoginAvailable
    BY <1>2, SomebodyActs DEF CompleteLogin
  <2>3. Fine(q)
    BY <2>2 DEF Fine, Granted
  <2>4. request' = [request EXCEPT ![s] = q] /\ q.at \notin {"counted", "redeemed"}
    BY <1>2 DEF CompleteLogin, Begin
  <2> HIDE DEF q
  <2> QED
    BY <1>2, <2>1, <2>3, <2>4, RequestStep, SessionsKept, TransactionKept DEF CompleteLogin
<1> QED
  BY <1>1, <1>2

LEMMA ConsumeTransactionInv ==
  ASSUME SignInInv, NEW s \in Slots, NEW p, ConsumeTransaction(s, p)
  PROVE  SignInInv'
<1> DEFINE q == [op |-> IF transaction.purpose = "bind" THEN "bind" ELSE "callback",
                 at |-> "exchanged", id |-> 0, provider |-> p, by |-> "none", since |-> "none"]
<1>1. p \in Providers
  BY DEF ConsumeTransaction, SignInInv, SignInTypeOK
<1>2. q \in Requests
  BY SignInAssumption, <1>1 DEF Requests, Request
<1>3. members # 0
  BY SignInAssumption, <1>1 DEF ConsumeTransaction, SignInInv, Nobody, NoTransaction, NoProvider
<1>4. Fine(q)
  BY <1>3 DEF Fine
<1>5. request' = [request EXCEPT ![s] = q] /\ q.at \notin {"counted", "redeemed"}
  BY DEF ConsumeTransaction, Begin
<1>6. TransactionFine'
  BY DEF ConsumeTransaction, TransactionFine
<1> HIDE DEF q
<1> QED
  BY <1>2, <1>4, <1>5, <1>6, RequestStep, SessionsKept DEF ConsumeTransaction

LEMMA ExternalLoginInv ==
  ASSUME SignInInv, NEW s \in Slots, NEW p, CompleteExternalLogin(s, p)
  PROVE  SignInInv'
<1> DEFINE q == Issue(request[s], "external")
<1>1. request[s] \in Requests /\ request[s] # NoRequest /\ members # 0
  BY SomebodyActs DEF CompleteExternalLogin, Is, SignInInv, SignInTypeOK, Requests, NoRequest
<1>2. q \in Requests /\ q.op = "callback" /\ q.at = "issue" /\ q.by = "external"
      /\ q.provider = p /\ q.since \in Granted
  BY <1>1, IssueIs, RequestFields DEF CompleteExternalLogin, Is, Requests, Granted
<1>3. request' = [request EXCEPT ![s] = q]
  BY DEF CompleteExternalLogin
<1> HIDE DEF q
<1>4. Fine(q)
  BY <1>1, <1>2 DEF Fine, CompleteExternalLogin
<1> QED
  BY <1>2, <1>3, <1>4, RequestStep, SessionsKept, TransactionKept DEF CompleteExternalLogin

LEMMA NothingIsFine ==
  ASSUME TRUE
  PROVE  NoRequest \in Requests /\ Fine(NoRequest) /\ NoRequest.at = "idle"
  BY DEF Fine, NoRequest, Requests

LEMMA AbandonInv ==
  ASSUME SignInInv, NEW s \in Slots, AbandonRequest(s)
  PROVE  SignInInv'
<1>1. request' = [request EXCEPT ![s] = NoRequest]
  BY DEF AbandonRequest, Ends
<1> QED
  BY <1>1, NothingIsFine, RequestStep, SessionsKept, TransactionKept DEF AbandonRequest

-----------------------------------------------------------------------------
(* Sessions that come and go.                                              *)

LEMMA ReplaceSessionInv ==
  ASSUME SignInInv, NEW s \in Slots, ReplaceSession(s)
  PROVE  SignInInv'
<1> DEFINE q == Issue(request[s], request[s].by)
<1>1. request[s] \in Requests /\ request[s] # NoRequest /\ members # 0 /\ Fine(request[s])
  BY SomebodyActs DEF ReplaceSession, Is, SignInInv, SignInTypeOK, Requests, NoRequest
<1>2. request[s].since \in Granted /\ request[s].by \in {"password", "factor", "external"}
  BY <1>1, RequestFields DEF ReplaceSession, Is, Fine
<1>3. q \in Requests /\ q.op = "renew" /\ q.at = "issue" /\ q.by = request[s].by
      /\ q.since = request[s].since
  BY <1>1, <1>2, IssueIs DEF ReplaceSession, Is, Requests, Granted
<1>4. request' = [request EXCEPT ![s] = q]
  BY DEF ReplaceSession
<1> HIDE DEF q
<1>5. Fine(q)
  BY <1>1, <1>2, <1>3 DEF Fine
<1>6. sessions' \subseteq sessions
  BY DEF ReplaceSession, DeleteSession
<1> QED
  BY <1>3, <1>4, <1>5, <1>6, RequestStep, SessionsFewer, TransactionKept DEF ReplaceSession

LEMMA IssueSessionInv ==
  ASSUME SignInInv, NEW s \in Slots, issueSession(s)
  PROVE  SignInInv'
<1>1. request[s] \in Requests /\ request[s].at = "issue" /\ members # 0 /\ Fine(request[s])
  BY SomebodyActs DEF issueSession, SignInInv, SignInTypeOK, Requests
<1>2. request[s].since \in Granted /\ request[s].by \in {"password", "factor", "external"}
  BY <1>1, RequestFields DEF Fine
<1>3. GrantedOn(s) \in Granted /\ (GrantedOn(s) # "late" => request[s].since # "late")
  BY <1>2 DEF GrantedOn, Granted
<1>4. PICK id \in Ids :
        /\ ~SessionByID(id)
        /\ sessions' = sessions \cup {[id |-> id, by |-> request[s].by,
                                       since |-> GrantedOn(s), grant |-> "none"]}
  BY DEF issueSession
<1> DEFINE new == [id |-> id, by |-> request[s].by, since |-> GrantedOn(s), grant |-> "none"]
<1>5. new \in Session /\ new.id = id /\ new.since \in Granted /\ new.grant = "none"
  BY <1>2, <1>3 DEF Session, Since, Granted
<1>6. totp => ~Plain(new)
  BY <1>1, <1>2, <1>3 DEF Fine, Plain
<1>7. sessions' = sessions \cup {new} /\ \A x \in sessions : x.id # id
  BY <1>4 DEF SessionByID
<1>8. UNCHANGED <<members, codes, totp, password, bound, ready, challenge, transaction, crossed>>
      /\ request' = [request EXCEPT ![s] = NoRequest]
  BY DEF issueSession, Ends
<1> HIDE DEF new
<1>9. SessionsFine'
  BY <1>1, <1>5, <1>6, <1>7, <1>8, SessionsAreFine DEF SessionsFine, Current,
     SessionsAreCurrent, GrantsAreCurrent, OnePlain, Plain, Granted
<1> QED
  BY <1>8, <1>9, NothingIsFine, RequestStep, TransactionKept

\* A grant is as recent as the proof it is given on.
LEMMA GrantInv ==
  ASSUME SignInInv, NEW s \in Slots, UpsertStepUpGrant(s)
  PROVE  SignInInv'
<1>1. PICK grant : grant = request[s].since
  OBVIOUS
<1>2. grant \in {"none", "fresh", "late"}
  BY <1>1 DEF UpsertStepUpGrant, Is, SignInInv, Fine, Granted
<1>3. PICK id : id = request[s].id
  OBVIOUS
<1>4. sessions' = {IF x.id = id THEN [x EXCEPT !.grant = grant] ELSE x : x \in sessions}
  BY <1>1, <1>3 DEF UpsertStepUpGrant
<1>5. request' = [request EXCEPT ![s] = NoRequest]
      /\ UNCHANGED <<members, codes, totp, password, bound, ready, challenge, transaction, crossed>>
  BY DEF UpsertStepUpGrant, Ends
<1> QED
  BY <1>2, <1>4, <1>5, NothingIsFine, RequestStep, SessionsRegranted, TransactionKept

LEMMA SessionsInv ==
  ASSUME SignInInv, NEW id \in Ids,
         Logout(id) \/ SessionExpires(id) \/ StepUpExpires(id)
  PROVE  SignInInv'
<1>1. CASE StepUpExpires(id)
  <2>1. sessions' = {IF x.id = id THEN [x EXCEPT !.grant = "none"] ELSE x : x \in sessions}
    BY <1>1 DEF StepUpExpires
  <2>2. UNCHANGED <<members, codes, totp, password, bound, ready, challenge, transaction, request,
                    crossed>>
    BY <1>1 DEF StepUpExpires
  <2>3. "none" \in {"none", "fresh", "late"}
    OBVIOUS
  <2> QED
    BY <2>1, <2>2, <2>3, SessionStep, SessionsRegranted, TransactionKept
<1>2. CASE Logout(id) \/ SessionExpires(id)
  <2>1. sessions' \subseteq sessions
    BY <1>2 DEF Logout, SessionExpires, DeleteSession
  <2>2. UNCHANGED <<members, codes, totp, password, bound, ready, challenge, transaction, request,
                    crossed>>
    BY <1>2 DEF Logout, SessionExpires
  <2> QED
    BY <2>1, <2>2, SessionStep, SessionsFewer, TransactionKept
<1> QED
  BY <1>1, <1>2

LEMMA TransactionsInv ==
  ASSUME SignInInv,
         \/ StartOIDCLogin \/ StartOAuthLogin \/ TransactionExpires
         \/ \E id \in Ids : StartOIDCBinding(id) \/ StartOAuthBinding(id)
  PROVE  SignInInv'
<1>1. ASSUME NEW p, StartLogin(p)
      PROVE  SignInInv'
  <2>1. members # 0 /\ p \in Providers
    BY <1>1 DEF StartLogin, SignInInv, Nobody, SignInTypeOK
  <2>2. TransactionFine'
    BY <1>1, <2>1 DEF StartLogin, TransactionFine, Transaction
  <2> QED
    BY <1>1, <2>2, SessionStep, SessionsKept DEF StartLogin
<1>2. ASSUME NEW p, NEW id \in Ids, StartBinding(id, p)
      PROVE  SignInInv'
  <2>1. members # 0 /\ p \in Providers
    BY <1>2, SomebodyActs DEF StartBinding, SessionByID, SignInInv, SignInTypeOK
  <2>2. TransactionFine'
    BY <1>2, <2>1 DEF StartBinding, TransactionFine, Transaction
  <2> QED
    BY <1>2, <2>2, SessionStep, SessionsKept DEF StartBinding
<1>3. CASE TransactionExpires
  BY <1>3, SessionStep, SessionsKept DEF TransactionExpires, TransactionFine
<1> QED
  BY <1>1, <1>2, <1>3 DEF StartOIDCLogin, StartOAuthLogin, StartOIDCBinding, StartOAuthBinding

-----------------------------------------------------------------------------
(* Bootstrap, challenges, and the steps that open and restart.             *)

LEMMA BootstrapInv ==
  ASSUME SignInInv, NEW s \in Slots, BootstrapAdministrator(s)
  PROVE  SignInInv'
<1> DEFINE q == Issue(request[s], "password")
<1>1. request[s] \in Requests /\ request[s] # NoRequest /\ Is(s, "bootstrap", "counted")
      /\ Fine(request[s])
  BY DEF BootstrapAdministrator, Is, SignInInv, SignInTypeOK, Requests, NoRequest
<1>2. members = 0 /\ ~totp /\ bound = {} /\ sessions = {}
  BY <1>1 DEF Fine, Is, SignInInv, Nobody
<1>3. q \in Requests /\ q.op = "bootstrap" /\ q.at = "issue" /\ q.by = "password"
      /\ q.since \in Granted
  BY <1>1, IssueIs, RequestFields DEF Is, Requests, Granted
<1>4. request' = [request EXCEPT ![s] = q] /\ request \in [Slots -> Requests]
  BY DEF BootstrapAdministrator, SignInInv, SignInTypeOK, Requests
<1> HIDE DEF q
<1>5. \A t \in Slots : t # s => request'[t] = NoRequest
  BY <1>1, <1>2, <1>4 DEF SignInInv, Fine, Alone, Is
<1>6. members' = 1 /\ codes' \in 0 .. MaxCodes /\ 1 \in 0 .. MaxCodes
  BY SignInAssumption, <1>2 DEF BootstrapAdministrator, SignInInv, SignInTypeOK
<1>7. SignInTypeOK'
  BY <1>3, <1>4, <1>6 DEF BootstrapAdministrator, SignInInv, SignInTypeOK, Requests
<1>8. ASSUME NEW t \in Slots
      PROVE  Fine(request[t])'
  BY <1>2, <1>3, <1>4, <1>5, <1>6 DEF Fine, NoRequest, BootstrapAdministrator
<1>9. Alone'
  BY <1>3, <1>4, AloneKept
<1>10. OneAdministrator' /\ Nobody'
  BY <1>6 DEF OneAdministrator, Nobody
<1>11. ClosedPasswordHasBinding' /\ Current' /\ OnePlain' /\ Tried'
  BY DEF BootstrapAdministrator, SignInInv, ClosedPasswordHasBinding, Current, SessionsAreCurrent,
         GrantsAreCurrent, OnePlain, Plain, Tried
<1> QED
  BY <1>7, <1>8, <1>9, <1>10, <1>11 DEF SignInInv

\* A step that changes the challenge and the request in one slot.
LEMMA ChallengeStep ==
  ASSUME SignInInv, NEW s \in Slots, NEW q \in Requests,
         UNCHANGED <<members, codes, totp, password, bound, ready, sessions, transaction, crossed>>,
         members # 0,
         challenge' \in Challenge \cup {NoChallenge},
         request' = [request EXCEPT ![s] = q],
         Fine(q)', q.at # "counted",
         \A t \in Slots : t # s => ~Is(t, "complete", "redeemed"),
         Tried'
  PROVE  SignInInv'
<1>1. request \in [Slots -> Requests]
  BY DEF SignInInv, SignInTypeOK, Requests
<1>2. request' \in [Slots -> Requests] /\ \A t \in Slots : t # s => request'[t] = request[t]
      /\ request'[s] = q
  BY <1>1
<1>3. SignInTypeOK'
  BY <1>2 DEF SignInInv, SignInTypeOK, Requests
<1>4. ASSUME NEW t \in Slots
      PROVE  Fine(request[t])'
  <2>1. CASE t = s
    BY <1>2, <2>1 DEF Fine, passwordLoginAvailable, externalLoginAvailable,
       ExternalIdentityBinding, OAuthIdentityBinding
  <2>2. CASE t # s
    <3>1. Fine(request[t]) /\ ~(request[t].op = "complete" /\ request[t].at = "redeemed")
      BY <2>2 DEF SignInInv, Is
    <3> QED
      BY <1>2, <2>2, <3>1 DEF Fine, passwordLoginAvailable, externalLoginAvailable,
         ExternalIdentityBinding, OAuthIdentityBinding
  <2> QED
    BY <2>1, <2>2
<1>5. Alone'
  BY <1>2 DEF SignInInv, Alone, Is
<1>6. OneAdministrator' /\ Nobody' /\ ClosedPasswordHasBinding' /\ Current' /\ OnePlain'
  BY DEF SignInInv, OneAdministrator, Nobody, ClosedPasswordHasBinding, Current, SessionsAreCurrent,
         GrantsAreCurrent, OnePlain, Plain
<1> QED
  BY <1>3, <1>4, <1>5, <1>6 DEF SignInInv

LEMMA CreateChallengeInv ==
  ASSUME SignInInv, NEW s \in Slots, CreateLoginChallenge(s)
  PROVE  SignInInv'
<1>1. request[s].since \in Granted /\ members # 0
  BY SomebodyActs DEF CreateLoginChallenge, Is, SignInInv, Fine
<1>2. challenge' \in Challenge /\ challenge'.uses = 0 /\ challenge'.tries = 0
  BY <1>1 DEF CreateLoginChallenge, Challenge, Granted
<1>3. Tried'
  BY <1>2 DEF Tried
<1>4. Fine(NoRequest)'
  BY DEF Fine, NoRequest
<1>5. request' = [request EXCEPT ![s] = NoRequest]
      /\ \A t \in Slots : ~Is(t, "complete", "redeemed")
  BY DEF CreateLoginChallenge, Ends, Is
<1> QED
  BY <1>1, <1>2, <1>3, <1>4, <1>5, NothingIsFine, ChallengeStep DEF CreateLoginChallenge

LEMMA ConsumeChallengeInv ==
  ASSUME SignInInv, NEW s \in Slots, ConsumeLoginChallenge(s)
  PROVE  SignInInv'
<1>1. /\ request[s] \in Request /\ request[s].op = "complete" /\ request[s].at = "asked"
      /\ Fine(request[s]) /\ members # 0
  BY SomebodyActs DEF ConsumeLoginChallenge, Is, SignInInv, SignInTypeOK, NoRequest
<1>2. PICK q \in Requests :
        /\ request' = [request EXCEPT ![s] = q]
        /\ q.op = request[s].op /\ q.at = "redeemed" /\ q.by = request[s].by
        /\ q.since = request[s].since
  <2> DEFINE r == request[s]
             q == [op |-> r.op, at |-> "redeemed", id |-> r.id, provider |-> r.provider,
                   by |-> r.by, since |-> r.since]
  <2>1. [r EXCEPT !.at = "redeemed"] = q /\ q \in Request
    BY <1>1 DEF Request
  <2>2. request' = [request EXCEPT ![s] = q]
    BY <2>1 DEF ConsumeLoginChallenge
  <2>3. q.op = r.op /\ q.at = "redeemed" /\ q.by = r.by /\ q.since = r.since
    OBVIOUS
  <2> HIDE DEF q
  <2> QED
    BY <2>1, <2>2, <2>3 DEF Requests
<1>3. challenge \in Challenge /\ challenge.uses = 0 /\ challenge.tries = 0
  BY DEF ConsumeLoginChallenge, SignInInv, SignInTypeOK, Tried, Challenge
<1>4. challenge' \in Challenge /\ challenge'.uses = 1 /\ challenge'.tries = 0
  BY <1>3 DEF ConsumeLoginChallenge, Challenge
<1>5. Tried'
  BY <1>4 DEF Tried
<1>6. \A t \in Slots : ~Is(t, "complete", "redeemed")
  BY <1>3 DEF SignInInv, Fine, Is
<1>7. Fine(q)'
  BY <1>1, <1>2, <1>4 DEF Fine, ConsumeLoginChallenge, passwordLoginAvailable,
     externalLoginAvailable, ExternalIdentityBinding, OAuthIdentityBinding
<1> QED
  BY <1>1, <1>2, <1>4, <1>5, <1>6, <1>7, ChallengeStep DEF ConsumeLoginChallenge

LEMMA TryInv ==
  ASSUME SignInInv, NEW s \in Slots, TrySecondFactor(s)
  PROVE  SignInInv'
<1>1. /\ request[s] \in Requests /\ request[s] # NoRequest /\ Fine(request[s]) /\ members # 0
      /\ request[s].op = "complete" /\ request[s].at = "redeemed"
  BY SomebodyActs DEF TrySecondFactor, Is, SignInInv, SignInTypeOK, Requests, NoRequest
<1>2. challenge \in Challenge /\ challenge.uses = 1 /\ challenge.tries = 0
  BY <1>1 DEF Fine, SignInInv, SignInTypeOK, NoChallenge
<1>3. challenge' \in Challenge /\ challenge'.uses = 1 /\ challenge'.tries = 1
  BY <1>2 DEF TrySecondFactor, Challenge
<1>4. Tried'
  BY <1>3 DEF Tried
<1>5. \A t \in Slots : t # s => ~Is(t, "complete", "redeemed")
  BY <1>1 DEF SignInInv, Alone, Is
<1>6. PICK q \in Requests : request' = [request EXCEPT ![s] = q] /\ Fine(q)' /\ q.at # "counted"
  <2>1. CASE Ends(s)
    <3>1. Fine(NoRequest)'
      BY DEF Fine, NoRequest
    <3> QED
      BY <2>1, <3>1, NothingIsFine DEF Ends
  <2>2. CASE request' = [request EXCEPT ![s] = Issue(request[s], "factor")]
    <3>1. PICK q \in Requests : q = Issue(request[s], "factor")
      BY <1>1, IssueIs DEF Requests
    <3>2. q.op = "complete" /\ q.at = "issue" /\ q.by = "factor" /\ q.since = request[s].since
          /\ q.since \in Granted
      BY <1>1, <3>1, IssueIs DEF Fine, Granted
    <3>3. Fine(q)'
      BY <1>1, <3>2 DEF Fine, TrySecondFactor, passwordLoginAvailable, externalLoginAvailable,
         ExternalIdentityBinding, OAuthIdentityBinding
    <3> QED
      BY <2>2, <3>1, <3>2, <3>3
  <2> QED
    BY <2>1, <2>2 DEF TrySecondFactor
<1> QED
  BY <1>1, <1>3, <1>4, <1>5, <1>6, ChallengeStep DEF TrySecondFactor

LEMMA ChallengeExpiresInv ==
  ASSUME SignInInv, ChallengeExpires
  PROVE  SignInInv'
<1>1. \A t \in Slots : ~Is(t, "complete", "redeemed")
  BY DEF ChallengeExpires, Is
<1>2. challenge' = NoChallenge
  BY DEF ChallengeExpires
<1>3. SignInTypeOK' /\ Alone'
  BY <1>2 DEF ChallengeExpires, SignInInv, SignInTypeOK, Alone, Is
<1>4. ASSUME NEW t \in Slots
      PROVE  Fine(request[t])'
  BY <1>1 DEF SignInInv, Fine, Is, ChallengeExpires, passwordLoginAvailable, externalLoginAvailable,
     ExternalIdentityBinding, OAuthIdentityBinding
<1>5. OneAdministrator' /\ ClosedPasswordHasBinding' /\ Current' /\ OnePlain'
  BY DEF ChallengeExpires, SignInInv, OneAdministrator, ClosedPasswordHasBinding, Current,
         SessionsAreCurrent, GrantsAreCurrent, OnePlain, Plain
<1>6. Nobody' /\ Tried'
  BY <1>2 DEF ChallengeExpires, SignInInv, Nobody, Tried, NoChallenge
<1> QED
  BY <1>3, <1>4, <1>5, <1>6 DEF SignInInv

\* Turning password login on: it was off, and only becomes more available.
LEMMA OpenInv ==
  ASSUME SignInInv, NEW s \in Slots, Is(s, "open", "proved"), password' = TRUE, Ends(s),
         UNCHANGED <<members, codes, totp, bound, ready, sessions, challenge, transaction, crossed>>
  PROVE  SignInInv'
<1>1. request \in [Slots -> Requests]
  BY DEF SignInInv, SignInTypeOK, Requests
<1>2. \A t \in Slots : request'[t] = IF t = s THEN NoRequest ELSE request[t]
  BY <1>1 DEF Ends
<1>3. SignInTypeOK'
  BY DEF SignInInv, SignInTypeOK, Ends
<1>4. Alone'
  BY <1>2, AloneKept, NothingIsFine
<1>5. ASSUME NEW t \in Slots
      PROVE  Fine(request[t])'
  BY <1>2 DEF SignInInv, Fine, NoRequest, passwordLoginAvailable
<1>6. OneAdministrator' /\ Nobody' /\ ClosedPasswordHasBinding' /\ Current' /\ OnePlain' /\ Tried'
  BY DEF SignInInv, OneAdministrator, Nobody, ClosedPasswordHasBinding, Current, SessionsAreCurrent,
         GrantsAreCurrent, OnePlain, Plain, Tried
<1> QED
  BY <1>3, <1>4, <1>5, <1>6 DEF SignInInv

LEMMA RestartInv ==
  ASSUME SignInInv, Restart
  PROVE  SignInInv'
<1>1. \A t \in Slots : request'[t] = NoRequest
  BY DEF Restart
<1>2. codes' \in 0 .. MaxCodes /\ ready' \subseteq Providers
  BY SignInAssumption DEF Restart, SignInInv, SignInTypeOK
<1>3. SignInTypeOK'
  BY <1>2 DEF Restart, SignInInv, SignInTypeOK
<1>4. Alone' /\ \A t \in Slots : Fine(request[t])'
  BY <1>1 DEF Alone, Is, Fine, NoRequest
<1>5. OneAdministrator' /\ Nobody' /\ ClosedPasswordHasBinding' /\ Current' /\ OnePlain' /\ Tried'
  BY DEF Restart, SignInInv, OneAdministrator, Nobody, ClosedPasswordHasBinding, Current,
         SessionsAreCurrent, GrantsAreCurrent, OnePlain, Plain, Tried
<1> QED
  BY <1>3, <1>4, <1>5 DEF SignInInv

-----------------------------------------------------------------------------
(* Revocations.                                                            *)

LEMMA UpdateCredentialsInv ==
  ASSUME SignInInv, NEW s \in Slots, UpdateCredentials(s)
  PROVE  SignInInv'
<1>1. /\ request[s] \in Requests /\ request[s] # NoRequest /\ Fine(request[s]) /\ members # 0
      /\ request[s].op = "change" /\ request[s].at = "proved"
  BY SomebodyActs DEF UpdateCredentials, Is, SignInInv, SignInTypeOK, Requests, NoRequest
<1>2. request[s].since \in Granted /\ request[s].by \in {"password", "factor", "external"}
  BY <1>1, RequestFields DEF Fine
<1>3. PICK q \in Requests : q = Issue(request[s], request[s].by)
  BY <1>1, <1>2, IssueIs DEF Requests
<1>4. /\ q.op = "change" /\ q.at = "issue" /\ q.since \in Granted /\ q.by # "none"
      /\ totp /\ q.by = "password" => q.since = "late"
  BY <1>1, <1>2, <1>3, IssueIs DEF Fine, Granted
<1>5. Revoked(s, q) /\ sessions' = {}
  BY <1>3 DEF UpdateCredentials
<1>6. UNCHANGED <<members, codes, totp, password, bound, ready, transaction, crossed>>
  BY DEF UpdateCredentials
<1>7. ClosedPasswordHasBinding'
  BY <1>6 DEF SignInInv, ClosedPasswordHasBinding
<1> QED
  BY <1>1, <1>4, <1>5, <1>6, <1>7, RevokeStep DEF SignInInv, SignInTypeOK

\* A revocation that ends its request and keeps the session it came from.
LEMMA KeepingStep ==
  ASSUME SignInInv, NEW s \in Slots, NEW id, Revoked(s, NoRequest), members # 0,
         UNCHANGED <<members, codes, ready, transaction>>,
         totp' \in BOOLEAN, password' \in BOOLEAN, bound' \subseteq Providers,
         crossed' \in BOOLEAN,
         ~crossed' => ~crossed /\ (Overlaps(s) => bound \subseteq bound' /\ password' = password),
         ClosedPasswordHasBinding',
         \/ sessions' =
              Outlived(DeleteOtherMemberSessions(DeleteMemberStepUpGrants(sessions), id), id)
         \/ sessions' =
              Outlived(DeleteMemberStepUpGrants(DeleteOtherMemberSessions(sessions, id)), id)
  PROVE  SignInInv'
<1>1. sessions' = {Bare(x) : x \in {z \in sessions : z.id = id}}
  BY KeptIs DEF SignInInv
<1>2. sessions' \subseteq Session /\ (\A x, y \in sessions' : x = y)
      /\ \A x \in sessions' : x.since # "stale" /\ x.grant # "stale"
  BY <1>1, KeptFine DEF SignInInv
<1> QED
  BY <1>2, NothingIsFine, RevokeStep

LEMMA PolicyInv ==
  ASSUME SignInInv, NEW s \in Slots,
         DisableTOTPLoginPolicy(s) \/ \E id \in Ids : EnableTOTPLoginPolicy(s, id)
  PROVE  SignInInv'
<1>1. CASE DisableTOTPLoginPolicy(s)
  <2>1. members # 0
    BY <1>1, SomebodyActs DEF DisableTOTPLoginPolicy, Is
  <2>2. /\ UNCHANGED <<members, codes, password, bound, ready, transaction, crossed>>
        /\ totp' = FALSE /\ Revoked(s, NoRequest)
        /\ sessions' = Outlived(DeleteOtherMemberSessions(DeleteMemberStepUpGrants(sessions),
                                                          request[s].id), request[s].id)
    BY <1>1 DEF DisableTOTPLoginPolicy
  <2>3. ClosedPasswordHasBinding'
    BY <2>2 DEF SignInInv, ClosedPasswordHasBinding
  <2> QED
    BY <2>1, <2>2, <2>3, KeepingStep DEF SignInInv, SignInTypeOK
<1>2. ASSUME NEW id \in Ids, EnableTOTPLoginPolicy(s, id)
      PROVE  SignInInv'
  <2>1. members # 0
    BY <1>2, SomebodyActs DEF EnableTOTPLoginPolicy, SessionByID
  <2>2. UNCHANGED <<members, codes, password, bound, ready, transaction, crossed>>
        /\ totp' = TRUE
    BY <1>2 DEF EnableTOTPLoginPolicy
  <2>3. ClosedPasswordHasBinding'
    BY <2>2 DEF SignInInv, ClosedPasswordHasBinding
  <2> QED
    BY <1>2, <2>1, <2>2, <2>3, KeepingStep DEF EnableTOTPLoginPolicy, SignInInv, SignInTypeOK
<1> QED
  BY <1>1, <1>2

LEMMA SetPasswordLoginInv ==
  ASSUME SignInInv, NEW s \in Slots, SetPasswordLoginEnabled(s)
  PROVE  SignInInv'
<1>1. CASE Is(s, "open", "proved")
  BY <1>1, OpenInv DEF SetPasswordLoginEnabled, Is
<1>2. CASE Is(s, "close", "proved")
  <2>1. members # 0 /\ Fine(request[s])
    BY <1>2, SomebodyActs DEF Is, SignInInv
  <2>2. /\ UNCHANGED <<members, codes, totp, bound, ready, transaction>>
        /\ password' = FALSE /\ crossed' = (crossed \/ Overlaps(s)) /\ Revoked(s, NoRequest)
        /\ sessions' = Outlived(DeleteOtherMemberSessions(DeleteMemberStepUpGrants(sessions),
                                                          request[s].id), request[s].id)
    BY <1>2 DEF SetPasswordLoginEnabled, Is
  <2>3. ClosedPasswordHasBinding'
    BY <1>2, <2>1, <2>2 DEF Fine, Is, ClosedPasswordHasBinding
  <2>4. crossed' \in BOOLEAN
    BY <2>2 DEF Overlaps
  <2> QED
    BY <2>1, <2>2, <2>3, <2>4, KeepingStep DEF SignInInv, SignInTypeOK
<1> QED
  BY <1>1, <1>2 DEF SetPasswordLoginEnabled

LEMMA UnbindInv ==
  ASSUME SignInInv, NEW s \in Slots, NEW p, DeleteBinding(s, p)
  PROVE  SignInInv'
<1>1. members # 0 /\ Fine(request[s])
  BY SomebodyActs DEF DeleteBinding, Is, SignInInv
<1>2. bound' = bound \ {p} /\ bound' \subseteq Providers
      /\ crossed' = (crossed \/ Overlaps(s)) /\ crossed' \in BOOLEAN
  BY DEF DeleteBinding, Overlaps, SignInInv, SignInTypeOK
<1>3. ClosedPasswordHasBinding'
  BY <1>1, <1>2 DEF DeleteBinding, Fine, Is, ClosedPasswordHasBinding
<1> QED
  BY <1>1, <1>2, <1>3, KeepingStep DEF DeleteBinding, SignInInv, SignInTypeOK

LEMMA BindInv ==
  ASSUME SignInInv, NEW s \in Slots, NEW id, NEW p \in {"oidc", "oauth"},
         Bind(s, id, p)
  PROVE  SignInInv'
<1>1. members # 0 /\ p \in Providers
  <2>1. request[s] \in Requests /\ request[s].provider = p
    BY DEF Bind, SignInInv, SignInTypeOK, Requests
  <2>2. p \in Providers
    BY <2>1, RequestFields DEF NoProvider
  <2>3. members # 0
    BY SomebodyActs DEF Bind, Is
  <2> QED
    BY <2>2, <2>3
<1>2. bound' = bound \cup {p} /\ bound' \subseteq Providers
  BY <1>1 DEF Bind, SignInInv, SignInTypeOK
<1>3. ClosedPasswordHasBinding'
  BY <1>2 DEF Bind, ClosedPasswordHasBinding
<1> QED
  BY <1>1, <1>2, <1>3, KeepingStep DEF Bind, SignInInv, SignInTypeOK

-----------------------------------------------------------------------------
(* The invariant, and what follows from it.                                *)

LEMMA SignInInvInit ==
  ASSUME SignInInit
  PROVE  SignInInv
<1>1. members = 0 /\ 0 \in 0 .. MaxCodes /\ 1 \in 0 .. MaxCodes
  BY SignInAssumption DEF SignInInit
<1>2. SignInTypeOK
  BY <1>1 DEF SignInInit, SignInTypeOK
<1>3. \A s \in Slots : request[s] = NoRequest
  BY DEF SignInInit
<1>4. Alone /\ \A s \in Slots : Fine(request[s])
  BY <1>3, NothingIsFine DEF Alone, Is
<1>5. OneAdministrator /\ Nobody /\ ClosedPasswordHasBinding /\ Current /\ OnePlain /\ Tried
  BY <1>1 DEF SignInInit, OneAdministrator, Nobody, ClosedPasswordHasBinding, Current,
     SessionsAreCurrent, GrantsAreCurrent, OnePlain, Tried, NoChallenge
<1> QED
  BY <1>2, <1>4, <1>5 DEF SignInInv

LEMMA SignInInvStep ==
  ASSUME SignInInv, [SignInNext]_siVars
  PROVE  SignInInv'
<1>1. CASE UNCHANGED siVars
  <2>1. SessionsFine' /\ TransactionFine'
    BY <1>1, SessionsKept, TransactionKept DEF siVars
  <2> QED
    BY <1>1, <2>1, SessionStep DEF siVars
<1>2. ASSUME NEW s \in Slots,
             \/ CountAdministrators(s) \/ BootstrapAdministrator(s)
             \/ Login(s) \/ CreateLoginChallenge(s) \/ CompleteLogin(s)
             \/ ConsumeLoginChallenge(s) \/ TrySecondFactor(s)
             \/ ReplaceSession(s) \/ UpsertStepUpGrant(s) \/ issueSession(s) \/ AbandonRequest(s)
      PROVE  SignInInv'
  BY <1>2, CountInv, BootstrapInv, LoginInv, CreateChallengeInv, ConsumeChallengeInv, TryInv,
     ReplaceSessionInv, GrantInv, IssueSessionInv, AbandonInv
<1>3. ASSUME NEW s \in Slots,
             \/ UpdateCredentials(s) \/ DisableTOTPLoginPolicy(s)
             \/ SetPasswordLoginEnabled(s)
             \/ UnbindExternalIdentity(s) \/ UnbindOAuthIdentity(s)
             \/ OIDCCallback(s) \/ OAuthCallback(s)
             \/ CompleteOIDCLogin(s) \/ CompleteOAuthLogin(s)
      PROVE  SignInInv'
  BY <1>3, UpdateCredentialsInv, PolicyInv, SetPasswordLoginInv, UnbindInv,
     ConsumeTransactionInv, ExternalLoginInv
     DEF UnbindExternalIdentity, UnbindOAuthIdentity, OIDCCallback, OAuthCallback,
         CompleteOIDCLogin, CompleteOAuthLogin
<1>4. ASSUME NEW s \in Slots, NEW id \in Ids,
             \/ RenewSession(s, id) \/ StepUp(s, id) \/ ChangeCredentials(s, id)
             \/ EnableTOTPLoginPolicy(s, id) \/ DisableTOTP(s, id)
             \/ OpenPasswordLogin(s, id) \/ ClosePasswordLogin(s, id)
             \/ UnbindOIDC(s, id) \/ UnbindOAuth(s, id)
             \/ BindExternalIdentity(s, id) \/ BindOAuthIdentity(s, id)
      PROVE  SignInInv'
  BY <1>4, SessionRequestsInv, PolicyInv, BindInv DEF BindExternalIdentity, BindOAuthIdentity
<1>5. ASSUME NEW id \in Ids,
             \/ Logout(id) \/ StartOIDCBinding(id) \/ StartOAuthBinding(id)
             \/ SessionExpires(id) \/ StepUpExpires(id)
      PROVE  SignInInv'
  BY <1>5, SessionsInv, TransactionsInv
<1>6. CASE StartOIDCLogin \/ StartOAuthLogin \/ ChallengeExpires \/ TransactionExpires \/ Restart
  BY <1>6, TransactionsInv, ChallengeExpiresInv, RestartInv
<1>7. CASE SignInNext
  BY <1>2, <1>3, <1>4, <1>5, <1>6, <1>7 DEF SignInNext
<1> QED
  BY <1>1, <1>7

LEMMA SignInInvariance ==
  SignInSpec => []SignInInv
  BY SignInInvInit, SignInInvStep, PTL DEF SignInSpec

\* Sessions, challenges, transactions and requests keep their types; no two sessions share an id.
THEOREM SignInTypeOKAlways ==
  SignInSpec => []SignInTypeOK
<1>1. SignInInv => SignInTypeOK
  BY DEF SignInInv
<1> QED
  BY <1>1, SignInInvariance, PTL

\* BootstrapAdministrator: however many Bootstrap Codes are valid and bootstraps overlap,
\* there is one Administrator at most.
THEOREM OneAdministratorAlways ==
  SignInSpec => []OneAdministrator
<1>1. SignInInv => OneAdministrator
  BY DEF SignInInv
<1> QED
  BY <1>1, SignInInvariance, PTL

\* SetPasswordLoginEnabled and the unbinds: closed passwords leave a bound identity, unless
\* two such requests overlapped.
THEOREM ClosedPasswordHasBindingAlways ==
  SignInSpec => []ClosedPasswordHasBinding
<1>1. SignInInv => ClosedPasswordHasBinding
  BY DEF SignInInv
<1> QED
  BY <1>1, SignInInvariance, PTL

\* The revoking transactions: no Session from before outlives one but that it came from.
THEOREM SessionsAreCurrentAlways ==
  SignInSpec => []SessionsAreCurrent
<1>1. SignInInv => SessionsAreCurrent
  BY DEF SignInInv, Current
<1> QED
  BY <1>1, SignInInvariance, PTL

\* The revoking transactions: no Step-up Grant from before outlives one, whatever grants are
\* written late, on a proof that one has overtaken.
THEOREM GrantsAreCurrentAlways ==
  SignInSpec => []GrantsAreCurrent
<1>1. SignInInv => GrantsAreCurrent
  BY DEF SignInInv, Current
<1> QED
  BY <1>1, SignInInvariance, PTL

\* policyProofValid and Login: while TOTP is required one Session at most was given for a
\* password alone, apart from the late ones.
THEOREM FactorIsEnforcedAlways ==
  SignInSpec => []FactorIsEnforced
<1>1. SignInInv => FactorIsEnforced
  <2> SUFFICES ASSUME SignInInv, totp
               PROVE  Cardinality({x \in sessions : x.by = "password" /\ x.since # "late"}) <= 1
    BY DEF FactorIsEnforced
  <2> DEFINE plain == {x \in sessions : Plain(x)}
  <2>1. \A x, y \in plain : x = y
    BY DEF SignInInv, OnePlain
  <2>2. plain = {x \in sessions : x.by = "password" /\ x.since # "late"}
    BY DEF Plain
  <2> HIDE DEF plain
  <2>3. CASE plain = {}
    <3>1. Cardinality(plain) = 0
      BY <2>3, FS_EmptySet
    <3> QED
      BY <2>2, <3>1
  <2>4. CASE plain # {}
    <3>1. PICK one \in plain : plain = {one}
      BY <2>1, <2>4
    <3>2. Cardinality(plain) = 1
      BY <3>1, FS_Singleton
    <3> QED
      BY <2>2, <3>2
  <2> QED
    BY <2>3, <2>4
<1> QED
  BY <1>1, SignInInvariance, PTL

\* CompleteLogin and CompleteOIDCLogin: a sign-in that no revocation met ends in a Session
\* only by a way that is open.
THEOREM WaysInAreOpenAlways ==
  SignInSpec => []WaysInAreOpen
<1>1. SignInInv => WaysInAreOpen
  BY DEF SignInInv, Fine, WaysInAreOpen
<1> QED
  BY <1>1, SignInInvariance, PTL

\* ConsumeLoginChallenge: however many requests present a challenge at once, it is worth one
\* attempt at the second factor.
THEOREM ChallengesAllowOneAttemptAlways ==
  SignInSpec => []ChallengesAllowOneAttempt
<1>1. SignInInv => ChallengesAllowOneAttempt
  <2> SUFFICES ASSUME SignInInv
               PROVE  challenge.tries <= 1
    BY DEF ChallengesAllowOneAttempt
  <2>1. challenge.tries \in Nat /\ challenge.uses \in Nat
    BY DEF SignInInv, SignInTypeOK, Challenge, NoChallenge
  <2> QED
    BY <2>1 DEF SignInInv, Tried
<1> QED
  BY <1>1, SignInInvariance, PTL
=============================================================================
