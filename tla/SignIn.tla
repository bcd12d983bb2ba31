------------------------------- MODULE SignIn -------------------------------
(***************************************************************************)
(* How the single Administrator comes by a Session and what ends it:       *)
(* bootstrap, password login with or without a second factor, sign-in      *)
(* through a bound external identity, renewal, step-up, and the changes of *)
(* credentials and of policy that revoke what was granted before them.     *)
(* A request is cut where it commits: the checks it has passed may no      *)
(* longer hold when it goes on.  Passwords, codes and identities are       *)
(* right, since with a wrong one nothing changes.                          *)
(*                                                                         *)
(* "since" is a history: it tells what was granted on credentials given    *)
(* after the last revocation ("fresh"), what outlived one ("stale"), and   *)
(* what was granted to a request, or on a challenge, that was under way    *)
(* when a revocation committed ("late").  A row that is inserted between   *)
(* the DELETE and the COMMIT of a revocation escapes it as one that is     *)
(* inserted right after the COMMIT does, and is such a late one.           *)
(***************************************************************************)
EXTENDS Naturals, FiniteSets

CONSTANTS
  Providers,     \* a subset of {"oidc", "oauth"}
  MaxSessions,   \* bound on the sessions that exist at once
  MaxCodes,      \* bound on the Bootstrap Codes that are valid at once
  Slots          \* requests under way at once

\* The providers there are, and bounds that leave room for the first Bootstrap Code.
ASSUME SignInAssumption ==
  /\ Providers \subseteq {"oidc", "oauth"}
  /\ MaxSessions \in Nat /\ MaxCodes \in Nat \ {0}

VARIABLES
  members,       \* admins
  codes,         \* bootstrap_codes that are unused and not expired
  totp,          \* organization_config.totp_login_required
  password,      \* organization_config.password_login_enabled
  bound,         \* external_identity_binding and oauth_identity_binding
  ready,         \* providers the running process is configured for
  sessions,      \* sessions, each with its step-up grant
  challenge,     \* the row of login_challenges a browser holds
  transaction,   \* the row of oidc_transactions a browser holds
  request,       \* the request in each slot
  crossed        \* history: two changes of the ways to sign in overlapped

siVars == <<members, codes, totp, password, bound, ready, sessions, challenge, transaction,
            request, crossed>>

NoProvider == "none"
Ids == 1 .. MaxSessions
Since == {"fresh", "stale", "late"}

Session == [id : Ids, by : {"password", "factor", "external"}, since : Since,
            grant : {"none"} \cup Since]

NoChallenge == [uses |-> 0, tries |-> 0, since |-> "none"]
Challenge == [uses : 0 .. 1, tries : 0 .. 2, since : {"fresh", "late"}]

NoTransaction == [purpose |-> "none", provider |-> NoProvider]
Transaction == [purpose : {"login", "bind"}, provider : Providers]

NoRequest == [op |-> "none", at |-> "idle", id |-> 0, provider |-> NoProvider, by |-> "none",
              since |-> "none"]

Request ==
  [op : {"bootstrap", "login", "complete", "renew", "stepup", "change", "disable", "close",
         "open", "unbind", "callback", "bind"},
   at : {"counted", "checked", "asked", "redeemed", "proved", "exchanged", "issue"},
   id : 0 .. MaxSessions, provider : Providers \cup {NoProvider},
   by : {"password", "factor", "external", "none"}, since : {"none", "fresh", "late"}]

SignInTypeOK ==
  /\ members \in 0 .. MaxCodes /\ codes \in 0 .. MaxCodes
  /\ totp \in BOOLEAN /\ password \in BOOLEAN /\ crossed \in BOOLEAN
  /\ bound \subseteq Providers /\ ready \subseteq Providers
  /\ sessions \subseteq Session
  /\ \A x, y \in sessions : x.id = y.id => x = y
  /\ challenge \in Challenge \cup {NoChallenge}
  /\ transaction \in Transaction \cup {NoTransaction}
  /\ request \in [Slots -> Request \cup {NoRequest}]

SignInInit ==
  /\ members = 0 /\ codes = 1
  /\ totp = FALSE /\ password = TRUE /\ crossed = FALSE
  /\ bound = {} /\ ready = Providers
  /\ sessions = {}
  /\ challenge = NoChallenge
  /\ transaction = NoTransaction
  /\ request = [s \in Slots |-> NoRequest]

-----------------------------------------------------------------------------
(* Queries.                                                                *)

AdminCount == members
ExternalIdentityBinding == "oidc" \in bound
OAuthIdentityBinding == "oauth" \in bound
SessionByID(id) == \E x \in sessions : x.id = id

DeleteSession(ss, id) == {x \in ss : x.id # id}

\* Defect: no session is deleted.
DeleteNoSession(ss, id) == ss

DeleteOtherMemberSessions(ss, id) == {x \in ss : x.id = id}

\* Defect: the grants are left.
DeleteNoGrant(ss) == ss

DeleteMemberStepUpGrants(ss) == {[x EXCEPT !.grant = "none"] : x \in ss}

-----------------------------------------------------------------------------
(* Policies the service reads.                                             *)

externalLoginAvailable ==
  \/ "oidc" \in ready /\ ExternalIdentityBinding
  \/ "oauth" \in ready /\ OAuthIdentityBinding

passwordLoginAvailable == password \/ ~externalLoginAvailable

\* Defect: the other identity need not be bound.
AnyUnbindAllowed(p) == TRUE

\* rejectLastExternalUnbind: what would remain has to be ready and bound.
UnbindAllowed(p) == password \/ (ready \cap bound) \ {p} # {}

\* Defect: no second factor is asked for.
ProofWithoutFactor == "password"

\* policyProofValid, for a request that gives what is asked of it.
Proof == IF totp THEN "factor" ELSE "password"

-----------------------------------------------------------------------------
(* Requests, and what a revocation leaves.                                 *)

Begin(s, q) == request[s] = NoRequest /\ request' = [request EXCEPT ![s] = q]
Ends(s) == request' = [request EXCEPT ![s] = NoRequest]
Is(s, op, at) == request[s].op = op /\ request[s].at = at

\* What was granted before a revocation, and is left by its DELETEs, is stale from now on.
Outlived(ss, keep) ==
  {[x EXCEPT !.since = IF x.id = keep THEN @ ELSE "stale",
             !.grant = IF @ = "none" THEN @ ELSE "stale"] : x \in ss}

\* A revocation by the request in slot s, which goes on as q: other requests that have
\* passed their checks do not notice.
Revoked(s, q) ==
  /\ request' = [t \in Slots |->
       IF t = s THEN q
       ELSE IF request[t].since = "fresh" THEN [request[t] EXCEPT !.since = "late"]
       ELSE request[t]]
  /\ challenge' = IF challenge.since = "fresh" THEN [challenge EXCEPT !.since = "late"]
                  ELSE challenge

Issue(q, by) ==
  [op |-> q.op, at |-> "issue", id |-> 0, provider |-> q.provider, by |-> by,
   since |-> IF q.since = "none" THEN "fresh" ELSE q.since]

\* A session is no more recent than the challenge it was given on.
GrantedOn(s) ==
  IF request[s].op = "complete" /\ challenge.since = "late" THEN "late" ELSE request[s].since

\* issueSession, for every request that ends in one.
issueSession(s) ==
  /\ request[s].at = "issue"
  /\ \E id \in Ids :
       /\ ~SessionByID(id) /\ \A t \in Slots : request[t].id # id
       /\ sessions' = sessions \cup {[id |-> id, by |-> request[s].by,
                                      since |-> GrantedOn(s), grant |-> "none"]}
  /\ Ends(s)
  /\ UNCHANGED <<members, codes, totp, password, bound, ready, challenge, transaction, crossed>>

-----------------------------------------------------------------------------
(* Bootstrap.                                                              *)

\* Defect: the transaction takes no lock.
CountUnlocked(s) ==
  /\ AdminCount = 0
  /\ Begin(s, [op |-> "bootstrap", at |-> "counted", id |-> 0, provider |-> NoProvider,
               by |-> "none", since |-> "none"])
  /\ UNCHANGED <<members, codes, totp, password, bound, ready, sessions, challenge,
                 transaction, crossed>>

\* BootstrapAdministrator up to the count, under the advisory lock it holds to its end.
CountAdministrators(s) ==
  /\ \A t \in Slots : ~Is(t, "bootstrap", "counted")
  /\ AdminCount = 0
  /\ Begin(s, [op |-> "bootstrap", at |-> "counted", id |-> 0, provider |-> NoProvider,
               by |-> "none", since |-> "none"])
  /\ UNCHANGED <<members, codes, totp, password, bound, ready, sessions, challenge,
                 transaction, crossed>>

BootstrapAdministrator(s) ==
  /\ Is(s, "bootstrap", "counted")
  /\ codes > 0
  /\ codes' = codes - 1
  /\ members' = members + 1
  /\ request' = [request EXCEPT ![s] = Issue(@, "password")]
  /\ UNCHANGED <<totp, password, bound, ready, sessions, challenge, transaction, crossed>>

-----------------------------------------------------------------------------
(* Password login.                                                         *)

\* The policies, then the password.
Login(s) ==
  /\ members > 0
  /\ passwordLoginAvailable
  /\ Begin(s, [op |-> "login", at |-> IF totp THEN "checked" ELSE "issue", id |-> 0,
               provider |-> NoProvider, by |-> Proof, since |-> "fresh"])
  /\ UNCHANGED <<members, codes, totp, password, bound, ready, sessions, challenge,
                 transaction, crossed>>

\* Used and expired challenges are deleted first.
\* (One challenge at a time is a bound of the model.)
CreateLoginChallenge(s) ==
  /\ Is(s, "login", "checked")
  /\ challenge = NoChallenge \/ challenge.uses > 0
  /\ \A t \in Slots : request[t].op # "complete"
  /\ challenge' = [uses |-> 0, tries |-> 0, since |-> request[s].since]
  /\ Ends(s)
  /\ UNCHANGED <<members, codes, totp, password, bound, ready, sessions, transaction, crossed>>

\* Defect: whether passwords may be used is not asked again.
CompleteUnasked(s) ==
  /\ challenge # NoChallenge
  /\ Begin(s, [op |-> "complete", at |-> "asked", id |-> 0, provider |-> NoProvider,
               by |-> "none", since |-> "fresh"])
  /\ UNCHANGED <<members, codes, totp, password, bound, ready, sessions, challenge,
                 transaction, crossed>>

CompleteLogin(s) ==
  /\ challenge # NoChallenge
  /\ passwordLoginAvailable
  /\ Begin(s, [op |-> "complete", at |-> "asked", id |-> 0, provider |-> NoProvider,
               by |-> "none", since |-> "fresh"])
  /\ UNCHANGED <<members, codes, totp, password, bound, ready, sessions, challenge,
                 transaction, crossed>>

\* Defect: a challenge that was used is taken again.
ConsumeAgain(s) ==
  /\ Is(s, "complete", "asked")
  /\ challenge # NoChallenge
  /\ challenge' = [challenge EXCEPT !.uses = @ + 1]
  /\ request' = [request EXCEPT ![s].at = "redeemed"]
  /\ UNCHANGED <<members, codes, totp, password, bound, ready, sessions, transaction, crossed>>

\* Defect: the challenge is burned by a second factor that is right.
ConsumeLater(s) ==
  /\ Is(s, "complete", "asked")
  /\ challenge # NoChallenge /\ challenge.uses = 0
  /\ request' = [request EXCEPT ![s].at = "redeemed"]
  /\ UNCHANGED <<members, codes, totp, password, bound, ready, sessions, challenge,
                 transaction, crossed>>

ConsumeLoginChallenge(s) ==
  /\ Is(s, "complete", "asked")
  /\ challenge # NoChallenge /\ challenge.uses = 0
  /\ challenge' = [challenge EXCEPT !.uses = 1]
  /\ request' = [request EXCEPT ![s].at = "redeemed"]
  /\ UNCHANGED <<members, codes, totp, password, bound, ready, sessions, transaction, crossed>>

\* verifySecondFactor: a right one needs the confirmed enrollment, or its recovery codes,
\* which go with the policy.  A wrong one ends the request, the challenge being used.
TrySecondFactor(s) ==
  /\ Is(s, "complete", "redeemed")
  /\ challenge' = [challenge EXCEPT !.tries = @ + 1]
  /\ \/ /\ totp
        /\ request' = [request EXCEPT ![s] = Issue(@, "factor")]
     \/ Ends(s)
  /\ UNCHANGED <<members, codes, totp, password, bound, ready, sessions, transaction, crossed>>

-----------------------------------------------------------------------------
(* Requests of a session.                                                  *)

\* The session, the password and the policy proof, before the rest of a request.
Prove(s, op, id, p) ==
  /\ SessionByID(id)
  /\ Begin(s, [op |-> op, at |-> "proved", id |-> id, provider |-> p, by |-> Proof,
               since |-> "fresh"])
  /\ UNCHANGED <<members, codes, totp, password, bound, ready, sessions, challenge,
                 transaction, crossed>>

\* RenewSession
RenewSession(s, id) == Prove(s, "renew", id, NoProvider)

ReplaceSession(s) ==
  /\ Is(s, "renew", "proved")
  /\ sessions' = DeleteSession(sessions, request[s].id)
  /\ request' = [request EXCEPT ![s] = Issue(@, request[s].by)]
  /\ UNCHANGED <<members, codes, totp, password, bound, ready, challenge, transaction, crossed>>

\* StepUp up to its proof.
StepUp(s, id) == Prove(s, "stepup", id, NoProvider)

\* A statement of its own, whatever has committed since the proof; the session must still be
\* there (foreign key), and the grant goes with it.
UpsertStepUpGrant(s) ==
  LET id == request[s].id
  IN /\ Is(s, "stepup", "proved")
     /\ SessionByID(id)
     /\ sessions' =
          {IF x.id = id THEN [x EXCEPT !.grant = request[s].since] ELSE x : x \in sessions}
     /\ Ends(s)
     /\ UNCHANGED <<members, codes, totp, password, bound, ready, challenge, transaction,
                    crossed>>

\* ChangePassword and ChangeUsername.
ChangeCredentials(s, id) == Prove(s, "change", id, NoProvider)

\* The new password or username, and DELETE FROM sessions, in one transaction.
UpdateCredentials(s) ==
  /\ Is(s, "change", "proved")
  /\ sessions' = {}
  /\ Revoked(s, Issue(request[s], request[s].by))
  /\ UNCHANGED <<members, codes, totp, password, bound, ready, transaction, crossed>>

\* The transaction of ConfirmMFAEnrollment; what leads to it is in SecondFactor.
EnableTOTPLoginPolicy(s, id) ==
  /\ request[s] = NoRequest
  /\ SessionByID(id)
  /\ ~totp
  /\ totp' = TRUE
  /\ sessions' = Outlived(DeleteOtherMemberSessions(DeleteMemberStepUpGrants(sessions), id), id)
  /\ Revoked(s, NoRequest)
  /\ UNCHANGED <<members, codes, password, bound, ready, transaction, crossed>>

DisableTOTP(s, id) == totp /\ Prove(s, "disable", id, NoProvider)

DisableTOTPLoginPolicy(s) ==
  LET id == request[s].id
  IN /\ Is(s, "disable", "proved")
     /\ totp' = FALSE
     /\ sessions' = Outlived(DeleteOtherMemberSessions(DeleteMemberStepUpGrants(sessions), id), id)
     /\ Revoked(s, NoRequest)
     /\ UNCHANGED <<members, codes, password, bound, ready, transaction, crossed>>

\* DELETE FROM sessions of the caller.
Logout(id) ==
  /\ SessionByID(id)
  /\ sessions' = DeleteSession(sessions, id)
  /\ UNCHANGED <<members, codes, totp, password, bound, ready, challenge, transaction,
                 request, crossed>>

-----------------------------------------------------------------------------
(* Ways to sign in: the password-login policy and the external identities. *)

\* Another request has passed the checks that keep one way to sign in open.
Overlaps(s) ==
  \E t \in Slots \ {s} : Is(t, "close", "proved") \/ Is(t, "unbind", "proved")

\* SetPasswordLoginEnabled: the value it has already changes nothing.
OpenPasswordLogin(s, id) == ~password /\ Prove(s, "open", id, NoProvider)

ClosePasswordLogin(s, id) ==
  password /\ externalLoginAvailable /\ Prove(s, "close", id, NoProvider)

\* Turning the policy on revokes nothing.
SetPasswordLoginEnabled(s) ==
  LET id == request[s].id
  IN /\ \/ /\ Is(s, "open", "proved")
           /\ password' = TRUE
           /\ Ends(s)
           /\ UNCHANGED <<sessions, challenge, crossed>>
        \/ /\ Is(s, "close", "proved")
           /\ password' = FALSE
           /\ sessions' =
                Outlived(DeleteOtherMemberSessions(DeleteMemberStepUpGrants(sessions), id), id)
           /\ Revoked(s, NoRequest)
           /\ crossed' = (crossed \/ Overlaps(s))
     /\ UNCHANGED <<members, codes, totp, bound, ready, transaction>>

\* UnbindOIDC and UnbindOAuth.
Unbind(s, id, p) == p \in bound /\ UnbindAllowed(p) /\ Prove(s, "unbind", id, p)
UnbindOIDC(s, id) == Unbind(s, id, "oidc")
UnbindOAuth(s, id) == Unbind(s, id, "oauth")

\* UnbindExternalIdentity and UnbindOAuthIdentity.
DeleteBinding(s, p) ==
  LET id == request[s].id
  IN /\ Is(s, "unbind", "proved") /\ request[s].provider = p
     /\ bound' = bound \ {p}
     /\ sessions' = Outlived(DeleteMemberStepUpGrants(DeleteOtherMemberSessions(sessions, id)), id)
     /\ Revoked(s, NoRequest)
     /\ crossed' = (crossed \/ Overlaps(s))
     /\ UNCHANGED <<members, codes, totp, password, ready, transaction>>
UnbindExternalIdentity(s) == DeleteBinding(s, "oidc")
UnbindOAuthIdentity(s) == DeleteBinding(s, "oauth")

\* StartOIDCLogin and StartOAuthLogin.
StartLogin(p) ==
  /\ p \in ready \cap bound
  /\ transaction = NoTransaction
  /\ transaction' = [purpose |-> "login", provider |-> p]
  /\ UNCHANGED <<members, codes, totp, password, bound, ready, sessions, challenge, request,
                 crossed>>
StartOIDCLogin == StartLogin("oidc")
StartOAuthLogin == StartLogin("oauth")

\* StartOIDCBinding and StartOAuthBinding: session, password, policy proof, nothing bound.
StartBinding(id, p) ==
  /\ SessionByID(id)
  /\ p \in ready \ bound
  /\ transaction = NoTransaction
  /\ transaction' = [purpose |-> "bind", provider |-> p]
  /\ UNCHANGED <<members, codes, totp, password, bound, ready, sessions, challenge, request,
                 crossed>>
StartOIDCBinding(id) == StartBinding(id, "oidc")
StartOAuthBinding(id) == StartBinding(id, "oauth")

\* The callback of the provider takes the transaction, whatever becomes of the exchange.
ConsumeTransaction(s, p) ==
  /\ transaction.provider = p /\ p \in ready
  /\ transaction' = NoTransaction
  /\ Begin(s, [op |-> IF transaction.purpose = "bind" THEN "bind" ELSE "callback",
               at |-> "exchanged", id |-> 0, provider |-> p, by |-> "none", since |-> "none"])
  /\ UNCHANGED <<members, codes, totp, password, bound, ready, sessions, challenge, crossed>>
OIDCCallback(s) == ConsumeTransaction(s, "oidc")
OAuthCallback(s) == ConsumeTransaction(s, "oauth")

\* CompleteOIDCLogin and CompleteOAuthLogin: the identity must be the one bound now.
CompleteExternalLogin(s, p) ==
  /\ Is(s, "callback", "exchanged") /\ request[s].provider = p
  /\ p \in bound
  /\ request' = [request EXCEPT ![s] = Issue(@, "external")]
  /\ UNCHANGED <<members, codes, totp, password, bound, ready, sessions, challenge,
                 transaction, crossed>>
CompleteOIDCLogin(s) == CompleteExternalLogin(s, "oidc")
CompleteOAuthLogin(s) == CompleteExternalLogin(s, "oauth")

\* BindExternalIdentity and BindOAuthIdentity: for a browser with a session, whichever it is.
Bind(s, id, p) ==
  /\ Is(s, "bind", "exchanged") /\ request[s].provider = p
  /\ SessionByID(id)
  /\ p \notin bound
  /\ bound' = bound \cup {p}
  /\ sessions' = Outlived(DeleteMemberStepUpGrants(DeleteOtherMemberSessions(sessions, id)), id)
  /\ Revoked(s, NoRequest)
  /\ UNCHANGED <<members, codes, totp, password, ready, transaction, crossed>>
BindExternalIdentity(s, id) == Bind(s, id, "oidc")
BindOAuthIdentity(s, id) == Bind(s, id, "oauth")

-----------------------------------------------------------------------------
(* Time, failures and restarts.                                            *)

SessionExpires(id) ==
  /\ SessionByID(id)
  /\ sessions' = DeleteSession(sessions, id)
  /\ UNCHANGED <<members, codes, totp, password, bound, ready, challenge, transaction,
                 request, crossed>>

StepUpExpires(id) ==
  /\ \E x \in sessions : x.id = id /\ x.grant # "none"
  /\ sessions' = {IF x.id = id THEN [x EXCEPT !.grant = "none"] ELSE x : x \in sessions}
  /\ UNCHANGED <<members, codes, totp, password, bound, ready, challenge, transaction,
                 request, crossed>>

ChallengeExpires ==
  /\ challenge # NoChallenge
  /\ \A t \in Slots : request[t].op # "complete" \/ request[t].at = "asked"
  /\ challenge' = NoChallenge
  /\ UNCHANGED <<members, codes, totp, password, bound, ready, sessions, transaction,
                 request, crossed>>

TransactionExpires ==
  /\ transaction # NoTransaction
  /\ transaction' = NoTransaction
  /\ UNCHANGED <<members, codes, totp, password, bound, ready, sessions, challenge,
                 request, crossed>>

\* A check that is not listed as a guard failed, or the connection was cut.
AbandonRequest(s) ==
  /\ request[s] # NoRequest
  /\ Ends(s)
  /\ UNCHANGED <<members, codes, totp, password, bound, ready, sessions, challenge,
                 transaction, crossed>>

\* The process starts with the providers of its configuration, those whose discovery works;
\* without an Administrator it issues another Bootstrap Code.
Restart ==
  /\ ready' \in SUBSET Providers
  /\ codes' = IF AdminCount = 0 /\ codes < MaxCodes THEN codes + 1 ELSE codes
  /\ request' = [s \in Slots |-> NoRequest]
  /\ UNCHANGED <<members, totp, password, bound, sessions, challenge, transaction, crossed>>

SignInNext ==
  \/ \E s \in Slots :
       \/ CountAdministrators(s)
       \/ BootstrapAdministrator(s)
       \/ Login(s)
       \/ CreateLoginChallenge(s)
       \/ CompleteLogin(s)
       \/ ConsumeLoginChallenge(s)
       \/ TrySecondFactor(s)
       \/ ReplaceSession(s)
       \/ UpsertStepUpGrant(s)
       \/ UpdateCredentials(s)
       \/ DisableTOTPLoginPolicy(s)
       \/ SetPasswordLoginEnabled(s)
       \/ UnbindExternalIdentity(s)
       \/ UnbindOAuthIdentity(s)
       \/ OIDCCallback(s)
       \/ OAuthCallback(s)
       \/ CompleteOIDCLogin(s)
       \/ CompleteOAuthLogin(s)
       \/ issueSession(s)
       \/ AbandonRequest(s)
       \/ \E id \in Ids :
            \/ RenewSession(s, id)
            \/ StepUp(s, id)
            \/ ChangeCredentials(s, id)
            \/ EnableTOTPLoginPolicy(s, id)
            \/ DisableTOTP(s, id)
            \/ OpenPasswordLogin(s, id)
            \/ ClosePasswordLogin(s, id)
            \/ UnbindOIDC(s, id)
            \/ UnbindOAuth(s, id)
            \/ BindExternalIdentity(s, id)
            \/ BindOAuthIdentity(s, id)
  \/ \E id \in Ids :
       \/ Logout(id)
       \/ StartOIDCBinding(id)
       \/ StartOAuthBinding(id)
       \/ SessionExpires(id)
       \/ StepUpExpires(id)
  \/ StartOIDCLogin
  \/ StartOAuthLogin
  \/ ChallengeExpires
  \/ TransactionExpires
  \/ Restart

SignInSpec == SignInInit /\ [][SignInNext]_siVars

-----------------------------------------------------------------------------
(* Properties.                                                             *)

\* However many Bootstrap Codes are valid and whatever bootstraps overlap, there is one
\* Administrator at most.
OneAdministrator == members <= 1

\* ADR-0027: while password login is turned off an external identity is bound, unless the
\* policy was turned off while an unbind was past its checks, or the reverse.
ClosedPasswordHasBinding == ~crossed /\ ~password => bound # {}

\* No Session outlives a change of credentials, of the TOTP policy, of the password-login
\* policy or of the bound identities, except the one the change was made from; one may be
\* issued late, to a request or on a challenge that the change met under way.
SessionsAreCurrent == \A x \in sessions : x.since # "stale"

\* No Step-up Grant outlives such a change, not even that of the Session it was made from; one
\* may be given late, on a proof that the change met before its grant was written.
GrantsAreCurrent == \A x \in sessions : x.grant # "stale"

\* While TOTP is required, one Session at most was given for a password alone, the one that
\* turned it on, apart from logins that turning it on met under way.
FactorIsEnforced ==
  totp => Cardinality({x \in sessions : x.by = "password" /\ x.since # "late"}) <= 1

\* A sign-in ends in a Session only by a way that is open: with a password, or on a challenge
\* from before, while passwords admit somebody, and through an identity that is still bound;
\* unless a revocation met it after it had looked.
WaysInAreOpen ==
  \A s \in Slots : LET q == request[s] IN
    q.at = "issue" /\ q.since = "fresh" =>
      /\ q.op \in {"login", "complete"} => passwordLoginAvailable
      /\ q.op = "callback" => q.provider \in bound

\* A challenge is worth one attempt at the second factor, right or wrong, whatever requests
\* present it at the same time.
ChallengesAllowOneAttempt == challenge.tries <= 1
=============================================================================
