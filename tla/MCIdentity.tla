------------------------------ MODULE MCIdentity ------------------------------
(***************************************************************************)
(* The Administrator's side on small instances: SignIn, SecondFactor,      *)
(* FailureLimiter and Pages.  They share no variable, so that a state of   *)
(* all of them is a state of each: "part" says which one is explored, and  *)
(* the others stay where they started.  SignIn is explored four times,     *)
(* with the requests whose overlaps matter to each other.                  *)
(***************************************************************************)
EXTENDS SignIn, SecondFactor, FailureLimiter, Pages

VARIABLE part

Parts == {"limiter", "factor", "sessions", "ways", "policies", "bindings", "pages"}

IdentityInit ==
  /\ part \in Parts
  /\ FailureLimiterInit
  /\ SecondFactorInit
  /\ SignInInit
  /\ part = "pages" \/ (list = "nodes" /\ rows = {})
  /\ PagesInit

Explored(p) == part = p /\ part' = p

LimiterNext == Explored("limiter") /\ UNCHANGED <<sfVars, siVars, pagesVars>> /\ FailureLimiterNext
FactorNext == Explored("factor") /\ UNCHANGED <<flVars, siVars, pagesVars>> /\ SecondFactorNext
ListsNext == Explored("pages") /\ UNCHANGED <<flVars, sfVars, siVars>> /\ PagesNext

-----------------------------------------------------------------------------
(* SignIn, less some of what it can do.                                    *)

\* No requests but these, and bootstraps.
Starts(ops) ==
  \A s \in Slots : request'[s].op \in ops \cup {request[s].op, "none", "bootstrap"}

Through(providers) == transaction'.provider \in providers \cup {NoProvider}

NoRestart == ready' = ready /\ codes' <= codes

NoStepUp == \A x \in sessions' : x.grant = "none"

OneSession == \A x \in sessions' : x.id = 1

SignInOnly == UNCHANGED <<flVars, sfVars, pagesVars>> /\ SignInNext

SessionsNext ==
  /\ Explored("sessions") /\ SignInOnly
  /\ Starts({"login", "complete", "renew", "stepup", "change", "disable"})
  /\ Through({}) /\ NoRestart

WaysNext ==
  /\ Explored("ways") /\ SignInOnly
  /\ Starts({"login", "close", "open", "unbind", "callback", "bind"})
  /\ ~totp' /\ NoStepUp /\ OneSession

PoliciesNext ==
  /\ Explored("policies") /\ SignInOnly
  /\ Starts({"login", "complete", "stepup", "close", "callback", "bind"})
  /\ Through({"oidc"}) /\ NoRestart

BindingsNext ==
  /\ Explored("bindings") /\ SignInOnly
  /\ Starts({"login", "stepup", "close", "unbind", "callback", "bind"})
  /\ Through({"oidc"}) /\ NoRestart
  /\ ~totp'

IdentityNext ==
  \/ LimiterNext
  \/ FactorNext
  \/ SessionsNext
  \/ WaysNext
  \/ PoliciesNext
  \/ BindingsNext
  \/ ListsNext

IdentitySpec == IdentityInit /\ [][IdentityNext]_<<part, flVars, sfVars, siVars, pagesVars>>

\* The four state machines keep their types: what the code stores of the Administrator, and
\* what a page of a list is made of.
IdentityTypeOK ==
  /\ FailureLimiterTypeOK
  /\ SecondFactorTypeOK
  /\ SignInTypeOK
  /\ PagesTypeOK
=============================================================================
