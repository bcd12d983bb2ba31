----------------------------- MODULE Enrollment -----------------------------
(***************************************************************************)
(* How a host becomes a Managed Node.  An administrator reserves a node    *)
(* and has an Install Command rendered, which carries an Enrollment Token; *)
(* the command, run on a host, makes keys there and exchanges the token    *)
(* for a certificate; from then on Core knows the host by the serial of    *)
(* its certificate, and seals what the node receives to its age key.       *)
(*                                                                         *)
(* Three transactions of Core and four files of the host take part, and    *)
(* anything may stop between two of them.  A key pair, and the certificate *)
(* for it, are named by the number of the attempt that made them; 0 is a   *)
(* file that is missing or was left empty.                                 *)
(***************************************************************************)
EXTENDS Naturals, FiniteSets

CONSTANTS
  Nodes,         \* ids of Managed Nodes; never used twice
  Hosts,         \* machines an Install Command can be run on
  Tokens,        \* Enrollment Tokens; never used twice
  NoNode,        \* no id in state.json
  MaxAttempts    \* bound on the runs of "enroll", on all hosts together

ASSUME EnrollmentAssumption ==
  /\ NoNode \notin Nodes
  /\ MaxAttempts \in Nat

VARIABLES
  node,          \* nodes: status, serial, age_pubkey
  token,         \* enrollment_tokens
  inflight,      \* enroll requests: on their way, in handleEnroll, or answered
  attempts,      \* runs of "enroll" so far
  proc,          \* on each host, the enroll process
  disk,          \* on each host, identity_dir
  certs,         \* history: the certificates Core has activated
  broken         \* history: hosts on which an enrollment died halfway through its files

vars == <<node, token, inflight, attempts, proc, disk, certs, broken>>

Keys == 1 .. MaxAttempts

Row == [status : {"none", "pending", "enrolled", "deleted"}, serial : 0 .. MaxAttempts,
        age : 0 .. MaxAttempts]

TokenRow == [status : {"none", "fresh", "used", "expired", "gone"}, node : Nodes \cup {NoNode}]

Request == [host : Hosts, token : Tokens, key : Keys, age : Keys, node : Nodes \cup {NoNode},
            at : {"sent", "consumed", "activated", "denied"}]

Process == [at : {"idle", "asked", "age.key", "mtls.key", "cert.pem", "state.json"},
            key : 0 .. MaxAttempts, age : 0 .. MaxAttempts, node : Nodes \cup {NoNode}]

Identity == [age : 0 .. MaxAttempts, key : 0 .. MaxAttempts, cert : 0 .. MaxAttempts,
             node : Nodes \cup {NoNode}]

Cert == [key : Keys, node : Nodes, token : Tokens]

TypeOK ==
  /\ node \in [Nodes -> Row]
  /\ token \in [Tokens -> TokenRow]
  /\ inflight \subseteq Request
  /\ attempts \in 0 .. MaxAttempts
  /\ proc \in [Hosts -> Process]
  /\ disk \in [Hosts -> Identity]
  /\ certs \subseteq Cert
  /\ broken \subseteq Hosts

Idle == [at |-> "idle", key |-> 0, age |-> 0, node |-> NoNode]

Init ==
  /\ node = [n \in Nodes |-> [status |-> "none", serial |-> 0, age |-> 0]]
  /\ token = [t \in Tokens |-> [status |-> "none", node |-> NoNode]]
  /\ inflight = {}
  /\ attempts = 0
  /\ proc = [h \in Hosts |-> Idle]
  /\ disk = [h \in Hosts |-> [age |-> 0, key |-> 0, cert |-> 0, node |-> NoNode]]
  /\ certs = {}
  /\ broken = {}

Exists(n) == node[n].status \in {"pending", "enrolled"}

Becomes(q, r) == inflight' = (inflight \ {q}) \cup {r}

-----------------------------------------------------------------------------
(* Administrators, and time.                                               *)

CreatePendingNode(n) ==
  /\ node[n].status = "none"
  /\ node' = [node EXCEPT ![n].status = "pending"]
  /\ UNCHANGED <<token, inflight, attempts, proc, disk, certs, broken>>

\* The foreign key of the token needs the node; that it is enrolled already does not matter.
CreateNodeEnrollmentToken(n, t) ==
  /\ Exists(n)
  /\ token[t].status = "none"
  /\ token' = [token EXCEPT ![t] = [status |-> "fresh", node |-> n]]
  /\ UNCHANGED <<node, inflight, attempts, proc, disk, certs, broken>>

\* Its tokens cascade.
DeleteNode(n) ==
  /\ Exists(n)
  /\ node' = [node EXCEPT ![n] = [status |-> "deleted", serial |-> 0, age |-> 0]]
  /\ token' = [t \in Tokens |->
                 IF token[t].node = n THEN [token[t] EXCEPT !.status = "gone"] ELSE token[t]]
  /\ UNCHANGED <<inflight, attempts, proc, disk, certs, broken>>

TokenExpires(t) ==
  /\ token[t].status = "fresh"
  /\ token' = [token EXCEPT ![t].status = "expired"]
  /\ UNCHANGED <<node, inflight, attempts, proc, disk, certs, broken>>

-----------------------------------------------------------------------------
(* Core: handleEnroll.                                                     *)

\* Defect: the token is not looked at again once it is locked.
ConsumeUnchecked(q) ==
  /\ q.at = "sent"
  /\ token' = [token EXCEPT ![q.token].status =
                 IF token[q.token].status \in {"fresh", "used"} THEN "used" ELSE @]
  /\ Becomes(q, IF token[q.token].status \in {"fresh", "used"}
                  THEN [q EXCEPT !.at = "consumed", !.node = token[q.token].node]
                  ELSE [q EXCEPT !.at = "denied"])
  /\ UNCHANGED <<node, attempts, proc, disk, certs, broken>>

\* ConsumeEnrollmentToken: the row is locked from SELECT to COMMIT.
ConsumeEnrollmentToken(q) ==
  /\ q.at = "sent"
  /\ \/ /\ token[q.token].status = "fresh"
        /\ token' = [token EXCEPT ![q.token].status = "used"]
        /\ Becomes(q, [q EXCEPT !.at = "consumed", !.node = token[q.token].node])
     \/ /\ token[q.token].status # "fresh"
        /\ Becomes(q, [q EXCEPT !.at = "denied"])
        /\ UNCHANGED token
  /\ UNCHANGED <<node, attempts, proc, disk, certs, broken>>

\* Defect: a row that has gone is inserted again.
ActivateAnyNode(q) ==
  /\ q.at = "consumed"
  /\ node' = [node EXCEPT ![q.node] = [status |-> "enrolled", serial |-> q.key, age |-> q.age]]
  /\ certs' = certs \cup {[key |-> q.key, node |-> q.node, token |-> q.token]}
  /\ Becomes(q, [q EXCEPT !.at = "activated"])
  /\ UNCHANGED <<token, attempts, proc, disk, broken>>

\* IssueAgentCert and ActivatePendingNode: one UPDATE, of a node in whatever status.
ActivatePendingNode(q) ==
  /\ q.at = "consumed"
  /\ \/ /\ Exists(q.node)
        /\ node' = [node EXCEPT ![q.node] =
                      [status |-> "enrolled", serial |-> q.key, age |-> q.age]]
        /\ certs' = certs \cup {[key |-> q.key, node |-> q.node, token |-> q.token]}
        /\ Becomes(q, [q EXCEPT !.at = "activated"])
     \/ /\ ~ Exists(q.node)
        /\ Becomes(q, [q EXCEPT !.at = "denied"])
        /\ UNCHANGED <<node, certs>>
  /\ UNCHANGED <<token, attempts, proc, disk, broken>>

Awaits(h, q) == proc[h].at = "asked" /\ proc[h].key = q.key

\* The request or its reply is lost, or Core restarts.
Abandon(q) ==
  /\ inflight' = inflight \ {q}
  /\ proc' = IF Awaits(q.host, q) THEN [proc EXCEPT ![q.host] = Idle] ELSE proc
  /\ UNCHANGED <<node, token, attempts, disk, certs, broken>>

\* 201 or 403; nobody hears it when the host has given up.
Reply(q) ==
  /\ q.at \in {"activated", "denied"}
  /\ inflight' = inflight \ {q}
  /\ proc' = IF ~ Awaits(q.host, q) THEN proc
             ELSE IF q.at = "denied" THEN [proc EXCEPT ![q.host] = Idle]
             ELSE [proc EXCEPT ![q.host].at = "age.key", ![q.host].node = q.node]
  /\ UNCHANGED <<node, token, attempts, disk, certs, broken>>

-----------------------------------------------------------------------------
(* A host: "autosecrets-agent enroll".                                     *)

\* Defect: a missing age key is not generated, and an empty one is sent.
EnrollWithoutAge(h, t) ==
  LET key == attempts + 1
      age == disk[h].age
  IN /\ proc[h].at = "idle" /\ token[t].status # "none" /\ attempts < MaxAttempts
     /\ attempts' = key
     /\ proc' = [proc EXCEPT ![h] = [at |-> "asked", key |-> key, age |-> age, node |-> NoNode]]
     /\ inflight' = inflight \cup {[host |-> h, token |-> t, key |-> key, age |-> age,
                                    node |-> NoNode, at |-> "sent"]}
     /\ UNCHANGED <<node, token, disk, certs, broken>>

\* Defect: every attempt makes a new age key.
EnrollAfresh(h, t) ==
  LET key == attempts + 1
  IN /\ proc[h].at = "idle" /\ token[t].status # "none" /\ attempts < MaxAttempts
     /\ attempts' = key
     /\ disk' = [disk EXCEPT ![h].age = key]
     /\ proc' = [proc EXCEPT ![h] = [at |-> "asked", key |-> key, age |-> key, node |-> NoNode]]
     /\ inflight' = inflight \cup {[host |-> h, token |-> t, key |-> key, age |-> key,
                                    node |-> NoNode, at |-> "sent"]}
     /\ UNCHANGED <<node, token, certs, broken>>

\* Any command that was rendered, on any host, as often as one likes.
Enroll(h, t) ==
  LET key == attempts + 1
      age == IF disk[h].age # 0 THEN disk[h].age ELSE key
  IN /\ proc[h].at = "idle" /\ token[t].status # "none" /\ attempts < MaxAttempts
     /\ attempts' = key
     /\ disk' = [disk EXCEPT ![h].age = age]
     /\ proc' = [proc EXCEPT ![h] = [at |-> "asked", key |-> key, age |-> age, node |-> NoNode]]
     /\ inflight' = inflight \cup {[host |-> h, token |-> t, key |-> key, age |-> age,
                                    node |-> NoNode, at |-> "sent"]}
     /\ UNCHANGED <<node, token, certs, broken>>

\* After 30 seconds; Core goes on with the request.
GiveUp(h) ==
  /\ proc[h].at = "asked"
  /\ proc' = [proc EXCEPT ![h] = Idle]
  /\ UNCHANGED <<node, token, inflight, attempts, disk, certs, broken>>

\* Defect: the certificate is written without the key that belongs to it.
SaveCertOnly(h) ==
  /\ \/ /\ proc[h].at = "age.key"
        /\ proc' = [proc EXCEPT ![h].at = "cert.pem"]
        /\ disk' = [disk EXCEPT ![h].age = proc[h].age]
     \/ /\ proc[h].at = "cert.pem"
        /\ proc' = [proc EXCEPT ![h].at = "state.json"]
        /\ disk' = [disk EXCEPT ![h].cert = proc[h].key]
     \/ /\ proc[h].at = "state.json"
        /\ proc' = [proc EXCEPT ![h] = Idle]
        /\ disk' = [disk EXCEPT ![h].node = proc[h].node]
  /\ broken' = IF proc[h].at = "state.json" THEN broken \ {h} ELSE broken
  /\ UNCHANGED <<node, token, inflight, attempts, certs>>

\* save_identity, one file after the other (ca.pem goes with cert.pem).
SaveIdentity(h) ==
  /\ \/ /\ proc[h].at = "age.key"
        /\ proc' = [proc EXCEPT ![h].at = "mtls.key"]
        /\ disk' = [disk EXCEPT ![h].age = proc[h].age]
     \/ /\ proc[h].at = "mtls.key"
        /\ proc' = [proc EXCEPT ![h].at = "cert.pem"]
        /\ disk' = [disk EXCEPT ![h].key = proc[h].key]
     \/ /\ proc[h].at = "cert.pem"
        /\ proc' = [proc EXCEPT ![h].at = "state.json"]
        /\ disk' = [disk EXCEPT ![h].cert = proc[h].key]
     \/ /\ proc[h].at = "state.json"
        /\ proc' = [proc EXCEPT ![h] = Idle]
        /\ disk' = [disk EXCEPT ![h].node = proc[h].node]
  /\ broken' = IF proc[h].at = "state.json" THEN broken \ {h} ELSE broken
  /\ UNCHANGED <<node, token, inflight, attempts, certs>>

\* The process dies before a file is opened, or after it is truncated.
Crash(h) ==
  /\ proc[h].at \notin {"idle", "asked"}
  /\ proc' = [proc EXCEPT ![h] = Idle]
  /\ \/ disk' = disk
     \/ proc[h].at = "age.key" /\ disk' = [disk EXCEPT ![h].age = 0]
     \/ proc[h].at = "mtls.key" /\ disk' = [disk EXCEPT ![h].key = 0]
     \/ proc[h].at = "cert.pem" /\ disk' = [disk EXCEPT ![h].cert = 0]
     \/ proc[h].at = "state.json" /\ disk' = [disk EXCEPT ![h].node = NoNode]
  /\ broken' = broken \cup {h}
  /\ UNCHANGED <<node, token, inflight, attempts, certs>>

-----------------------------------------------------------------------------

Next ==
  \/ \E n \in Nodes :
       \/ CreatePendingNode(n)
       \/ DeleteNode(n)
       \/ \E t \in Tokens : CreateNodeEnrollmentToken(n, t)
  \/ \E t \in Tokens : TokenExpires(t)
  \/ \E q \in inflight :
       ConsumeEnrollmentToken(q) \/ ActivatePendingNode(q) \/ Abandon(q) \/ Reply(q)
  \/ \E h \in Hosts :
       \/ \E t \in Tokens : Enroll(h, t)
       \/ GiveUp(h)
       \/ SaveIdentity(h)
       \/ Crash(h)

Spec == Init /\ [][Next]_vars

-----------------------------------------------------------------------------
(* Properties.                                                             *)

\* The identity load_identity returns and AgentAPI can use: every file is there, and the
\* certificate is that of the private key.
Usable(h) ==
  /\ disk[h].age # 0
  /\ disk[h].key # 0 /\ disk[h].cert = disk[h].key
  /\ disk[h].node # NoNode

\* No enrollment is writing files, nor has one died while it did.
Settled(h) == h \notin broken /\ proc[h].at \in {"idle", "asked"}

\* nodeFromRequest: Core takes host h for node n.
AcceptedAs(h, n) == Usable(h) /\ node[n].status = "enrolled" /\ node[n].serial = disk[h].cert

\* "a second enrollment with the same token fails": whoever presents it, however late an
\* answer is, a token gives one certificate.
TokensAreSingleUse == \A c, d \in certs : c.token = d.token => c = d

\* A host that Core takes for a node has the age key the envelopes of that node are sealed
\* to, and reports under the id of that node; attempts to enroll again, whether refused,
\* lost or answered too late, do not change that.
AcceptedCanRead ==
  \A h \in Hosts, n \in Nodes :
    Settled(h) /\ AcceptedAs(h, n) => node[n].age = disk[h].age /\ disk[h].node = n

\* Once "enroll" has succeeded on a host, Core knows the host, unless the node was deleted
\* or another certificate was activated for it.
EnrolledIsAccepted ==
  \A h \in Hosts : Settled(h) /\ disk[h].node # NoNode =>
    LET n == disk[h].node
    IN \/ AcceptedAs(h, n)
       \/ node[n].status = "deleted"
       \/ \E c \in certs : c.node = n /\ c.key # disk[h].cert

\* An enrollment under way when its node is deleted does not bring the node back.
DeletedStaysOut ==
  [][\A n \in Nodes : node[n].status = "deleted" => node'[n] = node[n]]_vars
=============================================================================
