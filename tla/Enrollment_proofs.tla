------------------------- MODULE Enrollment_proofs -------------------------
(***************************************************************************)
(* Proofs about Enrollment, for every value of its constants.              *)
(*                                                                         *)
(* "Inv" follows one key pair from the attempt that makes it to the files  *)
(* it ends in: as long as its request is in flight no file and no          *)
(* certificate has it; from the reply on, what the host writes is what     *)
(* Core has activated.                                                     *)
(***************************************************************************)
EXTENDS Enrollment, TLAPS

\* The host is writing the files of an enrollment that Core has answered.
Saving(h) == proc[h].at \in {"age.key", "mtls.key", "cert.pem", "state.json"}

\* No file of an earlier enrollment has been replaced, except by what it held already.
Untouched(h) == h \notin broken /\ proc[h].at \in {"idle", "asked", "age.key", "mtls.key"}

\* Attempts are numbered in order.
KeysArePast ==
  /\ \A q \in inflight : q.key <= attempts
  /\ \A c \in certs : c.key <= attempts
  /\ \A n \in Nodes : node[n].serial <= attempts
  /\ \A h \in Hosts : proc[h].key <= attempts /\ disk[h].key <= attempts
                      /\ disk[h].cert <= attempts

\* Each attempt sends one request, which ends in one certificate at most.
RequestsAreUnique ==
  /\ \A p, q \in inflight : p.key = q.key => p = q
  /\ \A q \in inflight : q.at # "activated" => \A c \in certs : c.key # q.key
  /\ \A q \in inflight : q.at = "activated" =>
       \E c \in certs : c.key = q.key /\ c.node = q.node
  /\ \A c, d \in certs : c.key = d.key => c = d

\* The token of a certificate, or of a request that has consumed one, is spent on it.
TokensAreSpent ==
  /\ \A c \in certs : token[c.token].status \in {"used", "gone"}
  /\ \A q \in inflight : q.at = "consumed" =>
       /\ token[q.token].status \in {"used", "gone"}
       /\ \A c \in certs : c.token # q.token
       /\ q.node \in Nodes
  /\ \A p, q \in inflight :
       p.at = "consumed" /\ q.at = "consumed" /\ p.token = q.token => p = q
  /\ \A t \in Tokens : token[t].status = "fresh" => token[t].node \in Nodes
  /\ TokensAreSingleUse

\* What Core knows of a node comes from a certificate, and stays with deletion only.
RowsAreCertified ==
  /\ \A n \in Nodes : node[n].status = "enrolled" =>
       \E c \in certs : c.key = node[n].serial /\ c.node = n
  /\ \A c \in certs : node[c.node].status \in {"enrolled", "deleted"}

\* The key of a request is with the process that sent it, and nowhere else.
RequestsAreOfProcesses ==
  \A q \in inflight, h \in Hosts :
    /\ disk[h].key # q.key /\ disk[h].cert # q.key
    /\ Saving(h) => proc[h].key # q.key
    /\ proc[h].at = "asked" /\ proc[h].key = q.key => h = q.host /\ proc[h].age = q.age

\* What a process holds is what its host has on disk, and what Core has activated.
ProcessesAreSound ==
  \A h \in Hosts : proc[h].at # "idle" =>
    /\ proc[h].age = disk[h].age /\ proc[h].age # 0 /\ proc[h].key # 0
    /\ \A n \in Nodes : node[n].serial = proc[h].key => node[n].age = proc[h].age
    /\ Saving(h) => \E c \in certs : c.key = proc[h].key /\ c.node = proc[h].node
    /\ proc[h].at \in {"cert.pem", "state.json"} => disk[h].key = proc[h].key
    /\ proc[h].at = "state.json" => disk[h].cert = proc[h].key

\* The files of a finished enrollment belong together, and to what Core has activated.
DisksAreSound ==
  \A h \in Hosts : Untouched(h) /\ disk[h].node # NoNode =>
    /\ disk[h].age # 0 /\ disk[h].key # 0 /\ disk[h].cert = disk[h].key
    /\ \E c \in certs : c.key = disk[h].cert /\ c.node = disk[h].node
    /\ \A n \in Nodes : node[n].serial = disk[h].cert => node[n].age = disk[h].age

Inv ==
  /\ TypeOK
  /\ KeysArePast
  /\ RequestsAreUnique
  /\ TokensAreSpent
  /\ RowsAreCertified
  /\ RequestsAreOfProcesses
  /\ ProcessesAreSound
  /\ DisksAreSound

-----------------------------------------------------------------------------
(* What the steps do, field by field.                                      *)

LEMMA ConsumeEffect ==
  ASSUME TypeOK, NEW q \in inflight, ConsumeEnrollmentToken(q)
  PROVE  \E r \in Request :
           /\ inflight' = (inflight \ {q}) \cup {r}
           /\ r.host = q.host /\ r.token = q.token /\ r.key = q.key /\ r.age = q.age
           /\ \A t \in Tokens : t # q.token => token'[t] = token[t]
           /\ \/ /\ token[q.token].status = "fresh"
                 /\ token'[q.token].status = "used" /\ token'[q.token].node = token[q.token].node
                 /\ r.at = "consumed" /\ r.node = token[q.token].node
              \/ token' = token /\ r.at = "denied"
<1>1. q \in Request /\ token[q.token] \in TokenRow
  BY DEF TypeOK, Request
<1>2. CASE token[q.token].status = "fresh" /\ Becomes(q, [q EXCEPT !.at = "consumed",
                                                                  !.node = token[q.token].node])
  <2> DEFINE r == [q EXCEPT !.at = "consumed", !.node = token[q.token].node]
  <2>1. r \in Request /\ r.host = q.host /\ r.token = q.token /\ r.key = q.key /\ r.age = q.age
        /\ r.at = "consumed" /\ r.node = token[q.token].node
    BY <1>1 DEF Request, TokenRow
  <2>2. inflight' = (inflight \ {q}) \cup {r}
    BY <1>2 DEF Becomes
  <2>3. token' = [token EXCEPT ![q.token].status = "used"]
    BY <1>2 DEF ConsumeEnrollmentToken
  <2>4. /\ \A t \in Tokens : t # q.token => token'[t] = token[t]
        /\ token'[q.token].status = "used" /\ token'[q.token].node = token[q.token].node
    BY <1>1, <2>3 DEF TypeOK, TokenRow, Request
  <2> HIDE DEF r
  <2> QED
    BY <1>2, <2>1, <2>2, <2>4
<1>3. CASE Becomes(q, [q EXCEPT !.at = "denied"]) /\ UNCHANGED token
  <2> DEFINE r == [q EXCEPT !.at = "denied"]
  <2>1. r \in Request /\ r.host = q.host /\ r.token = q.token /\ r.key = q.key /\ r.age = q.age
        /\ r.at = "denied"
    BY <1>1 DEF Request
  <2>2. inflight' = (inflight \ {q}) \cup {r}
    BY <1>3 DEF Becomes
  <2> HIDE DEF r
  <2> QED
    BY <1>3, <2>1, <2>2
<1> QED
  BY <1>2, <1>3 DEF ConsumeEnrollmentToken

LEMMA ActivateEffect ==
  ASSUME TypeOK, TokensAreSpent, NEW q \in inflight, ActivatePendingNode(q)
  PROVE  \E r \in Request :
           /\ q.at = "consumed" /\ q.node \in Nodes
           /\ inflight' = (inflight \ {q}) \cup {r}
           /\ r.host = q.host /\ r.token = q.token /\ r.key = q.key /\ r.age = q.age
           /\ r.node = q.node
           /\ \/ /\ r.at = "activated" /\ Exists(q.node)
                 /\ certs' = certs \cup {[key |-> q.key, node |-> q.node, token |-> q.token]}
                 /\ node' = [node EXCEPT ![q.node] =
                               [status |-> "enrolled", serial |-> q.key, age |-> q.age]]
              \/ r.at = "denied" /\ UNCHANGED <<node, certs>>
<1>1. q \in Request /\ q.at = "consumed" /\ q.node \in Nodes
  BY DEF TypeOK, TokensAreSpent, ActivatePendingNode
<1>2. ASSUME NEW at \in {"activated", "denied"}, Becomes(q, [q EXCEPT !.at = at])
      PROVE  \E r \in Request :
               /\ inflight' = (inflight \ {q}) \cup {r}
               /\ r.host = q.host /\ r.token = q.token /\ r.key = q.key /\ r.age = q.age
               /\ r.node = q.node /\ r.at = at
  <2> DEFINE r == [q EXCEPT !.at = at]
  <2>1. r \in Request /\ r.host = q.host /\ r.token = q.token /\ r.key = q.key /\ r.age = q.age
        /\ r.node = q.node /\ r.at = at
    BY <1>1 DEF Request
  <2>2. inflight' = (inflight \ {q}) \cup {r}
    BY <1>2 DEF Becomes
  <2> HIDE DEF r
  <2> QED
    BY <2>1, <2>2
<1> QED
  BY <1>1, <1>2 DEF ActivatePendingNode

LEMMA EnrollEffect ==
  ASSUME TypeOK, NEW h \in Hosts, NEW t \in Tokens, Enroll(h, t)
  PROVE  \E r \in Request :
           /\ proc[h].at = "idle" /\ attempts' = attempts + 1 /\ attempts + 1 \in Keys
           /\ r.host = h /\ r.token = t /\ r.key = attempts + 1 /\ r.at = "sent"
           /\ r.age = IF disk[h].age # 0 THEN disk[h].age ELSE attempts + 1
           /\ inflight' = inflight \cup {r}
           /\ proc' = [proc EXCEPT ![h] =
                         [at |-> "asked", key |-> r.key, age |-> r.age, node |-> NoNode]]
           /\ disk' = [disk EXCEPT ![h].age = r.age]
<1> DEFINE age == IF disk[h].age # 0 THEN disk[h].age ELSE attempts + 1
           r == [host |-> h, token |-> t, key |-> attempts + 1, age |-> age, node |-> NoNode,
                 at |-> "sent"]
<1>1. attempts' = attempts + 1 /\ attempts + 1 \in Keys
  BY EnrollmentAssumption DEF TypeOK, Enroll, Keys
<1>2. age \in Keys
  BY <1>1, EnrollmentAssumption DEF TypeOK, Identity, Keys
<1> HIDE DEF age
<1>3. r \in Request
  BY <1>1, <1>2 DEF Request
<1>4. /\ inflight' = inflight \cup {r}
      /\ proc' = [proc EXCEPT ![h] = [at |-> "asked", key |-> r.key, age |-> r.age,
                                      node |-> NoNode]]
      /\ disk' = [disk EXCEPT ![h].age = r.age]
  BY DEF Enroll, age
<1>5. r.host = h /\ r.token = t /\ r.key = attempts + 1 /\ r.at = "sent" /\ r.age = age
  OBVIOUS
<1> HIDE DEF r
<1> QED
  BY <1>1, <1>3, <1>4, <1>5 DEF Enroll, age

-----------------------------------------------------------------------------
(* Type correctness.                                                       *)

LEMMA TypeStep ==
  ASSUME TypeOK, TokensAreSpent, [Next]_vars
  PROVE  TypeOK'
<1> USE EnrollmentAssumption
<1>1. ASSUME NEW n \in Nodes, CreatePendingNode(n)
      PROVE  TypeOK'
  BY <1>1 DEF TypeOK, CreatePendingNode, Row
<1>2. ASSUME NEW n \in Nodes, NEW t \in Tokens, CreateNodeEnrollmentToken(n, t)
      PROVE  TypeOK'
  BY <1>2 DEF TypeOK, CreateNodeEnrollmentToken, TokenRow
<1>3. ASSUME NEW n \in Nodes, DeleteNode(n)
      PROVE  TypeOK'
  <2>1. node' \in [Nodes -> Row]
    BY <1>3 DEF TypeOK, DeleteNode, Row
  <2>2. token' \in [Tokens -> TokenRow]
    <3>1. \A t \in Tokens : [token[t] EXCEPT !.status = "gone"] \in TokenRow
      BY DEF TypeOK, TokenRow
    <3> QED
      BY <1>3, <3>1 DEF TypeOK, DeleteNode
  <2> QED
    BY <1>3, <2>1, <2>2 DEF TypeOK, DeleteNode
<1>4. ASSUME NEW t \in Tokens, TokenExpires(t)
      PROVE  TypeOK'
  BY <1>4 DEF TypeOK, TokenExpires, TokenRow
<1>5. ASSUME NEW q \in inflight, ConsumeEnrollmentToken(q)
      PROVE  TypeOK'
  <2>1. token' \in [Tokens -> TokenRow]
    BY <1>5 DEF TypeOK, ConsumeEnrollmentToken, TokenRow, Request
  <2>2. inflight' \subseteq Request
    BY <1>5, ConsumeEffect DEF TypeOK
  <2> QED
    BY <1>5, <2>1, <2>2 DEF TypeOK, ConsumeEnrollmentToken
<1>6. ASSUME NEW q \in inflight, ActivatePendingNode(q)
      PROVE  TypeOK'
  <2>1. q \in Request /\ q.node \in Nodes
    BY <1>6 DEF TypeOK, TokensAreSpent, ActivatePendingNode
  <2> DEFINE row == [status |-> "enrolled", serial |-> q.key, age |-> q.age]
             cert == [key |-> q.key, node |-> q.node, token |-> q.token]
  <2>2. row \in Row /\ cert \in Cert
    BY <2>1 DEF Row, Cert, Request, Keys
  <2>3. /\ node' = node \/ node' = [node EXCEPT ![q.node] = row]
        /\ certs' = certs \/ certs' = certs \cup {cert}
        /\ UNCHANGED <<token, attempts, proc, disk, broken>>
    BY <1>6 DEF ActivatePendingNode
  <2> HIDE DEF row, cert
  <2>4. inflight' \subseteq Request
    BY <1>6, ActivateEffect DEF TypeOK
  <2> QED
    BY <2>2, <2>3, <2>4 DEF TypeOK
<1>7. ASSUME NEW q \in inflight, Abandon(q)
      PROVE  TypeOK'
  <2>1. Idle \in Process
    BY DEF Idle, Process
  <2>2. proc' \in [Hosts -> Process]
    BY <1>7, <2>1 DEF TypeOK, Abandon
  <2> QED
    BY <1>7, <2>2 DEF TypeOK, Abandon
<1>8. ASSUME NEW q \in inflight, Reply(q)
      PROVE  TypeOK'
  <2>1. q \in Request
    BY DEF TypeOK
  <2>2. proc' \in [Hosts -> Process]
    <3>1. \/ proc' = proc
          \/ proc' = [proc EXCEPT ![q.host] = Idle]
          \/ proc' = [proc EXCEPT ![q.host].at = "age.key", ![q.host].node = q.node]
      BY <1>8 DEF Reply
    <3> QED
      BY <2>1, <3>1 DEF TypeOK, Idle, Process, Request
  <2> QED
    BY <1>8, <2>2 DEF TypeOK, Reply
<1>9. ASSUME NEW h \in Hosts, NEW t \in Tokens, Enroll(h, t)
      PROVE  TypeOK'
  <2>1. PICK r \in Request :
          /\ attempts' = attempts + 1 /\ attempts + 1 \in Keys
          /\ inflight' = inflight \cup {r}
          /\ proc' = [proc EXCEPT ![h] =
                        [at |-> "asked", key |-> r.key, age |-> r.age, node |-> NoNode]]
          /\ disk' = [disk EXCEPT ![h].age = r.age]
    BY <1>9, EnrollEffect
  <2>2. r.key \in 0 .. MaxAttempts /\ r.age \in 0 .. MaxAttempts
    BY DEF Request, Keys
  <2>3. disk' \in [Hosts -> Identity]
    BY <2>1, <2>2 DEF TypeOK, Identity
  <2>4. proc' \in [Hosts -> Process]
    BY <2>1, <2>2 DEF TypeOK, Process
  <2> QED
    BY <1>9, <2>1, <2>3, <2>4 DEF TypeOK, Enroll, Keys
<1>10. ASSUME NEW h \in Hosts, GiveUp(h)
       PROVE  TypeOK'
  BY <1>10 DEF TypeOK, GiveUp, Idle, Process
<1>11. ASSUME NEW h \in Hosts, SaveIdentity(h)
       PROVE  TypeOK'
  <2>1. proc' \in [Hosts -> Process]
    BY <1>11 DEF TypeOK, SaveIdentity, Idle, Process
  <2>2. disk' \in [Hosts -> Identity]
    BY <1>11 DEF TypeOK, SaveIdentity, Identity, Process
  <2> QED
    BY <1>11, <2>1, <2>2 DEF TypeOK, SaveIdentity
<1>12. ASSUME NEW h \in Hosts, Crash(h)
       PROVE  TypeOK'
  <2>1. proc' \in [Hosts -> Process]
    BY <1>12 DEF TypeOK, Crash, Idle, Process
  <2>2. disk' \in [Hosts -> Identity]
    BY <1>12 DEF TypeOK, Crash, Identity
  <2> QED
    BY <1>12, <2>1, <2>2 DEF TypeOK, Crash
<1>13. CASE UNCHANGED vars
  BY <1>13 DEF TypeOK, vars
<1> QED
  BY <1>1, <1>2, <1>3, <1>4, <1>5, <1>6, <1>7, <1>8, <1>9, <1>10, <1>11, <1>12, <1>13 DEF Next

-----------------------------------------------------------------------------
(* Each action keeps the invariant.                                        *)

LEMMA CreatePendingNodeKeepsInv ==
  ASSUME Inv, NEW n \in Nodes, CreatePendingNode(n), TypeOK'
  PROVE  Inv'
<1>1. /\ UNCHANGED <<token, inflight, attempts, proc, disk, certs, broken>>
      /\ \A m \in Nodes : node'[m].serial = node[m].serial /\ node'[m].age = node[m].age
      /\ \A m \in Nodes : m # n => node'[m].status = node[m].status
      /\ node[n].status = "none" /\ node'[n].status = "pending"
  BY DEF Inv, TypeOK, Row, CreatePendingNode
<1>2. KeysArePast' /\ RequestsAreUnique'
  BY <1>1 DEF Inv, KeysArePast, RequestsAreUnique
<1>3. TokensAreSpent'
  BY <1>1 DEF Inv, TokensAreSpent, TokensAreSingleUse
<1>4. RowsAreCertified'
  BY <1>1 DEF Inv, TypeOK, Cert, RowsAreCertified
<1>5. RequestsAreOfProcesses' /\ ProcessesAreSound'
  BY <1>1 DEF Inv, RequestsAreOfProcesses, ProcessesAreSound, Saving
<1>6. DisksAreSound'
  BY <1>1 DEF Inv, DisksAreSound, Untouched
<1> QED
  BY <1>2, <1>3, <1>4, <1>5, <1>6 DEF Inv

LEMMA DeleteNodeKeepsInv ==
  ASSUME Inv, NEW n \in Nodes, DeleteNode(n), TypeOK'
  PROVE  Inv'
<1>1. /\ UNCHANGED <<inflight, attempts, proc, disk, certs, broken>>
      /\ node'[n].status = "deleted" /\ node'[n].serial = 0
      /\ \A m \in Nodes : m # n => node'[m] = node[m]
  BY DEF Inv, TypeOK, DeleteNode
<1>2. \A t \in Tokens : /\ token'[t].node = token[t].node
                        /\ token'[t].status = token[t].status \/ token'[t].status = "gone"
  BY DEF Inv, TypeOK, TokenRow, DeleteNode
<1>3. KeysArePast' /\ RequestsAreUnique'
  BY <1>1 DEF Inv, TypeOK, KeysArePast, RequestsAreUnique
<1>4. TokensAreSpent'
  BY <1>1, <1>2 DEF Inv, TypeOK, Cert, Request, TokensAreSpent, TokensAreSingleUse
<1>5. RowsAreCertified'
  BY <1>1 DEF Inv, TypeOK, Cert, RowsAreCertified
<1>6. RequestsAreOfProcesses' /\ ProcessesAreSound'
  BY <1>1 DEF Inv, RequestsAreOfProcesses, ProcessesAreSound, Saving
<1>7. DisksAreSound'
  BY <1>1 DEF Inv, DisksAreSound, Untouched
<1> QED
  BY <1>3, <1>4, <1>5, <1>6, <1>7 DEF Inv

\* A token that is issued, or expires, is not one that has been spent.
LEMMA TokenStepKeepsInv ==
  ASSUME Inv, TypeOK', NEW t \in Tokens, token[t].status \in {"none", "fresh"},
         \A u \in Tokens : u # t => token'[u] = token[u],
         token'[t].status = "fresh" => token'[t].node \in Nodes,
         UNCHANGED <<node, inflight, attempts, proc, disk, certs, broken>>
  PROVE  Inv'
<1>1. TokensAreSpent'
  BY DEF Inv, TypeOK, Cert, Request, TokensAreSpent, TokensAreSingleUse
<1> QED
  BY <1>1 DEF Inv, KeysArePast, RequestsAreUnique, RowsAreCertified, RequestsAreOfProcesses,
              ProcessesAreSound, Saving, DisksAreSound, Untouched

LEMMA ConsumeKeepsInv ==
  ASSUME Inv, NEW q \in inflight, ConsumeEnrollmentToken(q), TypeOK'
  PROVE  Inv'
<1>1. UNCHANGED <<node, attempts, proc, disk, certs, broken>> /\ q.at = "sent" /\ q \in Request
  BY DEF ConsumeEnrollmentToken, Inv, TypeOK
<1>2. PICK r \in Request :
        /\ inflight' = (inflight \ {q}) \cup {r}
        /\ r.host = q.host /\ r.token = q.token /\ r.key = q.key /\ r.age = q.age
        /\ \A t \in Tokens : t # q.token => token'[t] = token[t]
        /\ \/ /\ token[q.token].status = "fresh"
              /\ token'[q.token].status = "used" /\ token'[q.token].node = token[q.token].node
              /\ r.at = "consumed" /\ r.node = token[q.token].node
           \/ token' = token /\ r.at = "denied"
  BY ConsumeEffect DEF Inv
<1>3. KeysArePast' /\ RequestsAreUnique'
  BY <1>1, <1>2 DEF Inv, KeysArePast, RequestsAreUnique
<1>4. TokensAreSpent'
  <2>1. q.token \in Tokens /\ r.token \in Tokens /\ \A c \in certs : c.token \in Tokens
    BY <1>1 DEF Inv, TypeOK, Request, Cert
  <2>2. CASE token' = token /\ r.at = "denied"
    BY <1>1, <1>2, <2>2 DEF Inv, TokensAreSpent, TokensAreSingleUse
  <2>3. CASE token[q.token].status = "fresh" /\ token'[q.token].status = "used"
             /\ token'[q.token].node = token[q.token].node
             /\ r.at = "consumed" /\ r.node = token[q.token].node
    <3>1. \A p \in inflight : p.token \in Tokens
      BY DEF Inv, TypeOK, Request
    <3>2. \A c \in certs : c.token # q.token
      BY <2>3 DEF Inv, TokensAreSpent
    <3>3. \A p \in inflight : p.at = "consumed" => p.token # q.token
      BY <2>3 DEF Inv, TokensAreSpent
    <3>4. q.token \in Tokens /\ token[q.token].node \in Nodes
      BY <2>1, <2>3 DEF Inv, TokensAreSpent
    <3>5. \A c \in certs' : token'[c.token].status \in {"used", "gone"}
      BY <1>1, <1>2, <2>1, <3>2 DEF Inv, TokensAreSpent
    <3>6. \A p \in inflight' : p.at = "consumed" =>
            /\ token'[p.token].status \in {"used", "gone"}
            /\ \A c \in certs' : c.token # p.token
            /\ p.node \in Nodes
      BY <1>1, <1>2, <2>3, <3>1, <3>2, <3>3, <3>4 DEF Inv, TokensAreSpent
    <3>7. \A p, o \in inflight' :
            p.at = "consumed" /\ o.at = "consumed" /\ p.token = o.token => p = o
      BY <1>2, <2>3, <3>3 DEF Inv, TokensAreSpent
    <3>8. \A t \in Tokens : token'[t].status = "fresh" => token'[t].node \in Nodes
      BY <1>2, <2>3 DEF Inv, TokensAreSpent
    <3> QED
      BY <1>1, <3>5, <3>6, <3>7, <3>8 DEF Inv, TokensAreSpent, TokensAreSingleUse
  <2> QED
    BY <1>2, <2>2, <2>3
<1>5. RowsAreCertified' /\ ProcessesAreSound' /\ DisksAreSound'
  BY <1>1 DEF Inv, RowsAreCertified, ProcessesAreSound, Saving, DisksAreSound, Untouched
<1>6. RequestsAreOfProcesses'
  BY <1>1, <1>2 DEF Inv, RequestsAreOfProcesses, Saving
<1> QED
  BY <1>3, <1>4, <1>5, <1>6 DEF Inv

LEMMA ActivateKeepsInv ==
  ASSUME Inv, NEW q \in inflight, ActivatePendingNode(q), TypeOK'
  PROVE  Inv'
<1> DEFINE cert == [key |-> q.key, node |-> q.node, token |-> q.token]
           row == [status |-> "enrolled", serial |-> q.key, age |-> q.age]
<1>1. UNCHANGED <<token, attempts, proc, disk, broken>>
  BY DEF ActivatePendingNode
<1>2. PICK r \in Request :
        /\ q.at = "consumed" /\ q.node \in Nodes
        /\ inflight' = (inflight \ {q}) \cup {r}
        /\ r.host = q.host /\ r.token = q.token /\ r.key = q.key /\ r.age = q.age
        /\ r.node = q.node
        /\ \/ /\ r.at = "activated" /\ Exists(q.node)
              /\ certs' = certs \cup {cert}
              /\ node' = [node EXCEPT ![q.node] = row]
           \/ r.at = "denied" /\ UNCHANGED <<node, certs>>
  BY ActivateEffect DEF Inv
<1>3. q.key # 0 /\ r.key # 0
  BY <1>2 DEF Inv, TypeOK, Request, Keys
<1>4. CASE r.at = "denied" /\ UNCHANGED <<node, certs>>
  <2>1. KeysArePast' /\ RequestsAreUnique'
    BY <1>1, <1>2, <1>4 DEF Inv, KeysArePast, RequestsAreUnique
  <2>2. TokensAreSpent' /\ RowsAreCertified'
    BY <1>1, <1>2, <1>4 DEF Inv, TokensAreSpent, TokensAreSingleUse, RowsAreCertified
  <2>3. RequestsAreOfProcesses' /\ ProcessesAreSound' /\ DisksAreSound'
    BY <1>1, <1>2, <1>4 DEF Inv, RequestsAreOfProcesses, ProcessesAreSound, Saving,
                            DisksAreSound, Untouched
  <2> QED
    BY <2>1, <2>2, <2>3 DEF Inv
<1>5. CASE r.at = "activated" /\ Exists(q.node) /\ certs' = certs \cup {cert}
           /\ node' = [node EXCEPT ![q.node] = row]
  <2>1. cert.key = q.key /\ cert.node = q.node /\ cert.token = q.token
    OBVIOUS
  <2>2. /\ node'[q.node].status = "enrolled" /\ node'[q.node].serial = q.key
        /\ node'[q.node].age = q.age
        /\ \A n \in Nodes : n # q.node => node'[n] = node[n]
    BY <1>2, <1>5 DEF Inv, TypeOK
  <2> HIDE DEF cert, row
  <2>3. \A c \in certs : c.key # q.key /\ c.token # q.token
    BY <1>2 DEF Inv, RequestsAreUnique, TokensAreSpent
  <2>4. KeysArePast' /\ RequestsAreUnique'
    <3>1. KeysArePast'
      BY <1>1, <1>2, <1>5, <2>1, <2>2 DEF Inv, KeysArePast
    <3>2. \A p, o \in inflight' : p.key = o.key => p = o
      BY <1>2 DEF Inv, RequestsAreUnique
    <3>3. \A p \in inflight' : p.at # "activated" => \A c \in certs' : c.key # p.key
      BY <1>2, <1>5, <2>1 DEF Inv, RequestsAreUnique
    <3>4. \A p \in inflight' : p.at = "activated" =>
            \E c \in certs' : c.key = p.key /\ c.node = p.node
      BY <1>2, <1>5, <2>1 DEF Inv, RequestsAreUnique
    <3>5. \A c, d \in certs' : c.key = d.key => c = d
      BY <1>5, <2>1, <2>3 DEF Inv, RequestsAreUnique
    <3> QED
      BY <3>1, <3>2, <3>3, <3>4, <3>5 DEF RequestsAreUnique
  <2>5. TokensAreSpent'
    <3>1. TokensAreSingleUse'
      BY <1>5, <2>1, <2>3 DEF Inv, TokensAreSpent, TokensAreSingleUse
    <3>2. \A p \in inflight' : p.at = "consumed" => p \in inflight /\ p.token # q.token
      BY <1>2, <1>5 DEF Inv, TokensAreSpent, RequestsAreUnique
    <3>3. \A p \in inflight' : p.at = "consumed" =>
            /\ token[p.token].status \in {"used", "gone"}
            /\ \A c \in certs' : c.token # p.token
            /\ p.node \in Nodes
      BY <1>5, <2>1, <3>2 DEF Inv, TokensAreSpent
    <3>4. \A c \in certs' : token[c.token].status \in {"used", "gone"}
      BY <1>2, <1>5, <2>1 DEF Inv, TokensAreSpent
    <3> QED
      BY <1>1, <3>1, <3>2, <3>3, <3>4 DEF Inv, TokensAreSpent
  <2>6. RowsAreCertified'
    BY <1>2, <1>5, <2>1, <2>2 DEF Inv, TypeOK, Cert, RowsAreCertified
  <2>7. RequestsAreOfProcesses'
    BY <1>1, <1>2 DEF Inv, RequestsAreOfProcesses, Saving
  <2>8. ProcessesAreSound'
    <3>1. ASSUME NEW h \in Hosts, proc[h].at # "idle", NEW n \in Nodes,
                 node'[n].serial = proc[h].key
          PROVE  node'[n].age = proc[h].age
      <4>1. proc[h].at = "asked" \/ Saving(h)
        BY <3>1 DEF Inv, TypeOK, Process, Saving
      <4> QED
        BY <2>2, <3>1, <4>1 DEF Inv, RequestsAreOfProcesses, ProcessesAreSound
    <3> QED
      BY <1>1, <1>5, <3>1 DEF Inv, ProcessesAreSound, Saving
  <2>9. DisksAreSound'
    BY <1>1, <1>5, <2>2 DEF Inv, DisksAreSound, Untouched, RequestsAreOfProcesses
  <2> QED
    BY <2>4, <2>5, <2>6, <2>7, <2>8, <2>9 DEF Inv
<1> QED
  BY <1>2, <1>4, <1>5

\* A request that ends, and a process that hears of it or not, leaves Core as it is.
LEMMA EndKeepsInv ==
  ASSUME Inv, TypeOK', inflight' \subseteq inflight,
         UNCHANGED <<node, token, attempts, disk, certs, broken>>,
         \A h \in Hosts : \/ proc'[h] = proc[h]
                          \/ proc'[h] = Idle /\ proc[h].at = "asked"
                          \/ /\ proc[h].at = "asked" /\ proc'[h].at = "age.key"
                             /\ proc'[h].key = proc[h].key /\ proc'[h].age = proc[h].age
                             /\ \A q \in inflight' : q.key # proc[h].key
                             /\ \E c \in certs : c.key = proc[h].key /\ c.node = proc'[h].node
  PROVE  Inv'
<1>1. Idle.at = "idle" /\ Idle.key = 0
  BY DEF Idle
<1>2. KeysArePast'
  BY <1>1 DEF Inv, TypeOK, KeysArePast
<1>3. RequestsAreUnique' /\ TokensAreSpent' /\ RowsAreCertified'
  BY DEF Inv, RequestsAreUnique, TokensAreSpent, TokensAreSingleUse, RowsAreCertified
<1>4. RequestsAreOfProcesses'
  BY <1>1 DEF Inv, RequestsAreOfProcesses, Saving
<1>5. ProcessesAreSound'
  BY <1>1 DEF Inv, ProcessesAreSound, Saving
<1>6. DisksAreSound'
  BY <1>1 DEF Inv, DisksAreSound, Untouched
<1> QED
  BY <1>2, <1>3, <1>4, <1>5, <1>6 DEF Inv

LEMMA AbandonKeepsInv ==
  ASSUME Inv, NEW q \in inflight, Abandon(q), TypeOK'
  PROVE  Inv'
<1>1. q.host \in Hosts
  BY DEF Inv, TypeOK, Request
<1>2. \A h \in Hosts : proc'[h] = proc[h] \/ (proc'[h] = Idle /\ proc[h].at = "asked")
  BY <1>1 DEF Inv, TypeOK, Abandon, Awaits
<1> QED
  BY <1>2, EndKeepsInv DEF Abandon

LEMMA ReplyKeepsInv ==
  ASSUME Inv, NEW q \in inflight, Reply(q), TypeOK'
  PROVE  Inv'
<1>1. q.host \in Hosts /\ q.at \in {"activated", "denied"} /\ inflight' = inflight \ {q}
  BY DEF Inv, TypeOK, Request, Reply
<1>2. CASE proc' = proc
  BY <1>1, <1>2, EndKeepsInv DEF Reply
<1>3. CASE Awaits(q.host, q) /\ proc' = [proc EXCEPT ![q.host] = Idle]
  <2>1. \A h \in Hosts : proc'[h] = proc[h] \/ (proc'[h] = Idle /\ proc[h].at = "asked")
    BY <1>1, <1>3 DEF Inv, TypeOK, Awaits
  <2> QED
    BY <1>1, <2>1, EndKeepsInv DEF Reply
<1>4. CASE /\ Awaits(q.host, q) /\ q.at = "activated"
           /\ proc' = [proc EXCEPT ![q.host].at = "age.key", ![q.host].node = q.node]
  <2>1. \E c \in certs : c.key = q.key /\ c.node = q.node
    BY <1>4 DEF Inv, RequestsAreUnique
  <2>2. \A p \in inflight' : p.key # q.key
    BY <1>1 DEF Inv, RequestsAreUnique
  <2>3. /\ \A h \in Hosts : h # q.host => proc'[h] = proc[h]
        /\ proc[q.host].at = "asked" /\ proc[q.host].key = q.key
        /\ proc'[q.host].at = "age.key" /\ proc'[q.host].node = q.node
        /\ proc'[q.host].key = proc[q.host].key /\ proc'[q.host].age = proc[q.host].age
    BY <1>1, <1>4 DEF Inv, TypeOK, Process, Awaits
  <2>4. UNCHANGED <<node, token, attempts, disk, certs, broken>>
    BY DEF Reply
  <2> QED
    BY <1>1, <2>1, <2>2, <2>3, <2>4, EndKeepsInv
<1> QED
  BY <1>1, <1>2, <1>3, <1>4 DEF Reply

LEMMA GiveUpKeepsInv ==
  ASSUME Inv, NEW h \in Hosts, GiveUp(h), TypeOK'
  PROVE  Inv'
<1>1. \A g \in Hosts : proc'[g] = proc[g] \/ (proc'[g] = Idle /\ proc[g].at = "asked")
  BY DEF Inv, TypeOK, GiveUp
<1> QED
  BY <1>1, EndKeepsInv DEF GiveUp

LEMMA EnrollKeepsInv ==
  ASSUME Inv, NEW h \in Hosts, NEW t \in Tokens, Enroll(h, t), TypeOK'
  PROVE  Inv'
<1>1. UNCHANGED <<node, token, certs, broken>>
  BY DEF Enroll
<1>2. PICK r \in Request :
        /\ proc[h].at = "idle" /\ attempts' = attempts + 1 /\ attempts + 1 \in Keys
        /\ r.host = h /\ r.token = t /\ r.key = attempts + 1 /\ r.at = "sent"
        /\ r.age = IF disk[h].age # 0 THEN disk[h].age ELSE attempts + 1
        /\ inflight' = inflight \cup {r}
        /\ proc' = [proc EXCEPT ![h] =
                      [at |-> "asked", key |-> r.key, age |-> r.age, node |-> NoNode]]
        /\ disk' = [disk EXCEPT ![h].age = r.age]
  BY EnrollEffect DEF Inv
<1>3. /\ proc'[h].at = "asked" /\ proc'[h].key = r.key /\ proc'[h].age = r.age
      /\ \A g \in Hosts : g # h => proc'[g] = proc[g]
  BY <1>2 DEF Inv, TypeOK
<1>4. /\ disk'[h].age = r.age /\ disk'[h].key = disk[h].key /\ disk'[h].cert = disk[h].cert
      /\ disk'[h].node = disk[h].node
      /\ \A g \in Hosts : g # h => disk'[g] = disk[g]
  BY <1>2 DEF Inv, TypeOK, Identity
<1>5. attempts \in Nat /\ r.key \in Nat /\ r.key # 0 /\ r.key > attempts
      /\ r.age \in Nat /\ r.age # 0
  BY <1>2, EnrollmentAssumption DEF Inv, TypeOK, Request, Keys
<1>6. /\ \A p \in inflight : p.key # r.key
      /\ \A c \in certs : c.key # r.key
      /\ \A n \in Nodes : node[n].serial # r.key
      /\ \A g \in Hosts : proc[g].key # r.key /\ disk[g].key # r.key /\ disk[g].cert # r.key
  BY <1>5 DEF Inv, KeysArePast
<1>7. KeysArePast'
  <2>1. \A k \in 0 .. MaxAttempts : k <= attempts => k <= attempts'
    BY <1>2, <1>5, EnrollmentAssumption
  <2>2. \A p \in inflight : p.key \in 0 .. MaxAttempts
    BY EnrollmentAssumption DEF Inv, TypeOK, Request, Keys
  <2>3. \A c \in certs : c.key \in 0 .. MaxAttempts
    BY EnrollmentAssumption DEF Inv, TypeOK, Cert, Keys
  <2>4. \A n \in Nodes : node[n].serial \in 0 .. MaxAttempts
    BY DEF Inv, TypeOK, Row
  <2>5. \A g \in Hosts : /\ proc[g].key \in 0 .. MaxAttempts
                         /\ disk[g].key \in 0 .. MaxAttempts /\ disk[g].cert \in 0 .. MaxAttempts
    BY DEF Inv, TypeOK, Process, Identity
  <2>6. r.key <= attempts'
    BY <1>2, <1>5
  <2> QED
    BY <1>1, <1>2, <1>3, <1>4, <2>1, <2>2, <2>3, <2>4, <2>5, <2>6 DEF Inv, KeysArePast
<1>8. RequestsAreUnique' /\ TokensAreSpent' /\ RowsAreCertified'
  BY <1>1, <1>2, <1>6
     DEF Inv, RequestsAreUnique, TokensAreSpent, TokensAreSingleUse, RowsAreCertified
<1>9. RequestsAreOfProcesses'
  BY <1>2, <1>3, <1>4, <1>6 DEF Inv, RequestsAreOfProcesses, Saving
<1>10. ProcessesAreSound'
  <2>1. ASSUME NEW g \in Hosts, g # h
        PROVE  proc'[g] = proc[g] /\ disk'[g] = disk[g]
    BY <1>3, <1>4, <2>1
  <2> QED
    BY <1>1, <1>3, <1>4, <1>5, <1>6, <2>1 DEF Inv, ProcessesAreSound, Saving
<1>11. DisksAreSound'
  BY <1>1, <1>2, <1>3, <1>4 DEF Inv, DisksAreSound, Untouched
<1> QED
  BY <1>7, <1>8, <1>9, <1>10, <1>11 DEF Inv

\* What SaveIdentity does to the process and the disk of its host.
LEMMA SaveEffect ==
  ASSUME TypeOK, NEW h \in Hosts, SaveIdentity(h)
  PROVE  /\ UNCHANGED <<node, token, inflight, attempts, certs>>
         /\ \A g \in Hosts : g # h => proc'[g] = proc[g] /\ disk'[g] = disk[g]
         /\ \/ /\ proc[h].at = "age.key" /\ proc'[h] = [proc[h] EXCEPT !.at = "mtls.key"]
               /\ disk'[h] = [disk[h] EXCEPT !.age = proc[h].age] /\ broken' = broken
            \/ /\ proc[h].at = "mtls.key" /\ proc'[h] = [proc[h] EXCEPT !.at = "cert.pem"]
               /\ disk'[h] = [disk[h] EXCEPT !.key = proc[h].key] /\ broken' = broken
            \/ /\ proc[h].at = "cert.pem" /\ proc'[h] = [proc[h] EXCEPT !.at = "state.json"]
               /\ disk'[h] = [disk[h] EXCEPT !.cert = proc[h].key] /\ broken' = broken
            \/ /\ proc[h].at = "state.json" /\ proc'[h] = Idle
               /\ disk'[h] = [disk[h] EXCEPT !.node = proc[h].node] /\ broken' = broken \ {h}
BY DEF TypeOK, SaveIdentity

LEMMA SaveKeepsInv ==
  ASSUME Inv, NEW h \in Hosts, SaveIdentity(h), TypeOK'
  PROVE  Inv'
<1> DEFINE Others == \A g \in Hosts : g # h => proc'[g] = proc[g] /\ disk'[g] = disk[g]
           Age == /\ proc[h].at = "age.key" /\ proc'[h].at = "mtls.key"
                  /\ proc'[h].key = proc[h].key /\ proc'[h].age = proc[h].age
                  /\ proc'[h].node = proc[h].node
                  /\ disk'[h].age = proc[h].age /\ disk'[h].key = disk[h].key
                  /\ disk'[h].cert = disk[h].cert /\ disk'[h].node = disk[h].node
                  /\ broken' = broken
           Key == /\ proc[h].at = "mtls.key" /\ proc'[h].at = "cert.pem"
                  /\ proc'[h].key = proc[h].key /\ proc'[h].age = proc[h].age
                  /\ proc'[h].node = proc[h].node
                  /\ disk'[h].age = disk[h].age /\ disk'[h].key = proc[h].key
                  /\ disk'[h].cert = disk[h].cert /\ disk'[h].node = disk[h].node
                  /\ broken' = broken
           Crt == /\ proc[h].at = "cert.pem" /\ proc'[h].at = "state.json"
                  /\ proc'[h].key = proc[h].key /\ proc'[h].age = proc[h].age
                  /\ proc'[h].node = proc[h].node
                  /\ disk'[h].age = disk[h].age /\ disk'[h].key = disk[h].key
                  /\ disk'[h].cert = proc[h].key /\ disk'[h].node = disk[h].node
                  /\ broken' = broken
           State == /\ proc[h].at = "state.json" /\ proc'[h].at = "idle" /\ proc'[h].key = 0
                    /\ disk'[h].age = disk[h].age /\ disk'[h].key = disk[h].key
                    /\ disk'[h].cert = disk[h].cert /\ disk'[h].node = proc[h].node
                    /\ broken' = broken \ {h}
<1>1. UNCHANGED <<node, token, inflight, attempts, certs>> /\ Others
  BY SaveEffect DEF Inv
<1>2. proc[h] \in Process /\ disk[h] \in Identity
  BY DEF Inv, TypeOK
<1>3. Age \/ Key \/ Crt \/ State
  <2>1. TypeOK
    BY DEF Inv
  <2>2. \/ /\ proc[h].at = "age.key" /\ proc'[h] = [proc[h] EXCEPT !.at = "mtls.key"]
           /\ disk'[h] = [disk[h] EXCEPT !.age = proc[h].age] /\ broken' = broken
        \/ /\ proc[h].at = "mtls.key" /\ proc'[h] = [proc[h] EXCEPT !.at = "cert.pem"]
           /\ disk'[h] = [disk[h] EXCEPT !.key = proc[h].key] /\ broken' = broken
        \/ /\ proc[h].at = "cert.pem" /\ proc'[h] = [proc[h] EXCEPT !.at = "state.json"]
           /\ disk'[h] = [disk[h] EXCEPT !.cert = proc[h].key] /\ broken' = broken
        \/ /\ proc[h].at = "state.json" /\ proc'[h] = Idle
           /\ disk'[h] = [disk[h] EXCEPT !.node = proc[h].node] /\ broken' = broken \ {h}
    BY <2>1, SaveEffect
  <2>3. CASE /\ proc[h].at = "age.key" /\ proc'[h] = [proc[h] EXCEPT !.at = "mtls.key"]
             /\ disk'[h] = [disk[h] EXCEPT !.age = proc[h].age] /\ broken' = broken
    <3>1. Age
      BY <1>2, <2>3 DEF Process, Identity
    <3> QED
      BY <3>1
  <2>4. CASE /\ proc[h].at = "mtls.key" /\ proc'[h] = [proc[h] EXCEPT !.at = "cert.pem"]
             /\ disk'[h] = [disk[h] EXCEPT !.key = proc[h].key] /\ broken' = broken
    <3>1. Key
      BY <1>2, <2>4 DEF Process, Identity
    <3> QED
      BY <3>1
  <2>5. CASE /\ proc[h].at = "cert.pem" /\ proc'[h] = [proc[h] EXCEPT !.at = "state.json"]
             /\ disk'[h] = [disk[h] EXCEPT !.cert = proc[h].key] /\ broken' = broken
    <3>1. Crt
      BY <1>2, <2>5 DEF Process, Identity
    <3> QED
      BY <3>1
  <2>6. CASE /\ proc[h].at = "state.json" /\ proc'[h] = Idle
             /\ disk'[h] = [disk[h] EXCEPT !.node = proc[h].node] /\ broken' = broken \ {h}
    <3>1. State
      BY <1>2, <2>6 DEF Process, Identity, Idle
    <3> QED
      BY <3>1
  <2> HIDE DEF Age, Key, Crt, State
  <2> QED
    BY <2>2, <2>3, <2>4, <2>5, <2>6
<1>4. RequestsAreUnique' /\ TokensAreSpent' /\ RowsAreCertified'
  BY <1>1 DEF Inv, RequestsAreUnique, TokensAreSpent, TokensAreSingleUse, RowsAreCertified
<1>5. KeysArePast'
  <2>1. 0 <= attempts
    BY EnrollmentAssumption DEF Inv, TypeOK
  <2> QED
    BY <1>1, <1>3, <2>1 DEF Inv, KeysArePast
<1>6. RequestsAreOfProcesses'
  BY <1>1, <1>3 DEF Inv, RequestsAreOfProcesses, Saving
<1>7. ProcessesAreSound'
  BY <1>1, <1>3 DEF Inv, ProcessesAreSound, Saving
<1>8. DisksAreSound'
  <2>1. ASSUME NEW g \in Hosts, g # h
        PROVE  /\ proc'[g] = proc[g] /\ disk'[g] = disk[g]
               /\ g \in broken' <=> g \in broken
    BY <1>1, <1>3, <2>1
  <2>2. CASE Age
    BY <1>1, <2>1, <2>2 DEF Inv, DisksAreSound, Untouched, ProcessesAreSound
  <2>3. CASE Key \/ Crt
    BY <1>1, <2>1, <2>3 DEF Inv, DisksAreSound, Untouched
  <2>4. CASE State
    BY <1>1, <2>1, <2>4 DEF Inv, DisksAreSound, Untouched, ProcessesAreSound, Saving
  <2> QED
    BY <1>3, <2>2, <2>3, <2>4
<1> QED
  BY <1>4, <1>5, <1>6, <1>7, <1>8 DEF Inv

LEMMA CrashKeepsInv ==
  ASSUME Inv, NEW h \in Hosts, Crash(h), TypeOK'
  PROVE  Inv'
<1>1. /\ UNCHANGED <<node, token, inflight, attempts, certs>> /\ broken' = broken \cup {h}
      /\ proc'[h].at = "idle" /\ proc'[h].key = 0
      /\ \A g \in Hosts : g # h => proc'[g] = proc[g]
  BY DEF Inv, TypeOK, Crash, Idle
<1>2. /\ disk'[h].key = disk[h].key \/ disk'[h].key = 0
      /\ disk'[h].cert = disk[h].cert \/ disk'[h].cert = 0
      /\ \A g \in Hosts : g # h => disk'[g] = disk[g]
  <2>1. disk[h] \in Identity
    BY DEF Inv, TypeOK
  <2> QED
    BY <2>1 DEF Inv, TypeOK, Crash, Identity
<1>3. RequestsAreUnique' /\ TokensAreSpent' /\ RowsAreCertified'
  BY <1>1 DEF Inv, RequestsAreUnique, TokensAreSpent, TokensAreSingleUse, RowsAreCertified
<1>4. KeysArePast'
  <2>1. 0 <= attempts
    BY EnrollmentAssumption DEF Inv, TypeOK
  <2> QED
    BY <1>1, <1>2, <2>1 DEF Inv, KeysArePast
<1>5. RequestsAreOfProcesses'
  <2>1. \A q \in inflight : q.key # 0
    BY DEF Inv, TypeOK, Request, Keys
  <2> QED
    BY <1>1, <1>2, <2>1 DEF Inv, RequestsAreOfProcesses, Saving
<1>6. ProcessesAreSound' /\ DisksAreSound'
  BY <1>1, <1>2 DEF Inv, ProcessesAreSound, Saving, DisksAreSound, Untouched
<1> QED
  BY <1>3, <1>4, <1>5, <1>6 DEF Inv

-----------------------------------------------------------------------------
(* The invariant.                                                          *)

LEMMA InvInit ==
  Init => Inv
<1> SUFFICES ASSUME Init
             PROVE  Inv
  OBVIOUS
<1>1. TypeOK
  BY EnrollmentAssumption DEF Init, TypeOK, Row, TokenRow, Process, Identity, Idle
<1>2. KeysArePast /\ RequestsAreUnique
  BY DEF Init, KeysArePast, RequestsAreUnique, Idle
<1>3. TokensAreSpent /\ RowsAreCertified
  BY DEF Init, TokensAreSpent, TokensAreSingleUse, RowsAreCertified
<1>4. RequestsAreOfProcesses /\ ProcessesAreSound /\ DisksAreSound
  BY DEF Init, RequestsAreOfProcesses, ProcessesAreSound, Saving, DisksAreSound, Idle
<1> QED
  BY <1>1, <1>2, <1>3, <1>4 DEF Inv

LEMMA InvStep ==
  ASSUME Inv, [Next]_vars
  PROVE  Inv'
<1>0. TypeOK'
  BY TypeStep DEF Inv
<1>1. ASSUME NEW n \in Nodes, NEW t \in Tokens, CreateNodeEnrollmentToken(n, t)
      PROVE  Inv'
  <2>1. token'[t].node = n /\ \A u \in Tokens : u # t => token'[u] = token[u]
    BY <1>1 DEF Inv, TypeOK, CreateNodeEnrollmentToken
  <2> QED
    BY <1>0, <1>1, <2>1, TokenStepKeepsInv DEF CreateNodeEnrollmentToken
<1>2. ASSUME NEW t \in Tokens, TokenExpires(t)
      PROVE  Inv'
  <2>1. token'[t].status = "expired" /\ \A u \in Tokens : u # t => token'[u] = token[u]
    BY <1>2 DEF Inv, TypeOK, TokenRow, TokenExpires
  <2> QED
    BY <1>0, <1>2, <2>1, TokenStepKeepsInv DEF TokenExpires
<1>3. CASE UNCHANGED vars
  BY <1>3 DEF vars, Inv, TypeOK, KeysArePast, RequestsAreUnique, TokensAreSpent,
              TokensAreSingleUse, RowsAreCertified, RequestsAreOfProcesses, ProcessesAreSound,
              Saving, DisksAreSound, Untouched
<1> QED
  BY <1>0, <1>1, <1>2, <1>3, CreatePendingNodeKeepsInv, DeleteNodeKeepsInv, ConsumeKeepsInv,
     ActivateKeepsInv, AbandonKeepsInv, ReplyKeepsInv, EnrollKeepsInv, GiveUpKeepsInv,
     SaveKeepsInv, CrashKeepsInv DEF Next

-----------------------------------------------------------------------------
(* Theorems.                                                               *)

\* Every state of an enrollment can be followed back to the attempts that led to it.
THEOREM Invariance ==
  Spec => []Inv
<1>1. Inv /\ [Next]_vars => Inv'
  BY InvStep
<1> QED
  BY InvInit, <1>1, PTL DEF Spec

\* Every variable of Enrollment keeps its type.
THEOREM TypeCorrect ==
  Spec => []TypeOK
<1>1. Inv => TypeOK
  BY DEF Inv
<1> QED
  BY Invariance, <1>1, PTL

\* However many hosts present a token, and however often, one certificate comes of it.
THEOREM SingleUse ==
  Spec => []TokensAreSingleUse
<1>1. Inv => TokensAreSingleUse
  BY DEF Inv, TokensAreSpent
<1> QED
  BY Invariance, <1>1, PTL

\* A host that Core takes for a node can open what is sealed to that node.
THEOREM AcceptedCanReadAlways ==
  Spec => []AcceptedCanRead
<1>1. Inv => AcceptedCanRead
  <2> SUFFICES ASSUME Inv, NEW h \in Hosts, NEW n \in Nodes, Settled(h), AcceptedAs(h, n)
               PROVE  node[n].age = disk[h].age /\ disk[h].node = n
    BY DEF AcceptedCanRead
  <2>1. Untouched(h) /\ disk[h].node # NoNode /\ node[n].serial = disk[h].cert
    BY DEF Settled, Untouched, AcceptedAs, Usable
  <2>2. node[n].age = disk[h].age
    BY <2>1 DEF Inv, DisksAreSound
  <2>3. PICK c \in certs : c.key = disk[h].cert /\ c.node = disk[h].node
    BY <2>1 DEF Inv, DisksAreSound
  <2>4. PICK d \in certs : d.key = node[n].serial /\ d.node = n
    BY DEF Inv, RowsAreCertified, AcceptedAs
  <2>5. c = d
    BY <2>1, <2>3, <2>4 DEF Inv, RequestsAreUnique
  <2> QED
    BY <2>2, <2>3, <2>4, <2>5
<1> QED
  BY Invariance, <1>1, PTL

\* Core knows every host on which "enroll" has succeeded, until its node is deleted or gets
\* another certificate.
THEOREM EnrolledIsAcceptedAlways ==
  Spec => []EnrolledIsAccepted
<1>1. Inv => EnrolledIsAccepted
  <2> SUFFICES ASSUME Inv, NEW h \in Hosts, Settled(h), disk[h].node # NoNode
               PROVE  \/ AcceptedAs(h, disk[h].node)
                      \/ node[disk[h].node].status = "deleted"
                      \/ \E c \in certs : c.node = disk[h].node /\ c.key # disk[h].cert
    BY DEF EnrolledIsAccepted
  <2> DEFINE n == disk[h].node
  <2>1. n \in Nodes
    BY DEF Inv, TypeOK, Identity
  <2>2. Untouched(h)
    BY DEF Settled, Untouched
  <2>3. Usable(h)
    BY <2>2 DEF Inv, DisksAreSound, Usable
  <2>4. PICK c \in certs : c.key = disk[h].cert /\ c.node = n
    BY <2>2 DEF Inv, DisksAreSound
  <2>5. node[n].status \in {"enrolled", "deleted"}
    BY <2>4 DEF Inv, RowsAreCertified
  <2>6. CASE node[n].status = "enrolled"
    <3>1. PICK d \in certs : d.key = node[n].serial /\ d.node = n
      BY <2>1, <2>6 DEF Inv, RowsAreCertified
    <3> QED
      BY <2>3, <2>6, <3>1 DEF AcceptedAs
  <2> QED
    BY <2>5, <2>6
<1> QED
  BY Invariance, <1>1, PTL

LEMMA DeletedStep ==
  ASSUME Inv, [Next]_vars, NEW n \in Nodes, node[n].status = "deleted"
  PROVE  node'[n] = node[n]
<1>1. ASSUME NEW m \in Nodes, CreatePendingNode(m) \/ DeleteNode(m)
      PROVE  node'[n] = node[n]
  BY <1>1 DEF Inv, TypeOK, CreatePendingNode, DeleteNode, Exists
<1>2. ASSUME NEW q \in inflight, ActivatePendingNode(q)
      PROVE  node'[n] = node[n]
  BY <1>2 DEF Inv, TypeOK, ActivatePendingNode, Exists
<1>3. ASSUME UNCHANGED node
      PROVE  node'[n] = node[n]
  BY <1>3
<1> QED
  BY <1>1, <1>2, <1>3
     DEF Next, vars, CreateNodeEnrollmentToken, TokenExpires, ConsumeEnrollmentToken, Abandon,
         Reply, Enroll, GiveUp, SaveIdentity, Crash

\* No enrollment brings back a node that was deleted while it was under way.
THEOREM DeletedStaysOutAlways ==
  Spec => DeletedStaysOut
<1>1. Inv /\ [Next]_vars =>
        [\A n \in Nodes : node[n].status = "deleted" => node'[n] = node[n]]_vars
  BY DeletedStep
<1> QED
  BY Invariance, <1>1, PTL DEF Spec, DeletedStaysOut

=============================================================================
