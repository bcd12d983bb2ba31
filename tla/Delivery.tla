------------------------------ MODULE Delivery ------------------------------
(***************************************************************************)
(* What Core promises about one Managed Node, without the protocol that    *)
(* keeps the promise: a revision is recorded as observed when its files    *)
(* are on the node, of an Assignment that pointed at it when the node      *)
(* reported it, and an Assignment that was taken from the node is owed a   *)
(* cleanup until the node confirms it.                                     *)
(* AgentSync and, for each node, Fleet implement it.                       *)
(***************************************************************************)
EXTENDS Naturals

CONSTANTS
  Ids,   \* ids of Assignments
  Revs   \* Bundle Revisions: records of a bundle and its n-th revision

VARIABLES
  desired,   \* the Assignments of the node with their revisions
  held,      \* the revisions that are on the node
  reporting, \* the Assignments with the revisions that the node is reporting of them
  observed,  \* the Assignments with the last revision observed of each
  owed,      \* Assignments whose cleanup the node has to confirm
  cleaned    \* Assignments whose cleanup it has confirmed

deliveryVars == <<desired, held, reporting, observed, owed, cleaned>>

DeliveryInit ==
  /\ held \subseteq Revs
  /\ desired = {} /\ reporting = {} /\ observed = {} /\ owed = {} /\ cleaned = {}

\* Assignments come, go without a cleanup, and move to other revisions of their bundles,
\* also back to earlier ones; one that is to be cleaned does not come back.
Direct ==
  /\ \A x \in desired' :
       /\ x.id \notin owed \cup cleaned
       /\ \A y \in desired : x.id = y.id => x.rev.bundle = y.rev.bundle
  /\ UNCHANGED <<held, reporting, observed, owed, cleaned>>

Withdraw(id) ==
  /\ \E x \in desired : x.id = id
  /\ desired' = {x \in desired : x.id # id}
  /\ owed' = owed \cup {id}
  /\ UNCHANGED <<held, reporting, observed, cleaned>>

\* Files are written and removed; nothing is recorded of it.
Install ==
  /\ held' \subseteq Revs
  /\ UNCHANGED <<desired, reporting, observed, owed, cleaned>>

\* The node reports a revision that is on it, and an Assignment points at it.
Report(x) ==
  /\ x \in desired /\ x.rev \in held
  /\ reporting' = reporting \cup {x}
  /\ UNCHANGED <<desired, held, observed, owed, cleaned>>

\* The report is lost.
Lose(x) ==
  /\ reporting' = reporting \ {x}
  /\ UNCHANGED <<desired, held, observed, owed, cleaned>>

\* The report is recorded, whatever has become of the Assignment since.
Observe(x) ==
  /\ x.rev \in held
  /\ reporting' = reporting \ {x}
  /\ observed' = {y \in observed : y.id # x.id} \cup {[id |-> x.id, n |-> x.rev.n]}
  /\ UNCHANGED <<desired, held, owed, cleaned>>

Confirm(id) ==
  /\ id \in owed
  /\ owed' = owed \ {id}
  /\ cleaned' = cleaned \cup {id}
  /\ UNCHANGED <<desired, held, reporting, observed>>

\* A group, an environment or the node is deleted, and all there was of its Assignments.
Forget(S) ==
  /\ desired' = {x \in desired : x.id \notin S}
  /\ reporting' = {x \in reporting : x.id \notin S}
  /\ observed' = {y \in observed : y.id \notin S}
  /\ owed' = owed \ S
  /\ cleaned' = cleaned \ S
  /\ UNCHANGED held

DeliveryNext ==
  \/ Direct
  \/ Install
  \/ \E x \in desired : Report(x)
  \/ \E x \in reporting : Lose(x) \/ Observe(x)
  \/ \E id \in Ids : Withdraw(id) \/ Confirm(id)
  \/ \E S \in SUBSET Ids : Forget(S)

DeliverySpec == DeliveryInit /\ [][DeliveryNext]_deliveryVars
=============================================================================
