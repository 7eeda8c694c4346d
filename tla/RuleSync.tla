------------------------------ MODULE RuleSync ------------------------------
(***************************************************************************)
(* What images/grafana/provision-alerts.py promises: the rules file is     *)
(* declarative.  `want` is the file of the running image, `have` the rules *)
(* of the Grafana database.  Apart from an edit made in the Grafana UI, a  *)
(* rule only ever changes to what the file says of it: it is created or    *)
(* updated with the file's body, or deleted because the file dropped it.   *)
(***************************************************************************)
EXTENDS Naturals

CONSTANTS
  Uids,    \* rule uids
  Bodies,  \* what a rule says (title, condition, data, labels, ...)
  Absent   \* no rule with that uid

VARIABLES
  want,    \* want[u]: the body of u in the file, or Absent
  have,    \* have[u]: the body of u in Grafana, or Absent
  edits    \* how many edits were made in the UI

syncVars == <<want, have, edits>>

Content == Bodies \cup {Absent}

Init ==
  /\ want \in [Uids -> Content]
  /\ have \in [Uids -> Content]
  /\ edits = 0

(* A new image brings a new file; no rule changes yet. *)
Deploy ==
  /\ want' \in [Uids -> Content]
  /\ UNCHANGED <<have, edits>>

(* The provisioner brings one rule to what the file says of it. *)
Apply(u) ==
  /\ have' = [have EXCEPT ![u] = want[u]]
  /\ UNCHANGED <<want, edits>>

(* Someone edits, creates or deletes one rule in the UI. *)
Edit(u, b) ==
  /\ have' = [have EXCEPT ![u] = b]
  /\ edits' = edits + 1
  /\ UNCHANGED want

Next ==
  \/ Deploy
  \/ \E u \in Uids : Apply(u)
  \/ \E u \in Uids, b \in Content : Edit(u, b)

Spec == Init /\ [][Next]_syncVars
=============================================================================
