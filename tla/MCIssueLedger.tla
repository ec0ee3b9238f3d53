---------------------------- MODULE MCIssueLedger ----------------------------
(***************************************************************************)
(* IssueLedger on small boards: a second issue, and pages of one issue     *)
(* each, while the first days and touches last; one issue through the rest.*)
(***************************************************************************)
EXTENDS IssueLedger
CONSTANTS i1, EarlyTouches, EarlyTime

Untouched(i) == updated[i] = 0 /\ \A t \in Time : history[i][t] = NoStatus
Late == touches > EarlyTouches \/ clock > EarlyTime
Small ==
  Late => /\ \A i \in Issues \ {i1} : Untouched(i)
          /\ page.served = {} \/ page.served = cursor.inProgress.unread

\* every step of a run changes phase, so that this is FairSpec's fairness
MCSpec == Init /\ [][Next /\ Small']_vars /\ WF_phase(Run)
=============================================================================
