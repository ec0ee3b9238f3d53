--------------------------- MODULE IncrementalPull ---------------------------
(***************************************************************************)
(* What an incremental sync promises, whatever runs, pages, locks and      *)
(* crashes it is made of: it copies days from the vendor, never back to an *)
(* older version, and its watermark says truthfully what was copied.       *)
(***************************************************************************)
EXTENDS Integers

CONSTANTS LastDay, HistoryLimit, RepullDays

VARIABLES
  today,     \* the UTC day
  vendor,    \* version of each day at the vendor
  stored,    \* version of each day in the ledger
  pulledOn,  \* day on which the stored version was read, NoDay if never
  mark       \* the watermark, NoDay before the first sync

vars == <<today, vendor, stored, pulledOn, mark>>

Day == 0..LastDay
NoDay == -1

\* The watermark stands for the whole history up to it, its trailing days
\* read no earlier than on its own day.
Covered ==
  mark # NoDay =>
    \A d \in Day :
      /\ d \in mark - HistoryLimit .. mark => pulledOn[d] # NoDay
      /\ d \in mark - RepullDays .. mark => pulledOn[d] >= mark

Init ==
  /\ today = HistoryLimit
  /\ vendor = [d \in Day |-> 0]
  /\ stored = [d \in Day |-> 0]
  /\ pulledOn = [d \in Day |-> NoDay]
  /\ mark = NoDay

\* time passes or the vendor restates a day
Environment ==
  /\ today' \in {today, today + 1}
  /\ \A d \in Day : vendor'[d] >= vendor[d]
  /\ UNCHANGED <<stored, pulledOn, mark>>

\* some days are copied and the watermark may move up
Pull ==
  /\ \A d \in Day : stored'[d] \in stored[d] .. vendor[d]
  /\ \A d \in Day : pulledOn'[d] \in pulledOn[d] .. today
  /\ mark' \in mark .. today
  /\ Covered'
  /\ UNCHANGED <<today, vendor>>

Next == Environment \/ Pull

Spec == Init /\ [][Next]_vars
=============================================================================
