---------------------------- MODULE MCSyncEngine ----------------------------
(***************************************************************************)
(* SyncEngine on small instances. The variants of the specification leave  *)
(* out what a question does not need, so that a counterexample shows only  *)
(* what it is about.                                                       *)
(***************************************************************************)
EXTENDS SyncEngine, TLC

\* The vendor restates days only while the clock is young; the later days are
\* for windows that lag, resume and reach back.
Small == (\E d \in Day : vendor[d] # 0) => today <= HistoryLimit + 1
MCSpec == Init /\ [][Next /\ Small']_vars /\ Fairness

\* Only mid-run deaths: every true-up that is reached succeeds.
NextMidRunDeaths ==
  World \/ \E c \in Callers : Progress(c) \/ (pc[c] # "truing" /\ Die(c))
SpecMidRunDeaths == Init /\ [][NextMidRunDeaths]_vars

\* The admin connects and disconnects only between runs, and nothing fails.
NextQuietAdmin ==
  \/ Tick
  \/ (\A c \in Callers : pc[c] = "idle") /\ (Connect \/ Disconnect)
  \/ \E c \in Callers : Progress(c)
SpecQuietAdmin == Init /\ [][NextQuietAdmin]_vars
=============================================================================
