------------------------------- MODULE Reports -------------------------------
(***************************************************************************)
(* The scheduled report (ee/lib/scheduled-reports.ts): once a month the      *)
(* report of the month that closed is mailed to a list of recipients, one    *)
(* by one, and the month is marked in alert_state. The tick runs every few   *)
(* minutes whether or not the last one has ended; the mail provider may      *)
(* refuse a recipient, be down, or take a mail and fail the call; the mark   *)
(* may not be stored; the process may be restarted.                          *)
(***************************************************************************)
EXTENDS Integers, FiniteSets, Sequences, SequencesExt

CONSTANTS
  Rounds,       \* the ticks that may be under way at once
  Lists,        \* the lists of recipients an admin may save; <<>> disables
  Bounces,      \* the recipients the provider always refuses
  LastMonth,    \* bound: the calendar
  MaxListings,  \* bound: changes of the schedule and of the mail settings
  MaxMailFails, \* bound: calls of the provider that fail for a while
  MaxReboots,   \* bound: restarts, and marks the database does not take
  NoRound

Addresses == UNION {Range(list) : list \in Lists}
Copy == [month : Nat, to : Addresses]
Round == [month : Nat, to : Seq(Addresses), sent : Nat]

ASSUME ReportsAssumption ==
  /\ Lists \subseteq Seq(Addresses)
  /\ NoRound \notin Round
  /\ LastMonth \in Nat /\ MaxReboots \in Nat

VARIABLES
  month,     \* the month that just closed
  schedule,  \* scheduled_reports: the recipients
  provider,  \* email_provider_config is set
  marked,    \* alert_state: the months that are sent
  round,     \* tick -> [month, to (still to send), sent]
  copies,    \* what arrived: a sequence of [month, to]
  listings, mailFails, unmarked, reboots,
  strays,    \* history: copies that arrived though the call failed
  crossed    \* history: two ticks were sending at once

reportVars ==
  <<month, schedule, provider, marked, round, copies, listings, mailFails, unmarked, reboots,
    strays, crossed>>

ReportsInit ==
  /\ month = 1
  /\ schedule \in Lists /\ provider \in BOOLEAN
  /\ marked = {} /\ copies = <<>>
  /\ round = [r \in Rounds |-> NoRound]
  /\ listings \in 0..MaxListings /\ mailFails \in 0..MaxMailFails
  /\ unmarked = 0 /\ reboots = 0 /\ strays = 0
  /\ crossed = FALSE

\* rounds that may have sent and left no mark
Again == reboots + unmarked

MonthCloses ==
  /\ month < LastMonth /\ month' = month + 1
  /\ UNCHANGED <<schedule, provider, marked, round, copies, listings, mailFails, unmarked, reboots, strays, crossed>>

\* setScheduledReportsConfig, and the mail provider set or cleared
Configure ==
  /\ listings < MaxListings /\ listings' = listings + 1
  /\ \/ schedule' \in Lists \ {schedule} /\ UNCHANGED provider
     \/ provider' = ~provider /\ UNCHANGED schedule
  /\ UNCHANGED <<month, marked, round, copies, mailFails, unmarked, reboots, strays, crossed>>

\* mutant: the mark is not asked for
IsMarked_Never(m) == FALSE

IsMarked(m) == m \in marked

\* scheduledReportsTick up to the sending: nothing to do when the schedule is
\* off, there is no provider, or the month is marked
Begin(r) ==
  /\ round[r] = NoRound
  /\ schedule # <<>> /\ provider /\ ~IsMarked(month)
  /\ round' = [round EXCEPT ![r] = [month |-> month, to |-> schedule, sent |-> 0]]
  /\ crossed' = (crossed \/ \E q \in Rounds : round[q] # NoRound)
  /\ UNCHANGED <<month, schedule, provider, marked, copies, listings, mailFails, unmarked, reboots, strays>>

\* sendEmail, which reads the provider anew: the mail arrives, or an error is
\* noted; a call that fails may have delivered its mail all the same
sendEmail(r) ==
  /\ round[r] # NoRound /\ round[r].to # <<>>
  /\ LET to == Head(round[r].to)
         refused == ~provider \/ to \in Bounces
         rest == [round[r] EXCEPT !.to = Tail(@)]
         arrives == copies' = Append(copies, [month |-> round[r].month, to |-> to])
     IN  \/ /\ ~refused /\ arrives
            /\ round' = [round EXCEPT ![r] = [rest EXCEPT !.sent = @ + 1]]
            /\ UNCHANGED <<mailFails, strays>>
         \/ /\ refused
            /\ round' = [round EXCEPT ![r] = rest]
            /\ UNCHANGED <<copies, mailFails, strays>>
         \/ /\ ~refused /\ mailFails < MaxMailFails
            /\ mailFails' = mailFails + 1
            /\ round' = [round EXCEPT ![r] = rest]
            /\ \/ UNCHANGED <<copies, strays>>
               \/ arrives /\ strays' = strays + 1
  /\ UNCHANGED <<month, schedule, provider, marked, listings, unmarked, reboots, crossed>>

\* mutant: the month is marked whoever got it
Mark_Always(r) == marked' = marked \cup {round[r].month}

\* marked once somebody got it; a month nobody got is tried again
Mark(r) == marked' = IF round[r].sent > 0 THEN marked \cup {round[r].month} ELSE marked

EndRound(r) ==
  /\ round[r] # NoRound /\ round[r].to = <<>>
  /\ Mark(r)
  /\ round' = [round EXCEPT ![r] = NoRound]
  /\ UNCHANGED <<month, schedule, provider, copies, listings, mailFails, unmarked, reboots, strays, crossed>>

\* the INSERT of the mark fails: the tick throws, the month is tried again
MarkFails(r) ==
  /\ round[r] # NoRound /\ round[r].to = <<>> /\ round[r].sent > 0
  /\ Again < MaxReboots /\ unmarked' = unmarked + 1
  /\ round' = [round EXCEPT ![r] = NoRound]
  /\ UNCHANGED <<month, schedule, provider, marked, copies, listings, mailFails, reboots, strays, crossed>>

Reboot ==
  /\ Again < MaxReboots /\ reboots' = reboots + 1
  /\ round' = [r \in Rounds |-> NoRound]
  /\ UNCHANGED <<month, schedule, provider, marked, copies, listings, mailFails, unmarked, strays, crossed>>

ReportsNext ==
  \/ MonthCloses \/ Configure \/ Reboot
  \/ \E r \in Rounds : Begin(r) \/ sendEmail(r) \/ EndRound(r) \/ MarkFails(r)

\* The ticker ticks, and a tick that is sending goes on.
ReportsFair ==
  \A r \in Rounds : WF_reportVars(Begin(r)) /\ WF_reportVars(sendEmail(r) \/ EndRound(r) \/ MarkFails(r))

CopiesOf(m, to) == Cardinality({k \in DOMAIN copies : copies[k] = [month |-> m, to |-> to]})
\* how often a list names a recipient
Named(list, to) == Cardinality({k \in DOMAIN list : list[k] = to})

\* A month that is marked has reached somebody, so no month is given up
\* unsent (scheduled-reports.ts: "marked only after at least one recipient got it").
MarkedIsSent == \A m \in marked : \E c \in Range(copies) : c.month = m

\* Nobody gets a report more often than a list names them, but once more for each
\* restart and each mark that was not stored, and for each mail that arrived
\* though its call failed; ticks that overlap are excepted.
SentOnce ==
  crossed \/ \A c \in Range(copies) : \E list \in Lists :
    CopiesOf(c.month, c.to) <= (1 + Again) * Named(list, c.to) + strays

\* Without the way out: "exactly one send per month" (scheduled-reports.ts:17-18). It fails.
ExactlyOneSend == \A c \in Range(copies) : CopiesOf(c.month, c.to) <= 1

\* With a schedule, a provider and one recipient who can be reached, the report
\* of the month is out. It holds for good soon after the last change.
ReportGoesOut ==
  provider /\ (\E to \in Range(schedule) : to \notin Bounces) => month \in marked
=============================================================================
