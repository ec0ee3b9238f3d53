------------------------------ MODULE Survival ------------------------------
(***************************************************************************)
(* Line survival (survival.ts): how many of the lines a merged AI pull       *)
(* request added are still in the base branch at each horizon. A pass rides  *)
(* the scheduler's tick under an advisory lock: it lists the oldest due      *)
(* pull requests, measures one after the other against GitHub and inserts    *)
(* a row per horizon. Each answer of GitHub is a step: what it says is gone  *)
(* gets a final row without numbers, but a file it answers 404 for counts as *)
(* a file that is no longer there, also when the repository (or the token's  *)
(* access to it) is what went; any other failure leaves no row, and the pull *)
(* request stays due.                                                        *)
(*                                                                          *)
(* Instants are counted; the base branch is the sequence of its trees, a     *)
(* tree the text of each file, and a text a sequence of lines.               *)
(***************************************************************************)
EXTENDS Integers, Sequences, FiniteSets, SequencesExt, FiniteSetsExt

CONSTANTS
  PRs,           \* pull requests, numbered by merge
  MergedAt,      \* instant of a pull request's merge
  Patch,         \* its diff: [file -> signed lines], or NoPatch for a binary
  NoPatch, Gone, NoRow, NoPass, NoLook,
  Horizons,      \* SURVIVAL_HORIZONS
  BatchPrs,      \* SURVIVAL_BATCH_PRS
  MaxFiles,      \* SURVIVAL_MAX_FILES
  Trees,         \* what the base branch may hold
  Refused,       \* pull requests GitHub answers with an error for ever
  LastInstant,   \* bound: the clock
  MaxHitches     \* bound: failures, restarts, repositories that go

VARIABLES
  branch,    \* the base branch, an entry per instant up to now
  synced,    \* pull requests the connector has written as outcomes
  vanished,  \* pull requests whose repository is gone
  checks,    \* survival_checks
  pass,      \* the pass that holds the lock: due, what it is reading, rows to insert
  cut,       \* history: horizons whose repository was gone when a file was read
  hitches

survivalVars == <<branch, synced, vanished, checks, pass, cut, hitches>>

Now == Len(branch)

(***************************************************************************)
(* The pure pieces.                                                         *)
(***************************************************************************)
\* the "+" lines of a patch, without the blank ones
addedLines(patch) ==
  LET plus == SelectSeq(patch, LAMBDA l : l.sign = "+" /\ l.text # "")
  IN  [n \in DOMAIN plus |-> plus[n].text]

\* how many of these lines the text still has, each of its lines used once
aliveCount(added, text) ==
  IF text = Gone THEN 0
  ELSE LET Seen(n) == Cardinality({k \in 1..n : added[k] = added[n]})
           Have(line) == Cardinality({k \in DOMAIN text : text[k] = line})
       IN  Cardinality({n \in DOMAIN added : Seen(n) <= Have(added[n])})

horizonInstant(p, h) == MergedAt[p] + h

(***************************************************************************)
(* One pull request.                                                        *)
(***************************************************************************)
Measurable(p) == {f \in DOMAIN Patch[p] : Patch[p][f] # NoPatch}

SumOver(S, F(_)) == FoldSet(LAMBDA x, sum : sum + F(x), 0, S)

LinesWritten(p) == SumOver(Measurable(p), LAMBDA f : Len(addedLines(Patch[p][f])))

\* mutant: the branch as it is now
shaAt_Tip(p, h) == Now

\* the base branch's tip at the horizon
shaAt(p, h) == horizonInstant(p, h)

Unmeasurable(p) == p \in vanished \/ Cardinality(DOMAIN Patch[p]) > MaxFiles

\* the files that are looked up in the branch
Sought(p) == {f \in Measurable(p) : addedLines(Patch[p][f]) # <<>>}

\* what the contents of one file at the horizon add
FileAlive(p, h, f) ==
  IF p \in vanished THEN 0 ELSE aliveCount(addedLines(Patch[p][f]), branch[shaAt(p, h)][f])

\* horizons that are over and unchecked
DueHorizons(p) ==
  {h \in Horizons : checks[p][h] = NoRow /\ horizonInstant(p, h) <= Now}

\* dueSurvivalPrs: the oldest merges first
Due ==
  LET all == SetToSortSeq({p \in synced : DueHorizons(p) # {}}, <)
  IN  SubSeq(all, 1, IF Len(all) < BatchPrs THEN Len(all) ELSE BatchPrs)

SurvivalInit ==
  /\ \E t \in Trees : branch = <<t>>
  /\ synced = {} /\ vanished = {}
  /\ checks = [p \in PRs |-> [h \in Horizons |-> NoRow]]
  /\ pass = NoPass /\ cut = {}
  /\ hitches \in 0..MaxHitches

(***************************************************************************)
(* The world.                                                               *)
(***************************************************************************)
Grow ==
  /\ Now < LastInstant
  /\ \E t \in Trees : branch' = Append(branch, t)
  /\ UNCHANGED <<synced, vanished, checks, pass, cut, hitches>>

SyncPR(p) ==
  /\ p \notin synced /\ MergedAt[p] <= Now
  /\ synced' = synced \cup {p}
  /\ UNCHANGED <<branch, vanished, checks, pass, cut, hitches>>

RepositoryGone(p) ==
  /\ hitches < MaxHitches
  /\ p \notin vanished
  /\ vanished' = vanished \cup {p}
  /\ hitches' = hitches + 1
  /\ UNCHANGED <<branch, synced, checks, pass, cut>>

(***************************************************************************)
(* A pass. A second tick does not get the lock and returns.                 *)
(***************************************************************************)
StartPass ==
  /\ pass = NoPass /\ Due # <<>>
  /\ pass' = [due |-> [n \in DOMAIN Due |-> <<Due[n], DueHorizons(Due[n])>>],
              look |-> NoLook, rows |-> <<>>]
  /\ UNCHANGED <<branch, synced, vanished, checks, cut, hitches>>

Measuring == pass # NoPass /\ pass.due # <<>> /\ pass.rows = <<>>
Looking == Measuring /\ pass.look # NoLook

Here == Head(pass.due)[1]
HereDue == SetToSortSeq(Head(pass.due)[2], <)

\* the same row for every due horizon
RowsFor(lines) ==
  [n \in DOMAIN HereDue |-> [horizon |-> HereDue[n], written |-> lines, alive |-> lines]]

\* measurePr: the pull request and its files are read; one that wrote nothing
\* measurable is not looked up in the branch
LookUp ==
  /\ Measuring /\ pass.look = NoLook /\ Here \notin Refused
  /\ pass' =
       IF Unmeasurable(Here) THEN [pass EXCEPT !.rows = RowsFor(Gone)]
       ELSE IF LinesWritten(Here) = 0 THEN [pass EXCEPT !.rows = RowsFor(0)]
       ELSE [pass EXCEPT !.look = [todo |-> HereDue, left |-> {}, alive |-> 0, rows |-> <<>>]]
  /\ UNCHANGED <<branch, synced, vanished, checks, cut, hitches>>

\* the commit at the next horizon is looked up; when the repository is gone,
\* every horizon gets a final row
FindCommit ==
  /\ Looking /\ pass.look.left = {}
  /\ pass' = IF Here \in vanished THEN [pass EXCEPT !.look = NoLook, !.rows = RowsFor(Gone)]
             ELSE [pass EXCEPT !.look.left = Sought(Here), !.look.alive = 0]
  /\ UNCHANGED <<branch, synced, vanished, checks, cut, hitches>>

\* one file is read; after the last one the horizon has its row, and after the
\* last horizon the rows are inserted
ReadFile ==
  /\ Looking
  /\ \E f \in pass.look.left :
       LET h == Head(pass.look.todo)
           alive == pass.look.alive + FileAlive(Here, h, f)
           left == pass.look.left \ {f}
           todo == IF left = {} THEN Tail(pass.look.todo) ELSE pass.look.todo
           rows == IF left = {} THEN Append(pass.look.rows,
                     [horizon |-> h, written |-> LinesWritten(Here), alive |-> alive])
                   ELSE pass.look.rows
       IN  /\ pass' = IF todo = <<>> THEN [pass EXCEPT !.look = NoLook, !.rows = rows]
                      ELSE [pass EXCEPT !.look = [todo |-> todo, left |-> left, alive |-> alive,
                                                  rows |-> rows]]
           /\ cut' = IF Here \in vanished THEN cut \cup {<<Here, h>>} ELSE cut
  /\ UNCHANGED <<branch, synced, vanished, checks, hitches>>

\* deferred: the pass goes on to the next one
Defer ==
  /\ Measuring
  /\ \/ Here \in Refused /\ UNCHANGED hitches
     \/ hitches < MaxHitches /\ hitches' = hitches + 1
  /\ pass' = [pass EXCEPT !.due = Tail(@), !.look = NoLook]
  /\ UNCHANGED <<branch, synced, vanished, checks, cut>>

\* INSERT .. ON CONFLICT DO NOTHING, each a transaction of its own
WriteCheck ==
  /\ pass # NoPass /\ pass.rows # <<>>
  /\ LET row == Head(pass.rows)
     IN  checks' = IF checks[Here][row.horizon] = NoRow
                   THEN [checks EXCEPT ![Here][row.horizon] = row] ELSE checks
  /\ pass' = IF Len(pass.rows) > 1 THEN [pass EXCEPT !.rows = Tail(@)]
             ELSE [due |-> Tail(pass.due), look |-> NoLook, rows |-> <<>>]
  /\ UNCHANGED <<branch, synced, vanished, cut, hitches>>

EndPass ==
  /\ pass # NoPass /\ pass.due = <<>>
  /\ pass' = NoPass
  /\ UNCHANGED <<branch, synced, vanished, checks, cut, hitches>>

\* the process, or the connection with its lock, is lost
PassDies ==
  /\ pass # NoPass /\ hitches < MaxHitches
  /\ pass' = NoPass
  /\ hitches' = hitches + 1
  /\ UNCHANGED <<branch, synced, vanished, checks, cut>>

Pass == StartPass \/ LookUp \/ FindCommit \/ ReadFile \/ Defer \/ WriteCheck \/ EndPass

SurvivalNext ==
  \/ Grow \/ \E p \in PRs : SyncPR(p) \/ RepositoryGone(p)
  \/ Pass \/ PassDies

\* each tick starts a pass, and GitHub answers
SurvivalFair == WF_survivalVars(Pass)

(***************************************************************************)
(* Properties.                                                              *)
(***************************************************************************)
\* the lines of a text that a multiset of lines has in common with another
Common(added, text) ==
  SumOver(Range(added) \cap Range(text), LAMBDA line :
    LET Copies(s) == Cardinality({n \in DOMAIN s : s[n] = line})
    IN  Min({Copies(added), Copies(text)}))

\* A check says how many of the lines written were in the branch at its
\* horizon, however late the pass ran and whatever the branch became (the
\* answer is the same no matter how late the job runs). It says fewer only when
\* the repository went between two of its files, never more; without numbers it
\* is of a pull request that is gone or too large.
ChecksAreOfHorizon ==
  \A p \in PRs : \A h \in Horizons : checks[p][h] # NoRow =>
    LET there == SumOver(Measurable(p), LAMBDA f :
                   LET text == branch[MergedAt[p] + h][f]
                   IN  IF text = Gone THEN 0 ELSE Common(addedLines(Patch[p][f]), text))
        row == checks[p][h]
    IN  IF row.written = Gone THEN Unmeasurable(p)
        ELSE row.alive = there \/ (<<p, h>> \in cut /\ row.alive < there)

\* A check is final once written, also when a pass died between its two rows
\* and the repository is gone in the next one.
ChecksAreFinal ==
  [][\A p \in PRs : \A h \in Horizons : checks[p][h] # NoRow => checks'[p][h] = checks[p][h]]_checks

\* Every due pull request is measured or found gone, past those GitHub refuses
\* for ever, as long as they are fewer than a batch. It holds for good soon
\* after the last change.
DueIsChecked ==
  \A p \in synced \ Refused : \A h \in Horizons : horizonInstant(p, h) <= Now => checks[p][h] # NoRow
=============================================================================
