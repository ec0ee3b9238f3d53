----------------------------- MODULE IssueBoards -----------------------------
(***************************************************************************)
(* The issue connectors (src/lib/connectors/linear.ts, jira.ts): pages of  *)
(* issues with their history, from which the status timeline is rebuilt    *)
(* and distilled into three timestamps (issues.ts), and the person or agent*)
(* an issue is credited to. IssueLedger has what is done with them.        *)
(*                                                                         *)
(* Linear sends the first HISTORY_SIZE history entries of an issue; Jira   *)
(* embeds the latest ones, newest first, and the connector reads the full  *)
(* changelog when some are missing. One issue a page. Both vendors' walks  *)
(* are here, world.board says which; a status is its name, todo, doing or *)
(* done unless the vendor has dropped it since.                            *)
(***************************************************************************)
EXTENDS Connector

CONSTANTS
  IbIssues,      \* an interval of ids 1 .. n
  IbHistory,     \* HISTORY_SIZE of Linear, the embedded changelog of Jira
  IbScripts,     \* histories issue 1 may have at first: where it went, or None
  IbToday,       \* the clock at first
  IbMoves,       \* bound: history entries of an issue
  IbPeople, IbAgents,
  IbSubmitted,   \* configured status names; None for the default
  IbFail

IbStatuses == {"todo", "doing", "review", "done"}

\* after: the last issue served, by id (Linear) or by time of update (Jira);
\* the rest is in memory only, between the requests of one Jira page
IbCursors ==
  [phase : {"page", "search", "changelog"}, after : Nat,
   bucket : [IbStatuses -> IbStatuses \cup {None}], issue : Nat]

ASSUME IssueBoardsAssumption ==
  /\ IbToday \in Nat /\ IbIssues \subseteq 1 .. IbToday
  /\ {IbHistory, IbMoves} \subseteq Nat \ {0}
  /\ \A script \in IbScripts : script \in Seq(IbStatuses \cup {None}) /\ Len(script) <= IbToday
  /\ None \notin Nat \cup IbStatuses /\ None \notin IbCursors

Category == [s \in IbStatuses |-> IF s = "review" THEN "doing" ELSE s]
IbActors == IbPeople \cup IbAgents \cup {None}

\* world: board, whether it serves history newest first; clock; bucket, what
\* the statuses that exist stand for; per issue its status, its history
\* entries [ts, from, to] (to = None: not a status), when it was updated, and
\* who is on it
StatusAfter(script, n) ==
  LET entered == {k \in 1 .. n : script[k] # None} IN
  IF entered = {} THEN "todo" ELSE script[Max(entered)]
Played(script) ==
  [n \in DOMAIN script |->
     [ts |-> n, to |-> script[n],
      from |-> IF script[n] = None THEN None ELSE StatusAfter(script, n - 1)]]

IbInit ==
  \E script \in IbScripts :
  /\ world \in [board : {"linear", "jira"}, newest : BOOLEAN, clock : {IbToday}, bucket : {Category},
                status : {[i \in IbIssues |-> IF i = 1 THEN StatusAfter(script, Len(script)) ELSE "todo"]},
                history : {[i \in IbIssues |-> IF i = 1 THEN Played(script) ELSE <<>>]},
                updated : {[i \in IbIssues |-> i]},
                on : {[i \in IbIssues |-> [creator |-> c, assignee |-> None, delegate |-> None]] : c \in IbPeople}]
  /\ world.board = "jira" => world.newest
  /\ vendor = "issues" /\ token = None /\ moved = {} /\ walks = 0 /\ changes = 0
  /\ stored = NoRows

IbInitialCursor == [phase |-> "page", after |-> 0, bucket |-> Category, issue |-> 0]

Place(i) == IF world.board = "linear" THEN i ELSE world.updated[i]
Ahead == {i \in IbIssues : Place(i) > token.after}
NextIssue == CHOOSE i \in Ahead : \A k \in Ahead : Place(i) <= Place(k)

-----------------------------------------------------------------------------
(***************************************************************************)
(* From a served history to an issue's events.                             *)
(***************************************************************************)
Moves(entries) == {m \in ToSet(entries) : m.to # None}
\* instants are distinct here
Sorted(moves) ==
  [n \in 1 .. Cardinality(moves) |->
     CHOOSE m \in moves : Cardinality({k \in moves : k.ts < m.ts}) = n - 1]

\* the statuses entered, the first one at creation: where the first move came
\* from, or where an untouched issue is
Timeline(entries, status, bucket) ==
  LET moves == Sorted(Moves(entries))
      first == IF moves = <<>> THEN status ELSE Head(moves).from IN
  <<[ts |-> 0, name |-> first, bucket |-> bucket[first]]>>
    \o [n \in DOMAIN moves |-> [ts |-> moves[n].ts, name |-> moves[n].to, bucket |-> bucket[moves[n].to]]]

\* when the timeline first enters what is wanted
First(timeline, wanted) ==
  LET hits == {n \in DOMAIN timeline : timeline[n] \in wanted} IN
  IF hits = {} THEN None ELSE timeline[Min(hits)].ts
Earlier(a, b) == IF a = None THEN b ELSE IF b = None THEN a ELSE Min({a, b})

Submissions(S) == {t \in S : IF IbSubmitted # None THEN t.name = IbSubmitted ELSE t.bucket = "doing"}
Completions(S) == {t \in S : t.bucket = "done"}
Regressions(S, after) ==
  {t \in S : (IF IbFail # None THEN t.name = IbFail ELSE t.bucket = "todo") /\ t.ts > after}

distillTransitions(timeline) ==
  LET entered == ToSet(timeline)
      submitted == First(timeline, Submissions(entered))
      done == First(timeline, Completions(entered))
      anchor == Earlier(submitted, done) IN
  IF anchor = None THEN [submitted |-> None, done |-> None, regressed |-> None]
  ELSE [submitted |-> submitted, done |-> done,
        regressed |-> First(timeline, Regressions(entered, anchor))]

\* the agent working the issue (Linear's delegate), else an agent assignee,
\* else an agent creator, else the human creator, else the assignee
creditedActor(on) ==
  LET order == (IF world.board = "linear" THEN <<on.delegate>> ELSE <<>>) \o <<on.assignee, on.creator>>
      agents == {n \in DOMAIN order : order[n] \in IbAgents} IN
  IF agents # {} THEN order[Min(agents)] ELSE IF on.creator # None THEN on.creator ELSE on.assignee

-----------------------------------------------------------------------------
(***************************************************************************)
(* Pages.                                                                  *)
(***************************************************************************)
Truncated(i) == Len(world.history[i]) > IbHistory

\* what the page carries of an issue's history
Embedded(i) ==
  LET h == world.history[i] IN
  IF ~Truncated(i) THEN IF world.newest THEN Reverse(h) ELSE h
  ELSE IF world.newest THEN Reverse(SubSeq(h, Len(h) - IbHistory + 1, Len(h)))
  ELSE SubSeq(h, 1, IbHistory)

\* mutant: the truncated changelog is judged as it is
Complete_Assumed(i) == TRUE

Complete(i) == world.board = "linear" \/ ~Truncated(i)

TokenAfter(i) ==
  IF \E k \in IbIssues : Place(k) > Place(i)
    THEN [IbInitialCursor EXCEPT !.after = Place(i)] ELSE None

\* the page's row of an issue; what is quantified over one element is evaluated once
Judge(i, entries, bucket) ==
  \E timeline \in {Timeline(entries, world.status[i], bucket)} :
    CommitPage(TokenAfter(i),
      Upsert(stored, Row(i, [events |-> distillTransitions(timeline),
                             credited |-> creditedActor(world.on[i])])))

\* Linear: one request, the types of the statuses come with the history
LinearPage ==
  /\ InPhase("page") /\ world.board = "linear"
  /\ IF Ahead = {} THEN CommitPage(None, stored)
     ELSE Judge(NextIssue, Embedded(NextIssue), Category)

\* Jira: the site's statuses first
ReadStatuses ==
  /\ InPhase("page") /\ world.board = "jira"
  /\ CommitPage([token EXCEPT !.phase = "search", !.bucket = world.bucket], stored)

JiraPage ==
  /\ InPhase("search")
  /\ IF Ahead = {} THEN CommitPage(None, stored)
     ELSE IF Complete(NextIssue)
       THEN Judge(NextIssue, Embedded(NextIssue), token.bucket)
     ELSE CommitPage([token EXCEPT !.phase = "changelog", !.issue = NextIssue], stored)

\* the full changelog, oldest first, then the page is committed
FullChangelog ==
  /\ InPhase("changelog")
  /\ Judge(token.issue, world.history[token.issue], token.bucket)

-----------------------------------------------------------------------------
Touch(w, i) == [w EXCEPT !.updated[i] = w.clock + 1, !.clock = @ + 1]

Enter(i, s) ==
  /\ s # world.status[i] /\ world.bucket[s] # None /\ Len(world.history[i]) < IbMoves
  /\ Move(Touch([world EXCEPT !.status[i] = s,
                  !.history[i] = Append(@, [ts |-> world.clock + 1, from |-> world.status[i], to |-> s])], i),
          {"issues"})
EditIssue(i) ==
  /\ Len(world.history[i]) < IbMoves
  /\ Move(Touch([world EXCEPT !.history[i] = Append(@, [ts |-> world.clock + 1, from |-> None, to |-> None])], i),
          {"issues"})
Assign(i, a) ==
  Move(Touch([world EXCEPT !.on[i] = a], i), {"issues"})
\* a status no issue is in any more is dropped from the board
DropStatus(s) ==
  /\ world.board = "jira" /\ world.bucket[s] # None /\ \A i \in IbIssues : world.status[i] # s
  /\ Move([world EXCEPT !.bucket[s] = None], {"statuses"})

IbMovesNext ==
  \/ \E i \in IbIssues : EditIssue(i) \/ \E s \in IbStatuses : Enter(i, s)
  \/ \E i \in IbIssues \cap {1}, a \in IbActors, role \in {"assignee", "delegate"} :
       world.on[i][role] # a /\ Assign(i, [world.on[i] EXCEPT ![role] = a])
  \/ DropStatus("review")

IbPages == LinearPage \/ ReadStatuses \/ JiraPage \/ FullChangelog
IbNext == Start(IbInitialCursor) \/ IbPages \/ IbMovesNext

-----------------------------------------------------------------------------
(***************************************************************************)
(* What is promised.                                                       *)
(***************************************************************************)
\* what really happened to an issue, as a set of entries into statuses; only
\* Jira forgets what a dropped status stood for
Happened(i) ==
  LET h == world.history[i]
      b == IF world.board = "jira" THEN world.bucket ELSE Category IN
  {[ts |-> 0, name |-> "todo", bucket |-> b["todo"]]}
    \cup {[ts |-> h[n].ts, name |-> h[n].to, bucket |-> b[h[n].to]] : n \in {k \in DOMAIN h : h[k].to # None}}
FirstTime(S) == IF S = {} THEN None ELSE Min({t.ts : t \in S})

\* Every issue is judged on its whole history: the instants of submission,
\* completion and of the first regression after the earlier of the two are
\* the ones that happened, whatever the vendor cut or in whichever order it
\* came; Linear's only while the history fits in one answer
\* (linear.ts:195-260, jira.ts:227-330, issues.ts:95-122).
TimelinesExact ==
  Settled("issues", {"issues", "statuses"}) =>
    \A i \in IbIssues : world.board = "jira" \/ ~Truncated(i) =>
      LET past == Happened(i)
          submitted == FirstTime(Submissions(past))
          done == FirstTime(Completions(past))
          anchor == Earlier(submitted, done) IN
      stored[i].events =
        [submitted |-> submitted, done |-> done,
         regressed |-> IF anchor = None THEN None
                       ELSE FirstTime(Regressions(past, anchor))]

\* An agent on the issue earns it; a delegate only where there are delegates
\* (linear.ts:273-281, jira.ts:368-375).
AgentsCredited ==
  Settled("issues", {"issues"}) =>
    \A i \in IbIssues :
      LET on == world.on[i]
          agents == {a \in {on.creator, on.assignee} : a \in IbAgents}
                      \cup (IF world.board = "linear" /\ on.delegate \in IbAgents THEN {on.delegate} ELSE {}) IN
      /\ agents # {} => stored[i].credited \in agents
      /\ agents = {} => stored[i].credited = (IF on.creator # None THEN on.creator ELSE on.assignee)

IssueTimelines == TimelinesExact /\ AgentsCredited

\* "The machine's decisive events are early" (linear.ts:49): the cut history
\* gives the same verdict. It fails for a regression or a completion after the
\* cut, or, served newest first, for everything before it.
EarlyHistoryDecides ==
  Settled("issues", {"issues"}) =>
    \A i \in IbIssues :
      stored[i].events.done = FirstTime(Completions(Happened(i)))
=============================================================================
