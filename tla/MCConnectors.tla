---------------------------- MODULE MCConnectors ----------------------------
(***************************************************************************)
(* Every connector in one run: an initial state picks the vendor, and only *)
(* that vendor's actions follow.                                           *)
(***************************************************************************)
EXTENDS Github, CursorTeam, OpenAiOrg, AnthropicOrg, IssueBoards
CONSTANT Vendors

PR(author, bot, pages, reverts) == [author |-> author, bot |-> bot, pages |-> pages, reverts |-> reverts]
ThreePRs ==
  <<PR(1, {}, <<{"claude"}, {}>>, {}), PR(None, {"devin"}, <<{}>>, {}),
    PR(2, {}, <<{"codex"}, {"claude"}>>, {2})>>

Ev(ts, who, charged) == [ts |-> ts, who |-> who, charged |-> charged]
Team == <<"ann">>
PastEvents ==
  <<Ev(11, "ann", TRUE), Ev(11, "ann", TRUE), Ev(21, "bob", TRUE), Ev(21, "ci", FALSE), Ev(21, "bob", TRUE)>>

OaRow(d, u, k, m, b) == [day |-> d, user |-> u, key |-> k, model |-> m, batch |-> b]
OaRows ==
  {OaRow(1, 1, None, "gpt-dated", FALSE), OaRow(2, None, 1, "new", TRUE), OaRow(1, None, None, "gpt", TRUE)}
OaBills ==
  {[day |-> 1, project |-> 1, item |-> "gpt, input"], [day |-> 2, project |-> 2, item |-> "new, input"],
   [day |-> 2, project |-> 1, item |-> "search"]}
Lines == ("gpt, input" :> "gpt") @@ ("new, input" :> "new") @@ ("search" :> None)
Dates == ("gpt" :> "gpt") @@ ("gpt-dated" :> "gpt") @@ ("new" :> "new")
Rates ==
  ("gpt" :> [input |-> 7, cached |-> 2, batch |-> 3]) @@ ("new" :> [input |-> 5, cached |-> None, batch |-> 4])
Owners == <<1, None>>

Emails == <<"Ann@x", "bob@x">>
KeyNames == <<"CI", "ci">>
Lowered ==
  ("Ann@x" :> "ann@x") @@ ("ann@x" :> "ann@x") @@ ("bob@x" :> "bob@x")
    @@ ("CI" :> "ci") @@ ("ci" :> "ci") @@ ("gone" :> "gone")
Creators == <<1, 2>>
AnRows == {[day |-> 1, key |-> 1, model |-> "opus"], [day |-> 2, key |-> None, model |-> "new"]}
AnCosted ==
  {[day |-> 1, type |-> "tokens", description |-> "opus"],
   [day |-> 2, type |-> "web_search", description |-> "search"]}
Record(d, a, type) == [day |-> d, actor |-> a, terminal |-> "vscode", type |-> type]
Records ==
  {Record(1, <<"user", "ann@x">>, "api"), Record(1, <<"user", "ann@x">>, "subscription"),
   Record(2, <<"key", "ci">>, "api"), Record(2, <<"key", "gone">>, "api")}

Scripts == {<<>>, <<"doing", "todo", "doing">>, <<"review", None, "done">>}

MCInit ==
  /\ vendor \in Vendors
  /\ \/ GhInit \/ CuInit \/ OaInit \/ AnInit \/ IbInit

Pages ==
  \/ vendor = "github" /\ GhPages
  \/ vendor = "cursor" /\ CuPages
  \/ vendor = "openai" /\ OaPages
  \/ vendor = "anthropic" /\ AnPages
  \/ vendor = "issues" /\ IbPages

MCNext ==
  \/ vendor = "github" /\ GhNext
  \/ vendor = "cursor" /\ CuNext
  \/ vendor = "openai" /\ OaNext
  \/ vendor = "anthropic" /\ AnNext
  \/ vendor = "issues" /\ IbNext

\* a run that failed resumes at its token: pages go on being fetched
MCSpec == MCInit /\ [][MCNext]_walkVars /\ WF_walkVars(Pages)

\* Whatever the vendors' data does while it is walked, what a finished walk has
\* stored says what the vendor says: see the four ledgers (fetchPage of
\* github.ts, cursor.ts, openai.ts, anthropic.ts, and commitPage in sync.ts).
VendorLedgers == GithubLedger /\ CursorLedger /\ OpenAiLedger /\ AnthropicLedger

\* Every walk comes to its end while the vendor goes on changing, however often
\* it failed on the way, unless the vendor's data is in a state on which every
\* retry throws: a search over GitHub's cap, a queued pull request that is
\* gone, a model without a price (connectors/sync.ts:696-727).
WalksEnd ==
  token # None ~>
    \/ token = None
    \/ vendor = "github" /\ GhStuck
    \/ vendor = "openai" /\ OaStuck
    \/ vendor = "anthropic" /\ AnStuck

\* A pull request that cannot be read any more is skipped, as survival.ts skips
\* it (survival.ts:275-284). It fails: the connector throws on it in every run,
\* and no later report of the vendor is ever read.
GoneIsSkipped == vendor = "github" /\ token # None ~> token = None \/ OverCap
=============================================================================
