------------------------------ MODULE OpenAiOrg ------------------------------
(***************************************************************************)
(* The OpenAI connector (src/lib/connectors/openai.ts) and the pinned price*)
(* table it estimates with (prices.ts, openai-prices.ts): users, projects, *)
(* the API keys of each project, token usage per user, key and model priced*)
(* here, and the cost report, whose token lines are left out for models    *)
(* that are priced here.                                                   *)
(*                                                                         *)
(* A page of a report is one daily bucket. Tokens are small integers in    *)
(* tenths of a million, rates cents per million; audio is left out.        *)
(***************************************************************************)
EXTENDS Connector

CONSTANTS
  OaIds,        \* ids of users, projects and keys; lists are served by id
  OaDays,       \* days of the window, 1 .. OaDays
  OaUsage,      \* usage rows: [day, user, key, model, batch]
  OaItems,      \* cost rows: [day, project, item]
  LineModel,    \* LineModel[item]: the model a token line names; None
  Undated,      \* Undated[model]: its id without a date suffix
  OaRates,      \* OaRates[model]: [input, cached, batch] of the table; None
  OaPinned,     \* models the first release's table holds
  OaOwner,      \* OaOwner[k]: the user a key belongs to; None
  OaTokens      \* bound: tokens of a row

Priced == [input : Nat, cached : Nat \cup {None}, batch : Nat \cup {None}]

\* cursor: the last id served, or a day; index: into the projects
OaCursors ==
  [phase : {"users", "projects", "api_keys", "usage", "costs"}, cursor : Nat, projects : Seq(Nat), index : Nat]

ASSUME OpenAiAssumption ==
  /\ {1, 2} \subseteq OaIds /\ OaIds \subseteq Nat \ {0} /\ OaDays \in Nat \ {0} /\ OaTokens \in Nat
  /\ OaPinned \subseteq DOMAIN OaRates /\ \A m \in DOMAIN OaRates : OaRates[m] \in Priced
  /\ \A r \in OaUsage \cup OaItems : r.day \in 1 .. OaDays
  /\ None \notin Nat \cup OaPinned \cup Priced \cup OaCursors

\* world: users, projects, keys[p]; rows[r], the tokens of a usage row (input,
\* and cached among it), bill[b], the cents of a cost row; pinned, the models
\* of the table of the running release
OaInit ==
  /\ world \in [users : {{1}}, projects : {{1, 2}},
                keys : {[p \in OaIds |-> IF p = 2 THEN {1} ELSE {}]},
                rows : {NoRows}, bill : {NoRows}, pinned : {OaPinned}]
  /\ vendor = "openai" /\ token = None /\ moved = {} /\ walks = 0 /\ changes = 0
  /\ stored = [people |-> {}, keys |-> NoRows, usage |-> NoRows, costs |-> NoRows]

OaInitialCursor == [phase |-> "users", cursor |-> 0, projects |-> <<>>, index |-> 1]

-----------------------------------------------------------------------------
\* the exact id, else the id without its date
LookupPinnedPrice(model) ==
  IF model \in world.pinned THEN OaRates[model]
  ELSE IF Undated[model] \in world.pinned THEN OaRates[Undated[model]] ELSE None

hasPinnedPrice(model) == model # None /\ LookupPinnedPrice(model) # None

\* the rows an estimate throws on: no price for the model, none for a kind of
\* token it has, or more cached tokens than tokens
Unpriceable(r, t) ==
  \/ ~hasPinnedPrice(r.model)
  \/ t.cached > t.input
  \/ r.batch /\ (t.cached > 0 \/ (t.input > 0 /\ LookupPinnedPrice(r.model).batch = None))
  \/ ~r.batch /\ t.cached > 0 /\ LookupPinnedPrice(r.model).cached = None

\* whole cents, rounded half up
Estimate(r, t) ==
  LET price == LookupPinnedPrice(r.model)
      cost == IF r.batch THEN (IF t.input = 0 THEN 0 ELSE t.input * price.batch)
              ELSE (t.input - t.cached) * price.input
                     + (IF t.cached = 0 THEN 0 ELSE t.cached * price.cached) IN
  (cost + 5) \div 10

\* the user spent it, else the key, else nobody
Who(r) == IF r.user # None THEN <<"user", r.user>> ELSE IF r.key # None THEN <<"key", r.key>> ELSE None

RowsOf(day) == {r \in DOMAIN world.rows : r.day = day}
usageFacts(day) ==
  [r \in RowsOf(day) |-> [cents |-> Estimate(r, world.rows[r]), who |-> Who(r)]]

\* mutant: every line of the cost report is kept
Kept_All(b) == TRUE

\* a token line of a priced model is on the ledger already
Kept(b) == ~hasPinnedPrice(LineModel[b.item])
costFacts(day) == [b \in {c \in DOMAIN world.bill : c.day = day /\ Kept(c)} |-> world.bill[b]]

-----------------------------------------------------------------------------
OaListUsers ==
  /\ InPhase("users")
  /\ LET page == ListAfter(world.users, token.cursor) IN
     CommitPage(IF HasMore(world.users, token.cursor) THEN [token EXCEPT !.cursor = Max(page)]
                  ELSE [token EXCEPT !.phase = "projects", !.cursor = 0],
                [stored EXCEPT !.people = @ \cup page])

ListProjects ==
  /\ InPhase("projects")
  /\ LET page == ListAfter(world.projects, token.cursor)
         next == [token EXCEPT !.projects = @ \o SetToSeq(page)] IN
     CommitPage(IF HasMore(world.projects, token.cursor) THEN [next EXCEPT !.cursor = Max(page)]
                  ELSE IF next.projects = <<>> THEN [next EXCEPT !.phase = "usage", !.cursor = 1]
                  ELSE [next EXCEPT !.phase = "api_keys", !.cursor = 0, !.index = 1],
                stored)

OaListKeys ==
  /\ InPhase("api_keys")
  /\ LET keys == world.keys[token.projects[token.index]]
         page == ListAfter(keys, token.cursor) IN
     CommitPage(IF HasMore(keys, token.cursor) THEN [token EXCEPT !.cursor = Max(page)]
                  ELSE IF token.index < Len(token.projects)
                    THEN [token EXCEPT !.cursor = 0, !.index = @ + 1]
                  ELSE [token EXCEPT !.phase = "usage", !.cursor = 1],
                [stored EXCEPT !.keys = Upsert(@, [k \in page |-> OaOwner[k]])])

\* a row that cannot be priced throws, and so does every retry until a release
\* pins its price
OaUsagePage ==
  /\ InPhase("usage")
  /\ \A r \in RowsOf(token.cursor) : ~Unpriceable(r, world.rows[r])
  /\ CommitPage(IF token.cursor < OaDays THEN [token EXCEPT !.cursor = @ + 1]
                  ELSE [token EXCEPT !.phase = "costs", !.cursor = 1],
                [stored EXCEPT !.usage = Upsert(@, usageFacts(token.cursor))])

OaCosts ==
  /\ InPhase("costs")
  /\ CommitPage(IF token.cursor < OaDays THEN [token EXCEPT !.cursor = @ + 1] ELSE None,
                [stored EXCEPT !.costs = Upsert(@, costFacts(token.cursor))])

-----------------------------------------------------------------------------
(***************************************************************************)
(* The vendor moves, the writes of this program included; a release of the *)
(* program may pin more prices.                                            *)
(***************************************************************************)
inviteOpenAiUser(u) == u \notin world.users /\ Move([world EXCEPT !.users = @ \cup {u}], {"people"})
deleteOpenAiUser(u) == u \in world.users /\ Move([world EXCEPT !.users = @ \ {u}], {"people"})
mintOpenAiKey(p, k) ==
  /\ p \in world.projects /\ \A q \in OaIds : k \notin world.keys[q]
  /\ Move([world EXCEPT !.keys[p] = @ \cup {k}], {"people"})
\* the key's project is searched for, archived ones too
deleteOpenAiApiKey(k) ==
  \E p \in world.projects :
    k \in world.keys[p] /\ Move([world EXCEPT !.keys[p] = @ \ {k}], {"people"})
OaUse(r, t) ==
  /\ r \in DOMAIN world.rows => t.input > world.rows[r].input
  /\ Move([world EXCEPT !.rows = Upsert(@, Row(r, t))], {"usage"})
Bill(b) ==
  Move([world EXCEPT !.bill = Grow(@, b)], {"bill"})
Release ==
  /\ world.pinned # DOMAIN OaRates
  /\ Move([world EXCEPT !.pinned = DOMAIN OaRates], {"pinned"})

OaMoves ==
  \/ Release
  \/ \E i \in OaIds : inviteOpenAiUser(i) \/ deleteOpenAiUser(i) \/ deleteOpenAiApiKey(i)
  \/ \E p, k \in OaIds : mintOpenAiKey(p, k)
  \/ \E r \in OaUsage, input \in 1 .. OaTokens, cached \in {0, 1} :
       OaUse(r, [input |-> input, cached |-> cached])
  \/ \E b \in OaItems : Bill(b)

OaPages == OaListUsers \/ ListProjects \/ OaListKeys \/ OaUsagePage \/ OaCosts
OaNext == Start(OaInitialCursor) \/ OaPages \/ OaMoves

-----------------------------------------------------------------------------
(***************************************************************************)
(* What is promised.                                                       *)
(***************************************************************************)
\* the row's cost in tenths of a cent times ten, from the report and the table
Worth(r, t) ==
  LET p == LookupPinnedPrice(r.model) IN
  SumFunction([n \in 1 .. t.input |->
                 IF r.batch THEN p.batch ELSE IF n <= t.cached THEN p.cached ELSE p.input])

\* Every usage row is one estimate, priced token by token, rounded once, on the
\* account of whoever spent it, whether or not the key is still listed
\* (openai.ts:431-472, openai-prices.ts:49-86).
UsagePriced ==
  Settled("openai", {"usage", "pinned"}) =>
    \A r \in DOMAIN world.rows :
      LET f == stored.usage[r] IN
      /\ f.who = Who(r)
      /\ 10 * f.cents - 5 <= Worth(r, world.rows[r]) /\ Worth(r, world.rows[r]) < 10 * f.cents + 5

\* A line of the cost report is kept, or it names a model whose tokens are
\* estimated; never both, for the models the first release prices
\* (openai.ts:517-525).
CostsOnce ==
  Settled("openai", {"bill", "pinned"}) =>
    \A b \in DOMAIN world.bill :
      IF hasPinnedPrice(LineModel[b.item])
      THEN LineModel[b.item] \in OaPinned => b \notin DOMAIN stored.costs
      ELSE stored.costs[b] = world.bill[b]

\* every key that exists is known, with its owner
KeysKnown ==
  Settled("openai", {"people"}) =>
    /\ world.users \subseteq stored.people
    /\ \A p \in world.projects : \A k \in world.keys[p] : stored.keys[k] = OaOwner[k]

OpenAiLedger == UsagePriced /\ CostsOnce /\ KeysKnown

OaStuck == InPhase("usage") /\ \E r \in RowsOf(token.cursor) : Unpriceable(r, world.rows[r])

\* A priced model's tokens are on the ledger once ("storing the billed version
\* too would double count", openai.ts:517-519). It fails across a release: a
\* model's token line was kept before its price was pinned, and stays when its
\* usage is estimated.
TokensCountedOnce ==
  Settled("openai", {"usage", "bill", "pinned"}) =>
    \A b \in DOMAIN stored.costs : \A r \in DOMAIN stored.usage :
      b.day = r.day => LineModel[b.item] \notin {r.model, Undated[r.model]}
=============================================================================
