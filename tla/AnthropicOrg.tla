----------------------------- MODULE AnthropicOrg -----------------------------
(***************************************************************************)
(* The Anthropic connector (src/lib/connectors/anthropic.ts): users, API   *)
(* keys (mapped to the person who created them), token usage per key and   *)
(* model priced here, the cost report's other charges, and the Claude Code *)
(* analytics, which name people by email and keys by name, one day a call. *)
(*                                                                         *)
(* The price of a token is a cent; OpenAiOrg has the arithmetic. Lists and *)
(* reports serve one element a page, analytics AnPage records.             *)
(***************************************************************************)
EXTENDS Connector

CONSTANTS
  AnUsers,      \* ids; a user's email is in AnEmail
  AnEmail,
  AnKeys,       \* ids; keys are listed by id
  AnName,       \* AnName[k]: the key's name
  LowerCase,    \* LowerCase[s]: s in lower case
  AnCreator,    \* AnCreator[k]: the user who created it
  AnDays,       \* days of the window, 1 .. AnDays
  AnUsage,      \* usage rows: [day, key, model]
  AnPriced,     \* models of the pinned table
  AnCharges,    \* cost rows: [day, type, description]
  AnRecords,    \* analytics records: [day, actor, terminal, type]; an actor is
                \* <<"user", email>> or <<"key", name>>
  AnPage

\* cursor: the last id served, a day, or a page of a day; what it has read of
\* users, and of keys by their name
AnCursors ==
  [phase : {"users", "api_keys", "usage", "cost", "claude_code"}, cursor : Nat, day : Nat,
   users : SUBSET AnUsers, keys : Tables({LowerCase[AnName[k]] : k \in AnKeys}, AnKeys)]

\* an address is one user's, however it is written
ASSUME AnthropicAssumption ==
  /\ AnUsers \cup AnKeys \subseteq Nat \ {0} /\ AnUsers # {} /\ AnKeys # {}
  /\ {AnDays, AnPage} \subseteq Nat \ {0}
  /\ \A u, v \in AnUsers : LowerCase[AnEmail[u]] = LowerCase[AnEmail[v]] => u = v
  /\ \A r \in AnUsage \cup AnCharges \cup AnRecords : r.day \in 1 .. AnDays
  /\ None \notin {AnEmail[u] : u \in AnUsers} \cup AnCursors

\* world: users; keys with their status; rows[r], cost[c] and code[x], what the
\* reports say
AnInit ==
  /\ world \in [users : {{Min(AnUsers)}}, keys : {Row(Min(AnKeys), "active")},
                rows : {NoRows}, cost : {NoRows}, code : {NoRows}]
  /\ vendor = "anthropic" /\ token = None /\ moved = {} /\ walks = 0 /\ changes = 0
  /\ stored = [emails |-> NoRows, seats |-> {}, usage |-> NoRows, costs |-> NoRows, code |-> NoRows]

AnInitialCursor == [phase |-> "users", cursor |-> 0, day |-> 0, users |-> {}, keys |-> NoRows]

\* an email that is unknown leaves the one on file
Describe(table, ids) ==
  Upsert(table, [i \in {j \in DOMAIN ids : ids[j] # None \/ j \notin DOMAIN table} |-> ids[i]])

-----------------------------------------------------------------------------
AnListUsers ==
  /\ InPhase("users")
  /\ LET page == ListAfter(world.users, token.cursor)
         next == [token EXCEPT !.users = @ \cup page] IN
     CommitPage(IF HasMore(world.users, token.cursor) THEN [next EXCEPT !.cursor = Max(page)]
                  ELSE [next EXCEPT !.phase = "api_keys", !.cursor = 0],
                [stored EXCEPT !.emails = Describe(@, [i \in {<<"user", u>> : u \in page} |-> AnEmail[i[2]]])])

Listed(k) == TRUE

\* a key is its creator's, if the roster knows them; the analytics will name it
\* by its name, of which the last one listed is kept
AnListKeys ==
  /\ InPhase("api_keys")
  /\ LET keys == {k \in DOMAIN world.keys : Listed(k)}
         page == ListAfter(keys, token.cursor)
         next == [token EXCEPT !.keys = Upsert(@, [n \in {LowerCase[AnName[k]] : k \in page} |-> Max(page)])]
         email(k) == IF AnCreator[k] \in token.users THEN AnEmail[AnCreator[k]] ELSE None IN
     CommitPage(IF HasMore(keys, token.cursor) THEN [next EXCEPT !.cursor = Max(page)]
                  ELSE [next EXCEPT !.phase = "usage", !.cursor = 1],
                [stored EXCEPT !.emails = Describe(@, [i \in {<<"key", k>> : k \in page} |-> email(i[2])])])

\* a bucket of the usage report; a model without a price throws
AnUsagePage ==
  /\ InPhase("usage")
  /\ LET page == {r \in DOMAIN world.rows : r.day = token.cursor} IN
     /\ \A r \in page : r.model \in AnPriced
     /\ CommitPage(IF token.cursor < AnDays THEN [token EXCEPT !.cursor = @ + 1]
                     ELSE [token EXCEPT !.phase = "cost", !.cursor = 1],
                   [stored EXCEPT !.usage = Upsert(@, [r \in page |-> world.rows[r]])])

TokenCharge(c) == c.type = "tokens"

\* a bucket of the cost report, without the charges usage estimates
AnCosts ==
  /\ InPhase("cost")
  /\ LET page == {c \in DOMAIN world.cost : c.day = token.cursor /\ ~TokenCharge(c)} IN
     CommitPage(IF token.cursor < AnDays THEN [token EXCEPT !.cursor = @ + 1]
                  ELSE [token EXCEPT !.phase = "claude_code", !.cursor = 1, !.day = 1],
                [stored EXCEPT !.costs = Upsert(@, [c \in page |-> world.cost[c]])])

-----------------------------------------------------------------------------
\* mutant: an email is looked up as it is written
Known_Cased(users, email) == {u \in users : AnEmail[u] = email}

Known(users, email) == {u \in users : LowerCase[AnEmail[u]] = LowerCase[email]}

\* who a record counts for: the roster's user of that email, else the email;
\* the key of that name, else the name
ActorOf(a) ==
  IF a[1] = "user"
  THEN LET known == Known(token.users, a[2]) IN
       IF known # {} THEN <<"user", Max(known)>> ELSE <<"email", LowerCase[a[2]]>>
  ELSE IF LowerCase[a[2]] \in DOMAIN token.keys THEN <<"key", token.keys[LowerCase[a[2]]]>> ELSE <<"name", a[2]>>

\* a record's key: the day, the actor in lower case, and the terminal
CodeRef(x) == <<x.day, x.actor[1], LowerCase[x.actor[2]], x.terminal>>

ServedOn(day) == SetToSeq({x \in DOMAIN world.code : x.day = day})

\* a page's rows: of two records with one key the later one stands
codeRows(page) ==
  [ref \in {CodeRef(x) : x \in ToSet(page)} |->
     LET x == page[Max({n \in DOMAIN page : CodeRef(page[n]) = ref})] IN
     [who |-> ActorOf(x.actor), sessions |-> world.code[x]]]

\* a page of a day's analytics; a subscriber holds a flat seat
ClaudeCode ==
  /\ InPhase("claude_code")
  /\ LET all == ServedOn(token.day)
         page == PageOf(all, token.cursor, AnPage)
         subscribed == {x \in ToSet(page) : x.actor[1] = "user" /\ x.type = "subscription"} IN
     CommitPage(IF MorePages(all, token.cursor, AnPage) THEN [token EXCEPT !.cursor = @ + 1]
                  ELSE IF token.day < AnDays THEN [token EXCEPT !.cursor = 1, !.day = @ + 1]
                  ELSE None,
                [stored EXCEPT !.code = Upsert(@, codeRows(page)),
                               !.seats = @ \cup {ActorOf(x.actor) : x \in subscribed}])

-----------------------------------------------------------------------------
(***************************************************************************)
(* The vendor moves, the writes of this program included.                  *)
(***************************************************************************)
inviteAnthropicUser(u) ==
  u \notin world.users /\ Move([world EXCEPT !.users = @ \cup {u}], {"people"})
deleteAnthropicUser(u) ==
  u \in world.users /\ Move([world EXCEPT !.users = @ \ {u}], {"people"})
CreateKey(k) ==
  /\ k \notin DOMAIN world.keys /\ AnCreator[k] \in world.users
  /\ Move([world EXCEPT !.keys = Upsert(@, Row(k, "active"))], {"people"})
archiveAnthropicApiKey(k) ==
  /\ k \in DOMAIN world.keys /\ world.keys[k] = "active"
  /\ Move([world EXCEPT !.keys[k] = "archived"], {"keys"})
AnUse(r) ==
  /\ r.key # None => r.key \in DOMAIN world.keys /\ world.keys[r.key] = "active"
  /\ Move([world EXCEPT !.rows = Grow(@, r)], {"usage"})
Charge(c) == Move([world EXCEPT !.cost = Grow(@, c)], {"cost"})
Code(x) == Move([world EXCEPT !.code = Grow(@, x)], {"code"})

AnMoves ==
  \/ \E u \in AnUsers : inviteAnthropicUser(u) \/ deleteAnthropicUser(u)
  \/ \E k \in AnKeys : CreateKey(k) \/ archiveAnthropicApiKey(k)
  \/ \E r \in AnUsage : AnUse(r)
  \/ \E c \in AnCharges : Charge(c)
  \/ \E x \in AnRecords : Code(x)

AnPages == AnListUsers \/ AnListKeys \/ AnUsagePage \/ AnCosts \/ ClaudeCode
AnNext == Start(AnInitialCursor) \/ AnPages \/ AnMoves

-----------------------------------------------------------------------------
(***************************************************************************)
(* What is promised.                                                       *)
(***************************************************************************)
\* Dollars are on the ledger once: every usage row as an estimate under its
\* key, every other charge as it is billed, and no charge for tokens
\* (anthropic.ts:342-420).
ChargedOnce ==
  /\ Settled("anthropic", {"usage"}) => \A r \in DOMAIN world.rows : stored.usage[r] = world.rows[r]
  /\ Settled("anthropic", {"cost"}) =>
       \A c \in DOMAIN world.cost :
         IF c.type = "tokens" THEN c \notin DOMAIN stored.costs ELSE stored.costs[c] = world.cost[c]

\* Every key, archived or not, is on file, under its creator's email when the
\* creator was on the roster (anthropic.ts:647-671).
KeysMapped ==
  Settled("anthropic", {"people"}) =>
    \A k \in DOMAIN world.keys :
      /\ <<"key", k>> \in DOMAIN stored.emails
      /\ AnCreator[k] \in world.users => stored.emails[<<"key", k>>] = AnEmail[AnCreator[k]]

\* The analytics of a person are theirs in whatever case the email is written,
\* and a subscriber among them holds a seat, and the sessions of a record
\* are the vendor's, unless another record of the day has the same actor and
\* terminal (anthropic.ts:428-580).
Alone(x) == \A y \in DOMAIN world.code : CodeRef(y) = CodeRef(x) => y = x
CodeCounted ==
  Settled("anthropic", {"code", "people"}) =>
    \A x \in DOMAIN world.code :
      /\ CodeRef(x) \in DOMAIN stored.code
      /\ Alone(x) => stored.code[CodeRef(x)].sessions = world.code[x]
      /\ \A u \in world.users :
           x.actor[1] = "user" /\ LowerCase[x.actor[2]] = LowerCase[AnEmail[u]] =>
             /\ stored.code[CodeRef(x)].who = <<"user", u>>
             /\ x.type = "subscription" => <<"user", u>> \in stored.seats

AnthropicLedger == ChargedOnce /\ KeysMapped /\ CodeCounted

AnStuck == InPhase("usage") /\ \E r \in DOMAIN world.rows : r.day = token.cursor /\ r.model \notin AnPriced

\* The sessions counted for a day are the vendor's ("the same person can show
\* up once per terminal per day", anthropic.ts:557-558). It fails: a person
\* who uses a key and a subscription in one terminal has two records, and the
\* second overwrites the first.
SessionsCounted ==
  Settled("anthropic", {"code", "people"}) =>
    MapThenSumSet(LAMBDA x : world.code[x], DOMAIN world.code)
      = MapThenSumSet(LAMBDA r : stored.code[r].sessions, DOMAIN stored.code)
=============================================================================
