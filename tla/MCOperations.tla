---------------------------- MODULE MCOperations ----------------------------
(***************************************************************************)
(* The parts of the server around the sync engine and the ledger, and the    *)
(* wrapped clients of the SDKs, one behavior for each part: "part" says      *)
(* which one runs, and all the others stand still.                           *)
(***************************************************************************)
EXTENDS Alerts, Survival, RoiReaders, Wrap, Access, RateLimit, Settings, Reports, Migrate, Lifecycle

VARIABLE part

(***************************************************************************)
(* Instances.                                                               *)
(***************************************************************************)
Months == <<1, 2>>
Pcts == <<100, 80>>
Mails == {<<>>, <<"cfo", "cfo">>}

L(s) == [n \in DOMAIN s |-> [sign |-> "+", text |-> s[n]]]
MergeInstants == <<1, 1, 2>>
Diffs ==
  <<[f |-> L(<<"a">>), g |-> L(<<"b">>)], [f |-> L(<<"a", "a", "">>), g |-> NoPatch],
    [f |-> <<[sign |-> "-", text |-> "a"]>>]>>
Texts ==
  {[f |-> <<"a", "b">>, g |-> <<>>], [f |-> <<"a", "a">>, g |-> Gone]}

F(id, day, person, product, vendor, basis, mode, key, tokens, cents, ccy) ==
  [id |-> id, day |-> day, person |-> person, product |-> product, vendor |-> vendor,
   basis |-> basis, mode |-> mode, key |-> key, model |-> IF tokens > 0 THEN "m" ELSE None,
   tokens |-> tokens, cents |-> cents, ccy |-> ccy]
LedgerFacts ==
  {F(1, 1, "ann", None, "cursor", "estimated", "metered", "k1", 2, 31, "USD"),
   F(1, 2, "ann", None, "cursor", "estimated", "metered", "k1", 2, 45, "USD"),
   F(2, 1, "old", "app", "openai", "estimated", "metered", "k2", 1, 21, "EUR"),
   F(3, 1, "ann", None, "cursor", "invoiced", "subscription", None, 0, 51, "USD"),
   F(4, 2, None, None, "openai", "invoiced", "metered", None, 0, -23, "EUR"),
   F(5, 2, None, "app", "manual", "manual", "metered", None, 0, 27, "USD")}
O(id, day, person, product, kind, value, ccy, tools, reverted) ==
  [id |-> id, day |-> day, person |-> person, product |-> product, kind |-> kind, count |-> 1,
   value |-> value, ccy |-> ccy, tools |-> tools, reverted |-> reverted]
LedgerOutcomes ==
  {O(1, 2, "ann", "Coding", "github_pr", None, None, {"cursor", "devin"}, FALSE),
   O(1, 2, "ann", "Coding", "github_pr", None, None, {"cursor", "devin"}, TRUE),
   O(2, 1, None, "app", "ticket", 3, "EUR", {}, FALSE)}
LedgerMetrics ==
  {[day |-> 1, person |-> "ann", vendor |-> "cursor", metric |-> "accepts", value |-> 3],
   [day |-> 1, person |-> None, vendor |-> "cursor", metric |-> "rejects", value |-> 1],
   [day |-> 2, person |-> "ann", vendor |-> "anthropic", metric |-> "estimated_cost_cents", value |-> 5]}
LedgerSeats == {[person |-> "ann", vendor |-> "anthropic", from |-> 1, until |-> None]}
LedgerKeys == [k1 |-> [person |-> "ann", product |-> None, tags |-> {"cli"}, manualTags |-> {}],
               k2 |-> [person |-> None, product |-> "app", tags |-> {}, manualTags |-> {"devin"}]]
Rates == [USD |-> <<2, 2, 2>>, EUR |-> <<3, 2, 3>>]
Merges == [ann |-> None, old |-> "ann"]
Settings == [devin |-> [product |-> "app", countsPersonal |-> FALSE]]
Kinds == [app |-> "sdk_event", Coding |-> "github_pr"]
Defaults == [app |-> <<2, "EUR">>, Coding |-> None]
Checks == {[pr |-> 1, horizon |-> 30, written |-> 4, alive |-> 3, error |-> FALSE],
           [pr |-> 1, horizon |-> 90, written |-> 4, alive |-> 1, error |-> FALSE]}
MonthDays == [m \in 0..1 |-> IF m = 0 THEN [from |-> 1, to |-> 1] ELSE [from |-> 2, to |-> 2]]

U(i, o) == [input |-> i, output |-> o]
Chunk(type, model, usage, inner, onRequest) ==
  [type |-> type, model |-> model, usage |-> usage, inner |-> inner, onRequest |-> onRequest]
Claude ==
  <<Chunk("message_start", Absent, Absent, [model |-> "opus", usage |-> U(5, 1)], FALSE),
    Chunk("content", Absent, Absent, Absent, FALSE),
    Chunk("message_delta", Absent, U(Absent, 4), Absent, FALSE)>>
Chat ==
  <<Chunk("chunk", "gpt", Absent, Absent, FALSE), Chunk("chunk", "gpt", U(3, 2), Absent, TRUE)>>
Responses ==
  <<Chunk("response.delta", Absent, Absent, Absent, FALSE),
    Chunk("response.completed", Absent, Absent, [model |-> "gpt", usage |-> U(3, 2)], FALSE)>>
Kind ==
  [claude |-> [vendor |-> "anthropic", path |-> "messages.create", stream |-> TRUE,
               usageOpt |-> Absent, asked |-> "claude"],
   helper |-> [vendor |-> "anthropic", path |-> "messages.stream", stream |-> TRUE,
               usageOpt |-> Absent, asked |-> "claude"],
   chat |-> [vendor |-> "openai", path |-> "chat.completions.create", stream |-> TRUE,
               usageOpt |-> Absent, asked |-> Absent],
   muted |-> [vendor |-> "openai", path |-> "chat.completions.create", stream |-> TRUE,
               usageOpt |-> FALSE, asked |-> "gpt"],
   responses |-> [vendor |-> "openai", path |-> "responses.create", stream |-> TRUE,
               usageOpt |-> Absent, asked |-> Absent],
   embeddings |-> [vendor |-> "openai", path |-> "embeddings.create", stream |-> FALSE,
               usageOpt |-> Absent, asked |-> "embed"]]
Scripts ==
  [claude |-> Claude, helper |-> Claude, chat |-> Chat, muted |-> Chat, responses |-> Responses,
   embeddings |-> <<Chunk("answer", Absent, U(7, Absent), Absent, FALSE)>>]
Shapes == {"ts", "py"} \X DOMAIN Kind
CallOf == [c \in Shapes |->
  [sdk |-> c[1], vendor |-> Kind[c[2]].vendor, path |-> Kind[c[2]].path, stream |-> Kind[c[2]].stream,
   usageOpt |-> Kind[c[2]].usageOpt, asked |-> Kind[c[2]].asked]]
ScriptOf == [c \in Shapes |-> Scripts[c[2]]]

R(d, c) == [day |-> d, ccy |-> c]
Published ==
  <<{R(1, "USD"), R(1, "HRK")}, {R(1, "USD"), R(2, "BGN")}, {R(1, "USD"), R(2, "USD"), R(2, "BGN")}>>
S(k, v) == [key |-> k, value |-> v]
Patches == {<<S("display_currency", "BGN")>>,
         <<S("display_currency", "EUR"), S("license_file", "forged")>>,
         <<S("license_file", "ours"), S("display_currency", "USD")>>,
         <<S("scheduled_reports", "cfo"), S("license_file", "none")>>,
         <<S("scheduled_reports", "nobody")>>}
Shipped == [display_currency |-> "USD", license_file |-> "none", scheduled_reports |-> "off"]
Turned == {S("scheduled_reports", "nobody")}

Books == {<<>>, <<"gone", "cfo">>, <<"ceo", "ceo">>}
Images == [old |-> {1, 2}, new |-> {1, 2, 3}, odd |-> {1, 3, 4}]
Hooks == [p |-> {"fact", "login"}, q |-> {"key"}]

(***************************************************************************)
(* Where each part starts, and where it stands when another one runs.       *)
(***************************************************************************)
Quiet == recipients # <<>> /\ (\A v \in Watched : linkedAt[v] = 1) /\ spends = MaxSpends
           /\ edits = MaxEdits /\ crashes = 0 /\ links = 0
Loud(e, c) == recipients = <<>> /\ (\A v \in Watched : linkedAt[v] = 0) /\ spends = 0
                /\ edits = e /\ crashes = c /\ links = MaxLinks
Part(p, runs, stands) == IF part = p THEN runs ELSE stands
Stands(p, still) == Part(p, TRUE, still)

AlertsStart ==
  /\ AlertsInit /\ (\A p \in Staff : limit[p] = 5)
  /\ Part("alerts", Quiet \/ Loud(1, 0) \/ Loud(0, 1), Loud(1, 0))
SurvivalStart ==
  SurvivalInit /\ Stands("survival", hitches = 0 /\ branch = <<[f |-> <<"a", "a">>, g |-> Gone]>>)
ReadersStart ==
  /\ Stands("readers", changes = 0 /\ facts = {} /\ outs = {} /\ displayCcy = "USD")
  /\ ReadersInit
  /\ part = "readers" =>
       changes = MaxChanges \/ (changes = 0 /\ outs = {} /\ displayCcy = "USD" /\ Cardinality(facts) = 5)
WrapStart ==
  /\ Stands("wrap", phase = [c \in Calls |-> "never"])
  /\ WrapInit
  /\ part = "wrap" => \E c \in Calls : phase = [d \in Calls |-> IF d = c THEN "idle" ELSE "never"]
AccessStart == AccessInit /\ starts = 0
SettingsStart ==
  /\ FxInit /\ SettingsInit
  /\ Part("settings", feed = Len(Feeds) /\ bad = MaxBad /\ restarts = MaxRestarts,
                      feed = 1 /\ bad = 0 /\ restarts = 0)
ReportsStart ==
  /\ ReportsInit
  /\ Part("reports", listings = 0 <=> mailFails = MaxMailFails,
                     schedule = <<>> /\ provider = FALSE /\ listings = 0 /\ mailFails = 0)

Parts ==
  {"alerts", "survival", "readers", "wrap", "access", "limiter", "fx", "settings", "reports", "migrate", "life"}
Init ==
  /\ part \in Parts
  /\ AlertsStart /\ SurvivalStart /\ ReadersStart /\ WrapStart /\ AccessStart /\ LimitInit
  /\ SettingsStart /\ ReportsStart /\ MigrateInit /\ LifeInit

Next ==
  \/ part = "alerts" /\ AlertsNext
     /\ UNCHANGED <<part, survivalVars, readerVars, wrapVars, accessVars, limitVars, fxVars, settingVars, reportVars, migrateVars, lifeVars>>
  \/ part = "survival" /\ SurvivalNext
     /\ UNCHANGED <<part, alertVars, readerVars, wrapVars, accessVars, limitVars, fxVars, settingVars, reportVars, migrateVars, lifeVars>>
  \/ part = "readers" /\ ReadersNext
     /\ UNCHANGED <<part, alertVars, survivalVars, wrapVars, accessVars, limitVars, fxVars, settingVars, reportVars, migrateVars, lifeVars>>
  \/ part = "wrap" /\ WrapNext
     /\ UNCHANGED <<part, alertVars, survivalVars, readerVars, accessVars, limitVars, fxVars, settingVars, reportVars, migrateVars, lifeVars>>
  \/ part = "access" /\ AccessNext
     /\ UNCHANGED <<part, alertVars, survivalVars, readerVars, wrapVars, limitVars, fxVars, settingVars, reportVars, migrateVars, lifeVars>>
  \/ part = "limiter" /\ LimitNext
     /\ UNCHANGED <<part, alertVars, survivalVars, readerVars, wrapVars, accessVars, fxVars, settingVars, reportVars, migrateVars, lifeVars>>
  \/ part = "fx" /\ FxNext
     /\ UNCHANGED <<part, alertVars, survivalVars, readerVars, wrapVars, accessVars, limitVars, settingVars, reportVars, migrateVars, lifeVars>>
  \/ part = "settings" /\ ((FxNext /\ UNCHANGED settingVars) \/ (SettingsNext /\ UNCHANGED fxVars))
     /\ UNCHANGED <<part, alertVars, survivalVars, readerVars, wrapVars, accessVars, limitVars, reportVars, migrateVars, lifeVars>>
  \/ part = "reports" /\ ReportsNext
     /\ UNCHANGED <<part, alertVars, survivalVars, readerVars, wrapVars, accessVars, limitVars, fxVars, settingVars, migrateVars, lifeVars>>
  \/ part = "migrate" /\ MigrateNext
     /\ UNCHANGED <<part, alertVars, survivalVars, readerVars, wrapVars, accessVars, limitVars, fxVars, settingVars, reportVars, lifeVars>>
  \/ part = "life" /\ LifeNext
     /\ UNCHANGED <<part, alertVars, survivalVars, readerVars, wrapVars, accessVars, limitVars, fxVars, settingVars, reportVars, migrateVars>>

vars == <<part, alertVars, survivalVars, readerVars, wrapVars, accessVars, limitVars, fxVars, settingVars, reportVars, migrateVars, lifeVars>>

\* only the part that runs has steps to be fair to
Fair ==
  \/ part = "alerts" /\ AlertsFair
  \/ part = "survival" /\ SurvivalFair
  \/ part = "fx" /\ FxFair
  \/ part = "reports" /\ ReportsFair
  \/ part = "migrate" /\ MigrateFair
  \/ part \notin {"alerts", "survival", "fx", "reports", "migrate"}
Spec == Init /\ [][Next]_vars /\ Fair

(***************************************************************************)
(* Properties.                                                              *)
(***************************************************************************)
\* Nobody is alerted of the same thing more often than the list of recipients names
\* them, and what is claimed was true of the rollups; a report that is marked has
\* reached somebody, and nobody gets it more often than a list names them, but for
\* restarts, marks that were not stored and mails that arrived though they failed.
MessagesHold == AlertsHold /\ MarkedIsSent /\ SentOnce

\* Every page that reads the ledger says of a day, a person, a product and a
\* vendor what the rows say, and so what every other page says; a wrapped client
\* records each call once, with the tokens the vendor reported; and a survival
\* check counts the lines that are alive at its horizon, whenever it runs and
\* whatever the vendor does between its requests, but for a file it could not see.
NumbersAgree ==
  /\ part = "readers" => ReadersAgree
  /\ part = "wrap" => WrapCounts
  /\ part = "survival" => ChecksAreOfHorizon

\* The instance is claimed once, a one-time credential is used once and by its
\* owner, the last admin stays unless two removals cross or their person is deleted
\* for good, and nobody gets more attempts through than the limiter allows while it
\* need not forget.
SignInsHold == AccessHolds /\ Throttled

\* What an instance is set to is sound through all that is under way: the
\* currency converts, a change is audited unless its entry could not be written,
\* no container serves on a schema that is not its own or fails over another one
\* once the database exists, a connected vendor is not mixed with demo data, and
\* the rollups count no demo data that is gone.
InstanceHolds ==
  /\ CurrencyConverts /\ ChangesAudited /\ NothingForged
  /\ ServesMigrated /\ NoNeedlessFailure
  /\ NoMix /\ RollupsFollow /\ ConnectedHasConfig

\* A survival check that is made stays, a rate is never replaced by one of an
\* older feed, the popup does not come back, and nothing real goes with demo data.
StepsAreFinal == ChecksAreFinal /\ RatesNeverRegress /\ PopupStays /\ WipeKeepsReal

\* Once nothing is added any more, all work gets done and stays done: who is
\* over a limit is alerted, every due survival check is made, the last feed is
\* stored, the report is out, and every boot has ended.
WorkGetsDone ==
  <>[](/\ part = "alerts" => CrossedIsClaimed
       /\ part = "survival" => DueIsChecked
       /\ part = "fx" => FeedLands
       /\ part = "reports" => ReportGoesOut
       /\ part = "migrate" => BootsEnd)
=============================================================================
