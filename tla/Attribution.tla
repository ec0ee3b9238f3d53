----------------------------- MODULE Attribution -----------------------------
(***************************************************************************)
(* Whose spend is it? Identities (a key, a vendor account) are matched to  *)
(* people by address or by an admin, or routed to an ROI by their tags;    *)
(* their spend facts and outcomes follow. Written by sync pages and the    *)
(* promotion of issues (sync.ts, issues.ts), pages of events (ingest.ts),  *)
(* Resolve (resolve.ts), tags (tags.ts), imports (people-import.ts) and    *)
(* hard deletes (people.ts).                                               *)
(*                                                                         *)
(* Each is one READ COMMITTED transaction: a statement reads what was      *)
(* committed when it began, waits for the rows it writes, and shares the   *)
(* people rows its foreign keys point at. A transaction is cut where what  *)
(* it read may be stale when it writes; its own writes appear at the end.  *)
(*                                                                         *)
(* A person is named by their primary address. Tags were added before      *)
(* (addTag), so that pointing one is never refused; ROIs are not archived. *)
(***************************************************************************)
EXTENDS Integers, FiniteSets, Functions

CONSTANTS
  Sessions,    \* connections of the pool
  Emails,      \* addresses, and the people whose primary address they are
  Ids,         \* identities
  Imported,    \* people imported before anything was synced
  VendorEmail, \* VendorEmail[i]: the address a vendor gives for i, or None
  Tags,
  Products,    \* the ROIs an admin routes to
  OutcomeRoi,  \* the ROI of an outcome's kind or project, of an ingest key
  None,        \* NULL
  Idle,
  MaxChanges,  \* bound: admin operations and key renames
  MaxFaults,   \* bound: transactions that fail or lose their connection
  MaxRows      \* bound: unlike rows of an identity, when more are begun

ASSUME AttributionAssumption ==
  /\ Imported \subseteq Emails
  /\ VendorEmail \in [Ids -> Emails \cup {None}]
  /\ None \notin Emails \cup Products
  /\ OutcomeRoi # None
  /\ IsFiniteSet(Products)
  /\ Ids \cap Emails = {} /\ Ids \cap Tags = {} /\ Emails \cap Tags = {}
  /\ MaxChanges \in Nat /\ MaxFaults \in Nat /\ MaxRows \in Nat

VARIABLES
  vendorTags, \* vendorTags[i]: the tags in the key's name at the vendor
  roster,     \* people rows
  mergedInto, \* people.merged_into
  alias,      \* person_emails: alias[e] is the person e is remembered for
  ids,        \* identities rows
  pointed,    \* tag_settings.product_id
  facts,      \* facts[i]: whom and what the facts and outcomes of i count for,
              \* and by: who chose it, its identity, a page or a promotion
  tx,         \* tx[s]: the transaction on connection s, or Idle
  decided,    \* history: decided[i], whom an admin confirmed i to be, until an
              \* admin, an import or a tag moved i
  changes, faults

vars == <<vendorTags, roster, mergedInto, alias, ids, pointed, facts, tx,
          decided, changes, faults>>
data == <<vendorTags, roster, mergedInto, alias, ids, pointed, facts, decided>>

\* sdk: an employee of the ingest API, not an identity of a vendor
Unseen == [seen |-> FALSE, sdk |-> FALSE, email |-> None, tags |-> {}, person |-> None,
           notPerson |-> FALSE, product |-> None]

Init ==
  /\ vendorTags = [i \in Ids |-> {}]
  /\ roster = Imported
  /\ mergedInto = [e \in Emails |-> None]
  /\ alias = [e \in Emails |-> None]
  /\ \E S \in SUBSET {i \in Ids : VendorEmail[i] # None} :
       ids = [i \in Ids |-> [Unseen EXCEPT !.sdk = (i \in S)]]
  /\ pointed = [t \in Tags |-> None]
  /\ facts = [i \in Ids |-> {}]
  /\ tx = [s \in Sessions |-> Idle]
  /\ decided = [i \in Ids |-> None]
  /\ changes = 0
  /\ faults = 0

------------------------------------------------------------------------------
(* Row locks. *)

Rows(R, mode) == {<<r, mode>> : r \in R}

\* KEY SHARE admits updates of other columns; FOR UPDATE and DELETE nothing
Conflict(m, n) == "full" \in {m, n} \/ (m = "update" /\ n = "update")

Blocks(t, want) ==
  tx[t] # Idle /\ \E a \in want, b \in tx[t].locks : a[1] = b[1] /\ Conflict(a[2], b[2])

CanLock(s, want) == \A t \in Sessions \ {s} : ~Blocks(t, want)

Begin(s, t) == tx[s] = Idle /\ tx' = [tx EXCEPT ![s] = t]
End(s) == tx' = [tx EXCEPT ![s] = Idle]
At(s, step) == tx[s] # Idle /\ tx[s].step = step

\* an admin's operation starts
Change == changes < MaxChanges /\ changes' = changes + 1

Live(p) == p \in roster /\ mergedInto[p] = None

\* personByEmailSql: remembered addresses first, then the roster
ByEmail(e) ==
  IF e = None THEN None
  ELSE IF alias[e] # None THEN alias[e] ELSE IF Live(e) THEN e ELSE None

\* the ROIs a set of tags points at
Claims(T, setting) == {setting[t] : t \in T} \ {None}

\* who chose what a row counts for, once it is moved
MovedBy(f, product) ==
  IF product # None THEN "identity" ELSE IF f.by = "promotion" THEN "page" ELSE f.by

\* reattribute: a person always, an ROI only when there is one
Attributed(F, person, product) ==
  {[person |-> person, product |-> IF product # None THEN product ELSE f.product,
    by |-> MovedBy(f, product)] : f \in F}

------------------------------------------------------------------------------
Room(i, new) == Cardinality(facts[i]) + Cardinality(new) <= MaxRows

(* A page of a sync that describes identity i, or only names it on a row,  *)
(* or a request of events of employee i. A new row counts for the ROI of   *)
(* its identity (a fact, an issue of a routed identity) or for the page's  *)
(* own (other outcomes, all rows of the ingest API).                       *)

Page(s, i, described, new) ==
  /\ Begin(s, [step |-> "upsert", id |-> i, described |-> described, new |-> new,
               tags |-> IF ids[i].sdk THEN {} ELSE vendorTags[i],
               found |-> [e \in Emails |-> IF VendorEmail[i] \in {None, e} THEN ByEmail(e)
                                           ELSE None],
               row |-> Unseen, locks |-> {}])
  /\ IF new = {} THEN described ELSE Room(i, new)
  /\ ids[i].sdk => described /\ "identity" \notin new
  /\ UNCHANGED <<data, changes, faults>>

\* mutant: the address first, then the mapping
Matched_Swapped(old, match) ==
  IF old.notPerson THEN None ELSE IF match # None THEN match ELSE old.person

\* mutant: only a new identity is matched
Matched_New(old, match) == IF old.seen THEN old.person ELSE match

\* a mapping is kept, a missing one filled, but not for what is not a person
Matched(old, match) ==
  IF old.notPerson THEN None ELSE IF old.person # None THEN old.person ELSE match

\* upsertIdentity, ensureIdentity: the people it saw may be older than the row
Upserted(s) ==
  LET t == tx[s]
      old == ids[t.id]
      email == IF VendorEmail[t.id] # None THEN VendorEmail[t.id] ELSE old.email
      match == IF email = None THEN None ELSE t.found[email]
  IN  IF ~t.described THEN [old EXCEPT !.seen = TRUE]
      ELSE [old EXCEPT !.seen = TRUE, !.email = email, !.tags = t.tags,
                       !.person = Matched(old, match)]

NewShare(s) ==
  LET p == Upserted(s).person
  IN  IF p \in {None, ids[tx[s].id].person} THEN {} ELSE Rows({p}, "share")

\* applyTagRouting on the page's identity
Routed(row) ==
  LET claims == Claims(row.tags, pointed)
  IN  IF Cardinality(claims) = 1 /\ claims # {row.product}
      THEN [row EXCEPT !.product = CHOOSE c \in claims : TRUE,
                       !.person = None, !.notPerson = TRUE]
      ELSE row

\* mutant: an identity routed to an ROI is not swept
Swept_PeopleOnly(t) ==
  IF t.described /\ t.row.person # None
  THEN Attributed(facts[t.id], t.row.person, t.row.product)
  ELSE facts[t.id]

\* reattributeIdentityHistory for a described identity; sweepIdentityHistory
\* of the ingest API moves the person alone
Swept(t) ==
  IF t.row.sdk THEN Attributed(facts[t.id], t.row.person, None)
  ELSE IF t.described /\ (t.row.person # None \/ t.row.product # None)
  THEN Attributed(facts[t.id], t.row.person, t.row.product)
  ELSE facts[t.id]

\* the rows of the page come after the sweep
New(t) ==
  {[person |-> t.row.person, by |-> by,
    product |-> IF by = "page" THEN OutcomeRoi ELSE t.row.product] : by \in t.new}

Written(t) == Swept(t) \cup New(t)

------------------------------------------------------------------------------
(* What the next statement of a transaction locks, and whether its foreign *)
(* keys and checks hold. *)

MappedTo(p) == {i \in Ids : ids[i].person = p}

Wants(s) ==
  LET t == tx[s]
  IN  CASE t.step = "upsert"  -> Rows({t.id}, "update") \cup NewShare(s)
        [] t.step = "route"   -> {}
        [] t.step = "write"   -> IF t.row.person # None /\ Written(t) # facts[t.id]
                                 THEN Rows({t.row.person}, "share") ELSE {}
        [] t.step = "promote" -> Rows({t.person} \ {None}, "share")
        [] t.step = "confirm" -> Rows({t.person}, "share")
        [] t.step = "merge"   -> Rows(MappedTo(t.person), "update")
        [] t.step = "import"  -> Rows(DOMAIN t.match, "update")
                                 \cup Rows(Range(t.match) \ {t.person}, "share")
        [] t.step = "point"   -> Rows(DOMAIN t.match, "update")
        [] t.step = "delete"  -> Rows({t.person}, "full")
                                 \cup Rows(MappedTo(t.person), "update")
                                 \cup Rows({p \in roster : mergedInto[p] = t.person}, "update")

Violates(s) ==
  LET t == tx[s]
  IN  \/ t.step = "upsert" /\ ~(Upserted(s).person \in roster \cup {None})
      \/ t.step = "promote" /\ t.person \notin roster \cup {None}
      \/ t.step = "confirm" /\ t.person \notin roster
      \/ t.step = "import" /\ \E i \in DOMAIN t.match :
           ids[i].notPerson \/ t.match[i] \notin roster \cup {t.person}

Runs(s, step) == At(s, step) /\ CanLock(s, Wants(s)) /\ ~Violates(s)

------------------------------------------------------------------------------
(* The statements of a page after its snapshot. *)

Upsert(s) ==
  /\ Runs(s, "upsert")
  /\ tx' = [tx EXCEPT ![s].row = Upserted(s), ![s].locks = Wants(s),
                      ![s].step = IF tx[s].described /\ ~ids[tx[s].id].sdk
                                  THEN "route" ELSE "write"]
  /\ UNCHANGED <<data, changes, faults>>

Route(s) ==
  /\ Runs(s, "route")
  /\ tx' = [tx EXCEPT ![s].row = Routed(@), ![s].step = "write"]
  /\ UNCHANGED <<data, changes, faults>>

Write(s) ==
  LET t == tx[s]
      i == t.id
  IN  /\ Runs(s, "write")
      /\ ids' = [ids EXCEPT ![i] = t.row]
      /\ facts' = [facts EXCEPT ![i] = Written(t)]
      /\ decided' = [decided EXCEPT ![i] = IF t.row.product # ids[i].product THEN None ELSE @]
      /\ End(s)
      /\ UNCHANGED <<vendorTags, roster, mergedInto, alias, pointed, changes, faults>>

\* promoteDueIssues reads the identity of a pending issue and does not lock it
Promote(s, i) ==
  /\ Begin(s, [step |-> "promote", id |-> i, person |-> ids[i].person,
               product |-> IF ids[i].product # None THEN ids[i].product ELSE OutcomeRoi,
               locks |-> {}])
  /\ ids[i].seen /\ ~ids[i].sdk /\ Room(i, {"promotion"})
  /\ UNCHANGED <<data, changes, faults>>

EmitOutcome(s) ==
  LET t == tx[s]
  IN  /\ Runs(s, "promote")
      /\ facts' = [facts EXCEPT ![t.id] = @ \cup
                     {[person |-> t.person, product |-> t.product, by |-> "promotion"]}]
      /\ End(s)
      /\ UNCHANGED <<vendorTags, roster, mergedInto, alias, ids, pointed, decided,
                     changes, faults>>

------------------------------------------------------------------------------
(* Resolve. *)

\* confirmMatch locks the identity and reads the person
Confirm(s, i, p) ==
  /\ Begin(s, [step |-> "confirm", id |-> i, person |-> p, locks |-> Rows({i}, "update")])
  /\ CanLock(s, Rows({i}, "update"))
  /\ ids[i].seen /\ Live(p)
  /\ Change
  /\ UNCHANGED <<data, faults>>

ConfirmMatch(s) ==
  LET i == tx[s].id
      p == tx[s].person
      email == ids[i].email
  IN  /\ Runs(s, "confirm")
      /\ ids' = [ids EXCEPT ![i].person = p, ![i].notPerson = FALSE]
      /\ alias' = IF email # None /\ ~Live(email) THEN [alias EXCEPT ![email] = p] ELSE alias
      /\ facts' = [facts EXCEPT ![i] = Attributed(@, p, None)]
      /\ decided' = [decided EXCEPT ![i] = p]
      /\ End(s)
      /\ UNCHANGED <<vendorTags, roster, mergedInto, pointed, changes, faults>>

\* markNotPerson, onto an ROI or (None) only onto a tag
MarkNotPerson(s, i, product) ==
  /\ tx[s] = Idle
  /\ CanLock(s, Rows({i}, "update"))
  /\ ids[i].seen
  /\ Change
  /\ ids' = [ids EXCEPT ![i].person = None, ![i].notPerson = TRUE,
                        ![i].product = IF product # None THEN product ELSE @]
  /\ facts' = [facts EXCEPT ![i] = Attributed(@, None, product)]
  /\ decided' = [decided EXCEPT ![i] = None]
  /\ UNCHANGED <<vendorTags, roster, mergedInto, alias, pointed, tx, faults>>

\* mergePeople locks both people
Merge(s, p, q) ==
  /\ Begin(s, [step |-> "merge", person |-> p, into |-> q, locks |-> Rows({p, q}, "full")])
  /\ CanLock(s, Rows({p, q}, "full"))
  /\ p # q /\ Live(p) /\ Live(q)
  /\ Change
  /\ UNCHANGED <<data, faults>>

\* f with every p in it replaced by q
Replaced(f, p, q) == [x \in DOMAIN f |-> IF f[x] = p THEN q ELSE f[x]]

MergePeople(s) ==
  LET p == tx[s].person
      q == tx[s].into
  IN  /\ Runs(s, "merge")
      /\ mergedInto' = [mergedInto EXCEPT ![p] = q]
      /\ alias' = Replaced([alias EXCEPT ![p] = q], p, q)
      /\ ids' = [i \in Ids |-> IF ids[i].person = p
                               THEN [ids[i] EXCEPT !.person = q] ELSE ids[i]]
      /\ facts' = [i \in Ids |-> {[f EXCEPT !.person = IF @ = p THEN q ELSE @] : f \in facts[i]}]
      /\ decided' = Replaced(decided, p, q)
      /\ End(s)
      /\ UNCHANGED <<vendorTags, roster, pointed, changes, faults>>

------------------------------------------------------------------------------
(* The roster. *)

\* importPeople upserts person p and selects the identities that now match
Import(s, p) ==
  LET known == roster \cup {p}
      unmatched == {i \in Ids : /\ ids[i].person = None /\ ~ids[i].notPerson
                                /\ ids[i].email \in known
                                /\ mergedInto[ids[i].email] = None}
  IN  /\ Begin(s, [step |-> "import", person |-> p,
                   match |-> [i \in unmatched |-> ids[i].email],
                   locks |-> Rows({p}, "update")])
      /\ CanLock(s, Rows({p}, "update"))
      /\ Change
      /\ UNCHANGED <<data, faults>>

ImportPeople(s) ==
  LET match == tx[s].match
  IN  /\ Runs(s, "import")
      /\ roster' = roster \cup {tx[s].person}
      /\ ids' = [i \in Ids |-> IF i \in DOMAIN match
                               THEN [ids[i] EXCEPT !.person = match[i]] ELSE ids[i]]
      /\ facts' = [i \in Ids |-> IF i \in DOMAIN match
                                 THEN Attributed(facts[i], match[i], None) ELSE facts[i]]
      /\ decided' = [i \in Ids |-> IF i \in DOMAIN match THEN None ELSE decided[i]]
      /\ End(s)
      /\ UNCHANGED <<vendorTags, mergedInto, alias, pointed, changes, faults>>

\* hardDeletePerson: two statements, no transaction around them
Scrub(s, p) ==
  /\ Begin(s, [step |-> "delete", person |-> p, locks |-> {}])
  /\ CanLock(s, Rows(MappedTo(p), "update"))
  /\ p \in roster
  /\ Change
  /\ ids' = [i \in Ids |-> IF ids[i].person = p
                           THEN [ids[i] EXCEPT !.person = None, !.email = None] ELSE ids[i]]
  /\ decided' = Replaced(decided, p, None)
  /\ UNCHANGED <<vendorTags, roster, mergedInto, alias, pointed, facts, faults>>

\* and what the foreign keys do about the row
DeletePerson(s) ==
  LET p == tx[s].person
  IN  /\ Runs(s, "delete")
      /\ roster' = roster \ {p}
      /\ mergedInto' = [Replaced(mergedInto, p, None) EXCEPT ![p] = None]
      /\ alias' = Replaced(alias, p, None)
      /\ ids' = [i \in Ids |-> IF ids[i].person = p
                               THEN [ids[i] EXCEPT !.person = None] ELSE ids[i]]
      /\ facts' = [i \in Ids |-> {[f EXCEPT !.person = IF @ = p THEN None ELSE @] : f \in facts[i]}]
      /\ decided' = Replaced(decided, p, None)
      /\ End(s)
      /\ UNCHANGED <<vendorTags, pointed, changes, faults>>

------------------------------------------------------------------------------
(* Tags. *)

\* updateTag writes the setting and selects the keys to route
PointTag(s, tag, product) ==
  LET setting == [pointed EXCEPT ![tag] = product]
      claim(i) == Claims(ids[i].tags, setting)
      hit == {i \in Ids : /\ tag \in ids[i].tags
                          /\ Cardinality(claim(i)) = 1 /\ claim(i) # {ids[i].product}}
  IN  /\ Begin(s, [step |-> "point", tag |-> tag, product |-> product,
                   match |-> [i \in hit |-> CHOOSE c \in claim(i) : TRUE],
                   locks |-> Rows({tag}, "update")])
      /\ CanLock(s, Rows({tag}, "update"))
      /\ Change
      /\ UNCHANGED <<data, faults>>

UpdateTag(s) ==
  LET match == tx[s].match
      moved == {i \in DOMAIN match : ids[i].product # match[i]}
  IN  /\ Runs(s, "point")
      /\ pointed' = [pointed EXCEPT ![tx[s].tag] = tx[s].product]
      /\ ids' = [i \in Ids |-> IF i \in moved
                               THEN [ids[i] EXCEPT !.product = match[i], !.person = None,
                                                   !.notPerson = TRUE]
                               ELSE ids[i]]
      /\ facts' = [i \in Ids |-> IF i \in moved
                                 THEN Attributed(facts[i], None, match[i]) ELSE facts[i]]
      /\ decided' = [i \in Ids |-> IF i \in moved THEN None ELSE decided[i]]
      /\ End(s)
      /\ UNCHANGED <<vendorTags, roster, mergedInto, alias, changes, faults>>

\* a key is renamed at its vendor
Rename(i, T) ==
  /\ T # vendorTags[i] /\ ~ids[i].sdk
  /\ Change
  /\ vendorTags' = [vendorTags EXCEPT ![i] = T]
  /\ UNCHANGED <<roster, mergedInto, alias, ids, pointed, facts, tx, decided, faults>>

------------------------------------------------------------------------------
(* Transactions that do not get through. *)

Stuck(s) == tx[s] # Idle /\ ~CanLock(s, Wants(s))
WaitsFor(s) == {t \in Sessions \ {s} : Blocks(t, Wants(s))}

\* everybody in D waits for somebody in D: PostgreSQL aborts one of them
Deadlock(s) ==
  /\ \E D \in SUBSET Sessions :
       s \in D /\ \A t \in D : Stuck(t) /\ WaitsFor(t) \cap D # {}
  /\ End(s)
  /\ UNCHANGED <<data, changes, faults>>

\* a foreign key or the not-a-person check fails
Refuse(s) ==
  /\ tx[s] # Idle /\ CanLock(s, Wants(s)) /\ Violates(s)
  /\ End(s)
  /\ UNCHANGED <<data, changes, faults>>

Fail(s) ==
  /\ tx[s] # Idle
  /\ faults < MaxFaults /\ faults' = faults + 1
  /\ End(s)
  /\ UNCHANGED <<data, changes>>

------------------------------------------------------------------------------
PageStep(s) == Upsert(s) \/ Route(s) \/ Write(s)
Step(s) ==
  \/ PageStep(s) \/ EmitOutcome(s) \/ ConfirmMatch(s) \/ MergePeople(s) \/ ImportPeople(s)
  \/ DeletePerson(s) \/ UpdateTag(s) \/ Deadlock(s) \/ Refuse(s)

Start(s) ==
  \/ \E i \in Ids : \/ \E described \in BOOLEAN, new \in SUBSET {"identity", "page"} :
                         Page(s, i, described, new)
                    \/ Promote(s, i)
                    \/ \E p \in Emails : Confirm(s, i, p)
                    \/ \E c \in Products \cup {None} : MarkNotPerson(s, i, c)
  \/ \E p \in Emails : Import(s, p) \/ Scrub(s, p) \/ \E q \in Emails : Merge(s, p, q)
  \/ \E t \in Tags, c \in Products \cup {None} : PointTag(s, t, c)

Next ==
  \/ \E s \in Sessions : Start(s) \/ Step(s) \/ Fail(s)
  \/ \E i \in Ids, T \in SUBSET Tags : Rename(i, T)

Spec == Init /\ [][Next]_vars

Described(i) ==
  ~ids[i].sdk /\ \E s \in Sessions, new \in SUBSET {"identity", "page"} : Page(s, i, TRUE, new)

\* the database runs what it is given; every sync describes its identities,
\* but nobody has to send events
FairSpec ==
  /\ Spec
  /\ \A s \in Sessions : SF_vars(Step(s))
  /\ \A i \in Ids : SF_vars(Described(i))

------------------------------------------------------------------------------
People == Emails \cup {None}
Attribution == [person : People, product : Products \cup {OutcomeRoi, None},
                by : {"identity", "page", "promotion"}]
Identity == [seen : BOOLEAN, sdk : BOOLEAN, email : People, tags : SUBSET Tags, person : People,
             notPerson : BOOLEAN, product : Products \cup {None}]

TypeOK ==
  /\ vendorTags \in [Ids -> SUBSET Tags]
  /\ roster \subseteq Emails
  /\ mergedInto \in [Emails -> People] /\ alias \in [Emails -> People]
  /\ ids \in [Ids -> Identity]
  /\ pointed \in [Tags -> Products \cup {None}]
  /\ facts \in [Ids -> SUBSET Attribution]
  /\ decided \in [Ids -> People]
  /\ changes \in 0..MaxChanges /\ faults \in 0..MaxFaults
  /\ \A i \in Ids : ids[i].notPerson => ids[i].person = None

\* Whatever overlaps, the whole history of an identity counts for the person
\* it is mapped to, or for nobody if it is not a person, and for its ROI. Not
\* so yet a success a promotion emitted, and the ROI of a row to which its own
\* page gave one, before the identity is swept or moved again.
FactsMirror ==
  \A i \in Ids : \A f \in facts[i] :
    /\ f.by # "promotion" /\ (ids[i].person # None \/ ids[i].notPerson)
         => f.person = ids[i].person
    /\ f.by = "identity" /\ ids[i].product # None => f.product = ids[i].product

\* "facts/metrics/outcomes always mirror their identity" (sync.ts:327). The
\* code does not keep it: an outcome goes to the ROI of its kind after its
\* page has swept, and a promotion acts on an unlocked read.
OutcomesMirror ==
  \A i \in Ids : \A f \in facts[i] :
    /\ ids[i].person # None \/ ids[i].notPerson => f.person = ids[i].person
    /\ ids[i].product # None => f.product = ids[i].product

\* Neither an identity nor a remembered address belongs to a person merged
\* into somebody else.
NoMergedOwner ==
  \A p \in Emails : mergedInto[p] # None =>
    (\A i \in Ids : ids[i].person # p) /\ (\A e \in Emails : alias[e] # p)

\* However stale what a page read was when it writes, whom an admin confirmed
\* stays confirmed until an admin, an import or a tag moves the identity.
ConfirmedStays ==
  \A i \in Ids : decided[i] # None => ids[i].person = decided[i]

\* An identity matched by its address belongs to the person that address is
\* remembered for.
RememberedWins ==
  [][\A i \in Ids :
       /\ ids[i].person = None /\ ids'[i].person # None /\ decided'[i] = decided[i]
       /\ ids'[i].email # None /\ alias[ids'[i].email] # None
       => ids'[i].person = alias[ids'[i].email]]_vars

\* A person merged away never comes back: their address stays with the human
\* it was merged into, or goes with them.
MergedStaysMerged ==
  [][\A p \in Emails : mergedInto[p] # None /\ mergedInto'[p] = None => p \notin roster']_vars

\* Once the admins and the vendors are quiet, a key of a vendor whose tags
\* point at one ROI is routed there, an address somebody owns is matched, and
\* what a promotion attributed by an old read is put right by a later sweep.
SyncsCatchUp ==
  \A i \in Ids : ids[i].sdk \/
    /\ \A c \in Products :
         <>[](Claims(vendorTags[i], pointed) = {c}) => <>[](ids[i].product = c)
    /\ <>[](ByEmail(VendorEmail[i]) # None) => <>[](ids[i].person # None \/ ids[i].notPerson)
    /\ \A p \in Emails :
         <>[](ids[i].person = p) => <>[](\A f \in facts[i] : f.person = p)
==============================================================================
