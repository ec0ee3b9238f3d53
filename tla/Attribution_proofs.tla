------------------------- MODULE Attribution_proofs -------------------------
(***************************************************************************)
(* Proofs about Attribution, for any number of connections, people,        *)
(* identities, tags and ROIs: types, that the rows of an identity follow   *)
(* it (but for what FactsMirror names), and that confirmations stand.      *)
(*                                                                         *)
(* What carries the argument is in RowOK: a page past its upsert holds the *)
(* lock of its identity's row, so what it made of that row still fits the  *)
(* committed one when it writes; the sweep it may skip has nothing to do.  *)
(***************************************************************************)
EXTENDS Attribution, FiniteSetTheorems, TLAPS

PageTx ==
  [step : {"upsert", "route", "write"}, id : Ids, described : BOOLEAN,
   new : SUBSET {"identity", "page"},
   tags : SUBSET Tags, found : [Emails -> People], row : Identity,
   locks : SUBSET ((Ids \cup Emails) \X {"share", "update"})]

\* what a transaction on connection s carries
TxOK(t) ==
  \/ t = Idle
  \/ t \in PageTx
  \/ t.step = "promote" /\ t.id \in Ids /\ t.person \in People
     /\ t.product \in Products \cup {OutcomeRoi}
  \/ t.step = "confirm" /\ t.id \in Ids /\ t.person \in Emails
     /\ <<t.id, "update">> \in t.locks
  \/ t.step = "merge" /\ t.person \in Emails /\ t.into \in Emails
  \/ t.step = "import" /\ t.person \in Emails
     /\ \A i \in DOMAIN t.match : i \in Ids /\ t.match[i] \in Emails
  \/ t.step = "delete" /\ t.person \in Emails
  \/ t.step = "point" /\ t.tag \in Tags /\ t.product \in Products \cup {None}
     /\ \A i \in DOMAIN t.match : i \in Ids /\ t.match[i] \in Products

\* the row of a page past its upsert, against the committed ones
RowOK(t, committed) ==
  t # Idle /\ t.step \in {"route", "write"} =>
    /\ <<t.id, "update">> \in t.locks
    /\ t.step = "route" => t.described /\ ~t.row.sdk
    /\ t.step = "route" \/ t.row.sdk => t.row.product = committed[t.id].product
    /\ committed[t.id].person # None /\ t.row.product = committed[t.id].product
         => t.row.person = committed[t.id].person
    /\ t.row.notPerson => t.row.person = None
    /\ t.described /\ t.row.person = None /\ t.row.product = None
         => (t.row.notPerson => committed[t.id].notPerson)
    /\ ~t.described => /\ t.row.person = committed[t.id].person
                       /\ t.row.notPerson = committed[t.id].notPerson
                       /\ t.row.product = committed[t.id].product

TxInv == DOMAIN tx = Sessions /\ \A s \in Sessions : TxOK(tx[s]) /\ RowOK(tx[s], ids)

\* no row is locked for update by both
Alone(t, u) ==
  t # Idle /\ u # Idle => \A r : ~(<<r, "update">> \in t.locks /\ <<r, "update">> \in u.locks)

LocksInv == \A s \in Sessions : \A u \in Sessions \ {s} : Alone(tx[s], tx[u])

IInv == TypeOK /\ TxInv /\ LocksInv /\ FactsMirror

------------------------------------------------------------------------------
(* A row another connection has locked is not written. *)
LEMMA LockHolds ==
  ASSUME NEW s \in Sessions, NEW u \in Sessions \ {s}, NEW i, NEW want, CanLock(s, want),
         <<i, "update">> \in want, tx[u] # Idle, <<i, "update">> \in tx[u].locks
  PROVE  FALSE
  BY DEF CanLock, Blocks, Conflict

LEMMA LockAlone ==
  ASSUME NEW s \in Sessions, NEW want, CanLock(s, want)
  PROVE  \A t : t.locks = want => \A u \in Sessions \ {s} : Alone(t, tx[u])
  BY LockHolds DEF Alone

(* An action of connection s that leaves the rows other pages have locked  *)
(* keeps what is known of their transactions.                              *)
LEMMA OthersKeep ==
  ASSUME TxInv, NEW s \in Sessions,
         DOMAIN tx' = Sessions, \A u \in Sessions \ {s} : tx'[u] = tx[u],
         TxOK(tx'[s]), RowOK(tx'[s], ids'),
         \A u \in Sessions \ {s} : tx[u] # Idle /\ tx[u] \in PageTx
            /\ <<tx[u].id, "update">> \in tx[u].locks => ids'[tx[u].id] = ids[tx[u].id]
  PROVE  TxInv'
  <1>1. ASSUME NEW u \in Sessions \ {s}
        PROVE  TxOK(tx'[u]) /\ RowOK(tx'[u], ids')
    <2>1. tx'[u] = tx[u] /\ TxOK(tx[u]) /\ RowOK(tx[u], ids)
      BY DEF TxInv
    <2>2. CASE tx[u] # Idle /\ tx[u].step \in {"route", "write"}
      <3>1. tx[u] \in PageTx
        BY <2>1, <2>2 DEF TxOK
      <3>2. ids'[tx[u].id] = ids[tx[u].id]
        BY <2>1, <2>2, <3>1 DEF RowOK
      <3>. QED
        BY <2>1, <2>2, <3>2 DEF RowOK
    <2>3. CASE ~(tx[u] # Idle /\ tx[u].step \in {"route", "write"})
      BY <2>1, <2>3 DEF RowOK
    <2>. QED
      BY <2>1, <2>2, <2>3
  <1>. QED
    BY <1>1 DEF TxInv

\* a transaction that ends carries nothing
LEMMA IdleOK == \A rows : TxOK(Idle) /\ RowOK(Idle, rows)
  BY DEF TxOK, RowOK

(* What is left of IInv when the rows change, or do not. *)
LEMMA Keep ==
  ASSUME IInv, NEW s \in Sessions, TypeOK', FactsMirror',
         DOMAIN tx' = Sessions, \A u \in Sessions \ {s} : tx'[u] = tx[u],
         TxOK(tx'[s]), RowOK(tx'[s], ids'),
         \A u \in Sessions \ {s} : Alone(tx'[s], tx[u]),
         \A u \in Sessions \ {s} : tx[u] # Idle /\ tx[u] \in PageTx
            /\ <<tx[u].id, "update">> \in tx[u].locks => ids'[tx[u].id] = ids[tx[u].id]
  PROVE  IInv'
  <1>1. ASSUME NEW a \in Sessions, NEW b \in Sessions \ {a}
        PROVE  Alone(tx'[a], tx'[b])
    <2>1. CASE a = s
      BY <2>1
    <2>2. CASE b = s
      BY <2>2 DEF Alone
    <2>3. CASE a # s /\ b # s
      BY <2>3 DEF IInv, LocksInv
    <2>. QED
      BY <2>1, <2>2, <2>3
  <1>2. TxInv'
    BY OthersKeep DEF IInv
  <1>. QED
    BY <1>1, <1>2 DEF IInv, LocksInv

LEMMA Quiet ==
  ASSUME IInv, NEW s \in Sessions, UNCHANGED data,
         changes' \in 0..MaxChanges, faults' \in 0..MaxFaults,
         DOMAIN tx' = Sessions, \A u \in Sessions \ {s} : tx'[u] = tx[u],
         TxOK(tx'[s]), RowOK(tx'[s], ids'),
         \A u \in Sessions \ {s} : Alone(tx'[s], tx[u])
  PROVE  IInv'
  <1>1. TypeOK' /\ FactsMirror'
    BY DEF IInv, TypeOK, FactsMirror, data
  <1>. QED
    BY <1>1, Keep DEF data

LEMMA Counted ==
  ASSUME IInv, Change
  PROVE  changes' \in 0..MaxChanges
  BY AttributionAssumption DEF IInv, TypeOK, Change

LEMMA Begun ==
  ASSUME IInv, NEW s \in Sessions, NEW t, Begin(s, t)
  PROVE  tx'[s] = t /\ DOMAIN tx' = Sessions /\ \A u \in Sessions \ {s} : tx'[u] = tx[u]
  BY DEF IInv, TxInv, Begin

LEMMA Ended ==
  ASSUME IInv, NEW s \in Sessions, End(s)
  PROVE  /\ TxOK(tx'[s]) /\ RowOK(tx'[s], ids') /\ DOMAIN tx' = Sessions
         /\ \A u \in Sessions \ {s} : tx'[u] = tx[u] /\ Alone(tx'[s], tx[u])
  <1>1. tx'[s] = Idle
    BY DEF IInv, TxInv, End
  <1>2. TxOK(tx'[s]) /\ RowOK(tx'[s], ids') /\ \A u \in Sessions : Alone(tx'[s], tx[u])
    BY <1>1 DEF TxOK, RowOK, Alone
  <1>. QED
    BY <1>2 DEF IInv, TxInv, End

------------------------------------------------------------------------------
(* The steps that change no row: what they begin or carry on has to fit. *)
LEMMA PageKeeps ==
  ASSUME IInv, NEW s \in Sessions, NEW i \in Ids, NEW described \in BOOLEAN,
         NEW new \in SUBSET {"identity", "page"}, Page(s, i, described, new)
  PROVE  IInv'
  <1> DEFINE asked == [e \in Emails |-> IF VendorEmail[i] \in {None, e} THEN ByEmail(e)
                                        ELSE None]
  <1>1. asked \in [Emails -> People]
    BY DEF IInv, TypeOK, ByEmail, People
  <1>2. PICK found \in [Emails -> People] : found = asked
    BY <1>1
  <1>3. Unseen \in Identity
    BY DEF Unseen, Identity, People
  <1>4. (IF ids[i].sdk THEN {} ELSE vendorTags[i]) \in SUBSET Tags
    BY DEF IInv, TypeOK
  <1>5. PICK tags \in SUBSET Tags : tags = IF ids[i].sdk THEN {} ELSE vendorTags[i]
    BY <1>4
  <1>6. tx' = [tx EXCEPT ![s] = [step |-> "upsert", id |-> i, described |-> described,
                                 new |-> new, tags |-> tags, found |-> found,
                                 row |-> Unseen, locks |-> {}]]
    BY <1>2, <1>5 DEF Page, Begin
  <1>7. tx'[s] \in PageTx /\ tx'[s].step = "upsert" /\ tx'[s].locks = {}
    BY <1>3, <1>6 DEF PageTx, IInv, TxInv
  <1>8. DOMAIN tx' = Sessions /\ \A u \in Sessions \ {s} : tx'[u] = tx[u]
    BY <1>6 DEF IInv, TxInv
  <1>9. UNCHANGED data /\ changes' \in 0..MaxChanges /\ faults' \in 0..MaxFaults
    BY DEF Page, IInv, TypeOK
  <1>. QED
    BY <1>7, <1>8, <1>9, Quiet DEF TxOK, RowOK, Alone

LEMMA PromoteKeeps ==
  ASSUME IInv, NEW s \in Sessions, NEW i \in Ids, Promote(s, i)
  PROVE  IInv'
  <1>1. ids[i] \in Identity
    BY DEF IInv, TypeOK
  <1>2. PICK p \in People : p = ids[i].person
    BY <1>1 DEF Identity
  <1>3. PICK c \in Products \cup {OutcomeRoi} :
          c = IF ids[i].product # None THEN ids[i].product ELSE OutcomeRoi
    BY <1>1 DEF Identity
  <1>4. PICK t : t = [step |-> "promote", id |-> i, person |-> p, product |-> c, locks |-> {}]
    OBVIOUS
  <1>5. Begin(s, t) /\ UNCHANGED <<data, changes, faults>>
    BY <1>2, <1>3, <1>4 DEF Promote
  <1>6. TxOK(t) /\ RowOK(t, ids') /\ \A u \in Sessions \ {s} : Alone(t, tx[u])
    BY <1>4 DEF TxOK, RowOK, Alone
  <1>7. changes' \in 0..MaxChanges /\ faults' \in 0..MaxFaults
    BY <1>5 DEF IInv, TypeOK
  <1>. QED
    BY <1>5, <1>6, <1>7, Begun, Quiet

LEMMA ConfirmKeeps ==
  ASSUME IInv, NEW s \in Sessions, NEW i \in Ids, NEW p \in Emails, Confirm(s, i, p)
  PROVE  IInv'
  <1>1. PICK t : t = [step |-> "confirm", id |-> i, person |-> p, locks |-> Rows({i}, "update")]
    OBVIOUS
  <1>2. Begin(s, t) /\ UNCHANGED data /\ Change /\ faults' = faults
    BY <1>1 DEF Confirm
  <1>3. TxOK(t) /\ RowOK(t, ids')
    BY <1>1 DEF TxOK, RowOK, Rows
  <1>4. \A u \in Sessions \ {s} : Alone(t, tx[u])
    <2>1. t.locks = Rows({i}, "update") /\ CanLock(s, Rows({i}, "update"))
      BY <1>1 DEF Confirm
    <2>. QED
      BY <2>1, LockAlone
  <1>. QED
    BY <1>2, <1>3, <1>4, Begun, Counted, Quiet DEF IInv, TypeOK

LEMMA MergeKeeps ==
  ASSUME IInv, NEW s \in Sessions, NEW p \in Emails, NEW q \in Emails, Merge(s, p, q)
  PROVE  IInv'
  <1>1. PICK t : t = [step |-> "merge", person |-> p, into |-> q, locks |-> Rows({p, q}, "full")]
    OBVIOUS
  <1>2. Begin(s, t) /\ UNCHANGED data /\ Change /\ faults' = faults
    BY <1>1 DEF Merge
  <1>3. TxOK(t) /\ RowOK(t, ids')
    BY <1>1 DEF TxOK, RowOK
  <1>4. \A u \in Sessions \ {s} : Alone(t, tx[u])
    <2>1. t.locks = Rows({p, q}, "full") /\ CanLock(s, Rows({p, q}, "full"))
      BY <1>1 DEF Merge
    <2>. QED
      BY <2>1, LockAlone
  <1>. QED
    BY <1>2, <1>3, <1>4, Begun, Counted, Quiet DEF IInv, TypeOK

LEMMA ImportKeeps ==
  ASSUME IInv, NEW s \in Sessions, NEW p \in Emails, Import(s, p)
  PROVE  IInv'
  <1> DEFINE unmatched == {i \in Ids : /\ ids[i].person = None /\ ~ids[i].notPerson
                                       /\ ids[i].email \in roster \cup {p}
                                       /\ mergedInto[ids[i].email] = None}
  <1>1. \A i \in unmatched : i \in Ids /\ ids[i].email \in roster \cup {p}
    OBVIOUS
  <1>2. PICK match : match = [i \in unmatched |-> ids[i].email]
    OBVIOUS
  <1>3. \A i \in DOMAIN match : i \in Ids /\ match[i] \in Emails
    BY <1>1, <1>2 DEF IInv, TypeOK
  <1>4. PICK t : t = [step |-> "import", person |-> p, match |-> match,
                      locks |-> Rows({p}, "update")]
    OBVIOUS
  <1>5. Begin(s, t) /\ UNCHANGED data /\ Change /\ faults' = faults
    BY <1>1, <1>2, <1>4 DEF Import
  <1>6. TxOK(t) /\ RowOK(t, ids')
    BY <1>3, <1>4 DEF TxOK, RowOK
  <1>7. \A u \in Sessions \ {s} : Alone(t, tx[u])
    <2>1. t.locks = Rows({p}, "update") /\ CanLock(s, Rows({p}, "update"))
      BY <1>4 DEF Import
    <2>. QED
      BY <2>1, LockAlone
  <1>. QED
    BY <1>5, <1>6, <1>7, Begun, Counted, Quiet DEF IInv, TypeOK

LEMMA PointTagKeeps ==
  ASSUME IInv, NEW s \in Sessions, NEW tag \in Tags, NEW product \in Products \cup {None},
         PointTag(s, tag, product)
  PROVE  IInv'
  <1> DEFINE   setting == [pointed EXCEPT ![tag] = product]
               claim(i) == Claims(ids[i].tags, setting)
               hit == {i \in Ids : /\ tag \in ids[i].tags
                                   /\ Cardinality(claim(i)) = 1 /\ claim(i) # {ids[i].product}}
               chosen == [i \in hit |-> CHOOSE c \in claim(i) : TRUE]
  <1>2. ASSUME NEW i \in hit
        PROVE  chosen[i] \in Products
    <2>1. claim(i) # {}
      <3>1. Cardinality(claim(i)) = 1
        OBVIOUS
      <3>2. claim(i) = {} => Cardinality(claim(i)) = 0
        BY FS_EmptySet
      <3>. HIDE DEF claim
      <3>. QED
        BY <3>1, <3>2
    <2>2. ids[i].tags \subseteq Tags /\ setting \in [Tags -> Products \cup {None}]
      BY DEF IInv, TypeOK, Identity
    <2>3. claim(i) \subseteq Products
      BY <2>2 DEF Claims
    <2>. QED
      BY <2>1, <2>3
  <1>3. PICK match : match = chosen
    OBVIOUS
  <1>4. \A i \in DOMAIN match : i \in Ids /\ match[i] \in Products
    BY <1>2, <1>3
  <1>5. PICK t : t = [step |-> "point", tag |-> tag, product |-> product, match |-> match,
                      locks |-> Rows({tag}, "update")]
    OBVIOUS
  <1>6. Begin(s, t) /\ UNCHANGED data /\ Change /\ faults' = faults
    BY <1>3, <1>5 DEF PointTag
  <1>7. TxOK(t) /\ RowOK(t, ids')
    BY <1>4, <1>5 DEF TxOK, RowOK
  <1>8. \A u \in Sessions \ {s} : Alone(t, tx[u])
    <2>1. t.locks = Rows({tag}, "update") /\ CanLock(s, Rows({tag}, "update"))
      BY <1>5 DEF PointTag
    <2>. QED
      BY <2>1, LockAlone
  <1>. QED
    BY <1>6, <1>7, <1>8, Begun, Counted, Quiet DEF IInv, TypeOK

\* a deadlock victim, a refused and a failed transaction
LEMMA GivenUpKeeps ==
  ASSUME IInv, NEW s \in Sessions, Deadlock(s) \/ Refuse(s) \/ Fail(s)
  PROVE  IInv'
  <1>1. End(s) /\ UNCHANGED data /\ changes' = changes
    BY DEF Deadlock, Refuse, Fail
  <1>2. faults' \in 0..MaxFaults
    BY AttributionAssumption DEF Deadlock, Refuse, Fail, IInv, TypeOK
  <1>. QED
    BY <1>1, <1>2, Ended, Quiet DEF IInv, TypeOK

\* a key is renamed: no transaction, no row
LEMMA RenameKeeps ==
  ASSUME IInv, NEW i \in Ids, NEW T \in SUBSET Tags, Rename(i, T)
  PROVE  IInv'
  <1>1. TypeOK'
    BY Counted DEF Rename, IInv, TypeOK
  <1>2. TxInv' /\ LocksInv' /\ FactsMirror'
    BY DEF Rename, IInv, TxInv, LocksInv, FactsMirror
  <1>. QED
    BY <1>1, <1>2 DEF IInv

------------------------------------------------------------------------------
(* A page carries its row from the upsert to the write. *)
LEMMA PageShape ==
  ASSUME IInv, NEW s \in Sessions, tx[s] # Idle, tx[s].step \in {"upsert", "route", "write"}
  PROVE  tx[s] \in PageTx
  BY DEF IInv, TxInv, TxOK

LEMMA MatchedOK ==
  ASSUME NEW old \in Identity, NEW match \in People, old.notPerson => old.person = None
  PROVE  /\ Matched(old, match) \in People
         /\ old.notPerson => Matched(old, match) = None
         /\ old.person # None => Matched(old, match) = old.person
  BY DEF Matched, Identity, People

LEMMA UpsertedOK ==
  ASSUME IInv, NEW s \in Sessions, At(s, "upsert")
  PROVE  /\ Upserted(s) \in Identity
         /\ Upserted(s).notPerson => Upserted(s).person = None
         /\ Upserted(s).notPerson = ids[tx[s].id].notPerson
         /\ Upserted(s).product = ids[tx[s].id].product
         /\ Upserted(s).sdk = ids[tx[s].id].sdk
         /\ ~tx[s].described \/ ids[tx[s].id].person # None
              => Upserted(s).person = ids[tx[s].id].person
  <1>1. tx[s] \in PageTx
    BY PageShape DEF At
  <1>2. PICK old \in Identity : old = ids[tx[s].id] /\ (old.notPerson => old.person = None)
    BY <1>1 DEF IInv, TypeOK, PageTx
  <1>3. PICK email \in People :
          email = IF VendorEmail[tx[s].id] # None THEN VendorEmail[tx[s].id] ELSE old.email
    BY <1>1, AttributionAssumption DEF PageTx, Identity, People
  <1>4. PICK match \in People : match = IF email = None THEN None ELSE tx[s].found[email]
    BY <1>1, <1>3 DEF PageTx, People
  <1>5. PICK tags \in SUBSET Tags : tags = tx[s].tags
    BY <1>1 DEF PageTx
  <1>6. Upserted(s) = IF ~tx[s].described THEN [old EXCEPT !.seen = TRUE]
                      ELSE [old EXCEPT !.seen = TRUE, !.email = email, !.tags = tags,
                                       !.person = Matched(old, match)]
    BY <1>2, <1>3, <1>4, <1>5 DEF Upserted
  <1>7. PICK p \in People : /\ p = Matched(old, match) /\ (old.notPerson => p = None)
                            /\ old.person # None => p = old.person
    BY <1>2, <1>4, MatchedOK
  <1>8. CASE ~tx[s].described
    BY <1>2, <1>6, <1>8 DEF Identity
  <1>9. CASE tx[s].described
    <2>1. Upserted(s) = [old EXCEPT !.seen = TRUE, !.email = email, !.tags = tags, !.person = p]
      BY <1>6, <1>7, <1>9
    <2>. QED
      BY <1>2, <1>7, <1>9, <2>1 DEF Identity
  <1>. QED
    BY <1>8, <1>9

LEMMA UpsertKeeps ==
  ASSUME IInv, NEW s \in Sessions, Upsert(s)
  PROVE  IInv'
  <1>1. At(s, "upsert") /\ tx[s] \in PageTx
    BY PageShape DEF Upsert, Runs, At
  <1>2. PICK row \in Identity : row = Upserted(s)
    BY <1>1, UpsertedOK
  <1>3. Wants(s) = Rows({tx[s].id}, "update") \cup NewShare(s)
    BY <1>1 DEF Wants, At
  <1>4. NewShare(s) \subseteq (Ids \cup Emails) \X {"share", "update"}
    BY <1>2 DEF NewShare, Rows, Identity, People
  <1>5. PICK locks \in SUBSET ((Ids \cup Emails) \X {"share", "update"}) :
          locks = Wants(s) /\ <<tx[s].id, "update">> \in locks
    BY <1>1, <1>3, <1>4 DEF Rows, PageTx
  <1>6. PICK step \in {"route", "write"} :
          step = IF tx[s].described /\ ~ids[tx[s].id].sdk THEN "route" ELSE "write"
    OBVIOUS
  <1>7. tx' = [tx EXCEPT ![s] = [tx[s] EXCEPT !.row = row, !.locks = locks, !.step = step]]
    BY <1>2, <1>5, <1>6 DEF Upsert
  <1>8. DOMAIN tx' = Sessions /\ \A u \in Sessions \ {s} : tx'[u] = tx[u]
    BY <1>7 DEF IInv, TxInv
  <1>9. tx'[s] = [tx[s] EXCEPT !.row = row, !.locks = locks, !.step = step]
    BY <1>7 DEF IInv, TxInv
  <1>10. TxOK(tx'[s])
    BY <1>1, <1>9 DEF PageTx, TxOK
  <1>11. UNCHANGED data /\ changes' \in 0..MaxChanges /\ faults' \in 0..MaxFaults
    BY DEF Upsert, IInv, TypeOK
  <1>12. /\ tx'[s].row = row /\ tx'[s].locks = locks /\ tx'[s].step = step
         /\ tx'[s].id = tx[s].id /\ tx'[s].described = tx[s].described
    BY <1>1, <1>9 DEF PageTx
  <1>13. RowOK(tx'[s], ids')
    BY <1>1, <1>2, <1>5, <1>6, <1>11, <1>12, UpsertedOK DEF RowOK, data
  <1>14. \A u \in Sessions \ {s} : Alone(tx'[s], tx[u])
    BY <1>5, <1>12, LockAlone DEF Upsert, Runs
  <1>. QED
    BY <1>8, <1>10, <1>11, <1>13, <1>14, Quiet

LEMMA RoutedOK ==
  ASSUME IInv, NEW row \in Identity
  PROVE  /\ Routed(row) \in Identity /\ Routed(row).sdk = row.sdk
         /\ \/ Routed(row) = row
            \/ /\ Routed(row).person = None /\ Routed(row).product # None
               /\ Routed(row).product # row.product
  <1> DEFINE claims == Claims(row.tags, pointed)
             c == CHOOSE x \in claims : TRUE
  <1>1. claims \subseteq Products
    BY DEF IInv, TypeOK, Claims, Identity
  <1>2. CASE Cardinality(claims) = 1 /\ claims # {row.product}
    <2>1. claims = {} => Cardinality(claims) = 0
      BY FS_EmptySet
    <2>2. c \in claims
      <3>. HIDE DEF claims
      <3>. QED
        BY <1>2, <2>1
    <2>3. PICK d \in Products : d = c /\ d # None /\ d # row.product
      <3>1. row.product \in claims => claims = {row.product}
        <4>1. claims \subseteq Products /\ Cardinality(claims) = 1 /\ IsFiniteSet(Products)
          BY <1>1, <1>2, AttributionAssumption
        <4>. HIDE DEF claims
        <4>2. IsFiniteSet(claims)
          BY <4>1, FS_Subset
        <4>3. \E x : claims = {x}
          BY <4>1, <4>2, FS_Singleton
        <4>. QED
          BY <4>3
      <3>2. c # row.product
        <4>. HIDE DEF claims
        <4>. QED
          BY <1>2, <2>2, <3>1
      <3>. QED
        BY <1>1, <2>2, <3>2, AttributionAssumption
    <2>4. Routed(row) = [row EXCEPT !.product = d, !.person = None, !.notPerson = TRUE]
      BY <1>2, <2>3 DEF Routed
    <2>. QED
      BY <2>3, <2>4 DEF Identity, People
  <1>3. CASE ~(Cardinality(claims) = 1 /\ claims # {row.product})
    BY <1>3 DEF Routed
  <1>. QED
    BY <1>2, <1>3

LEMMA RouteKeeps ==
  ASSUME IInv, NEW s \in Sessions, Route(s)
  PROVE  IInv'
  <1>1. tx[s] \in PageTx /\ tx[s] # Idle /\ tx[s].step = "route"
    BY PageShape DEF Route, Runs, At
  <1>2. tx[s].row \in Identity /\ RowOK(tx[s], ids)
    BY <1>1 DEF PageTx, IInv, TxInv
  <1>3. PICK row \in Identity : /\ row = Routed(tx[s].row) /\ row.sdk = tx[s].row.sdk
                                /\ row = tx[s].row \/ (/\ row.person = None /\ row.product # None
                                                      /\ row.product # tx[s].row.product)
    BY <1>2, RoutedOK
  <1>4. tx' = [tx EXCEPT ![s] = [tx[s] EXCEPT !.row = row, !.step = "write"]]
    BY <1>3 DEF Route
  <1>5. DOMAIN tx' = Sessions /\ \A u \in Sessions \ {s} : tx'[u] = tx[u]
    BY <1>4 DEF IInv, TxInv
  <1>6. tx'[s] = [tx[s] EXCEPT !.row = row, !.step = "write"]
    BY <1>4 DEF IInv, TxInv
  <1>7. TxOK(tx'[s])
    BY <1>1, <1>6 DEF PageTx, TxOK
  <1>8. UNCHANGED data /\ changes' \in 0..MaxChanges /\ faults' \in 0..MaxFaults
    BY DEF Route, IInv, TypeOK
  <1>9. /\ tx'[s].row = row /\ tx'[s].locks = tx[s].locks /\ tx'[s].step = "write"
        /\ tx'[s].id = tx[s].id /\ tx'[s].described = tx[s].described
    BY <1>1, <1>6 DEF PageTx
  <1>10. RowOK(tx'[s], ids')
    BY <1>1, <1>2, <1>3, <1>8, <1>9 DEF RowOK, data
  <1>11. \A u \in Sessions \ {s} : Alone(tx'[s], tx[u])
    BY <1>1, <1>9 DEF Alone, IInv, LocksInv
  <1>. QED
    BY <1>5, <1>7, <1>8, <1>10, <1>11, Quiet

------------------------------------------------------------------------------
(* The steps that write. *)
\* f counts for the ROI of g, and is its identity's only if g is
SameRoi(f, g) == f.product = g.product /\ (f.by = "identity" => g.by = "identity")

LEMMA AttributedOK ==
  ASSUME NEW F \in SUBSET Attribution, NEW p \in People, NEW c \in Products \cup {None}
  PROVE  /\ Attributed(F, p, c) \in SUBSET Attribution
         /\ \A f \in Attributed(F, p, c) : f.person = p /\ (c # None => f.product = c)
         /\ c = None => \A f \in Attributed(F, p, c) : \E g \in F : SameRoi(f, g)
  <1>1. ASSUME NEW g \in F
        PROVE  LET f == [person |-> p, product |-> IF c # None THEN c ELSE g.product,
                         by |-> MovedBy(g, c)]
               IN  /\ f \in Attribution /\ f.person = p /\ (c # None => f.product = c)
                   /\ c = None => SameRoi(f, g)
    <2>1. MovedBy(g, c) \in {"identity", "page", "promotion"}
          /\ (c = None /\ MovedBy(g, c) = "identity" => g.by = "identity")
      BY DEF MovedBy, Attribution
    <2>2. PICK by \in {"identity", "page", "promotion"} :
            by = MovedBy(g, c) /\ (c = None /\ by = "identity" => g.by = "identity")
      BY <2>1
    <2>3. PICK d \in Products \cup {OutcomeRoi, None} :
            d = (IF c # None THEN c ELSE g.product)
      BY DEF Attribution
    <2>4. [person |-> p, product |-> d, by |-> by] \in Attribution
      BY DEF Attribution
    <2>. QED
      BY <2>2, <2>3, <2>4 DEF SameRoi
  <1>2. ASSUME NEW f \in Attributed(F, p, c)
        PROVE  /\ f \in Attribution /\ f.person = p /\ (c # None => f.product = c)
               /\ c = None => \E g \in F : SameRoi(f, g)
    BY <1>1 DEF Attributed
  <1>. QED
    BY <1>2

\* what FactsMirror says of one identity
Mirrors(row, F) ==
  \A f \in F : /\ f.by # "promotion" /\ (row.person # None \/ row.notPerson)
                    => f.person = row.person
               /\ f.by = "identity" /\ row.product # None => f.product = row.product

\* what a page writes fits the row it writes it with
LEMMA WrittenOK ==
  ASSUME NEW t \in PageTx, NEW committed \in Identity, NEW F \in SUBSET Attribution,
         t.id \in Ids, F = facts[t.id], committed = ids[t.id],
         t # Idle, t.step = "write", RowOK(t, ids), Mirrors(committed, F),
         committed.notPerson => committed.person = None
  PROVE  Written(t) \in SUBSET Attribution /\ Mirrors(t.row, Written(t))
  <1>1. PICK row \in Identity : row = t.row
    BY DEF PageTx
  <1>2. PICK swept : swept = Swept(t)
    OBVIOUS
  <1>3. swept \in SUBSET Attribution /\ Mirrors(row, swept)
    <2>0. CASE row.sdk
      <3>1. swept = Attributed(F, row.person, None)
        BY <1>1, <1>2, <2>0 DEF Swept
      <3>2. PICK S \in SUBSET Attribution :
              S = swept /\ \A f \in S : f.person = row.person /\ \E g \in F : SameRoi(f, g)
        BY <3>1, AttributedOK DEF Identity
      <3>3. row.product = committed.product
        BY <1>1, <2>0 DEF RowOK
      <3>. QED
        BY <3>2, <3>3 DEF Mirrors, SameRoi
    <2>1. CASE ~row.sdk /\ t.described /\ (row.person # None \/ row.product # None)
      <3>1. swept = Attributed(F, row.person, row.product)
        BY <1>1, <1>2, <2>1 DEF Swept
      <3>2. row.person \in People /\ row.product \in Products \cup {None}
        BY DEF Identity
      <3>. QED
        BY <3>1, <3>2, AttributedOK DEF Mirrors
    <2>2. CASE ~row.sdk /\ t.described /\ row.person = None /\ row.product = None
      <3>1. swept = F
        BY <1>1, <1>2, <2>2 DEF Swept
      <3>2. row.notPerson => committed.notPerson
        BY <1>1, <2>2 DEF RowOK
      <3>. QED
        BY <2>2, <3>1, <3>2 DEF Mirrors, Identity
    <2>3. CASE ~row.sdk /\ ~t.described
      <3>1. swept = F
        BY <1>1, <1>2, <2>3 DEF Swept
      <3>2. row.person = committed.person /\ row.notPerson = committed.notPerson
            /\ row.product = committed.product
        BY <1>1, <2>3 DEF RowOK
      <3>. QED
        BY <3>1, <3>2 DEF Mirrors
    <2>. QED
      BY <2>0, <2>1, <2>2, <2>3 DEF PageTx, Identity
  <1>4. PICK fresh : fresh = New(t)
    OBVIOUS
  <1>5. fresh \in SUBSET Attribution /\ Mirrors(row, fresh)
    <2>1. ASSUME NEW by \in t.new
          PROVE  LET f == [person |-> row.person, by |-> by,
                           product |-> IF by = "page" THEN OutcomeRoi ELSE row.product]
                 IN  /\ f \in Attribution /\ f.person = row.person
                     /\ f.by = "identity" => f.product = row.product
      <3>1. by \in {"identity", "page", "promotion"}
        BY DEF PageTx
      <3>. QED
        BY <3>1 DEF Attribution, Identity
    <2>2. fresh = {[person |-> row.person, by |-> by,
                    product |-> IF by = "page" THEN OutcomeRoi ELSE row.product] : by \in t.new}
      BY <1>1, <1>4 DEF New
    <2>. QED
      BY <2>1, <2>2 DEF Mirrors
  <1>6. Written(t) = swept \cup fresh
    BY <1>2, <1>4 DEF Written
  <1>. QED
    BY <1>1, <1>3, <1>5, <1>6 DEF Mirrors

LEMMA WriteKeeps ==
  ASSUME IInv, NEW s \in Sessions, Write(s)
  PROVE  IInv'
  <1>1. tx[s] \in PageTx /\ tx[s] # Idle /\ tx[s].step = "write" /\ RowOK(tx[s], ids)
    BY PageShape DEF Write, Runs, At, IInv, TxInv
  <1>2. PICK i \in Ids : i = tx[s].id
    BY <1>1 DEF PageTx
  <1>3. PICK row \in Identity : row = tx[s].row /\ (row.notPerson => row.person = None)
    BY <1>1 DEF PageTx, RowOK
  <1>4. PICK W \in SUBSET Attribution : W = Written(tx[s]) /\ Mirrors(row, W)
    <2>1. /\ ids[i] \in Identity /\ facts[i] \in SUBSET Attribution
          /\ Mirrors(ids[i], facts[i]) /\ (ids[i].notPerson => ids[i].person = None)
      BY DEF IInv, TypeOK, FactsMirror, Mirrors
    <2>. QED
      BY <1>1, <1>2, <1>3, <2>1, WrittenOK
  <1>5. /\ ids' = [ids EXCEPT ![i] = row] /\ facts' = [facts EXCEPT ![i] = W]
        /\ decided' = [decided EXCEPT ![i] = IF row.product # ids[i].product THEN None ELSE @]
        /\ End(s)
        /\ UNCHANGED <<vendorTags, roster, mergedInto, alias, pointed, changes, faults>>
    BY <1>2, <1>3, <1>4 DEF Write
  <1>6. decided' \in [Ids -> People]
    BY <1>5 DEF IInv, TypeOK, People
  <1>7. TypeOK'
    BY <1>3, <1>5, <1>6 DEF IInv, TypeOK
  <1>8. FactsMirror'
    BY <1>4, <1>5 DEF IInv, TypeOK, FactsMirror, Mirrors
  <1>9. ASSUME NEW u \in Sessions \ {s}, tx[u] # Idle, <<tx[u].id, "update">> \in tx[u].locks
        PROVE  ids'[tx[u].id] = ids[tx[u].id]
    <2>1. tx[u].id # i
      BY <1>1, <1>2, <1>9 DEF IInv, LocksInv, Alone, RowOK
    <2>. QED
      BY <1>5, <2>1 DEF IInv, TypeOK
  <1>. QED
    BY <1>5, <1>7, <1>8, <1>9, Ended, Keep

LEMMA EmitOutcomeKeeps ==
  ASSUME IInv, NEW s \in Sessions, EmitOutcome(s)
  PROVE  IInv'
  <1>1. tx[s] # Idle /\ tx[s].step = "promote" /\ TxOK(tx[s])
    BY DEF EmitOutcome, Runs, At, IInv, TxInv
  <1>2. PICK i \in Ids : i = tx[s].id
    BY <1>1 DEF TxOK, PageTx
  <1>3. PICK f \in Attribution :
          f = [person |-> tx[s].person, product |-> tx[s].product, by |-> "promotion"]
          /\ f.by = "promotion"
    <2>1. PICK p \in People, c \in Products \cup {OutcomeRoi} :
            p = tx[s].person /\ c = tx[s].product
      BY <1>1 DEF TxOK, PageTx
    <2>2. [person |-> p, product |-> c, by |-> "promotion"] \in Attribution
      BY DEF Attribution
    <2>. QED
      BY <2>1, <2>2
  <1>4. /\ facts' = [facts EXCEPT ![i] = @ \cup {f}] /\ End(s)
        /\ UNCHANGED <<vendorTags, roster, mergedInto, alias, ids, pointed, decided,
                       changes, faults>>
    BY <1>2, <1>3 DEF EmitOutcome
  <1>5. TypeOK'
    BY <1>4 DEF IInv, TypeOK
  <1>6. FactsMirror'
    BY <1>3, <1>4 DEF IInv, TypeOK, FactsMirror
  <1>. QED
    BY <1>4, <1>5, <1>6, Ended, Keep

LEMMA ConfirmMatchKeeps ==
  ASSUME IInv, NEW s \in Sessions, ConfirmMatch(s)
  PROVE  IInv'
  <1>1. tx[s] # Idle /\ tx[s].step = "confirm" /\ TxOK(tx[s])
    BY DEF ConfirmMatch, Runs, At, IInv, TxInv
  <1>2. PICK i \in Ids : i = tx[s].id /\ <<i, "update">> \in tx[s].locks
    BY <1>1 DEF TxOK, PageTx
  <1>3. PICK p \in Emails : p = tx[s].person
    BY <1>1 DEF TxOK, PageTx
  <1>4. PICK F \in SUBSET Attribution :
          F = Attributed(facts[i], p, None) /\ \A f \in F :
             f.person = p /\ \E g \in facts[i] : SameRoi(f, g)
    BY AttributedOK DEF IInv, TypeOK, People
  <1>5. /\ ids' = [ids EXCEPT ![i] = [ids[i] EXCEPT !.person = p, !.notPerson = FALSE]]
        /\ facts' = [facts EXCEPT ![i] = F] /\ decided' = [decided EXCEPT ![i] = p]
        /\ alias' = IF ids[i].email # None /\ ~Live(ids[i].email)
                    THEN [alias EXCEPT ![ids[i].email] = p] ELSE alias
        /\ End(s)
        /\ UNCHANGED <<vendorTags, roster, mergedInto, pointed, changes, faults>>
    BY <1>2, <1>3, <1>4 DEF ConfirmMatch, IInv, TypeOK
  <1>6. PICK row \in Identity :
          /\ row = [ids[i] EXCEPT !.person = p, !.notPerson = FALSE]
          /\ row.person = p /\ ~row.notPerson /\ row.product = ids[i].product
    <2>1. PICK old \in Identity : old = ids[i]
      BY DEF IInv, TypeOK
    <2>2. [old EXCEPT !.person = p, !.notPerson = FALSE] \in Identity
      BY DEF Identity, People
    <2>. QED
      BY <2>1, <2>2 DEF Identity
  <1>7. alias' \in [Emails -> People] /\ decided' \in [Ids -> People]
    BY <1>5 DEF IInv, TypeOK, People
  <1>8. ids' = [ids EXCEPT ![i] = row]
    BY <1>5, <1>6
  <1>9. TypeOK'
    BY <1>5, <1>6, <1>7, <1>8 DEF IInv, TypeOK
  <1>10. FactsMirror'
    BY <1>4, <1>5, <1>6, <1>8 DEF IInv, TypeOK, FactsMirror, SameRoi
  <1>11. ASSUME NEW u \in Sessions \ {s}, tx[u] # Idle, <<tx[u].id, "update">> \in tx[u].locks
         PROVE  ids'[tx[u].id] = ids[tx[u].id]
    <2>1. tx[u].id # i
      BY <1>1, <1>2, <1>11 DEF IInv, LocksInv, Alone
    <2>. QED
      BY <1>8, <2>1 DEF IInv, TypeOK
  <1>. QED
    BY <1>5, <1>9, <1>10, <1>11, Ended, Keep

LEMMA MarkNotPersonKeeps ==
  ASSUME IInv, NEW s \in Sessions, NEW i \in Ids, NEW c \in Products \cup {None},
         MarkNotPerson(s, i, c)
  PROVE  IInv'
  <1>1. PICK F \in SUBSET Attribution :
          F = Attributed(facts[i], None, c) /\ \A f \in F :
             /\ f.person = None
             /\ IF c # None THEN f.product = c ELSE \E g \in facts[i] : SameRoi(f, g)
    BY AttributedOK DEF IInv, TypeOK, People
  <1>2. PICK row \in Identity :
          /\ row = [ids[i] EXCEPT !.person = None, !.notPerson = TRUE,
                                  !.product = IF c # None THEN c ELSE @]
          /\ row.person = None /\ row.notPerson
          /\ row.product = IF c # None THEN c ELSE ids[i].product
    <2>1. PICK old \in Identity : old = ids[i]
      BY DEF IInv, TypeOK
    <2>2. PICK d \in Products \cup {None} : d = IF c # None THEN c ELSE old.product
      BY DEF Identity
    <2>3. [old EXCEPT !.person = None, !.notPerson = TRUE, !.product = d] \in Identity
      BY DEF Identity, People
    <2>. QED
      BY <2>1, <2>2, <2>3 DEF Identity
  <1>3. /\ ids' = [ids EXCEPT ![i] = row] /\ facts' = [facts EXCEPT ![i] = F]
        /\ decided' = [decided EXCEPT ![i] = None] /\ Change
        /\ UNCHANGED <<vendorTags, roster, mergedInto, alias, pointed, tx, faults>>
    BY <1>1, <1>2 DEF MarkNotPerson, IInv, TypeOK
  <1>4. decided' \in [Ids -> People] /\ changes' \in 0..MaxChanges
    BY <1>3, Counted DEF IInv, TypeOK, People
  <1>5. TypeOK'
    BY <1>2, <1>3, <1>4 DEF IInv, TypeOK
  <1>6. FactsMirror'
    BY <1>1, <1>2, <1>3 DEF IInv, TypeOK, FactsMirror, SameRoi
  <1>7. ASSUME NEW u \in Sessions \ {s}, tx[u] # Idle, <<tx[u].id, "update">> \in tx[u].locks
        PROVE  ids'[tx[u].id] = ids[tx[u].id]
    <2>1. CanLock(s, Rows({i}, "update"))
      BY DEF MarkNotPerson
    <2>2. tx[u].id # i
      BY <1>7, <2>1, LockHolds DEF Rows
    <2>. QED
      BY <1>3, <2>2 DEF IInv, TypeOK
  <1>8. tx' = tx /\ DOMAIN tx' = Sessions
    BY <1>3 DEF IInv, TxInv
  <1>9. TxOK(tx'[s]) /\ RowOK(tx'[s], ids')
    BY <1>8 DEF MarkNotPerson, TxOK, RowOK
  <1>10. \A u \in Sessions \ {s} : Alone(tx'[s], tx[u])
    BY <1>8 DEF MarkNotPerson, Alone
  <1>. QED
    BY <1>5, <1>6, <1>7, <1>8, <1>9, <1>10, Keep

LEMMA ReplacedOK ==
  ASSUME NEW D, NEW g \in [D -> People], NEW p, NEW q \in People
  PROVE  Replaced(g, p, q) \in [D -> People]
  BY DEF Replaced

\* facts of one person counted for another
Renamed(F, p, q) == {[f EXCEPT !.person = IF @ = p THEN q ELSE @] : f \in F}

LEMMA RenamedOK ==
  ASSUME NEW F \in SUBSET Attribution, NEW p, NEW q \in People
  PROVE  /\ Renamed(F, p, q) \in SUBSET Attribution
         /\ \A h \in Renamed(F, p, q) :
              \E f \in F : /\ h.person = IF f.person = p THEN q ELSE f.person
                           /\ h.product = f.product /\ h.by = f.by
  <1>1. ASSUME NEW f \in F
        PROVE  /\ [f EXCEPT !.person = IF @ = p THEN q ELSE @] \in Attribution
               /\ [f EXCEPT !.person = IF @ = p THEN q ELSE @].person
                    = IF f.person = p THEN q ELSE f.person
               /\ [f EXCEPT !.person = IF @ = p THEN q ELSE @].product = f.product
               /\ [f EXCEPT !.person = IF @ = p THEN q ELSE @].by = f.by
    <2>1. PICK r \in People : r = IF f.person = p THEN q ELSE f.person
      BY DEF Attribution
    <2>2. [f EXCEPT !.person = r] \in Attribution /\ [f EXCEPT !.person = r].person = r
          /\ [f EXCEPT !.person = r].product = f.product /\ [f EXCEPT !.person = r].by = f.by
      BY DEF Attribution
    <2>. QED
      BY <2>1, <2>2
  <1>. QED
    BY <1>1 DEF Renamed

\* a row mapped to another person, or to nobody
LEMMA RemappedOK ==
  ASSUME NEW row \in Identity, NEW q \in People
  PROVE  /\ [row EXCEPT !.person = q] \in Identity
         /\ [row EXCEPT !.person = q].person = q
         /\ [row EXCEPT !.person = q].notPerson = row.notPerson
         /\ [row EXCEPT !.person = q].product = row.product
  BY DEF Identity

\* a person's identities and facts become another's, or nobody's
LEMMA MovedPerson ==
  ASSUME IInv, NEW p \in Emails, NEW q \in People,
         ids' = [i \in Ids |-> IF ids[i].person = p
                               THEN [ids[i] EXCEPT !.person = q] ELSE ids[i]],
         facts' = [i \in Ids |-> {[f EXCEPT !.person = IF @ = p THEN q ELSE @] : f \in facts[i]}]
  PROVE  /\ ids' \in [Ids -> Identity] /\ facts' \in [Ids -> SUBSET Attribution]
         /\ \A i \in Ids : ids'[i].notPerson => ids'[i].person = None
         /\ FactsMirror'
         /\ \A i \in Ids : ids[i].person # p => ids'[i] = ids[i]
  <1>1. ASSUME NEW i \in Ids
        PROVE  /\ ids'[i] \in Identity /\ facts'[i] \in SUBSET Attribution
               /\ ids'[i].notPerson => ids'[i].person = None
               /\ Mirrors(ids'[i], facts'[i])
               /\ ids[i].person # p => ids'[i] = ids[i]
    <2>1. PICK row \in Identity : row = ids[i] /\ (row.notPerson => row.person = None)
      BY DEF IInv, TypeOK
    <2>2. PICK F \in SUBSET Attribution : F = facts[i] /\ Mirrors(row, F)
      BY <2>1 DEF IInv, TypeOK, FactsMirror, Mirrors
    <2>3. PICK m \in Identity : /\ m = [row EXCEPT !.person = q] /\ m.person = q
                                /\ m.notPerson = row.notPerson /\ m.product = row.product
      BY RemappedOK
    <2>4. PICK r \in Identity : /\ r = ids'[i] /\ (row.person # p => r = row)
                                /\ r.person = IF row.person = p THEN q ELSE row.person
                                /\ r.notPerson = row.notPerson /\ r.product = row.product
      BY <2>1, <2>3
    <2>5. facts'[i] = Renamed(F, p, q)
      BY <2>2 DEF Renamed
    <2>6. PICK G \in SUBSET Attribution : /\ G = Renamed(F, p, q)
                                          /\ \A h \in G : \E f \in F :
                                               /\ h.person = IF f.person = p THEN q ELSE f.person
                                               /\ h.product = f.product /\ h.by = f.by
      BY RenamedOK
    <2>7. p # None
      BY AttributionAssumption
    <2>8. Mirrors(r, G)
      BY <2>1, <2>2, <2>4, <2>6, <2>7 DEF Mirrors, Identity
    <2>9. r.notPerson => r.person = None
      BY <2>1, <2>4, <2>7
    <2>. QED
      BY <2>1, <2>4, <2>5, <2>6, <2>8, <2>9
  <1>2. DOMAIN ids' = Ids /\ DOMAIN facts' = Ids
    OBVIOUS
  <1>. QED
    BY <1>1, <1>2 DEF FactsMirror, Mirrors

LEMMA MergePeopleKeeps ==
  ASSUME IInv, NEW s \in Sessions, MergePeople(s)
  PROVE  IInv'
  <1>1. tx[s] # Idle /\ tx[s].step = "merge" /\ TxOK(tx[s])
    BY DEF MergePeople, Runs, At, IInv, TxInv
  <1>2. PICK p \in Emails, q \in Emails : p = tx[s].person /\ q = tx[s].into
    BY <1>1 DEF TxOK, PageTx
  <1>3. q \in People
    BY DEF People
  <1>4. /\ mergedInto' = [mergedInto EXCEPT ![p] = q]
        /\ alias' = Replaced([alias EXCEPT ![p] = q], p, q)
        /\ ids' = [i \in Ids |-> IF ids[i].person = p
                                 THEN [ids[i] EXCEPT !.person = q] ELSE ids[i]]
        /\ facts' = [i \in Ids |-> {[f EXCEPT !.person = IF @ = p THEN q ELSE @] : f \in facts[i]}]
        /\ decided' = Replaced(decided, p, q) /\ End(s)
        /\ UNCHANGED <<vendorTags, roster, pointed, changes, faults>>
    BY <1>2 DEF MergePeople
  <1>5. mergedInto' \in [Emails -> People] /\ alias' \in [Emails -> People]
        /\ decided' \in [Ids -> People]
    BY <1>3, <1>4, ReplacedOK DEF IInv, TypeOK
  <1>6. TypeOK' /\ FactsMirror' /\ \A i \in Ids : ids[i].person # p => ids'[i] = ids[i]
    BY <1>3, <1>4, <1>5, MovedPerson DEF IInv, TypeOK
  <1>7. CanLock(s, Rows(MappedTo(p), "update"))
    BY <1>1, <1>2 DEF MergePeople, Runs, Wants
  <1>8. ASSUME NEW u \in Sessions \ {s}, tx[u] # Idle, tx[u] \in PageTx,
               <<tx[u].id, "update">> \in tx[u].locks
        PROVE  ids'[tx[u].id] = ids[tx[u].id]
    <2>1. tx[u].id \in Ids /\ tx[u].id \notin MappedTo(p)
      BY <1>7, <1>8, LockHolds DEF Rows, PageTx
    <2>. QED
      BY <1>6, <2>1 DEF MappedTo
  <1>. QED
    BY <1>4, <1>6, <1>8, Ended, Keep

LEMMA ScrubKeeps ==
  ASSUME IInv, NEW s \in Sessions, NEW p \in Emails, Scrub(s, p)
  PROVE  IInv'
  <1>1. PICK t : t = [step |-> "delete", person |-> p, locks |-> {}]
    OBVIOUS
  <1>2. /\ Begin(s, t) /\ CanLock(s, Rows(MappedTo(p), "update")) /\ Change
        /\ ids' = [i \in Ids |-> IF ids[i].person = p
                                 THEN [ids[i] EXCEPT !.person = None, !.email = None] ELSE ids[i]]
        /\ decided' = Replaced(decided, p, None)
        /\ UNCHANGED <<vendorTags, roster, mergedInto, alias, pointed, facts, faults>>
    BY <1>1 DEF Scrub
  <1>3. TxOK(t) /\ RowOK(t, ids') /\ \A u \in Sessions \ {s} : Alone(t, tx[u])
    BY <1>1 DEF TxOK, RowOK, Alone
  <1>4. ASSUME NEW i \in Ids
        PROVE  /\ ids'[i] \in Identity /\ (ids'[i].notPerson => ids'[i].person = None)
               /\ Mirrors(ids'[i], facts[i])
               /\ ids[i].person # p => ids'[i] = ids[i]
    <2>1. PICK row \in Identity : row = ids[i] /\ (row.notPerson => row.person = None)
                                  /\ Mirrors(row, facts[i])
      BY DEF IInv, TypeOK, FactsMirror, Mirrors
    <2>2. ids'[i] = IF row.person = p THEN [row EXCEPT !.person = None, !.email = None] ELSE row
      BY <1>2, <2>1
    <2>3. PICK r \in Identity :
            /\ r = [row EXCEPT !.person = None, !.email = None]
            /\ r.person = None /\ r.notPerson = row.notPerson /\ r.product = row.product
      <3>1. [row EXCEPT !.person = None, !.email = None] \in Identity
        BY DEF Identity, People
      <3>. QED
        BY <3>1 DEF Identity
    <2>4. p # None
      BY AttributionAssumption
    <2>. QED
      BY <2>1, <2>2, <2>3, <2>4 DEF Mirrors
  <1>5. decided' \in [Ids -> People]
    BY <1>2, ReplacedOK DEF IInv, TypeOK, People
  <1>6. changes' \in 0..MaxChanges
    BY <1>2, Counted
  <1>7. ids' \in [Ids -> Identity]
    <2>1. DOMAIN ids' = Ids /\ ids' = [i \in Ids |-> ids'[i]]
      BY <1>2
    <2>. QED
      BY <1>4, <2>1
  <1>8. TypeOK'
    BY <1>2, <1>4, <1>5, <1>6, <1>7 DEF IInv, TypeOK
  <1>9. FactsMirror'
    BY <1>2, <1>4 DEF FactsMirror, Mirrors
  <1>10. CanLock(s, Rows(MappedTo(p), "update"))
    BY <1>2
  <1>11. ASSUME NEW u \in Sessions \ {s}, tx[u] # Idle, tx[u] \in PageTx,
                <<tx[u].id, "update">> \in tx[u].locks
         PROVE  ids'[tx[u].id] = ids[tx[u].id]
    <2>1. tx[u].id \in Ids /\ tx[u].id \notin MappedTo(p)
      BY <1>10, <1>11, LockHolds DEF Rows, PageTx
    <2>. QED
      BY <1>4, <2>1 DEF MappedTo
  <1>. QED
    BY <1>2, <1>3, <1>8, <1>9, <1>11, Begun, Keep

LEMMA DeletePersonKeeps ==
  ASSUME IInv, NEW s \in Sessions, DeletePerson(s)
  PROVE  IInv'
  <1>1. tx[s] # Idle /\ tx[s].step = "delete" /\ TxOK(tx[s])
    BY DEF DeletePerson, Runs, At, IInv, TxInv
  <1>2. PICK p \in Emails : p = tx[s].person
    BY <1>1 DEF TxOK, PageTx
  <1>3. None \in People
    BY DEF People
  <1>4. /\ roster' = roster \ {p} /\ alias' = Replaced(alias, p, None)
        /\ mergedInto' = [Replaced(mergedInto, p, None) EXCEPT ![p] = None]
        /\ ids' = [i \in Ids |-> IF ids[i].person = p
                                 THEN [ids[i] EXCEPT !.person = None] ELSE ids[i]]
        /\ facts' = [i \in Ids |->
                       {[f EXCEPT !.person = IF @ = p THEN None ELSE @] : f \in facts[i]}]
        /\ decided' = Replaced(decided, p, None) /\ End(s)
        /\ UNCHANGED <<vendorTags, pointed, changes, faults>>
    BY <1>2 DEF DeletePerson
  <1>5. mergedInto' \in [Emails -> People] /\ alias' \in [Emails -> People]
        /\ decided' \in [Ids -> People]
    BY <1>3, <1>4, ReplacedOK DEF IInv, TypeOK
  <1>6. TypeOK' /\ FactsMirror' /\ \A i \in Ids : ids[i].person # p => ids'[i] = ids[i]
    BY <1>3, <1>4, <1>5, MovedPerson DEF IInv, TypeOK
  <1>7. CanLock(s, Rows({p}, "full") \cup Rows(MappedTo(p), "update")
                   \cup Rows({e \in roster : mergedInto[e] = p}, "update"))
    BY <1>1, <1>2 DEF DeletePerson, Runs, Wants
  <1>8. ASSUME NEW u \in Sessions \ {s}, tx[u] # Idle, tx[u] \in PageTx,
               <<tx[u].id, "update">> \in tx[u].locks
        PROVE  ids'[tx[u].id] = ids[tx[u].id]
    <2>1. tx[u].id \in Ids /\ tx[u].id \notin MappedTo(p)
      BY <1>7, <1>8, LockHolds DEF Rows, PageTx
    <2>. QED
      BY <1>6, <2>1 DEF MappedTo
  <1>. QED
    BY <1>4, <1>6, <1>8, Ended, Keep

LEMMA ImportPeopleKeeps ==
  ASSUME IInv, NEW s \in Sessions, ImportPeople(s)
  PROVE  IInv'
  <1>1. tx[s] # Idle /\ tx[s].step = "import" /\ TxOK(tx[s])
    BY DEF ImportPeople, Runs, At, IInv, TxInv
  <1>2. PICK match : match = tx[s].match
    OBVIOUS
  <1>3. tx[s].person \in Emails /\ \A i \in DOMAIN match : i \in Ids /\ match[i] \in Emails
    BY <1>1, <1>2 DEF TxOK, PageTx
  <1>4. /\ roster' = roster \cup {tx[s].person}
        /\ ids' = [i \in Ids |-> IF i \in DOMAIN match
                                 THEN [ids[i] EXCEPT !.person = match[i]] ELSE ids[i]]
        /\ facts' = [i \in Ids |-> IF i \in DOMAIN match
                                   THEN Attributed(facts[i], match[i], None) ELSE facts[i]]
        /\ decided' = [i \in Ids |-> IF i \in DOMAIN match THEN None ELSE decided[i]]
        /\ End(s) /\ UNCHANGED <<vendorTags, mergedInto, alias, pointed, changes, faults>>
    BY <1>2 DEF ImportPeople
  <1>5. ASSUME NEW i \in Ids
        PROVE  /\ ids'[i] \in Identity /\ facts'[i] \in SUBSET Attribution
               /\ ids'[i].notPerson => ids'[i].person = None
               /\ Mirrors(ids'[i], facts'[i])
    <2>1. PICK row \in Identity : row = ids[i] /\ (row.notPerson => row.person = None)
      BY DEF IInv, TypeOK
    <2>2. PICK F \in SUBSET Attribution : F = facts[i] /\ Mirrors(row, F)
      BY <2>1 DEF IInv, TypeOK, FactsMirror, Mirrors
    <2>3. CASE i \notin DOMAIN match
      BY <1>4, <2>1, <2>2, <2>3
    <2>4. CASE i \in DOMAIN match
      <3>1. PICK p \in People : p = match[i] /\ p # None
        BY <1>3, <2>4, AttributionAssumption DEF People
      <3>2. ~row.notPerson
        BY <1>1, <1>2, <2>1, <2>4 DEF ImportPeople, Runs, Violates
      <3>3. PICK r \in Identity : /\ r = [row EXCEPT !.person = p] /\ r.person = p
                                  /\ r.notPerson = row.notPerson /\ r.product = row.product
        BY RemappedOK
      <3>4. PICK G \in SUBSET Attribution :
              G = Attributed(F, p, None) /\ \A f \in G :
                 f.person = p /\ \E g \in F : SameRoi(f, g)
        BY AttributedOK
      <3>5. ids'[i] = r /\ facts'[i] = G
        BY <1>4, <2>1, <2>2, <2>4, <3>1, <3>3, <3>4
      <3>. QED
        BY <2>2, <3>1, <3>2, <3>3, <3>4, <3>5 DEF Mirrors, SameRoi
    <2>. QED
      BY <2>3, <2>4
  <1>6. decided' \in [Ids -> People] /\ roster' \subseteq Emails
    BY <1>3, <1>4 DEF IInv, TypeOK, People
  <1>7. ids' \in [Ids -> Identity] /\ facts' \in [Ids -> SUBSET Attribution]
    <2>1. ids' = [i \in Ids |-> ids'[i]] /\ facts' = [i \in Ids |-> facts'[i]]
      BY <1>4
    <2>. QED
      BY <1>5, <2>1
  <1>8. TypeOK' /\ FactsMirror'
    BY <1>4, <1>5, <1>6, <1>7 DEF IInv, TypeOK, FactsMirror, Mirrors
  <1>9. CanLock(s, Rows(DOMAIN match, "update")
                   \cup Rows(Range(match) \ {tx[s].person}, "share"))
    BY <1>1, <1>2 DEF ImportPeople, Runs, Wants
  <1>10. ASSUME NEW u \in Sessions \ {s}, tx[u] # Idle, tx[u] \in PageTx,
                <<tx[u].id, "update">> \in tx[u].locks
         PROVE  ids'[tx[u].id] = ids[tx[u].id]
    <2>1. tx[u].id \in Ids /\ tx[u].id \notin DOMAIN match
      BY <1>9, <1>10, LockHolds DEF Rows, PageTx
    <2>. QED
      BY <1>4, <2>1
  <1>. QED
    BY <1>4, <1>8, <1>10, Ended, Keep

LEMMA UpdateTagKeeps ==
  ASSUME IInv, NEW s \in Sessions, UpdateTag(s)
  PROVE  IInv'
  <1>1. tx[s] # Idle /\ tx[s].step = "point" /\ TxOK(tx[s])
    BY DEF UpdateTag, Runs, At, IInv, TxInv
  <1>2. PICK match : match = tx[s].match
    OBVIOUS
  <1>3. /\ tx[s].tag \in Tags /\ tx[s].product \in Products \cup {None}
        /\ \A i \in DOMAIN match : i \in Ids /\ match[i] \in Products
    BY <1>1, <1>2 DEF TxOK, PageTx
  <1> DEFINE now == {i \in DOMAIN match : ids[i].product # match[i]}
  <1>4. PICK moved : moved = now
    OBVIOUS
  <1>5. /\ pointed' = [pointed EXCEPT ![tx[s].tag] = tx[s].product]
        /\ ids' = [i \in Ids |-> IF i \in moved
                                 THEN [ids[i] EXCEPT !.product = match[i], !.person = None,
                                                     !.notPerson = TRUE]
                                 ELSE ids[i]]
        /\ facts' = [i \in Ids |-> IF i \in moved
                                   THEN Attributed(facts[i], None, match[i]) ELSE facts[i]]
        /\ decided' = [i \in Ids |-> IF i \in moved THEN None ELSE decided[i]]
        /\ End(s) /\ UNCHANGED <<vendorTags, roster, mergedInto, alias, changes, faults>>
    BY <1>2, <1>4 DEF UpdateTag
  <1>6. ASSUME NEW i \in Ids
        PROVE  /\ ids'[i] \in Identity /\ facts'[i] \in SUBSET Attribution
               /\ ids'[i].notPerson => ids'[i].person = None
               /\ Mirrors(ids'[i], facts'[i])
    <2>1. PICK row \in Identity : row = ids[i] /\ (row.notPerson => row.person = None)
      BY DEF IInv, TypeOK
    <2>2. PICK F \in SUBSET Attribution : F = facts[i] /\ Mirrors(row, F)
      BY <2>1 DEF IInv, TypeOK, FactsMirror, Mirrors
    <2>3. CASE i \notin moved
      BY <1>5, <2>1, <2>2, <2>3
    <2>4. CASE i \in moved
      <3>1. PICK c \in Products : c = match[i]
        BY <1>3, <1>4, <2>4
      <3>2. PICK r \in Identity :
              /\ r = [row EXCEPT !.product = c, !.person = None, !.notPerson = TRUE]
              /\ r.person = None /\ r.notPerson /\ r.product = c
        <4>1. [row EXCEPT !.product = c, !.person = None, !.notPerson = TRUE] \in Identity
          BY DEF Identity, People
        <4>. QED
          BY <4>1 DEF Identity
      <3>3. c # None
        BY AttributionAssumption
      <3>4. PICK G \in SUBSET Attribution :
              G = Attributed(F, None, c) /\ \A f \in G : f.person = None /\ f.product = c
        BY <3>3, AttributedOK DEF People
      <3>5. ids'[i] = r /\ facts'[i] = G
        BY <1>5, <2>1, <2>2, <2>4, <3>1, <3>2, <3>4
      <3>. QED
        BY <3>2, <3>4, <3>5 DEF Mirrors
    <2>. QED
      BY <2>3, <2>4
  <1>7. decided' \in [Ids -> People] /\ pointed' \in [Tags -> Products \cup {None}]
    BY <1>3, <1>5 DEF IInv, TypeOK, People
  <1>8. ids' \in [Ids -> Identity] /\ facts' \in [Ids -> SUBSET Attribution]
    <2>1. ids' = [i \in Ids |-> ids'[i]] /\ facts' = [i \in Ids |-> facts'[i]]
      BY <1>5
    <2>. QED
      BY <1>6, <2>1
  <1>9. TypeOK' /\ FactsMirror'
    BY <1>5, <1>6, <1>7, <1>8 DEF IInv, TypeOK, FactsMirror, Mirrors
  <1>10. CanLock(s, Rows(DOMAIN match, "update"))
    BY <1>1, <1>2 DEF UpdateTag, Runs, Wants
  <1>11. ASSUME NEW u \in Sessions \ {s}, tx[u] # Idle, tx[u] \in PageTx,
                <<tx[u].id, "update">> \in tx[u].locks
         PROVE  ids'[tx[u].id] = ids[tx[u].id]
    <2>1. tx[u].id \in Ids /\ tx[u].id \notin DOMAIN match
      BY <1>10, <1>11, LockHolds DEF Rows, PageTx
    <2>. QED
      BY <1>4, <1>5, <2>1
  <1>. QED
    BY <1>5, <1>9, <1>11, Ended, Keep

------------------------------------------------------------------------------
LEMMA InitIInv == Init => IInv
  <1>. SUFFICES ASSUME Init PROVE IInv
    OBVIOUS
  <1>0. PICK S : ids = [i \in Ids |-> [Unseen EXCEPT !.sdk = (i \in S)]]
    BY DEF Init
  <1>1. \A i \in Ids : ids[i] \in Identity /\ ids[i].person = None /\ ~ids[i].notPerson
    <2>1. ASSUME NEW b \in BOOLEAN
          PROVE  LET row == [Unseen EXCEPT !.sdk = b]
                 IN  row \in Identity /\ row.person = None /\ ~row.notPerson
      BY DEF Unseen, Identity, People
    <2>2. \A i \in Ids : (i \in S) \in BOOLEAN
      OBVIOUS
    <2>. QED
      BY <1>0, <2>1, <2>2
  <1>2. TypeOK
    <2>1. ids \in [Ids -> Identity]
      BY <1>0, <1>1
    <2>. QED
      BY <1>1, <2>1, AttributionAssumption DEF Init, TypeOK, People
  <1>3. TxInv /\ LocksInv
    BY DEF Init, TxInv, LocksInv, TxOK, RowOK, Alone
  <1>4. FactsMirror
    BY DEF Init, FactsMirror
  <1>. QED
    BY <1>2, <1>3, <1>4 DEF IInv

LEMMA StartKeeps ==
  ASSUME IInv, NEW s \in Sessions, Start(s)
  PROVE  IInv'
  BY PageKeeps, PromoteKeeps, ConfirmKeeps, MarkNotPersonKeeps, ImportKeeps, ScrubKeeps, MergeKeeps,
     PointTagKeeps DEF Start

LEMMA StepKeeps ==
  ASSUME IInv, NEW s \in Sessions, Step(s) \/ Fail(s)
  PROVE  IInv'
  BY UpsertKeeps, RouteKeeps, WriteKeeps, EmitOutcomeKeeps, ConfirmMatchKeeps, MergePeopleKeeps,
     ImportPeopleKeeps, DeletePersonKeeps, UpdateTagKeeps, GivenUpKeeps DEF Step, PageStep

LEMMA NextIInv == IInv /\ [Next]_vars => IInv'
  <1>. SUFFICES ASSUME IInv, [Next]_vars PROVE IInv'
    OBVIOUS
  <1>1. CASE UNCHANGED vars
    BY <1>1 DEF vars, IInv, TypeOK, TxInv, LocksInv, FactsMirror
  <1>2. CASE Next
    BY <1>2, StartKeeps, StepKeeps, RenameKeeps DEF Next
  <1>. QED
    BY <1>1, <1>2

LEMMA Inductive == Spec => []IInv
  BY InitIInv, NextIInv, PTL DEF Spec

(* What an admin confirmed. A page that writes either found the mapping    *)
(* and kept it, under the lock of the row, or moved the identity to an ROI.*)
LEMMA WriteConfirmed ==
  ASSUME IInv, ConfirmedStays, NEW s \in Sessions, Write(s)
  PROVE  ConfirmedStays'
  <1>1. tx[s] \in PageTx /\ RowOK(tx[s], ids) /\ tx[s] # Idle /\ tx[s].step = "write"
    BY PageShape DEF Write, Runs, At, IInv, TxInv
  <1>2. PICK i \in Ids : i = tx[s].id
    BY <1>1 DEF PageTx
  <1>3. PICK row : row = tx[s].row
    OBVIOUS
  <1>4. ids[i].person # None /\ row.product = ids[i].product => row.person = ids[i].person
    BY <1>1, <1>2, <1>3 DEF RowOK
  <1>5. /\ ids' = [ids EXCEPT ![i] = row]
        /\ decided' = [decided EXCEPT ![i] = IF row.product # ids[i].product THEN None ELSE @]
    BY <1>2, <1>3 DEF Write
  <1>. QED
    BY <1>4, <1>5 DEF ConfirmedStays, IInv, TypeOK

LEMMA AdminConfirmed ==
  ASSUME IInv, ConfirmedStays, NEW s \in Sessions,
         \/ ConfirmMatch(s) \/ ImportPeople(s) \/ UpdateTag(s)
         \/ \E i \in Ids, c \in Products \cup {None} : MarkNotPerson(s, i, c)
  PROVE  ConfirmedStays'
  <1>1. CASE ConfirmMatch(s)
    <2>1. PICK i, p : i = tx[s].id /\ p = tx[s].person
      OBVIOUS
    <2>2. /\ decided' = [decided EXCEPT ![i] = p]
          /\ ids' = [ids EXCEPT ![i] = [ids[i] EXCEPT !.person = p, !.notPerson = FALSE]]
      BY <1>1, <2>1 DEF ConfirmMatch
    <2>3. i \in Ids => ids[i] \in Identity
      BY DEF IInv, TypeOK
    <2>4. i \in Ids => [ids[i] EXCEPT !.person = p, !.notPerson = FALSE].person = p
      BY <2>3 DEF Identity
    <2>. QED
      BY <2>2, <2>4 DEF ConfirmedStays, IInv, TypeOK
  <1>2. CASE ImportPeople(s)
    <2>1. PICK match : match = tx[s].match
      OBVIOUS
    <2>2. \A i \in Ids : IF i \in DOMAIN match THEN decided'[i] = None
                         ELSE decided'[i] = decided[i] /\ ids'[i] = ids[i]
      BY <1>2, <2>1 DEF ImportPeople
    <2>. QED
      BY <2>2 DEF ConfirmedStays
  <1>3. CASE UpdateTag(s)
    <2>1. PICK moved : moved = {i \in DOMAIN tx[s].match : ids[i].product # tx[s].match[i]}
      OBVIOUS
    <2>2. \A i \in Ids : IF i \in moved THEN decided'[i] = None
                         ELSE decided'[i] = decided[i] /\ ids'[i] = ids[i]
      BY <1>3, <2>1 DEF UpdateTag
    <2>. QED
      BY <2>2 DEF ConfirmedStays
  <1>4. CASE \E i \in Ids, c \in Products \cup {None} : MarkNotPerson(s, i, c)
    <2>1. PICK i \in Ids, c \in Products \cup {None} : MarkNotPerson(s, i, c)
      BY <1>4
    <2>2. \A j \in Ids : IF j = i THEN decided'[j] = None
                         ELSE decided'[j] = decided[j] /\ ids'[j] = ids[j]
      BY <2>1 DEF MarkNotPerson, IInv, TypeOK
    <2>. QED
      BY <2>2 DEF ConfirmedStays
  <1>. QED
    BY <1>1, <1>2, <1>3, <1>4

\* a merge moves the mapping and what was confirmed together; a delete drops both
LEMMA RosterConfirmed ==
  ASSUME IInv, ConfirmedStays, NEW s \in Sessions,
         MergePeople(s) \/ DeletePerson(s) \/ \E p \in Emails : Scrub(s, p)
  PROVE  ConfirmedStays'
  <1>1. PICK p \in Emails, q \in People :
          /\ decided' = Replaced(decided, p, q)
          /\ \A i \in Ids : IF ids[i].person = p THEN ids'[i].person = q ELSE ids'[i] = ids[i]
    <2>1. ASSUME NEW i \in Ids, NEW q
          PROVE  /\ [ids[i] EXCEPT !.person = q].person = q
                 /\ [ids[i] EXCEPT !.person = None, !.email = None].person = None
      <3>1. ids[i] \in Identity
        BY DEF IInv, TypeOK
      <3>. QED
        BY <3>1 DEF Identity
    <2>2. CASE MergePeople(s)
      <3>1. TxOK(tx[s]) /\ tx[s].step = "merge" /\ tx[s] # Idle
        BY <2>2 DEF MergePeople, Runs, At, IInv, TxInv
      <3>2. PICK p \in Emails, q \in People : p = tx[s].person /\ q = tx[s].into
        BY <3>1 DEF TxOK, PageTx, People
      <3>3. /\ decided' = Replaced(decided, p, q)
            /\ ids' = [i \in Ids |-> IF ids[i].person = p
                                     THEN [ids[i] EXCEPT !.person = q] ELSE ids[i]]
        BY <2>2, <3>2 DEF MergePeople
      <3>. QED
        BY <2>1, <3>2, <3>3
    <2>3. CASE DeletePerson(s)
      <3>1. PICK p \in Emails : p = tx[s].person
        <4>1. TxOK(tx[s]) /\ tx[s].step = "delete" /\ tx[s] # Idle
          BY <2>3 DEF DeletePerson, Runs, At, IInv, TxInv
        <4>. QED
          BY <4>1 DEF TxOK, PageTx
      <3>2. /\ decided' = Replaced(decided, p, None)
            /\ ids' = [i \in Ids |-> IF ids[i].person = p
                                     THEN [ids[i] EXCEPT !.person = None] ELSE ids[i]]
        BY <2>3, <3>1 DEF DeletePerson
      <3>3. None \in People
        BY DEF People
      <3>. QED
        BY <2>1, <3>2, <3>3
    <2>4. CASE \E p \in Emails : Scrub(s, p)
      <3>1. PICK p \in Emails : Scrub(s, p)
        BY <2>4
      <3>2. /\ decided' = Replaced(decided, p, None)
            /\ ids' = [i \in Ids |-> IF ids[i].person = p
                                     THEN [ids[i] EXCEPT !.person = None, !.email = None]
                                     ELSE ids[i]]
        BY <3>1 DEF Scrub
      <3>3. None \in People
        BY DEF People
      <3>. QED
        BY <2>1, <3>2, <3>3
    <2>. QED
      BY <2>2, <2>3, <2>4
  <1>2. \A i \in Ids : decided'[i] = IF decided[i] = p THEN q ELSE decided[i]
    BY <1>1 DEF Replaced, IInv, TypeOK
  <1>. QED
    BY <1>1, <1>2, AttributionAssumption DEF ConfirmedStays

\* the other steps leave the rows alone
LEMMA NextConfirmed == IInv /\ ConfirmedStays /\ [Next]_vars => ConfirmedStays'
  <1>. SUFFICES ASSUME IInv, ConfirmedStays, [Next]_vars PROVE ConfirmedStays'
    OBVIOUS
  <1>1. ids' = ids /\ decided' = decided => ConfirmedStays'
    BY DEF ConfirmedStays
  <1>2. CASE UNCHANGED vars
    BY <1>1, <1>2 DEF vars
  <1>3. ASSUME NEW s \in Sessions, Start(s)
        PROVE  ConfirmedStays'
    BY <1>1, <1>3, AdminConfirmed, RosterConfirmed
       DEF Start, Page, Promote, Confirm, Import, Merge, PointTag, data
  <1>4. ASSUME NEW s \in Sessions, Step(s) \/ Fail(s)
        PROVE  ConfirmedStays'
    BY <1>1, <1>4, WriteConfirmed, AdminConfirmed, RosterConfirmed
       DEF Step, PageStep, Upsert, Route, EmitOutcome, Deadlock, Refuse, Fail, data
  <1>5. ASSUME NEW i \in Ids, NEW T \in SUBSET Tags, Rename(i, T)
        PROVE  ConfirmedStays'
    BY <1>1, <1>5 DEF Rename
  <1>. QED
    BY <1>2, <1>3, <1>4, <1>5 DEF Next

(* Every variable keeps its type, and an identity that is not a person is  *)
(* nobody's, which the check on identities in the schema also demands.     *)
THEOREM AttributionType == Spec => []TypeOK
  <1>1. IInv => TypeOK
    BY DEF IInv
  <1>. QED
    BY <1>1, Inductive, PTL

(* Whatever syncs, ingests, promotions, Resolve, tags, merges, imports and *)
(* deletes overlap, the history of an identity counts for the person it is *)
(* on (a promoted success once it is swept), and each row its page gave no *)
(* ROI of its own for the ROI it is on.                                    *)
THEOREM HistoryFollows == Spec => []FactsMirror
  <1>1. IInv => FactsMirror
    BY DEF IInv
  <1>. QED
    BY <1>1, Inductive, PTL

(* However stale what a page or an import read, an identity stays on whom  *)
(* an admin confirmed until an admin, an import or a tag moves it.         *)
THEOREM ConfirmationsStand == Spec => []ConfirmedStays
  <1>1. Init => ConfirmedStays
    BY DEF Init, ConfirmedStays
  <1>. QED
    BY <1>1, Inductive, NextConfirmed, PTL DEF Spec
=============================================================================
