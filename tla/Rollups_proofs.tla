---------------------------- MODULE Rollups_proofs ----------------------------
(***************************************************************************)
(* Proofs about Rollups, for every set of callers, people and raw rows and *)
(* any number of changes, faults and retention passes, however recomputes  *)
(* overlap.                                                                *)
(***************************************************************************)
EXTENDS Rollups, SequenceTheorems, TLAPS

Remaining == {SubSeq(Recompute, n, Len(Recompute)) : n \in 1..Len(Recompute) + 1}

Active(k) == job[k] # Idle
Left(k) == Len(job[k].todo)

\* A rollup row groups rows of its own table and day.
Uniform(x) == \A r \in x.rows : TableOf[r] = x.table /\ DayOf[r] = x.day

\* The insert into this table is still to start.
Unread(k, table) ==
  \/ Left(k) > 2
  \/ Left(k) = 2 /\ (table = "outcome" \/ ~job[k].waiting)
  \/ Left(k) = 1 /\ table = "outcome" /\ ~job[k].waiting

\* What recompute k leaves when it commits counts row r: the insert has yet to
\* read it, has read it and waits, or has run.
WillCount(k, r) ==
  /\ InSpan(k, DayOf[r])
  /\ \/ Unread(k, TableOf[r])
     \/ job[k].waiting /\ Left(k) <= 2 /\ \E x \in job[k].pending : Counts(x, r)
     \/ \E x \in job[k].inserted : Counts(x, r)

-----------------------------------------------------------------------------
\* The statements: what is pending suits the statement at hand.
Shaped(k) ==
  Active(k) =>
    /\ job[k].waiting => Left(k) \in 1 .. 4
    /\ job[k].waiting /\ Left(k) > 2 =>
         \A x \in job[k].pending :
           x.table = Head(job[k].todo)[2] /\ InSpan(k, x.day) /\ Uniform(x)
    /\ job[k].waiting /\ Left(k) <= 2 =>
         \A x \in job[k].pending : x.id = job[k].id /\ Uniform(x)
    /\ \A x \in job[k].inserted : x.id = job[k].id /\ Uniform(x)
    /\ \A r \in job[k].changed : InSpan(k, DayOf[r])

\* Row ids are never used twice: no row a recompute finds or deletes is a row
\* of a recompute still running.
Fresh(x) == x.id <= changes /\ \A k \in Callers : Active(k) => x.id # job[k].id

Apart ==
  /\ \A x \in rolled : Fresh(x) /\ Uniform(x)
  /\ \A k \in Callers : Active(k) => job[k].id <= changes
  /\ \A k \in Callers : Active(k) => \A x \in job[k].deleted : Fresh(x)
  /\ \A k, n \in Callers : Active(k) /\ Active(n) /\ job[k].id = job[n].id => k = n

\* A row is counted and whoever deletes the count will count it again, or the
\* recompute of its own change will.
Covered(r) ==
  \/ \E k \in Callers : Active(k) /\ r \in job[k].changed /\ WillCount(k, r)
  \/ \E x \in rolled :
       /\ Counts(x, r)
       /\ \A k \in Callers : Active(k) /\ x \in job[k].deleted => WillCount(k, r)

Cover == \A r \in raw \ (synced \cup lost) : Covered(r)

IInv == TypeOK /\ (\A k \in Callers : Shaped(k)) /\ Apart /\ Cover

-----------------------------------------------------------------------------
(***************************************************************************)
(* The statements of a recompute.                                          *)
(***************************************************************************)
LEMMA RecomputeSeq ==
  /\ Recompute \in Seq({"check", "delete", "insert"} \X Tables)
  /\ Len(Recompute) = 5
  /\ \A n \in 1 .. 5 :
       Recompute[n] = <<IF n = 1 THEN "check" ELSE IF n <= 3 THEN "delete" ELSE "insert",
                        IF n \in {3, 5} THEN "outcome" ELSE "spend">>
BY DEF Recompute, Tables

LEMMA Stage ==
  ASSUME NEW t \in Remaining
  PROVE  /\ Len(t) \in 0 .. 5
         /\ t = <<>> <=> Len(t) = 0
         /\ Len(t) > 0 => /\ Head(t) = Recompute[6 - Len(t)]
                          /\ Tail(t) \in Remaining
                          /\ Len(Tail(t)) = Len(t) - 1
<1> DEFINE P == {"check", "delete", "insert"} \X Tables
<1>1. Recompute \in Seq(P) /\ Len(Recompute) = 5
  BY RecomputeSeq
<1>2. PICK n \in 1 .. 6 : t = SubSeq(Recompute, n, 5)
  BY <1>1 DEF Remaining
<1> HIDE DEF P
<1>3. t \in Seq(P) /\ Len(t) = 6 - n
  <2>1. \A i \in n .. 5 : Recompute[i] \in P
    <3>1. \A i \in n .. 5 : i \in 1 .. Len(Recompute)
      BY <1>1, <1>2
    <3>2. QED BY <1>1, <3>1
  <2>2. Len(t) = IF n <= 5 THEN 5 - n + 1 ELSE 0
    BY <1>2, <2>1, SubSeqProperties
  <2>3. QED BY <1>2, <2>1, <2>2, SubSeqProperties
<1>4. t = <<>> <=> Len(t) = 0
  BY <1>3
<1>5. ASSUME Len(t) > 0
      PROVE  /\ Head(t) = Recompute[6 - Len(t)]
             /\ Tail(t) \in Remaining
             /\ Len(Tail(t)) = Len(t) - 1
  <2>1. n \in 1 .. Len(Recompute) /\ 5 \in n .. Len(Recompute) /\ n = 6 - Len(t)
    BY <1>1, <1>3, <1>5
  <2>2. Head(t) = Recompute[n] /\ Tail(t) = SubSeq(Recompute, n + 1, 5)
    BY <1>1, <1>2, <2>1, HeadTailOfSubSeq
  <2>3. SubSeq(Recompute, n + 1, 5) \in Remaining
    <3>1. n + 1 \in 1 .. Len(Recompute) + 1
      BY <1>1, <1>2, <2>1
    <3>2. QED BY <1>1, <3>1 DEF Remaining
  <2>4. Len(Tail(t)) = Len(t) - 1
    BY <1>3, <1>4, <1>5, HeadTailProperties
  <2>5. QED BY <2>1, <2>2, <2>3, <2>4
<1>6. Len(t) \in 0 .. 5
  BY <1>3
<1>7. QED BY <1>4, <1>5, <1>6

LEMMA WholeRecompute == Recompute \in Remaining
<1>1. Recompute \in Seq({"check", "delete", "insert"} \X Tables) /\ Len(Recompute) = 5
  BY RecomputeSeq
<1>2. SubSeq(Recompute, 1, 5) = Recompute
  BY <1>1
<1>3. QED BY <1>1, <1>2 DEF Remaining

\* What the statement at hand is, by the number of statements left.
LEMMA AtStage ==
  ASSUME TypeOK, NEW k \in Callers, Active(k)
  PROVE  /\ job[k] \in Job /\ job[k].todo \in Remaining
         /\ Left(k) \in 0 .. 5 /\ (job[k].todo = <<>> <=> Left(k) = 0)
         /\ Left(k) > 0 =>
              /\ Head(job[k].todo)[1] =
                   (IF Left(k) = 5 THEN "check" ELSE IF Left(k) > 2 THEN "delete" ELSE "insert")
              /\ Head(job[k].todo)[2] = (IF Left(k) \in {1, 3} THEN "outcome" ELSE "spend")
              /\ Tail(job[k].todo) \in Remaining
              /\ Len(Tail(job[k].todo)) = Left(k) - 1
<1>1. job[k] \in Job
  BY DEF TypeOK, Active
<1>2. job[k].todo \in Remaining
  BY <1>1 DEF Job, Remaining
<1>3. PICK n \in 0 .. 5 : n = Left(k)
  BY <1>2, Stage DEF Left
<1>4. ASSUME n > 0
      PROVE  /\ Head(job[k].todo)[1] =
                   (IF n = 5 THEN "check" ELSE IF n > 2 THEN "delete" ELSE "insert")
             /\ Head(job[k].todo)[2] = (IF n \in {1, 3} THEN "outcome" ELSE "spend")
  <2>1. Head(job[k].todo) = Recompute[6 - n]
    BY <1>2, <1>3, <1>4, Stage DEF Left
  <2>2. 6 - n \in 1 .. 5
    BY <1>4
  <2>3. QED BY <1>4, <2>1, <2>2, RecomputeSeq
<1>5. QED BY <1>1, <1>2, <1>3, <1>4, Stage DEF Left

-----------------------------------------------------------------------------
(***************************************************************************)
(* What a statement reads.                                                 *)
(***************************************************************************)
LEMMA HolderTyped ==
  ASSUME TypeOK, NEW r \in Raw PROVE Holder(r) \in People \cup {Nobody}
BY DEF TypeOK, Holder, Identities

LEMMA GroupRows ==
  ASSUME TypeOK, NEW k \in Callers, Active(k), NEW table \in Tables
  PROVE  /\ Groups(k, table) \subseteq RollupRow
         /\ \A x \in Groups(k, table) :
              x.id = job[k].id /\ x.table = table /\ InSpan(k, x.day) /\ Uniform(x)
              /\ x.person \in {Holder(r) : r \in x.rows} /\ x.rows \subseteq raw
              /\ \A r \in x.rows : x.person = Holder(r)
         /\ \A r \in raw : TableOf[r] = table /\ InSpan(k, DayOf[r]) =>
              \E x \in Groups(k, table) : Counts(x, r)
<1> DEFINE rows == {r \in raw : TableOf[r] = table /\ InSpan(k, DayOf[r])}
           Group(g) == [id |-> job[k].id, table |-> table, day |-> g[1], person |-> g[2],
                        rows |-> {r \in rows : <<DayOf[r], Holder(r)>> = g}]
           Of(q) == Group(<<DayOf[q], Holder(q)>>)
<1>1. Groups(k, table) = {Of(q) : q \in rows}
  BY DEF Groups
<1>2. \A q \in rows :
        /\ Of(q).id = job[k].id /\ Of(q).table = table /\ Of(q).day = DayOf[q]
        /\ Of(q).person = Holder(q)
        /\ Of(q).rows = {r \in rows : DayOf[r] = DayOf[q] /\ Holder(r) = Holder(q)}
  OBVIOUS
<1>3. \A q \in rows : Of(q) \in RollupRow
  <2>1. SUFFICES ASSUME NEW q \in rows
                 PROVE  Of(q) \in RollupRow
    OBVIOUS
  <2>2. job[k].id \in 1 .. MaxChanges
    BY AtStage DEF Job
  <2>3. q \in Raw /\ DayOf[q] \in Days /\ rows \subseteq Raw
    BY DEF TypeOK, Days
  <2>4. Holder(q) \in People \cup {Nobody}
    BY <2>3, HolderTyped
  <2>5. QED BY <2>2, <2>3, <2>4 DEF RollupRow
<1> HIDE DEF Of
<1>4. ASSUME NEW x \in Groups(k, table)
      PROVE  x.id = job[k].id /\ x.table = table /\ InSpan(k, x.day) /\ Uniform(x)
             /\ x.person \in {Holder(r) : r \in x.rows} /\ x.rows \subseteq raw
             /\ \A r \in x.rows : x.person = Holder(r)
  <2>1. PICK q \in rows : x = Of(q)
    BY <1>1
  <2>2. q \in x.rows
    BY <1>2, <2>1
  <2>3. QED BY <1>2, <2>1, <2>2 DEF Uniform
<1>5. ASSUME NEW r \in raw, TableOf[r] = table, InSpan(k, DayOf[r])
      PROVE  \E x \in Groups(k, table) : Counts(x, r)
  BY <1>1, <1>2, <1>5 DEF Counts
<1>6. QED BY <1>1, <1>3, <1>4, <1>5

LEMMA ReadsRows ==
  ASSUME TypeOK, NEW k \in Callers, Active(k), Left(k) \in 1 .. 4
  PROVE  /\ Reads(k) \subseteq RollupRow
         /\ Left(k) > 2 =>
              Reads(k) = {x \in rolled : x.table = Head(job[k].todo)[2] /\ InSpan(k, x.day)}
         /\ Left(k) <= 2 => Reads(k) = Groups(k, IF Left(k) = 1 THEN "outcome" ELSE "spend")
<1>1. PICK n \in 1 .. 4 : n = Left(k)
  OBVIOUS
<1>2. Head(job[k].todo)[1] = (IF n > 2 THEN "delete" ELSE "insert")
      /\ Head(job[k].todo)[2] = (IF n \in {1, 3} THEN "outcome" ELSE "spend")
  BY <1>1, AtStage
<1>3. CASE n > 2
  BY <1>1, <1>2, <1>3 DEF Reads, TypeOK
<1>4. CASE ~(n > 2)
  <2>1. Reads(k) = Groups(k, IF n = 1 THEN "outcome" ELSE "spend")
    BY <1>2, <1>4 DEF Reads
  <2>2. (IF n = 1 THEN "outcome" ELSE "spend") \in Tables
    BY DEF Tables
  <2>3. QED BY <1>1, <1>4, <2>1, <2>2, GroupRows
<1>5. QED BY <1>3, <1>4

-----------------------------------------------------------------------------
(***************************************************************************)
(* Types.                                                                  *)
(***************************************************************************)
\* A caller that owes a recompute: its span covers the rows it changed.
LEMMA OweJob ==
  ASSUME TypeOK, NEW c \in Callers, NEW rows \in SUBSET Raw, changes < MaxChanges,
         Owe(c, rows)
  PROVE  \E from, to \in Days :
           /\ Owed(rows, from, to) \in Job
           /\ \A r \in rows : from <= DayOf[r] /\ DayOf[r] <= to
           /\ job' = [job EXCEPT ![c] = Owed(rows, from, to)]
<1> DEFINE days == {DayOf[r] : r \in rows}
<1>1. PICK from \in days, to \in days :
        /\ \A day \in days : from <= day /\ day <= to
        /\ job' = [job EXCEPT ![c] = Owed(rows, from, to)]
  BY DEF Owe
<1>2. from \in Days /\ to \in Days
  BY DEF Days
<1>3. changes + 1 \in 1 .. MaxChanges
  BY RollupsAssumption DEF TypeOK
<1>4. Owed(rows, from, to) \in Job
  BY <1>2, <1>3, WholeRecompute DEF Owed, Job, Remaining
<1>5. \A r \in rows : from <= DayOf[r] /\ DayOf[r] <= to
  BY <1>1
<1>6. QED BY <1>1, <1>2, <1>4, <1>5

\* What the statements make of a job.
LEMMA StepJob ==
  ASSUME TypeOK, NEW c \in Callers
  PROVE  /\ Check(c) => Active(c) /\ Left(c) = 5 /\ \E r \in Job :
              r = [job[c] EXCEPT !.todo = Tail(@)] /\ job' = [job EXCEPT ![c] = r]
         /\ Start(c) => Active(c) /\ Left(c) \in 1 .. 4 /\ ~job[c].waiting /\ \E r \in Job :
              r = [job[c] EXCEPT !.waiting = TRUE, !.pending = Reads(c)]
              /\ job' = [job EXCEPT ![c] = r]
         /\ Delete(c) /\ Shaped(c) => Active(c) /\ Left(c) \in 3 .. 4 /\ job[c].waiting
              /\ \E r \in Job :
                   r = [job[c] EXCEPT !.deleted = @ \cup (job[c].pending \cap rolled),
                                      !.pending = {}, !.waiting = FALSE, !.todo = Tail(@)]
                   /\ job' = [job EXCEPT ![c] = r]
         /\ Insert(c) /\ Shaped(c) => Active(c) /\ Left(c) \in 1 .. 2 /\ job[c].waiting
              /\ \E r \in Job :
                   r = [job[c] EXCEPT !.inserted = @ \cup job[c].pending,
                                      !.pending = {}, !.waiting = FALSE, !.todo = Tail(@)]
                   /\ job' = [job EXCEPT ![c] = r]
<1> DEFINE Rest == {SubSeq(Recompute, n, Len(Recompute)) : n \in 1..Len(Recompute) + 1}
<1>0. Rest = Remaining
  BY DEF Remaining
<1> HIDE DEF Rest
<1>j. Active(c) => job[c] \in Job
  BY AtStage
<1>1. ASSUME Check(c)
      PROVE  Active(c) /\ Left(c) = 5 /\ \E r \in Job :
               r = [job[c] EXCEPT !.todo = Tail(@)] /\ job' = [job EXCEPT ![c] = r]
  <2>1. Active(c) /\ Left(c) = 5
    <3>1. Active(c) /\ Left(c) # 0 /\ Head(job[c].todo)[1] = "check"
      BY <1>1, AtStage DEF Check, Active
    <3>2. PICK n \in 0 .. 5 : n = Left(c)
      BY <3>1, AtStage
    <3>3. "check" = IF n = 5 THEN "check" ELSE IF n > 2 THEN "delete" ELSE "insert"
      BY <3>1, <3>2, AtStage
    <3>4. QED BY <3>1, <3>2, <3>3
  <2>2. Tail(job[c].todo) \in Remaining
    BY <2>1, AtStage
  <2>3. PICK r : r = [job[c] EXCEPT !.todo = Tail(@)]
    OBVIOUS
  <2>4. r \in Job
    BY <1>j, <1>0, <2>1, <2>2, <2>3 DEF Job, Rest
  <2>5. QED BY <1>1, <2>1, <2>3, <2>4 DEF Check
<1>2. ASSUME Start(c)
      PROVE  Active(c) /\ Left(c) \in 1 .. 4 /\ ~job[c].waiting /\ \E r \in Job :
               r = [job[c] EXCEPT !.waiting = TRUE, !.pending = Reads(c)]
               /\ job' = [job EXCEPT ![c] = r]
  <2>1. Active(c) /\ Left(c) \in 1 .. 4
    <3>1. Active(c) /\ Left(c) # 0 /\ Head(job[c].todo)[1] # "check"
      BY <1>2, AtStage DEF Start, Active
    <3>2. PICK n \in 0 .. 5 : n = Left(c)
      BY <3>1, AtStage
    <3>3. Head(job[c].todo)[1] = IF n = 5 THEN "check" ELSE IF n > 2 THEN "delete" ELSE "insert"
      BY <3>1, <3>2, AtStage
    <3>4. QED BY <3>1, <3>2, <3>3
  <2>2. Reads(c) \subseteq RollupRow
    BY <2>1, ReadsRows
  <2>3. PICK r : r = [job[c] EXCEPT !.waiting = TRUE, !.pending = Reads(c)]
    OBVIOUS
  <2>4. r \in Job
    BY <1>j, <2>1, <2>2, <2>3 DEF Job
  <2>5. QED BY <1>2, <2>1, <2>3, <2>4 DEF Start
<1>3. ASSUME Delete(c), Shaped(c)
      PROVE  Active(c) /\ Left(c) \in 3 .. 4 /\ job[c].waiting
             /\ \E r \in Job :
                  r = [job[c] EXCEPT !.deleted = @ \cup (job[c].pending \cap rolled),
                                     !.pending = {}, !.waiting = FALSE, !.todo = Tail(@)]
                  /\ job' = [job EXCEPT ![c] = r]
  <2>1. Active(c) /\ Left(c) \in 3 .. 4 /\ job[c].waiting
    <3>1. Active(c) /\ job[c].waiting /\ Left(c) \in 1 .. 4 /\ Head(job[c].todo)[1] = "delete"
      BY <1>3 DEF Delete, Active, Shaped
    <3>2. PICK n \in 1 .. 4 : n = Left(c)
      BY <3>1
    <3>3. "delete" = IF n = 5 THEN "check" ELSE IF n > 2 THEN "delete" ELSE "insert"
      BY <3>1, <3>2, AtStage
    <3>4. QED BY <3>1, <3>2, <3>3
  <2>2. Tail(job[c].todo) \in Remaining
    BY <2>1, AtStage
  <2>3. PICK r : r = [job[c] EXCEPT !.deleted = @ \cup (job[c].pending \cap rolled),
                                    !.pending = {}, !.waiting = FALSE, !.todo = Tail(@)]
    OBVIOUS
  <2>4. r \in Job
    BY <1>j, <1>0, <2>1, <2>2, <2>3 DEF Job, Rest
  <2>5. QED BY <1>3, <2>1, <2>3, <2>4 DEF Delete
<1>4. ASSUME Insert(c), Shaped(c)
      PROVE  Active(c) /\ Left(c) \in 1 .. 2 /\ job[c].waiting
             /\ \E r \in Job :
                  r = [job[c] EXCEPT !.inserted = @ \cup job[c].pending,
                                     !.pending = {}, !.waiting = FALSE, !.todo = Tail(@)]
                  /\ job' = [job EXCEPT ![c] = r]
  <2>1. Active(c) /\ Left(c) \in 1 .. 2 /\ job[c].waiting
    <3>1. Active(c) /\ job[c].waiting /\ Left(c) \in 1 .. 4 /\ Head(job[c].todo)[1] = "insert"
      BY <1>4 DEF Insert, Active, Shaped
    <3>2. PICK n \in 1 .. 4 : n = Left(c)
      BY <3>1
    <3>3. "insert" = IF n = 5 THEN "check" ELSE IF n > 2 THEN "delete" ELSE "insert"
      BY <3>1, <3>2, AtStage
    <3>4. QED BY <3>1, <3>2, <3>3
  <2>2. Tail(job[c].todo) \in Remaining
    BY <2>1, AtStage
  <2>3. PICK r : r = [job[c] EXCEPT !.inserted = @ \cup job[c].pending,
                                    !.pending = {}, !.waiting = FALSE, !.todo = Tail(@)]
    OBVIOUS
  <2>4. r \in Job
    BY <1>j, <1>0, <2>1, <2>2, <2>3 DEF Job, Rest
  <2>5. QED BY <1>4, <2>1, <2>3, <2>4 DEF Insert
<1>5. QED BY <1>1, <1>2, <1>3, <1>4

\* A step that moves one job at most and leaves the people of the rows alone.
LEMMA TypeJob ==
  ASSUME TypeOK, NEW c \in Callers, NEW r \in Job \cup {Idle}, job' = [job EXCEPT ![c] = r],
         raw' \subseteq Raw, owner' = owner, changes' \in 0 .. MaxChanges, cutoff' = cutoff,
         faults' \in 0 .. MaxFaults, \A x \in rolled' : x \in RollupRow,
         synced' = synced, lost' \subseteq Raw, charted' = charted, crossed' \subseteq Days
  PROVE  TypeOK'
BY DEF TypeOK

LEMMA TypeThrow ==
  ASSUME TypeOK, NEW c \in Callers, Active(c), Throw(c), faults' \in 0 .. MaxFaults
  PROVE  TypeOK'
<1>1. job' = [job EXCEPT ![c] = Idle]
  BY DEF Throw
<1>2. job[c].changed \subseteq Raw
  BY AtStage DEF Job
<1>3. QED BY <1>1, <1>2, TypeJob DEF Throw, TypeOK, ghosts

LEMMA TypeStep ==
  ASSUME IInv, [Next]_vars
  PROVE  TypeOK'
<1>t. TypeOK /\ \A k \in Callers : Shaped(k)
  BY DEF IInv
<1>1. ASSUME NEW c \in Callers, NEW r \in Raw, Record(c, r)
      PROVE  TypeOK'
  <2>1. PICK from \in Days, to \in Days :
          Owed({r}, from, to) \in Job /\ job' = [job EXCEPT ![c] = Owed({r}, from, to)]
    BY <1>t, <1>1, OweJob DEF Record
  <2>2. changes' \in 0 .. MaxChanges
    BY <1>t, <1>1, RollupsAssumption DEF Record, TypeOK
  <2>3. raw' \subseteq Raw
    BY <1>t, <1>1 DEF Record, TypeOK
  <2>4. QED BY <1>t, <1>1, <2>1, <2>2, <2>3, TypeJob DEF Record, TypeOK, ghosts
<1>2. ASSUME NEW c \in Callers, NEW i \in Identities, NEW p \in People \cup {Nobody},
             Reattribute(c, i, p)
      PROVE  TypeOK'
  <2>1. PICK rows \in SUBSET Raw : Owe(c, rows)
    BY <1>t, <1>2 DEF Reattribute, TypeOK
  <2>2. PICK from \in Days, to \in Days :
          Owed(rows, from, to) \in Job /\ job' = [job EXCEPT ![c] = Owed(rows, from, to)]
    BY <1>t, <1>2, <2>1, OweJob DEF Reattribute
  <2>3. changes' \in 0 .. MaxChanges
    BY <1>t, <1>2, RollupsAssumption DEF Reattribute, TypeOK
  <2>4. owner' \in [Identities -> People \cup {Nobody}]
    BY <1>t, <1>2 DEF Reattribute, TypeOK
  <2>5. job' \in [Callers -> Job \cup {Idle}]
    BY <1>t, <2>2 DEF TypeOK
  <2>6. QED BY <1>t, <1>2, <2>3, <2>4, <2>5 DEF Reattribute, TypeOK, ghosts
<1>3. ASSUME NEW r \in Raw, Sync(r)
      PROVE  TypeOK'
  <2>1. changes' \in 0 .. MaxChanges
    BY <1>t, <1>3, RollupsAssumption DEF Sync, TypeOK
  <2>2. QED BY <1>t, <1>3, <2>1 DEF Sync, TypeOK
<1>4. ASSUME Prune
      PROVE  TypeOK'
  <2>1. cutoff' \in 0 .. LastCutoff
    BY <1>t, <1>4, RollupsAssumption DEF Prune, TypeOK
  <2>2. raw' \subseteq Raw /\ charted' \subseteq Raw
    BY <1>t, <1>4 DEF Prune, TypeOK
  <2>3. QED BY <1>t, <1>4, <2>1, <2>2 DEF Prune, TypeOK
<1>5. ASSUME NEW c \in Callers, Refuse(c) \/ InsertFails(c) \/ Deadlock(c)
      PROVE  TypeOK'
  <2>1. Active(c) /\ Throw(c) /\ faults' = faults
    BY <1>5 DEF Refuse, InsertFails, Deadlock, Active
  <2>2. QED BY <1>t, <2>1, TypeThrow DEF TypeOK
<1>6. ASSUME NEW c \in Callers, Fail(c)
      PROVE  TypeOK'
  <2>1. faults' \in 0 .. MaxFaults
    BY <1>t, <1>6, RollupsAssumption DEF Fail, TypeOK
  <2>2. QED BY <1>t, <1>6, <2>1, TypeThrow DEF Fail, Active
<1>7. ASSUME NEW c \in Callers, Check(c) \/ Start(c) \/ Delete(c) \/ Insert(c)
      PROVE  TypeOK'
  <2>1. \E r \in Job : job' = [job EXCEPT ![c] = r]
    BY <1>t, <1>7, StepJob
  <2>2. UNCHANGED <<raw, owner, rolled, changes, cutoff, lost, faults, synced, charted>>
    BY <1>7 DEF Check, Start, Delete, Insert, ghosts
  <2>x. crossed' \subseteq Days
    BY <1>t, <1>7 DEF Check, Start, Delete, Insert, ghosts, TypeOK
  <2>3. PICK r \in Job : job' = [job EXCEPT ![c] = r]
    BY <2>1
  <2>4. QED BY <1>t, <2>2, <2>x, <2>3, TypeJob DEF TypeOK
<1>8. ASSUME NEW c \in Callers, Commit(c)
      PROVE  TypeOK'
  <2>1. job[c] \in Job
    BY <1>t, <1>8, AtStage DEF Commit, Active
  <2>2. \A x \in rolled' : x \in RollupRow
    BY <1>t, <1>8, <2>1 DEF Commit, TypeOK, Job
  <2>3. job' = [job EXCEPT ![c] = Idle]
    BY <1>8 DEF Commit
  <2>4. QED BY <1>t, <1>8, <2>2, <2>3, TypeJob DEF Commit, TypeOK, ghosts
<1>9. ASSUME Crash
      PROVE  TypeOK'
  <2>1. \A c \in Callers : Active(c) => job[c].changed \subseteq Raw
    BY <1>t, AtStage DEF Job
  <2>2. lost' \subseteq Raw
    BY <1>t, <1>9, <2>1 DEF Crash, TypeOK, Active
  <2>3. faults' \in 0 .. MaxFaults
    BY <1>t, <1>9, RollupsAssumption DEF Crash, TypeOK
  <2>4. QED BY <1>t, <1>9, <2>2, <2>3 DEF Crash, TypeOK, ghosts
<1>10. CASE UNCHANGED vars
  BY <1>t, <1>10 DEF vars, TypeOK
<1>11. QED
  BY <1>1, <1>2, <1>3, <1>4, <1>5, <1>6, <1>7, <1>8, <1>9, <1>10 DEF Next, Change, Step

-----------------------------------------------------------------------------
(***************************************************************************)
(* What a step leaves of a job, and of the rows nobody owes.               *)
(***************************************************************************)
\* Another caller's job goes on as it was.
LEMMA ShapedKept ==
  ASSUME NEW k, Shaped(k), job'[k] = job[k] \/ job'[k] = Idle
  PROVE  Shaped(k)'
BY DEF Shaped, Active, Left, Uniform, InSpan

LEMMA WillCountKept ==
  ASSUME NEW k, NEW r, WillCount(k, r), job'[k] = job[k], Holder(r)' = Holder(r)
  PROVE  WillCount(k, r)'
<1>1. InSpan(k, DayOf[r])' <=> InSpan(k, DayOf[r])
  BY DEF InSpan
<1>2. Unread(k, TableOf[r])' <=> Unread(k, TableOf[r])
  BY DEF Unread, Left
<1>3. \A x : Counts(x, r)' <=> Counts(x, r)
  BY DEF Counts
<1>4. Left(k)' = Left(k)
  BY DEF Left
<1>5. QED BY <1>1, <1>2, <1>3, <1>4 DEF WillCount

\* Jobs fail, rows go: what no longer covers a row has put it in lost.
LEMMA DropStep ==
  ASSUME IInv, TypeOK', owner' = owner, rolled' = rolled, changes <= changes',
         \A k \in Callers :
           job'[k] = job[k] \/ (job'[k] = Idle /\ (Active(k) => job[k].changed \subseteq lost')),
         synced \subseteq synced', lost \subseteq lost',
         raw' \ synced' \subseteq raw
  PROVE  IInv'
<1>1. \A k \in Callers : Shaped(k)'
  BY ShapedKept DEF IInv
<1>2. \A k \in Callers : Active(k)' => Active(k) /\ job'[k] = job[k]
  BY DEF Active
<1>3. ASSUME NEW x, Fresh(x), x \in RollupRow
      PROVE  Fresh(x)'
  <2>1. x.id \in Nat /\ changes \in Nat /\ changes' \in Nat
    BY <1>3, RollupsAssumption DEF RollupRow, IInv, TypeOK
  <2>2. x.id <= changes'
    BY <1>3, <2>1 DEF Fresh
  <2>3. QED BY <1>2, <1>3, <2>2 DEF Fresh
<1>4. Apart'
  <2>1. \A x \in rolled' : Fresh(x)' /\ Uniform(x)'
    BY <1>3 DEF IInv, Apart, TypeOK, Uniform
  <2>2. ASSUME NEW k \in Callers, Active(k)'
        PROVE  job'[k].id <= changes' /\ \A x \in job'[k].deleted : Fresh(x)'
    <3>1. Active(k) /\ job'[k] = job[k]
      BY <1>2, <2>2
    <3>2. job[k] \in Job
      BY <3>1, AtStage DEF IInv
    <3>3. job[k].id <= changes'
      BY <3>1, <3>2, RollupsAssumption DEF IInv, Apart, Job, TypeOK
    <3>4. \A x \in job[k].deleted : x \in RollupRow /\ Fresh(x)
      BY <3>1, <3>2 DEF Job, IInv, Apart
    <3>5. QED BY <1>3, <3>1, <3>3, <3>4
  <2>3. \A k, n \in Callers : Active(k)' /\ Active(n)' /\ job'[k].id = job'[n].id => k = n
    BY <1>2 DEF IInv, Apart
  <2>4. QED BY <2>1, <2>2, <2>3 DEF Apart
<1>5. Cover'
  <2>1. SUFFICES ASSUME NEW r \in raw' \ (synced' \cup lost')
                 PROVE  Covered(r)'
    BY DEF Cover
  <2>2. Holder(r)' = Holder(r) /\ \A x : Counts(x, r)' <=> Counts(x, r)
    BY DEF Holder, Counts
  <2>3. Covered(r)
    BY <2>1 DEF IInv, Cover
  <2>4. CASE \E k \in Callers : Active(k) /\ r \in job[k].changed /\ WillCount(k, r)
    <3>1. PICK k \in Callers : Active(k) /\ r \in job[k].changed /\ WillCount(k, r)
      BY <2>4
    <3>2. job'[k] = job[k]
      BY <2>1, <3>1
    <3>3. WillCount(k, r)'
      BY <2>2, <3>1, <3>2, WillCountKept
    <3>4. QED BY <3>1, <3>2, <3>3 DEF Covered, Active
  <2>5. CASE \E x \in rolled :
               /\ Counts(x, r)
               /\ \A k \in Callers : Active(k) /\ x \in job[k].deleted => WillCount(k, r)
    <3>1. PICK x \in rolled :
               /\ Counts(x, r)
               /\ \A k \in Callers : Active(k) /\ x \in job[k].deleted => WillCount(k, r)
      BY <2>5
    <3>2. ASSUME NEW k \in Callers, Active(k)', x \in job'[k].deleted
          PROVE  WillCount(k, r)'
      BY <1>2, <2>2, <3>1, <3>2, WillCountKept
    <3>3. QED BY <2>2, <3>1, <3>2 DEF Covered
  <2>6. QED BY <2>3, <2>4, <2>5 DEF Covered
<1>6. QED BY <1>1, <1>4, <1>5 DEF IInv

\* A recompute moves on by one statement.
LEMMA Moves ==
  ASSUME IInv, TypeOK', UNCHANGED <<raw, owner, rolled, changes, synced, lost>>,
         NEW c \in Callers, Active(c), NEW r \in Job, job' = [job EXCEPT ![c] = r],
         r.id = job[c].id, r.changed = job[c].changed,
         \A x \in r.deleted : x \in job[c].deleted \/ x \in rolled,
         Shaped(c)',
         \A q \in raw : WillCount(c, q) => WillCount(c, q)',
         \A q \in raw : \A x \in r.deleted \ job[c].deleted : Counts(x, q) => WillCount(c, q)'
  PROVE  IInv'
<1>1. job'[c] = r /\ \A k \in Callers \ {c} : job'[k] = job[k]
  BY DEF IInv, TypeOK
<1>2. \A k \in Callers : Shaped(k)'
  BY <1>1, ShapedKept DEF IInv
<1>3. \A k \in Callers : Active(k)' <=> Active(k)
  BY <1>1, IdleAssumption DEF Active
<1>4. \A k \in Callers : Active(k) => job'[k].id = job[k].id
  BY <1>1
<1>5. \A x : Fresh(x) => Fresh(x)'
  BY <1>3, <1>4 DEF Fresh
<1>6. Apart'
  <2>1. \A x \in rolled' : Fresh(x)' /\ Uniform(x)'
    BY <1>5 DEF IInv, Apart, Uniform
  <2>2. \A k \in Callers : Active(k)' => job'[k].id <= changes'
    BY <1>3, <1>4 DEF IInv, Apart
  <2>3. ASSUME NEW k \in Callers, Active(k)', NEW x \in job'[k].deleted
        PROVE  Fresh(x)'
    BY <1>1, <1>3, <1>5, <2>3 DEF IInv, Apart
  <2>4. \A k, n \in Callers : Active(k)' /\ Active(n)' /\ job'[k].id = job'[n].id => k = n
    BY <1>3, <1>4 DEF IInv, Apart
  <2>5. QED BY <2>1, <2>2, <2>3, <2>4 DEF Apart
<1>7. Cover'
  <2>1. SUFFICES ASSUME NEW q \in raw \ (synced \cup lost)
                 PROVE  Covered(q)'
    BY DEF Cover
  <2>2. Holder(q)' = Holder(q) /\ \A x : Counts(x, q)' <=> Counts(x, q)
    BY DEF Holder, Counts
  <2>3. Covered(q)
    BY <2>1 DEF IInv, Cover
  <2>4. \A k \in Callers : WillCount(k, q) => WillCount(k, q)'
    BY <1>1, <2>2, WillCountKept
  <2>5. CASE \E k \in Callers : Active(k) /\ q \in job[k].changed /\ WillCount(k, q)
    <3>1. PICK k \in Callers : Active(k) /\ q \in job[k].changed /\ WillCount(k, q)
      BY <2>5
    <3>2. q \in job'[k].changed
      BY <1>1, <3>1
    <3>3. QED BY <1>3, <2>4, <3>1, <3>2 DEF Covered
  <2>6. CASE \E x \in rolled :
               /\ Counts(x, q)
               /\ \A k \in Callers : Active(k) /\ x \in job[k].deleted => WillCount(k, q)
    <3>1. PICK x \in rolled :
               /\ Counts(x, q)
               /\ \A k \in Callers : Active(k) /\ x \in job[k].deleted => WillCount(k, q)
      BY <2>6
    <3>2. ASSUME NEW k \in Callers, Active(k)', x \in job'[k].deleted
          PROVE  WillCount(k, q)'
      <4>1. CASE x \in job[k].deleted
        BY <1>3, <2>4, <3>1, <3>2, <4>1
      <4>2. CASE x \notin job[k].deleted
        BY <1>1, <3>1, <3>2, <4>2
      <4>3. QED BY <4>1, <4>2
    <3>3. QED BY <2>2, <3>1, <3>2 DEF Covered
  <2>7. QED BY <2>3, <2>5, <2>6 DEF Covered
<1>8. QED BY <1>2, <1>6, <1>7 DEF IInv

\* A change of raw rows by a caller that now owes them a recompute.
LEMMA OweStep ==
  ASSUME IInv, TypeOK', rolled' = rolled, synced' = synced, lost' = lost,
         changes' = changes + 1, changes < MaxChanges,
         NEW c \in Callers, ~Active(c), NEW rows \in SUBSET Raw, Owe(c, rows),
         \A q \in raw' \ rows : q \in raw /\ Holder(q)' = Holder(q)
  PROVE  IInv'
<1>1. PICK from \in Days, to \in Days :
        /\ Owed(rows, from, to) \in Job
        /\ \A r \in rows : from <= DayOf[r] /\ DayOf[r] <= to
        /\ job' = [job EXCEPT ![c] = Owed(rows, from, to)]
  BY OweJob DEF IInv
<1>2. job'[c] = Owed(rows, from, to) /\ \A k \in Callers \ {c} : job'[k] = job[k]
  BY <1>1 DEF IInv, TypeOK
<1>3. /\ job'[c].id = changes + 1 /\ job'[c].changed = rows
      /\ job'[c].from = from /\ job'[c].to = to
      /\ job'[c].todo = Recompute /\ job'[c].waiting = FALSE
      /\ job'[c].pending = {} /\ job'[c].deleted = {} /\ job'[c].inserted = {}
  BY <1>2 DEF Owed
<1>4. Left(c)' = 5
  BY <1>3, RecomputeSeq DEF Left
<1>5. \A q \in rows : WillCount(c, q)'
  BY <1>1, <1>3, <1>4 DEF WillCount, Unread, InSpan
<1>6. Shaped(c)'
  BY <1>1, <1>3, <1>4 DEF Shaped, InSpan
<1>7. \A k \in Callers : Shaped(k)'
  BY <1>2, <1>6, ShapedKept DEF IInv
<1>8. Active(c)' /\ \A k \in Callers \ {c} : Active(k)' <=> Active(k)
  BY <1>1, <1>2, IdleAssumption DEF Active
<1>9. ASSUME NEW x, Fresh(x), x \in RollupRow
      PROVE  Fresh(x)'
  <2>1. x.id \in Nat /\ changes \in Nat
    BY <1>9, RollupsAssumption DEF RollupRow, IInv, TypeOK
  <2>2. x.id <= changes' /\ x.id # changes + 1
    BY <1>9, <2>1 DEF Fresh
  <2>3. QED BY <1>2, <1>3, <1>8, <1>9, <2>2 DEF Fresh
<1>10. Apart'
  <2>1. \A x \in rolled' : Fresh(x)' /\ Uniform(x)'
    BY <1>9 DEF IInv, Apart, TypeOK, Uniform
  <2>2. ASSUME NEW k \in Callers, Active(k)', k # c
        PROVE  job'[k].id <= changes /\ job'[k].id \in Nat
               /\ \A x \in job'[k].deleted : Fresh(x)'
    <3>1. Active(k) /\ job'[k] = job[k]
      BY <1>2, <1>8, <2>2
    <3>2. job[k] \in Job
      BY <3>1, AtStage DEF IInv
    <3>3. job[k].id <= changes /\ job[k].id \in Nat
      BY <3>1, <3>2 DEF IInv, Apart, Job
    <3>4. \A x \in job[k].deleted : x \in RollupRow /\ Fresh(x)
      BY <3>1, <3>2 DEF Job, IInv, Apart
    <3>5. QED BY <1>9, <3>1, <3>3, <3>4
  <2>3. changes \in Nat
    BY RollupsAssumption DEF IInv, TypeOK
  <2>4. \A k \in Callers : Active(k)' =>
          job'[k].id <= changes' /\ \A x \in job'[k].deleted : Fresh(x)'
    BY <1>3, <2>2, <2>3
  <2>5. ASSUME NEW k \in Callers, NEW n \in Callers, Active(k)', Active(n)',
               job'[k].id = job'[n].id
        PROVE  k = n
    <3>1. CASE k = c \/ n = c
      BY <1>3, <2>2, <2>3, <2>5, <3>1
    <3>2. CASE k # c /\ n # c
      BY <1>2, <1>8, <2>5, <3>2 DEF IInv, Apart
    <3>3. QED BY <3>1, <3>2
  <2>6. QED BY <2>1, <2>4, <2>5 DEF Apart
<1>11. Cover'
  <2>1. SUFFICES ASSUME NEW q \in raw' \ (synced' \cup lost')
                 PROVE  Covered(q)'
    BY DEF Cover
  <2>2. CASE q \in rows
    BY <1>3, <1>5, <1>8, <2>2 DEF Covered
  <2>3. CASE q \notin rows
    <3>1. q \in raw \ (synced \cup lost) /\ Holder(q)' = Holder(q)
      BY <2>1, <2>3
    <3>2. Covered(q)
      BY <3>1 DEF IInv, Cover
    <3>3. \A x : Counts(x, q)' <=> Counts(x, q)
      BY <3>1 DEF Counts
    <3>4. \A k \in Callers \ {c} : WillCount(k, q) => WillCount(k, q)'
      BY <1>2, <3>1, WillCountKept
    <3>5. CASE \E k \in Callers : Active(k) /\ q \in job[k].changed /\ WillCount(k, q)
      <4>1. PICK k \in Callers : Active(k) /\ q \in job[k].changed /\ WillCount(k, q)
        BY <3>5
      <4>2. k # c
        BY <4>1
      <4>3. QED BY <1>2, <1>8, <3>4, <4>1, <4>2 DEF Covered
    <3>6. CASE \E x \in rolled :
                 /\ Counts(x, q)
                 /\ \A k \in Callers : Active(k) /\ x \in job[k].deleted => WillCount(k, q)
      <4>1. PICK x \in rolled :
                 /\ Counts(x, q)
                 /\ \A k \in Callers : Active(k) /\ x \in job[k].deleted => WillCount(k, q)
        BY <3>6
      <4>2. ASSUME NEW k \in Callers, Active(k)', x \in job'[k].deleted
            PROVE  WillCount(k, q)'
        <5>1. k # c
          BY <1>3, <4>2
        <5>2. Active(k) /\ x \in job[k].deleted
          BY <1>2, <1>8, <4>2, <5>1
        <5>3. QED BY <3>4, <4>1, <5>1, <5>2
      <4>3. QED BY <3>3, <4>1, <4>2 DEF Covered
    <3>7. QED BY <3>2, <3>5, <3>6 DEF Covered
  <2>4. QED BY <2>2, <2>3
<1>12. QED BY <1>7, <1>10, <1>11 DEF IInv

-----------------------------------------------------------------------------
(***************************************************************************)
(* Every statement of a recompute.                                         *)
(***************************************************************************)
LEMMA CheckStep ==
  ASSUME IInv, TypeOK', NEW c \in Callers, Check(c)
  PROVE  IInv'
<1>t. TypeOK /\ Shaped(c)
  BY DEF IInv
<1>1. Active(c) /\ Left(c) = 5
  BY <1>t, StepJob
<1>2. PICK r \in Job : r = [job[c] EXCEPT !.todo = Tail(@)] /\ job' = [job EXCEPT ![c] = r]
  BY <1>t, StepJob
<1>3. job[c] \in Job
  BY <1>t, <1>1, AtStage
<1>4. /\ r.id = job[c].id /\ r.changed = job[c].changed /\ r.from = job[c].from
      /\ r.to = job[c].to /\ r.waiting = job[c].waiting /\ r.pending = job[c].pending
      /\ r.deleted = job[c].deleted /\ r.inserted = job[c].inserted
      /\ r.todo = Tail(job[c].todo)
  BY <1>2, <1>3 DEF Job
<1>5. job'[c] = r
  BY <1>t, <1>2 DEF TypeOK
<1>6. Left(c)' = 4
  <2>1. Len(Tail(job[c].todo)) = Left(c) - 1
    <3>1. Left(c) > 0
      BY <1>1
    <3>2. QED BY <1>t, <1>1, <3>1, AtStage
  <2>2. Left(c)' = Len(Tail(job[c].todo))
    BY <1>4, <1>5 DEF Left
  <2>3. QED BY <1>1, <2>1, <2>2
<1>7. ~job[c].waiting
  <2>1. job[c].waiting => FALSE
    BY <1>t, <1>1 DEF Shaped
  <2>2. QED BY <2>1
<1>8. Shaped(c)'
  <2>1. \A q \in job'[c].changed : InSpan(c, DayOf[q])'
    BY <1>t, <1>1, <1>4, <1>5 DEF Shaped, InSpan
  <2>2. \A x \in job'[c].inserted : x.id = job'[c].id /\ Uniform(x)'
    BY <1>t, <1>1, <1>4, <1>5 DEF Shaped, Uniform
  <2>3. ~job'[c].waiting
    BY <1>4, <1>5, <1>7
  <2>4. QED BY <2>1, <2>2, <2>3 DEF Shaped
<1>9. \A q \in raw : WillCount(c, q) => WillCount(c, q)'
  BY <1>4, <1>5, <1>6 DEF WillCount, Unread, InSpan
<1>10. UNCHANGED <<raw, owner, rolled, changes, synced, lost>>
  BY DEF Check, ghosts
<1>11. QED BY <1>1, <1>2, <1>4, <1>8, <1>9, <1>10, Moves

LEMMA StartStep ==
  ASSUME IInv, TypeOK', NEW c \in Callers, Start(c)
  PROVE  IInv'
<1>t. TypeOK /\ Shaped(c)
  BY DEF IInv
<1>1. Active(c) /\ Left(c) \in 1 .. 4 /\ ~job[c].waiting
  BY <1>t, StepJob
<1>2. PICK r \in Job : r = [job[c] EXCEPT !.waiting = TRUE, !.pending = Reads(c)]
                       /\ job' = [job EXCEPT ![c] = r]
  BY <1>t, StepJob
<1>3. job[c] \in Job
  BY <1>t, <1>1, AtStage
<1>4. /\ r.id = job[c].id /\ r.changed = job[c].changed /\ r.from = job[c].from
      /\ r.to = job[c].to /\ r.waiting = TRUE /\ r.pending = Reads(c)
      /\ r.deleted = job[c].deleted /\ r.inserted = job[c].inserted
      /\ r.todo = job[c].todo
  BY <1>2, <1>3 DEF Job
<1>5. job'[c] = r
  BY <1>t, <1>2 DEF TypeOK
<1>6. Left(c)' = Left(c)
  BY <1>4, <1>5 DEF Left
<1>7. UNCHANGED <<raw, owner, rolled, changes, synced, lost>>
  BY DEF Start, ghosts
<1>8. Shaped(c)'
  <2>1. \A q \in job'[c].changed : InSpan(c, DayOf[q])'
    BY <1>t, <1>1, <1>4, <1>5 DEF Shaped, InSpan
  <2>2. \A x \in job'[c].inserted : x.id = job'[c].id /\ Uniform(x)'
    BY <1>t, <1>1, <1>4, <1>5 DEF Shaped, Uniform
  <2>3. ASSUME Left(c) > 2, NEW x \in Reads(c)
        PROVE  x.table = Head(job[c].todo)[2] /\ InSpan(c, x.day) /\ Uniform(x)
    BY <1>t, <1>1, <2>3, ReadsRows DEF IInv, Apart
  <2>4. ASSUME Left(c) <= 2, NEW x \in Reads(c)
        PROVE  x.id = job[c].id /\ Uniform(x)
    <3>1. PICK table \in Tables : Reads(c) = Groups(c, table)
      BY <1>t, <1>1, <2>4, ReadsRows DEF Tables
    <3>2. QED BY <1>t, <1>1, <2>4, <3>1, GroupRows
  <2>5. \A x : Uniform(x)' <=> Uniform(x)
    BY DEF Uniform
  <2>6. \A d : InSpan(c, d)' <=> InSpan(c, d)
    BY <1>4, <1>5 DEF InSpan
  <2>7. QED BY <1>1, <1>4, <1>5, <1>6, <2>1, <2>2, <2>3, <2>4, <2>5, <2>6 DEF Shaped
<1>9. ASSUME NEW q \in raw, WillCount(c, q)
      PROVE  WillCount(c, q)'
  <2>1. InSpan(c, DayOf[q])' /\ InSpan(c, DayOf[q])
    BY <1>4, <1>5, <1>9 DEF WillCount, InSpan
  <2>2. \A x : Counts(x, q)' <=> Counts(x, q)
    BY <1>7 DEF Counts, Holder
  <2>3. CASE \E x \in job[c].inserted : Counts(x, q)
    BY <1>4, <1>5, <2>1, <2>2, <2>3 DEF WillCount
  <2>4. CASE Unread(c, TableOf[q]) /\ Left(c) > 2
    BY <1>6, <2>1, <2>4 DEF WillCount, Unread
  <2>5. CASE Unread(c, TableOf[q]) /\ Left(c) <= 2
    <3>1. PICK table \in Tables : table = IF Left(c) = 1 THEN "outcome" ELSE "spend"
      BY DEF Tables
    <3>2. CASE TableOf[q] = table
      <4>1. Reads(c) = Groups(c, table)
        BY <1>t, <1>1, <2>5, <3>1, ReadsRows
      <4>2. \E x \in Groups(c, table) : Counts(x, q)
        BY <1>t, <1>1, <2>1, <3>2, GroupRows
      <4>3. QED BY <1>4, <1>5, <1>6, <2>1, <2>2, <2>5, <4>1, <4>2 DEF WillCount
    <3>3. CASE TableOf[q] # table
      <4>1. q \in Raw /\ TableOf[q] \in Tables
        BY <1>t, RollupsAssumption DEF TypeOK
      <4>2. PICK n \in 1 .. 2 : n = Left(c)
        BY <1>1, <2>5
      <4>3. n = 2 /\ TableOf[q] = "outcome"
        BY <2>5, <3>1, <3>3, <4>1, <4>2 DEF Unread, Tables
      <4>4. QED BY <1>6, <2>1, <4>2, <4>3 DEF WillCount, Unread
    <3>4. QED BY <3>2, <3>3
  <2>6. QED BY <1>1, <1>9, <2>3, <2>4, <2>5 DEF WillCount
<1>10. QED BY <1>1, <1>2, <1>4, <1>7, <1>8, <1>9, Moves

LEMMA DeleteStep ==
  ASSUME IInv, TypeOK', NEW c \in Callers, Delete(c)
  PROVE  IInv'
<1>t. TypeOK /\ Shaped(c)
  BY DEF IInv
<1>1. Active(c) /\ Left(c) \in 3 .. 4 /\ job[c].waiting
  BY <1>t, StepJob
<1>2. PICK r \in Job :
        r = [job[c] EXCEPT !.deleted = @ \cup (job[c].pending \cap rolled),
                           !.pending = {}, !.waiting = FALSE, !.todo = Tail(@)]
        /\ job' = [job EXCEPT ![c] = r]
  BY <1>t, StepJob
<1>3. job[c] \in Job
  BY <1>t, <1>1, AtStage
<1>4. /\ r.id = job[c].id /\ r.changed = job[c].changed /\ r.from = job[c].from
      /\ r.to = job[c].to /\ r.waiting = FALSE /\ r.pending = {}
      /\ r.deleted = job[c].deleted \cup (job[c].pending \cap rolled)
      /\ r.inserted = job[c].inserted /\ r.todo = Tail(job[c].todo)
  BY <1>2, <1>3 DEF Job
<1>5. job'[c] = r
  BY <1>t, <1>2 DEF TypeOK
<1>6. Left(c)' = Left(c) - 1
  <2>1. Len(Tail(job[c].todo)) = Left(c) - 1
    BY <1>t, <1>1, AtStage
  <2>2. Left(c)' = Len(Tail(job[c].todo))
    BY <1>4, <1>5 DEF Left
  <2>3. QED BY <1>1, <2>1, <2>2
<1>7. UNCHANGED <<raw, owner, rolled, changes, synced, lost>>
  BY DEF Delete, ghosts
<1>8. Shaped(c)'
  <2>1. \A q \in job'[c].changed : InSpan(c, DayOf[q])'
    BY <1>t, <1>1, <1>4, <1>5 DEF Shaped, InSpan
  <2>2. \A x \in job'[c].inserted : x.id = job'[c].id /\ Uniform(x)'
    BY <1>t, <1>1, <1>4, <1>5 DEF Shaped, Uniform
  <2>3. ~job'[c].waiting
    BY <1>4, <1>5
  <2>4. QED BY <2>1, <2>2, <2>3 DEF Shaped
<1>9. \A table : Unread(c, table)'
  BY <1>1, <1>4, <1>5, <1>6 DEF Unread
<1>10. \A d : InSpan(c, d)' <=> InSpan(c, d)
  BY <1>4, <1>5 DEF InSpan
<1>11. \A q \in raw : WillCount(c, q) => WillCount(c, q)'
  BY <1>9, <1>10 DEF WillCount
<1>12. ASSUME NEW q \in raw, NEW x \in r.deleted \ job[c].deleted, Counts(x, q)
       PROVE  WillCount(c, q)'
  <2>1. x \in job[c].pending
    BY <1>4, <1>12
  <2>2. InSpan(c, x.day) /\ Uniform(x)
    BY <1>t, <1>1, <2>1 DEF Shaped
  <2>3. InSpan(c, DayOf[q])
    BY <1>12, <2>2 DEF Counts, Uniform
  <2>4. QED BY <1>9, <1>10, <2>3 DEF WillCount
<1>13. \A x \in r.deleted : x \in job[c].deleted \/ x \in rolled
  BY <1>4
<1>14. QED BY <1>1, <1>2, <1>4, <1>7, <1>8, <1>11, <1>12, <1>13, Moves

LEMMA InsertStep ==
  ASSUME IInv, TypeOK', NEW c \in Callers, Insert(c)
  PROVE  IInv'
<1>t. TypeOK /\ Shaped(c)
  BY DEF IInv
<1>1. Active(c) /\ Left(c) \in 1 .. 2 /\ job[c].waiting
  BY <1>t, StepJob
<1>2. PICK r \in Job :
        r = [job[c] EXCEPT !.inserted = @ \cup job[c].pending,
                           !.pending = {}, !.waiting = FALSE, !.todo = Tail(@)]
        /\ job' = [job EXCEPT ![c] = r]
  BY <1>t, StepJob
<1>3. job[c] \in Job
  BY <1>t, <1>1, AtStage
<1>4. /\ r.id = job[c].id /\ r.changed = job[c].changed /\ r.from = job[c].from
      /\ r.to = job[c].to /\ r.waiting = FALSE /\ r.pending = {}
      /\ r.deleted = job[c].deleted
      /\ r.inserted = job[c].inserted \cup job[c].pending /\ r.todo = Tail(job[c].todo)
  BY <1>2, <1>3 DEF Job
<1>5. job'[c] = r
  BY <1>t, <1>2 DEF TypeOK
<1>6. Left(c)' = Left(c) - 1
  <2>1. Len(Tail(job[c].todo)) = Left(c) - 1
    BY <1>t, <1>1, AtStage
  <2>2. Left(c)' = Len(Tail(job[c].todo))
    BY <1>4, <1>5 DEF Left
  <2>3. QED BY <1>1, <2>1, <2>2
<1>7. UNCHANGED <<raw, owner, rolled, changes, synced, lost>>
  BY DEF Insert, ghosts
<1>8. Shaped(c)'
  <2>1. \A q \in job'[c].changed : InSpan(c, DayOf[q])'
    BY <1>t, <1>1, <1>4, <1>5 DEF Shaped, InSpan
  <2>2. \A x \in job'[c].inserted : x.id = job'[c].id /\ Uniform(x)'
    BY <1>t, <1>1, <1>4, <1>5 DEF Shaped, Uniform
  <2>3. ~job'[c].waiting
    BY <1>4, <1>5
  <2>4. QED BY <2>1, <2>2, <2>3 DEF Shaped
<1>9. ASSUME NEW q \in raw, WillCount(c, q)
      PROVE  WillCount(c, q)'
  <2>1. InSpan(c, DayOf[q])'
    BY <1>4, <1>5, <1>9 DEF WillCount, InSpan
  <2>2. \A x : Counts(x, q)' <=> Counts(x, q)
    BY <1>7 DEF Counts, Holder
  <2>3. CASE \E x \in job[c].inserted \cup job[c].pending : Counts(x, q)
    BY <1>4, <1>5, <2>1, <2>2, <2>3 DEF WillCount
  <2>4. CASE Unread(c, TableOf[q])
    <3>1. PICK n \in 1 .. 2 : n = Left(c)
      BY <1>1
    <3>2. n = 2 /\ TableOf[q] = "outcome"
      BY <1>1, <2>4, <3>1 DEF Unread
    <3>3. Left(c)' = 1 /\ ~job'[c].waiting
      BY <1>4, <1>5, <1>6, <3>1, <3>2
    <3>4. QED BY <2>1, <3>2, <3>3 DEF WillCount, Unread
  <2>5. QED BY <1>9, <2>3, <2>4 DEF WillCount
<1>10. \A x \in r.deleted : x \in job[c].deleted
  BY <1>4
<1>11. QED BY <1>1, <1>2, <1>4, <1>7, <1>8, <1>9, <1>10, Moves

LEMMA CommitStep ==
  ASSUME IInv, TypeOK', NEW c \in Callers, Commit(c)
  PROVE  IInv'
<1>t. TypeOK /\ Shaped(c)
  BY DEF IInv
<1>1. Active(c) /\ Left(c) = 0
  BY <1>t, AtStage DEF Commit, Active
<1>2. ~job[c].waiting
  <2>1. job[c].waiting => FALSE
    BY <1>t, <1>1 DEF Shaped
  <2>2. QED BY <2>1
<1>3. job'[c] = Idle /\ \A k \in Callers \ {c} : job'[k] = job[k]
  BY <1>t DEF Commit, TypeOK
<1>4. rolled' = (rolled \ job[c].deleted) \cup job[c].inserted
  BY DEF Commit
<1>5. UNCHANGED <<raw, owner, changes, synced, lost>>
  BY DEF Commit, ghosts
<1>6. ~Active(c)' /\ \A k \in Callers \ {c} : Active(k)' <=> Active(k)
  BY <1>3 DEF Active
<1>7. \A k \in Callers : Shaped(k)'
  BY <1>3, ShapedKept DEF IInv
<1>8. \A x \in job[c].inserted : x.id = job[c].id /\ Uniform(x)
  BY <1>t, <1>1 DEF Shaped
<1>9. \A x : Fresh(x) => Fresh(x)'
  BY <1>3, <1>5, <1>6 DEF Fresh
<1>10. ASSUME NEW x \in job[c].inserted
       PROVE  Fresh(x)'
  <2>1. x.id = job[c].id /\ job[c].id <= changes
    BY <1>1, <1>8 DEF IInv, Apart
  <2>2. \A k \in Callers : Active(k)' => x.id # job'[k].id
    BY <1>1, <1>3, <1>6, <2>1 DEF IInv, Apart
  <2>3. QED BY <1>5, <2>1, <2>2 DEF Fresh
<1>11. Apart'
  <2>1. \A x \in rolled' : Fresh(x)' /\ Uniform(x)'
    BY <1>4, <1>8, <1>9, <1>10 DEF IInv, Apart, Uniform
  <2>2. \A k \in Callers : Active(k)' => job'[k].id <= changes'
    BY <1>3, <1>5, <1>6 DEF IInv, Apart
  <2>3. \A k \in Callers : Active(k)' => \A x \in job'[k].deleted : Fresh(x)'
    BY <1>3, <1>6, <1>9 DEF IInv, Apart
  <2>4. \A k, n \in Callers : Active(k)' /\ Active(n)' /\ job'[k].id = job'[n].id => k = n
    BY <1>3, <1>6 DEF IInv, Apart
  <2>5. QED BY <2>1, <2>2, <2>3, <2>4 DEF Apart
<1>12. Cover'
  <2>1. SUFFICES ASSUME NEW q \in raw \ (synced \cup lost)
                 PROVE  Covered(q)'
    BY <1>5 DEF Cover
  <2>2. Holder(q)' = Holder(q) /\ \A x : Counts(x, q)' <=> Counts(x, q)
    BY <1>5 DEF Holder, Counts
  <2>3. Covered(q)
    BY <2>1 DEF IInv, Cover
  <2>4. \A k \in Callers \ {c} : WillCount(k, q) => WillCount(k, q)'
    BY <1>3, <2>2, WillCountKept
  <2>5. ASSUME WillCount(c, q)
        PROVE  Covered(q)'
    \* this recompute's own row: no other recompute has it to delete
    <3>1. PICK y \in job[c].inserted : Counts(y, q)
      BY <1>1, <1>2, <2>5 DEF WillCount, Unread
    <3>2. ASSUME NEW k \in Callers, Active(k)', y \in job'[k].deleted
          PROVE  FALSE
      <4>1. k # c /\ Active(k) /\ y \in job[k].deleted
        BY <1>3, <1>6, <3>2
      <4>2. Fresh(y)
        BY <4>1 DEF IInv, Apart
      <4>3. QED BY <1>1, <1>8, <3>1, <4>2 DEF Fresh
    <3>3. QED BY <1>4, <2>2, <3>1, <3>2 DEF Covered
  <2>6. CASE \E k \in Callers : Active(k) /\ q \in job[k].changed /\ WillCount(k, q)
    <3>1. PICK k \in Callers : Active(k) /\ q \in job[k].changed /\ WillCount(k, q)
      BY <2>6
    <3>2. CASE k = c
      BY <2>5, <3>1, <3>2
    <3>3. CASE k # c
      BY <1>3, <1>6, <2>4, <3>1, <3>3 DEF Covered
    <3>4. QED BY <3>2, <3>3
  <2>7. CASE \E x \in rolled :
               /\ Counts(x, q)
               /\ \A k \in Callers : Active(k) /\ x \in job[k].deleted => WillCount(k, q)
    <3>1. PICK x \in rolled :
               /\ Counts(x, q)
               /\ \A k \in Callers : Active(k) /\ x \in job[k].deleted => WillCount(k, q)
      BY <2>7
    <3>2. CASE x \in job[c].deleted
      BY <1>1, <2>5, <3>1, <3>2
    <3>3. CASE x \notin job[c].deleted
      <4>1. ASSUME NEW k \in Callers, Active(k)', x \in job'[k].deleted
            PROVE  WillCount(k, q)'
        <5>1. k # c /\ Active(k) /\ x \in job[k].deleted
          BY <1>3, <1>6, <4>1
        <5>2. QED BY <2>4, <3>1, <5>1
      <4>2. QED BY <1>4, <2>2, <3>1, <3>3, <4>1 DEF Covered
    <3>4. QED BY <3>2, <3>3
  <2>8. QED BY <2>3, <2>6, <2>7 DEF Covered
<1>13. QED BY <1>7, <1>11, <1>12 DEF IInv

-----------------------------------------------------------------------------
(***************************************************************************)
(* The theorem.                                                            *)
(***************************************************************************)
LEMMA ThrowStep ==
  ASSUME IInv, TypeOK', NEW c \in Callers, Throw(c)
  PROVE  IInv'
<1>1. job' = [job EXCEPT ![c] = Idle] /\ lost' = lost \cup job[c].changed
      /\ UNCHANGED <<raw, owner, rolled, changes, synced>>
  BY DEF Throw, ghosts
<1>2. job'[c] = Idle /\ \A k \in Callers \ {c} : job'[k] = job[k]
  BY <1>1 DEF IInv, TypeOK
<1>3. changes <= changes'
  BY <1>1, RollupsAssumption DEF IInv, TypeOK
<1>4. QED BY <1>1, <1>2, <1>3, DropStep

LEMMA InitIInv == Init => IInv
<1> SUFFICES ASSUME Init PROVE IInv
  OBVIOUS
<1>1. \A k \in Callers : ~Active(k)
  BY DEF Init, Active
<1>2. TypeOK
  BY RollupsAssumption DEF Init, TypeOK
<1>3. QED BY <1>1, <1>2 DEF Init, IInv, Shaped, Apart, Cover

LEMMA StepIInv == IInv /\ [Next]_vars => IInv'
<1> SUFFICES ASSUME IInv, [Next]_vars PROVE IInv'
  OBVIOUS
<1>t. TypeOK /\ TypeOK'
  BY TypeStep DEF IInv
<1>n. changes \in Nat
  BY <1>t, RollupsAssumption DEF TypeOK
<1>1. ASSUME NEW c \in Callers, NEW r \in Raw, Record(c, r)
      PROVE  IInv'
  <2>1. \A q \in raw' \ {r} : q \in raw /\ Holder(q)' = Holder(q)
    BY <1>1 DEF Record, Holder
  <2>2. {r} \in SUBSET Raw
    OBVIOUS
  <2>3. QED BY <1>t, <1>1, <2>1, <2>2, OweStep DEF Record, Active, ghosts
<1>2. ASSUME NEW c \in Callers, NEW i \in Identities, NEW p \in People \cup {Nobody},
             Reattribute(c, i, p)
      PROVE  IInv'
  <2>1. PICK rows \in SUBSET Raw : rows = {r \in raw : IdentityOf[r] = i}
    BY <1>t DEF TypeOK
  <2>2. Owe(c, rows)
    BY <1>2, <2>1 DEF Reattribute
  <2>3. \A q \in raw' \ rows : q \in raw /\ Holder(q)' = Holder(q)
    BY <1>t, <1>2, <2>1 DEF Reattribute, Holder, TypeOK, Identities
  <2>4. QED BY <1>t, <1>2, <2>2, <2>3, OweStep DEF Reattribute, Active, ghosts
<1>3. ASSUME NEW r \in Raw, Sync(r)
      PROVE  IInv'
  BY <1>t, <1>n, <1>3, DropStep DEF Sync
<1>4. ASSUME Prune
      PROVE  IInv'
  <2>1. raw' \subseteq raw /\ changes <= changes'
    BY <1>n, <1>4 DEF Prune
  <2>2. QED BY <1>t, <1>4, <2>1, DropStep DEF Prune
<1>5. ASSUME Crash
      PROVE  IInv'
  <2>1. \A k \in Callers :
          job'[k] = Idle /\ (Active(k) => job[k].changed \subseteq lost')
    BY <1>5 DEF Crash, Active
  <2>2. changes <= changes'
    BY <1>n, <1>5 DEF Crash
  <2>3. QED BY <1>t, <1>5, <2>1, <2>2, DropStep DEF Crash, ghosts
<1>6. ASSUME NEW c \in Callers, Refuse(c) \/ InsertFails(c) \/ Deadlock(c) \/ Fail(c)
      PROVE  IInv'
  BY <1>t, <1>6, ThrowStep DEF Refuse, InsertFails, Deadlock, Fail
<1>7. ASSUME NEW c \in Callers, Check(c) \/ Start(c) \/ Delete(c) \/ Insert(c) \/ Commit(c)
      PROVE  IInv'
  BY <1>t, <1>7, CheckStep, StartStep, DeleteStep, InsertStep, CommitStep
<1>8. CASE UNCHANGED vars
  <2>1. changes <= changes'
    BY <1>n, <1>8 DEF vars
  <2>2. QED BY <1>t, <1>8, <2>1, DropStep DEF vars
<1>9. QED
  BY <1>1, <1>2, <1>3, <1>4, <1>5, <1>6, <1>7, <1>8 DEF Next, Change, Step

\* The inductive invariant holds in every reachable state.
THEOREM Invariance == Spec => []IInv
BY InitIInv, StepIInv, PTL DEF Spec

\* However recomputes overlap, wait for each other, deadlock, fail or die, a
\* stored row the rollups do not count for its person is one whose own
\* recompute is still to come or has failed, or one a connector sync wrote.
THEOREM NothingUndercounted == Spec => []UndercountIsOwed
<1>1. IInv => UndercountIsOwed
  BY DEF IInv, Cover, Covered, UndercountIsOwed, Counted, Active
<1>2. QED BY <1>1, Invariance, PTL

-----------------------------------------------------------------------------
(***************************************************************************)
(* Days that no two recomputes rebuild at once: the rebuilding one has the *)
(* rollup rows of its span to itself, so it leaves no double, and what the *)
(* rollups say of a day nobody owes is what the raw rows say.              *)
(***************************************************************************)
Once(R) == \A x, y \in R : x.rows \cap y.rows # {} => x = y

\* the rows of this day and table that belong to this person
GroupOf(table, day, person) ==
  {q \in raw : TableOf[q] = table /\ DayOf[q] = day /\ Holder(q) = person}

Exact(R, table, day) ==
  /\ \A x \in R : x.table = table /\ x.day = day =>
       x.rows # {} /\ x.rows = GroupOf(table, day, x.person)
  /\ \A r \in raw : TableOf[r] = table /\ DayOf[r] = day =>
       \E x \in R : x.table = table /\ x.day = day /\ x.person = Holder(r)

Dirty(day) == \E r \in raw : DayOf[r] = day /\ r \in synced \cup lost
TouchedBy(c, day) == Active(c) /\ \E r \in raw \cap job[c].changed : DayOf[r] = day

\* Nothing but the recomputes still owed keeps the day from being exact:
\* no recompute at all, or the one of caller c alone.
Calm(day) == day \notin crossed /\ cutoff <= day /\ ~Dirty(day)
Quiet(day) == Calm(day) /\ \A k \in Callers : ~TouchedBy(k, day)
Open(c, day) == Calm(day) /\ \A k \in Callers \ {c} : ~TouchedBy(k, day)

Deleted(c, table) == Left(c) <= (IF table = "spend" THEN 3 ELSE 2)
Inserted(c, table) == Left(c) <= (IF table = "spend" THEN 1 ELSE 0)
Inserting(c) == job[c].waiting /\ Left(c) <= 2
InsertsInto(c) == IF Left(c) = 2 THEN "spend" ELSE "outcome"

\* x is a row of c's span that no other recompute has to do with
Own(c, x) == InSpan(c, x.day) /\ x.day \notin crossed

\* Of the rows there were, the span has no other left once they are deleted.
Cleared(c) ==
  /\ \A x \in job[c].deleted : InSpan(c, x.day)
  /\ \A x \in rolled : Own(c, x) /\ Deleted(c, x.table) => x \in job[c].deleted
  /\ job[c].waiting /\ Left(c) > 2 =>
       \A x \in rolled : x.table = Head(job[c].todo)[2] /\ Own(c, x) => x \in job[c].pending

\* The rows inserted are those of the span's groups.
Filled(c) ==
  /\ \A x \in job[c].inserted : InSpan(c, x.day) /\ Inserted(c, x.table)
  /\ Once(job[c].inserted)
  /\ \A day \in Days, table \in Tables :
       Open(c, day) /\ InSpan(c, day) /\ Inserted(c, table) => Exact(job[c].inserted, table, day)
  /\ Inserting(c) =>
       /\ Once(job[c].pending)
       /\ \A x \in job[c].pending : x.table = InsertsInto(c) /\ InSpan(c, x.day)
       /\ \A day \in Days :
            Open(c, day) /\ InSpan(c, day) => Exact(job[c].pending, InsertsInto(c), day)

\* what `crossed` records
Parted ==
  \A c, k \in Callers : c # k /\ Begun(c) /\ Begun(k) =>
    \A day \in Days : InSpan(c, day) /\ InSpan(k, day) => day \in crossed

Exactly == \A day \in Days, table \in Tables : Quiet(day) => Exact(rolled, table, day)

CalmInv ==
  /\ IInv /\ Parted /\ CountedOnceApart /\ Exactly
  /\ \A c \in Callers : Active(c) => Cleared(c) /\ Filled(c)

\* The raw rows of a day, their table and person as they were.
DayKept(day) ==
  /\ \A q : q \in raw' /\ DayOf[q] = day <=> q \in raw /\ DayOf[q] = day
  /\ \A q \in raw : DayOf[q] = day => Holder(q)' = Holder(q)

LEMMA ExactKept ==
  ASSUME NEW R, NEW table, NEW day, DayKept(day), Exact(R, table, day)
  PROVE  Exact(R, table, day)'
<1>1. \A person : GroupOf(table, day, person)' = GroupOf(table, day, person)
  BY DEF DayKept, GroupOf
<1>2. \A r \in raw' : DayOf[r] = day => r \in raw /\ Holder(r)' = Holder(r)
  BY DEF DayKept
<1>3. QED BY <1>1, <1>2 DEF Exact

\* Exact is about the rollup rows of one table and day.
LEMMA ExactSame ==
  ASSUME NEW R, NEW Q, NEW table, NEW day, Exact(R, table, day),
         \A x : x.table = table /\ x.day = day => (x \in R <=> x \in Q)
  PROVE  Exact(Q, table, day)
BY DEF Exact

LEMMA GroupsExact ==
  ASSUME TypeOK, NEW k \in Callers, Active(k), NEW table \in Tables
  PROVE  /\ Once(Groups(k, table))
         /\ \A day \in Days : InSpan(k, day) => Exact(Groups(k, table), table, day)
<1> DEFINE rows == {r \in raw : TableOf[r] = table /\ InSpan(k, DayOf[r])}
           Group(g) == [id |-> job[k].id, table |-> table, day |-> g[1], person |-> g[2],
                        rows |-> {r \in rows : <<DayOf[r], Holder(r)>> = g}]
           Of(q) == Group(<<DayOf[q], Holder(q)>>)
<1>1. Groups(k, table) = {Of(q) : q \in rows}
  BY DEF Groups
<1>2. \A q \in rows :
        /\ Of(q).table = table /\ Of(q).day = DayOf[q] /\ Of(q).person = Holder(q)
        /\ Of(q).rows = {r \in rows : DayOf[r] = DayOf[q] /\ Holder(r) = Holder(q)}
  OBVIOUS
<1>3. \A p, q \in rows : DayOf[p] = DayOf[q] /\ Holder(p) = Holder(q) => Of(p) = Of(q)
  OBVIOUS
<1> HIDE DEF Of
<1>4. Once(Groups(k, table))
  <2>1. SUFFICES ASSUME NEW x \in Groups(k, table), NEW y \in Groups(k, table),
                        x.rows \cap y.rows # {}
                 PROVE  x = y
    BY DEF Once
  <2>2. PICK p \in rows, q \in rows : x = Of(p) /\ y = Of(q)
    BY <1>1
  <2>3. PICK r : r \in x.rows /\ r \in y.rows
    BY <2>1
  <2>4. DayOf[p] = DayOf[q] /\ Holder(p) = Holder(q)
    BY <1>2, <2>2, <2>3
  <2>5. QED BY <1>3, <2>2, <2>4
<1>5. ASSUME NEW day \in Days, InSpan(k, day)
      PROVE  Exact(Groups(k, table), table, day)
  <2>1. ASSUME NEW x \in Groups(k, table), x.day = day
        PROVE  x.rows # {} /\ x.rows = GroupOf(table, day, x.person)
    <3>1. PICK q \in rows : x = Of(q)
      BY <1>1
    <3>2. q \in x.rows
      BY <1>2, <3>1
    <3>3. x.rows = {r \in rows : DayOf[r] = day /\ Holder(r) = x.person}
      BY <1>2, <2>1, <3>1
    <3>4. QED BY <1>5, <3>2, <3>3 DEF GroupOf
  <2>2. ASSUME NEW r \in raw, TableOf[r] = table, DayOf[r] = day
        PROVE  \E x \in Groups(k, table) : x.table = table /\ x.day = day /\ x.person = Holder(r)
    BY <1>1, <1>2, <1>5, <2>2
  <2>3. QED BY <2>1, <2>2 DEF Exact
<1>6. QED BY <1>4, <1>5

\* A recompute past its check has begun.
LEMMA BegunLeft ==
  ASSUME TypeOK, NEW c \in Callers, Active(c)
  PROVE  Begun(c) <=> Left(c) <= 4
<1>1. Left(c) \in 0 .. 5
  BY AtStage
<1>2. Len(Recompute) = 5
  BY RecomputeSeq
<1>3. Begun(c) <=> Left(c) < 5
  BY <1>2 DEF Begun, Active, Left
<1>4. QED BY <1>1, <1>3

-----------------------------------------------------------------------------
(***************************************************************************)
(* What a step keeps.                                                      *)
(***************************************************************************)
\* A day c rebuilds that is open to it after the step was so before, with the
\* same rows.
OpenKept(c) ==
  \A day \in Days : Open(c, day)' /\ Begun(c) /\ InSpan(c, day) => Open(c, day) /\ DayKept(day)
QuietKept == \A day \in Days : Quiet(day)' => Quiet(day) /\ DayKept(day)

LEMMA ExactlyKept ==
  ASSUME Exactly, rolled' = rolled, QuietKept
  PROVE  Exactly'
<1>1. SUFFICES ASSUME NEW day \in Days, NEW table \in Tables, Quiet(day)'
               PROVE  Exact(rolled, table, day)'
  BY DEF Exactly
<1>2. Quiet(day) /\ DayKept(day)
  BY <1>1 DEF QuietKept
<1>3. Exact(rolled, table, day)
  BY <1>2 DEF Exactly
<1>4. QED BY <1>2, <1>3, ExactKept

LEMMA ClearedKept ==
  ASSUME NEW c \in Callers, Cleared(c), job'[c] = job[c], rolled' = rolled,
         crossed \subseteq crossed'
  PROVE  Cleared(c)'
BY DEF Cleared, Own, InSpan, Deleted, Left

LEMMA FilledKept ==
  ASSUME TypeOK, NEW c \in Callers, Active(c), Filled(c), job'[c] = job[c], OpenKept(c)
  PROVE  Filled(c)'
<1>1. \A table : Inserted(c, table)' <=> Inserted(c, table)
  BY DEF Inserted, Left
<1>2. (Inserting(c)' <=> Inserting(c)) /\ InsertsInto(c)' = InsertsInto(c)
  BY DEF Inserting, InsertsInto, Left
<1>3. \A day : InSpan(c, day)' <=> InSpan(c, day)
  BY DEF InSpan
<1>4. \A R : Once(R)' <=> Once(R)
  BY DEF Once
<1>b. (\E table : Inserted(c, table)) \/ Inserting(c) => Begun(c)
  <2>1. Left(c) \in 0 .. 5
    BY AtStage
  <2>2. (\E table : Inserted(c, table)) \/ Inserting(c) => Left(c) <= 4
    BY <2>1 DEF Inserted, Inserting
  <2>3. QED BY <2>2, BegunLeft
<1>5. ASSUME NEW day \in Days, NEW R, NEW table, Open(c, day)', Begun(c), InSpan(c, day),
             Open(c, day) => Exact(R, table, day)
      PROVE  Exact(R, table, day)'
  BY <1>5, ExactKept DEF OpenKept
<1>6. ASSUME NEW day \in Days, NEW table \in Tables,
             Open(c, day)', InSpan(c, day)', Inserted(c, table)'
      PROVE  Exact(job[c].inserted, table, day)'
  <2>1. PICK R : R = job[c].inserted
    OBVIOUS
  <2>2. Open(c, day) => Exact(R, table, day)
    BY <1>1, <1>3, <1>6, <2>1 DEF Filled
  <2>3. Exact(R, table, day)'
    BY <1>1, <1>3, <1>b, <1>5, <1>6, <2>2
  <2>4. job'[c].inserted = R
    BY <2>1
  <2>5. QED BY <2>3, <2>4 DEF Exact
<1>7. ASSUME NEW day \in Days, Open(c, day)', InSpan(c, day)', Inserting(c)'
      PROVE  Exact(job[c].pending, InsertsInto(c), day)'
  <2>1. PICK R, table : R = job[c].pending /\ table = InsertsInto(c)
    OBVIOUS
  <2>2. Open(c, day) => Exact(R, table, day)
    BY <1>2, <1>3, <1>7, <2>1 DEF Filled
  <2>3. Exact(R, table, day)'
    BY <1>2, <1>3, <1>b, <1>5, <1>7, <2>2
  <2>4. job'[c].pending = R /\ InsertsInto(c)' = table
    BY <1>2, <2>1
  <2>5. QED BY <2>3, <2>4 DEF Exact
<1>8. /\ \A x \in job'[c].inserted : InSpan(c, x.day)' /\ Inserted(c, x.table)'
      /\ Once(job[c].inserted)'
  BY <1>1, <1>3, <1>4 DEF Filled
<1>9. Inserting(c)' =>
        /\ Once(job[c].pending)'
        /\ \A x \in job'[c].pending : x.table = InsertsInto(c)' /\ InSpan(c, x.day)'
  BY <1>2, <1>3, <1>4 DEF Filled
<1>10. QED BY <1>6, <1>7, <1>8, <1>9 DEF Filled

\* Nobody begins: what has begun stays parted.
LEMMA PartedKept ==
  ASSUME Parted, crossed \subseteq crossed',
         \A c \in Callers : Begun(c)' => Begun(c) /\ job'[c].from = job[c].from
                                                 /\ job'[c].to = job[c].to
  PROVE  Parted'
BY DEF Parted, InSpan
\* The rollup rows stand: what is left to show of a step is in its premises.
LEMMA CalmKept ==
  ASSUME CalmInv, IInv', Parted', rolled' = rolled, crossed \subseteq crossed', QuietKept,
         \A k \in Callers : Active(k)' => Cleared(k)' /\ Filled(k)'
  PROVE  CalmInv'
<1>1. Exactly'
  BY ExactlyKept DEF CalmInv
<1>2. CountedOnceApart'
  BY DEF CalmInv, CountedOnceApart
<1>3. QED BY <1>1, <1>2 DEF CalmInv

\* A recompute the step leaves alone keeps what it has done so far.
LEMMA OthersKept ==
  ASSUME CalmInv, NEW k \in Callers, Active(k), job'[k] = job[k], rolled' = rolled,
         crossed \subseteq crossed', OpenKept(k)
  PROVE  Cleared(k)' /\ Filled(k)'
<1>1. TypeOK /\ Cleared(k) /\ Filled(k)
  BY DEF CalmInv, IInv
<1>2. QED BY <1>1, ClearedKept, FilledKept

-----------------------------------------------------------------------------
(***************************************************************************)
(* What changes the raw rows.                                              *)
(***************************************************************************)
LEMMA CalmOwes ==
  ASSUME CalmInv, IInv', UNCHANGED <<cutoff, rolled, synced, lost, crossed>>,
         NEW c \in Callers, ~Active(c), NEW rows \in SUBSET Raw,
         changes < MaxChanges, Owe(c, rows),
         rows \subseteq raw', raw \subseteq raw',
         \A day : (\A r \in rows : DayOf[r] # day) => DayKept(day)
  PROVE  CalmInv'
<1>t. TypeOK /\ TypeOK'
  BY DEF CalmInv, IInv
<1>1. PICK from \in Days, to \in Days :
        Owed(rows, from, to) \in Job /\ job' = [job EXCEPT ![c] = Owed(rows, from, to)]
  BY <1>t, OweJob
<1>2. job'[c] = Owed(rows, from, to) /\ \A k \in Callers \ {c} : job'[k] = job[k]
  BY <1>t, <1>1 DEF TypeOK
<1>3. /\ job'[c].changed = rows /\ job'[c].todo = Recompute /\ job'[c].waiting = FALSE
      /\ job'[c].pending = {} /\ job'[c].deleted = {} /\ job'[c].inserted = {}
  BY <1>2 DEF Owed
<1>4. Left(c)' = 5 /\ Active(c)'
  BY <1>1, <1>2, <1>3, RecomputeSeq, IdleAssumption DEF Left, Active
<1>5. Cleared(c)' /\ Filled(c)'
  BY <1>3, <1>4 DEF Cleared, Filled, Deleted, Inserted, Inserting, Once
<1>6. \A day : Calm(day)' => Calm(day)
  BY DEF Calm, Dirty
<1>7. \A k \in Callers \ {c} : \A day : TouchedBy(k, day) => TouchedBy(k, day)'
  BY <1>2 DEF TouchedBy, Active
<1>8. \A day : ~TouchedBy(c, day)' => DayKept(day)
  BY <1>3, <1>4 DEF TouchedBy
<1>9. \A day : ~TouchedBy(c, day)
  BY DEF TouchedBy
<1>10. QuietKept
  BY <1>6, <1>7, <1>8, <1>9 DEF QuietKept, Quiet
<1>11. ASSUME NEW k \in Callers \ {c}, Active(k)'
       PROVE  Cleared(k)' /\ Filled(k)'
  <2>1. job'[k] = job[k] /\ Active(k)
    BY <1>2, <1>11 DEF Active
  <2>2. OpenKept(k)
    BY <1>6, <1>7, <1>8, <1>9 DEF OpenKept, Open
  <2>3. QED BY <2>1, <2>2, OthersKept
<1>12. Parted'
  <2>1. ~Begun(c)'
    BY <1>t, <1>4, RecomputeSeq DEF Begun, Left
  <2>2. \A k \in Callers : Begun(k)' => Begun(k) /\ job'[k].from = job[k].from
                                                 /\ job'[k].to = job[k].to
    BY <1>2, <2>1 DEF Begun
  <2>3. QED BY <2>2, PartedKept DEF CalmInv
<1>13. QED BY <1>5, <1>10, <1>11, <1>12, CalmKept

LEMMA CalmSync ==
  ASSUME CalmInv, IInv', NEW r \in Raw, Sync(r)
  PROVE  CalmInv'
<1>1. \A day : Calm(day)' => DayKept(day) /\ Calm(day)
  BY DEF Sync, Calm, Dirty, DayKept, Holder
<1>2. \A k, day : TouchedBy(k, day) => TouchedBy(k, day)'
  BY DEF Sync, TouchedBy, Active
<1>3. QuietKept /\ \A k \in Callers : OpenKept(k)
  BY <1>1, <1>2 DEF QuietKept, Quiet, OpenKept, Open
<1>4. job' = job /\ rolled' = rolled /\ crossed' = crossed
  BY DEF Sync
<1>5. \A k \in Callers : Active(k)' => Cleared(k)' /\ Filled(k)'
  BY <1>3, <1>4, OthersKept DEF Active
<1>6. Parted'
  BY <1>4, PartedKept DEF Begun, CalmInv
<1>7. QED BY <1>3, <1>4, <1>5, <1>6, CalmKept

\* The days retention has not reached keep their rows.
LEMMA CalmPrune ==
  ASSUME CalmInv, IInv', Prune
  PROVE  CalmInv'
<1>t. TypeOK /\ cutoff \in Nat /\ cutoff' \in Nat /\ cutoff < cutoff'
  BY RollupsAssumption DEF CalmInv, IInv, TypeOK, Prune
<1>n. \A day \in Days : day \in Nat
  BY RollupsAssumption DEF Days
<1>1. PICK old : old = {r \in raw : TableOf[r] = "spend" /\ DayOf[r] < cutoff'}
  OBVIOUS
<1>2. raw' = raw \ old /\ UNCHANGED <<owner, rolled, job, synced, lost, crossed>>
  BY <1>1 DEF Prune
<1>3. ASSUME NEW day \in Days, Calm(day)'
      PROVE  DayKept(day) /\ Calm(day) /\ \A k : TouchedBy(k, day) => TouchedBy(k, day)'
  <2>1. cutoff' <= day /\ cutoff <= day
    BY <1>t, <1>n, <1>3 DEF Calm
  <2>2. \A q \in old : DayOf[q] # day
    BY <1>t, <1>n, <1>1, <2>1
  <2>3. \A q : q \in raw' /\ DayOf[q] = day <=> q \in raw /\ DayOf[q] = day
    BY <1>2, <2>2
  <2>4. DayKept(day)
    BY <1>2, <2>3 DEF DayKept, Holder
  <2>5. Calm(day)
    BY <1>2, <1>3, <2>1, <2>3 DEF Calm, Dirty
  <2>6. \A k : TouchedBy(k, day) => TouchedBy(k, day)'
    BY <1>2, <2>3 DEF TouchedBy, Active
  <2>7. QED BY <2>4, <2>5, <2>6
<1>4. QuietKept /\ \A k \in Callers : OpenKept(k)
  BY <1>3 DEF QuietKept, Quiet, OpenKept, Open
<1>5. \A k \in Callers : Active(k)' => Cleared(k)' /\ Filled(k)'
  BY <1>2, <1>4, OthersKept DEF Active
<1>6. Parted'
  BY <1>2, PartedKept DEF Begun, CalmInv
<1>7. QED BY <1>2, <1>4, <1>5, <1>6, CalmKept

\* Recomputes are gone, or none is: the rows of those gone are in lost.
LEMMA CalmDrops ==
  ASSUME CalmInv, IInv', UNCHANGED <<raw, owner, rolled, cutoff, synced, crossed>>,
         lost \subseteq lost',
         \A k \in Callers :
           \/ job'[k] = job[k]
           \/ ~Active(k)' /\ (Active(k) => job[k].changed \subseteq lost')
  PROVE  CalmInv'
<1>1. \A day : DayKept(day) /\ (Calm(day)' => Calm(day))
  BY DEF DayKept, Holder, Calm, Dirty
<1>2. \A k \in Callers : \A day : Calm(day)' /\ TouchedBy(k, day) => TouchedBy(k, day)'
  BY DEF TouchedBy, Active, Calm, Dirty
<1>3. QuietKept /\ \A k \in Callers : OpenKept(k)
  BY <1>1, <1>2 DEF QuietKept, Quiet, OpenKept, Open
<1>4. ASSUME NEW k \in Callers, Active(k)'
      PROVE  Cleared(k)' /\ Filled(k)'
  <2>1. job'[k] = job[k] /\ Active(k)
    BY <1>4 DEF Active
  <2>2. QED BY <1>3, <2>1, OthersKept
<1>5. \A k \in Callers : Begun(k)' => Begun(k) /\ job'[k].from = job[k].from
                                               /\ job'[k].to = job[k].to
  BY DEF Begun, Active
<1>6. Parted'
  BY <1>5, PartedKept DEF CalmInv
<1>7. QED BY <1>3, <1>4, <1>6, CalmKept

-----------------------------------------------------------------------------
(***************************************************************************)
(* A recompute, one statement on.                                          *)
(***************************************************************************)
\* What is exact stays so when the raw rows do not change.
LEMMA RawKept ==
  ASSUME UNCHANGED <<raw, owner>>
  PROVE  \A R, table, day : Exact(R, table, day) => Exact(R, table, day)'
<1>1. \A day : DayKept(day)
  BY DEF DayKept, Holder
<1>2. QED BY <1>1, ExactKept

LEMMA DaysKept ==
  ASSUME TypeOK, UNCHANGED <<raw, owner, cutoff, synced, lost>>, crossed \subseteq crossed',
         NEW c \in Callers, Active(c), NEW r \in Job, job' = [job EXCEPT ![c] = r],
         r.changed = job[c].changed
  PROVE  /\ QuietKept
         /\ \A k \in Callers : \A day : Open(k, day)' => Open(k, day) /\ DayKept(day)
<1>1. job'[c] = r /\ Active(c)' /\ \A k \in Callers \ {c} : job'[k] = job[k]
  BY IdleAssumption DEF TypeOK, Active
<1>2. \A k \in Callers : \A day : TouchedBy(k, day)' <=> TouchedBy(k, day)
  BY <1>1 DEF TouchedBy, Active
<1>3. \A day : DayKept(day) /\ (Calm(day)' => Calm(day))
  BY DEF DayKept, Holder, Calm, Dirty
<1>4. QED BY <1>2, <1>3 DEF QuietKept, Quiet, Open

LEMMA CalmMoves ==
  ASSUME CalmInv, IInv', UNCHANGED <<raw, owner, rolled, cutoff, synced, lost>>,
         crossed \subseteq crossed',
         NEW c \in Callers, Active(c), NEW r \in Job, job' = [job EXCEPT ![c] = r],
         r.changed = job[c].changed, Cleared(c)', Filled(c)', Parted'
  PROVE  CalmInv'
<1>t. TypeOK
  BY DEF CalmInv, IInv
<1>1. QuietKept /\ \A k \in Callers : \A day : Open(k, day)' => Open(k, day) /\ DayKept(day)
  BY <1>t, DaysKept
<1>2. ASSUME NEW k \in Callers \ {c}, Active(k)'
      PROVE  Cleared(k)' /\ Filled(k)'
  <2>1. job'[k] = job[k] /\ Active(k)
    BY <1>t, <1>2 DEF TypeOK, Active
  <2>2. OpenKept(k)
    BY <1>1 DEF OpenKept
  <2>3. QED BY <2>1, <2>2, OthersKept
<1>3. QED BY <1>1, <1>2, CalmKept

\* Past its check nothing new is crossed.
LEMMA PartedMoves ==
  ASSUME TypeOK, TypeOK', Parted, crossed' = crossed, NEW c \in Callers,
         Active(c), Active(c)', Left(c) <= 4, NEW r, job' = [job EXCEPT ![c] = r],
         r.from = job[c].from, r.to = job[c].to
  PROVE  Parted'
<1>1. job'[c] = r /\ \A k \in Callers \ {c} : job'[k] = job[k]
  BY DEF TypeOK
<1>2. Begun(c)
  BY BegunLeft
<1>3. \A k \in Callers : Begun(k)' => Begun(k) /\ job'[k].from = job[k].from
                                               /\ job'[k].to = job[k].to
  BY <1>1, <1>2 DEF Begun
<1>4. QED BY <1>3, PartedKept

LEMMA CalmCheck ==
  ASSUME CalmInv, IInv', NEW c \in Callers, Check(c)
  PROVE  CalmInv'
<1>t. TypeOK /\ Shaped(c)
  BY DEF CalmInv, IInv
<1>1. Active(c) /\ Left(c) = 5
  BY <1>t, StepJob
<1>2. PICK r \in Job : r = [job[c] EXCEPT !.todo = Tail(@)] /\ job' = [job EXCEPT ![c] = r]
  BY <1>t, StepJob
<1>3. job[c] \in Job
  BY <1>t, <1>1, AtStage
<1>4. /\ r.changed = job[c].changed /\ r.from = job[c].from /\ r.to = job[c].to
      /\ r.waiting = job[c].waiting /\ r.deleted = job[c].deleted
      /\ r.inserted = job[c].inserted /\ r.todo = Tail(job[c].todo)
  BY <1>2, <1>3 DEF Job
<1>5. job'[c] = r
  BY <1>t, <1>2 DEF TypeOK
<1>6. Left(c)' = 4
  <2>1. Left(c) > 0
    BY <1>1
  <2>2. Len(Tail(job[c].todo)) = Left(c) - 1
    BY <1>t, <1>1, <2>1, AtStage
  <2>3. Left(c)' = Len(Tail(job[c].todo))
    BY <1>4, <1>5 DEF Left
  <2>4. QED BY <1>1, <2>2, <2>3
<1>7. ~job[c].waiting
  <2>1. job[c].waiting => FALSE
    BY <1>t, <1>1 DEF Shaped
  <2>2. QED BY <2>1
<1>8. Cleared(c) /\ Filled(c)
  BY <1>1 DEF CalmInv
<1>9. Cleared(c)'
  BY <1>1, <1>4, <1>5, <1>6, <1>7, <1>8 DEF Cleared, Deleted, InSpan, Check
<1>10. job[c].inserted = {}
  BY <1>1, <1>8 DEF Filled, Inserted
<1>11. Filled(c)'
  BY <1>4, <1>5, <1>6, <1>10 DEF Filled, Inserted, Inserting, Once
<1>12. UNCHANGED <<raw, owner, rolled, cutoff, synced, lost>> /\ crossed \subseteq crossed'
  BY DEF Check
<1>13. Parted'
  <2>1. \A k \in Callers \ {c} : job'[k] = job[k] /\ (Begun(k)' <=> Begun(k))
    BY <1>t, <1>2 DEF TypeOK, Begun
  <2>2. \A k \in Callers : \A day : InSpan(k, day)' <=> InSpan(k, day)
    BY <1>4, <1>5, <2>1 DEF InSpan
  <2>3. \A k \in Callers \ {c}, day \in Days :
          Begun(k)' /\ InSpan(c, day)' /\ InSpan(k, day)' => day \in crossed'
    BY <2>1, <2>2 DEF Check
  <2>4. \A k, n \in Callers \ {c} : k # n /\ Begun(k)' /\ Begun(n)' =>
          \A day \in Days : InSpan(k, day)' /\ InSpan(n, day)' => day \in crossed'
    BY <1>12, <2>1, <2>2 DEF CalmInv, Parted
  <2>5. QED BY <2>3, <2>4 DEF Parted
<1>14. QED BY <1>1, <1>2, <1>4, <1>9, <1>11, <1>12, <1>13, CalmMoves

LEMMA CalmStart ==
  ASSUME CalmInv, IInv', NEW c \in Callers, Start(c)
  PROVE  CalmInv'
<1>t. TypeOK /\ Shaped(c)
  BY DEF CalmInv, IInv
<1>1. Active(c) /\ Left(c) \in 1 .. 4 /\ ~job[c].waiting
  BY <1>t, StepJob
<1>2. PICK r \in Job : r = [job[c] EXCEPT !.waiting = TRUE, !.pending = Reads(c)]
                       /\ job' = [job EXCEPT ![c] = r]
  BY <1>t, StepJob
<1>3. job[c] \in Job
  BY <1>t, <1>1, AtStage
<1>4. /\ r.changed = job[c].changed /\ r.from = job[c].from /\ r.to = job[c].to
      /\ r.waiting = TRUE /\ r.pending = Reads(c) /\ r.deleted = job[c].deleted
      /\ r.inserted = job[c].inserted /\ r.todo = job[c].todo
  BY <1>2, <1>3 DEF Job
<1>5. job'[c] = r
  BY <1>t, <1>2 DEF TypeOK
<1>6. Left(c)' = Left(c) /\ (\A d : InSpan(c, d)' <=> InSpan(c, d))
      /\ InsertsInto(c)' = InsertsInto(c)
  BY <1>4, <1>5 DEF Left, InSpan, InsertsInto
<1>7. UNCHANGED <<raw, owner, rolled, cutoff, synced, lost, crossed>>
  BY DEF Start, ghosts
<1>8. Cleared(c) /\ Filled(c)
  BY <1>1 DEF CalmInv
<1>9. Cleared(c)'
  <2>1. Left(c) > 2 => \A x \in rolled : x.table = Head(job[c].todo)[2] /\ InSpan(c, x.day) =>
                         x \in Reads(c)
    BY <1>t, <1>1, ReadsRows
  <2>2. /\ \A table : Deleted(c, table)' <=> Deleted(c, table)
        /\ \A x : Own(c, x)' <=> Own(c, x)
        /\ \A x : Own(c, x) => InSpan(c, x.day)
    BY <1>6, <1>7 DEF Deleted, Own
  <2>3. QED BY <1>4, <1>5, <1>6, <1>7, <1>8, <2>1, <2>2 DEF Cleared
<1>10. Filled(c)'
  <2>1. \A table : Inserted(c, table)' <=> Inserted(c, table)
    BY <1>6 DEF Inserted
  <2>2. \A R, table, day : Exact(R, table, day) => Exact(R, table, day)'
    BY <1>7, RawKept
  <2>3. \A day : Open(c, day)' => Open(c, day)
    BY <1>t, <1>1, <1>2, <1>4, <1>7, DaysKept
  <2>4. \A R : Once(R)' <=> Once(R)
    BY DEF Once
  <2>5. /\ \A x \in job'[c].inserted : InSpan(c, x.day)' /\ Inserted(c, x.table)'
        /\ Once(job[c].inserted)'
        /\ \A day \in Days, table \in Tables :
             Open(c, day)' /\ InSpan(c, day)' /\ Inserted(c, table)' =>
               Exact(job[c].inserted, table, day)'
    <3>1. job'[c].inserted = job[c].inserted
      BY <1>4, <1>5
    <3>2. QED BY <1>6, <1>8, <2>1, <2>2, <2>3, <2>4, <3>1 DEF Filled
  <2>6. ASSUME Left(c) <= 2
        PROVE  /\ Once(job[c].pending)'
               /\ \A x \in job'[c].pending : x.table = InsertsInto(c)' /\ InSpan(c, x.day)'
               /\ \A day \in Days :
                    Open(c, day)' /\ InSpan(c, day)' => Exact(job[c].pending, InsertsInto(c), day)'
    <3>1. PICK table \in Tables : table = InsertsInto(c)
      BY DEF InsertsInto, Tables
    <3>2. PICK R : R = Groups(c, table)
      OBVIOUS
    <3>3. Reads(c) = R
      <4>1. PICK n \in 1 .. 2 : n = Left(c)
        BY <1>1, <2>6
      <4>2. Reads(c) = Groups(c, IF n = 1 THEN "outcome" ELSE "spend")
        BY <1>t, <1>1, <2>6, <4>1, ReadsRows
      <4>3. table = IF n = 1 THEN "outcome" ELSE "spend"
        BY <3>1, <4>1 DEF InsertsInto
      <4>4. QED BY <3>2, <4>2, <4>3
    <3>4. job'[c].pending = R
      BY <1>4, <1>5, <3>3
    <3>5. Once(R) /\ \A day \in Days : InSpan(c, day) => Exact(R, table, day)
      BY <1>t, <1>1, <3>2, GroupsExact
    <3>6. \A x \in R : x.table = table /\ InSpan(c, x.day)
      BY <1>t, <1>1, <3>2, GroupRows
    <3>7. QED BY <1>6, <2>2, <2>4, <3>1, <3>4, <3>5, <3>6
  <2>7. Inserting(c)' => Left(c) <= 2
    BY <1>6 DEF Inserting
  <2>8. QED BY <2>5, <2>6, <2>7 DEF Filled
<1>p. TypeOK' /\ Parted /\ Active(c)'
  BY <1>2, <1>5, IdleAssumption DEF Active, CalmInv, IInv
<1>l. Left(c) <= 4
  BY <1>1
<1>q. Parted'
  BY <1>t, <1>1, <1>2, <1>4, <1>7, <1>p, <1>l, PartedMoves
<1>11. QED BY <1>1, <1>2, <1>4, <1>7, <1>9, <1>10, <1>q, CalmMoves

LEMMA CalmDelete ==
  ASSUME CalmInv, IInv', NEW c \in Callers, Delete(c)
  PROVE  CalmInv'
<1>t. TypeOK /\ Shaped(c)
  BY DEF CalmInv, IInv
<1>1. Active(c) /\ Left(c) \in 3 .. 4 /\ job[c].waiting
  BY <1>t, StepJob
<1>2. PICK r \in Job :
        r = [job[c] EXCEPT !.deleted = @ \cup (job[c].pending \cap rolled),
                           !.pending = {}, !.waiting = FALSE, !.todo = Tail(@)]
        /\ job' = [job EXCEPT ![c] = r]
  BY <1>t, StepJob
<1>3. job[c] \in Job
  BY <1>t, <1>1, AtStage
<1>4. /\ r.changed = job[c].changed /\ r.from = job[c].from /\ r.to = job[c].to
      /\ r.waiting = FALSE /\ r.pending = {}
      /\ r.deleted = job[c].deleted \cup (job[c].pending \cap rolled)
      /\ r.inserted = job[c].inserted /\ r.todo = Tail(job[c].todo)
  BY <1>2, <1>3 DEF Job
<1>5. job'[c] = r
  BY <1>t, <1>2 DEF TypeOK
<1>6. Left(c)' = Left(c) - 1 /\ \A d : InSpan(c, d)' <=> InSpan(c, d)
  <2>1. Left(c) > 0
    BY <1>1
  <2>2. Len(Tail(job[c].todo)) = Left(c) - 1
    BY <1>t, <1>1, <2>1, AtStage
  <2>3. Left(c)' = Len(Tail(job[c].todo))
    BY <1>4, <1>5 DEF Left
  <2>4. QED BY <1>4, <1>5, <2>2, <2>3 DEF InSpan
<1>7. UNCHANGED <<raw, owner, rolled, cutoff, synced, lost, crossed>>
  BY DEF Delete, ghosts
<1>8. Cleared(c) /\ Filled(c)
  BY <1>1 DEF CalmInv
<1>9. PICK n \in 3 .. 4 : n = Left(c)
  BY <1>1
<1>10. Head(job[c].todo)[2] = (IF n = 3 THEN "outcome" ELSE "spend")
  <2>1. Left(c) > 0
    BY <1>1
  <2>2. Head(job[c].todo)[2] = (IF Left(c) \in {1, 3} THEN "outcome" ELSE "spend")
    BY <1>t, <1>1, <2>1, AtStage
  <2>3. QED BY <1>9, <2>2
<1>11. Cleared(c)'
  <2>1. \A x \in r.deleted : InSpan(c, x.day)
    BY <1>t, <1>1, <1>4, <1>8 DEF Shaped, Cleared
  <2>2. ASSUME NEW x \in rolled, Own(c, x), Deleted(c, x.table)'
        PROVE  x \in r.deleted
    <3>1. x.table \in Tables
      BY <1>t DEF TypeOK, RollupRow
    <3>2. n - 1 <= (IF x.table = "spend" THEN 3 ELSE 2)
      BY <1>6, <1>9, <2>2 DEF Deleted
    <3>3. CASE Deleted(c, x.table)
      BY <1>4, <1>8, <2>2, <3>3 DEF Cleared
    <3>4. CASE ~Deleted(c, x.table)
      <4>1. ~(n <= (IF x.table = "spend" THEN 3 ELSE 2))
        BY <1>9, <3>4 DEF Deleted
      <4>2. x.table = (IF n = 3 THEN "outcome" ELSE "spend")
        BY <3>1, <3>2, <4>1 DEF Tables
      <4>3. x.table = Head(job[c].todo)[2] /\ Left(c) > 2
        BY <1>9, <1>10, <4>2
      <4>4. x \in job[c].pending
        BY <1>1, <1>8, <2>2, <4>3 DEF Cleared
      <4>5. QED BY <1>4, <4>4
    <3>5. QED BY <3>3, <3>4
  <2>3. \A x : Own(c, x)' <=> Own(c, x)
    BY <1>6, <1>7 DEF Own
  <2>4. QED BY <1>4, <1>5, <1>6, <1>7, <2>1, <2>2, <2>3 DEF Cleared
<1>12. job[c].inserted = {}
  <2>1. \A table : ~Inserted(c, table)
    BY <1>9 DEF Inserted
  <2>2. QED BY <1>8, <2>1 DEF Filled
<1>13. Filled(c)'
  <2>1. \A table : ~Inserted(c, table)'
    BY <1>6, <1>9 DEF Inserted
  <2>2. QED BY <1>4, <1>5, <1>12, <2>1 DEF Filled, Inserting, Once
<1>p. TypeOK' /\ Parted /\ Active(c)'
  BY <1>2, <1>5, IdleAssumption DEF Active, CalmInv, IInv
<1>l. Left(c) <= 4
  BY <1>1
<1>q. Parted'
  BY <1>t, <1>1, <1>2, <1>4, <1>7, <1>p, <1>l, PartedMoves
<1>14. QED BY <1>1, <1>2, <1>4, <1>7, <1>11, <1>13, <1>q, CalmMoves

LEMMA CalmInsert ==
  ASSUME CalmInv, IInv', NEW c \in Callers, Insert(c)
  PROVE  CalmInv'
<1>t. TypeOK /\ Shaped(c)
  BY DEF CalmInv, IInv
<1>1. Active(c) /\ Left(c) \in 1 .. 2 /\ job[c].waiting
  BY <1>t, StepJob
<1>2. PICK r \in Job :
        r = [job[c] EXCEPT !.inserted = @ \cup job[c].pending,
                           !.pending = {}, !.waiting = FALSE, !.todo = Tail(@)]
        /\ job' = [job EXCEPT ![c] = r]
  BY <1>t, StepJob
<1>3. job[c] \in Job
  BY <1>t, <1>1, AtStage
<1>4. /\ r.changed = job[c].changed /\ r.from = job[c].from /\ r.to = job[c].to
      /\ r.waiting = FALSE /\ r.pending = {} /\ r.deleted = job[c].deleted
      /\ r.inserted = job[c].inserted \cup job[c].pending /\ r.todo = Tail(job[c].todo)
  BY <1>2, <1>3 DEF Job
<1>5. job'[c] = r
  BY <1>t, <1>2 DEF TypeOK
<1>6. Left(c)' = Left(c) - 1 /\ \A d : InSpan(c, d)' <=> InSpan(c, d)
  <2>1. Left(c) > 0
    BY <1>1
  <2>2. Len(Tail(job[c].todo)) = Left(c) - 1
    BY <1>t, <1>1, <2>1, AtStage
  <2>3. Left(c)' = Len(Tail(job[c].todo))
    BY <1>4, <1>5 DEF Left
  <2>4. QED BY <1>4, <1>5, <2>2, <2>3 DEF InSpan
<1>7. UNCHANGED <<raw, owner, rolled, cutoff, synced, lost, crossed>>
  BY DEF Insert, ghosts
<1>8. Cleared(c) /\ Filled(c)
  BY <1>1 DEF CalmInv
<1>9. PICK n \in 1 .. 2 : n = Left(c)
  BY <1>1
<1>10. PICK into \in Tables : into = InsertsInto(c) /\ into = (IF n = 2 THEN "spend" ELSE "outcome")
  BY <1>9 DEF InsertsInto, Tables
<1>11. /\ ~Inserted(c, into) /\ Inserted(c, into)'
       /\ \A table : Inserted(c, table) => Inserted(c, table)'
       /\ \A table \in Tables : Inserted(c, table)' => Inserted(c, table) \/ table = into
  BY <1>6, <1>9, <1>10 DEF Inserted, Tables
<1>12. Inserting(c)
  BY <1>1, <1>9 DEF Inserting
<1>13. Cleared(c)'
  <2>1. ASSUME NEW x \in rolled, Own(c, x)
        PROVE  x \in job[c].deleted
    BY <1>8, <1>9, <2>1 DEF Cleared, Deleted
  <2>2. \A x : Own(c, x)' <=> Own(c, x)
    BY <1>6, <1>7 DEF Own
  <2>3. QED BY <1>4, <1>5, <1>6, <1>7, <1>8, <2>1, <2>2 DEF Cleared
<1>14. Filled(c)'
  <2>1. \A x \in job[c].pending : x.table = into /\ InSpan(c, x.day) /\ Uniform(x)
    BY <1>t, <1>1, <1>8, <1>10, <1>12 DEF Filled, Shaped
  <2>2. \A x \in job[c].inserted :
          x.table # into /\ Inserted(c, x.table) /\ InSpan(c, x.day) /\ Uniform(x)
    BY <1>t, <1>1, <1>8, <1>11 DEF Filled, Shaped
  <2>3. \A x \in r.inserted : InSpan(c, x.day) /\ Inserted(c, x.table)'
    BY <1>4, <1>11, <2>1, <2>2
  <2>4. Once(r.inserted)
    <3>1. SUFFICES ASSUME NEW x \in r.inserted, NEW y \in r.inserted, NEW q,
                          q \in x.rows, q \in y.rows
                   PROVE  x = y
      BY DEF Once
    <3>2. x.table = y.table
      BY <1>4, <2>1, <2>2, <3>1 DEF Uniform
    <3>3. CASE x \in job[c].inserted
      BY <1>4, <1>8, <2>1, <2>2, <3>1, <3>2, <3>3 DEF Filled, Once
    <3>4. CASE x \in job[c].pending
      BY <1>4, <1>8, <1>12, <2>1, <2>2, <3>1, <3>2, <3>4 DEF Filled, Once
    <3>5. QED BY <1>4, <3>3, <3>4
  <2>5. ASSUME NEW day \in Days, NEW table \in Tables,
               Open(c, day)', InSpan(c, day), Inserted(c, table)'
        PROVE  Exact(r.inserted, table, day)'
    <3>1. Open(c, day)
      BY <1>t, <1>1, <1>2, <1>4, <1>7, <2>5, DaysKept
    <3>2. CASE table = into
      <4>1. Exact(job[c].pending, table, day)
        BY <1>8, <1>10, <1>12, <2>5, <3>1, <3>2 DEF Filled
      <4>2. \A x : x.table = table => (x \in job[c].pending <=> x \in r.inserted)
        BY <1>4, <2>2, <3>2
      <4>3. Exact(r.inserted, table, day)
        BY <4>1, <4>2, ExactSame
      <4>4. QED BY <1>7, <4>3, RawKept
    <3>3. CASE table # into
      <4>1. Exact(job[c].inserted, table, day)
        BY <1>8, <1>11, <2>5, <3>1, <3>3 DEF Filled
      <4>2. \A x : x.table = table => (x \in job[c].inserted <=> x \in r.inserted)
        BY <1>4, <2>1, <3>3
      <4>3. Exact(r.inserted, table, day)
        BY <4>1, <4>2, ExactSame
      <4>4. QED BY <1>7, <4>3, RawKept
    <3>4. QED BY <3>2, <3>3
  <2>6. ~Inserting(c)'
    BY <1>4, <1>5 DEF Inserting
  <2>7. QED BY <1>5, <1>6, <2>3, <2>4, <2>5, <2>6 DEF Filled, Once
<1>p. TypeOK' /\ Parted /\ Active(c)'
  BY <1>2, <1>5, IdleAssumption DEF Active, CalmInv, IInv
<1>l. Left(c) <= 4
  BY <1>1
<1>q. Parted'
  BY <1>t, <1>1, <1>2, <1>4, <1>7, <1>p, <1>l, PartedMoves
<1>15. QED BY <1>1, <1>2, <1>4, <1>7, <1>13, <1>14, <1>q, CalmMoves

LEMMA CalmCommit ==
  ASSUME CalmInv, IInv', NEW c \in Callers, Commit(c)
  PROVE  CalmInv'
<1>t. TypeOK /\ TypeOK' /\ Shaped(c) /\ Apart
  BY DEF CalmInv, IInv
<1>1. Active(c) /\ Left(c) = 0 /\ Begun(c)
  <2>1. Active(c) /\ Left(c) = 0
    BY <1>t, AtStage DEF Commit, Active
  <2>2. QED BY <1>t, <2>1, BegunLeft
<1>2. rolled' = (rolled \ job[c].deleted) \cup job[c].inserted
  BY DEF Commit
<1>3. UNCHANGED <<raw, owner, cutoff, synced, lost, crossed>>
  BY DEF Commit, ghosts
<1>4. Cleared(c) /\ Filled(c)
  BY <1>1 DEF CalmInv
<1>5. \A x \in rolled : /\ x \in job[c].deleted => InSpan(c, x.day)
                        /\ Own(c, x) => x \in job[c].deleted
  BY <1>1, <1>4 DEF Cleared, Deleted
<1>6. \A x \in job[c].inserted : InSpan(c, x.day) /\ Uniform(x)
  BY <1>t, <1>1, <1>4 DEF Filled, Shaped
<1>7. ~Active(c)' /\ \A k \in Callers \ {c} : job'[k] = job[k] /\ (Active(k)' <=> Active(k))
  BY <1>t DEF Commit, Active, TypeOK
<1>n. \A x \in rolled' : x.day \in Days /\ x.table \in Tables
  BY <1>t DEF TypeOK, RollupRow
<1>8. CountedOnceApart'
  <2>1. SUFFICES ASSUME NEW x \in rolled', NEW y \in rolled', NEW q,
                        q \in x.rows, q \in y.rows, x.day \notin crossed
                 PROVE  x = y
    BY <1>3 DEF CountedOnceApart
  <2>2. x.day = y.day
    BY <1>t, <1>2, <1>6, <2>1 DEF Apart, Uniform
  <2>3. CASE x \in job[c].inserted /\ y \in job[c].inserted
    BY <1>4, <2>1, <2>3 DEF Filled, Once
  <2>4. CASE x \in rolled /\ y \in rolled
    BY <2>1, <2>4 DEF CalmInv, CountedOnceApart
  <2>5. CASE x \in rolled \ job[c].deleted /\ y \in job[c].inserted
    BY <1>5, <1>6, <2>1, <2>2, <2>5 DEF Own
  <2>6. CASE x \in job[c].inserted /\ y \in rolled \ job[c].deleted
    BY <1>5, <1>6, <2>1, <2>2, <2>6 DEF Own
  <2>7. QED BY <1>2, <2>3, <2>4, <2>5, <2>6
<1>9. Parted'
  <2>1. \A k \in Callers : Begun(k)' => Begun(k) /\ job'[k].from = job[k].from
                                                 /\ job'[k].to = job[k].to
    BY <1>7 DEF Begun, Active
  <2>2. QED BY <1>3, <2>1, PartedKept DEF CalmInv
<1>10. \A k \in Callers \ {c}, day \in Days :
         Begun(k) /\ InSpan(k, day) /\ InSpan(c, day) => day \in crossed
  BY <1>1 DEF CalmInv, Parted
<1>11. \A day : TouchedBy(c, day) => InSpan(c, day)
  BY <1>t, <1>1 DEF TouchedBy, Shaped
<1>12. \A k \in Callers \ {c} : \A day : TouchedBy(k, day)' <=> TouchedBy(k, day)
  BY <1>3, <1>7 DEF TouchedBy
<1>13. \A day : DayKept(day) /\ (Calm(day)' <=> Calm(day))
  BY <1>3 DEF DayKept, Holder, Calm, Dirty
<1>14. ASSUME NEW k \in Callers \ {c}, Active(k)'
       PROVE  Cleared(k)' /\ Filled(k)'
  <2>1. job'[k] = job[k] /\ Active(k) /\ Cleared(k) /\ Filled(k)
    BY <1>7, <1>14 DEF CalmInv
  <2>b. Left(k) <= 4 => Begun(k)
    BY <1>t, <2>1, BegunLeft
  <2>2. /\ \A x : Own(k, x)' <=> Own(k, x)
        /\ \A table : Deleted(k, table)' <=> Deleted(k, table)
        /\ Left(k)' = Left(k)
    BY <1>3, <2>1 DEF Own, InSpan, Deleted, Left
  <2>3. ASSUME NEW x \in rolled', Own(k, x), Begun(k)
        PROVE  x \in rolled
    BY <1>2, <1>6, <1>10, <1>n, <2>3 DEF Own
  <2>4. \A x \in rolled' : Own(k, x) /\ Deleted(k, x.table) => x \in job[k].deleted
    <3>1. SUFFICES ASSUME NEW x \in rolled', Own(k, x), Deleted(k, x.table)
                   PROVE  x \in job[k].deleted
      OBVIOUS
    <3>2. Left(k) \in 0 .. 5
      BY <1>t, <2>1, AtStage
    <3>3. Begun(k)
      BY <2>b, <3>1, <3>2 DEF Deleted
    <3>4. QED BY <2>1, <2>3, <3>1, <3>3 DEF Cleared
  <2>5. job[k].waiting /\ Left(k) > 2 =>
          \A x \in rolled' : x.table = Head(job[k].todo)[2] /\ Own(k, x) => x \in job[k].pending
    <3>1. SUFFICES ASSUME NEW x \in rolled', Own(k, x), x.table = Head(job[k].todo)[2],
                          job[k].waiting, Left(k) > 2
                   PROVE  x \in job[k].pending
      OBVIOUS
    <3>2. Shaped(k)
      BY DEF CalmInv, IInv
    <3>3. Left(k) \in 1 .. 4
      BY <2>1, <3>1, <3>2 DEF Shaped
    <3>4. Begun(k)
      BY <2>b, <3>3
    <3>5. QED BY <2>1, <2>3, <3>1, <3>4 DEF Cleared
  <2>6. Cleared(k)'
    BY <2>1, <2>2, <2>4, <2>5 DEF Cleared, InSpan
  <2>7. OpenKept(k)
    <3>1. SUFFICES ASSUME NEW day \in Days, Open(k, day)', Begun(k), InSpan(k, day)
                   PROVE  Open(k, day) /\ DayKept(day)
      BY DEF OpenKept
    <3>2. Calm(day) /\ DayKept(day)
      BY <1>13, <3>1 DEF Open
    <3>3. ~TouchedBy(c, day)
      BY <1>10, <1>11, <3>1, <3>2 DEF Calm
    <3>4. \A n \in Callers \ {k, c} : ~TouchedBy(n, day)
      BY <1>12, <3>1 DEF Open
    <3>5. QED BY <3>2, <3>3, <3>4 DEF Open
  <2>8. QED BY <1>t, <2>1, <2>6, <2>7, FilledKept
<1>15. Exactly'
  <2>1. SUFFICES ASSUME NEW day \in Days, NEW table \in Tables, Quiet(day)'
                 PROVE  Exact(rolled, table, day)'
    BY DEF Exactly
  <2>2. Calm(day) /\ \A k \in Callers \ {c} : ~TouchedBy(k, day)
    BY <1>12, <1>13, <2>1 DEF Quiet
  <2>3. PICK R : R = rolled'
    OBVIOUS
  <2>4. CASE InSpan(c, day)
    <3>1. Exact(job[c].inserted, table, day)
      BY <1>1, <1>4, <2>2, <2>4 DEF Filled, Inserted, Open
    <3>2. \A x : x.day = day => (x \in job[c].inserted <=> x \in R)
      BY <1>2, <1>5, <2>2, <2>3, <2>4 DEF Own, Calm
    <3>3. Exact(R, table, day)
      BY <3>1, <3>2, ExactSame
    <3>4. Exact(R, table, day)'
      BY <1>3, <3>3, RawKept
    <3>5. QED BY <2>3, <3>4 DEF Exact
  <2>5. CASE ~InSpan(c, day)
    <3>1. Quiet(day)
      BY <1>11, <2>2, <2>5 DEF Quiet
    <3>2. Exact(rolled, table, day)
      BY <3>1 DEF CalmInv, Exactly
    <3>3. \A x : x.day = day => (x \in rolled <=> x \in R)
      BY <1>2, <1>5, <1>6, <2>3, <2>5
    <3>4. Exact(R, table, day)
      BY <3>2, <3>3, ExactSame
    <3>5. Exact(R, table, day)'
      BY <1>3, <3>4, RawKept
    <3>6. QED BY <2>3, <3>5 DEF Exact
  <2>6. QED BY <2>4, <2>5
<1>16. QED BY <1>7, <1>8, <1>9, <1>14, <1>15 DEF CalmInv

-----------------------------------------------------------------------------
(***************************************************************************)
(* The theorems.                                                           *)
(***************************************************************************)
LEMMA CalmInit == ASSUME Init PROVE CalmInv
<1>1. IInv
  BY InitIInv
<1>2. \A k \in Callers : ~Active(k) /\ ~Begun(k)
  BY DEF Init, Active, Begun
<1>3. \A table, day : Exact(rolled, table, day)
  BY DEF Init, Exact
<1>4. CountedOnceApart
  BY DEF Init, CountedOnceApart
<1>5. QED BY <1>1, <1>2, <1>3, <1>4 DEF CalmInv, Parted, Exactly

LEMMA CalmThrow ==
  ASSUME CalmInv, IInv', NEW c \in Callers, Throw(c)
  PROVE  CalmInv'
<1>1. job' = [job EXCEPT ![c] = Idle] /\ lost' = lost \cup job[c].changed
      /\ UNCHANGED <<raw, owner, rolled, cutoff, synced, crossed>>
  BY DEF Throw, ghosts
<1>2. job'[c] = Idle /\ \A k \in Callers \ {c} : job'[k] = job[k]
  BY <1>1 DEF CalmInv, IInv, TypeOK
<1>3. \A k \in Callers :
        \/ job'[k] = job[k]
        \/ ~Active(k)' /\ (Active(k) => job[k].changed \subseteq lost')
  BY <1>1, <1>2 DEF Active
<1>4. QED BY <1>1, <1>3, CalmDrops

LEMMA CalmStep == ASSUME CalmInv, [Next]_vars PROVE CalmInv'
<1>t. IInv' /\ TypeOK
  BY StepIInv DEF CalmInv, IInv
<1>1. ASSUME NEW c \in Callers, NEW r \in Raw, Record(c, r)
      PROVE  CalmInv'
  <2>1. \A day : (\A q \in {r} : DayOf[q] # day) => DayKept(day)
    BY <1>1 DEF Record, DayKept, Holder
  <2>2. {r} \in SUBSET Raw
    OBVIOUS
  <2>3. Owe(c, {r}) /\ ~Active(c) /\ changes < MaxChanges /\ raw' = raw \cup {r}
        /\ UNCHANGED <<cutoff, rolled, synced, lost, crossed>>
    BY <1>1 DEF Record, Active, ghosts
  <2>4. {r} \subseteq raw' /\ raw \subseteq raw'
    BY <2>3
  <2>5. QED BY <1>t, <2>1, <2>2, <2>3, <2>4, CalmOwes
<1>2. ASSUME NEW c \in Callers, NEW i \in Identities, NEW p \in People \cup {Nobody},
             Reattribute(c, i, p)
      PROVE  CalmInv'
  <2>1. PICK rows \in SUBSET Raw : rows = {r \in raw : IdentityOf[r] = i}
    BY <1>t DEF TypeOK
  <2>2. Owe(c, rows) /\ ~Active(c) /\ changes < MaxChanges /\ raw' = raw
        /\ owner' = [owner EXCEPT ![i] = p]
        /\ UNCHANGED <<cutoff, rolled, synced, lost, crossed>>
    BY <1>2, <2>1 DEF Reattribute, Active, ghosts
  <2>3. \A q \in raw \ rows : Holder(q)' = Holder(q)
    BY <1>t, <2>1, <2>2 DEF Holder, TypeOK, Identities
  <2>4. \A day : (\A q \in rows : DayOf[q] # day) => DayKept(day)
    BY <2>2, <2>3 DEF DayKept
  <2>5. rows \subseteq raw' /\ raw \subseteq raw'
    BY <2>1, <2>2
  <2>6. QED BY <1>t, <2>2, <2>4, <2>5, CalmOwes
<1>3. ASSUME NEW r \in Raw, Sync(r)
      PROVE  CalmInv'
  BY <1>t, <1>3, CalmSync
<1>4. ASSUME Prune
      PROVE  CalmInv'
  BY <1>t, <1>4, CalmPrune
<1>5. ASSUME Crash
      PROVE  CalmInv'
  <2>1. \A k \in Callers :
          \/ job'[k] = job[k]
          \/ ~Active(k)' /\ (Active(k) => job[k].changed \subseteq lost')
    BY <1>5 DEF Crash, Active
  <2>2. UNCHANGED <<raw, owner, rolled, cutoff, synced, crossed>> /\ lost \subseteq lost'
    BY <1>5 DEF Crash, ghosts
  <2>3. QED BY <1>t, <2>1, <2>2, CalmDrops
<1>6. ASSUME NEW c \in Callers, Refuse(c) \/ InsertFails(c) \/ Deadlock(c) \/ Fail(c)
      PROVE  CalmInv'
  BY <1>t, <1>6, CalmThrow DEF Refuse, InsertFails, Deadlock, Fail
<1>7. ASSUME NEW c \in Callers, Check(c) \/ Start(c) \/ Delete(c) \/ Insert(c) \/ Commit(c)
      PROVE  CalmInv'
  BY <1>t, <1>7, CalmCheck, CalmStart, CalmDelete, CalmInsert, CalmCommit
<1>8. CASE UNCHANGED vars
  <2>1. UNCHANGED <<raw, owner, rolled, cutoff, synced, crossed>> /\ lost \subseteq lost'
        /\ job' = job
    BY <1>8 DEF vars
  <2>2. QED BY <1>t, <2>1, CalmDrops
<1>9. QED
  BY <1>1, <1>2, <1>3, <1>4, <1>5, <1>6, <1>7, <1>8 DEF Next, Change, Step

THEOREM CalmInvariance == Spec => []CalmInv
BY CalmInit, CalmStep, PTL DEF Spec

\* However many callers recompute at once, fail, deadlock or die, and whatever
\* retention deletes: a raw row two rollup rows count is one of a day that two
\* recomputes have rebuilt at once. Delete-and-rebuild leaves no other double.
THEOREM NoDoublesApart == Spec => []CountedOnceApart
<1>1. CalmInv => CountedOnceApart
  BY DEF CalmInv
<1>2. QED BY <1>1, CalmInvariance, PTL

\* However many callers recompute at once: the rollups of a day that nobody owes
\* a recompute for, that no two recomputes have rebuilt at once and that retention
\* has not reached are its raw rows, grouped by person: nothing missing, nothing
\* left over of a row that changed hands.
THEOREM SettledExact == Spec => []SettledDaysExact
<1>1. ASSUME CalmInv PROVE SettledDaysExact
  <2>1. SUFFICES ASSUME NEW day \in Days \ crossed, NEW table \in Tables,
                        cutoff <= day, Settled(day)
                 PROVE  LET rows == {r \in raw : TableOf[r] = table /\ DayOf[r] = day}
                        IN  {<<x.person, x.rows>> :
                                x \in {y \in rolled : y.table = table /\ y.day = day}}
                              = {<<Holder(r), {q \in rows : Holder(q) = Holder(r)}>> : r \in rows}
    BY DEF SettledDaysExact
  <2> DEFINE rows == {r \in raw : TableOf[r] = table /\ DayOf[r] = day}
             mine == {y \in rolled : y.table = table /\ y.day = day}
             Charted(x) == <<x.person, x.rows>>
             Stored(r) == <<Holder(r), {q \in rows : Holder(q) = Holder(r)}>>
  <2>2. Quiet(day)
    BY <2>1 DEF Settled, Quiet, Calm, Dirty, TouchedBy, Active
  <2>3. Exact(rolled, table, day)
    BY <1>1, <2>2 DEF CalmInv, Exactly
  <2>4. \A person : GroupOf(table, day, person) = {q \in rows : Holder(q) = person}
    BY DEF GroupOf
  <2>5. ASSUME NEW x \in mine
        PROVE  \E r \in rows : Charted(x) = Stored(r)
    <3>1. x.rows # {} /\ x.rows = {q \in rows : Holder(q) = x.person}
      BY <2>3, <2>4 DEF Exact
    <3>2. PICK r \in rows : Holder(r) = x.person
      BY <3>1
    <3>3. QED BY <3>1, <3>2
  <2>6. ASSUME NEW r \in rows
        PROVE  \E x \in mine : Charted(x) = Stored(r)
    <3>1. PICK x \in mine : x.person = Holder(r)
      BY <2>3 DEF Exact
    <3>2. x.rows = {q \in rows : Holder(q) = x.person}
      BY <2>3, <2>4, <3>1 DEF Exact
    <3>3. QED BY <3>1, <3>2
  <2>7. {Charted(x) : x \in mine} = {Stored(r) : r \in rows}
    <3> HIDE DEF mine, rows, Charted, Stored
    <3>1. QED BY <2>5, <2>6
  <2>8. QED BY <2>7
<1>2. CalmInv => SettledDaysExact
  BY <1>1
<1>3. QED BY <1>2, CalmInvariance, PTL

=============================================================================
