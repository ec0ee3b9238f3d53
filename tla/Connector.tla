------------------------------ MODULE Connector ------------------------------
(***************************************************************************)
(* What every vendor connector shares (src/lib/connectors/types.ts): a run *)
(* walks the vendor's paged reports with a token that carries its whole    *)
(* state. The engine commits a page and the token after it in one          *)
(* transaction (SyncEngine), so a death, a failed request or a response    *)
(* that fails its strict parse between two pages changes nothing: the next *)
(* run fetches the same token. Meanwhile the vendor's data moves.          *)
(***************************************************************************)
EXTENDS Integers, FiniteSetsExt, SequencesExt, Functions, TLC

CONSTANTS
  None,
  MaxWalks,    \* bound: walks
  MaxChanges   \* bound: changes of the vendor's data

VARIABLES
  vendor,   \* whose connector
  world,    \* the vendor's records
  token,    \* the state in the page token; None when no walk is open
  stored,   \* what was committed
  moved,    \* what changed at the vendor since the last walk began
  walks, changes

walkVars == <<vendor, world, token, stored, moved, walks, changes>>

\* runSync opens a window with the null token: the connector's initial state
Start(initial) ==
  /\ token = None /\ walks < MaxWalks
  /\ token' = initial
  /\ walks' = walks + 1
  /\ moved' = {}
  /\ UNCHANGED <<vendor, world, stored, changes>>

\* fetchPage answered and its page was committed with the token that follows
CommitPage(next, written) ==
  /\ token' = next
  /\ stored' = written
  /\ UNCHANGED <<vendor, world, moved, walks, changes>>

\* the vendor's data changes, between two requests or between two walks
Move(w, what) ==
  /\ changes < MaxChanges
  /\ world' = w
  /\ moved' = moved \cup what
  /\ changes' = changes + 1
  /\ UNCHANGED <<vendor, token, stored, walks>>

InPhase(phase) == token # None /\ token.phase = phase

\* the last walk ended, and what it read is still the vendor's data
Settled(v, aspects) == vendor = v /\ token = None /\ walks > 0 /\ moved \cap aspects = {}

\* INSERT ... ON CONFLICT DO UPDATE: rows is a function from keys to values
Upsert(table, rows) ==
  [k \in DOMAIN rows \cup DOMAIN table |-> IF k \in DOMAIN rows THEN rows[k] ELSE table[k]]
Tables(keys, rows) == UNION {[K -> rows] : K \in SUBSET keys}
NoRows == <<>>
Row(key, row) == [k \in {key} |-> row]
\* a figure that grows
Grow(f, x) == Upsert(f, Row(x, IF x \in DOMAIN f THEN f[x] + 1 ELSE 1))

\* a set of numbers as a list, the lowest first; and a list's elements at the
\* places P
InOrder(S) ==
  [n \in 1 .. Cardinality(S) |-> CHOOSE i \in S : Cardinality({k \in S : k < i}) = n - 1]
OnlyAt(list, P) == [n \in 1 .. Cardinality(P) |-> list[InOrder(P)[n]]]

\* page n of a list served size at a time
PageOf(list, n, size) ==
  SubSeq(list, (n - 1) * size + 1, Min({n * size, Len(list)}))
MorePages(list, n, size) == n * size < Len(list)

\* lists of ids are served after the last id of the page before, one a page
ListAfter(S, cursor) == LET rest == {i \in S : i > cursor} IN IF rest = {} THEN {} ELSE {Min(rest)}
HasMore(S, cursor) == \E i, k \in S : cursor < i /\ i < k
=============================================================================
