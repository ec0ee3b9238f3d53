------------------------------ MODULE SdkClient ------------------------------
(***************************************************************************)
(* The buffer of an SDK process (sdk/src/client.ts; sdk-py's client.py has *)
(* the same one behind a lock): wrap() and track() push events, one flush  *)
(* at a time takes the oldest batch out and posts it, and the answer       *)
(* decides whether the batch is done, dropped or put back at the front.    *)
(* Nothing here is on disk: a process that exits loses its buffer.         *)
(*                                                                         *)
(* The events of a client are numbered in the order they were made. What   *)
(* the server answers is free here; SdkIngest says when it answers what.   *)
(***************************************************************************)
EXTENDS Integers, Sequences

CONSTANTS
  Clients,     \* SDK processes
  MaxBuffer,   \* MAX_BUFFER
  FlushBatch,  \* FLUSH_BATCH
  MaxEvents    \* bound: events one client makes

ASSUME ClientAssumption ==
  /\ MaxBuffer \in Nat \ {0}
  /\ FlushBatch \in Nat \ {0}
  /\ MaxEvents \in Nat

VARIABLES
  made,      \* made[c]: events made so far
  buffer,    \* buffer[c]: events waiting, oldest first
  inflight,  \* inflight[c]: the batch being posted, or empty
  acked,     \* acked[c]: events the server answered 200 to
  dropped    \* dropped[c]: events lost to the cap or to a 4xx

clientVars == <<made, buffer, inflight, acked, dropped>>

Elements(s) == {s[i] : i \in 1..Len(s)}
Smaller(a, b) == IF a <= b THEN a ELSE b

\* how many of n events are over the cap
Excess(n) == n - Smaller(n, MaxBuffer)

ClientInit ==
  /\ made = [c \in Clients |-> 0]
  /\ buffer = [c \in Clients |-> <<>>]
  /\ inflight = [c \in Clients |-> <<>>]
  /\ acked = [c \in Clients |-> {}]
  /\ dropped = [c \in Clients |-> {}]

\* the newest events, as many as the buffer holds
Capped(events) == SubSeq(events, Excess(Len(events)) + 1, Len(events))

Refill(c, events) ==
  /\ buffer' = [buffer EXCEPT ![c] = Capped(events)]
  /\ dropped' = [dropped EXCEPT ![c] =
                   @ \cup (Elements(events) \ Elements(Capped(events)))]

\* push: wrap() and track(), whether or not a batch is in flight
Push(c) ==
  /\ made[c] < MaxEvents
  /\ made' = [made EXCEPT ![c] = @ + 1]
  /\ Refill(c, Append(buffer[c], made[c] + 1))
  /\ UNCHANGED <<inflight, acked>>

\* doFlush takes a batch; flushChain (the flush lock in Python) allows one
Take(c) ==
  /\ inflight[c] = <<>>
  /\ buffer[c] # <<>>
  /\ inflight' = [inflight EXCEPT ![c] =
                    SubSeq(buffer[c], 1, Smaller(FlushBatch, Len(buffer[c])))]
  /\ buffer' = [buffer EXCEPT ![c] =
                  SubSeq(@, Smaller(FlushBatch, Len(@)) + 1, Len(@))]
  /\ UNCHANGED <<made, acked, dropped>>

\* a 200: the batch is done, whatever its verdicts
Done(c) ==
  /\ inflight[c] # <<>>
  /\ acked' = [acked EXCEPT ![c] = @ \cup Elements(inflight[c])]
  /\ inflight' = [inflight EXCEPT ![c] = <<>>]
  /\ UNCHANGED <<made, buffer, dropped>>

\* mutant: the failed batch goes back behind the newer events
Requeue_Behind(c) ==
  /\ inflight[c] # <<>>
  /\ Refill(c, buffer[c] \o inflight[c])
  /\ inflight' = [inflight EXCEPT ![c] = <<>>]
  /\ UNCHANGED <<made, acked>>

\* unreachable, 429 or 5xx: back to the front, the oldest drop first
Requeue(c) ==
  /\ inflight[c] # <<>>
  /\ Refill(c, inflight[c] \o buffer[c])
  /\ inflight' = [inflight EXCEPT ![c] = <<>>]
  /\ UNCHANGED <<made, acked>>

\* any other 4xx: retrying cannot help
Discard(c) ==
  /\ inflight[c] # <<>>
  /\ dropped' = [dropped EXCEPT ![c] = @ \cup Elements(inflight[c])]
  /\ inflight' = [inflight EXCEPT ![c] = <<>>]
  /\ UNCHANGED <<made, buffer, acked>>

ClientNext ==
  \E c \in Clients : Push(c) \/ Take(c) \/ Done(c) \/ Requeue(c) \/ Discard(c)

ClientSpec == ClientInit /\ [][ClientNext]_clientVars

-----------------------------------------------------------------------------
\* with the bound on the process's memory: the buffer and one batch
ClientTypeOK ==
  /\ made \in [Clients -> 0..MaxEvents]
  /\ buffer \in [Clients -> Seq(1..MaxEvents)]
  /\ inflight \in [Clients -> Seq(1..MaxEvents)]
  /\ \A c \in Clients : Len(buffer[c]) <= MaxBuffer /\ Len(inflight[c]) <= FlushBatch
  /\ acked \in [Clients -> SUBSET (1..MaxEvents)]
  /\ dropped \in [Clients -> SUBSET (1..MaxEvents)]

\* "A full buffer drops the oldest": what waits is always the newest events, in
\* the order they were made, however pushes, failures and drops interleave.
BufferIsNewest ==
  \A c \in Clients : \A i \in 1..Len(buffer[c]) :
    buffer[c][i] = made[c] - Len(buffer[c]) + i

\* Every event made is waiting, in flight, acknowledged or dropped for a reason.
NothingVanishes ==
  \A c \in Clients :
    1..made[c] = Elements(buffer[c]) \cup Elements(inflight[c])
                   \cup acked[c] \cup dropped[c]

\* Events reach the server in the order they were made: nothing waiting is
\* older than what is in flight, nothing in flight is older than what is done.
DeliversInOrder ==
  \A c \in Clients :
    /\ \A i \in 1..Len(inflight[c]) : \A j \in 1..Len(buffer[c]) :
         inflight[c][i] < buffer[c][j]
    /\ \A e \in acked[c] : \A i \in 1..Len(inflight[c]) : e < inflight[c][i]
    /\ \A e \in acked[c] : \A j \in 1..Len(buffer[c]) : e < buffer[c][j]

\* What the buffer promises whatever the server answers: memory bounded by the
\* cap and one batch, the newest kept, nothing lost, order preserved
\* (client.ts:238-320).
BufferSound == ClientTypeOK /\ BufferIsNewest /\ NothingVanishes /\ DeliversInOrder

(***************************************************************************)
(* The strengthening under which they are inductive (SdkIngest_proofs):    *)
(* the batch in flight is a run of consecutive events, older than the      *)
(* buffer, and unless the buffer is full it is the run just before it.     *)
(***************************************************************************)
BatchIsRun ==
  \A c \in Clients : inflight[c] # <<>> =>
    LET last == inflight[c][1] + Len(inflight[c]) - 1
        oldest == made[c] - Len(buffer[c])
    IN  /\ \A i \in 1..Len(inflight[c]) : inflight[c][i] = inflight[c][1] + i - 1
        /\ last <= oldest
        /\ last = oldest \/ Len(buffer[c]) = MaxBuffer

\* what is acknowledged is older than what waits and what is in flight
AckedFirst ==
  \A c \in Clients : \A e \in acked[c] :
    /\ e <= made[c] - Len(buffer[c])
    /\ inflight[c] # <<>> => e < inflight[c][1]

ClientIInv ==
  ClientTypeOK /\ BufferIsNewest /\ BatchIsRun /\ AckedFirst /\ NothingVanishes
=============================================================================
