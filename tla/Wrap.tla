-------------------------------- MODULE Wrap --------------------------------
(***************************************************************************)
(* The wrapped model clients of the two SDKs (sdk wrap.ts, sdk-py wrap.py): *)
(* an application calls OpenAI or Anthropic through a proxy, which reads    *)
(* the tokens a call used from the answer, or from the events of a stream   *)
(* as the application reads them, and records one event of the call.        *)
(*                                                                          *)
(* A call is in the hands of one consumer. What the vendor would send is    *)
(* given for each call; the consumer reads it to the end, stops early,      *)
(* closes the stream or just drops it, or the vendor fails in between.      *)
(***************************************************************************)
EXTENDS Integers, Sequences, SequencesExt

CONSTANTS
  Calls,
  Call,    \* [sdk, vendor, path, stream, usageOpt, asked] of a call
  Script,  \* what the vendor answers: a sequence of chunks, or one answer
  Absent   \* a field that is missing

VARIABLES
  phase,     \* "never" or "idle" if not made, "awaited", "open", or how it ended
  includes,  \* stream_options.include_usage of the request that was sent
  got,       \* number of chunks the consumer has read
  observer,  \* model, input, output and done of makeStreamObserver
  recorded   \* the events recorded for a call, in order

wrapVars == <<phase, includes, got, observer, recorded>>

Or(a, b) == IF a # Absent THEN a ELSE b
Larger(a, b) == IF a > b THEN a ELSE b
Path(c, path) == Call[c].path = path
Ts(c) == Call[c].sdk = "ts"
Py(c) == Call[c].sdk = "py"

\* whichever side is missing counts as nothing, unless both are
tokensFromUsage(usage) ==
  IF usage = Absent \/ (usage.input = Absent /\ usage.output = Absent) THEN Absent
  ELSE [input |-> Or(usage.input, 0), output |-> Or(usage.output, 0)]

Event(model, input, output) == [model |-> model, input |-> input, output |-> output]

\* nothing is recorded without a usage or a model
recordFromResponse(c, res) ==
  LET tokens == tokensFromUsage(res.usage)
      model == Or(res.model, Call[c].asked)
  IN  IF tokens = Absent \/ model = Absent THEN <<>>
      ELSE <<Event(model, tokens.input, tokens.output)>>

(***************************************************************************)
(* The observer of a stream.                                                *)
(***************************************************************************)
\* the part of a chunk that is looked at: Anthropic's message_start has it in
\* chunk.message and OpenAI's response.completed in chunk.response
Looked(c, chunk) ==
  IF Call[c].vendor = "anthropic"
  THEN IF chunk.type = "message_start" THEN chunk.inner
       ELSE [model |-> Absent, usage |-> IF chunk.type = "message_delta" THEN chunk.usage ELSE Absent]
  ELSE IF chunk.type = "response.completed"
       THEN [model |-> Or(chunk.inner.model, chunk.model), usage |-> chunk.inner.usage]
       ELSE [model |-> chunk.model, usage |-> chunk.usage]

\* counters are cumulative: the larger one is kept
onChunk(c, o, chunk) ==
  LET seen == Looked(c, chunk)
      tokens == tokensFromUsage(seen.usage)
      named == [o EXCEPT !.model = Or(seen.model, @)]
  IN  IF tokens = Absent THEN named
      ELSE [named EXCEPT !.input = Larger(Or(@, 0), tokens.input),
                         !.output = Larger(Or(@, 0), tokens.output)]

\* mutant: a stream that is read to its end and then closed counts twice
onEnd_Again(c) ==
  LET o == observer[c] IN
    IF o.model = Absent \/ (o.input = Absent /\ o.output = Absent) THEN <<>>
    ELSE <<Event(o.model, Or(o.input, 0), Or(o.output, 0))>>

onEnd(c) ==
  LET o == observer[c] IN
    IF o.done \/ o.model = Absent \/ (o.input = Absent /\ o.output = Absent) THEN <<>>
    ELSE <<Event(o.model, Or(o.input, 0), Or(o.output, 0))>>

Ended(c) ==
  /\ recorded' = [recorded EXCEPT ![c] = @ \o onEnd(c)]
  /\ observer' = [observer EXCEPT ![c].done = TRUE]

(***************************************************************************)
(* A call.                                                                  *)
(***************************************************************************)
WrapInit ==
  /\ phase \in [Calls -> {"idle", "never"}]
  /\ includes = [c \in Calls |-> Absent]
  /\ got = [c \in Calls |-> 0]
  /\ observer = [c \in Calls |->
       [model |-> Call[c].asked, input |-> Absent, output |-> Absent, done |-> FALSE]]
  /\ recorded = [c \in Calls |-> <<>>]

\* an OpenAI chat stream reports usage only when asked to: the proxy asks,
\* unless the application says itself whether it wants it
wrapCreate(c) ==
  /\ phase[c] = "idle" /\ ~Path(c, "messages.stream")
  /\ includes' = [includes EXCEPT ![c] =
       IF Call[c].stream /\ Path(c, "chat.completions.create")
       THEN Or(Call[c].usageOpt, TRUE) ELSE Call[c].usageOpt]
  /\ phase' = [phase EXCEPT ![c] = IF Call[c].stream THEN "open" ELSE "awaited"]
  /\ UNCHANGED <<got, observer, recorded>>

\* what the vendor sends for the request it got
Sent(c) == SelectSeq(Script[c], LAMBDA chunk : chunk.onRequest => includes[c] = TRUE)

\* the promise of a call that does not stream is listened to on the side: who
\* does not await the call is counted as well
Answered(c) ==
  /\ phase[c] = "awaited"
  /\ \/ /\ phase' = [phase EXCEPT ![c] = "answered"]
        /\ recorded' = [recorded EXCEPT ![c] = @ \o recordFromResponse(c, Script[c][1])]
     \/ /\ phase' = [phase EXCEPT ![c] = "failed"]
        /\ UNCHANGED recorded
  /\ UNCHANGED <<includes, got, observer>>

Streams(c) == phase[c] \in {"open", "ended"} /\ ~Path(c, "messages.stream")

\* one chunk more; behind the last one the stream says it is done, as often as
\* it is asked
ReadChunk(c) ==
  /\ phase[c] = "open" /\ Streams(c) /\ got[c] < Len(Sent(c))
  /\ got' = [got EXCEPT ![c] = @ + 1]
  /\ observer' = [observer EXCEPT ![c] = onChunk(c, @, Sent(c)[got[c] + 1])]
  /\ UNCHANGED <<phase, includes, recorded>>

ReadEnd(c) ==
  /\ Streams(c) /\ got[c] = Len(Sent(c))
  /\ Ended(c)
  /\ phase' = [phase EXCEPT ![c] = "ended"]
  /\ UNCHANGED <<includes, got>>

\* wrapStream: leaving a for-await loop calls return() or throw(); an error of
\* the vendor's iterator goes through next() unobserved
wrapStream(c) ==
  /\ Ts(c) /\ Streams(c)
  /\ \/ phase' = [phase EXCEPT ![c] = "closed"] /\ Ended(c)
     \/ /\ phase[c] = "open" /\ phase' = [phase EXCEPT ![c] = "failed"]
        /\ UNCHANGED <<observer, recorded>>
  /\ UNCHANGED <<includes, got>>

\* _WrappedStream: the with block or close() ends it, and so does an error of
\* the vendor's iterator; leaving a for loop does not
WrappedStream(c) ==
  /\ Py(c) /\ Streams(c)
  /\ \/ phase' = [phase EXCEPT ![c] = "closed"] /\ Ended(c)
     \/ phase[c] = "open" /\ phase' = [phase EXCEPT ![c] = "failed"] /\ Ended(c)
     \/ /\ phase[c] = "open" /\ phase' = [phase EXCEPT ![c] = "dropped"]
        /\ UNCHANGED <<observer, recorded>>
  /\ UNCHANGED <<includes, got>>

(***************************************************************************)
(* messages.stream(): the vendor's own helper reads the chunks and keeps    *)
(* the message they add up to.                                              *)
(***************************************************************************)
OpenMessages(c) ==
  /\ phase[c] = "idle" /\ Path(c, "messages.stream")
  /\ phase' = [phase EXCEPT ![c] = "open"]
  /\ UNCHANGED <<includes, got, observer, recorded>>

ReadMessages(c) ==
  /\ phase[c] = "open" /\ Path(c, "messages.stream") /\ got[c] < Len(Script[c])
  /\ got' = [got EXCEPT ![c] = @ + 1]
  /\ UNCHANGED <<phase, includes, observer, recorded>>

\* the last usage and model the message has after so many chunks; there is no
\* message before the first
Snapshot(c, n) ==
  LET chunks == SubSeq(Script[c], 1, n)
      counts == [side \in {"input", "output"} |->
        FoldLeft(LAMBDA had, k : LET u == Looked(c, k).usage IN
                   IF u = Absent THEN had ELSE Or(u[side], had), Absent, chunks)]
  IN  [model |-> FoldLeft(LAMBDA had, k : Or(Looked(c, k).model, had), Absent, chunks),
       usage |-> counts]

\* TypeScript: finalMessage is emitted when the stream has ended well
wrapMessagesStream(c) ==
  /\ Ts(c) /\ phase[c] = "open" /\ Path(c, "messages.stream")
  /\ \/ /\ got[c] = Len(Script[c])
        /\ phase' = [phase EXCEPT ![c] = "ended"]
        /\ recorded' = [recorded EXCEPT ![c] =
             @ \o recordFromResponse(c, Snapshot(c, Len(Script[c])))]
     \/ phase' = [phase EXCEPT ![c] = "failed"] /\ UNCHANGED recorded
  /\ UNCHANGED <<includes, got, observer>>

\* Python: leaving the with block records the message as it is by then
WrappedMessageStreamManager(c) ==
  /\ Py(c) /\ phase[c] = "open" /\ Path(c, "messages.stream")
  /\ phase' = [phase EXCEPT ![c] = "closed"]
  /\ recorded' = [recorded EXCEPT ![c] = @ \o recordFromResponse(c, Snapshot(c, got[c]))]
  /\ UNCHANGED <<includes, got, observer>>

WrapNext ==
  \E c \in Calls :
    \/ wrapCreate(c) \/ Answered(c)
    \/ ReadChunk(c) \/ ReadEnd(c) \/ wrapStream(c) \/ WrappedStream(c)
    \/ OpenMessages(c) \/ ReadMessages(c)
    \/ wrapMessagesStream(c) \/ WrappedMessageStreamManager(c)

(***************************************************************************)
(* Properties.                                                              *)
(***************************************************************************)
\* What the vendor has said so far of one side of the usage: the last number
\* it named, whichever event it came in.
Reported(c, side) ==
  LET named == {n \in 1..got[c] :
        LET k == Sent(c)[n]
            u == IF k.inner # Absent THEN k.inner.usage ELSE k.usage
        IN  u # Absent /\ u[side] # Absent}
  IN  IF named = {} THEN Absent
      ELSE LET k == Sent(c)[CHOOSE n \in named : \A m \in named : m <= n]
           IN  IF k.inner # Absent THEN k.inner.usage[side] ELSE k.usage[side]

\* A streamed call is counted at most once, with the last numbers the vendor
\* named before the consumer stopped, and not at all when it named none; once
\* the consumer has read the end or closed the stream it is counted if the
\* vendor named any (wrap.ts: "max() per side is exact. Records once").
WrapCounts ==
  \A c \in Calls : Call[c].stream =>
    LET input == Reported(c, "input")
        output == Reported(c, "output")
        silent == input = Absent /\ output = Absent
    IN  /\ Len(recorded[c]) <= 1
        /\ \A n \in DOMAIN recorded[c] :
             ~silent /\ recorded[c][n].input = Or(input, 0) /\ recorded[c][n].output = Or(output, 0)
        /\ phase[c] \in {"ended", "closed"} /\ ~silent => recorded[c] # <<>>

\* A stream that has named its usage is counted however it comes to an end. It
\* fails: TypeScript loses a stream that breaks off with an error, and Python
\* one the application leaves without closing it.
EndsAreCounted ==
  \A c \in Calls : Call[c].stream /\ phase[c] \in {"ended", "closed", "failed", "dropped"} =>
    (recorded[c] = <<>> => Reported(c, "input") = Absent /\ Reported(c, "output") = Absent)
=============================================================================
