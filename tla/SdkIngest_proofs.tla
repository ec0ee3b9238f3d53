---------------------------- MODULE SdkIngest_proofs ----------------------------
(***************************************************************************)
(* The first part is about SdkClient alone, for every buffer size, batch    *)
(* size and number of events, and for a server that may answer anything at  *)
(* any time. SdkIngest implements SdkClient: whatever the network loses and *)
(* the server refuses, a client does what SdkClient lets it do, so what the *)
(* first part proves of the buffer holds in the whole system.               *)
(***************************************************************************)
EXTENDS SdkIngest, TLAPS

(***************************************************************************)
(* Slices of a sequence.                                                   *)
(***************************************************************************)
LEMMA Suffix ==
  ASSUME NEW S, NEW s \in Seq(S), NEW k \in 0..Len(s)
  PROVE  /\ SubSeq(s, k + 1, Len(s)) \in Seq(S)
         /\ Len(SubSeq(s, k + 1, Len(s))) = Len(s) - k
         /\ \A i \in 1..Len(s) - k : SubSeq(s, k + 1, Len(s))[i] = s[k + i]
OBVIOUS

LEMMA Prefix ==
  ASSUME NEW S, NEW s \in Seq(S), NEW k \in 0..Len(s)
  PROVE  /\ SubSeq(s, 1, k) \in Seq(S)
         /\ Len(SubSeq(s, 1, k)) = k
         /\ \A i \in 1..k : SubSeq(s, 1, k)[i] = s[i]
OBVIOUS

\* Capped keeps the last elements, as many as fit.
LEMMA CappedKeepsNewest ==
  ASSUME NEW S, NEW s \in Seq(S)
  PROVE  /\ Excess(Len(s)) \in 0..Len(s)
         /\ Capped(s) \in Seq(S)
         /\ Len(Capped(s)) = Len(s) - Excess(Len(s))
         /\ Len(Capped(s)) <= MaxBuffer
         /\ Len(s) > MaxBuffer => Len(Capped(s)) = MaxBuffer
         /\ Len(s) <= MaxBuffer => Len(Capped(s)) = Len(s)
         /\ \A i \in 1..Len(Capped(s)) : Capped(s)[i] = s[Excess(Len(s)) + i]
<1>1. Excess(Len(s)) \in 0..Len(s)
  BY ClientAssumption DEF Excess, Smaller
<1>2. /\ Len(s) > MaxBuffer => Len(s) - Excess(Len(s)) = MaxBuffer
      /\ Len(s) <= MaxBuffer => Len(s) - Excess(Len(s)) = Len(s)
  BY ClientAssumption DEF Excess, Smaller
<1>3. /\ Capped(s) \in Seq(S)
      /\ Len(Capped(s)) = Len(s) - Excess(Len(s))
      /\ \A i \in 1..Len(s) - Excess(Len(s)) : Capped(s)[i] = s[Excess(Len(s)) + i]
  <2> HIDE DEF Excess
  <2>1. QED BY <1>1, Suffix DEF Capped
<1>4. Len(s) - Excess(Len(s)) <= MaxBuffer
  BY ClientAssumption DEF Excess, Smaller
<1>5. QED BY <1>1, <1>2, <1>3, <1>4

LEMMA ElementsAre ==
  ASSUME NEW S, NEW s \in Seq(S)
  PROVE  Elements(s) \subseteq S
<1>1. \A i \in 1..Len(s) : s[i] \in S
  OBVIOUS
<1>2. QED BY <1>1 DEF Elements

LEMMA ElementsOfParts ==
  ASSUME NEW S, NEW s \in Seq(S), NEW k \in 0..Len(s)
  PROVE  Elements(s) = Elements(SubSeq(s, 1, k)) \cup Elements(SubSeq(s, k + 1, Len(s)))
<1> DEFINE p == SubSeq(s, 1, k)
           q == SubSeq(s, k + 1, Len(s))
<1>1. Len(p) = k /\ Len(q) = Len(s) - k
  BY Prefix, Suffix
<1>2. \A i \in 1..Len(p) : p[i] = s[i]
  BY Prefix, <1>1
<1>3. \A i \in 1..Len(q) : q[i] = s[k + i]
  BY Suffix, <1>1
<1>4. ASSUME NEW i \in 1..Len(s)
      PROVE  s[i] \in Elements(p) \cup Elements(q)
  <2>1. CASE i <= k
    <3>1. i \in 1..Len(p) /\ s[i] = p[i]
      BY <1>1, <1>2, <2>1
    <3>2. QED BY <3>1 DEF Elements
  <2>2. CASE i > k
    <3>1. i - k \in 1..Len(q) /\ s[i] = q[i - k]
      BY <1>1, <1>3, <2>2
    <3>2. QED BY <3>1 DEF Elements
  <2>3. QED BY <2>1, <2>2
<1>5. ASSUME NEW i \in 1..Len(p)
      PROVE  p[i] \in Elements(s)
  BY <1>1, <1>2 DEF Elements
<1>6. ASSUME NEW i \in 1..Len(q)
      PROVE  q[i] \in Elements(s)
  <2>1. k + i \in 1..Len(s) /\ q[i] = s[k + i]
    BY <1>1, <1>3
  <2>2. QED BY <2>1 DEF Elements
<1>7. Elements(s) \subseteq Elements(p) \cup Elements(q)
  BY <1>4 DEF Elements
<1>8. Elements(p) \cup Elements(q) \subseteq Elements(s)
  BY <1>5, <1>6 DEF Elements
<1>9. QED BY <1>7, <1>8

LEMMA ElementsOfConcat ==
  ASSUME NEW S, NEW s \in Seq(S), NEW t \in Seq(S)
  PROVE  /\ s \o t \in Seq(S)
         /\ Len(s \o t) = Len(s) + Len(t)
         /\ \A i \in 1..Len(s) : (s \o t)[i] = s[i]
         /\ \A i \in 1..Len(t) : (s \o t)[Len(s) + i] = t[i]
         /\ Elements(s \o t) = Elements(s) \cup Elements(t)
<1>1. /\ s \o t \in Seq(S)
      /\ Len(s \o t) = Len(s) + Len(t)
      /\ \A i \in 1..Len(s) : (s \o t)[i] = s[i]
      /\ \A i \in 1..Len(t) : (s \o t)[Len(s) + i] = t[i]
  OBVIOUS
<1>2. ASSUME NEW i \in 1..Len(s \o t)
      PROVE  (s \o t)[i] \in Elements(s) \cup Elements(t)
  <2>1. CASE i <= Len(s)
    BY <1>1, <2>1 DEF Elements
  <2>2. CASE i > Len(s)
    <3>1. i - Len(s) \in 1..Len(t) /\ (s \o t)[i] = t[i - Len(s)]
      BY <1>1, <2>2
    <3>2. QED BY <3>1 DEF Elements
  <2>3. QED BY <1>1, <2>1, <2>2
<1>3. ASSUME NEW i \in 1..Len(s)
      PROVE  s[i] \in Elements(s \o t)
  BY <1>1 DEF Elements
<1>4. ASSUME NEW i \in 1..Len(t)
      PROVE  t[i] \in Elements(s \o t)
  <2>1. Len(s) + i \in 1..Len(s \o t) /\ (s \o t)[Len(s) + i] = t[i]
    BY <1>1
  <2>2. QED BY <2>1 DEF Elements
<1>5. Elements(s \o t) = Elements(s) \cup Elements(t)
  BY <1>2, <1>3, <1>4 DEF Elements
<1>6. QED BY <1>1, <1>5

-----------------------------------------------------------------------------
(***************************************************************************)
(* The invariant of one client: m events made, b waiting, f in flight, a   *)
(* acknowledged, x dropped.                                                *)
(***************************************************************************)
Serial == 1..MaxEvents

Sound(m, b, f, a, x) ==
  /\ m \in 0..MaxEvents
  /\ b \in Seq(Serial) /\ Len(b) <= MaxBuffer
  /\ f \in Seq(Serial) /\ Len(f) <= FlushBatch
  /\ a \in SUBSET Serial
  /\ x \in SUBSET Serial
  /\ \A i \in 1..Len(b) : b[i] = m - Len(b) + i
  /\ f # <<>> =>
       /\ \A i \in 1..Len(f) : f[i] = f[1] + i - 1
       /\ f[1] + Len(f) - 1 <= m - Len(b)
       /\ f[1] + Len(f) - 1 = m - Len(b) \/ Len(b) = MaxBuffer
  /\ \A e \in a : e <= m - Len(b) /\ (f # <<>> => e < f[1])
  /\ 1..m = Elements(b) \cup Elements(f) \cup a \cup x

Typed ==
  /\ DOMAIN made = Clients /\ made = [c \in Clients |-> made[c]]
  /\ DOMAIN buffer = Clients /\ buffer = [c \in Clients |-> buffer[c]]
  /\ DOMAIN inflight = Clients /\ inflight = [c \in Clients |-> inflight[c]]
  /\ DOMAIN acked = Clients /\ acked = [c \in Clients |-> acked[c]]
  /\ DOMAIN dropped = Clients /\ dropped = [c \in Clients |-> dropped[c]]

SoundAt(c) == Sound(made[c], buffer[c], inflight[c], acked[c], dropped[c])

AllSound == \A c \in Clients : SoundAt(c)

LEMMA SoundGivesIInv == Typed /\ AllSound => ClientIInv
<1> SUFFICES ASSUME Typed, AllSound PROVE ClientIInv
  OBVIOUS
<1>1. ClientTypeOK
  BY DEF Typed, AllSound, SoundAt, Sound, Serial, ClientTypeOK
<1>2. BufferIsNewest /\ BatchIsRun /\ AckedFirst /\ NothingVanishes
  BY DEF AllSound, SoundAt, Sound, BufferIsNewest, BatchIsRun, AckedFirst, NothingVanishes
<1>3. QED BY <1>1, <1>2 DEF ClientIInv

LEMMA IInvGivesSound ==
  ASSUME ClientIInv
  PROVE  Typed /\ \A c \in Clients : SoundAt(c)
<1>1. Typed
  BY DEF ClientIInv, ClientTypeOK, Typed
<1>2. SUFFICES ASSUME NEW c \in Clients PROVE SoundAt(c)
  BY <1>1
<1>3. /\ made[c] \in 0..MaxEvents
      /\ buffer[c] \in Seq(Serial) /\ Len(buffer[c]) <= MaxBuffer
      /\ inflight[c] \in Seq(Serial) /\ Len(inflight[c]) <= FlushBatch
      /\ acked[c] \in SUBSET Serial
      /\ dropped[c] \in SUBSET Serial
  BY <1>2 DEF ClientIInv, ClientTypeOK, Serial
<1>4. QED
  BY <1>2, <1>3 DEF ClientIInv, SoundAt, Sound, BufferIsNewest, BatchIsRun,
                    AckedFirst, NothingVanishes

-----------------------------------------------------------------------------
(***************************************************************************)
(* Each operation keeps one client sound. The sequences an operation makes *)
(* come in as what is known of them, never as the terms that make them.    *)
(***************************************************************************)
\* s, from position j on, ends with event m and skips none
EndsWith(m, s, j) == \A i \in j..Len(s) : s[i] = m - Len(s) + i

\* the part of the invariant that speaks of the buffer, after a refill
LEMMA Refilled ==
  ASSUME NEW m \in Nat, NEW s \in Seq(Serial), NEW x \in SUBSET Serial,
         EndsWith(m, s, Excess(Len(s)) + 1)
  PROVE  /\ Capped(s) \in Seq(Serial)
         /\ EndsWith(m, Capped(s), 1)
         /\ x \cup (Elements(s) \ Elements(Capped(s))) \in SUBSET Serial
         /\ Elements(Capped(s)) \cup (x \cup (Elements(s) \ Elements(Capped(s))))
              = Elements(s) \cup x
<1>1. Excess(Len(s)) \in 0..Len(s) /\ Capped(s) \in Seq(Serial)
      /\ Len(Capped(s)) = Len(s) - Excess(Len(s))
      /\ \A i \in 1..Len(Capped(s)) : Capped(s)[i] = s[Excess(Len(s)) + i]
  BY CappedKeepsNewest
<1>2. ASSUME NEW i \in 1..Len(Capped(s))
      PROVE  Capped(s)[i] = m - Len(Capped(s)) + i
  <2>1. Excess(Len(s)) + i \in Excess(Len(s)) + 1..Len(s)
    BY <1>1
  <2>2. s[Excess(Len(s)) + i] = m - Len(s) + (Excess(Len(s)) + i)
    BY <2>1 DEF EndsWith
  <2>3. QED BY <1>1, <2>2
<1>3. Elements(s) \subseteq Serial
  BY ElementsAre
<1>4. Elements(Capped(s)) \subseteq Elements(s)
  <2>1. SUFFICES ASSUME NEW i \in 1..Len(Capped(s))
                 PROVE  Capped(s)[i] \in Elements(s)
    BY DEF Elements
  <2>2. Excess(Len(s)) + i \in 1..Len(s) /\ Capped(s)[i] = s[Excess(Len(s)) + i]
    BY <1>1, <2>1
  <2>3. QED BY <2>2 DEF Elements
<1>5. QED BY <1>1, <1>2, <1>3, <1>4 DEF EndsWith

\* one more event: the oldest that waits moves up only if the buffer is full
LEMMA OneMore ==
  ASSUME NEW m \in Nat, NEW cap \in Nat, NEW lb \in Nat, NEW lk \in Nat,
         lb <= cap, lb + 1 > cap => lk = cap, lb + 1 <= cap => lk = lb + 1
  PROVE  /\ m + 1 - lk >= m - lb
         /\ m + 1 - lk = m - lb \/ lb = cap
         /\ lb = cap => lk = cap
OBVIOUS

\* a batch that ends at or before the oldest that waits still does
LEMMA StillBefore ==
  ASSUME NEW cap, NEW last \in Int, NEW lb, NEW lk, NEW old \in Int, NEW new \in Int,
         last <= old, last = old \/ lb = cap,
         new >= old, new = old \/ lb = cap, lb = cap => lk = cap
  PROVE  last <= new /\ (last = new \/ lk = cap)
OBVIOUS

LEMMA PushSound ==
  ASSUME NEW m, NEW b, NEW f, NEW a, NEW x, Sound(m, b, f, a, x),
         NEW n \in 1..MaxEvents, n = m + 1,
         NEW s \in Seq(Serial), Len(s) = Len(b) + 1,
         \A i \in 1..Len(b) : s[i] = b[i], s[Len(b) + 1] = n,
         Elements(s) = Elements(b) \cup {n},
         NEW k, k = Capped(s)
  PROVE  Sound(n, k, f, a, x \cup (Elements(s) \ Elements(k)))
<1>1. /\ MaxBuffer \in Nat /\ MaxEvents \in Nat
      /\ m \in Nat /\ b \in Seq(Serial) /\ Len(b) <= MaxBuffer
      /\ x \in SUBSET Serial
      /\ \A i \in 1..Len(b) : b[i] = m - Len(b) + i
  BY ClientAssumption DEF Sound
<1>2. Len(b) \in Nat /\ n \in Nat
  BY <1>1
<1>3. \A i \in 1..Len(s) : s[i] = n - Len(s) + i
  <2>1. ASSUME NEW i \in 1..Len(s)
        PROVE  s[i] = n - Len(s) + i
    <3>1. CASE i = Len(b) + 1
      BY <1>2, <3>1
    <3>2. CASE i # Len(b) + 1
      <4>1. i \in 1..Len(b) /\ s[i] = b[i]
        BY <1>2, <3>2
      <4>2. b[i] = m - Len(b) + i
        BY <1>1, <4>1
      <4>3. QED BY <1>1, <1>2, <4>1, <4>2
    <3>3. QED BY <3>1, <3>2
  <2>2. QED BY <2>1
<1>4. /\ k \in Seq(Serial) /\ Len(k) <= MaxBuffer
      /\ Len(s) > MaxBuffer => Len(k) = MaxBuffer
      /\ Len(s) <= MaxBuffer => Len(k) = Len(s)
      /\ Excess(Len(s)) \in 0..Len(s)
  BY CappedKeepsNewest
<1>5. /\ EndsWith(n, k, 1)
      /\ x \cup (Elements(s) \ Elements(k)) \in SUBSET Serial
      /\ Elements(k) \cup (x \cup (Elements(s) \ Elements(k))) = Elements(s) \cup x
  <2>1. EndsWith(n, s, Excess(Len(s)) + 1)
    BY <1>3, <1>4 DEF EndsWith
  <2>2. QED BY <1>1, <1>2, <2>1, Refilled
<1>6. 1..n = Elements(k) \cup Elements(f) \cup a \cup (x \cup (Elements(s) \ Elements(k)))
  <2>1. 1..n = 1..m \cup {n}
    BY <1>1
  <2>2. 1..m = Elements(b) \cup Elements(f) \cup a \cup x
    BY DEF Sound
  <2>3. QED BY <1>5, <2>1, <2>2
<1>7. Len(k) \in Nat
  BY <1>4
<1>8. /\ n - Len(k) >= m - Len(b)
      /\ n - Len(k) = m - Len(b) \/ Len(b) = MaxBuffer
      /\ Len(b) = MaxBuffer => Len(k) = MaxBuffer
  <2>1. Len(b) + 1 > MaxBuffer => Len(k) = MaxBuffer
    BY <1>4
  <2>2. Len(b) + 1 <= MaxBuffer => Len(k) = Len(b) + 1
    BY <1>4
  <2>3. QED BY <1>1, <1>2, <1>7, <2>1, <2>2, OneMore
<1>9. ASSUME f # <<>>
      PROVE  /\ \A i \in 1..Len(f) : f[i] = f[1] + i - 1
             /\ f[1] + Len(f) - 1 <= n - Len(k)
             /\ f[1] + Len(f) - 1 = n - Len(k) \/ Len(k) = MaxBuffer
  <2> DEFINE last == f[1] + Len(f) - 1
  <2>1. f \in Seq(Serial) /\ Len(f) \in Nat
    BY DEF Sound
  <2>2. f[1] \in Int
    BY <1>1, <1>9, <2>1 DEF Serial
  <2>3. last \in Int
    BY <2>1, <2>2
  <2>4. /\ \A i \in 1..Len(f) : f[i] = f[1] + i - 1
        /\ last <= m - Len(b)
        /\ last = m - Len(b) \/ Len(b) = MaxBuffer
    BY <1>9 DEF Sound
  <2> HIDE DEF last
  <2>5. last <= n - Len(k) /\ (last = n - Len(k) \/ Len(k) = MaxBuffer)
    <3>1. m - Len(b) \in Int /\ n - Len(k) \in Int
      BY <1>1, <1>2, <1>7
    <3>2. QED BY <1>8, <2>3, <2>4, <3>1, StillBefore
  <2>6. QED BY <2>4, <2>5 DEF last
<1>10. ASSUME NEW e \in a
       PROVE  e <= n - Len(k) /\ (f # <<>> => e < f[1])
  <2>1. e \in Int /\ e <= m - Len(b) /\ (f # <<>> => e < f[1])
    BY <1>1 DEF Sound, Serial
  <2>2. QED BY <1>1, <1>2, <1>7, <1>8, <2>1
<1>11. /\ f \in Seq(Serial) /\ Len(f) <= FlushBatch
       /\ a \in SUBSET Serial
  BY DEF Sound
<1>12. n \in 0..MaxEvents /\ \A i \in 1..Len(k) : k[i] = n - Len(k) + i
  BY <1>2, <1>5 DEF EndsWith
<1>13. QED BY <1>4, <1>5, <1>6, <1>9, <1>10, <1>11, <1>12 DEF Sound

LEMMA TakeSound ==
  ASSUME NEW m, NEW b, NEW a, NEW x, Sound(m, b, <<>>, a, x),
         NEW k \in 1..Len(b), k <= FlushBatch,
         NEW p \in Seq(Serial), Len(p) = k, \A i \in 1..k : p[i] = b[i],
         NEW q \in Seq(Serial), Len(q) = Len(b) - k,
         \A i \in 1..Len(b) - k : q[i] = b[k + i],
         Elements(b) = Elements(p) \cup Elements(q)
  PROVE  Sound(m, q, p, a, x)
<1>1. /\ MaxBuffer \in Nat /\ MaxEvents \in Nat
      /\ m \in 0..MaxEvents /\ b \in Seq(Serial) /\ Len(b) <= MaxBuffer
      /\ a \in SUBSET Serial /\ x \in SUBSET Serial
      /\ \A i \in 1..Len(b) : b[i] = m - Len(b) + i
      /\ \A e \in a : e <= m - Len(b)
  BY ClientAssumption DEF Sound
<1>2. Len(b) \in Nat /\ m \in Nat /\ k \in Nat
  BY <1>1
<1>3. \A i \in 1..Len(p) : p[i] = m - Len(b) + i
  BY <1>1, <1>2
<1>4. ASSUME NEW i \in 1..Len(q)
      PROVE  q[i] = m - Len(q) + i
  <2>1. q[i] = b[k + i] /\ k + i \in 1..Len(b)
    BY <1>2
  <2>2. b[k + i] = m - Len(b) + (k + i)
    BY <1>1, <2>1
  <2>3. QED BY <1>2, <2>1, <2>2
<1>5. p[1] = m - Len(b) + 1
  BY <1>2, <1>3
<1>6. \A i \in 1..Len(p) : p[i] = p[1] + i - 1
  BY <1>2, <1>3, <1>5
<1>7. p[1] + Len(p) - 1 = m - Len(q) /\ m - Len(q) \in Int
  BY <1>2, <1>5
<1>8. ASSUME NEW e \in a
      PROVE  e <= m - Len(q) /\ e < p[1]
  <2>1. e \in Int /\ e <= m - Len(b)
    BY <1>1 DEF Serial
  <2>2. QED BY <1>2, <1>5, <2>1
<1>9. 1..m = Elements(q) \cup Elements(p) \cup a \cup x
  <2>1. 1..m = Elements(b) \cup Elements(<<>>) \cup a \cup x
    BY DEF Sound
  <2>2. Elements(<<>>) = {}
    BY DEF Elements
  <2>3. QED BY <2>1, <2>2
<1>10. Len(q) <= MaxBuffer /\ Len(p) <= FlushBatch
  BY <1>1, <1>2
<1>11. QED
  BY <1>1, <1>4, <1>6, <1>7, <1>8, <1>9, <1>10 DEF Sound

LEMMA RequeueSound ==
  ASSUME NEW m, NEW b, NEW f, NEW a, NEW x, Sound(m, b, f, a, x), f # <<>>,
         NEW s \in Seq(Serial), Len(s) = Len(f) + Len(b),
         \A i \in 1..Len(f) : s[i] = f[i],
         \A i \in 1..Len(b) : s[Len(f) + i] = b[i],
         Elements(s) = Elements(f) \cup Elements(b),
         NEW k, k = Capped(s)
  PROVE  Sound(m, k, <<>>, a, x \cup (Elements(s) \ Elements(k)))
<1> DEFINE last == f[1] + Len(f) - 1
<1>1. /\ MaxBuffer \in Nat /\ MaxEvents \in Nat
      /\ m \in 0..MaxEvents /\ b \in Seq(Serial) /\ Len(b) <= MaxBuffer
      /\ f \in Seq(Serial) /\ x \in SUBSET Serial /\ a \in SUBSET Serial
      /\ \A i \in 1..Len(b) : b[i] = m - Len(b) + i
      /\ \A i \in 1..Len(f) : f[i] = f[1] + i - 1
      /\ last = m - Len(b) \/ Len(b) = MaxBuffer
      /\ \A e \in a : e <= m - Len(b) /\ e < f[1]
      /\ 1..m = Elements(b) \cup Elements(f) \cup a \cup x
  BY ClientAssumption DEF Sound
<1>2. Len(b) \in Nat /\ Len(f) \in Nat \ {0} /\ m \in Nat
  BY <1>1
<1>3. f[1] \in Int
  BY <1>1, <1>2 DEF Serial
<1>4. /\ k \in Seq(Serial) /\ Len(k) <= MaxBuffer
      /\ Len(s) > MaxBuffer => Len(k) = MaxBuffer
      /\ Len(s) <= MaxBuffer => Len(k) = Len(s)
      /\ Len(k) = Len(s) - Excess(Len(s))
      /\ Excess(Len(s)) \in 0..Len(s)
  BY CappedKeepsNewest
<1>5. Len(k) \in Nat /\ Len(k) <= Len(s)
  BY <1>2, <1>4
<1>6. ASSUME NEW i \in Excess(Len(s)) + 1..Len(s)
      PROVE  s[i] = m - Len(s) + i
  <2>1. CASE i > Len(f)
    <3>1. PICK j \in 1..Len(b) : i = Len(f) + j
      <4>1. i - Len(f) \in 1..Len(b) /\ i = Len(f) + (i - Len(f))
        BY <1>2, <1>4, <2>1
      <4>2. QED BY <4>1
    <3>2. s[i] = b[j] /\ b[j] = m - Len(b) + j
      BY <1>1, <3>1
    <3>3. QED BY <1>2, <3>1, <3>2
  <2>2. CASE i <= Len(f)
    <3>1. i \in 1..Len(f) /\ s[i] = f[1] + i - 1
      BY <1>1, <1>2, <1>4, <2>2
    <3>2. Len(b) # MaxBuffer
      BY <1>1, <1>2, <1>4, <2>2
    <3>3. f[1] + Len(f) - 1 = m - Len(b)
      BY <1>1, <3>2
    <3>4. QED BY <1>2, <1>3, <3>1, <3>3
  <2>3. QED BY <1>2, <1>4, <2>1, <2>2
<1>7. /\ EndsWith(m, k, 1)
      /\ x \cup (Elements(s) \ Elements(k)) \in SUBSET Serial
      /\ Elements(k) \cup (x \cup (Elements(s) \ Elements(k))) = Elements(s) \cup x
  <2>1. EndsWith(m, s, Excess(Len(s)) + 1)
    BY <1>6 DEF EndsWith
  <2>2. x \in SUBSET Serial /\ m \in Nat
    BY <1>1
  <2> HIDE DEF last
  <2>3. EndsWith(m, Capped(s), 1)
    BY <2>1, <2>2, Refilled
  <2>4. x \cup (Elements(s) \ Elements(k)) \in SUBSET Serial
    BY <2>1, <2>2, ElementsAre
  <2>5. Elements(Capped(s)) \cup (x \cup (Elements(s) \ Elements(Capped(s)))) = Elements(s) \cup x
    BY <2>1, <2>2, Refilled
  <2>6. QED BY <2>3, <2>4, <2>5
<1>8. ASSUME NEW e \in a
      PROVE  e <= m - Len(k)
  <2>1. e \in Int /\ e <= m - Len(b) /\ e < f[1]
    BY <1>1 DEF Serial
  <2>2. CASE Len(b) = MaxBuffer
    BY <1>1, <1>2, <1>4, <1>5, <2>1, <2>2
  <2>3. CASE last = m - Len(b)
    BY <1>2, <1>3, <1>5, <2>1, <2>3
  <2>4. QED BY <1>1, <2>2, <2>3
<1>9. 1..m = Elements(k) \cup Elements(<<>>) \cup a \cup (x \cup (Elements(s) \ Elements(k)))
  <2>1. Elements(<<>>) = {}
    BY DEF Elements
  <2>2. QED BY <1>1, <1>7, <2>1
<1>10. \A i \in 1..Len(k) : k[i] = m - Len(k) + i
  BY <1>7 DEF EndsWith
<1>11. <<>> \in Seq(Serial) /\ Len(<<>>) <= FlushBatch
  BY ClientAssumption
<1>12. QED BY <1>1, <1>4, <1>7, <1>8, <1>9, <1>10, <1>11 DEF Sound

LEMMA DoneSound ==
  ASSUME NEW m, NEW b, NEW f, NEW a, NEW x, Sound(m, b, f, a, x), f # <<>>
  PROVE  Sound(m, b, <<>>, a \cup Elements(f), x)
<1>1. Elements(f) \subseteq Serial
  BY ElementsAre DEF Sound
<1>2. /\ b \in Seq(Serial) /\ f \in Seq(Serial) /\ m \in Nat
      /\ \A i \in 1..Len(f) : f[i] = f[1] + i - 1
      /\ f[1] + Len(f) - 1 <= m - Len(b)
  BY DEF Sound
<1>3. f[1] \in Int /\ Len(f) \in Nat /\ Len(b) \in Nat
  BY <1>2, ClientAssumption DEF Serial
<1>4. \A i \in 1..Len(f) : f[i] <= m - Len(b)
  BY <1>2, <1>3
<1>5. \A e \in a \cup Elements(f) : e <= m - Len(b)
  BY <1>4 DEF Sound, Elements
<1>6. <<>> \in Seq(Serial) /\ Len(<<>>) <= FlushBatch /\ Elements(<<>>) = {}
  BY ClientAssumption DEF Elements
<1>7. /\ m \in 0..MaxEvents /\ Len(b) <= MaxBuffer
      /\ a \in SUBSET Serial /\ x \in SUBSET Serial
      /\ \A i \in 1..Len(b) : b[i] = m - Len(b) + i
      /\ 1..m = Elements(b) \cup Elements(f) \cup a \cup x
  BY DEF Sound
<1>8. 1..m = Elements(b) \cup Elements(<<>>) \cup (a \cup Elements(f)) \cup x
  BY <1>6, <1>7
<1>9. QED BY <1>1, <1>2, <1>5, <1>6, <1>7, <1>8 DEF Sound

LEMMA DiscardSound ==
  ASSUME NEW m, NEW b, NEW f, NEW a, NEW x, Sound(m, b, f, a, x)
  PROVE  Sound(m, b, <<>>, a, x \cup Elements(f))
<1>1. Elements(f) \subseteq Serial
  BY ElementsAre DEF Sound
<1>2. <<>> \in Seq(Serial) /\ Len(<<>>) <= FlushBatch /\ Elements(<<>>) = {}
  BY ClientAssumption DEF Elements
<1>3. /\ m \in 0..MaxEvents /\ b \in Seq(Serial) /\ Len(b) <= MaxBuffer
      /\ a \in SUBSET Serial /\ x \in SUBSET Serial
      /\ \A i \in 1..Len(b) : b[i] = m - Len(b) + i
      /\ \A e \in a : e <= m - Len(b)
      /\ 1..m = Elements(b) \cup Elements(f) \cup a \cup x
  BY DEF Sound
<1>4. 1..m = Elements(b) \cup Elements(<<>>) \cup a \cup (x \cup Elements(f))
  BY <1>2, <1>3
<1>5. QED BY <1>1, <1>2, <1>3, <1>4 DEF Sound

-----------------------------------------------------------------------------
(***************************************************************************)
(* The steps.                                                              *)
(***************************************************************************)
\* A step that leaves one client sound and the others alone keeps them all.
LEMMA OneClient ==
  ASSUME ClientIInv, NEW c \in Clients,
         NEW m, NEW b, NEW f, NEW a, NEW x, Sound(m, b, f, a, x),
         made' = [made EXCEPT ![c] = m], buffer' = [buffer EXCEPT ![c] = b],
         inflight' = [inflight EXCEPT ![c] = f], acked' = [acked EXCEPT ![c] = a],
         dropped' = [dropped EXCEPT ![c] = x]
  PROVE  ClientIInv'
<1>1. Typed /\ \A d \in Clients : SoundAt(d)
  BY IInvGivesSound
<1>2. Typed'
  BY <1>1 DEF Typed
<1>3. ASSUME NEW d \in Clients
      PROVE  SoundAt(d)'
  <2>1. CASE d = c
    BY <1>1, <2>1 DEF Typed, SoundAt
  <2>2. CASE d # c
    BY <1>1, <2>2 DEF Typed, SoundAt
  <2>3. QED BY <2>1, <2>2
<1>4. Typed' /\ AllSound'
  BY <1>2, <1>3 DEF AllSound
<1>5. QED BY <1>4, SoundGivesIInv, PTL

LEMMA InitSound == ClientInit => ClientIInv
<1> SUFFICES ASSUME ClientInit PROVE ClientIInv
  OBVIOUS
<1>1. Typed
  BY DEF ClientInit, Typed
<1>2. \A c \in Clients : SoundAt(c)
  <2>1. <<>> \in Seq(Serial) /\ Len(<<>>) = 0 /\ Elements(<<>>) = {}
    BY DEF Elements
  <2>2. 0 \in 0..MaxEvents /\ 0 <= MaxBuffer /\ 0 <= FlushBatch /\ 1..0 = {}
    BY ClientAssumption
  <2>3. Sound(0, <<>>, <<>>, {}, {})
    BY <2>1, <2>2 DEF Sound
  <2>4. QED BY <2>3 DEF ClientInit, SoundAt
<1>3. QED BY <1>1, <1>2, SoundGivesIInv DEF AllSound

LEMMA StepSound == ClientIInv /\ [ClientNext]_clientVars => ClientIInv'
<1> SUFFICES ASSUME ClientIInv, [ClientNext]_clientVars PROVE ClientIInv'
  OBVIOUS
<1>1. Typed /\ \A d \in Clients : SoundAt(d)
  BY IInvGivesSound
<1>2. ASSUME NEW c \in Clients, Push(c)
      PROVE  ClientIInv'
  <2> DEFINE n == made[c] + 1
             s == Append(buffer[c], made[c] + 1)
  <2>1. Sound(made[c], buffer[c], inflight[c], acked[c], dropped[c])
    BY <1>1 DEF SoundAt
  <2>2. buffer[c] \in Seq(Serial) /\ n \in 1..MaxEvents /\ n \in Serial /\ n = made[c] + 1
    BY <1>2, <2>1, ClientAssumption DEF Sound, Push, Serial
  <2> HIDE DEF n
  <2>3. s = Append(buffer[c], n)
    BY <2>2
  <2> HIDE DEF s
  <2>4. /\ s \in Seq(Serial) /\ Len(s) = Len(buffer[c]) + 1
        /\ \A i \in 1..Len(buffer[c]) : s[i] = buffer[c][i]
        /\ s[Len(buffer[c]) + 1] = n
    BY <2>2, <2>3
  <2>5. Elements(s) = Elements(buffer[c]) \cup {n}
    <3>1. PICK t \in Seq(Serial) : t = <<n>> /\ Elements(t) = {n}
      <4>1. <<n>> \in Seq(Serial)
        BY <2>2
      <4>2. Elements(<<n>>) = {n}
        BY DEF Elements
      <4>3. QED BY <4>1, <4>2
    <3>2. Elements(buffer[c] \o t) = Elements(buffer[c]) \cup Elements(t)
      BY <2>2, ElementsOfConcat
    <3>3. s = buffer[c] \o t
      BY <2>2, <2>3, <3>1
    <3>4. QED BY <3>1, <3>2, <3>3
  <2>6. Sound(n, Capped(s), inflight[c], acked[c],
              dropped[c] \cup (Elements(s) \ Elements(Capped(s))))
    BY <2>1, <2>2, <2>4, <2>5, PushSound
  <2>7. /\ made' = [made EXCEPT ![c] = n]
        /\ buffer' = [buffer EXCEPT ![c] = Capped(s)]
        /\ inflight' = [inflight EXCEPT ![c] = inflight[c]]
        /\ acked' = [acked EXCEPT ![c] = acked[c]]
        /\ dropped' = [dropped EXCEPT ![c] =
             dropped[c] \cup (Elements(s) \ Elements(Capped(s)))]
    BY <1>1, <1>2 DEF Push, Refill, Typed, n, s
  <2>8. QED BY <1>2, <2>6, <2>7, OneClient
<1>3. ASSUME NEW c \in Clients, Take(c)
      PROVE  ClientIInv'
  <2> DEFINE b == buffer[c]
             k == Smaller(FlushBatch, Len(b))
             p == SubSeq(b, 1, k)
             q == SubSeq(b, k + 1, Len(b))
  <2>1. Sound(made[c], b, <<>>, acked[c], dropped[c]) /\ b # <<>>
    BY <1>1, <1>3 DEF SoundAt, Take
  <2>2. b \in Seq(Serial)
    BY <2>1 DEF Sound
  <2>3. k \in 1..Len(b) /\ k <= FlushBatch /\ k \in 0..Len(b)
    BY <2>1, <2>2, ClientAssumption DEF Smaller
  <2>4. /\ made' = [made EXCEPT ![c] = made[c]]
        /\ buffer' = [buffer EXCEPT ![c] = q]
        /\ inflight' = [inflight EXCEPT ![c] = p]
        /\ acked' = [acked EXCEPT ![c] = acked[c]]
        /\ dropped' = [dropped EXCEPT ![c] = dropped[c]]
    BY <1>1, <1>3 DEF Take, Typed
  <2> HIDE DEF b, k
  <2>5. /\ p \in Seq(Serial) /\ Len(p) = k
        /\ \A i \in 1..k : p[i] = b[i]
    BY <2>2, <2>3, Prefix
  <2>6. /\ q \in Seq(Serial) /\ Len(q) = Len(b) - k
        /\ \A i \in 1..Len(b) - k : q[i] = b[k + i]
    BY <2>2, <2>3, Suffix
  <2>7. Elements(b) = Elements(p) \cup Elements(q)
    BY <2>2, <2>3, ElementsOfParts
  <2> HIDE DEF p, q
  <2>8. Sound(made[c], q, p, acked[c], dropped[c])
    BY <2>1, <2>3, <2>5, <2>6, <2>7, TakeSound
  <2>9. QED BY <1>3, <2>4, <2>8, OneClient
<1>4. ASSUME NEW c \in Clients, Done(c)
      PROVE  ClientIInv'
  <2>1. Sound(made[c], buffer[c], <<>>, acked[c] \cup Elements(inflight[c]), dropped[c])
    BY <1>1, <1>4, DoneSound DEF SoundAt, Done
  <2>2. /\ made' = [made EXCEPT ![c] = made[c]]
        /\ buffer' = [buffer EXCEPT ![c] = buffer[c]]
        /\ inflight' = [inflight EXCEPT ![c] = <<>>]
        /\ acked' = [acked EXCEPT ![c] = acked[c] \cup Elements(inflight[c])]
        /\ dropped' = [dropped EXCEPT ![c] = dropped[c]]
    BY <1>1, <1>4 DEF Done, Typed
  <2>3. QED BY <1>4, <2>1, <2>2, OneClient
<1>5. ASSUME NEW c \in Clients, Requeue(c)
      PROVE  ClientIInv'
  <2> DEFINE f == inflight[c]
             b == buffer[c]
             s == f \o b
  <2>1. Sound(made[c], b, f, acked[c], dropped[c]) /\ f # <<>>
    BY <1>1, <1>5 DEF SoundAt, Requeue
  <2>2. b \in Seq(Serial) /\ f \in Seq(Serial)
    BY <2>1 DEF Sound
  <2>3. /\ made' = [made EXCEPT ![c] = made[c]]
        /\ buffer' = [buffer EXCEPT ![c] = Capped(s)]
        /\ inflight' = [inflight EXCEPT ![c] = <<>>]
        /\ acked' = [acked EXCEPT ![c] = acked[c]]
        /\ dropped' = [dropped EXCEPT ![c] =
             dropped[c] \cup (Elements(s) \ Elements(Capped(s)))]
    BY <1>1, <1>5 DEF Requeue, Refill, Typed
  <2> HIDE DEF b, f
  <2>4. /\ s \in Seq(Serial) /\ Len(s) = Len(f) + Len(b)
        /\ \A i \in 1..Len(f) : s[i] = f[i]
        /\ \A i \in 1..Len(b) : s[Len(f) + i] = b[i]
        /\ Elements(s) = Elements(f) \cup Elements(b)
    BY <2>2, ElementsOfConcat
  <2> HIDE DEF s
  <2>5. Sound(made[c], Capped(s), <<>>, acked[c],
              dropped[c] \cup (Elements(s) \ Elements(Capped(s))))
    BY <2>1, <2>4, RequeueSound
  <2>6. QED BY <1>5, <2>3, <2>5, OneClient
<1>6. ASSUME NEW c \in Clients, Discard(c)
      PROVE  ClientIInv'
  <2>1. Sound(made[c], buffer[c], <<>>, acked[c], dropped[c] \cup Elements(inflight[c]))
    BY <1>1, <1>6, DiscardSound DEF SoundAt
  <2>2. /\ made' = [made EXCEPT ![c] = made[c]]
        /\ buffer' = [buffer EXCEPT ![c] = buffer[c]]
        /\ inflight' = [inflight EXCEPT ![c] = <<>>]
        /\ acked' = [acked EXCEPT ![c] = acked[c]]
        /\ dropped' = [dropped EXCEPT ![c] = dropped[c] \cup Elements(inflight[c])]
    BY <1>1, <1>6 DEF Discard, Typed
  <2>3. QED BY <1>6, <2>1, <2>2, OneClient
<1>7. CASE UNCHANGED clientVars
  <2>1. Typed' /\ AllSound'
    BY <1>1, <1>7 DEF Typed, AllSound, SoundAt, clientVars
  <2>2. QED BY <2>1, SoundGivesIInv, PTL
<1>8. QED BY <1>2, <1>3, <1>4, <1>5, <1>6, <1>7 DEF ClientNext

-----------------------------------------------------------------------------
\* Whatever the server answers and whenever, the strengthened invariant holds.
THEOREM ClientInvariance == ClientSpec => []ClientIInv
<1>1. QED BY InitSound, StepSound, PTL DEF ClientSpec

\* The buffer, the batch and the books are typed, and the process holds at most
\* MaxBuffer waiting events and one batch of FlushBatch.
THEOREM ClientTypeCorrect == ClientSpec => []ClientTypeOK
<1>1. ClientIInv => ClientTypeOK
  BY DEF ClientIInv
<1>2. QED BY <1>1, ClientInvariance, PTL

\* "A full buffer drops the oldest" (sdk/src/client.ts): for every buffer size
\* and batch size, what waits is the newest events in the order they were made.
THEOREM BufferKeepsNewest == ClientSpec => []BufferIsNewest
<1>1. ClientIInv => BufferIsNewest
  BY DEF ClientIInv
<1>2. QED BY <1>1, ClientInvariance, PTL

\* No event disappears without an acknowledgement, the cap or a 4xx.
THEOREM NothingIsLost == ClientSpec => []NothingVanishes
<1>1. ClientIInv => NothingVanishes
  BY DEF ClientIInv
<1>2. QED BY <1>1, ClientInvariance, PTL

\* Batches reach the server in the order their events were made.
THEOREM DeliveryInOrder == ClientSpec => []DeliversInOrder
<1>1. ASSUME ClientIInv PROVE DeliversInOrder
  <2>1. SUFFICES ASSUME NEW c \in Clients
        PROVE /\ \A i \in 1..Len(inflight[c]) : \A j \in 1..Len(buffer[c]) :
                   inflight[c][i] < buffer[c][j]
              /\ \A e \in acked[c] : \A i \in 1..Len(inflight[c]) : e < inflight[c][i]
              /\ \A e \in acked[c] : \A j \in 1..Len(buffer[c]) : e < buffer[c][j]
    BY DEF DeliversInOrder
  <2> DEFINE m == made[c]
             b == buffer[c]
             f == inflight[c]
             a == acked[c]
  <2>2. Sound(m, b, f, a, dropped[c])
    BY <1>1, IInvGivesSound DEF SoundAt
  <2> HIDE DEF m, b, f, a
  <2>3. /\ m \in Nat /\ b \in Seq(Serial) /\ f \in Seq(Serial)
        /\ Len(b) \in Nat /\ Len(f) \in Nat
        /\ \A j \in 1..Len(b) : b[j] = m - Len(b) + j
        /\ \A e \in a : e \in Int /\ e <= m - Len(b)
    BY <2>2, ClientAssumption DEF Sound, Serial
  <2>4. \A j \in 1..Len(b) : b[j] > m - Len(b)
    BY <2>3
  <2>5. ASSUME NEW i \in 1..Len(f)
        PROVE  f[i] \in Int /\ f[i] >= f[1] /\ f[1] \in Int /\ f[i] <= m - Len(b)
    <3>1. /\ f # <<>> /\ f[i] = f[1] + i - 1 /\ f[1] + Len(f) - 1 <= m - Len(b)
      BY <2>2, <2>3 DEF Sound
    <3>2. f[1] \in Int
      BY <2>3, ClientAssumption DEF Serial
    <3>3. QED BY <2>3, <3>1, <3>2
  <2>6. ASSUME NEW i \in 1..Len(f), NEW j \in 1..Len(b)
        PROVE  f[i] < b[j]
    BY <2>3, <2>4, <2>5
  <2>7. ASSUME NEW e \in a, NEW i \in 1..Len(f)
        PROVE  e < f[i]
    <3>1. f # <<>> /\ e < f[1]
      BY <2>2, <2>3 DEF Sound
    <3>2. QED BY <2>3, <2>5, <3>1
  <2>8. ASSUME NEW e \in a, NEW j \in 1..Len(b)
        PROVE  e < b[j]
    BY <2>3, <2>4
  <2>9. QED BY <2>6, <2>7, <2>8 DEF m, b, f, a
<1>2. QED BY <1>1, ClientInvariance, PTL

\* All that the buffer promises, whatever the server answers.
THEOREM BufferIsSound == ClientSpec => []BufferSound
<1>1. ClientTypeOK /\ BufferIsNewest /\ NothingVanishes /\ DeliversInOrder => BufferSound
  BY DEF BufferSound
<1>2. QED
  BY <1>1, ClientTypeCorrect, BufferKeepsNewest, NothingIsLost, DeliveryInOrder, PTL

-----------------------------------------------------------------------------
(***************************************************************************)
(* The whole system.                                                        *)
(***************************************************************************)
\* The types of the server's state, the requests as records.
ServerTyped ==
  /\ at \in [Clients -> Slots \cup {NoSlot}]
  /\ req \in [Slots -> Request \cup {Free}]
  /\ revoked \in BOOLEAN
  /\ ingested \in SUBSET Event
  /\ fact \in [Buckets -> SUBSET Event]
  /\ outcome \in [Refs -> Event \cup {NoEvent}]
  /\ rollup \in [Buckets -> SUBSET Event]
  /\ faults \in 0..MaxFaults

LEMMA TypedGivesTypeOK == ClientTypeOK /\ ServerTyped => TypeOK
<1> SUFFICES ASSUME ClientTypeOK, ServerTyped PROVE TypeOK
  OBVIOUS
<1>1. ASSUME NEW s \in Slots, req[s] # Free
      PROVE  /\ DOMAIN req[s] = {"client", "stage", "todo", "locks", "inserted",
                                 "stated", "touched", "summed", "summing", "derived"}
             /\ req[s].client \in Clients
             /\ req[s].todo \in Seq(Event)
             /\ req[s].locks \subseteq Employees
             /\ req[s].inserted \subseteq Event
             /\ req[s].stated \in [Refs -> Event \cup {NoEvent}]
             /\ req[s].touched \in Seq(Buckets)
             /\ req[s].summing \cup req[s].derived \subseteq Buckets
  <2>1. req[s] \in Request
    BY <1>1 DEF ServerTyped
  <2>2. QED BY <2>1 DEF Request
<1>2. QED BY <1>1 DEF TypeOK, ServerTyped

-----------------------------------------------------------------------------
(***************************************************************************)
(* The clients' side of every step.                                        *)
(***************************************************************************)
LEMMA WorkIsClientStep ==
  ASSUME NEW s \in Slots, ServerTyped, Work(s)
  PROVE  ClientNext \/ UNCHANGED clientVars
<1>1. ASSUME req[s] # Free
      PROVE  req[s].client \in Clients
  BY <1>1 DEF ServerTyped, Request
<1>2. CASE Begin(s) \/ Insert(s) \/ Commit(s) \/ Recompute(s)
  BY <1>2 DEF Begin, Insert, Commit, Recompute
<1>3. CASE Accept(s)
  BY <1>1, <1>3 DEF Accept, Answer, ClientNext
<1>4. CASE TurnAway(s)
  BY <1>1, <1>4 DEF TurnAway, Answer, ClientNext
<1>5. CASE Abort(s)
  BY <1>1, <1>5 DEF Abort, Open, Answer, ClientNext
<1>6. CASE \E p \in Named(s) : LockIdentity(s, p)
  BY <1>6 DEF LockIdentity
<1>7. CASE \E b \in Buckets : Sum(s, b) \/ WriteFact(s, b)
  BY <1>7 DEF Sum, WriteFact
<1>8. QED BY <1>2, <1>3, <1>4, <1>5, <1>6, <1>7 DEF Work

LEMMA NextIsClientStep ==
  ASSUME ServerTyped, [Next]_vars
  PROVE  [ClientNext]_clientVars
<1>1. ASSUME NEW s \in Slots, req[s] # Free
      PROVE  req[s].client \in Clients
  BY <1>1 DEF ServerTyped, Request
<1>2. CASE Flush
  BY <1>2 DEF Flush, Post, ClientNext
<1>3. CASE \E c \in Clients : Track(c) \/ GiveUp(c)
  BY <1>3 DEF Track, GiveUp, ClientNext
<1>4. CASE \E s \in Slots : Work(s)
  BY <1>4, WorkIsClientStep
<1>5. CASE \E s \in Slots : Reject(s) \/ RecomputeFails(s)
  BY <1>1, <1>5 DEF Reject, RecomputeFails, Answer, ClientNext
<1>6. CASE Revoke
  BY <1>6 DEF Revoke
<1>7. CASE UNCHANGED vars
  BY <1>7 DEF vars
<1>8. QED BY <1>2, <1>3, <1>4, <1>5, <1>6, <1>7 DEF Next

-----------------------------------------------------------------------------
(***************************************************************************)
(* The server's side.                                                      *)
(***************************************************************************)
\* A step that puts a request, or nothing, in a slot keeps the slots typed.
LEMMA OneSlot ==
  ASSUME ServerTyped, NEW s \in Slots, NEW r \in Request \cup {Free},
         req' = [req EXCEPT ![s] = r]
  PROVE  req' \in [Slots -> Request \cup {Free}]
BY DEF ServerTyped

LEMMA EntriesAre ==
  ASSUME NEW S, NEW f \in Seq(S)
  PROVE  \A i \in 1..Len(f) : f[i] \in S
OBVIOUS

LEMMA BatchOfEvents ==
  ASSUME NEW c \in Clients, NEW f \in Seq(1..MaxEvents)
  PROVE  [i \in 1..Len(f) |-> <<c, f[i]>>] \in Seq(Event)
<1>1. \A i \in 1..Len(f) : f[i] \in 1..MaxEvents
  BY EntriesAre
<1>2. \A k \in 1..MaxEvents : <<c, k>> \in Event
  BY Zenon DEF Event
<1>3. \A i \in 1..Len(f) : <<c, f[i]>> \in Event
  BY <1>1, <1>2, Zenon
<1>4. Len(f) \in Nat
  OBVIOUS
<1>5. QED BY <1>3, <1>4

LEMMA PostTyped ==
  ASSUME ServerTyped, ClientTypeOK', NEW c \in Clients, NEW s \in Slots, Post(c, s)
  PROVE  ServerTyped'
<1>1. inflight'[c] \in Seq(1..MaxEvents)
  BY DEF ClientTypeOK
<1>2. PICK todo : todo = [i \in 1..Len(inflight'[c]) |-> <<c, inflight'[c][i]>>]
  OBVIOUS
<1>3. todo \in Seq(Event)
  <2>1. PICK f \in Seq(1..MaxEvents) : f = inflight'[c]
    BY <1>1
  <2>2. QED BY <1>2, <2>1, BatchOfEvents
<1>4. NewRequest(c) \in Request
  BY <1>2, <1>3 DEF NewRequest, Request
<1>5. req' \in [Slots -> Request \cup {Free}]
  BY <1>4, OneSlot DEF Post
<1>6. QED BY <1>5 DEF Post, ServerTyped, db

LEMMA AnswerTyped ==
  ASSUME ServerTyped, NEW s \in Slots, NEW heard, Answer(s, heard), req[s] # Free
  PROVE  /\ req' \in [Slots -> Request \cup {Free}]
         /\ at' \in [Clients -> Slots \cup {NoSlot}]
<1>1. req' \in [Slots -> Request \cup {Free}]
  BY OneSlot DEF Answer
<1>2. at' \in [Clients -> Slots \cup {NoSlot}]
  BY DEF Answer, ServerTyped
<1>3. QED BY <1>1, <1>2

LEMMA BeginTyped ==
  ASSUME ServerTyped, NEW s \in Slots, Begin(s)
  PROVE  ServerTyped'
<1>1. req[s] \in Request
  BY DEF ServerTyped, Begin
<1>2. [req[s] EXCEPT !.stage = "working"] \in Request
  BY <1>1 DEF Request
<1>3. req' = [req EXCEPT ![s] = [req[s] EXCEPT !.stage = "working"]]
  BY <1>1 DEF Begin
<1>4. req' \in [Slots -> Request \cup {Free}]
  BY <1>2, <1>3, OneSlot
<1>5. QED BY <1>4 DEF Begin, ServerTyped, db

LEMMA LockTyped ==
  ASSUME ServerTyped, NEW s \in Slots, NEW p \in Named(s), LockIdentity(s, p)
  PROVE  ServerTyped'
<1>1. req[s] \in Request
  BY DEF ServerTyped, LockIdentity, Open
<1>2. p \in Employees
  <2>1. Open(s)
    BY DEF LockIdentity
  <2>2. PICK e \in Calls : p = OwnerOf[BucketOf[e]] /\ p # Nobody
    BY <2>1 DEF Named, Owners
  <2>3. QED BY <2>2, EventsAssumption
<1>3. [req[s] EXCEPT !.locks = @ \cup {p}] \in Request
  BY <1>1, <1>2 DEF Request
<1>4. req' = [req EXCEPT ![s] = [req[s] EXCEPT !.locks = @ \cup {p}]]
  BY <1>1 DEF LockIdentity
<1>5. req' \in [Slots -> Request \cup {Free}]
  BY <1>3, <1>4, OneSlot
<1>6. QED BY <1>5 DEF LockIdentity, ServerTyped, db

LEMMA InsertTyped ==
  ASSUME ServerTyped, NEW s \in Slots, Insert(s)
  PROVE  ServerTyped'
<1> DEFINE r == req[s]
           e == Head(r.todo)
<1>1. r \in Request /\ r.todo # <<>>
  BY DEF ServerTyped, Insert, Ready, Open
<1>2. e \in Event /\ Tail(r.todo) \in Seq(Event)
  BY <1>1 DEF Request
<1> DEFINE stated == IF IsNew(e) /\ e \in Outcomes
                     THEN [r.stated EXCEPT ![RefOf[e]] = e] ELSE r.stated
           touched == IF /\ IsNew(e) /\ e \in Calls
                         /\ BucketOf[e] \notin Elements(r.touched)
                      THEN Append(r.touched, BucketOf[e]) ELSE r.touched
<1>a. stated \in [Refs -> Event \cup {NoEvent}]
  BY <1>1, <1>2, EventsAssumption DEF Request
<1>b. touched \in Seq(Buckets)
  <2>1. r.touched \in Seq(Buckets)
    BY <1>1 DEF Request
  <2>2. e \in Calls => BucketOf[e] \in Buckets
    BY EventsAssumption
  <2>3. QED BY <2>1, <2>2
<1>3. PICK q : q = [r EXCEPT
           !.todo = Tail(@),
           !.inserted = IF IsNew(e) THEN @ \cup {e} ELSE @,
           !.stated = stated,
           !.touched = touched]
  OBVIOUS
<1>4. q \in Request
  <2> HIDE DEF e, stated, touched
  <2>1. q.inserted \in SUBSET Event
    BY <1>1, <1>2, <1>3 DEF Request
  <2>2. QED BY <1>1, <1>2, <1>3, <1>a, <1>b, <2>1 DEF Request
<1>5. req' = [req EXCEPT ![s] = q]
  BY <1>1, <1>3 DEF Insert
<1>6. req' \in [Slots -> Request \cup {Free}]
  BY <1>4, <1>5, OneSlot
<1>7. QED BY <1>6 DEF Insert, ServerTyped, db

LEMMA SumTyped ==
  ASSUME ServerTyped, NEW s \in Slots, NEW b \in Buckets, Sum(s, b)
  PROVE  ServerTyped'
<1> DEFINE r == req[s]
           seen == {e \in Visible(s) \cap Calls : BucketOf[e] = b}
<1>1. r \in Request
  BY DEF ServerTyped, Sum, Ready, Open
<1>2. seen \in SUBSET Event
  BY EventsAssumption
<1>a. Tail(r.touched) \in Seq(Buckets)
  <2>1. r.touched \in Seq(Buckets) /\ r.touched # <<>>
    BY <1>1 DEF Request, Sum
  <2>2. QED BY <2>1
<1>3. PICK q : q = [r EXCEPT !.touched = Tail(@), !.summing = {b}, !.summed[b] = seen]
  OBVIOUS
<1>4. q \in Request
  <2> HIDE DEF seen
  <2>1. [r.summed EXCEPT ![b] = seen] \in [Buckets -> SUBSET Event]
    BY <1>1, <1>2 DEF Request
  <2>2. QED BY <1>1, <1>2, <1>3, <1>a, <2>1 DEF Request
<1>5. req' = [req EXCEPT ![s] = q]
  BY <1>1, <1>3 DEF Sum
<1>6. req' \in [Slots -> Request \cup {Free}]
  BY <1>4, <1>5, OneSlot
<1>7. QED BY <1>6 DEF Sum, ServerTyped, db

LEMMA WriteFactTyped ==
  ASSUME ServerTyped, NEW s \in Slots, NEW b \in Buckets, WriteFact(s, b)
  PROVE  ServerTyped'
<1> DEFINE r == req[s]
<1>1. r \in Request
  BY DEF ServerTyped, WriteFact, Open
<1>2. PICK q : q = [r EXCEPT !.summing = {}, !.derived = @ \cup {b}]
  OBVIOUS
<1>3. q \in Request
  BY <1>1, <1>2 DEF Request
<1>4. req' = [req EXCEPT ![s] = q]
  BY <1>1, <1>2 DEF WriteFact
<1>5. req' \in [Slots -> Request \cup {Free}]
  BY <1>3, <1>4, OneSlot
<1>6. QED BY <1>5 DEF WriteFact, ServerTyped, db

LEMMA CommitTyped ==
  ASSUME ServerTyped, NEW s \in Slots, Commit(s)
  PROVE  ServerTyped'
<1>1. req[s] \in Request
  BY DEF ServerTyped, Commit, Ready, Open
<1>2. [req[s] EXCEPT !.stage = "recomputing"] \in Request
  BY <1>1 DEF Request
<1>3. req' = [req EXCEPT ![s] = [req[s] EXCEPT !.stage = "recomputing"]]
  BY <1>1 DEF Commit
<1>4. req' \in [Slots -> Request \cup {Free}]
  BY <1>2, <1>3, OneSlot
<1>5. /\ req[s].inserted \in SUBSET Event
      /\ req[s].summed \in [Buckets -> SUBSET Event]
      /\ req[s].stated \in [Refs -> Event \cup {NoEvent}]
  BY <1>1 DEF Request
<1>6. /\ ingested' \in SUBSET Event
      /\ fact' \in [Buckets -> SUBSET Event]
      /\ outcome' \in [Refs -> Event \cup {NoEvent}]
  BY <1>5 DEF Commit, ServerTyped
<1>7. QED BY <1>4, <1>6 DEF Commit, ServerTyped

LEMMA RecomputeTyped ==
  ASSUME ServerTyped, NEW s \in Slots, Recompute(s)
  PROVE  ServerTyped'
<1>1. req[s] \in Request
  BY DEF ServerTyped, Recompute
<1>2. [req[s] EXCEPT !.stage = "answering"] \in Request
  BY <1>1 DEF Request
<1>3. req' = [req EXCEPT ![s] = [req[s] EXCEPT !.stage = "answering"]]
  BY <1>1 DEF Recompute
<1>4. req' \in [Slots -> Request \cup {Free}]
  BY <1>2, <1>3, OneSlot
<1>5. rollup' \in [Buckets -> SUBSET Event]
  BY DEF Recompute, ServerTyped
<1>6. QED BY <1>4, <1>5 DEF Recompute, ServerTyped

LEMMA AnsweredTyped ==
  ASSUME ServerTyped, NEW s \in Slots,
         Accept(s) \/ TurnAway(s) \/ Abort(s) \/ Reject(s) \/ RecomputeFails(s)
  PROVE  ServerTyped'
<1>1. /\ req' \in [Slots -> Request \cup {Free}]
      /\ at' \in [Clients -> Slots \cup {NoSlot}]
  BY AnswerTyped DEF Accept, TurnAway, Abort, Reject, RecomputeFails, Open
<1>2. faults' \in 0..MaxFaults
  BY EventsAssumption DEF ServerTyped, Accept, TurnAway, Abort, Reject, RecomputeFails, Fault
<1>3. UNCHANGED <<revoked, ingested, fact, outcome, rollup>>
  BY DEF Accept, TurnAway, Abort, Reject, RecomputeFails, db
<1>4. QED BY <1>1, <1>2, <1>3 DEF ServerTyped

LEMMA StepTyped ==
  ASSUME ServerTyped, ClientTypeOK', [Next]_vars
  PROVE  ServerTyped'
<1>1. CASE Flush
  BY <1>1, PostTyped DEF Flush
<1>2. ASSUME NEW c \in Clients, Track(c)
      PROVE  ServerTyped'
  BY <1>2 DEF Track, serverVars, db, ServerTyped
<1>3. ASSUME NEW c \in Clients, GiveUp(c)
      PROVE  ServerTyped'
  BY <1>3, EventsAssumption DEF GiveUp, Fault, db, ServerTyped
<1>4. ASSUME NEW s \in Slots, Work(s)
      PROVE  ServerTyped'
  BY <1>4, BeginTyped, InsertTyped, CommitTyped, RecomputeTyped, AnsweredTyped,
     LockTyped, SumTyped, WriteFactTyped DEF Work
<1>5. ASSUME NEW s \in Slots, Reject(s) \/ RecomputeFails(s)
      PROVE  ServerTyped'
  BY <1>5, AnsweredTyped
<1>6. CASE Revoke
  BY <1>6, EventsAssumption DEF Revoke, Fault, db, ServerTyped
<1>7. CASE UNCHANGED vars
  BY <1>7 DEF vars, serverVars, db, ServerTyped
<1>8. QED BY <1>1, <1>2, <1>3, <1>4, <1>5, <1>6, <1>7 DEF Next

-----------------------------------------------------------------------------
IngestIInv == ClientIInv /\ ServerTyped

LEMMA IngestInductive == IngestIInv /\ [Next]_vars => IngestIInv'
<1> SUFFICES ASSUME IngestIInv, [Next]_vars PROVE IngestIInv'
  OBVIOUS
<1>1. [ClientNext]_clientVars
  BY NextIsClientStep DEF IngestIInv
<1>2. ClientIInv'
  BY <1>1, StepSound DEF IngestIInv
<1>3. ClientTypeOK'
  BY <1>2 DEF ClientIInv
<1>4. QED BY <1>2, <1>3, StepTyped DEF IngestIInv

LEMMA IngestInit == Init => IngestIInv
<1> SUFFICES ASSUME Init PROVE IngestIInv
  OBVIOUS
<1>1. ClientIInv
  BY InitSound DEF Init
<1>2. /\ at \in [Clients -> Slots \cup {NoSlot}]
      /\ req \in [Slots -> Request \cup {Free}]
      /\ fact \in [Buckets -> SUBSET Event]
      /\ outcome \in [Refs -> Event \cup {NoEvent}]
      /\ rollup \in [Buckets -> SUBSET Event]
  BY DEF Init
<1>3. revoked \in BOOLEAN /\ ingested \in SUBSET Event /\ faults \in 0..MaxFaults
  <2>1. revoked = FALSE /\ ingested = {} /\ faults = 0
    BY Zenon DEF Init
  <2>2. faults \in 0..MaxFaults
    BY <2>1, EventsAssumption
  <2>3. QED BY <2>1, <2>2
<1>4. QED BY <1>1, <1>2, <1>3 DEF IngestIInv, ServerTyped

THEOREM IngestInvariance == Spec => []IngestIInv
<1>1. QED BY IngestInit, IngestInductive, PTL DEF Spec

\* Every reachable state of clients and server has its types.
THEOREM IngestTypeCorrect == Spec => []TypeOK
<1>1. IngestIInv => TypeOK
  BY TypedGivesTypeOK DEF IngestIInv, ClientIInv
<1>2. QED BY <1>1, IngestInvariance, PTL

\* The server answers the way SdkClient leaves free: with the real server, the
\* real network and every interleaving of requests, each client's step is a step
\* of SdkClient or none, so what is proved of the buffer there holds here.
THEOREM IngestImplementsClient == Spec => ImplementsClient
<1>1. Init => ClientInit
  BY DEF Init
<1>2. IngestIInv /\ [Next]_vars => [ClientNext]_clientVars
  BY NextIsClientStep DEF IngestIInv
<1>3. QED BY <1>1, <1>2, IngestInvariance, PTL DEF Spec, ClientSpec, ImplementsClient

-----------------------------------------------------------------------------
(***************************************************************************)
(* What a transaction holds and has written.                               *)
(***************************************************************************)
Live(s) == req[s] # Free
Valid == Calls \cup Outcomes
Owner(e) == OwnerOf[BucketOf[e]]
InBucket(b) == {e \in Calls : BucketOf[e] = b}

\* The transaction has inserted event e, or has yet to: it is not lost.
Carried(s, e) ==
  \/ e \in ingested
  \/ req[s].stage \in {"received", "working"} /\ e \in Elements(req[s].todo) \cup req[s].inserted

\* A request that waits to be taken has nothing.
Blank(s) ==
  Live(s) /\ req[s].stage = "received" =>
    req[s].locks = {} /\ req[s].inserted = {} /\ req[s].touched = <<>>
      /\ req[s].summing = {} /\ req[s].derived = {}
      /\ req[s].stated = [r \in Refs |-> NoEvent]

\* Calls of an employee are inserted under the lock of its identity, and each
\* has its bucket derived after the last of them.
Guarded(s) ==
  Open(s) =>
    /\ \A e \in req[s].inserted \cap Calls :
         /\ Owner(e) \in req[s].locks \cup {Nobody}
         /\ BucketOf[e] \in Elements(req[s].touched) \cup req[s].summing \cup req[s].derived
    /\ \A b \in Elements(req[s].touched) \cup req[s].summing \cup req[s].derived :
         OwnerOf[b] \in req[s].locks \cup {Nobody}
    /\ \A b, d \in req[s].summing : b = d
    /\ \A b \in req[s].summing \cup req[s].derived :
         /\ req[s].todo = <<>>
         /\ OwnerOf[b] # Nobody => req[s].summed[b] = Visible(s) \cap InBucket(b)

SlotSound(s) == Blank(s) /\ Guarded(s)

\* One transaction at a time holds an identity.
Exclusive ==
  \A r, s \in Slots : Open(r) /\ Open(s) /\ req[r].locks \cap req[s].locks # {} => r = s

\* The request a client waits for has its batch.
Awaited ==
  \A c \in Clients : at[c] # NoSlot =>
    /\ Live(at[c]) /\ req[at[c]].client = c
    /\ \A n \in Elements(inflight[c]) : <<c, n>> \in Valid => Carried(at[c], <<c, n>>)

DeliveryIInv ==
  /\ IngestIInv
  /\ \A s \in Slots : SlotSound(s)
  /\ Exclusive /\ Awaited
  /\ AckedIsIngested /\ EmployeeFactsExact

LEMMA LiveTyped ==
  ASSUME ServerTyped, NEW s \in Slots, Live(s)
  PROVE  req[s] \in Request
BY DEF ServerTyped, Live

\* A slot left alone stays sound when no event of its buckets arrives.
LEMMA SlotKept ==
  ASSUME NEW s \in Slots, SlotSound(s), req'[s] = req[s], ingested \subseteq ingested',
         Open(s) => \A b \in req[s].summing \cup req[s].derived :
           OwnerOf[b] # Nobody => (ingested' \ ingested) \cap InBucket(b) = {}
  PROVE  SlotSound(s)'
<1>1. Blank(s)'
  BY DEF SlotSound, Blank, Live
<1>2. Open(s)' <=> Open(s)
  BY DEF Open
<1>3. ASSUME Open(s), NEW b \in req[s].summing \cup req[s].derived, OwnerOf[b] # Nobody
      PROVE  (Visible(s) \cap InBucket(b))' = Visible(s) \cap InBucket(b)
  BY <1>3 DEF Visible, InBucket
<1>4. Guarded(s)'
  BY <1>2, <1>3 DEF SlotSound, Guarded, Owner, InBucket
<1>5. QED BY <1>1, <1>4 DEF SlotSound

LEMMA CarriedKept ==
  ASSUME NEW s, NEW e, Carried(s, e), req'[s] = req[s], ingested \subseteq ingested'
  PROVE  Carried(s, e)'
BY DEF Carried

\* A step of one request that commits nothing.
LEMMA RequestMoves ==
  ASSUME DeliveryIInv, IngestIInv', UNCHANGED <<clientVars, at, ingested, fact>>,
         NEW s \in Slots, Live(s), NEW q \in Request, req' = [req EXCEPT ![s] = q],
         q.client = req[s].client, SlotSound(s)',
         \A e \in Valid : Carried(s, e) => Carried(s, e)',
         Open(s)' => \A p \in q.locks : \A r \in Slots \ {s} : Open(r) => p \notin req[r].locks
  PROVE  DeliveryIInv'
<1>1. req'[s] = q /\ \A r \in Slots \ {s} : req'[r] = req[r]
  BY DEF DeliveryIInv, IngestIInv, ServerTyped
<1>2. Live(s)'
  BY <1>1, FreeAssumption DEF Live
<1>3. ASSUME NEW r \in Slots, r # s
      PROVE  SlotSound(r)'
  BY <1>1, <1>3, SlotKept DEF DeliveryIInv
<1>4. Exclusive'
  <2>1. \A r \in Slots \ {s} : Open(r)' <=> Open(r)
    BY <1>1 DEF Open
  <2>2. QED BY <1>1, <2>1 DEF DeliveryIInv, Exclusive
<1>5. Awaited'
  <2>1. SUFFICES ASSUME NEW c \in Clients, at[c] # NoSlot
                 PROVE  /\ Live(at[c])' /\ req'[at[c]].client = c
                        /\ \A n \in Elements(inflight[c]) :
                             <<c, n>> \in Valid => Carried(at[c], <<c, n>>)'
    BY DEF Awaited, clientVars
  <2>2. /\ Live(at[c]) /\ req[at[c]].client = c
        /\ \A n \in Elements(inflight[c]) : <<c, n>> \in Valid => Carried(at[c], <<c, n>>)
    BY <2>1 DEF DeliveryIInv, Awaited
  <2>3. PICK a \in Slots : a = at[c] /\ at'[c] = a
    BY <2>1 DEF DeliveryIInv, IngestIInv, ServerTyped
  <2>4. CASE a = s
    BY <1>1, <1>2, <2>2, <2>3, <2>4
  <2>5. CASE a # s
    <3>1. req'[a] = req[a]
      BY <1>1, <2>3, <2>5
    <3>2. Live(a)' /\ req'[a].client = c
      BY <2>2, <2>3, <3>1 DEF Live
    <3>3. \A e : Carried(a, e) => Carried(a, e)'
      BY <3>1, CarriedKept
    <3>4. QED BY <2>2, <2>3, <3>2, <3>3
  <2>6. QED BY <2>4, <2>5
<1>6. AckedIsIngested' /\ EmployeeFactsExact'
  BY DEF DeliveryIInv, AckedIsIngested, EmployeeFactsExact, Counted, clientVars
<1>7. QED BY <1>3, <1>4, <1>5, <1>6 DEF DeliveryIInv

LEMMA BeginDelivers ==
  ASSUME DeliveryIInv, IngestIInv', NEW s \in Slots, Begin(s)
  PROVE  DeliveryIInv'
<1>1. Live(s) /\ req[s] \in Request /\ req[s].stage = "received"
  BY LiveTyped DEF Begin, Live, DeliveryIInv, IngestIInv
<1>2. PICK q : q = [req[s] EXCEPT !.stage = "working"]
  OBVIOUS
<1>3. q \in Request /\ q.client = req[s].client /\ q.stage = "working" /\ q.todo = req[s].todo
      /\ q.locks = {} /\ q.inserted = {} /\ q.touched = <<>> /\ q.summing = {} /\ q.derived = {}
  <2>1. SlotSound(s)
    BY DEF DeliveryIInv
  <2>2. QED BY <1>1, <1>2, <2>1 DEF Request, SlotSound, Blank
<1>4. req' = [req EXCEPT ![s] = q] /\ req'[s] = q
  BY <1>1, <1>2 DEF Begin, DeliveryIInv, IngestIInv, ServerTyped
<1>5. SlotSound(s)'
  <2>1. Elements(q.touched) = {}
    BY <1>3 DEF Elements
  <2>2. Blank(s)'
    BY <1>3, <1>4 DEF Blank
  <2>3. QED BY <1>3, <1>4, <2>1, <2>2 DEF SlotSound, Guarded
<1>6. \A e : Carried(s, e) => Carried(s, e)'
  BY <1>1, <1>3, <1>4 DEF Carried, Begin, db, DeliveryIInv, SlotSound, Blank
<1>7. QED BY <1>1, <1>3, <1>4, <1>5, <1>6, RequestMoves DEF Begin, db

LEMMA LockDelivers ==
  ASSUME DeliveryIInv, IngestIInv', NEW s \in Slots, NEW p, LockIdentity(s, p)
  PROVE  DeliveryIInv'
<1>1. Open(s) /\ Live(s) /\ req[s] \in Request /\ req[s].stage = "working"
  BY LiveTyped DEF LockIdentity, Open, Live, DeliveryIInv, IngestIInv
<1>2. PICK q : q = [req[s] EXCEPT !.locks = @ \cup {p}]
  OBVIOUS
<1>3. /\ q.client = req[s].client /\ q.stage = "working" /\ q.todo = req[s].todo
      /\ q.locks = req[s].locks \cup {p} /\ q.inserted = req[s].inserted
      /\ q.touched = req[s].touched /\ q.summing = req[s].summing
      /\ q.derived = req[s].derived /\ q.summed = req[s].summed
  BY <1>1, <1>2 DEF Request
<1>4. req' = [req EXCEPT ![s] = q] /\ req'[s] = q
  BY <1>1, <1>2 DEF LockIdentity, DeliveryIInv, IngestIInv, ServerTyped
<1>5. q \in Request
  <2>1. p \in Employees
    <3>1. p \in Named(s)
      BY DEF LockIdentity, NextNamed
    <3>2. PICK e \in Calls : p = OwnerOf[BucketOf[e]] /\ p # Nobody
      BY <1>1, <3>1 DEF Named, Owners
    <3>3. QED BY <3>2, EventsAssumption
  <2>2. QED BY <1>1, <1>2, <2>1 DEF Request
<1>6. SlotSound(s)'
  <2>1. Guarded(s)
    BY DEF DeliveryIInv, SlotSound
  <2>2. Visible(s)' = Visible(s)
    BY <1>3, <1>4 DEF Visible, LockIdentity, db
  <2>3. Guarded(s)'
    BY <1>1, <1>3, <1>4, <2>1, <2>2 DEF Guarded, Owner, InBucket
  <2>4. QED BY <1>3, <1>4, <2>3 DEF SlotSound, Blank
<1>7. \A e : Carried(s, e) => Carried(s, e)'
  BY <1>1, <1>3, <1>4 DEF Carried, LockIdentity, db
<1>8. \A l \in q.locks : \A r \in Slots \ {s} : Open(r) => l \notin req[r].locks
  BY <1>1, <1>3 DEF LockIdentity, Others, HoldsIdentity, DeliveryIInv, Exclusive
<1>9. QED BY <1>1, <1>3, <1>4, <1>5, <1>6, <1>7, <1>8, RequestMoves DEF LockIdentity, db

LEMMA ElementsOfAppend ==
  ASSUME NEW S, NEW f \in Seq(S), NEW x \in S
  PROVE  Elements(Append(f, x)) = Elements(f) \cup {x}
<1>1. Len(Append(f, x)) = Len(f) + 1 /\ Len(f) \in Nat
  OBVIOUS
<1>2. \A i \in 1..Len(f) + 1 : Append(f, x)[i] = IF i = Len(f) + 1 THEN x ELSE f[i]
  OBVIOUS
<1>3. Append(f, x)[Len(f) + 1] = x
  BY <1>1, <1>2
<1>4. QED BY <1>1, <1>2, <1>3 DEF Elements

LEMMA ElementsOfHeadTail ==
  ASSUME NEW S, NEW f \in Seq(S), f # <<>>
  PROVE  Elements(f) = {Head(f)} \cup Elements(Tail(f))
<1>1. Len(f) \in Nat \ {0} /\ Len(Tail(f)) = Len(f) - 1 /\ Head(f) = f[1]
  OBVIOUS
<1>2. \A i \in 1..Len(f) - 1 : Tail(f)[i] = f[i + 1]
  OBVIOUS
<1>3. ASSUME NEW i \in 1..Len(f)
      PROVE  f[i] \in {Head(f)} \cup Elements(Tail(f))
  <2>1. CASE i = 1
    BY <1>1, <2>1
  <2>2. CASE i # 1
    <3>1. i - 1 \in 1..Len(Tail(f)) /\ f[i] = Tail(f)[i - 1]
      BY <1>1, <1>2, <2>2
    <3>2. QED BY <3>1 DEF Elements
  <2>3. QED BY <2>1, <2>2
<1>4. ASSUME NEW i \in 1..Len(Tail(f))
      PROVE  Tail(f)[i] \in Elements(f)
  <2>1. i + 1 \in 1..Len(f) /\ Tail(f)[i] = f[i + 1]
    BY <1>1, <1>2
  <2>2. QED BY <2>1 DEF Elements
<1>5. Head(f) \in Elements(f)
  BY <1>1 DEF Elements
<1>6. QED BY <1>3, <1>4, <1>5 DEF Elements

\* What Insert leaves of the request.
LEMMA InsertMoves ==
  ASSUME ServerTyped, ServerTyped', NEW s \in Slots, Insert(s),
         NEW e \in Event, e = Head(req[s].todo)
  PROVE  \E q \in Request :
           /\ q.client = req[s].client /\ q.stage = "working" /\ q.todo = Tail(req[s].todo)
           /\ q.locks = req[s].locks
           /\ q.inserted = IF IsNew(e) THEN req[s].inserted \cup {e} ELSE req[s].inserted
           /\ q.stated = IF IsNew(e) /\ e \in Outcomes
                         THEN [req[s].stated EXCEPT ![RefOf[e]] = e] ELSE req[s].stated
           /\ q.touched = IF /\ IsNew(e) /\ e \in Calls
                             /\ BucketOf[e] \notin Elements(req[s].touched)
                          THEN Append(req[s].touched, BucketOf[e]) ELSE req[s].touched
           /\ q.summing = req[s].summing /\ q.derived = req[s].derived
           /\ q.summed = req[s].summed
           /\ req' = [req EXCEPT ![s] = q] /\ req'[s] = q
<1> DEFINE r == req[s]
           inserted == IF IsNew(e) THEN r.inserted \cup {e} ELSE r.inserted
           stated == IF IsNew(e) /\ e \in Outcomes
                     THEN [r.stated EXCEPT ![RefOf[e]] = e] ELSE r.stated
           touched == IF /\ IsNew(e) /\ e \in Calls
                         /\ BucketOf[e] \notin Elements(r.touched)
                      THEN Append(r.touched, BucketOf[e]) ELSE r.touched
<1>1. r \in Request /\ r.stage = "working" /\ r.todo \in Seq(Event) /\ r.todo # <<>>
      /\ r.touched \in Seq(Buckets)
  <2>1. Live(s) /\ r.stage = "working" /\ r.todo # <<>>
    BY DEF Insert, Ready, Open, Live
  <2>2. r \in Request
    BY <2>1, LiveTyped
  <2>3. QED BY <2>1, <2>2 DEF Request
<1>2. PICK q : q = [r EXCEPT !.todo = Tail(@),
                             !.inserted = inserted,
                             !.stated = stated,
                             !.touched = touched]
  OBVIOUS
<1>3. req' = [req EXCEPT ![s] = q] /\ req'[s] = q
  BY <1>1, <1>2 DEF Insert, ServerTyped
<1> HIDE DEF stated, touched, inserted
<1>4. stated \in [Refs -> Event \cup {NoEvent}]
  BY <1>1, EventsAssumption DEF Request, stated
<1>5. touched \in Seq(Buckets)
  <2>1. e \in Calls => BucketOf[e] \in Buckets
    BY EventsAssumption
  <2>2. QED BY <1>1, <2>1 DEF touched
<1>6. inserted \in SUBSET Event
  BY <1>1 DEF Request, inserted
<1>7. Tail(r.todo) \in Seq(Event)
  BY <1>1
<1>8. q \in Request
  BY <1>1, <1>2, <1>4, <1>5, <1>6, <1>7 DEF Request
<1>9. /\ q.client = r.client /\ q.stage = "working" /\ q.todo = Tail(r.todo)
      /\ q.locks = r.locks /\ q.inserted = inserted /\ q.stated = stated
      /\ q.touched = touched /\ q.summing = r.summing
      /\ q.derived = r.derived /\ q.summed = r.summed
  BY <1>1, <1>2 DEF Request
<1>10. QED BY <1>3, <1>8, <1>9 DEF inserted, stated, touched

LEMMA InsertDelivers ==
  ASSUME DeliveryIInv, IngestIInv', NEW s \in Slots, Insert(s)
  PROVE  DeliveryIInv'
<1>1. Open(s) /\ Live(s) /\ req[s] \in Request /\ req[s].stage = "working"
      /\ req[s].todo \in Seq(Event) /\ req[s].todo # <<>> /\ req[s].touched \in Seq(Buckets)
  <2>1. Open(s) /\ Live(s) /\ req[s].todo # <<>>
    BY DEF Insert, Ready, Open, Live
  <2>2. req[s] \in Request
    BY <2>1, LiveTyped DEF DeliveryIInv, IngestIInv
  <2>3. QED BY <2>1, <2>2 DEF Open, Request
<1>2. PICK e \in Event : e = Head(req[s].todo)
  BY <1>1
<1>3. PICK new \in SUBSET {e} : new = IF IsNew(e) THEN {e} ELSE {}
  OBVIOUS
<1>4. PICK buckets \in SUBSET Buckets : buckets = {BucketOf[x] : x \in new \cap Calls}
  <2>1. \A x \in new \cap Calls : BucketOf[x] \in Buckets
    BY EventsAssumption
  <2>2. QED BY <2>1
<1>5. PICK q \in Request :
        /\ q.client = req[s].client /\ q.stage = "working" /\ q.todo = Tail(req[s].todo)
        /\ q.locks = req[s].locks /\ q.inserted = req[s].inserted \cup new
        /\ Elements(q.touched) = Elements(req[s].touched) \cup buckets
        /\ q.summing = req[s].summing /\ q.derived = req[s].derived
        /\ q.summed = req[s].summed
        /\ req' = [req EXCEPT ![s] = q] /\ req'[s] = q
  <2>1. PICK q \in Request :
          /\ q.client = req[s].client /\ q.stage = "working" /\ q.todo = Tail(req[s].todo)
          /\ q.locks = req[s].locks
          /\ q.inserted = IF IsNew(e) THEN req[s].inserted \cup {e} ELSE req[s].inserted
          /\ q.touched = IF /\ IsNew(e) /\ e \in Calls
                            /\ BucketOf[e] \notin Elements(req[s].touched)
                         THEN Append(req[s].touched, BucketOf[e]) ELSE req[s].touched
          /\ q.summing = req[s].summing /\ q.derived = req[s].derived
          /\ q.summed = req[s].summed
          /\ req' = [req EXCEPT ![s] = q] /\ req'[s] = q
    BY <1>2, InsertMoves DEF DeliveryIInv, IngestIInv
  <2>2. Elements(q.touched) = Elements(req[s].touched) \cup buckets
    <3>1. CASE IsNew(e) /\ e \in Calls
      <4>1. buckets = {BucketOf[e]} /\ BucketOf[e] \in Buckets
        BY <1>3, <1>4, <3>1
      <4>2. CASE BucketOf[e] \in Elements(req[s].touched)
        BY <2>1, <4>1, <4>2
      <4>3. CASE BucketOf[e] \notin Elements(req[s].touched)
        BY <1>1, <2>1, <3>1, <4>1, <4>3, ElementsOfAppend
      <4>4. QED BY <4>2, <4>3
    <3>2. CASE ~(IsNew(e) /\ e \in Calls)
      BY <1>3, <1>4, <2>1, <3>2
    <3>3. QED BY <3>1, <3>2
  <2>3. q.inserted = req[s].inserted \cup new
    BY <1>3, <2>1
  <2>4. QED BY <2>1, <2>2, <2>3
<1>6. Elements(req[s].todo) = {e} \cup Elements(q.todo)
  BY <1>1, <1>2, <1>5, ElementsOfHeadTail
<1>7. Guarded(s) /\ req[s].summing = {} /\ req[s].derived = {}
  BY <1>1 DEF DeliveryIInv, SlotSound, Guarded
<1>8. \A x \in new \cap Calls : Owner(x) \in req[s].locks \cup {Nobody}
  <2>1. e \in Elements(req[s].todo)
    BY <1>6
  <2>2. QED BY <1>1, <2>1 DEF Insert, Ready, Named, Owners, Owner
<1>9. SlotSound(s)'
  <2>1. Guarded(s)'
    <3>1. \A x \in q.inserted \cap Calls :
            /\ Owner(x) \in q.locks \cup {Nobody}
            /\ BucketOf[x] \in Elements(q.touched) \cup q.summing \cup q.derived
      BY <1>1, <1>4, <1>5, <1>7, <1>8 DEF Guarded
    <3>2. \A b \in Elements(q.touched) : OwnerOf[b] \in q.locks \cup {Nobody}
      BY <1>1, <1>4, <1>5, <1>7, <1>8 DEF Guarded, Owner
    <3>3. QED BY <1>5, <1>7, <3>1, <3>2 DEF Guarded, Owner
  <2>2. QED BY <1>5, <2>1 DEF SlotSound, Blank
<1>10. \A x \in Valid : Carried(s, x) => Carried(s, x)'
  BY <1>1, <1>3, <1>5, <1>6 DEF Carried, IsNew, Valid, Insert, db
<1>11. \A p \in q.locks : \A r \in Slots \ {s} : Open(r) => p \notin req[r].locks
  BY <1>1, <1>5 DEF DeliveryIInv, Exclusive
<1>12. QED BY <1>1, <1>5, <1>9, <1>10, <1>11, RequestMoves DEF Insert, db

LEMMA SumDelivers ==
  ASSUME DeliveryIInv, IngestIInv', NEW s \in Slots, NEW b \in Buckets, Sum(s, b)
  PROVE  DeliveryIInv'
<1>1. Open(s) /\ Live(s) /\ req[s] \in Request /\ req[s].stage = "working"
      /\ req[s].touched \in Seq(Buckets) /\ req[s].touched # <<>> /\ b = Head(req[s].touched)
      /\ req[s].todo = <<>>
  <2>1. Open(s) /\ Live(s)
    BY DEF Sum, Ready, Open, Live
  <2>2. req[s] \in Request
    BY <2>1, LiveTyped DEF DeliveryIInv, IngestIInv
  <2>3. QED BY <2>1, <2>2 DEF Sum, Open, Request
<1>2. PICK seen \in SUBSET Event : seen = Visible(s) \cap InBucket(b)
  BY EventsAssumption DEF InBucket
<1>3. PICK q \in Request :
        /\ q.client = req[s].client /\ q.stage = "working" /\ q.todo = req[s].todo
        /\ q.locks = req[s].locks /\ q.inserted = req[s].inserted
        /\ q.touched = Tail(req[s].touched) /\ q.summing = {b} /\ q.derived = req[s].derived
        /\ q.summed = [req[s].summed EXCEPT ![b] = seen]
        /\ req' = [req EXCEPT ![s] = q] /\ req'[s] = q
  <2> DEFINE r == req[s]
  <2>1. PICK q : q = [r EXCEPT !.touched = Tail(@), !.summing = {b}, !.summed[b] = seen]
    OBVIOUS
  <2>2. [r.summed EXCEPT ![b] = seen] \in [Buckets -> SUBSET Event]
    BY <1>1 DEF Request
  <2>3. Tail(r.touched) \in Seq(Buckets)
    BY <1>1
  <2>4. q \in Request
    BY <1>1, <2>1, <2>2, <2>3 DEF Request
  <2>5. {e \in Visible(s) \cap Calls : BucketOf[e] = b} = seen
    BY <1>2 DEF InBucket
  <2>6. req' = [req EXCEPT ![s] = q]
    BY <1>1, <2>1, <2>5 DEF Sum
  <2>7. req'[s] = q
    BY <2>6 DEF DeliveryIInv, IngestIInv, ServerTyped
  <2>8. QED BY <1>1, <2>1, <2>4, <2>6, <2>7 DEF Request
<1>4. Elements(req[s].touched) = {b} \cup Elements(q.touched)
  BY <1>1, <1>3, ElementsOfHeadTail
<1>5. Guarded(s)
  BY DEF DeliveryIInv, SlotSound
<1>6. Visible(s)' = Visible(s)
  BY <1>3 DEF Visible, Sum, db
<1>7. \A d \in Buckets : q.summed[d] = IF d = b THEN seen ELSE req[s].summed[d]
  BY <1>1, <1>3 DEF Request
<1>8. req[s].derived \subseteq Buckets /\ req[s].summing = {}
  BY <1>1 DEF Request, Sum
<1>9. SlotSound(s)'
  <2>1. \A e \in q.inserted \cap Calls :
          /\ Owner(e) \in q.locks \cup {Nobody}
          /\ BucketOf[e] \in Elements(q.touched) \cup q.summing \cup q.derived
    BY <1>1, <1>3, <1>4, <1>5, <1>8 DEF Guarded
  <2>2. \A d \in Elements(q.touched) \cup q.summing \cup q.derived :
          OwnerOf[d] \in q.locks \cup {Nobody}
    BY <1>1, <1>3, <1>4, <1>5, <1>8 DEF Guarded
  <2>3. \A d \in q.summing \cup q.derived :
          OwnerOf[d] # Nobody => q.summed[d] = Visible(s) \cap InBucket(d)
    BY <1>1, <1>2, <1>3, <1>5, <1>7, <1>8 DEF Guarded
  <2>4. Guarded(s)'
    <3>1. \A d \in q.summing \cup q.derived : q.todo = <<>>
      BY <1>1, <1>3
    <3>2. \A d, g \in q.summing : d = g
      BY <1>3
    <3>3. \A d : InBucket(d)' = InBucket(d)
      BY DEF InBucket
    <3>4. \A d \in q.summing \cup q.derived :
            OwnerOf[d] # Nobody => q.summed[d] = (Visible(s) \cap InBucket(d))'
      BY <1>6, <2>3, <3>3
    <3>5. \A e : Owner(e)' = Owner(e)
      BY DEF Owner
    <3>6. QED BY <1>3, <2>1, <2>2, <3>1, <3>2, <3>4, <3>5 DEF Guarded
  <2>5. QED BY <1>3, <2>4 DEF SlotSound, Blank
<1>10. \A x \in Valid : Carried(s, x) => Carried(s, x)'
  BY <1>1, <1>3 DEF Carried, Sum, db
<1>11. \A p \in q.locks : \A r \in Slots \ {s} : Open(r) => p \notin req[r].locks
  BY <1>1, <1>3 DEF DeliveryIInv, Exclusive
<1>12. QED BY <1>1, <1>3, <1>9, <1>10, <1>11, RequestMoves DEF Sum, db

LEMMA WriteFactDelivers ==
  ASSUME DeliveryIInv, IngestIInv', NEW s \in Slots, NEW b \in Buckets, WriteFact(s, b)
  PROVE  DeliveryIInv'
<1>1. Open(s) /\ Live(s) /\ req[s] \in Request /\ req[s].stage = "working"
      /\ b \in req[s].summing
  <2>1. Open(s) /\ Live(s)
    BY DEF WriteFact, Open, Live
  <2>2. req[s] \in Request
    BY <2>1, LiveTyped DEF DeliveryIInv, IngestIInv
  <2>3. QED BY <2>1, <2>2 DEF WriteFact, Open
<1>2. PICK q : q = [req[s] EXCEPT !.summing = {}, !.derived = @ \cup {b}]
  OBVIOUS
<1>3. /\ q \in Request
      /\ q.client = req[s].client /\ q.stage = "working" /\ q.todo = req[s].todo
      /\ q.locks = req[s].locks /\ q.inserted = req[s].inserted
      /\ q.touched = req[s].touched /\ q.summing = {} /\ q.derived = req[s].derived \cup {b}
      /\ q.summed = req[s].summed
  BY <1>1, <1>2 DEF Request
<1>4. req' = [req EXCEPT ![s] = q] /\ req'[s] = q
  BY <1>1, <1>2 DEF WriteFact, DeliveryIInv, IngestIInv, ServerTyped
<1>5. Visible(s)' = Visible(s)
  BY <1>3, <1>4 DEF Visible, WriteFact, db
<1>6. SlotSound(s)'
  <2>1. Guarded(s)
    BY DEF DeliveryIInv, SlotSound
  <2>2. req[s].summing = {b}
    BY <1>1, <2>1 DEF Guarded
  <2>3. Guarded(s)'
    BY <1>1, <1>3, <1>4, <1>5, <2>1, <2>2 DEF Guarded, Owner, InBucket
  <2>4. QED BY <1>3, <1>4, <2>3 DEF SlotSound, Blank
<1>7. \A x \in Valid : Carried(s, x) => Carried(s, x)'
  BY <1>1, <1>3, <1>4 DEF Carried, WriteFact, db
<1>8. \A p \in q.locks : \A r \in Slots \ {s} : Open(r) => p \notin req[r].locks
  BY <1>1, <1>3 DEF DeliveryIInv, Exclusive
<1>9. QED BY <1>1, <1>3, <1>4, <1>6, <1>7, <1>8, RequestMoves DEF WriteFact, db

LEMMA RecomputeDelivers ==
  ASSUME DeliveryIInv, IngestIInv', NEW s \in Slots, Recompute(s)
  PROVE  DeliveryIInv'
<1>1. Live(s) /\ req[s] \in Request /\ req[s].stage = "recomputing"
  BY LiveTyped DEF Recompute, Live, DeliveryIInv, IngestIInv
<1>2. PICK q : q = [req[s] EXCEPT !.stage = "answering"]
  OBVIOUS
<1>3. q \in Request /\ q.client = req[s].client /\ q.stage = "answering"
  BY <1>1, <1>2 DEF Request
<1>4. req' = [req EXCEPT ![s] = q] /\ req'[s] = q
  BY <1>1, <1>2 DEF Recompute, DeliveryIInv, IngestIInv, ServerTyped
<1>5. ~Open(s)' /\ SlotSound(s)'
  BY <1>3, <1>4 DEF SlotSound, Blank, Guarded, Open
<1>6. \A x \in Valid : Carried(s, x) => Carried(s, x)'
  BY <1>1 DEF Carried, Recompute
<1>7. QED BY <1>1, <1>3, <1>4, <1>5, <1>6, RequestMoves DEF Recompute

\* The commit of one transaction leaves what the others have summed, and every
\* fact of an employee, exact.
LEMMA CommitDelivers ==
  ASSUME DeliveryIInv, IngestIInv', NEW s \in Slots, Commit(s)
  PROVE  DeliveryIInv'
<1>1. Open(s) /\ Live(s) /\ req[s] \in Request /\ req[s].stage = "working"
      /\ req[s].todo = <<>> /\ req[s].touched = <<>> /\ req[s].summing = {}
  <2>1. Open(s) /\ Live(s)
    BY DEF Commit, Ready, Open, Live
  <2>2. req[s] \in Request
    BY <2>1, LiveTyped DEF DeliveryIInv, IngestIInv
  <2>3. QED BY <2>1, <2>2 DEF Commit, Open
<1>2. PICK q : q = [req[s] EXCEPT !.stage = "recomputing"]
  OBVIOUS
<1>3. q \in Request /\ q.client = req[s].client /\ q.stage = "recomputing"
  BY <1>1, <1>2 DEF Request
<1>4. req'[s] = q /\ \A r \in Slots \ {s} : req'[r] = req[r]
  BY <1>1, <1>2 DEF Commit, DeliveryIInv, IngestIInv, ServerTyped
<1>5. ingested' = ingested \cup req[s].inserted /\ UNCHANGED <<clientVars, at>>
  BY DEF Commit
<1>6. Guarded(s) /\ Elements(req[s].touched) = {}
  BY <1>1 DEF DeliveryIInv, SlotSound, Elements
<1>7. ~Open(s)' /\ SlotSound(s)'
  BY <1>3, <1>4 DEF SlotSound, Blank, Guarded, Open
<1>8. ASSUME NEW r \in Slots, r # s
      PROVE  SlotSound(r)'
  <2>1. ASSUME Open(r), NEW b \in req[r].summing \cup req[r].derived, OwnerOf[b] # Nobody,
               NEW e \in req[s].inserted \cap InBucket(b)
        PROVE  FALSE
    <3>1. OwnerOf[b] \in req[r].locks
      BY <2>1 DEF DeliveryIInv, SlotSound, Guarded
    <3>2. OwnerOf[b] \in req[s].locks
      BY <1>1, <1>6, <2>1 DEF Guarded, Owner, InBucket
    <3>3. QED BY <1>1, <1>8, <2>1, <3>1, <3>2 DEF DeliveryIInv, Exclusive
  <2>2. QED BY <1>4, <1>5, <1>8, <2>1, SlotKept DEF DeliveryIInv
<1>9. Exclusive'
  <2>1. \A r \in Slots \ {s} : Open(r)' <=> Open(r)
    BY <1>4 DEF Open
  <2>2. QED BY <1>4, <1>7, <2>1 DEF DeliveryIInv, Exclusive
<1>10. Awaited'
  <2>1. SUFFICES ASSUME NEW c \in Clients, at[c] # NoSlot
                 PROVE  /\ Live(at[c])' /\ req'[at[c]].client = c
                        /\ \A n \in Elements(inflight[c]) :
                             <<c, n>> \in Valid => Carried(at[c], <<c, n>>)'
    BY <1>5 DEF Awaited, clientVars
  <2>2. /\ Live(at[c]) /\ req[at[c]].client = c
        /\ \A n \in Elements(inflight[c]) : <<c, n>> \in Valid => Carried(at[c], <<c, n>>)
    BY <2>1 DEF DeliveryIInv, Awaited
  <2>3. PICK a \in Slots : a = at[c] /\ at'[c] = a
    BY <1>5, <2>1 DEF DeliveryIInv, IngestIInv, ServerTyped
  <2>4. Live(a)' /\ req'[a].client = c
    BY <1>3, <1>4, <2>2, <2>3, FreeAssumption DEF Live
  <2>5. \A e : Carried(a, e) => Carried(a, e)'
    <3>1. CASE a = s
      <4>1. Elements(req[s].todo) = {}
        BY <1>1 DEF Elements
      <4>2. QED BY <1>5, <3>1, <4>1 DEF Carried
    <3>2. CASE a # s
      BY <1>4, <1>5, <2>3, <3>2, CarriedKept
    <3>3. QED BY <3>1, <3>2
  <2>6. QED BY <2>2, <2>3, <2>4, <2>5
<1>11. AckedIsIngested'
  BY <1>5 DEF DeliveryIInv, AckedIsIngested, clientVars
<1>12. ASSUME NEW b \in Buckets, OwnerOf[b] # Nobody
       PROVE  fact'[b] = Counted(b)'
  <2>1. fact'[b] = IF b \in req[s].derived THEN req[s].summed[b] ELSE fact[b]
    BY <1>12 DEF Commit
  <2>2. Counted(b)' = (ingested \cup req[s].inserted) \cap InBucket(b)
    BY <1>5 DEF Counted, InBucket
  <2>3. CASE b \in req[s].derived
    BY <1>1, <1>6, <1>12, <2>1, <2>2, <2>3 DEF Guarded, Visible
  <2>4. CASE b \notin req[s].derived
    <3>1. req[s].inserted \cap InBucket(b) = {}
      BY <1>1, <1>6, <2>4 DEF Guarded, InBucket
    <3>2. Counted(b) = ingested \cap InBucket(b)
      BY DEF Counted, InBucket
    <3>3. fact[b] = Counted(b)
      BY <1>12 DEF DeliveryIInv, EmployeeFactsExact
    <3>4. QED BY <2>1, <2>2, <2>4, <3>1, <3>2, <3>3
  <2>5. QED BY <2>3, <2>4
<1>13. EmployeeFactsExact'
  BY <1>12 DEF EmployeeFactsExact
<1>14. QED BY <1>7, <1>8, <1>9, <1>10, <1>11, <1>13 DEF DeliveryIInv

\* Requests end and clients stop waiting; nothing is written.
LEMMA Settles ==
  ASSUME DeliveryIInv, IngestIInv', UNCHANGED <<ingested, fact>>, AckedIsIngested',
         \A r \in Slots : req'[r] = req[r] \/ req'[r] = Free,
         \A k \in Clients :
           at'[k] = NoSlot \/ (at'[k] = at[k] /\ inflight'[k] = inflight[k]
                                /\ req'[at[k]] = req[at[k]])
  PROVE  DeliveryIInv'
<1>1. ASSUME NEW r \in Slots
      PROVE  SlotSound(r)'
  <2>1. CASE req'[r] = Free
    BY <2>1 DEF SlotSound, Blank, Guarded, Live, Open
  <2>2. CASE req'[r] = req[r]
    BY <2>2, SlotKept DEF DeliveryIInv
  <2>3. QED BY <2>1, <2>2
<1>2. Exclusive'
  <2>1. \A r \in Slots : Open(r)' => Open(r) /\ req'[r] = req[r]
    BY DEF Open
  <2>2. QED BY <2>1 DEF DeliveryIInv, Exclusive
<1>3. Awaited'
  <2>1. SUFFICES ASSUME NEW c \in Clients, at'[c] # NoSlot
                 PROVE  /\ Live(at[c])' /\ req'[at'[c]].client = c
                        /\ \A n \in Elements(inflight'[c]) :
                             <<c, n>> \in Valid => Carried(at[c], <<c, n>>)'
    BY DEF Awaited
  <2>2. at'[c] = at[c] /\ inflight'[c] = inflight[c] /\ req'[at[c]] = req[at[c]]
    BY <2>1
  <2>3. PICK a : a = at[c] /\ a = at'[c]
    BY <2>2
  <2>4. /\ Live(a) /\ req[a].client = c
        /\ \A n \in Elements(inflight[c]) : <<c, n>> \in Valid => Carried(a, <<c, n>>)
    BY <2>1, <2>2, <2>3 DEF DeliveryIInv, Awaited
  <2>5. \A e : Carried(a, e) => Carried(a, e)'
    BY <2>2, <2>3, CarriedKept
  <2>6. Live(a)'
    BY <2>2, <2>3, <2>4 DEF Live
  <2>7. QED BY <2>2, <2>3, <2>4, <2>5, <2>6
<1>4. EmployeeFactsExact'
  BY DEF DeliveryIInv, EmployeeFactsExact, Counted
<1>5. QED BY <1>1, <1>2, <1>3, <1>4 DEF DeliveryIInv

LEMMA AnswerDelivers ==
  ASSUME DeliveryIInv, IngestIInv', NEW s \in Slots,
         Accept(s) \/ TurnAway(s) \/ Abort(s) \/ Reject(s) \/ RecomputeFails(s)
  PROVE  DeliveryIInv'
<1> DEFINE c == req[s].client
<1>1. Live(s) /\ c \in Clients
  <2>1. Live(s)
    BY DEF Accept, TurnAway, Abort, Reject, RecomputeFails, Open, Live
  <2>2. QED BY <2>1, LiveTyped DEF DeliveryIInv, IngestIInv, Request
<1>2. UNCHANGED <<ingested, fact>>
  BY DEF Accept, TurnAway, Abort, Reject, RecomputeFails, db
<1>3. req' = [req EXCEPT ![s] = Free]
  BY DEF Accept, TurnAway, Abort, Reject, RecomputeFails, Answer
<1>4. IF at[c] = s
      THEN /\ at' = [at EXCEPT ![c] = NoSlot]
           /\ inflight' = [inflight EXCEPT ![c] = <<>>]
           /\ \/ acked' = acked
              \/ req[s].stage = "answering"
                 /\ acked' = [acked EXCEPT ![c] = @ \cup Elements(inflight[c])]
      ELSE UNCHANGED <<clientVars, at>>
  BY DEF Accept, TurnAway, Abort, Reject, RecomputeFails, Answer, Done, Requeue, Discard
<1>5. \A r \in Slots : req'[r] = req[r] \/ req'[r] = Free
  BY <1>3 DEF DeliveryIInv, IngestIInv, ServerTyped
<1>6. ASSUME NEW k \in Clients
      PROVE  at'[k] = NoSlot \/ (at'[k] = at[k] /\ inflight'[k] = inflight[k]
                                  /\ req'[at[k]] = req[at[k]])
  <2>1. at \in [Clients -> Slots \cup {NoSlot}] /\ inflight \in [Clients -> Seq(1..MaxEvents)]
    BY DEF DeliveryIInv, IngestIInv, ServerTyped, ClientIInv, ClientTypeOK
  <2>2. CASE at[k] = s
    <3>1. k = c
      BY <2>2, EventsAssumption DEF DeliveryIInv, Awaited
    <3>2. QED BY <1>4, <2>1, <2>2, <3>1
  <2>3. CASE at[k] # s
    <3>1. at'[k] = at[k] /\ inflight'[k] = inflight[k]
      BY <1>1, <1>4, <2>1, <2>3 DEF clientVars
    <3>2. CASE at[k] = NoSlot
      BY <3>1, <3>2
    <3>3. CASE at[k] \in Slots
      BY <1>3, <2>3, <3>1, <3>3 DEF DeliveryIInv, IngestIInv, ServerTyped
    <3>4. QED BY <2>1, <3>2, <3>3
  <2>4. QED BY <2>2, <2>3
<1>7. AckedIsIngested'
  <2>1. acked \in [Clients -> SUBSET (1..MaxEvents)]
    BY DEF DeliveryIInv, IngestIInv, ClientIInv, ClientTypeOK
  <2>2. CASE acked' = acked
    BY <1>2, <2>2 DEF DeliveryIInv, AckedIsIngested
  <2>3. CASE at[c] = s /\ req[s].stage = "answering"
               /\ acked' = [acked EXCEPT ![c] = @ \cup Elements(inflight[c])]
    <3>1. ASSUME NEW n \in Elements(inflight[c]), <<c, n>> \in Valid
          PROVE  <<c, n>> \in ingested
      <4>1. Carried(s, <<c, n>>)
        BY <1>1, <2>3, <3>1, EventsAssumption DEF DeliveryIInv, Awaited
      <4>2. QED BY <2>3, <4>1 DEF Carried
    <3>2. \A k \in Clients : acked'[k] = IF k = c THEN acked[c] \cup Elements(inflight[c])
                                         ELSE acked[k]
      BY <1>1, <2>1, <2>3
    <3>3. QED BY <1>2, <3>1, <3>2 DEF DeliveryIInv, AckedIsIngested, Valid
  <2>4. QED BY <1>4, <2>2, <2>3 DEF clientVars
<1>8. QED BY <1>2, <1>5, <1>6, <1>7, Settles

LEMMA PostDelivers ==
  ASSUME DeliveryIInv, IngestIInv', NEW c \in Clients, NEW s \in Slots, Post(c, s)
  PROVE  DeliveryIInv'
<1> DEFINE q == NewRequest(c)
<1>1. req[s] = Free /\ at[c] = NoSlot
      /\ at' = [at EXCEPT ![c] = s] /\ req' = [req EXCEPT ![s] = q]
      /\ UNCHANGED <<ingested, fact, acked>>
      /\ \E batch : inflight' = [inflight EXCEPT ![c] = batch]
  BY DEF Post, Take, db
<1>2. /\ q.client = c /\ q.stage = "received"
      /\ q.todo = [i \in 1..Len(inflight'[c]) |-> <<c, inflight'[c][i]>>]
      /\ q.locks = {} /\ q.inserted = {} /\ q.touched = <<>> /\ q.summing = {} /\ q.derived = {}
      /\ q.stated = [r \in Refs |-> NoEvent]
  BY DEF NewRequest
<1>3. req'[s] = q /\ \A r \in Slots \ {s} : req'[r] = req[r]
  BY <1>1 DEF DeliveryIInv, IngestIInv, ServerTyped
<1>4. at'[c] = s /\ \A k \in Clients \ {c} : at'[k] = at[k] /\ inflight'[k] = inflight[k]
  BY <1>1 DEF DeliveryIInv, IngestIInv, ServerTyped, ClientIInv, ClientTypeOK
<1>5. inflight'[c] \in Seq(1..MaxEvents)
  BY DEF IngestIInv, ClientIInv, ClientTypeOK
<1>6. Live(s)'
  <2>1. q \in Request
    <3>1. PICK f \in Seq(1..MaxEvents) : f = inflight'[c]
      BY <1>5
    <3>2. [i \in 1..Len(f) |-> <<c, f[i]>>] \in Seq(Event)
      BY <3>1, BatchOfEvents
    <3>3. PICK todo \in Seq(Event) : todo = [i \in 1..Len(inflight'[c]) |-> <<c, inflight'[c][i]>>]
      BY <3>1, <3>2
    <3>4. QED BY <3>3 DEF NewRequest, Request
  <2>2. QED BY <1>3, <2>1, FreeAssumption DEF Live
<1> HIDE DEF q
<1>7. \A r \in Slots : SlotSound(r)'
  <2>1. SlotSound(s)'
    BY <1>2, <1>3 DEF SlotSound, Blank, Guarded, Open
  <2>2. \A r \in Slots \ {s} : SlotSound(r)'
    BY <1>1, <1>3, SlotKept DEF DeliveryIInv
  <2>3. QED BY <2>1, <2>2
<1>8. Exclusive'
  <2>1. ~Open(s)' /\ \A r \in Slots \ {s} : Open(r)' <=> Open(r)
    BY <1>2, <1>3 DEF Open
  <2>2. QED BY <1>3, <2>1 DEF DeliveryIInv, Exclusive
<1>9. \A n \in Elements(inflight'[c]) : Carried(s, <<c, n>>)'
  <2>1. PICK f \in Seq(1..MaxEvents) : f = inflight'[c]
    BY <1>5
  <2>2. PICK todo : todo = [i \in 1..Len(f) |-> <<c, f[i]>>]
    OBVIOUS
  <2>3. todo \in Seq(Event) /\ Len(todo) = Len(f) /\ \A i \in 1..Len(f) : todo[i] = <<c, f[i]>>
    BY <2>2, BatchOfEvents
  <2>4. \A n \in Elements(f) : <<c, n>> \in Elements(todo)
    BY <2>3 DEF Elements
  <2>5. QED BY <1>2, <1>3, <2>1, <2>2, <2>4 DEF Carried
<1>10. Awaited'
  <2>1. SUFFICES ASSUME NEW k \in Clients, at'[k] # NoSlot
                 PROVE  /\ Live(at[k])' /\ req'[at'[k]].client = k
                        /\ \A n \in Elements(inflight'[k]) :
                             <<k, n>> \in Valid => Carried(at[k], <<k, n>>)'
    BY DEF Awaited
  <2>2. CASE k = c
    BY <1>2, <1>3, <1>4, <1>6, <1>9, <2>2
  <2>3. CASE k # c
    <3>1. PICK a \in Slots : a = at[k] /\ a = at'[k]
      BY <1>4, <2>1, <2>3 DEF DeliveryIInv, IngestIInv, ServerTyped
    <3>2. /\ Live(a) /\ req[a].client = k
          /\ \A n \in Elements(inflight[k]) : <<k, n>> \in Valid => Carried(a, <<k, n>>)
      BY <1>4, <2>1, <2>3, <3>1 DEF DeliveryIInv, Awaited
    <3>3. req'[a] = req[a]
      BY <1>1, <1>3, <3>2 DEF Live
    <3>4. \A e : Carried(a, e) => Carried(a, e)'
      BY <1>1, <3>3, CarriedKept
    <3>5. Live(a)'
      BY <3>2, <3>3 DEF Live
    <3>6. QED BY <1>4, <2>3, <3>1, <3>2, <3>3, <3>4, <3>5
  <2>4. QED BY <2>2, <2>3
<1>11. AckedIsIngested' /\ EmployeeFactsExact'
  BY <1>1 DEF DeliveryIInv, AckedIsIngested, EmployeeFactsExact, Counted
<1>12. QED BY <1>7, <1>8, <1>10, <1>11 DEF DeliveryIInv

LEMMA DeliveryInit == Init => DeliveryIInv
<1> SUFFICES ASSUME Init PROVE DeliveryIInv
  OBVIOUS
<1>1. IngestIInv
  BY IngestInit
<1>2. \A s \in Slots : ~Live(s) /\ ~Open(s)
  BY DEF Init, Live, Open
<1>3. \A c \in Clients : at[c] = NoSlot /\ acked[c] = {}
  BY DEF Init, ClientInit
<1>4. EmployeeFactsExact
  BY DEF Init, EmployeeFactsExact, Counted
<1>5. QED
  BY <1>1, <1>2, <1>3, <1>4
     DEF DeliveryIInv, SlotSound, Blank, Guarded, Exclusive, Awaited, AckedIsIngested

LEMMA DeliveryInductive == DeliveryIInv /\ [Next]_vars => DeliveryIInv'
<1> SUFFICES ASSUME DeliveryIInv, [Next]_vars PROVE DeliveryIInv'
  OBVIOUS
<1>t. IngestIInv'
  BY IngestInductive DEF DeliveryIInv
<1>1. CASE Flush
  BY <1>t, <1>1, PostDelivers DEF Flush
<1>2. ASSUME NEW c \in Clients, Track(c)
      PROVE  DeliveryIInv'
  <2>1. UNCHANGED <<at, req, ingested, fact, inflight, acked>>
    BY <1>2 DEF Track, Push, serverVars, db
  <2>2. AckedIsIngested'
    BY <2>1 DEF DeliveryIInv, AckedIsIngested
  <2>3. QED BY <1>t, <2>1, <2>2, Settles
<1>3. ASSUME NEW c \in Clients, GiveUp(c)
      PROVE  DeliveryIInv'
  <2>1. /\ UNCHANGED <<req, ingested, fact, acked>>
        /\ at' = [at EXCEPT ![c] = NoSlot]
        /\ inflight' = [inflight EXCEPT ![c] = <<>>]
    BY <1>3 DEF GiveUp, Requeue, db
  <2>2. AckedIsIngested'
    BY <2>1 DEF DeliveryIInv, AckedIsIngested
  <2>3. ASSUME NEW k \in Clients
        PROVE  at'[k] = NoSlot \/ (at'[k] = at[k] /\ inflight'[k] = inflight[k]
                                    /\ req'[at[k]] = req[at[k]])
    BY <2>1 DEF DeliveryIInv, IngestIInv, ServerTyped, ClientIInv, ClientTypeOK
  <2>4. QED BY <1>t, <2>1, <2>2, <2>3, Settles
<1>4. ASSUME NEW s \in Slots, Work(s)
      PROVE  DeliveryIInv'
  BY <1>t, <1>4, BeginDelivers, InsertDelivers, CommitDelivers, RecomputeDelivers,
     AnswerDelivers, LockDelivers, SumDelivers, WriteFactDelivers DEF Work
<1>5. ASSUME NEW s \in Slots, Reject(s) \/ RecomputeFails(s)
      PROVE  DeliveryIInv'
  BY <1>t, <1>5, AnswerDelivers
<1>6. CASE Revoke \/ UNCHANGED vars
  <2>1. UNCHANGED <<at, req, ingested, fact, inflight, acked>>
    BY <1>6 DEF Revoke, clientVars, vars, serverVars, db
  <2>2. AckedIsIngested'
    BY <2>1 DEF DeliveryIInv, AckedIsIngested
  <2>3. QED BY <1>t, <2>1, <2>2, Settles
<1>7. QED BY <1>1, <1>2, <1>3, <1>4, <1>5, <1>6 DEF Next

THEOREM DeliveryInvariance == Spec => []DeliveryIInv
BY DeliveryInit, DeliveryInductive, PTL DEF Spec

\* What a client was answered 200 for is in the ledger, whichever of its
\* requests, retries and abandoned requests inserted it.
THEOREM DeliveredIsIngested == Spec => []AckedIsIngested
<1>1. DeliveryIInv => AckedIsIngested
  BY DEF DeliveryIInv
<1>2. QED BY <1>1, DeliveryInvariance, PTL

\* The spend fact of every employee's bucket sums exactly the events ingested
\* into it, each once, however transactions overlap: the identity lock orders
\* the sums of a bucket.
THEOREM EmployeeFactsSumUp == Spec => []EmployeeFactsExact
<1>1. DeliveryIInv => EmployeeFactsExact
  BY DEF DeliveryIInv
<1>2. QED BY <1>1, DeliveryInvariance, PTL

-----------------------------------------------------------------------------
(***************************************************************************)
(* In what order the events of a client arrive, as long as its buffer has  *)
(* dropped none: a batch, its retries and the abandoned requests that      *)
(* still carry it.                                                         *)
(***************************************************************************)
Pending(s) == Live(s) /\ req[s].stage \in {"received", "working"}

\* A request handles the events of its own client.
OwnEvents(s) ==
  Pending(s) =>
    /\ \A i \in 1..Len(req[s].todo) : req[s].todo[i][1] = req[s].client
    /\ \A e \in req[s].inserted : e \in Valid /\ e[1] = req[s].client
    /\ \A r \in Refs : req[s].stated[r] # NoEvent => req[s].stated[r][1] = req[s].client

\* Every earlier event of the client is in the ledger, or new here.
Preceded(s, n) ==
  \A k \in 1..MaxEvents : k < n /\ <<req[s].client, k>> \in Valid =>
    <<req[s].client, k>> \in ingested \cup req[s].inserted

\* A request works through a run of events that follows what it has inserted,
\* what it has inserted nobody else has, and of an outcome it states the last.
InOrder(s) ==
  Pending(s) /\ dropped[req[s].client] = {} =>
    /\ \A i \in 1..Len(req[s].todo) :
         /\ req[s].todo[i] = <<req[s].client, req[s].todo[1][2] + i - 1>>
         /\ \A e \in req[s].inserted : e[2] < req[s].todo[i][2]
    /\ req[s].todo # <<>> => Preceded(s, req[s].todo[1][2])
    /\ \A e \in req[s].inserted : Preceded(s, e[2])
    /\ req[s].inserted \cap ingested = {}
    /\ \A e \in req[s].inserted \cap Outcomes :
         /\ req[s].stated[RefOf[e]] # NoEvent
         /\ req[s].stated[RefOf[e]] \in req[s].inserted
         /\ e[2] <= req[s].stated[RefOf[e]][2]
    /\ \A r \in Refs : req[s].stated[r] # NoEvent => req[s].stated[r] \in req[s].inserted

\* Of two requests of a client one at most has anything new.
OneHasNew ==
  \A r, s \in Slots :
    Pending(r) /\ Pending(s) /\ req[r].client = req[s].client /\ dropped[req[s].client] = {}
      /\ req[r].inserted # {} /\ req[s].inserted # {} => r = s

\* The ledger has no gap in the events of a client.
NoGap ==
  \A c \in Clients : dropped[c] = {} =>
    \A k, n \in 1..MaxEvents :
      <<c, k>> \in ingested /\ n < k /\ <<c, n>> \in Valid => <<c, n>> \in ingested

OrderIInv ==
  /\ DeliveryIInv
  /\ \A s \in Slots : OwnEvents(s) /\ InOrder(s)
  /\ OneHasNew /\ NoGap /\ OutcomesNewest

LEMMA DroppedStays ==
  ASSUME OrderIInv, [Next]_vars, NEW c \in Clients, dropped'[c] = {}
  PROVE  dropped[c] = {}
<1>1. [ClientNext]_clientVars
  BY NextIsClientStep DEF OrderIInv, DeliveryIInv, IngestIInv
<1>2. dropped \in [Clients -> SUBSET (1..MaxEvents)]
  BY DEF OrderIInv, DeliveryIInv, IngestIInv, ClientIInv, ClientTypeOK
<1>3. CASE UNCHANGED clientVars
  BY <1>3 DEF clientVars
<1>4. ASSUME NEW k \in Clients, NEW D, dropped' = [dropped EXCEPT ![k] = @ \cup D]
      PROVE  dropped[c] = {}
  <2>1. dropped'[c] = IF c = k THEN dropped[c] \cup D ELSE dropped[c]
    BY <1>2, <1>4
  <2>2. QED BY <2>1
<1>5. ASSUME NEW k \in Clients, Push(k) \/ Take(k) \/ Done(k) \/ Requeue(k) \/ Discard(k)
      PROVE  dropped[c] = {}
  <2>1. CASE dropped' = dropped
    BY <2>1
  <2>2. CASE \E D : dropped' = [dropped EXCEPT ![k] = @ \cup D]
    BY <1>4, <2>2
  <2>3. QED BY <1>5, <2>1, <2>2 DEF Push, Take, Done, Requeue, Discard, Refill
<1>6. QED BY <1>1, <1>3, <1>5 DEF ClientNext

\* The request handles the same events and nobody took what it inserted.
LEMMA OrderKept ==
  ASSUME NEW s \in Slots, OwnEvents(s), InOrder(s), Pending(s)' => Pending(s),
         Pending(s)' => /\ req'[s].client = req[s].client /\ req'[s].todo = req[s].todo
                        /\ req'[s].inserted = req[s].inserted /\ req'[s].stated = req[s].stated,
         dropped'[req[s].client] = {} => dropped[req[s].client] = {},
         ingested \subseteq ingested',
         Pending(s) /\ dropped[req[s].client] = {} => req[s].inserted \cap ingested' = {}
  PROVE  OwnEvents(s)' /\ InOrder(s)'
<1>1. OwnEvents(s)'
  BY DEF OwnEvents
<1>2. ASSUME Pending(s)', dropped'[req'[s].client] = {}
      PROVE  /\ Pending(s) /\ dropped[req[s].client] = {}
             /\ req'[s].client = req[s].client /\ req'[s].todo = req[s].todo
             /\ req'[s].inserted = req[s].inserted /\ req'[s].stated = req[s].stated
             /\ \A n : Preceded(s, n) => Preceded(s, n)'
  BY <1>2 DEF Preceded
<1>3. InOrder(s)'
  BY <1>2 DEF InOrder
<1>4. QED BY <1>1, <1>3

LEMMA QuietOrder ==
  ASSUME OrderIInv, DeliveryIInv', UNCHANGED <<ingested, outcome>>,
         \A c \in Clients : dropped'[c] = {} => dropped[c] = {},
         \A s \in Slots : Pending(s)' =>
           /\ Pending(s)
           /\ req'[s].client = req[s].client /\ req'[s].todo = req[s].todo
           /\ req'[s].inserted = req[s].inserted /\ req'[s].stated = req[s].stated
  PROVE  OrderIInv'
<1>1. \A s \in Slots : Pending(s) => req[s].client \in Clients
  BY LiveTyped DEF OrderIInv, DeliveryIInv, IngestIInv, Pending, Request
<1>2. ASSUME NEW s \in Slots
      PROVE  OwnEvents(s)' /\ InOrder(s)'
  <2>1. CASE Pending(s)'
    <3>1. Pending(s) /\ req[s].client \in Clients /\ OwnEvents(s) /\ InOrder(s)
      BY <1>1, <2>1 DEF OrderIInv
    <3>2. dropped[req[s].client] = {} => req[s].inserted \cap ingested' = {}
      BY <3>1 DEF InOrder
    <3>3. QED BY <2>1, <3>1, <3>2, OrderKept
  <2>2. CASE ~Pending(s)'
    BY <2>2 DEF OwnEvents, InOrder
  <2>3. QED BY <2>1, <2>2
<1>3. OneHasNew'
  <2>1. SUFFICES ASSUME NEW r \in Slots, NEW s \in Slots, Pending(r)', Pending(s)',
                        req'[r].client = req'[s].client, dropped'[req'[s].client] = {},
                        req'[r].inserted # {}, req'[s].inserted # {}
                 PROVE  r = s
    BY DEF OneHasNew
  <2>2. Pending(r) /\ Pending(s) /\ req[r].client = req[s].client
        /\ req[r].inserted # {} /\ req[s].inserted # {} /\ dropped[req[s].client] = {}
    BY <1>1, <2>1
  <2>3. QED BY <2>2 DEF OrderIInv, OneHasNew
<1>4. NoGap'
  BY DEF OrderIInv, NoGap
<1>5. OutcomesNewest'
  <2>1. \A e \in Event : e[1] \in Clients
    BY DEF Event
  <2>2. Outcomes \subseteq Event
    BY EventsAssumption
  <2>3. QED BY <2>1, <2>2 DEF OrderIInv, OutcomesNewest
<1>6. QED BY <1>2, <1>3, <1>4, <1>5 DEF OrderIInv

\* A batch taken from the buffer: everything older has been acknowledged.
LEMMA PostOrder ==
  ASSUME OrderIInv, DeliveryIInv', NEW c \in Clients, NEW s \in Slots, Post(c, s)
  PROVE  OrderIInv'
<1>q. PICK q : q = NewRequest(c)
  OBVIOUS
<1>1. req' = [req EXCEPT ![s] = q] /\ UNCHANGED <<ingested, outcome, dropped, acked>>
  BY <1>q DEF Post, Take, db
<1>2. /\ q.client = c /\ q.inserted = {} /\ q.stated = [r \in Refs |-> NoEvent]
      /\ q.todo = [i \in 1..Len(inflight'[c]) |-> <<c, inflight'[c][i]>>]
  BY <1>q DEF NewRequest
<1>3. req'[s] = q /\ \A r \in Slots \ {s} : req'[r] = req[r]
  BY <1>1 DEF OrderIInv, DeliveryIInv, IngestIInv, ServerTyped
<1>4. PICK f \in Seq(1..MaxEvents) : f = inflight'[c] /\ f # <<>>
  <2>1. inflight'[c] \in Seq(1..MaxEvents)
    BY DEF DeliveryIInv, IngestIInv, ClientIInv, ClientTypeOK
  <2>2. PICK b \in Seq(1..MaxEvents) : b = buffer[c]
    BY DEF OrderIInv, DeliveryIInv, IngestIInv, ClientIInv, ClientTypeOK
  <2>3. Smaller(FlushBatch, Len(b)) \in 1..Len(b)
    BY <2>2, ClientAssumption DEF Smaller, Post, Take
  <2>4. inflight'[c] = SubSeq(b, 1, Smaller(FlushBatch, Len(b)))
    BY <2>2 DEF Post, Take, OrderIInv, DeliveryIInv, IngestIInv, ClientIInv, ClientTypeOK
  <2>5. Len(inflight'[c]) = Smaller(FlushBatch, Len(b))
    <3> HIDE DEF Smaller
    <3>1. QED BY <2>3, <2>4, Prefix
  <2>6. QED BY <2>1, <2>3, <2>5
<1>5. /\ Len(f) \in Nat \ {0} /\ \A i \in 1..Len(f) : f[i] \in 1..MaxEvents
      /\ \A i \in 1..Len(f) : f[i] = f[1] + i - 1
  <2>1. \A i \in 1..Len(f) : f[i] = f[1] + i - 1
    BY <1>4 DEF DeliveryIInv, IngestIInv, ClientIInv, BatchIsRun
  <2>2. Len(f) \in Nat \ {0}
    BY <1>4
  <2>3. \A i \in 1..Len(f) : f[i] \in 1..MaxEvents
    BY <1>4, EntriesAre
  <2>4. QED BY <2>1, <2>2, <2>3
<1>6. q.todo # <<>> /\ Len(q.todo) = Len(f) /\ \A i \in 1..Len(f) : q.todo[i] = <<c, f[i]>>
  <2>1. PICK todo : todo = [i \in 1..Len(f) |-> <<c, f[i]>>]
    OBVIOUS
  <2>2. todo \in Seq(Event)
    BY <1>4, <2>1, BatchOfEvents
  <2>3. Len(f) \in Nat \ {0}
    BY <1>5
  <2>4. DOMAIN todo = 1..Len(f)
    BY <2>1
  <2>5. DOMAIN todo = 1..Len(todo) /\ Len(todo) \in Nat
    BY <2>2
  <2>6. Len(todo) = Len(f)
    BY <2>3, <2>4, <2>5
  <2>7. todo # <<>>
    BY <2>2, <2>3, <2>6
  <2>8. q.todo = todo
    BY <1>2, <1>4, <2>1
  <2>9. QED BY <2>1, <2>6, <2>7, <2>8
<1>7. ASSUME dropped[c] = {}, NEW k \in 1..MaxEvents, k < f[1], <<c, k>> \in Valid
      PROVE  <<c, k>> \in ingested
  <2>b. PICK b \in Seq(1..MaxEvents) : b = buffer'[c]
    BY DEF DeliveryIInv, IngestIInv, ClientIInv, ClientTypeOK
  <2>m. PICK m \in 0..MaxEvents : m = made'[c]
    BY DEF DeliveryIInv, IngestIInv, ClientIInv, ClientTypeOK
  <2>1. /\ f[1] + Len(f) - 1 <= m - Len(b)
        /\ \A i \in 1..Len(b) : b[i] = m - Len(b) + i
    <3>1. f[1] + Len(f) - 1 <= m - Len(b)
      BY <1>4, <2>b, <2>m DEF DeliveryIInv, IngestIInv, ClientIInv, BatchIsRun
    <3>2. \A i \in 1..Len(b) : b[i] = m - Len(b) + i
      BY <2>b, <2>m DEF DeliveryIInv, IngestIInv, ClientIInv, BufferIsNewest
    <3>3. QED BY <3>1, <3>2
  <2>2. k \in 1..m /\ k \notin Elements(f) /\ k \notin Elements(b)
    <3>1. Len(b) \in Nat /\ f[1] \in Nat
      BY <1>5, <2>1
    <3>2. k < m - Len(b)
      BY <1>5, <1>7, <2>1, <3>1
    <3>3. k \in 1..m
      BY <3>1, <3>2
    <3>4. k \notin Elements(f)
      BY <1>5, <1>7, <3>1 DEF Elements
    <3>5. k \notin Elements(b)
      BY <2>1, <3>1, <3>2 DEF Elements
    <3>6. QED BY <3>3, <3>4, <3>5
  <2>3. k \in acked'[c]
    BY <1>1, <1>4, <1>7, <2>b, <2>m, <2>2 DEF DeliveryIInv, IngestIInv, ClientIInv, NothingVanishes
  <2>4. QED BY <1>1, <1>7, <2>3 DEF DeliveryIInv, AckedIsIngested, Valid
<1>8. OwnEvents(s)' /\ InOrder(s)'
  <2>1. OwnEvents(s)'
    BY <1>2, <1>3, <1>6 DEF OwnEvents
  <2>2. ASSUME dropped[c] = {}
        PROVE  Preceded(s, f[1])'
    BY <1>1, <1>2, <1>3, <1>7, <2>2 DEF Preceded
  <2>3. \A i \in 1..Len(q.todo) : q.todo[i] = <<c, q.todo[1][2] + i - 1>>
    BY <1>5, <1>6
  <2>4. q.todo[1][2] = f[1]
    BY <1>5, <1>6
  <2>5. ASSUME dropped[c] = {}
        PROVE  Preceded(s, q.todo[1][2])'
    <3>1. PICK n : n = f[1]
      OBVIOUS
    <3>2. Preceded(s, n)'
      BY <2>2, <2>5, <3>1
    <3>3. QED BY <2>4, <3>1, <3>2
  <2>s. \A r \in Refs : q.stated[r] = NoEvent
    BY <1>2
  <2>6. InOrder(s)'
    BY <1>1, <1>2, <1>3, <2>3, <2>5, <2>s DEF InOrder
  <2>7. QED BY <2>1, <2>6
<1>9. \A r \in Slots \ {s} : Pending(r)' <=> Pending(r)
  BY <1>3 DEF Pending, Live
<1>10. \A r \in Slots \ {s} : OwnEvents(r)' /\ InOrder(r)'
  <2>1. SUFFICES ASSUME NEW r \in Slots \ {s}
                 PROVE  OwnEvents(r)' /\ InOrder(r)'
    OBVIOUS
  <2>2. OwnEvents(r) /\ InOrder(r)
    BY DEF OrderIInv
  <2>3. Pending(r) /\ dropped[req[r].client] = {} => req[r].inserted \cap ingested' = {}
    BY <1>1, <2>2 DEF InOrder
  <2>4. QED BY <1>1, <1>3, <1>9, <2>2, <2>3, OrderKept
<1>11. OneHasNew'
  BY <1>1, <1>2, <1>3, <1>9 DEF OrderIInv, OneHasNew
<1>12. NoGap' /\ OutcomesNewest'
  BY <1>1 DEF OrderIInv, NoGap, OutcomesNewest
<1>13. QED BY <1>8, <1>10, <1>11, <1>12 DEF OrderIInv

LEMMA EventPair ==
  ASSUME NEW e \in Event
  PROVE  e = <<e[1], e[2]>> /\ e[1] \in Clients /\ e[2] \in 1..MaxEvents
BY DEF Event

\* The next event of the batch is inserted if no transaction, this one or
\* another of the client, has it: then all its own follow what the ledger has.
LEMMA InsertOrder ==
  ASSUME OrderIInv, DeliveryIInv', NEW s \in Slots, Insert(s)
  PROVE  OrderIInv'
<1>1. Open(s) /\ Pending(s) /\ req[s] \in Request
      /\ req[s].todo \in Seq(Event) /\ req[s].todo # <<>>
  <2>1. Open(s) /\ Live(s) /\ Pending(s) /\ req[s].todo # <<>>
    BY DEF Insert, Ready, Open, Live, Pending
  <2>2. req[s] \in Request
    BY <2>1, LiveTyped DEF OrderIInv, DeliveryIInv, IngestIInv
  <2>3. QED BY <2>1, <2>2 DEF Request
<1>2. PICK c \in Clients : c = req[s].client
  BY <1>1 DEF Request
<1>3. PICK todo \in Seq(Event) : todo = req[s].todo
  BY <1>1
<1>4. Len(todo) \in Nat \ {0}
  BY <1>1, <1>3
<1>5. PICK e \in Event : e = Head(todo) /\ e = todo[1]
  BY <1>1, <1>3
<1>6. PICK q \in Request :
        /\ q.client = c /\ q.stage = "working" /\ q.todo = Tail(todo)
        /\ q.inserted = IF IsNew(e) THEN req[s].inserted \cup {e} ELSE req[s].inserted
        /\ q.stated = IF IsNew(e) /\ e \in Outcomes
                      THEN [req[s].stated EXCEPT ![RefOf[e]] = e] ELSE req[s].stated
        /\ req' = [req EXCEPT ![s] = q] /\ req'[s] = q
  BY <1>2, <1>3, <1>5, InsertMoves DEF OrderIInv, DeliveryIInv, IngestIInv
<1>7. UNCHANGED <<ingested, outcome, dropped>>
  BY DEF Insert, db, clientVars
<1>8. \A r \in Slots \ {s} : req'[r] = req[r]
  BY <1>6 DEF OrderIInv, DeliveryIInv, IngestIInv, ServerTyped
<1>9. Pending(s)' /\ \A r \in Slots \ {s} : Pending(r)' <=> Pending(r)
  BY <1>6, <1>8, FreeAssumption DEF Pending, Live
<1>10. OwnEvents(s) /\ InOrder(s)
  BY DEF OrderIInv
<1>11. e[1] = c /\ (IsNew(e) => e \in Valid /\ e \notin ingested)
  BY <1>1, <1>2, <1>3, <1>4, <1>5, <1>10 DEF OwnEvents, IsNew, Valid
<1>12. q.todo \in Seq(Event) /\ Len(q.todo) = Len(todo) - 1
       /\ \A i \in 1..Len(q.todo) : q.todo[i] = todo[i + 1] /\ i + 1 \in 1..Len(todo)
  <2>1. Len(Tail(todo)) = Len(todo) - 1 /\ Tail(todo) \in Seq(Event)
    BY <1>1, <1>3
  <2>2. \A i \in 1..Len(todo) - 1 : Tail(todo)[i] = todo[i + 1]
    BY <1>1, <1>3
  <2>3. QED BY <1>4, <1>6, <2>1, <2>2
<1>13. q.stated \in [Refs -> Event \cup {NoEvent}] /\ req[s].stated \in [Refs -> Event \cup {NoEvent}]
       /\ \A r \in Refs : q.stated[r] = IF IsNew(e) /\ e \in Outcomes /\ r = RefOf[e]
                                        THEN e ELSE req[s].stated[r]
  <2>1. req[s].stated \in [Refs -> Event \cup {NoEvent}]
    BY <1>1 DEF Request
  <2>2. e \in Outcomes => RefOf[e] \in Refs
    BY EventsAssumption
  <2>3. q.stated \in [Refs -> Event \cup {NoEvent}]
    BY DEF Request
  <2>4. QED BY <1>6, <2>1, <2>2, <2>3
<1>14. OwnEvents(s)'
  <2>1. \A i \in 1..Len(q.todo) : q.todo[i][1] = c
    BY <1>1, <1>2, <1>3, <1>10, <1>12 DEF OwnEvents
  <2>2. \A x \in q.inserted : x \in Valid /\ x[1] = c
    BY <1>1, <1>2, <1>6, <1>10, <1>11 DEF OwnEvents
  <2>3. \A r \in Refs : q.stated[r] # NoEvent => q.stated[r][1] = c
    BY <1>1, <1>2, <1>10, <1>11, <1>13 DEF OwnEvents
  <2>4. QED BY <1>6, <2>1, <2>2, <2>3 DEF OwnEvents, Valid
<1>15. ASSUME dropped[c] = {}
       PROVE  InOrder(s)'
  <2>1. PICK n \in 1..MaxEvents : n = e[2] /\ e = <<c, n>>
    BY <1>11, EventPair
  <2>2. \A i \in 1..Len(todo) : todo[i] = <<c, n + i - 1>>
    BY <1>1, <1>2, <1>3, <1>5, <1>10, <1>15, <2>1 DEF InOrder
  <2>3. \A i \in 1..Len(todo) : \A x \in req[s].inserted : x[2] < todo[i][2]
    BY <1>1, <1>2, <1>3, <1>10, <1>15 DEF InOrder
  <2>4. \A x \in req[s].inserted : x[2] \in 1..MaxEvents /\ x[2] < n
    <3>1. \A x \in req[s].inserted : x \in Event
      BY <1>1 DEF Request
    <3>2. QED BY <1>4, <1>5, <2>1, <2>3, <3>1, EventPair
  <2>5. \A i \in 1..Len(q.todo) : q.todo[i] = <<c, n + i>>
    <3>1. \A i \in 1..Len(q.todo) : n + (i + 1) - 1 = n + i
      BY <1>4, <1>12
    <3>2. QED BY <1>12, <2>2, <3>1
  <2>6. \A i \in 1..Len(q.todo) : q.todo[i] = <<c, q.todo[1][2] + i - 1>>
    <3>1. SUFFICES ASSUME NEW i \in 1..Len(q.todo)
                   PROVE  q.todo[i] = <<c, q.todo[1][2] + i - 1>>
      OBVIOUS
    <3>2. 1 \in 1..Len(q.todo) /\ i \in Nat
      BY <1>4, <1>12, <3>1
    <3>3. q.todo[1][2] = n + 1
      BY <2>5, <3>2
    <3>4. (n + 1) + i - 1 = n + i
      BY <3>2
    <3>5. QED BY <2>5, <3>3, <3>4
  <2>7. \A i \in 1..Len(q.todo) : \A x \in q.inserted : x[2] < q.todo[i][2]
    <3>0. \A i \in 1..Len(q.todo) : i \in Nat \ {0}
      BY <1>4, <1>12
    <3>1. \A i \in 1..Len(q.todo) : q.todo[i][2] = n + i /\ i \in Nat \ {0}
      BY <2>5, <3>0
    <3>2. \A x \in q.inserted : x[2] \in 1..MaxEvents /\ x[2] <= n
      BY <1>6, <2>1, <2>4
    <3>3. QED BY <3>1, <3>2
  <2>8. \A k \in 1..MaxEvents : k < n /\ <<c, k>> \in Valid =>
          <<c, k>> \in ingested \cup req[s].inserted
    <3>1. Preceded(s, n)
      BY <1>1, <1>2, <1>3, <1>5, <1>10, <1>15, <2>1 DEF InOrder
    <3>2. QED BY <1>2, <3>1 DEF Preceded
  <2>9. req[s].inserted \subseteq q.inserted /\ (e \in Valid => e \in ingested \cup q.inserted)
    BY <1>6 DEF IsNew, Valid
  <2>10. q.todo # <<>> => Preceded(s, q.todo[1][2])'
    <3>1. Preceded(s, n + 1)'
      BY <1>6, <1>7, <2>1, <2>8, <2>9 DEF Preceded, Valid
    <3>2. q.todo # <<>> => q.todo[1][2] = n + 1
      <4>1. q.todo # <<>> => 1 \in 1..Len(q.todo)
        BY <1>12
      <4>2. QED BY <2>5, <4>1
    <3>3. QED BY <3>1, <3>2
  <2>11. ASSUME NEW x \in q.inserted
         PROVE  Preceded(s, x[2])'
    <3>1. CASE x = e
      BY <1>6, <1>7, <2>1, <2>8, <2>9, <3>1 DEF Preceded, Valid
    <3>2. CASE x \in req[s].inserted
      <4>1. Preceded(s, x[2])
        BY <1>1, <1>2, <1>10, <1>15, <3>2 DEF InOrder
      <4>2. QED BY <1>2, <1>6, <1>7, <2>9, <4>1 DEF Preceded, Valid
    <3>3. QED BY <1>6, <3>1, <3>2
  <2>12. q.inserted \cap ingested = {}
    BY <1>1, <1>2, <1>6, <1>10, <1>11, <1>15 DEF InOrder
  <2>13. ASSUME NEW x \in q.inserted \cap Outcomes
         PROVE  /\ q.stated[RefOf[x]] # NoEvent
                /\ q.stated[RefOf[x]] \in q.inserted
                /\ x[2] <= q.stated[RefOf[x]][2]
    <3>1. RefOf[x] \in Refs /\ e # NoEvent
      BY EventsAssumption
    <3>2. CASE IsNew(e) /\ e \in Outcomes /\ RefOf[x] = RefOf[e]
      <4>1. q.stated[RefOf[x]] = e /\ e \in q.inserted
        BY <1>6, <1>13, <3>1, <3>2
      <4>2. x[2] <= n
        BY <1>6, <2>1, <2>4, <3>2
      <4>3. QED BY <2>1, <3>1, <4>1, <4>2
    <3>3. CASE ~(IsNew(e) /\ e \in Outcomes /\ RefOf[x] = RefOf[e])
      <4>1. x \in req[s].inserted
        BY <1>6, <3>3
      <4>2. q.stated[RefOf[x]] = req[s].stated[RefOf[x]]
        BY <1>13, <3>1, <3>3
      <4>3. QED BY <1>1, <1>2, <1>10, <1>15, <2>9, <4>1, <4>2 DEF InOrder
    <3>4. QED BY <3>2, <3>3
  <2>14. ASSUME NEW r \in Refs, q.stated[r] # NoEvent
         PROVE  q.stated[r] \in q.inserted
    <3>1. CASE IsNew(e) /\ e \in Outcomes /\ r = RefOf[e]
      BY <1>6, <1>13, <3>1
    <3>2. CASE ~(IsNew(e) /\ e \in Outcomes /\ r = RefOf[e])
      BY <1>1, <1>2, <1>10, <1>13, <1>15, <2>9, <2>14, <3>2 DEF InOrder
    <3>3. QED BY <3>1, <3>2
  <2>15. QED BY <1>6, <1>7, <2>6, <2>7, <2>10, <2>11, <2>12, <2>13, <2>14 DEF InOrder
<1>16. InOrder(s)'
  BY <1>6, <1>7, <1>15 DEF InOrder
<1>17. \A r \in Slots \ {s} : OwnEvents(r)' /\ InOrder(r)'
  <2>1. SUFFICES ASSUME NEW r \in Slots \ {s}
                 PROVE  OwnEvents(r)' /\ InOrder(r)'
    OBVIOUS
  <2>2. OwnEvents(r) /\ InOrder(r)
    BY DEF OrderIInv
  <2>3. Pending(r) /\ dropped[req[r].client] = {} => req[r].inserted \cap ingested' = {}
    BY <1>7, <2>2 DEF InOrder
  <2>4. QED BY <1>7, <1>8, <1>9, <2>2, <2>3, OrderKept
<1>18. ASSUME NEW r \in Slots \ {s}, Pending(r), req[r].client = c, dropped[c] = {},
              req[r].inserted # {}, q.inserted # {}
       PROVE  FALSE
  <2>1. req[s].inserted = {} /\ IsNew(e)
    BY <1>1, <1>2, <1>6, <1>18 DEF OrderIInv, OneHasNew
  <2>2. OwnEvents(r) /\ InOrder(r) /\ req[r] \in Request
    BY <1>18, LiveTyped DEF OrderIInv, DeliveryIInv, IngestIInv, Pending
  <2>3. PICK g \in Event : g \in req[r].inserted
    BY <1>18, <2>2 DEF Request
  <2>4. g \in Valid /\ g[1] = c /\ g \notin ingested
    BY <1>18, <2>2, <2>3 DEF OwnEvents, InOrder
  <2>5. PICK m \in 1..MaxEvents : m = g[2] /\ g = <<c, m>>
    BY <2>4, EventPair
  <2>6. PICK n \in 1..MaxEvents : n = e[2] /\ e = <<c, n>>
    BY <1>11, EventPair
  <2>7. e \notin req[r].inserted
    <3>1. Open(r)
      <4>1. SlotSound(r)
        BY DEF OrderIInv, DeliveryIInv
      <4>2. QED BY <1>18, <4>1 DEF SlotSound, Blank, Pending, Live, Open
    <3>2. Named(s) \ req[s].locks = {} /\ WaitsFor(s) = {}
      BY DEF Insert, Ready
    <3>3. ~HoldsEvent(r, e)
      BY <1>1, <1>3, <1>5, <3>1, <3>2 DEF WaitsFor, Others
    <3>4. QED BY <3>3 DEF HoldsEvent
  <2>8. CASE n < m
    <3>1. Preceded(r, m)
      BY <1>18, <2>2, <2>3, <2>5 DEF InOrder
    <3>2. e \in ingested \cup req[r].inserted
      BY <1>11, <1>18, <2>1, <2>6, <2>8, <3>1 DEF Preceded
    <3>3. QED BY <1>11, <2>1, <2>7, <3>2
  <2>9. CASE m < n
    <3>1. Preceded(s, n)
      BY <1>1, <1>2, <1>3, <1>5, <1>10, <1>18, <2>6 DEF InOrder
    <3>2. g \in ingested \cup req[s].inserted
      BY <1>2, <2>4, <2>5, <2>9, <3>1 DEF Preceded
    <3>3. QED BY <2>1, <2>4, <3>2
  <2>10. CASE m = n
    BY <2>3, <2>5, <2>6, <2>7, <2>10
  <2>11. QED BY <2>8, <2>9, <2>10
<1>19. OneHasNew'
  <2>1. SUFFICES ASSUME NEW r \in Slots, NEW t \in Slots, Pending(r)', Pending(t)',
                        req'[r].client = req'[t].client, dropped'[req'[t].client] = {},
                        req'[r].inserted # {}, req'[t].inserted # {}, r # t
                 PROVE  FALSE
    BY DEF OneHasNew
  <2>2. CASE r = s
    <3>1. t \in Slots \ {s} /\ req'[t] = req[t] /\ Pending(t)
      BY <1>8, <1>9, <2>1, <2>2
    <3>2. req'[r] = q /\ req[t].client = c /\ dropped[c] = {} /\ q.inserted # {}
          /\ req[t].inserted # {}
      BY <1>6, <1>7, <2>1, <2>2, <3>1
    <3>3. QED BY <1>18, <3>1, <3>2
  <2>3. CASE t = s
    BY <1>6, <1>7, <1>8, <1>9, <1>18, <2>1, <2>3
  <2>4. CASE r # s /\ t # s
    BY <1>7, <1>8, <1>9, <2>1, <2>4 DEF OrderIInv, OneHasNew
  <2>5. QED BY <2>2, <2>3, <2>4
<1>20. NoGap' /\ OutcomesNewest'
  BY <1>7 DEF OrderIInv, NoGap, OutcomesNewest, Valid
<1>21. QED BY <1>14, <1>16, <1>17, <1>19, <1>20 DEF OrderIInv

\* A commit adds a run of new events that are newer than all the client has in
\* the ledger, and for an outcome the newest of them.
LEMMA CommitOrder ==
  ASSUME OrderIInv, DeliveryIInv', NEW s \in Slots, Commit(s)
  PROVE  OrderIInv'
<1>1. Pending(s) /\ req[s] \in Request /\ req[s].inserted \subseteq Event
      /\ req[s].stated \in [Refs -> Event \cup {NoEvent}]
  <2>1. Live(s) /\ Pending(s)
    BY DEF Commit, Ready, Open, Live, Pending
  <2>2. req[s] \in Request
    BY <2>1, LiveTyped DEF OrderIInv, DeliveryIInv, IngestIInv
  <2>3. QED BY <2>1, <2>2 DEF Request
<1>2. PICK c \in Clients : c = req[s].client
  BY <1>1 DEF Request
<1>3. PICK q : q = [req[s] EXCEPT !.stage = "recomputing"]
  OBVIOUS
<1>4. q.stage = "recomputing" /\ req'[s] = q /\ \A r \in Slots \ {s} : req'[r] = req[r]
  BY <1>1, <1>3 DEF Commit, OrderIInv, DeliveryIInv, IngestIInv, ServerTyped, Request
<1>5. /\ ingested' = ingested \cup req[s].inserted
      /\ \A r \in Refs : outcome'[r] = IF req[s].stated[r] # NoEvent
                                       THEN req[s].stated[r] ELSE outcome[r]
      /\ dropped' = dropped
  BY DEF Commit, clientVars
<1>6. ~Pending(s)' /\ \A r \in Slots \ {s} : Pending(r)' <=> Pending(r)
  BY <1>4 DEF Pending, Live
<1>7. OwnEvents(s) /\ InOrder(s)
  BY DEF OrderIInv
<1>8. OwnEvents(s)' /\ InOrder(s)'
  BY <1>6 DEF OwnEvents, InOrder
<1>9. ASSUME NEW r \in Slots \ {s}
      PROVE  OwnEvents(r)' /\ InOrder(r)'
  <2>1. OwnEvents(r) /\ InOrder(r)
    BY DEF OrderIInv
  <2>2. ASSUME Pending(r), dropped[req[r].client] = {}, NEW e \in req[r].inserted,
               e \in ingested \/ e \in req[s].inserted
        PROVE  FALSE
    <3>1. e \notin ingested
      BY <2>1, <2>2 DEF InOrder
    <3>2. req[r].client = c
      BY <1>1, <1>2, <1>7, <2>1, <2>2, <3>1 DEF OwnEvents
    <3>3. QED BY <1>1, <1>2, <1>9, <2>2, <3>1, <3>2 DEF OrderIInv, OneHasNew
  <2>3. Pending(r) /\ dropped[req[r].client] = {} => req[r].inserted \cap ingested' = {}
    BY <1>5, <2>2
  <2>4. QED BY <1>4, <1>5, <1>6, <2>1, <2>3, OrderKept
<1>10. OneHasNew'
  BY <1>4, <1>5, <1>6 DEF OrderIInv, OneHasNew
<1>11. NoGap'
  <2>1. SUFFICES ASSUME NEW d \in Clients, dropped[d] = {},
                        NEW k \in 1..MaxEvents, NEW n \in 1..MaxEvents,
                        <<d, k>> \in ingested \cup req[s].inserted, n < k, <<d, n>> \in Valid
                 PROVE  <<d, n>> \in ingested \cup req[s].inserted
    BY <1>5 DEF NoGap, Valid
  <2>2. CASE <<d, k>> \in ingested
    BY <2>1, <2>2 DEF OrderIInv, NoGap
  <2>3. CASE <<d, k>> \in req[s].inserted
    <3>1. d = c
      BY <1>1, <1>2, <1>7, <2>3 DEF OwnEvents
    <3>2. Preceded(s, k)
      <4>1. PICK e : e = <<d, k>>
        OBVIOUS
      <4>2. Preceded(s, e[2])
        BY <1>1, <1>2, <1>7, <2>1, <2>3, <3>1, <4>1 DEF InOrder
      <4>3. QED BY <4>1, <4>2
    <3>3. QED BY <1>2, <2>1, <3>1, <3>2 DEF Preceded
  <2>4. QED BY <2>1, <2>2, <2>3
<1>12. OutcomesNewest'
  <2>1. SUFFICES ASSUME NEW e \in (ingested \cup req[s].inserted) \cap Outcomes,
                        dropped[e[1]] = {}
                 PROVE  /\ outcome'[RefOf[e]] # NoEvent
                        /\ outcome'[RefOf[e]][1] = e[1] => outcome'[RefOf[e]][2] >= e[2]
    BY <1>5 DEF OutcomesNewest
  <2>2. e \in Event /\ RefOf[e] \in Refs
    BY <2>1, EventsAssumption
  <2>3. PICK n \in 1..MaxEvents : n = e[2] /\ e = <<e[1], n>> /\ e[1] \in Clients
    BY <2>2, EventPair
  <2>4. CASE req[s].stated[RefOf[e]] = NoEvent
    <3>1. e \notin req[s].inserted
      BY <1>1, <1>2, <1>7, <2>1, <2>4 DEF OwnEvents, InOrder
    <3>2. outcome'[RefOf[e]] = outcome[RefOf[e]] /\ e \in ingested \cap Outcomes
      BY <1>5, <2>1, <2>2, <2>4, <3>1
    <3>3. QED BY <2>1, <3>2 DEF OrderIInv, OutcomesNewest
  <2>5. CASE req[s].stated[RefOf[e]] # NoEvent
    <3>1. PICK g \in Event : g = req[s].stated[RefOf[e]] /\ outcome'[RefOf[e]] = g
      BY <1>1, <1>5, <2>2, <2>5
    <3>2. g # NoEvent
      BY EventsAssumption
    <3>3. g[1] = c
      BY <1>1, <1>2, <1>7, <2>2, <2>5, <3>1 DEF OwnEvents
    <3>4. PICK m \in 1..MaxEvents : m = g[2] /\ g = <<c, m>>
      BY <3>3, EventPair
    <3>5. ASSUME c = e[1]
          PROVE  n <= m
      <4>1. g \in req[s].inserted /\ g \notin ingested
        BY <1>1, <1>2, <1>7, <2>1, <2>2, <2>5, <3>1, <3>5 DEF InOrder
      <4>2. CASE e \in req[s].inserted
        BY <1>1, <1>2, <1>7, <2>1, <2>3, <3>1, <3>4, <3>5, <4>2 DEF InOrder
      <4>3. CASE e \in ingested /\ m < n
        <5>1. g \in Valid
          BY <1>1, <1>7, <4>1 DEF OwnEvents
        <5>2. <<c, n>> \in ingested /\ dropped[c] = {}
          BY <2>1, <2>3, <3>5, <4>3
        <5>3. g \in ingested
          BY <3>4, <4>3, <5>1, <5>2 DEF OrderIInv, NoGap
        <5>4. QED BY <4>1, <5>3
      <4>4. QED BY <2>1, <4>2, <4>3
    <3>6. QED BY <2>3, <3>1, <3>2, <3>3, <3>4, <3>5
  <2>6. QED BY <2>4, <2>5
<1>13. QED BY <1>8, <1>9, <1>10, <1>11, <1>12 DEF OrderIInv

LEMMA OrderInit == Init => OrderIInv
<1> SUFFICES ASSUME Init PROVE OrderIInv
  OBVIOUS
<1>1. DeliveryIInv
  BY DeliveryInit
<1>2. \A s \in Slots : ~Pending(s)
  BY DEF Init, Pending, Live
<1>3. NoGap /\ OutcomesNewest
  BY DEF Init, NoGap, OutcomesNewest
<1>4. QED BY <1>1, <1>2, <1>3 DEF OrderIInv, OwnEvents, InOrder, OneHasNew

\* The steps of a request that neither insert nor commit.
LEMMA OtherStepsOrder ==
  ASSUME OrderIInv, DeliveryIInv', [Next]_vars, NEW s \in Slots,
         \/ Begin(s) \/ Recompute(s) \/ Accept(s) \/ TurnAway(s) \/ Abort(s)
         \/ Reject(s) \/ RecomputeFails(s)
         \/ (\E p : LockIdentity(s, p))
         \/ (\E b \in Buckets : Sum(s, b) \/ WriteFact(s, b))
  PROVE  OrderIInv'
<1> DEFINE Same ==
             /\ \A r \in Slots \ {s} : req'[r] = req[r]
             /\ Pending(s)' =>
                  /\ Pending(s)
                  /\ req'[s].client = req[s].client /\ req'[s].todo = req[s].todo
                  /\ req'[s].inserted = req[s].inserted /\ req'[s].stated = req[s].stated
<1>1. Live(s) /\ req[s] \in Request
  <2>1. Live(s)
    BY DEF Begin, Recompute, Accept, TurnAway, Abort, Reject, RecomputeFails, LockIdentity,
           Sum, WriteFact, Ready, Open, Live
  <2>2. QED BY <2>1, LiveTyped DEF OrderIInv, DeliveryIInv, IngestIInv
<1>2. UNCHANGED <<ingested, outcome>>
  BY DEF Begin, Recompute, Accept, TurnAway, Abort, Reject, RecomputeFails, LockIdentity,
         Sum, WriteFact, db
<1>3. \A c \in Clients : dropped'[c] = {} => dropped[c] = {}
  BY DroppedStays
<1>4. Same
  <2>1. ASSUME NEW q, req' = [req EXCEPT ![s] = q]
        PROVE  req'[s] = q /\ \A r \in Slots \ {s} : req'[r] = req[r]
    BY <2>1 DEF OrderIInv, DeliveryIInv, IngestIInv, ServerTyped
  <2>2. ASSUME NEW q, req' = [req EXCEPT ![s] = q], Pending(s),
               q.client = req[s].client, q.todo = req[s].todo,
               q.inserted = req[s].inserted, q.stated = req[s].stated
        PROVE  Same
    BY <2>1, <2>2
  <2>3. CASE Accept(s) \/ TurnAway(s) \/ Abort(s) \/ Reject(s) \/ RecomputeFails(s)
    <3>1. req' = [req EXCEPT ![s] = Free]
      BY <2>3 DEF Accept, TurnAway, Abort, Reject, RecomputeFails, Answer
    <3>2. QED BY <2>1, <3>1 DEF Pending, Live
  <2>4. CASE Recompute(s)
    <3>1. PICK q : q = [req[s] EXCEPT !.stage = "answering"]
      OBVIOUS
    <3>2. req' = [req EXCEPT ![s] = q]
      BY <2>4, <3>1 DEF Recompute
    <3>3. q.stage = "answering"
      BY <1>1, <3>1 DEF Request
    <3>4. QED BY <2>1, <3>2, <3>3 DEF Pending
  <2> HIDE DEF Same
  <2>5. CASE Begin(s)
    <3>1. PICK q : q = [req[s] EXCEPT !.stage = "working"]
      OBVIOUS
    <3>2. req' = [req EXCEPT ![s] = q]
      BY <2>5, <3>1 DEF Begin
    <3>3. Pending(s)
      BY <2>5 DEF Begin, Pending, Live
    <3>4. /\ q.client = req[s].client /\ q.todo = req[s].todo
          /\ q.inserted = req[s].inserted /\ q.stated = req[s].stated
      BY <1>1, <3>1 DEF Request
    <3>5. QED BY <2>2, <3>2, <3>3, <3>4
  <2>6. ASSUME NEW p, LockIdentity(s, p)
        PROVE  Same
    <3>1. PICK q : q = [req[s] EXCEPT !.locks = @ \cup {p}]
      OBVIOUS
    <3>2. req' = [req EXCEPT ![s] = q]
      BY <2>6, <3>1 DEF LockIdentity
    <3>3. Pending(s)
      BY <2>6 DEF LockIdentity, Open, Pending, Live
    <3>4. /\ q.client = req[s].client /\ q.todo = req[s].todo
          /\ q.inserted = req[s].inserted /\ q.stated = req[s].stated
      BY <1>1, <3>1 DEF Request
    <3>5. QED BY <2>2, <3>2, <3>3, <3>4
  <2>7. ASSUME NEW b \in Buckets, Sum(s, b)
        PROVE  Same
    <3>0. PICK seen : seen = {e \in Visible(s) \cap Calls : BucketOf[e] = b}
      OBVIOUS
    <3>1. PICK q : q = [req[s] EXCEPT !.touched = Tail(@), !.summing = {b}, !.summed[b] = seen]
      OBVIOUS
    <3>2. req' = [req EXCEPT ![s] = q]
      BY <2>7, <3>0, <3>1 DEF Sum
    <3>3. Pending(s)
      BY <2>7 DEF Sum, Ready, Open, Pending, Live
    <3>4. /\ q.client = req[s].client /\ q.todo = req[s].todo
          /\ q.inserted = req[s].inserted /\ q.stated = req[s].stated
      BY <1>1, <3>1 DEF Request
    <3>5. QED BY <2>2, <3>2, <3>3, <3>4
  <2>8. ASSUME NEW b \in Buckets, WriteFact(s, b)
        PROVE  Same
    <3>1. PICK q : q = [req[s] EXCEPT !.summing = {}, !.derived = @ \cup {b}]
      OBVIOUS
    <3>2. req' = [req EXCEPT ![s] = q]
      BY <2>8, <3>1 DEF WriteFact
    <3>3. Pending(s)
      BY <2>8 DEF WriteFact, Open, Pending, Live
    <3>4. /\ q.client = req[s].client /\ q.todo = req[s].todo
          /\ q.inserted = req[s].inserted /\ q.stated = req[s].stated
      BY <1>1, <3>1 DEF Request
    <3>5. QED BY <2>2, <3>2, <3>3, <3>4
  <2>9. QED BY <2>3, <2>4, <2>5, <2>6, <2>7, <2>8
<1>5. \A r \in Slots \ {s} : Pending(r)' => Pending(r)
  BY <1>4 DEF Pending, Live
<1>6. QED BY <1>2, <1>3, <1>4, <1>5, QuietOrder

LEMMA OrderInductive == OrderIInv /\ [Next]_vars => OrderIInv'
<1> SUFFICES ASSUME OrderIInv, [Next]_vars PROVE OrderIInv'
  OBVIOUS
<1>d. DeliveryIInv'
  BY DeliveryInductive DEF OrderIInv
<1>1. CASE Flush
  BY <1>d, <1>1, PostOrder DEF Flush
<1>2. CASE UNCHANGED <<req, ingested, outcome>>
  <2>1. \A c \in Clients : dropped'[c] = {} => dropped[c] = {}
    BY DroppedStays
  <2>2. \A s \in Slots : Pending(s)' => Pending(s)
    BY <1>2 DEF Pending, Live
  <2>3. QED BY <1>d, <1>2, <2>1, <2>2, QuietOrder
<1>3. ASSUME NEW c \in Clients, Track(c) \/ GiveUp(c)
      PROVE  OrderIInv'
  BY <1>2, <1>3 DEF Track, GiveUp, serverVars, db
<1>4. ASSUME NEW s \in Slots, Work(s) \/ Reject(s) \/ RecomputeFails(s)
      PROVE  OrderIInv'
  BY <1>d, <1>4, InsertOrder, CommitOrder, OtherStepsOrder DEF Work
<1>5. CASE Revoke \/ UNCHANGED vars
  BY <1>2, <1>5 DEF Revoke, vars, serverVars, db
<1>6. QED BY <1>1, <1>3, <1>4, <1>5 DEF Next

THEOREM OrderInvariance == Spec => []OrderIInv
BY OrderInit, OrderInductive, PTL DEF Spec

\* As long as a client's buffer has not overflowed, no retry and no abandoned
\* request takes an outcome back to an older statement of the client.
THEOREM OutcomesStayNewest == Spec => []OutcomesNewest
<1>1. OrderIInv => OutcomesNewest
  BY DEF OrderIInv
<1>2. QED BY <1>1, OrderInvariance, PTL
=============================================================================
