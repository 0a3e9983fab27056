---------------------- MODULE OutboundDispatch_proofs ----------------------
(***************************************************************************)
(* The one dispatcher behind all channels: what it takes off the bus is in  *)
(* line, is decided once and goes out in order, for every set of messages,  *)
(* every order of publishing and every number of retries.                   *)
(***************************************************************************)
EXTENDS OutboundDispatch, SequenceTheorems, WellFoundedInduction, TLAPS

USE DEF queues, sending, registry, history, vars

\* s is what was published from the p-th message on.
From(s, p) == \A i \in 1..Len(s) : s[i] = script[p + i]

\* How many messages left the bus, were taken by the dispatcher, and are done.
Left == next - Len(outbound)
Held == Left - Len(pending)
Done == Held - Len(current)

Shape ==
    /\ script \in Scripts /\ next \in 0..Len(script)
    /\ outbound \in Seq(Msgs) /\ pending \in Seq(Msgs) /\ Len(pending) <= 1
    /\ current \in Seq(Msgs) /\ delivered \in Seq(Msgs) /\ seen \in Seq(Msgs)
    /\ fate \in [Msgs -> Fates]

\* The message being sent, the one handed back and the bus are, one after the
\* other, the last messages published.
InLine ==
    /\ Done >= 0
    /\ From(outbound, Left) /\ From(pending, Held) /\ From(current, Done)

\* A message has met its fate if and only if it is done.
Decided == \A k \in 1..Len(script) : fate[script[k]] = "none" <=> k > Done

-----------------------------------------------------------------------------
\* What the sequence operators do.
LEMMA AppendAt ==
  ASSUME NEW S, NEW s \in Seq(S), NEW x \in S
  PROVE  /\ Append(s, x) \in Seq(S) /\ Len(Append(s, x)) = Len(s) + 1
         /\ \A i \in 1..Len(s) : Append(s, x)[i] = s[i]
         /\ Append(s, x)[Len(s) + 1] = x
  OBVIOUS

LEMMA TailAt ==
  ASSUME NEW S, NEW s \in Seq(S), s # <<>>
  PROVE  /\ Head(s) \in S /\ Head(s) = s[1]
         /\ Tail(s) \in Seq(S) /\ Len(Tail(s)) = Len(s) - 1 /\ Len(s) \in Nat \ {0}
         /\ \A i \in 1..Len(Tail(s)) : Tail(s)[i] = s[i + 1]
  OBVIOUS

LEMMA ConcatAt ==
  ASSUME NEW S, NEW s \in Seq(S), NEW t \in Seq(S)
  PROVE  /\ s \o t \in Seq(S) /\ Len(s \o t) = Len(s) + Len(t)
         /\ Len(s) \in Nat /\ Len(t) \in Nat
         /\ \A i \in 1..Len(s) : (s \o t)[i] = s[i]
         /\ \A i \in 1..Len(t) : (s \o t)[Len(s) + i] = t[i]
  OBVIOUS

LEMMA SetOf ==
  ASSUME NEW S, NEW s \in Seq(S)
  PROVE  ToSet(s) = {s[i] : i \in 1..Len(s)}
  BY DEF ToSet

LEMMA OneMessage ==
  ASSUME NEW S, NEW x \in S
  PROVE  <<x>> \in Seq(S) /\ Len(<<x>>) = 1 /\ <<x>>[1] = x
  OBVIOUS

\* The first n of a queue and the rest of it.
LEMMA SplitAt ==
  ASSUME NEW S, NEW s \in Seq(S), NEW n \in 0..Len(s)
  PROVE  /\ SubSeq(s, 1, n) \in Seq(S) /\ Len(SubSeq(s, 1, n)) = n
         /\ \A i \in 1..n : SubSeq(s, 1, n)[i] = s[i]
         /\ SubSeq(s, n + 1, Len(s)) \in Seq(S)
         /\ Len(SubSeq(s, n + 1, Len(s))) = Len(s) - n
         /\ \A i \in 1..(Len(s) - n) : SubSeq(s, n + 1, Len(s))[i] = s[n + i]
<1>1. Len(s) \in Nat /\ n \in Nat
  OBVIOUS
<1>2. n + 1 \in 1..(Len(s) + 1) /\ Len(s) \in n..Len(s) /\ n \in 0..Len(s)
  BY <1>1
<1>3. QED BY <1>1, <1>2, SubSeqProperties

\* A bounded set of numbers has a greatest one.
Below == {p \in Nat \X Nat : p[1] < p[2]}

LEMMA BelowWellFounded == IsWellFoundedOn(Below, Nat)
<1>1. OpToRel(<, Nat) = Below
  BY DEF OpToRel, Below
<1>2. QED BY <1>1, NatLessThanWellFounded

LEMMA Largest ==
  ASSUME NEW N \in Nat, NEW T, T \subseteq 0..N, T # {}
  PROVE  \E n \in T : \A o \in T : o <= n
<1> DEFINE D == {N - n : n \in T}
<1>1. D \subseteq Nat
  OBVIOUS
<1>2. D # {}
  OBVIOUS
<1>3. \A o \in T : N - o \in D
  OBVIOUS
<1> HIDE DEF D
<1>4. \E x \in D : \A y \in D : ~(<<y, x>> \in Below)
  BY <1>1, <1>2, BelowWellFounded, WFMin
<1>5. PICK x \in D : \A y \in D : ~(<<y, x>> \in Below)
  BY <1>4
<1>6. \A y \in D : x <= y
  <2> TAKE y \in D
  <2>1. x \in Nat /\ y \in Nat /\ ~(<<y, x>> \in Below)
    BY <1>1, <1>5
  <2>2. QED BY <2>1 DEF Below
<1>7. PICK n \in T : x = N - n
  BY DEF D
<1>8. \A o \in T : o <= n
  <2> TAKE o \in T
  <2>1. x <= N - o /\ o \in Nat /\ n \in Nat
    BY <1>3, <1>6
  <2>2. QED BY <1>7, <2>1
<1>9. QED BY <1>8

-----------------------------------------------------------------------------
(* What one Take does to the line *)

LEMMA ScriptType ==
  ASSUME Shape
  PROVE  /\ script \in Seq(Msgs) /\ Len(script) \in Nat /\ next \in Nat
         /\ \A k \in 1..Len(script) : script[k] \in Msgs
         /\ \A k, l \in 1..Len(script) : script[k] = script[l] => k = l
<1>1. script \in Seq(Msgs) /\ IsInjective(script)
  BY ConstantsAssumption DEF Shape
<1>2. DOMAIN script = 1..Len(script) /\ Len(script) \in Nat /\ next \in Nat
  BY <1>1 DEF Shape
<1>3. QED BY <1>1, <1>2 DEF IsInjective

\* Coalescing merges some number of the messages that wait.
LEMMA MergedSome ==
  ASSUME NEW first \in Msgs, NEW q \in Seq(Msgs)
  PROVE  Merged(first, q) \in 0..Len(q)
<1> DEFINE Fits(n) == /\ \A k \in 1..n : Merges(first, q[k])
                      /\ \A k \in 1..(n - 1) : Kind[q[k]] # "end"
           T == {n \in 0..Len(q) : Fits(n)}
<1>1. Len(q) \in Nat /\ Fits(0)
  OBVIOUS
<1>2. T \subseteq 0..Len(q) /\ 0 \in T
  BY <1>1
<1> HIDE DEF Fits
<1>3. PICK n \in T : \A o \in T : o <= n
  <2> HIDE DEF T
  <2>1. T # {}
    BY <1>2
  <2>2. \E n \in T : \A o \in T : o <= n
    BY <1>1, <1>2, <2>1, Largest
  <2>3. QED BY <2>2
<1>4. Fits(n) /\ n \in 0..Len(q)
  BY <1>3
<1>5. ASSUME NEW o \in (n + 1)..Len(q) PROVE ~Fits(o)
  <2>1. o \in 0..Len(q) /\ ~(o <= n)
    BY <1>1, <1>4, <1>5
  <2>2. QED BY <1>3, <2>1
<1>6. \E m \in 0..Len(q) : Fits(m) /\ \A o \in (m + 1)..Len(q) : ~Fits(o)
  BY <1>4, <1>5
<1>7. Merged(first, q) = CHOOSE m \in 0..Len(q) : Fits(m) /\ \A o \in (m + 1)..Len(q) : ~Fits(o)
  BY DEF Merged, Fits
<1>8. QED BY <1>6, <1>7

\* The rest of the queue after a Take: the message handed back, then the bus.
Rest(rest) ==
    /\ pending' \in Seq(Msgs) /\ outbound' \in Seq(Msgs) /\ Len(pending') <= 1
    /\ Len(pending') + Len(outbound') = Len(rest)
    /\ \A i \in 1..Len(pending') : pending'[i] = rest[i]
    /\ \A i \in 1..Len(outbound') : outbound'[i] = rest[Len(pending') + i]

LEMMA RestOnBus ==
  ASSUME NEW rest \in Seq(Msgs), outbound' = rest, pending' = <<>>
  PROVE  Rest(rest)
<1>1. pending' \in Seq(Msgs) /\ Len(pending') = 0 /\ Len(rest) \in Nat
  OBVIOUS
<1>2. QED BY <1>1 DEF Rest

LEMMA RestHandedBack ==
  ASSUME NEW rest \in Seq(Msgs), rest # <<>>, HandBack(rest)
  PROVE  Rest(rest)
<1>1. /\ Head(rest) \in Msgs /\ Head(rest) = rest[1]
      /\ Tail(rest) \in Seq(Msgs) /\ Len(Tail(rest)) = Len(rest) - 1 /\ Len(rest) \in Nat \ {0}
      /\ \A i \in 1..Len(Tail(rest)) : Tail(rest)[i] = rest[i + 1]
  BY TailAt
<1>2. /\ pending' \in Seq(Msgs) /\ Len(pending') = 1 /\ pending'[1] = rest[1]
  BY <1>1, OneMessage DEF HandBack
<1>3. outbound' = Tail(rest)
  BY DEF HandBack
<1>4. QED BY <1>1, <1>2, <1>3 DEF Rest

\* The first n - 1 of a queue merged into the message before it.
Parts(first, q, n) == <<first>> \o SubSeq(q, 1, n - 1)
Others(q, n) == SubSeq(q, n, Len(q))

LEMMA PartsAt ==
  ASSUME NEW first \in Msgs, NEW q \in Seq(Msgs), NEW n \in 1..(Len(q) + 1)
  PROVE  /\ Parts(first, q, n) \in Seq(Msgs) /\ Len(Parts(first, q, n)) = n
         /\ Parts(first, q, n)[1] = first
         /\ \A i \in 2..n : Parts(first, q, n)[i] = q[i - 1]
         /\ Others(q, n) \in Seq(Msgs) /\ Len(Others(q, n)) = Len(q) - n + 1
         /\ \A i \in 1..(Len(q) - n + 1) : Others(q, n)[i] = q[n - 1 + i]
<1> DEFINE h == SubSeq(q, 1, n - 1)
           r == SubSeq(q, n, Len(q))
           x == <<first>>
<1>1. Len(q) \in Nat /\ n \in Nat /\ n >= 1 /\ n - 1 \in 0..Len(q) /\ n = (n - 1) + 1
  OBVIOUS
<1>2. /\ h \in Seq(Msgs) /\ Len(h) = n - 1
      /\ \A i \in 1..(n - 1) : h[i] = q[i]
      /\ r \in Seq(Msgs) /\ Len(r) = Len(q) - (n - 1)
      /\ \A i \in 1..(Len(q) - (n - 1)) : r[i] = q[(n - 1) + i]
  BY <1>1, SplitAt
<1>3. x \in Seq(Msgs) /\ Len(x) = 1 /\ x[1] = first
  BY OneMessage
<1> HIDE DEF h, r, x
<1>4. /\ x \o h \in Seq(Msgs) /\ Len(x \o h) = Len(x) + Len(h)
      /\ \A i \in 1..Len(x) : (x \o h)[i] = x[i]
      /\ \A i \in 1..Len(h) : (x \o h)[Len(x) + i] = h[i]
  <2>1. x \in Seq(Msgs) /\ h \in Seq(Msgs)
    BY <1>2, <1>3
  <2>2. QED BY <2>1, ConcatAt
<1> DEFINE p == x \o h
<1> HIDE DEF p
<1>5. p \in Seq(Msgs) /\ Len(p) = n /\ p[1] = first
  BY <1>1, <1>2, <1>3, <1>4 DEF p
<1>6. ASSUME NEW i \in 2..n PROVE p[i] = q[i - 1]
  <2>1. i - 1 \in 1..Len(h) /\ i = Len(x) + (i - 1) /\ i - 1 \in 1..(n - 1)
    BY <1>1, <1>2, <1>3, <1>6
  <2>2. QED BY <1>2, <1>4, <2>1 DEF p
<1>7. Parts(first, q, n) = p /\ Others(q, n) = r
  BY DEF Parts, Others, p, x, h, r
<1>8. Len(q) - (n - 1) = Len(q) - n + 1
  BY <1>1
<1>9. QED BY <1>2, <1>5, <1>6, <1>7, <1>8

LEMMA CoalescedRest ==
  ASSUME NEW first \in Msgs, NEW q \in Seq(Msgs), NEW n \in 1..(Len(q) + 1),
         Coalesce(first, q, Parts(first, q, n))
  PROVE  Rest(Others(q, n))
<1> DEFINE N == Merged(first, q)
<1>1. N \in 0..Len(q) /\ Len(q) \in Nat
  BY MergedSome
<1> HIDE DEF N
<1>2. N + 1 \in 1..(Len(q) + 1) /\ (N + 1) - 1 = N
  BY <1>1
<1>3. Parts(first, q, n) = <<first>> \o SubSeq(q, 1, N)
  BY DEF Coalesce, N
<1>4. Parts(first, q, n) = Parts(first, q, N + 1)
  BY <1>2, <1>3 DEF Parts
<1>5. n = N + 1
  <2>1. Len(Parts(first, q, n)) = n /\ Len(Parts(first, q, N + 1)) = N + 1
    BY <1>2, PartsAt
  <2>2. QED BY <1>4, <2>1
<1> DEFINE rest == Others(q, n)
<1>6. rest \in Seq(Msgs)
  BY PartsAt
<1>7. rest = SubSeq(q, N + 1, Len(q))
  BY <1>5 DEF Others
<1>8. \/ outbound' = rest /\ pending' = <<>>
      \/ rest # <<>> /\ HandBack(rest)
  BY <1>7 DEF Coalesce, N
<1> HIDE DEF rest
<1>9. QED BY <1>6, <1>8, RestOnBus, RestHandedBack DEF rest

-----------------------------------------------------------------------------
(* The step Take *)

\* What becomes of the messages taken: they are being sent, or met their fate.
Outcome(parts) ==
    \/ current' = parts /\ UNCHANGED fate
    \/ /\ UNCHANGED current
       /\ \E f \in {"hidden", "unknown", "suppressed"} : fate' = Sealed(fate, parts, f)

LEMMA TakesParts ==
  ASSUME NEW first \in Msgs, NEW q \in Seq(Msgs), Takes(first, q)
  PROVE  \E n \in 1..(Len(q) + 1) : /\ Rest(Others(q, n))
                                    /\ Outcome(Parts(first, q, n))
<1>1. PICK n \in 1..(Len(q) + 1) :
        LET parts == Parts(first, q, n) IN
        /\ IF Kind[first] = "delta" THEN Coalesce(first, q, parts)
           ELSE n = 1 /\ outbound' = q /\ pending' = <<>>
        /\ LET c == ChannelOf[first]
               skips == Kind[first] = "progress" /\ (c \notin Shown \/ live[c] = 0)
               sends == ~skips /\ live[c] # 0 /\ ~Suppressed(first)
           IN  /\ fate' = IF skips THEN Sealed(fate, parts, "hidden")
                          ELSE IF live[c] = 0 THEN Sealed(fate, parts, "unknown")
                          ELSE IF ~sends THEN Sealed(fate, parts, "suppressed")
                          ELSE fate
               /\ IF sends THEN current' = parts /\ via' = live[c] /\ attempt' = 1
                  ELSE UNCHANGED <<current, via, attempt>>
  BY DEF Takes, Parts
<1>2. Rest(Others(q, n))
  <2>1. CASE Kind[first] = "delta"
    BY <1>1, <2>1, CoalescedRest
  <2>2. CASE Kind[first] # "delta"
    <3>1. n = 1 /\ outbound' = q /\ pending' = <<>>
      BY <1>1, <2>2
    <3>2. Others(q, 1) = q
      BY SubSeqProperties DEF Others
    <3>3. QED BY <3>1, <3>2, RestOnBus
  <2>3. QED BY <2>1, <2>2
<1>3. Outcome(Parts(first, q, n))
  <2> DEFINE parts == Parts(first, q, n)
             c == ChannelOf[first]
             skips == Kind[first] = "progress" /\ (c \notin Shown \/ live[c] = 0)
             sends == ~skips /\ live[c] # 0 /\ ~Suppressed(first)
  <2>1. /\ fate' = IF skips THEN Sealed(fate, parts, "hidden")
                   ELSE IF live[c] = 0 THEN Sealed(fate, parts, "unknown")
                   ELSE IF ~sends THEN Sealed(fate, parts, "suppressed")
                   ELSE fate
        /\ IF sends THEN current' = parts ELSE UNCHANGED current
        /\ sends => ~skips /\ live[c] # 0
    BY <1>1
  <2> HIDE DEF parts, c, skips, sends
  <2>2. CASE sends
    BY <2>1, <2>2 DEF Outcome, parts
  <2>3. CASE ~sends
    BY <2>1, <2>3 DEF Outcome, parts
  <2>4. QED BY <2>2, <2>3
<1>4. QED BY <1>2, <1>3

\* The queue that Take works on: its first message is the next to be done.
LEMMA TakeFirst ==
  ASSUME Shape, InLine, Take
  PROVE  \E first \in Msgs, q \in Seq(Msgs) :
            /\ Takes(first, q)
            /\ Len(q) = next - Held - 1 /\ Held < next
            /\ first = script[Held + 1] /\ From(q, Held + 1)
            /\ current = <<>> /\ Done = Held
            /\ UNCHANGED <<script, next, delivered>>
<1>1. /\ current = <<>> /\ Len(current) = 0
      /\ next \in Nat /\ Len(outbound) \in Nat /\ Len(pending) \in {0, 1}
      /\ Held \in Int /\ Left \in Int /\ Held = Left - Len(pending)
      /\ Left = next - Len(outbound) /\ Done = Held
      /\ outbound \in Seq(Msgs) /\ pending \in Seq(Msgs)
      /\ From(outbound, Left) /\ From(pending, Held)
      /\ UNCHANGED <<script, next, delivered>>
  <2>1. current = <<>> /\ UNCHANGED <<script, next, delivered>>
    BY DEF Take, Idle
  <2>2. Len(pending) \in {0, 1}
    <3>1. pending \in Seq(Msgs) /\ Len(pending) <= 1
      BY DEF Shape
    <3>2. Len(pending) \in Nat
      BY <3>1
    <3> DEFINE l == Len(pending)
    <3>3. l \in Nat /\ l <= 1
      BY <3>1, <3>2
    <3> HIDE DEF l
    <3>4. l \in {0, 1}
      BY <3>3
    <3>5. QED BY <3>4 DEF l
  <2>3. QED BY <2>1, <2>2, ScriptType DEF Shape, Held, Left, Done, InLine
<1>2. CASE pending # <<>> /\ Takes(Head(pending), outbound)
  <2>1. /\ Len(pending) = 1 /\ Head(pending) = pending[1] /\ Head(pending) \in Msgs
    BY <1>1, <1>2
  <2>2. pending[1] = script[Held + 1] /\ From(outbound, Held + 1)
    <3>1. Left = Held + 1 /\ 1 \in 1..Len(pending)
      BY <1>1, <2>1
    <3>2. From(outbound, Held + 1)
      BY <1>1, <3>1
    <3>3. pending[1] = script[Held + 1]
      BY <1>1, <3>1 DEF From
    <3>4. QED BY <3>2, <3>3
  <2>3. Len(outbound) = next - Held - 1 /\ Held < next
    BY <1>1, <2>1
  <2>4. QED BY <1>1, <1>2, <2>1, <2>2, <2>3
<1>3. CASE pending = <<>> /\ outbound # <<>> /\ Takes(Head(outbound), Tail(outbound))
  <2> DEFINE q == Tail(outbound)
  <2>1. /\ Head(outbound) \in Msgs /\ Head(outbound) = outbound[1]
        /\ q \in Seq(Msgs) /\ Len(q) = Len(outbound) - 1 /\ Len(outbound) \in Nat \ {0}
        /\ \A i \in 1..Len(q) : q[i] = outbound[i + 1]
    BY <1>1, <1>3, TailAt
  <2>2. Len(pending) = 0 /\ Takes(Head(outbound), q)
    BY <1>3
  <2> HIDE DEF q
  <2>3. /\ Held = Left /\ Left = next - Len(outbound) /\ Left \in Int
        /\ \A i \in 1..Len(outbound) : outbound[i] = script[Left + i]
    BY <1>1, <2>2 DEF From
  <2>4. outbound[1] = script[Held + 1]
    <3>1. 1 \in 1..Len(outbound)
      BY <2>1
    <3>2. QED BY <2>3, <3>1
  <2>5. ASSUME NEW i \in 1..Len(q) PROVE q[i] = script[(Held + 1) + i]
    <3>1. i + 1 \in 1..Len(outbound) /\ Left + (i + 1) = (Held + 1) + i
      BY <2>1, <2>3
    <3>2. q[i] = outbound[i + 1] /\ outbound[i + 1] = script[Left + (i + 1)]
      BY <2>1, <2>3, <3>1
    <3>3. QED BY <3>1, <3>2
  <2>6. Len(q) = next - Held - 1 /\ Held < next
    <3>1. next \in Nat
      BY <1>1
    <3>2. QED BY <2>1, <2>3, <3>1
  <2>7. QED BY <1>1, <2>1, <2>2, <2>4, <2>5, <2>6 DEF From
<1>4. QED BY <1>2, <1>3 DEF Take

\* Which messages of the script a part of it holds.
LEMMA PartOfScript ==
  ASSUME Shape, NEW s \in Seq(Msgs), NEW p \in Nat, From(s, p),
         p + Len(s) <= Len(script), NEW k \in 1..Len(script)
  PROVE  script[k] \in ToSet(s) <=> (p < k /\ k <= p + Len(s))
<1>1. /\ ToSet(s) = {s[i] : i \in 1..Len(s)} /\ Len(s) \in Nat /\ Len(script) \in Nat
      /\ \A a, b \in 1..Len(script) : script[a] = script[b] => a = b
  BY SetOf, ScriptType
<1>2. ASSUME script[k] \in ToSet(s) PROVE p < k /\ k <= p + Len(s)
  <2>1. PICK i \in 1..Len(s) : script[k] = s[i]
    BY <1>1, <1>2
  <2>2. s[i] = script[p + i] /\ p + i \in 1..Len(script)
    BY <1>1 DEF From
  <2>3. k = p + i
    BY <1>1, <2>1, <2>2
  <2>4. QED BY <1>1, <2>3
<1>3. ASSUME p < k, k <= p + Len(s) PROVE script[k] \in ToSet(s)
  <2>1. k - p \in 1..Len(s) /\ p + (k - p) = k
    BY <1>1, <1>3
  <2>2. s[k - p] = script[k]
    BY <2>1 DEF From
  <2>3. QED BY <1>1, <2>1, <2>2
<1>4. QED BY <1>2, <1>3

LEMMA TakesSeen ==
  ASSUME NEW first, NEW q, Takes(first, q)
  PROVE  seen' = seen \/ seen' = Append(seen, first)
  BY DEF Takes

LEMMA SealedType ==
  ASSUME Shape, NEW parts, NEW f \in Fates \ {"none"}
  PROVE  /\ Sealed(fate, parts, f) \in [Msgs -> Fates]
         /\ \A m \in Msgs : Sealed(fate, parts, f)[m] = "none" <=>
                              fate[m] = "none" /\ m \notin ToSet(parts)
         /\ \A m \in Msgs : Sealed(fate, parts, f)[m] =
                              IF m \in ToSet(parts) THEN f ELSE fate[m]
<1>1. fate \in [Msgs -> Fates]
  BY DEF Shape
<1>2. QED BY <1>1 DEF Sealed

\* Messages that are sealed are done, when those before them are.
LEMMA SealingDecides ==
  ASSUME Shape, NEW s \in Seq(Msgs), NEW p \in Nat, From(s, p),
         p + Len(s) <= Len(script), NEW f \in Fates \ {"none"},
         \A k \in 1..Len(script) : fate[script[k]] = "none" <=> k > p
  PROVE  \A k \in 1..Len(script) :
            Sealed(fate, s, f)[script[k]] = "none" <=> k > p + Len(s)
<1> TAKE k \in 1..Len(script)
<1>1. script[k] \in Msgs /\ Len(s) \in Nat
  BY ScriptType
<1>2. script[k] \in ToSet(s) <=> (p < k /\ k <= p + Len(s))
  BY PartOfScript
<1>3. Sealed(fate, s, f)[script[k]] = "none" <=>
         fate[script[k]] = "none" /\ script[k] \notin ToSet(s)
  BY <1>1, SealedType
<1>4. QED BY <1>1, <1>2, <1>3

-----------------------------------------------------------------------------
(* The line is kept *)

Line == Shape /\ InLine /\ Decided

\* What the lengths are, as numbers.
LEMMA Lengths ==
  ASSUME Shape, InLine
  PROVE  /\ next \in Nat /\ Len(script) \in Nat /\ next <= Len(script)
         /\ Len(outbound) \in Nat /\ Len(pending) \in Nat /\ Len(current) \in Nat
         /\ Left \in Nat /\ Held \in Nat /\ Done \in Nat
         /\ Left = next - Len(outbound) /\ Held = Left - Len(pending)
         /\ Done = Held - Len(current)
<1>1. /\ outbound \in Seq(Msgs) /\ pending \in Seq(Msgs) /\ current \in Seq(Msgs)
      /\ next \in 0..Len(script) /\ Done >= 0
  BY DEF Shape, InLine
<1>2. Len(outbound) \in Nat /\ Len(pending) \in Nat /\ Len(current) \in Nat
  BY <1>1
<1>3. Len(script) \in Nat
  BY ScriptType
<1>4. QED BY <1>1, <1>2, <1>3 DEF Left, Held, Done

LEMMA InitLine ==
  ASSUME Init
  PROVE  Line
<1>1. /\ script \in Scripts /\ next = 0 /\ outbound = <<>> /\ pending = <<>>
      /\ current = <<>> /\ delivered = <<>> /\ seen = <<>>
      /\ fate = [m \in Msgs |-> "none"]
  BY DEF Init
<1>2. Len(outbound) = 0 /\ Len(pending) = 0 /\ Len(current) = 0 /\ Len(script) \in Nat
  <2>1. script \in Seq(Msgs)
    BY <1>1, ConstantsAssumption
  <2>2. Len(script) \in Nat
    BY <2>1
  <2>3. QED BY <1>1, <2>2
<1>3. Shape
  <2>1. fate \in [Msgs -> Fates]
    BY <1>1 DEF Fates
  <2>2. next \in 0..Len(script) /\ Len(pending) <= 1
    BY <1>1, <1>2
  <2>3. <<>> \in Seq(Msgs)
    OBVIOUS
  <2>4. /\ outbound \in Seq(Msgs) /\ pending \in Seq(Msgs)
        /\ current \in Seq(Msgs) /\ delivered \in Seq(Msgs) /\ seen \in Seq(Msgs)
    BY <1>1, <2>3
  <2>5. script \in Scripts
    BY <1>1
  <2>6. QED BY <2>1, <2>2, <2>4, <2>5 DEF Shape
<1>4. Left = 0 /\ Held = 0 /\ Done = 0
  <2>1. next = 0
    BY <1>1
  <2>2. QED BY <1>2, <2>1 DEF Left, Held, Done
<1>5. InLine
  BY <1>2, <1>4 DEF InLine, From
<1>6. Decided
  BY <1>1, <1>3, <1>4, ScriptType DEF Decided
<1>7. QED BY <1>3, <1>5, <1>6 DEF Line

LEMMA PublishLine ==
  ASSUME Line, Publish
  PROVE  Line' /\ Done' = Done /\ Held' = Held
<1>1. Shape /\ InLine /\ Decided
  BY DEF Line
<1>2. /\ next' = next + 1 /\ next < Len(script)
      /\ outbound' = Append(outbound, script[next + 1])
      /\ UNCHANGED <<script, pending, current, delivered, seen, fate>>
  BY DEF Publish
<1>3. /\ next \in Nat /\ Len(script) \in Nat
      /\ Len(outbound) \in Nat /\ Len(pending) \in Nat /\ Len(current) \in Nat
      /\ Left = next - Len(outbound) /\ Left \in Nat
  BY <1>1, Lengths
<1>4. next + 1 \in 1..Len(script) /\ script[next + 1] \in Msgs
  <2>1. next + 1 \in 1..Len(script)
    BY <1>2, <1>3
  <2>2. QED BY <1>1, <2>1, ScriptType
<1>5. /\ outbound' \in Seq(Msgs) /\ Len(outbound') = Len(outbound) + 1
      /\ \A i \in 1..Len(outbound) : outbound'[i] = outbound[i]
      /\ outbound'[Len(outbound) + 1] = script[next + 1]
  <2>1. outbound \in Seq(Msgs)
    BY <1>1 DEF Shape
  <2>2. QED BY <1>2, <1>4, <2>1, AppendAt
<1>6. Left' = Left /\ Held' = Held /\ Done' = Done
  BY <1>2, <1>3, <1>5 DEF Left, Held, Done
<1>7. Shape'
  <2>1. next' \in 0..Len(script)
    BY <1>2, <1>3
  <2>2. QED BY <1>1, <1>2, <1>5, <2>1 DEF Shape
<1>8. From(outbound, Left)'
  <2> SUFFICES ASSUME NEW i \in 1..Len(outbound') PROVE outbound'[i] = script[Left + i]
    BY <1>2, <1>6 DEF From
  <2>1. CASE i \in 1..Len(outbound)
    BY <1>1, <1>5, <2>1 DEF InLine, From
  <2>2. CASE i \notin 1..Len(outbound)
    <3>1. i = Len(outbound) + 1 /\ Left + i = next + 1
      BY <1>3, <1>5, <2>2
    <3>2. QED BY <1>5, <3>1
  <2>3. QED BY <2>1, <2>2
<1>9. InLine'
  BY <1>1, <1>2, <1>6, <1>8 DEF InLine, From
<1>10. Decided'
  BY <1>1, <1>2, <1>6 DEF Decided
<1>11. QED BY <1>6, <1>7, <1>9, <1>10 DEF Line

LEMMA TakeLine ==
  ASSUME Line, Take
  PROVE  /\ Line' /\ current = <<>>
         /\ \E first \in Msgs, q \in Seq(Msgs) :
               /\ Takes(first, q) /\ first = script[Held + 1]
               /\ Held + 1 \in 1..Len(script) /\ Held' >= Held + 1 /\ Held' \in Nat
         /\ Done = Held /\ Done' >= Done /\ UNCHANGED <<script, delivered>>
         /\ \A k \in 1..Held : fate'[script[k]] = fate[script[k]]
<1>1. Shape /\ InLine /\ Decided
  BY DEF Line
<1>2. /\ next \in Nat /\ Len(script) \in Nat /\ next <= Len(script)
      /\ Held \in Nat /\ Done \in Nat
  BY <1>1, Lengths
<1>3. PICK first \in Msgs, q \in Seq(Msgs) :
        /\ Takes(first, q)
        /\ Len(q) = next - Held - 1 /\ Held < next
        /\ first = script[Held + 1] /\ From(q, Held + 1)
        /\ current = <<>> /\ Done = Held
        /\ UNCHANGED <<script, next, delivered>>
  BY <1>1, TakeFirst
<1>4. PICK n \in 1..(Len(q) + 1) : /\ Rest(Others(q, n))
                                   /\ Outcome(Parts(first, q, n))
  BY <1>3, TakesParts
<1> DEFINE parts == Parts(first, q, n)
           rest == Others(q, n)
<1>5. /\ parts \in Seq(Msgs) /\ Len(parts) = n /\ parts[1] = first
      /\ \A i \in 2..n : parts[i] = q[i - 1]
      /\ rest \in Seq(Msgs) /\ Len(rest) = Len(q) - n + 1
      /\ \A i \in 1..(Len(q) - n + 1) : rest[i] = q[n - 1 + i]
  BY PartsAt
<1>6. Rest(rest) /\ Outcome(parts)
  BY <1>4
<1> HIDE DEF parts, rest
<1>7. n \in Nat /\ n >= 1 /\ Len(q) \in Nat /\ Held + n <= next /\ Len(rest) = next - (Held + n)
  BY <1>2, <1>3, <1>5
<1>8. From(parts, Held)
  <2> SUFFICES ASSUME NEW i \in 1..n PROVE parts[i] = script[Held + i]
    BY <1>5 DEF From
  <2>1. CASE i = 1
    BY <1>3, <1>5, <2>1
  <2>2. CASE i # 1
    <3>1. i \in 2..n /\ i - 1 \in 1..Len(q) /\ (Held + 1) + (i - 1) = Held + i
      BY <1>2, <1>7, <2>2
    <3>2. q[i - 1] = script[(Held + 1) + (i - 1)]
      BY <1>3, <3>1 DEF From
    <3>3. QED BY <1>5, <3>1, <3>2
  <2>3. QED BY <2>1, <2>2
<1>9. From(rest, Held + n)
  <2> SUFFICES ASSUME NEW i \in 1..Len(rest) PROVE rest[i] = script[(Held + n) + i]
    BY DEF From
  <2>1. /\ i \in 1..(Len(q) - n + 1) /\ n - 1 + i \in 1..Len(q)
        /\ (Held + 1) + (n - 1 + i) = (Held + n) + i
    BY <1>2, <1>5, <1>7
  <2>2. q[n - 1 + i] = script[(Held + 1) + (n - 1 + i)]
    BY <1>3, <2>1 DEF From
  <2>3. QED BY <1>5, <2>1, <2>2
<1>10. /\ pending' \in Seq(Msgs) /\ outbound' \in Seq(Msgs) /\ Len(pending') <= 1
       /\ Len(pending') \in Nat /\ Len(outbound') \in Nat
       /\ Len(pending') + Len(outbound') = next - (Held + n)
       /\ \A i \in 1..Len(pending') : pending'[i] = rest[i]
       /\ \A i \in 1..Len(outbound') : outbound'[i] = rest[Len(pending') + i]
  <2>1. pending' \in Seq(Msgs) /\ outbound' \in Seq(Msgs)
    BY <1>6 DEF Rest
  <2>2. Len(pending') \in Nat /\ Len(outbound') \in Nat
    BY <2>1
  <2>3. QED BY <1>6, <1>7, <2>1, <2>2 DEF Rest
<1>11. Held' = Held + n /\ Left' = Held + n + Len(pending')
  <2>1. Left' = next - Len(outbound') /\ Held' = Left' - Len(pending')
    BY <1>3 DEF Left, Held
  <2>2. QED BY <1>2, <1>7, <1>10, <2>1
<1>12. From(pending, Held)'
  <2> SUFFICES ASSUME NEW i \in 1..Len(pending') PROVE pending'[i] = script[Held + n + i]
    BY <1>3, <1>11 DEF From
  <2>1. i \in 1..Len(rest)
    BY <1>7, <1>10
  <2>2. QED BY <1>9, <1>10, <2>1 DEF From
<1>13. From(outbound, Left)'
  <2> SUFFICES ASSUME NEW i \in 1..Len(outbound')
               PROVE  outbound'[i] = script[Held + n + Len(pending') + i]
    BY <1>3, <1>11 DEF From
  <2>1. /\ Len(pending') + i \in 1..Len(rest)
        /\ (Held + n) + (Len(pending') + i) = Held + n + Len(pending') + i
    BY <1>2, <1>7, <1>10
  <2>2. rest[Len(pending') + i] = script[(Held + n) + (Len(pending') + i)]
    BY <1>9, <2>1 DEF From
  <2>3. QED BY <1>10, <2>1, <2>2
<1>14. seen' \in Seq(Msgs)
  <2>1. seen \in Seq(Msgs) /\ (seen' = seen \/ seen' = Append(seen, first))
    BY <1>1, <1>3, TakesSeen DEF Shape
  <2>2. QED BY <2>1, AppendAt
<1>15. /\ Shape' /\ InLine' /\ Decided' /\ Done' >= Done
  <2>1. CASE current' = parts /\ UNCHANGED fate
    <3>1. Done' = Held
      <4>1. Done' = Held' - Len(parts)
        BY <2>1 DEF Done
      <4>2. QED BY <1>2, <1>5, <1>7, <1>11, <4>1
    <3>2. Shape'
      BY <1>1, <1>3, <1>5, <1>10, <1>14, <2>1 DEF Shape
    <3>3. From(current, Done)'
      BY <1>3, <1>8, <2>1, <3>1 DEF From
    <3>4. InLine'
      BY <1>2, <1>12, <1>13, <3>1, <3>3 DEF InLine
    <3>5. Decided'
      BY <1>1, <1>3, <2>1, <3>1 DEF Decided
    <3>6. QED BY <1>2, <1>3, <3>1, <3>2, <3>4, <3>5
  <2>2. ASSUME UNCHANGED current,
               NEW f \in {"hidden", "unknown", "suppressed"}, fate' = Sealed(fate, parts, f)
        PROVE  Shape' /\ InLine' /\ Decided' /\ Done' >= Done
    <3>1. Done' = Held + n /\ f \in Fates \ {"none"}
      <4>1. current' = <<>> /\ Len(current') = 0
        BY <1>3, <2>2
      <4>2. Done' = Held' - 0
        BY <4>1 DEF Done
      <4>3. QED BY <1>2, <1>7, <1>11, <2>2, <4>2 DEF Fates
    <3>2. Shape'
      <4>1. fate' \in [Msgs -> Fates]
        BY <1>1, <2>2, <3>1, SealedType
      <4>2. QED BY <1>1, <1>3, <1>10, <1>14, <2>2, <4>1 DEF Shape
    <3>3. From(current, Done)' /\ Done' >= 0
      <4>1. current' = <<>> /\ Len(current') = 0
        BY <1>3, <2>2
      <4>2. QED BY <1>2, <1>7, <3>1, <4>1 DEF From
    <3>4. InLine'
      BY <1>12, <1>13, <3>3 DEF InLine
    <3>5. \A k \in 1..Len(script) : fate'[script[k]] = "none" <=> k > Held + n
      <4>1. \A k \in 1..Len(script) : fate[script[k]] = "none" <=> k > Held
        BY <1>1, <1>3 DEF Decided
      <4>2. Held + Len(parts) <= Len(script) /\ parts \in Seq(Msgs) /\ Held + Len(parts) = Held + n
        BY <1>2, <1>5, <1>7
      <4>3. \A k \in 1..Len(script) : Sealed(fate, parts, f)[script[k]] = "none" <=> k > Held + Len(parts)
        BY <1>1, <1>2, <1>8, <3>1, <4>1, <4>2, SealingDecides
      <4>4. QED BY <2>2, <4>2, <4>3
    <3>6. Decided'
      BY <1>3, <3>1, <3>5 DEF Decided
    <3>7. QED BY <1>2, <1>3, <1>7, <3>1, <3>2, <3>4, <3>6
  <2>3. QED BY <1>6, <2>1, <2>2 DEF Outcome
<1>16. Held + 1 \in 1..Len(script) /\ Held' >= Held + 1 /\ Held' \in Nat
  BY <1>2, <1>3, <1>7, <1>11
<1>17. ASSUME NEW k \in 1..Held PROVE fate'[script[k]] = fate[script[k]]
  <2>1. Held + Len(parts) <= Len(script) /\ parts \in Seq(Msgs)
    BY <1>2, <1>5, <1>7
  <2>2. k \in 1..Len(script) /\ ~(Held < k)
    BY <1>2, <1>3
  <2>3. script[k] \in Msgs /\ script[k] \notin ToSet(parts)
    BY <1>1, <1>2, <1>8, <2>1, <2>2, PartOfScript, ScriptType
  <2>4. ASSUME NEW f \in {"hidden", "unknown", "suppressed"}, fate' = Sealed(fate, parts, f)
        PROVE  fate'[script[k]] = fate[script[k]]
    BY <2>3, <2>4 DEF Sealed
  <2>5. QED BY <1>6, <2>4 DEF Outcome
<1>18. QED BY <1>3, <1>15, <1>16, <1>17 DEF Line

\* No message becomes suppressed, and none that was becomes anything else.
SameSuppressed == \A m \in Msgs : fate'[m] = "suppressed" <=> fate[m] = "suppressed"

LEMMA SealedLine ==
  ASSUME Line, NEW s \in Seq(Msgs), From(s, Done), Done + Len(s) <= next,
         NEW f \in Fates \ {"none"}, fate' = Sealed(fate, s, f),
         current' = <<>>, pending' = <<>> \/ UNCHANGED pending,
         UNCHANGED <<script, next, outbound, seen>>,
         delivered' \in {delivered, current},
         Done + Len(s) = Left - Len(pending')
  PROVE  /\ Line' /\ Done' = Done + Len(s) /\ Held' = Done'
         /\ f # "suppressed" => SameSuppressed
<1>1. Shape /\ InLine /\ Decided
  BY DEF Line
<1>2. /\ next \in Nat /\ Len(script) \in Nat /\ next <= Len(script)
      /\ Left \in Nat /\ Held \in Nat /\ Done \in Nat
      /\ Held = Left - Len(pending)
  BY <1>1, Lengths
<1>3. Left' = Left /\ Held' = Done + Len(s)
  BY DEF Left, Held
<1>4. Len(s) \in Nat /\ Len(current') = 0
  OBVIOUS
<1>5. Done' = Done + Len(s) /\ Held' = Done'
  <2>1. Done' = Held' - 0
    BY <1>4 DEF Done
  <2>2. QED BY <1>2, <1>3, <1>4, <2>1
<1>6. Shape'
  <2>1. fate' \in [Msgs -> Fates]
    BY <1>1, SealedType
  <2>2. pending' \in Seq(Msgs) /\ Len(pending') <= 1
    <3>1. CASE pending' = <<>>
      <4>1. Len(pending') = 0 /\ <<>> \in Seq(Msgs)
        BY <3>1
      <4>2. QED BY <3>1, <4>1
    <3>2. CASE UNCHANGED pending
      BY <1>1, <3>2 DEF Shape
    <3>3. QED BY <3>1, <3>2
  <2>3. current' \in Seq(Msgs) /\ delivered' \in Seq(Msgs)
    BY <1>1 DEF Shape
  <2>4. QED BY <1>1, <2>1, <2>2, <2>3 DEF Shape
<1>7. InLine'
  <2>1. From(pending, Held)'
    <3>1. CASE pending' = <<>>
      <4>1. Len(pending') = 0
        BY <3>1
      <4>2. QED BY <4>1 DEF From
    <3>2. CASE UNCHANGED pending
      <4>1. Held' = Held
        BY <1>3, <3>2 DEF Held
      <4>2. QED BY <1>1, <3>2, <4>1 DEF InLine, From
    <3>3. QED BY <3>1, <3>2
  <2>2. From(outbound, Left)'
    BY <1>1, <1>3 DEF InLine, From
  <2>3. From(current, Done)' /\ Done' >= 0
    BY <1>2, <1>4, <1>5 DEF From
  <2>4. QED BY <2>1, <2>2, <2>3 DEF InLine
<1>8. Decided'
  <2>1. \A k \in 1..Len(script) : fate[script[k]] = "none" <=> k > Done
    BY <1>1 DEF Decided
  <2>2. Done + Len(s) <= Len(script)
    BY <1>2, <1>4
  <2>3. \A k \in 1..Len(script) : Sealed(fate, s, f)[script[k]] = "none" <=> k > Done + Len(s)
    BY <1>1, <1>2, <2>1, <2>2, SealingDecides
  <2>4. QED BY <1>5, <2>3 DEF Decided
<1>9. ASSUME f # "suppressed", NEW m \in Msgs
      PROVE  fate'[m] = "suppressed" <=> fate[m] = "suppressed"
  <2>1. fate'[m] = IF m \in ToSet(s) THEN f ELSE fate[m]
    BY <1>1, SealedType
  <2>2. ASSUME m \in ToSet(s) PROVE fate[m] = "none"
    <3>1. ToSet(s) = {s[i] : i \in 1..Len(s)}
      BY SetOf
    <3>2. PICK i \in 1..Len(s) : m = s[i]
      BY <2>2, <3>1
    <3>3. Done + i \in 1..Len(script) /\ Done + i > Done
      BY <1>2, <1>4
    <3>4. m = script[Done + i]
      BY <3>2 DEF From
    <3>5. QED BY <1>1, <3>3, <3>4 DEF Decided
  <2>3. QED BY <1>9, <2>1, <2>2
<1>10. QED BY <1>5, <1>6, <1>7, <1>8, <1>9 DEF Line, SameSuppressed

LEMMA SendDoneLine ==
  ASSUME Line, NEW f \in {"delivered", "failed"}, SendDone(f),
         UNCHANGED <<queues, seen>>, delivered' \in {delivered, current}
  PROVE  Line' /\ Done' = Held /\ Held' = Held /\ SameSuppressed
<1>1. Shape /\ InLine
  BY DEF Line
<1>2. /\ next \in Nat /\ Len(outbound) \in Nat /\ Len(pending) \in Nat /\ Len(current) \in Nat
      /\ Held \in Nat /\ Done \in Nat /\ Held = Left - Len(pending)
      /\ Left = next - Len(outbound) /\ Done = Held - Len(current)
  BY <1>1, Lengths
<1>3. /\ current \in Seq(Msgs) /\ From(current, Done)
      /\ Done + Len(current) <= next /\ Done + Len(current) = Held
  BY <1>1, <1>2 DEF Shape, InLine
<1>4. /\ f \in Fates \ {"none"} /\ fate' = Sealed(fate, current, f) /\ current' = <<>>
      /\ UNCHANGED <<script, next, outbound, pending, seen>>
  BY DEF SendDone, Fates
<1>5. Done + Len(current) = Left - Len(pending')
  BY <1>2, <1>3, <1>4
<1>6. Line' /\ Done' = Done + Len(current) /\ Held' = Done' /\ SameSuppressed
  BY <1>3, <1>4, <1>5, SealedLine
<1>7. QED BY <1>3, <1>6

LEMMA StopAllLine ==
  ASSUME Line, StopAll
  PROVE  /\ Line' /\ Done' >= Done /\ Held' = Done' /\ Held' >= Held
         /\ UNCHANGED <<script, delivered, seen>> /\ SameSuppressed
<1>1. Shape /\ InLine
  BY DEF Line
<1>2. /\ next \in Nat /\ Len(outbound) \in Nat /\ Len(pending) \in Nat /\ Len(current) \in Nat
      /\ Held \in Nat /\ Done \in Nat /\ Held = Left - Len(pending)
      /\ Left = next - Len(outbound) /\ Done = Held - Len(current)
  BY <1>1, Lengths
<1>3. /\ current \in Seq(Msgs) /\ pending \in Seq(Msgs)
      /\ From(current, Done) /\ From(pending, Held)
  BY <1>1 DEF Shape, InLine
<1>4. /\ fate' = Sealed(fate, current \o pending, "lost")
      /\ current' = <<>> /\ pending' = <<>>
      /\ UNCHANGED <<script, next, outbound, seen, delivered>>
  BY DEF StopAll
<1> DEFINE s == current \o pending
<1>5. /\ s \in Seq(Msgs) /\ Len(s) = Len(current) + Len(pending)
      /\ \A i \in 1..Len(current) : s[i] = current[i]
      /\ \A i \in 1..Len(pending) : s[Len(current) + i] = pending[i]
  BY <1>3, ConcatAt
<1>6. fate' = Sealed(fate, s, "lost")
  BY <1>4
<1> HIDE DEF s
<1>7. From(s, Done)
  <2> SUFFICES ASSUME NEW i \in 1..Len(s) PROVE s[i] = script[Done + i]
    BY DEF From
  <2>1. CASE i \in 1..Len(current)
    BY <1>3, <1>5, <2>1 DEF From
  <2>2. CASE i \notin 1..Len(current)
    <3> DEFINE j == i - Len(current)
    <3>1. j \in 1..Len(pending) /\ i = Len(current) + j /\ Held + j = Done + i
      <4>1. i \in Nat /\ i <= Len(current) + Len(pending) /\ i > Len(current)
        BY <1>2, <1>5, <2>2
      <4>2. j \in Nat /\ j >= 1 /\ j <= Len(pending)
        BY <1>2, <4>1
      <4>3. QED BY <1>2, <4>1, <4>2
    <3> HIDE DEF j
    <3>2. s[i] = pending[j] /\ pending[j] = script[Held + j]
      BY <1>3, <1>5, <3>1 DEF From
    <3>3. QED BY <3>1, <3>2
  <2>3. QED BY <2>1, <2>2
<1>8. /\ Done + Len(s) = Left /\ Done + Len(s) <= next
      /\ Done + Len(s) >= Done /\ Done + Len(s) >= Held
  BY <1>2, <1>5
<1>9. Done + Len(s) = Left - Len(pending') /\ "lost" \in Fates \ {"none"}
  <2>1. Len(pending') = 0
    BY <1>4
  <2>2. QED BY <1>2, <1>8, <2>1 DEF Fates
<1>10. Line' /\ Done' = Done + Len(s) /\ Held' = Done' /\ SameSuppressed
  BY <1>4, <1>5, <1>6, <1>7, <1>8, <1>9, SealedLine
<1>11. QED BY <1>4, <1>8, <1>10

LEMMA OtherLine ==
  ASSUME Line, UNCHANGED <<queues, current, fate, seen>>,
         delivered' \in {delivered, current}
  PROVE  Line' /\ Done' = Done /\ Held' = Held
<1>1. Done' = Done /\ Held' = Held /\ Left' = Left
  BY DEF Done, Held, Left
<1>2. Shape' /\ InLine' /\ Decided'
  BY <1>1 DEF Line, Shape, InLine, Decided, From
<1>3. QED BY <1>1, <1>2 DEF Line

LEMMA NextLine ==
  ASSUME Line, [Next]_vars
  PROVE  Line'
<1>1. CASE Publish
  BY <1>1, PublishLine
<1>2. CASE Take
  BY <1>2, TakeLine
<1>3. CASE SendSucceeds
  BY <1>3, SendDoneLine DEF SendSucceeds
<1>4. CASE SendFails
  <2>1. UNCHANGED <<queues, seen>> /\ delivered' \in {delivered, current}
    BY <1>4 DEF SendFails
  <2>2. CASE SendDone("failed")
    BY <2>1, <2>2, SendDoneLine
  <2>3. CASE UNCHANGED <<current, fate>>
    BY <2>1, <2>3, OtherLine
  <2>4. QED BY <1>4, <2>2, <2>3 DEF SendFails
<1>5. CASE Retry
  BY <1>5, OtherLine DEF Retry
<1>6. CASE PageStep
  BY <1>6, OtherLine DEF PageStep, Request, EnableAnew, Finish
<1>7. CASE StopAll
  BY <1>7, StopAllLine
<1>8. CASE UNCHANGED vars
  BY <1>8, OtherLine
<1>9. QED BY <1>1, <1>2, <1>3, <1>4, <1>5, <1>6, <1>7, <1>8 DEF Next

LEMMA LineInvariant == Spec => []Line
<1>1. Init => Line
  BY InitLine
<1>2. Line /\ [Next]_vars => Line'
  BY NextLine
<1>3. QED BY <1>1, <1>2, PTL DEF Spec

-----------------------------------------------------------------------------
(* Nothing is lost or doubled, and nothing overtakes *)

\* The place in the script of the i-th message that waits.
PlaceOf(i, k) ==
    \/ i <= Len(outbound) /\ k = Left + i
    \/ i > Len(outbound) /\ i <= Len(outbound) + Len(pending) /\ k = Held + (i - Len(outbound))
    \/ /\ i > Len(outbound) + Len(pending)
       /\ k = Done + (i - Len(outbound) - Len(pending))

LEMMA WaitingAt ==
  ASSUME Line
  PROVE  LET w == outbound \o pending \o current IN
         /\ w \in Seq(Msgs) /\ Len(w) = Len(outbound) + Len(pending) + Len(current)
         /\ \A i \in 1..Len(w), k \in 1..next : PlaceOf(i, k) => w[i] = script[k]
<1> DEFINE v == outbound \o pending
           w == v \o current
<1>1. Shape /\ InLine
  BY DEF Line
<1>2. /\ Len(outbound) \in Nat /\ Len(pending) \in Nat /\ Len(current) \in Nat
      /\ outbound \in Seq(Msgs) /\ pending \in Seq(Msgs) /\ current \in Seq(Msgs)
      /\ From(outbound, Left) /\ From(pending, Held) /\ From(current, Done)
  BY <1>1, Lengths DEF Shape, InLine
<1>3. /\ v \in Seq(Msgs) /\ Len(v) = Len(outbound) + Len(pending)
      /\ \A i \in 1..Len(outbound) : v[i] = outbound[i]
      /\ \A i \in 1..Len(pending) : v[Len(outbound) + i] = pending[i]
  BY <1>2, ConcatAt
<1> HIDE DEF v
<1>4. /\ w \in Seq(Msgs) /\ Len(w) = Len(v) + Len(current)
      /\ \A i \in 1..Len(v) : w[i] = v[i]
      /\ \A i \in 1..Len(current) : w[Len(v) + i] = current[i]
  <2>1. v \in Seq(Msgs) /\ current \in Seq(Msgs)
    BY <1>2, <1>3
  <2>2. QED BY <2>1, ConcatAt
<1> HIDE DEF w
<1>5. ASSUME NEW i \in 1..Len(w), NEW k \in 1..next, PlaceOf(i, k)
      PROVE  w[i] = script[k]
  <2>1. CASE i <= Len(outbound) /\ k = Left + i
    <3>1. i \in 1..Len(outbound) /\ i \in 1..Len(v)
      BY <1>2, <1>3, <2>1
    <3>2. QED BY <1>2, <1>3, <1>4, <2>1, <3>1 DEF From
  <2>2. CASE /\ i > Len(outbound) /\ i <= Len(outbound) + Len(pending)
             /\ k = Held + (i - Len(outbound))
    <3>1. /\ i - Len(outbound) \in 1..Len(pending) /\ i \in 1..Len(v)
          /\ i = Len(outbound) + (i - Len(outbound))
      BY <1>2, <1>3, <2>2
    <3>2. v[i] = pending[i - Len(outbound)]
      BY <1>3, <3>1
    <3>3. QED BY <1>2, <1>4, <2>2, <3>1, <3>2 DEF From
  <2>3. CASE /\ i > Len(outbound) + Len(pending)
             /\ k = Done + (i - Len(outbound) - Len(pending))
    <3> DEFINE j == i - Len(outbound) - Len(pending)
    <3>1. j \in 1..Len(current) /\ i = Len(v) + j
      BY <1>2, <1>3, <1>4, <2>3
    <3>2. k = Done + j
      BY <2>3
    <3> HIDE DEF j
    <3>3. w[i] = current[j] /\ current[j] = script[Done + j]
      BY <1>2, <1>4, <3>1 DEF From
    <3>4. QED BY <3>2, <3>3
  <2>4. QED BY <1>5, <2>1, <2>2, <2>3 DEF PlaceOf
<1>6. Len(w) = Len(outbound) + Len(pending) + Len(current)
  BY <1>2, <1>3, <1>4
<1>7. QED BY <1>4, <1>5, <1>6 DEF w, v

\* Every place that waits is one of the last places of the script, and each of
\* those has one waiting message.
LEMMA PlacesOf ==
  ASSUME Line
  PROVE  LET L == Len(outbound) + Len(pending) + Len(current) IN
         /\ \A i \in 1..L : \E k \in 1..next : k > Done /\ PlaceOf(i, k)
         /\ \A k \in 1..next : k > Done => \E i \in 1..L : PlaceOf(i, k)
         /\ \A i, j \in 1..L, k \in 1..next : PlaceOf(i, k) /\ PlaceOf(j, k) => i = j
<1> DEFINE o == Len(outbound)
           p == Len(pending)
           c == Len(current)
           L == o + p + c
<1>1. /\ next \in Nat /\ o \in Nat /\ p \in Nat /\ c \in Nat
      /\ Left \in Nat /\ Held \in Nat /\ Done \in Nat
      /\ next = Left + o /\ Left = Held + p /\ Held = Done + c
  <2>1. Shape /\ InLine
    BY DEF Line
  <2>2. QED BY <2>1, Lengths
<1>2. \A i, k : PlaceOf(i, k) <=> \/ i <= o /\ k = Left + i
                                  \/ i > o /\ i <= o + p /\ k = Held + (i - o)
                                  \/ i > o + p /\ k = Done + (i - o - p)
  BY DEF PlaceOf
<1> HIDE DEF o, p, c
<1>3. ASSUME NEW i \in 1..L PROVE \E k \in 1..next : k > Done /\ PlaceOf(i, k)
  <2>1. i \in Nat /\ i >= 1 /\ i <= o + p + c
    BY <1>1
  <2>2. CASE i <= o
    <3>1. Left + i \in 1..next /\ Left + i > Done
      BY <1>1, <2>1, <2>2
    <3>2. QED BY <1>2, <2>2, <3>1
  <2>3. CASE i > o /\ i <= o + p
    <3>1. Held + (i - o) \in 1..next /\ Held + (i - o) > Done
      BY <1>1, <2>1, <2>3
    <3>2. QED BY <1>2, <2>3, <3>1
  <2>4. CASE i > o + p
    <3>1. Done + (i - o - p) \in 1..next /\ Done + (i - o - p) > Done
      BY <1>1, <2>1, <2>4
    <3>2. QED BY <1>2, <2>4, <3>1
  <2>5. QED BY <1>1, <2>1, <2>2, <2>3, <2>4
<1>4. ASSUME NEW k \in 1..next, k > Done PROVE \E i \in 1..L : PlaceOf(i, k)
  <2>1. CASE k > Left
    <3>1. k - Left \in 1..L /\ k - Left <= o /\ k = Left + (k - Left)
      BY <1>1, <1>4, <2>1
    <3>2. QED BY <1>2, <3>1
  <2>2. CASE k <= Left /\ k > Held
    <3> DEFINE i == o + (k - Held)
    <3>1. i \in 1..L /\ i > o /\ i <= o + p /\ k = Held + (i - o)
      BY <1>1, <1>4, <2>2
    <3>2. QED BY <1>2, <3>1
  <2>3. CASE k <= Held
    <3> DEFINE i == o + p + (k - Done)
    <3>1. i \in 1..L /\ i > o + p /\ k = Done + (i - o - p)
      BY <1>1, <1>4, <2>3
    <3>2. QED BY <1>2, <3>1
  <2>4. QED BY <1>1, <2>1, <2>2, <2>3
<1>5. ASSUME NEW i \in 1..L, NEW j \in 1..L, NEW k \in 1..next, PlaceOf(i, k), PlaceOf(j, k)
      PROVE  i = j
  <2>1. i \in Nat /\ j \in Nat /\ i <= o + p + c /\ j <= o + p + c /\ i >= 1 /\ j >= 1
    BY <1>1
  <2>2. QED BY <1>1, <1>2, <1>5, <2>1
<1>6. QED BY <1>3, <1>4, <1>5 DEF o, p, c

LEMMA LineAccounts == Line => Accounted
<1> SUFFICES ASSUME Line PROVE Accounted
  OBVIOUS
<1> DEFINE w == outbound \o pending \o current
           L == Len(outbound) + Len(pending) + Len(current)
           out == SubSeq(script, 1, next)
<1>1. /\ w \in Seq(Msgs) /\ Len(w) = L
      /\ \A i \in 1..L, k \in 1..next : PlaceOf(i, k) => w[i] = script[k]
  BY WaitingAt
<1>2. /\ \A i \in 1..L : \E k \in 1..next : k > Done /\ PlaceOf(i, k)
      /\ \A k \in 1..next : k > Done => \E i \in 1..L : PlaceOf(i, k)
      /\ \A i, j \in 1..L, k \in 1..next : PlaceOf(i, k) /\ PlaceOf(j, k) => i = j
  BY PlacesOf
<1>3. /\ script \in Seq(Msgs) /\ next \in Nat /\ next \in 0..Len(script)
      /\ \A k, l \in 1..next : script[k] = script[l] => k = l
      /\ \A k \in 1..next : fate[script[k]] = "none" <=> k > Done
  <2>1. Shape /\ InLine /\ Decided
    BY DEF Line
  <2>2. next \in Nat /\ Len(script) \in Nat /\ next <= Len(script)
    BY <2>1, Lengths
  <2>3. \A k \in 1..next : k \in 1..Len(script)
    BY <2>2
  <2>4. QED BY <2>1, <2>2, <2>3, ScriptType DEF Decided
<1>4. ToSet(out) = {script[k] : k \in 1..next}
  <2>1. out \in Seq(Msgs) /\ Len(out) = next /\ \A k \in 1..next : out[k] = script[k]
    BY <1>3, SplitAt
  <2>2. ToSet(out) = {out[k] : k \in 1..next}
    BY <2>1, SetOf
  <2>3. QED BY <2>1, <2>2
<1>5. ToSet(w) = {w[i] : i \in 1..L} /\ DOMAIN w = 1..L
  <2> HIDE DEF w, L, out
  <2>1. w \in Seq(Msgs) /\ Len(w) = L
    BY <1>1
  <2>2. ToSet(w) = {w[i] : i \in 1..Len(w)} /\ DOMAIN w = 1..Len(w)
    BY <2>1, SetOf
  <2>3. QED BY <2>1, <2>2
<1> HIDE DEF w, L, out
<1>6. IsInjective(w)
  <2> SUFFICES ASSUME NEW a \in 1..L, NEW b \in 1..L, w[a] = w[b] PROVE a = b
    BY <1>5 DEF IsInjective
  <2>1. PICK k \in 1..next : PlaceOf(a, k)
    BY <1>2
  <2>2. PICK l \in 1..next : PlaceOf(b, l)
    BY <1>2
  <2>3. k = l
    BY <1>1, <1>3, <2>1, <2>2
  <2>4. QED BY <1>2, <2>1, <2>2, <2>3
<1>7. ToSet(w) \subseteq {m \in ToSet(out) : fate[m] = "none"}
  <2> SUFFICES ASSUME NEW i \in 1..L PROVE w[i] \in ToSet(out) /\ fate[w[i]] = "none"
    BY <1>5
  <2>1. PICK k \in 1..next : k > Done /\ PlaceOf(i, k)
    BY <1>2
  <2>2. w[i] = script[k]
    BY <1>1, <2>1
  <2>3. QED BY <1>3, <1>4, <2>1, <2>2
<1>8. {m \in ToSet(out) : fate[m] = "none"} \subseteq ToSet(w)
  <2> SUFFICES ASSUME NEW k \in 1..next, fate[script[k]] = "none" PROVE script[k] \in ToSet(w)
    BY <1>4
  <2>1. PICK i \in 1..L : PlaceOf(i, k)
    BY <1>2, <1>3
  <2>2. QED BY <1>1, <1>5, <2>1
<1>9. QED BY <1>6, <1>7, <1>8 DEF Accounted, w, out

\* What went out last is what is being sent, or is done.
Out == delivered = current \/ ToSet(delivered) \subseteq {script[k] : k \in 1..Done}

LEMMA BeingSent ==
  ASSUME Line
  PROVE  \A m \in ToSet(current) : \E k \in 1..Len(script) :
            k > Done /\ k <= Held /\ m = script[k]
<1>1. Shape /\ InLine
  BY DEF Line
<1>2. /\ Len(current) \in Nat /\ Held \in Nat /\ Done \in Nat /\ Done = Held - Len(current)
      /\ Held <= Len(script) /\ Len(script) \in Nat
  BY <1>1, Lengths
<1>3. current \in Seq(Msgs) /\ \A i \in 1..Len(current) : current[i] = script[Done + i]
  BY <1>1 DEF Shape, InLine, From
<1>4. ToSet(current) = {current[i] : i \in 1..Len(current)}
  BY <1>3, SetOf
<1>5. ASSUME NEW i \in 1..Len(current)
      PROVE  \E k \in 1..Len(script) : k > Done /\ k <= Held /\ current[i] = script[k]
  <2>1. Done + i \in 1..Len(script) /\ Done + i > Done /\ Done + i <= Held
    BY <1>2
  <2>2. QED BY <1>3, <2>1
<1>6. QED BY <1>4, <1>5

\* Whatever went out left the queues.
LEMMA OutWasHeld ==
  ASSUME Line, Out
  PROVE  ToSet(delivered) \subseteq {script[k] : k \in 1..Held}
<1>1. Shape /\ InLine
  BY DEF Line
<1>2. Held \in Nat /\ Done \in Nat /\ Done <= Held /\ Held <= Len(script)
  BY <1>1, Lengths
<1>3. CASE delivered = current
  <2>1. \A m \in ToSet(current) : \E k \in 1..Len(script) :
            k > Done /\ k <= Held /\ m = script[k]
    BY BeingSent
  <2>2. QED BY <1>2, <1>3, <2>1
<1>4. CASE ToSet(delivered) \subseteq {script[k] : k \in 1..Done}
  BY <1>2, <1>4
<1>5. QED BY <1>3, <1>4 DEF Out

DoneNumber == Done \in Nat

LEMMA DoneIsNumber == Line => DoneNumber
  BY Lengths DEF Line, DoneNumber

\* What went out stays behind the line as the line moves on.
LEMMA OutMovesOn ==
  ASSUME Line, Line', Out, Done' >= Held \/ (current = <<>> /\ Done' >= Done),
         UNCHANGED script, delivered' \in {delivered, current}
  PROVE  Out'
<1>1. /\ Held \in Nat /\ Done \in Nat /\ Done' \in Nat
  <2>1. Shape /\ InLine
    BY DEF Line
  <2>2. Line' => DoneNumber'
    BY DoneIsNumber, PTL
  <2>3. QED BY <2>1, <2>2, Lengths DEF DoneNumber
<1>2. ToSet(delivered') \subseteq {script[k] : k \in 1..Held}
  <2>1. CASE delivered' = delivered
    BY <2>1, OutWasHeld
  <2>2. CASE delivered' = current
    <3>1. \A m \in ToSet(current) : \E k \in 1..Len(script) :
              k > Done /\ k <= Held /\ m = script[k]
      BY BeingSent
    <3>2. QED BY <1>1, <2>2, <3>1
  <2>3. QED BY <2>1, <2>2
<1>3. CASE Done' >= Held
  BY <1>1, <1>2, <1>3 DEF Out
<1>4. CASE current = <<>> /\ Done' >= Done
  <2>1. ToSet(<<>>) = {}
    BY DEF ToSet
  <2>2. ToSet(delivered') \subseteq {script[k] : k \in 1..Done}
    BY <1>4, <2>1 DEF Out
  <2>3. QED BY <1>1, <1>4, <2>2 DEF Out
<1>5. QED BY <1>3, <1>4

LEMMA NextOut ==
  ASSUME Line, Line', Out, [Next]_vars
  PROVE  Out'
<1>1. CASE Publish
  <2>1. Done' = Done /\ UNCHANGED <<script, delivered, current>>
    BY <1>1, PublishLine DEF Publish
  <2>2. QED BY <2>1 DEF Out
<1>2. CASE Take
  <2>1. current = <<>> /\ Done' >= Done /\ UNCHANGED <<script, delivered>>
    BY <1>2, TakeLine
  <2>2. QED BY <2>1, OutMovesOn
<1>3. CASE SendSucceeds
  <2>1. Done' = Held /\ UNCHANGED script /\ delivered' = current
    BY <1>3, SendDoneLine DEF SendSucceeds
  <2>2. Done' >= Held
    BY <2>1, Lengths DEF Line
  <2>3. QED BY <2>1, <2>2, OutMovesOn
<1>4. CASE SendFails
  <2>1. UNCHANGED <<queues, seen>> /\ delivered' \in {delivered, current}
    BY <1>4 DEF SendFails
  <2>2. CASE SendDone("failed")
    <3>1. Done' = Held
      BY <2>1, <2>2, SendDoneLine
    <3>2. Done' >= Held
      BY <3>1, Lengths DEF Line
    <3>3. QED BY <2>1, <3>2, OutMovesOn
  <2>3. CASE UNCHANGED <<current, fate>>
    <3>1. Done' = Done
      BY <2>1, <2>3, OtherLine
    <3>2. QED BY <2>1, <2>3, <3>1 DEF Out
  <2>4. QED BY <1>4, <2>2, <2>3 DEF SendFails
<1>5. CASE Retry
  <2>1. Done' = Done /\ UNCHANGED <<script, current, delivered>>
    BY <1>5, OtherLine DEF Retry
  <2>2. QED BY <2>1 DEF Out
<1>6. CASE PageStep
  <2>1. Done' = Done /\ UNCHANGED <<script, current, delivered>>
    BY <1>6, OtherLine DEF PageStep, Request, EnableAnew, Finish
  <2>2. QED BY <2>1 DEF Out
<1>7. CASE StopAll
  <2>1. Done' >= Held /\ UNCHANGED <<script, delivered>>
    BY <1>7, StopAllLine
  <2>2. QED BY <2>1, OutMovesOn
<1>8. CASE UNCHANGED vars
  <2>1. Done' = Done /\ UNCHANGED <<script, current, delivered>>
    BY <1>8, OtherLine
  <2>2. QED BY <2>1 DEF Out
<1>9. QED BY <1>1, <1>2, <1>3, <1>4, <1>5, <1>6, <1>7, <1>8 DEF Next

LEMMA PlaceInScript ==
  ASSUME Shape, NEW k \in 1..Len(script)
  PROVE  Place(script[k]) = k
<1>1. /\ script \in Seq(Msgs)
      /\ \A a, b \in 1..Len(script) : script[a] = script[b] => a = b
  BY ScriptType
<1>2. DOMAIN script = 1..Len(script)
  BY <1>1
<1>3. QED BY <1>1, <1>2 DEF Place

LEMMA InOrderStep ==
  ASSUME Line, Out, [Next]_vars, delivered' # delivered,
         NEW m \in ToSet(delivered), NEW n \in ToSet(delivered')
  PROVE  Place(m) < Place(n)
<1>1. delivered' = current
  <2>1. SendSucceeds \/ SendFails
    BY DEF Next, Publish, Take, Retry, PageStep, Request, EnableAnew, Finish, StopAll
  <2>2. QED BY <2>1 DEF SendSucceeds, SendFails
<1>2. PICK k \in 1..Done : m = script[k]
  BY <1>1 DEF Out
<1>3. PICK l \in 1..Len(script) : l > Done /\ n = script[l]
  BY <1>1, BeingSent
<1>4. Shape /\ Done \in Nat /\ Done <= Len(script) /\ Len(script) \in Nat
  BY Lengths DEF Line
<1>5. k \in 1..Len(script) /\ k < l
  BY <1>2, <1>3, <1>4
<1>6. Place(m) = k /\ Place(n) = l
  BY <1>2, <1>3, <1>4, <1>5, PlaceInScript
<1>7. QED BY <1>5, <1>6

\* Between the bus and a channel no message is lost or doubled, whatever is
\* merged, handed back, retried or cancelled.
THEOREM NothingLost == Spec => []Accounted
<1>1. Line => Accounted
  BY LineAccounts
<1>2. QED BY <1>1, LineInvariant, PTL

\* What reaches the channels reaches them in the order of publishing; only a
\* retried message repeats.
THEOREM NothingOvertakes == Spec => InOrder
<1>1. Init => Out
  BY DEF Init, Out
<1>2. Line /\ Line' /\ Out /\ [Next]_vars => Out'
  BY NextOut
<1>3. Line /\ Out /\ [Next]_vars =>
         [delivered' # delivered =>
            \A m \in ToSet(delivered), n \in ToSet(delivered') : Place(m) < Place(n)]_vars
  BY InOrderStep
<1>4. QED BY <1>1, <1>2, <1>3, LineInvariant, PTL DEF Spec, InOrder

-----------------------------------------------------------------------------
(* The map of fingerprints *)

Ids == {Origin[m] : m \in Msgs} \cup {Answers[m] : m \in Msgs}
Entry(m, o) == [key |-> Key(m, o), text |-> TextOf[m]]
Entries == {Entry(m, o) : m \in Msgs, o \in Ids}
OneEach(cache) == \A p, q \in 1..Len(cache) : cache[p].key = cache[q].key => p = q

LEMMA RemovedAt ==
  ASSUME NEW S, NEW s \in Seq(S), NEW k \in 1..Len(s)
  PROVE  /\ RemoveAt(s, k) \in Seq(S)
         /\ \A j \in 1..Len(RemoveAt(s, k)) :
               \/ j < k /\ j \in 1..Len(s) /\ RemoveAt(s, k)[j] = s[j]
               \/ j >= k /\ j + 1 \in 1..Len(s) /\ RemoveAt(s, k)[j] = s[j + 1]
<1> DEFINE a == SubSeq(s, 1, k - 1)
           b == SubSeq(s, k + 1, Len(s))
           r == a \o b
<1>1. Len(s) \in Nat /\ k \in Nat /\ k >= 1 /\ k - 1 \in 0..Len(s) /\ k \in 0..Len(s)
  OBVIOUS
<1>2. /\ a \in Seq(S) /\ Len(a) = k - 1
      /\ \A j \in 1..(k - 1) : a[j] = s[j]
  BY <1>1, SplitAt
<1>3. /\ b \in Seq(S) /\ Len(b) = Len(s) - k
      /\ \A j \in 1..(Len(s) - k) : b[j] = s[k + j]
  BY <1>1, SplitAt
<1> HIDE DEF a, b
<1>4. /\ r \in Seq(S) /\ Len(r) = Len(a) + Len(b)
      /\ \A j \in 1..Len(a) : r[j] = a[j]
      /\ \A j \in 1..Len(b) : r[Len(a) + j] = b[j]
  <2>1. a \in Seq(S) /\ b \in Seq(S)
    BY <1>2, <1>3
  <2>2. QED BY <2>1, ConcatAt
<1> HIDE DEF r
<1>5. ASSUME NEW j \in 1..Len(r)
      PROVE  \/ j < k /\ j \in 1..Len(s) /\ r[j] = s[j]
             \/ j >= k /\ j + 1 \in 1..Len(s) /\ r[j] = s[j + 1]
  <2>1. j \in Nat /\ j >= 1 /\ j <= Len(s) - 1
    BY <1>1, <1>2, <1>3, <1>4
  <2>2. CASE j < k
    <3>1. j \in 1..Len(a) /\ j \in 1..(k - 1) /\ j \in 1..Len(s)
      BY <1>1, <1>2, <2>1, <2>2
    <3>2. QED BY <1>2, <1>4, <2>2, <3>1
  <2>3. CASE j >= k
    <3> DEFINE i == j - (k - 1)
    <3>1. /\ i \in 1..Len(b) /\ i \in 1..(Len(s) - k) /\ j = Len(a) + i /\ k + i = j + 1
          /\ j + 1 \in 1..Len(s)
      BY <1>1, <1>2, <1>3, <2>1, <2>3
    <3> HIDE DEF i
    <3>2. r[j] = b[i] /\ b[i] = s[k + i]
      BY <1>3, <1>4, <3>1
    <3>3. QED BY <2>3, <3>1, <3>2
  <2>4. QED BY <1>1, <2>1, <2>2, <2>3
<1>6. RemoveAt(s, k) = r
  BY DEF RemoveAt, r, a, b
<1>7. QED BY <1>4, <1>5, <1>6

LEMMA WithoutKey ==
  ASSUME NEW cache \in Seq(Entries), OneEach(cache), NEW key
  PROVE  LET r == Without(cache, key) IN
         /\ r \in Seq(Entries) /\ OneEach(r)
         /\ \A p \in 1..Len(r) : /\ r[p].key # key
                                 /\ \E q \in 1..Len(cache) : r[p] = cache[q]
<1>1. DOMAIN cache = 1..Len(cache) /\ Len(cache) \in Nat
  OBVIOUS
<1>2. CASE \E p \in DOMAIN cache : cache[p].key = key
  <2> DEFINE k == CHOOSE p \in DOMAIN cache : cache[p].key = key
             r == RemoveAt(cache, k)
  <2>1. k \in 1..Len(cache) /\ cache[k].key = key
    BY <1>1, <1>2
  <2>2. Without(cache, key) = r
    BY <1>2 DEF Without
  <2> HIDE DEF k
  <2>3. /\ r \in Seq(Entries)
        /\ \A j \in 1..Len(r) :
               \/ j < k /\ j \in 1..Len(cache) /\ r[j] = cache[j]
               \/ j >= k /\ j + 1 \in 1..Len(cache) /\ r[j] = cache[j + 1]
    BY <2>1, RemovedAt
  <2> HIDE DEF r
  <2>4. ASSUME NEW j \in 1..Len(r)
        PROVE  \E q \in 1..Len(cache) : /\ r[j] = cache[q] /\ q # k
                                        /\ q = IF j < k THEN j ELSE j + 1
    <3>1. j \in Nat /\ k \in Nat
      BY <2>1
    <3>2. CASE j < k /\ j \in 1..Len(cache) /\ r[j] = cache[j]
      BY <3>1, <3>2
    <3>3. CASE j >= k /\ j + 1 \in 1..Len(cache) /\ r[j] = cache[j + 1]
      BY <3>1, <3>3
    <3>4. QED BY <2>3, <3>2, <3>3
  <2>5. OneEach(r)
    <3> SUFFICES ASSUME NEW i \in 1..Len(r), NEW j \in 1..Len(r), r[i].key = r[j].key
                 PROVE  i = j
      BY DEF OneEach
    <3>1. PICK p \in 1..Len(cache) : r[i] = cache[p] /\ p = IF i < k THEN i ELSE i + 1
      BY <2>4
    <3>2. PICK q \in 1..Len(cache) : r[j] = cache[q] /\ q = IF j < k THEN j ELSE j + 1
      BY <2>4
    <3>3. p = q
      BY <3>1, <3>2 DEF OneEach
    <3>4. i \in Nat /\ j \in Nat /\ k \in Nat
      BY <2>1
    <3>5. QED BY <3>1, <3>2, <3>3, <3>4
  <2>6. ASSUME NEW p \in 1..Len(r)
        PROVE  r[p].key # key /\ \E q \in 1..Len(cache) : r[p] = cache[q]
    BY <2>1, <2>4 DEF OneEach
  <2>7. QED BY <2>2, <2>3, <2>5, <2>6
<1>3. CASE ~\E p \in DOMAIN cache : cache[p].key = key
  BY <1>1, <1>3 DEF Without
<1>4. QED BY <1>2, <1>3

\* What is remembered is the new entry and some of the others, under other keys.
LEMMA RememberEntry ==
  ASSUME NEW cache \in Seq(Entries), OneEach(cache), NEW m \in Msgs, NEW o \in Ids
  PROVE  LET r == Remember(cache, Key(m, o), TextOf[m]) IN
         /\ r \in Seq(Entries) /\ OneEach(r)
         /\ \A p \in 1..Len(r) :
               \/ r[p] = Entry(m, o)
               \/ r[p].key # Key(m, o) /\ \E q \in 1..Len(cache) : r[p] = cache[q]
<1> DEFINE key == Key(m, o)
           e == Entry(m, o)
           w == Without(cache, key)
           all == Append(w, e)
           Fine(s) == /\ s \in Seq(Entries) /\ OneEach(s)
                      /\ \A p \in 1..Len(s) :
                            \/ s[p] = e
                            \/ s[p].key # key /\ \E q \in 1..Len(cache) : s[p] = cache[q]
<1>1. e \in Entries /\ e.key = key
  BY DEF Entries, Entry
<1>2. /\ w \in Seq(Entries) /\ OneEach(w)
      /\ \A p \in 1..Len(w) : /\ w[p].key # key
                              /\ \E q \in 1..Len(cache) : w[p] = cache[q]
  BY WithoutKey
<1>3. Remember(cache, key, TextOf[m]) = IF Len(all) > CacheSize THEN Tail(all) ELSE all
  BY DEF Remember, Entry
<1> HIDE DEF key, e, w
<1>4. /\ all \in Seq(Entries) /\ Len(all) = Len(w) + 1 /\ Len(w) \in Nat
      /\ \A i \in 1..Len(w) : all[i] = w[i]
      /\ all[Len(w) + 1] = e
  BY <1>1, <1>2, AppendAt
<1> HIDE DEF all
<1>5. \A p \in 1..Len(all) : (p \in 1..Len(w) /\ all[p] = w[p]) \/ (p = Len(w) + 1 /\ all[p] = e)
  BY <1>4
<1>6. OneEach(all)
  <2> SUFFICES ASSUME NEW p \in 1..Len(all), NEW q \in 1..Len(all), all[p].key = all[q].key
               PROVE  p = q
    BY DEF OneEach
  <2>1. CASE p \in 1..Len(w) /\ q \in 1..Len(w)
    BY <1>2, <1>4, <2>1 DEF OneEach
  <2>2. CASE p \notin 1..Len(w) /\ q \notin 1..Len(w)
    BY <1>5, <2>2
  <2>3. CASE p \in 1..Len(w) /\ q \notin 1..Len(w)
    BY <1>1, <1>2, <1>4, <1>5, <2>3
  <2>4. CASE p \notin 1..Len(w) /\ q \in 1..Len(w)
    BY <1>1, <1>2, <1>4, <1>5, <2>4
  <2>5. QED BY <2>1, <2>2, <2>3, <2>4
<1>7. Fine(all)
  BY <1>2, <1>4, <1>5, <1>6
<1>8. Fine(Tail(all))
  <2> DEFINE t == Tail(all)
  <2>1. all # <<>>
    BY <1>4
  <2>2. t \in Seq(Entries) /\ Len(t) = Len(all) - 1 /\ \A i \in 1..Len(t) : t[i] = all[i + 1]
    BY <1>4, <2>1, TailAt
  <2> HIDE DEF t
  <2>3. \A i \in 1..Len(t) : i + 1 \in 1..Len(all) /\ t[i] = all[i + 1]
    BY <1>4, <2>2
  <2>4. OneEach(t)
    <3> SUFFICES ASSUME NEW p \in 1..Len(t), NEW q \in 1..Len(t), t[p].key = t[q].key
                 PROVE  p = q
      BY DEF OneEach
    <3>1. p + 1 = q + 1
      BY <1>6, <2>3 DEF OneEach
    <3>2. QED BY <3>1
  <2>5. Fine(t)
    BY <1>7, <2>2, <2>3, <2>4
  <2>6. QED BY <2>5 DEF t
<1> HIDE DEF Fine
<1>9. Fine(Remember(cache, key, TextOf[m]))
  BY <1>3, <1>7, <1>8
<1>10. QED BY <1>9 DEF Fine, key, e

\* The origins under which a reply that is dispatched is noted.
Noted(m) == (IF Suppressed(m) THEN {Origin[m]} ELSE {Origin[m], Answers[m]}) \ {NoOrigin}

LEMMA RememberedEntries ==
  ASSUME fingerprints \in Seq(Entries), OneEach(fingerprints),
         NEW m \in Msgs, Fingerprinted(m)
  PROVE  /\ Remembered(m) \in Seq(Entries) /\ OneEach(Remembered(m))
         /\ \A p \in 1..Len(Remembered(m)) :
               \/ \E o \in Noted(m) : Remembered(m)[p] = Entry(m, o)
               \/ /\ \A o \in Noted(m) : Remembered(m)[p].key # Key(m, o)
                  /\ \E q \in 1..Len(fingerprints) : Remembered(m)[p] = fingerprints[q]
<1> DEFINE late == IF Origin[m] = NoOrigin THEN fingerprints
                   ELSE Remember(fingerprints, Key(m, Origin[m]), TextOf[m])
           both == Remember(late, Key(m, Answers[m]), TextOf[m])
           A == {Origin[m]} \ {NoOrigin}
           Good(s, O) == /\ s \in Seq(Entries) /\ OneEach(s)
                         /\ \A p \in 1..Len(s) :
                               \/ \E o \in O : s[p] = Entry(m, o)
                               \/ /\ \A o \in O : s[p].key # Key(m, o)
                                  /\ \E q \in 1..Len(fingerprints) : s[p] = fingerprints[q]
<1>1. Origin[m] \in Ids /\ Answers[m] \in Ids
  BY DEF Ids
<1>2. Good(late, A)
  <2>1. CASE Origin[m] = NoOrigin
    BY <2>1
  <2>2. CASE Origin[m] # NoOrigin
    <3> DEFINE r == Remember(fingerprints, Key(m, Origin[m]), TextOf[m])
    <3>1. /\ r \in Seq(Entries) /\ OneEach(r)
          /\ \A p \in 1..Len(r) :
                \/ r[p] = Entry(m, Origin[m])
                \/ /\ r[p].key # Key(m, Origin[m])
                   /\ \E q \in 1..Len(fingerprints) : r[p] = fingerprints[q]
      BY <1>1, RememberEntry
    <3> HIDE DEF r
    <3>2. A = {Origin[m]}
      BY <2>2
    <3>3. Good(r, A)
      BY <3>1, <3>2
    <3>4. late = r
      BY <2>2 DEF r
    <3>5. QED BY <3>3, <3>4
  <2>3. QED BY <2>1, <2>2
<1>3. Remembered(m) = IF Answers[m] = NoOrigin \/ Suppressed(m) THEN late ELSE both
  BY DEF Remembered
<1>4. CASE Answers[m] = NoOrigin \/ Suppressed(m)
  <2>1. Noted(m) = A
    BY <1>4 DEF Noted
  <2>2. Remembered(m) = late
    BY <1>3, <1>4
  <2> HIDE DEF late, A
  <2>3. QED BY <1>2, <2>1, <2>2
<1>5. CASE Answers[m] # NoOrigin /\ ~Suppressed(m)
  <2>1. Noted(m) = A \cup {Answers[m]}
    BY <1>5 DEF Noted
  <2>2. Remembered(m) = both
    BY <1>3, <1>5
  <2> HIDE DEF late, A
  <2>3. /\ late \in Seq(Entries) /\ OneEach(late)
    BY <1>2
  <2>4. /\ both \in Seq(Entries) /\ OneEach(both)
        /\ \A p \in 1..Len(both) :
              \/ both[p] = Entry(m, Answers[m])
              \/ /\ both[p].key # Key(m, Answers[m])
                 /\ \E q \in 1..Len(late) : both[p] = late[q]
    BY <1>1, <2>3, RememberEntry
  <2> HIDE DEF both
  <2>5. ASSUME NEW p \in 1..Len(both)
        PROVE  \/ \E o \in Noted(m) : both[p] = Entry(m, o)
               \/ /\ \A o \in Noted(m) : both[p].key # Key(m, o)
                  /\ \E q \in 1..Len(fingerprints) : both[p] = fingerprints[q]
    <3>1. CASE both[p] = Entry(m, Answers[m])
      BY <2>1, <3>1
    <3>2. ASSUME both[p].key # Key(m, Answers[m]), NEW q \in 1..Len(late), both[p] = late[q]
          PROVE  \/ \E o \in Noted(m) : both[p] = Entry(m, o)
                 \/ /\ \A o \in Noted(m) : both[p].key # Key(m, o)
                    /\ \E k \in 1..Len(fingerprints) : both[p] = fingerprints[k]
      BY <1>2, <2>1, <3>2
    <3>3. QED BY <2>4, <3>1, <3>2
  <2>6. QED BY <2>2, <2>4, <2>5
<1>6. QED BY <1>4, <1>5

-----------------------------------------------------------------------------
(* Only repetitions are suppressed *)

\* In a history s of replies, noted under the origins O: the entry e is what the
\* i-th reply said, and no later one with that key said anything else.
Saw(s, O, e, i) ==
    /\ \E o \in O[i] \ {NoOrigin} : e = Entry(s[i], o)
    /\ \A k \in (i + 1)..Len(s) : e.key \in {Key(s[k], o) : o \in O[k]} => TextOf[s[k]] = e.text

\* The last reply dispatched to the origin of the j-th one said the same.
Heard(s, O, j) ==
    \E i \in 1..(j - 1) :
        /\ ChannelOf[s[i]] = ChannelOf[s[j]]
        /\ Origin[s[j]] \in O[i]
        /\ TextOf[s[i]] = TextOf[s[j]]
        /\ \A k \in (i + 1)..(j - 1) :
              \/ ChannelOf[s[k]] # ChannelOf[s[j]]
              \/ Origin[s[j]] \notin O[k]
              \/ TextOf[s[k]] = TextOf[s[j]]

\* The origins of each reply of the past.
Past == [i \in 1..Len(seen) |-> Origins(seen[i])]

Backed ==
    /\ fingerprints \in Seq(Entries) /\ OneEach(fingerprints)
    /\ \A p \in 1..Len(fingerprints) : \E i \in 1..Len(seen) :
          Saw(seen, Past, fingerprints[p], i)

Founded == \A j \in 1..Len(seen) : fate[seen[j]] = "suppressed" => Heard(seen, Past, j)

SeenBefore == \A i \in 1..Len(seen) : \E k \in 1..Held : seen[i] = script[k]

LEMMA SameKey ==
  ASSUME NEW m, NEW n, NEW o, NEW u
  PROVE  Key(m, o) = Key(n, u) <=> ChannelOf[m] = ChannelOf[n] /\ o = u
  BY DEF Key

\* What became of the messages that were taken stays as it was.
LEMMA PastStays ==
  ASSUME Line, [Next]_vars
  PROVE  \A k \in 1..Held :
            fate'[script[k]] = "suppressed" <=> fate[script[k]] = "suppressed"
<1>1. ASSUME SameSuppressed, NEW k \in 1..Held
      PROVE  fate'[script[k]] = "suppressed" <=> fate[script[k]] = "suppressed"
  <2>1. Shape /\ InLine
    BY DEF Line
  <2>2. k \in 1..Len(script)
    BY <2>1, Lengths
  <2>3. QED BY <1>1, <2>1, <2>2, ScriptType DEF SameSuppressed
<1>2. CASE UNCHANGED fate
  BY <1>2
<1>3. CASE Take
  BY <1>3, TakeLine
<1>4. CASE SendSucceeds
  BY <1>1, <1>4, SendDoneLine DEF SendSucceeds
<1>5. CASE SendFails
  <2>1. UNCHANGED <<queues, seen>> /\ delivered' \in {delivered, current}
    BY <1>5 DEF SendFails
  <2>2. CASE SendDone("failed")
    BY <1>1, <2>1, <2>2, SendDoneLine
  <2>3. QED BY <1>2, <1>5, <2>2 DEF SendFails
<1>6. CASE StopAll
  BY <1>1, <1>6, StopAllLine
<1>7. UNCHANGED fate \/ Take \/ SendSucceeds \/ SendFails \/ StopAll
  BY DEF Next, Publish, Retry, PageStep, Request, EnableAnew, Finish
<1>8. QED BY <1>2, <1>3, <1>4, <1>5, <1>6, <1>7

LEMMA HeldGrows ==
  ASSUME Line, [Next]_vars
  PROVE  Held \in Nat /\ Held' \in Int /\ Held' >= Held /\ script' = script
<1>1. Held \in Nat
  BY Lengths DEF Line
<1>2. CASE UNCHANGED <<queues, current, fate, seen>>
  BY <1>1, <1>2 DEF Held, Left
<1>3. CASE Publish
  BY <1>1, <1>3, PublishLine DEF Publish
<1>4. CASE Take
  BY <1>1, <1>4, TakeLine
<1>5. CASE SendSucceeds \/ SendFails
  <2>1. UNCHANGED queues
    BY <1>5 DEF SendSucceeds, SendFails
  <2>2. QED BY <1>1, <2>1 DEF Held, Left
<1>6. CASE StopAll
  <2>1. Held' = Done' /\ Line' /\ Held' >= Held /\ script' = script
    BY <1>6, StopAllLine
  <2>2. Line' => DoneNumber'
    BY DoneIsNumber, PTL
  <2>3. QED BY <1>1, <2>1, <2>2 DEF DoneNumber
<1>7. \/ UNCHANGED <<queues, current, fate, seen>>
      \/ Publish \/ Take \/ SendSucceeds \/ SendFails \/ StopAll
  BY DEF Next, Retry, PageStep, Request, EnableAnew, Finish
<1>8. QED BY <1>2, <1>3, <1>4, <1>5, <1>6, <1>7

Repeats == Backed /\ SeenBefore /\ Founded

\* What Take does to the map and to the history of replies.
LEMMA TakesEffects ==
  ASSUME NEW first \in Msgs, NEW q \in Seq(Msgs), Takes(first, q)
  PROVE  \/ UNCHANGED <<fingerprints, seen>>
         \/ /\ Fingerprinted(first) /\ fingerprints' = Remembered(first)
            /\ seen' = Append(seen, first)
            /\ Suppressed(first) => fate'[first] = "suppressed"
            /\ ~Suppressed(first) => UNCHANGED fate
<1>1. PICK n \in 1..(Len(q) + 1) :
        LET parts == Parts(first, q, n)
            c == ChannelOf[first]
            skips == Kind[first] = "progress" /\ (c \notin Shown \/ live[c] = 0)
            sends == ~skips /\ live[c] # 0 /\ ~Suppressed(first)
        IN  /\ fate' = IF skips THEN Sealed(fate, parts, "hidden")
                       ELSE IF live[c] = 0 THEN Sealed(fate, parts, "unknown")
                       ELSE IF ~sends THEN Sealed(fate, parts, "suppressed")
                       ELSE fate
            /\ IF ~skips /\ live[c] # 0
                 THEN /\ fingerprints' = Remembered(first)
                      /\ seen' = IF Fingerprinted(first) THEN Append(seen, first) ELSE seen
                 ELSE UNCHANGED <<fingerprints, seen>>
  BY DEF Takes, Parts
<1> DEFINE parts == Parts(first, q, n)
           c == ChannelOf[first]
           skips == Kind[first] = "progress" /\ (c \notin Shown \/ live[c] = 0)
           sends == ~skips /\ live[c] # 0 /\ ~Suppressed(first)
<1>2. /\ fate' = IF skips THEN Sealed(fate, parts, "hidden")
                 ELSE IF live[c] = 0 THEN Sealed(fate, parts, "unknown")
                 ELSE IF ~sends THEN Sealed(fate, parts, "suppressed")
                 ELSE fate
      /\ IF ~skips /\ live[c] # 0
           THEN /\ fingerprints' = Remembered(first)
                /\ seen' = IF Fingerprinted(first) THEN Append(seen, first) ELSE seen
           ELSE UNCHANGED <<fingerprints, seen>>
      /\ sends <=> ~skips /\ live[c] # 0 /\ ~Suppressed(first)
  BY <1>1
<1>3. first \in ToSet(parts)
  <2>1. parts \in Seq(Msgs) /\ Len(parts) = n /\ parts[1] = first
    BY PartsAt
  <2> HIDE DEF parts
  <2>2. ToSet(parts) = {parts[i] : i \in 1..n}
    BY <2>1, SetOf
  <2>3. 1 \in 1..n
    OBVIOUS
  <2>4. QED BY <2>1, <2>2, <2>3
<1> HIDE DEF parts, c, skips, sends
<1>4. Sealed(fate, parts, "suppressed")[first] = "suppressed"
  BY <1>3 DEF Sealed
<1>5. CASE skips \/ live[c] = 0
  BY <1>2, <1>5
<1>6. CASE ~skips /\ live[c] # 0 /\ ~Fingerprinted(first)
  <2>1. Remembered(first) = fingerprints
    BY <1>6 DEF Remembered
  <2>2. QED BY <1>2, <1>6, <2>1
<1>7. CASE ~skips /\ live[c] # 0 /\ Fingerprinted(first)
  <2>1. fingerprints' = Remembered(first) /\ seen' = Append(seen, first)
    BY <1>2, <1>7
  <2>2. CASE Suppressed(first)
    BY <1>2, <1>4, <1>7, <2>1, <2>2
  <2>3. CASE ~Suppressed(first)
    BY <1>2, <1>7, <2>1, <2>3
  <2>4. QED BY <2>2, <2>3
<1>8. QED BY <1>5, <1>6, <1>7

LEMMA FoundedIs ==
  ASSUME seen \in Seq(Msgs), Founded
  PROVE  SuppressedRepeats
<1> SUFFICES ASSUME NEW j \in DOMAIN seen, fate[seen[j]] = "suppressed"
             PROVE  \E i \in 1..(j - 1) :
                       /\ ChannelOf[seen[i]] = ChannelOf[seen[j]]
                       /\ Origin[seen[j]] \in Origins(seen[i])
                       /\ TextOf[seen[i]] = TextOf[seen[j]]
                       /\ \A k \in (i + 1)..(j - 1) :
                             \/ ChannelOf[seen[k]] # ChannelOf[seen[j]]
                             \/ Origin[seen[j]] \notin Origins(seen[k])
                             \/ TextOf[seen[k]] = TextOf[seen[j]]
  BY DEF SuppressedRepeats
<1>1. DOMAIN seen = 1..Len(seen) /\ Len(seen) \in Nat
  OBVIOUS
<1>2. Heard(seen, Past, j)
  BY <1>1 DEF Founded
<1>3. \A i \in 1..(j - 1) : i \in 1..Len(seen)
  BY <1>1
<1>4. \A i \in 1..(j - 1) : Past[i] = Origins(seen[i])
  BY <1>3 DEF Past
<1>5. \A i \in 1..(j - 1) : \A k \in (i + 1)..(j - 1) : k \in 1..(j - 1)
  BY <1>1
<1>6. QED BY <1>2, <1>4, <1>5 DEF Heard

\* As long as no reply is dispatched.
LEMMA RepeatsStay ==
  ASSUME Line, Repeats, [Next]_vars, UNCHANGED <<fingerprints, seen>>
  PROVE  Repeats'
<1>1. Backed /\ SeenBefore /\ Founded
  BY DEF Repeats
<1>2. \A k \in 1..Held : fate'[script[k]] = "suppressed" <=> fate[script[k]] = "suppressed"
  BY PastStays
<1>3. Held \in Nat /\ Held' \in Int /\ Held' >= Held /\ script' = script
  BY HeldGrows
<1>4. SeenBefore'
  <2>1. \A k \in 1..Held : k \in 1..Held'
    BY <1>3
  <2>2. QED BY <1>1, <1>3, <2>1 DEF SeenBefore
<1>5. seen' = seen /\ fingerprints' = fingerprints
  OBVIOUS
<1>6. \A i \in 1..Len(seen) : fate'[seen[i]] = "suppressed" <=> fate[seen[i]] = "suppressed"
  BY <1>1, <1>2 DEF SeenBefore
<1>7. Past' = Past
  BY <1>5, <1>6 DEF Past, Origins
<1>8. Backed'
  BY <1>1, <1>5, <1>7 DEF Backed
<1>9. Founded'
  BY <1>1, <1>5, <1>6, <1>7 DEF Founded
<1>10. QED BY <1>4, <1>8, <1>9 DEF Repeats

\* A reply under other keys changes nothing for an entry, nor for the replies before.
LEMMA SawStays ==
  ASSUME NEW s \in Seq(Msgs), NEW m \in Msgs, NEW O, NEW U, NEW e, NEW i \in 1..Len(s),
         Saw(s, O, e, i), \A k \in 1..Len(s) : U[k] = O[k],
         e.key \notin {Key(m, o) : o \in U[Len(s) + 1]}
  PROVE  Saw(Append(s, m), U, e, i)
<1> DEFINE r == Append(s, m)
<1>1. /\ Len(r) = Len(s) + 1 /\ Len(s) \in Nat /\ r[Len(s) + 1] = m
      /\ \A k \in 1..Len(s) : r[k] = s[k]
  BY AppendAt
<1> HIDE DEF r
<1>2. \E o \in U[i] \ {NoOrigin} : e = Entry(r[i], o)
  BY <1>1 DEF Saw
<1>3. ASSUME NEW k \in (i + 1)..Len(r), e.key \in {Key(r[k], o) : o \in U[k]}
      PROVE  TextOf[r[k]] = e.text
  <2>1. CASE k = Len(s) + 1
    BY <1>1, <1>3, <2>1
  <2>2. CASE k # Len(s) + 1
    <3>1. k \in (i + 1)..Len(s) /\ k \in 1..Len(s)
      BY <1>1, <2>2
    <3>2. QED BY <1>1, <1>3, <3>1 DEF Saw
  <2>3. QED BY <2>1, <2>2
<1>4. QED BY <1>2, <1>3 DEF Saw, r

LEMMA HeardStays ==
  ASSUME NEW s \in Seq(Msgs), NEW m \in Msgs, NEW O, NEW U, NEW j \in 1..Len(s),
         Heard(s, O, j), \A k \in 1..Len(s) : U[k] = O[k]
  PROVE  Heard(Append(s, m), U, j)
<1> DEFINE r == Append(s, m)
<1>1. Len(s) \in Nat /\ \A k \in 1..Len(s) : r[k] = s[k]
  BY AppendAt
<1> HIDE DEF r
<1>2. \A k \in 1..(j - 1) : k \in 1..Len(s) /\ r[k] = s[k] /\ U[k] = O[k]
  BY <1>1
<1>3. r[j] = s[j] /\ \A i \in 1..(j - 1) : \A k \in (i + 1)..(j - 1) : k \in 1..(j - 1)
  BY <1>1
<1>4. Heard(r, U, j)
  BY <1>2, <1>3 DEF Heard
<1>5. QED BY <1>4 DEF r

\* An entry that suppresses a reply was made by one that said the same.
LEMMA SawIsHeard ==
  ASSUME NEW s \in Seq(Msgs), NEW m \in Msgs, NEW O, NEW U, NEW e, NEW i \in 1..Len(s),
         Saw(s, O, e, i), \A k \in 1..Len(s) : U[k] = O[k],
         e = Entry(m, Origin[m])
  PROVE  Heard(Append(s, m), U, Len(s) + 1)
<1> DEFINE r == Append(s, m)
           j == Len(s) + 1
<1>1. /\ Len(s) \in Nat /\ r[Len(s) + 1] = m
      /\ \A k \in 1..Len(s) : r[k] = s[k]
  BY AppendAt
<1> HIDE DEF r
<1>2. PICK o \in O[i] : e = Entry(s[i], o)
  BY DEF Saw
<1>3. Key(s[i], o) = Key(m, Origin[m]) /\ TextOf[s[i]] = TextOf[m] /\ e.text = TextOf[m]
      /\ e.key = Key(m, Origin[m])
  BY <1>2 DEF Entry
<1>4. ChannelOf[s[i]] = ChannelOf[m] /\ o = Origin[m]
  BY <1>3, SameKey
<1>5. ASSUME NEW k \in (i + 1)..(j - 1), ChannelOf[s[k]] = ChannelOf[m], Origin[m] \in O[k]
      PROVE  TextOf[s[k]] = TextOf[m]
  <2>1. Key(s[k], Origin[m]) = Key(m, Origin[m])
    BY <1>5, SameKey
  <2>2. k \in (i + 1)..Len(s)
    BY <1>1
  <2>3. QED BY <1>3, <1>5, <2>1, <2>2 DEF Saw
<1>6. /\ i \in 1..(j - 1)
      /\ \A k \in (i + 1)..(j - 1) : k \in 1..Len(s)
  BY <1>1
<1>7. Heard(r, U, j)
  BY <1>1, <1>2, <1>3, <1>4, <1>5, <1>6 DEF Heard
<1>8. QED BY <1>7 DEF r

\* When a reply is dispatched.
LEMMA ReplyStep ==
  ASSUME Line, Repeats, [Next]_vars, NEW m \in Msgs,
         Held + 1 \in 1..Len(script), m = script[Held + 1], Done = Held, Held' >= Held + 1,
         Fingerprinted(m), fingerprints' = Remembered(m), seen' = Append(seen, m),
         Suppressed(m) => fate'[m] = "suppressed", ~Suppressed(m) => UNCHANGED fate
  PROVE  Repeats'
<1> DEFINE N == Len(seen)
           U == Past'
<1>1. Backed /\ SeenBefore /\ Founded /\ Shape /\ Decided
  BY DEF Repeats, Line
<1>2. /\ \A k \in 1..Held : fate'[script[k]] = "suppressed" <=> fate[script[k]] = "suppressed"
      /\ Held \in Nat /\ Held' \in Int /\ script' = script
  BY PastStays, HeldGrows
<1>3. /\ seen \in Seq(Msgs) /\ N \in Nat /\ Len(seen') = N + 1
      /\ seen'[N + 1] = m /\ \A i \in 1..N : seen'[i] = seen[i]
  <2>1. seen \in Seq(Msgs)
    BY <1>1 DEF Shape
  <2>2. QED BY <2>1, AppendAt
<1>4. \A i \in 1..N : fate'[seen[i]] = "suppressed" <=> fate[seen[i]] = "suppressed"
  BY <1>1, <1>2 DEF SeenBefore
<1>5. \A i \in 1..(N + 1) : U[i] = IF fate'[seen'[i]] = "suppressed" THEN {Origin[seen'[i]]}
                                   ELSE {Origin[seen'[i]], Answers[seen'[i]]}
  BY <1>3 DEF Past, Origins
<1>6. \A i \in 1..N : Past[i] = IF fate[seen[i]] = "suppressed" THEN {Origin[seen[i]]}
                                ELSE {Origin[seen[i]], Answers[seen[i]]}
  BY DEF Past, Origins
<1> HIDE DEF U
<1>7. \A i \in 1..N : U[i] = Past[i]
  <2> TAKE i \in 1..N
  <2>1. i \in 1..(N + 1)
    BY <1>3
  <2>2. seen'[i] = seen[i] /\ (fate'[seen[i]] = "suppressed" <=> fate[seen[i]] = "suppressed")
    BY <1>3, <1>4
  <2>3. /\ U[i] = IF fate'[seen[i]] = "suppressed" THEN {Origin[seen[i]]}
                  ELSE {Origin[seen[i]], Answers[seen[i]]}
        /\ Past[i] = IF fate[seen[i]] = "suppressed" THEN {Origin[seen[i]]}
                     ELSE {Origin[seen[i]], Answers[seen[i]]}
    BY <1>5, <1>6, <2>1, <2>2
  <2>4. QED BY <2>2, <2>3
<1>8. fate'[m] = "suppressed" <=> Suppressed(m)
  <2>1. fate[m] = "none"
    BY <1>1, <1>2 DEF Decided
  <2>2. QED BY <2>1
<1>9. U[N + 1] = IF Suppressed(m) THEN {Origin[m]} ELSE {Origin[m], Answers[m]}
  <2>1. N + 1 \in 1..(N + 1)
    BY <1>3
  <2>2. QED BY <1>3, <1>5, <1>8, <2>1
<1>10. U[N + 1] \ {NoOrigin} = Noted(m)
  BY <1>9 DEF Noted
<1> DEFINE r == Remembered(m)
<1>11. /\ r \in Seq(Entries) /\ OneEach(r)
       /\ \A p \in 1..Len(r) :
             \/ \E o \in Noted(m) : r[p] = Entry(m, o)
             \/ /\ \A o \in Noted(m) : r[p].key # Key(m, o)
                /\ \E q \in 1..Len(fingerprints) : r[p] = fingerprints[q]
  BY <1>1, RememberedEntries DEF Backed
<1> HIDE DEF r
<1>12. ASSUME NEW p \in 1..Len(r)
       PROVE  \E i \in 1..(N + 1) : Saw(seen', U, r[p], i)
  <2>1. ASSUME NEW o \in Noted(m), r[p] = Entry(m, o)
        PROVE  Saw(seen', U, r[p], N + 1)
    <3>1. \E u \in U[N + 1] \ {NoOrigin} : r[p] = Entry(seen'[N + 1], u)
      BY <1>3, <1>10, <2>1
    <3>2. \A k \in ((N + 1) + 1)..Len(seen') : FALSE
      BY <1>3
    <3>3. QED BY <3>1, <3>2 DEF Saw
  <2>2. ASSUME \A o \in Noted(m) : r[p].key # Key(m, o),
               NEW q \in 1..Len(fingerprints), r[p] = fingerprints[q]
        PROVE  \E i \in 1..N : Saw(seen', U, r[p], i)
    <3>1. PICK i \in 1..N : Saw(seen, Past, r[p], i)
      BY <1>1, <2>2 DEF Backed
    <3>2. PICK u \in Past[i] \ {NoOrigin} : r[p] = Entry(seen[i], u)
      BY <3>1 DEF Saw
    <3>3. r[p].key = Key(seen[i], u) /\ u # NoOrigin
      BY <3>2 DEF Entry
    <3>4. ASSUME NEW o \in U[N + 1], r[p].key = Key(m, o)
          PROVE  FALSE
      <4>1. o = u
        <5>1. Key(seen[i], u) = Key(m, o)
          BY <3>3, <3>4
        <5>2. QED BY <5>1 DEF Key
      <4>2. o \in Noted(m)
        BY <1>10, <3>3, <4>1
      <4>3. QED BY <2>2, <3>4, <4>2
    <3>5. r[p].key \notin {Key(m, o) : o \in U[Len(seen) + 1]}
      BY <3>4
    <3>6. Saw(Append(seen, m), U, r[p], i)
      BY <1>3, <1>7, <3>1, <3>5, SawStays
    <3>7. QED BY <3>6
  <2>3. N + 1 \in 1..(N + 1) /\ \A i \in 1..N : i \in 1..(N + 1)
    BY <1>3
  <2>4. QED BY <1>11, <2>1, <2>2, <2>3
<1>13. Backed'
  <2>1. fingerprints' = r
    BY DEF r
  <2>2. QED BY <1>3, <1>11, <1>12, <2>1 DEF Backed, U
<1>14. ASSUME NEW j \in 1..(N + 1), fate'[seen'[j]] = "suppressed"
       PROVE  Heard(seen', U, j)
  <2>1. CASE j \in 1..N
    <3>1. Heard(seen, Past, j)
      BY <1>1, <1>3, <1>4, <1>14, <2>1 DEF Founded
    <3>2. Heard(Append(seen, m), U, j)
      BY <1>3, <1>7, <2>1, <3>1, HeardStays
    <3>3. QED BY <3>2
  <2>2. CASE j \notin 1..N
    <3>1. j = N + 1 /\ Suppressed(m)
      BY <1>3, <1>8, <1>14, <2>2
    <3>2. Entry(m, Origin[m]) \in ToSet(fingerprints)
      BY <3>1 DEF Suppressed, Remembers, Entry
    <3>3. ToSet(fingerprints) = {fingerprints[q] : q \in 1..Len(fingerprints)}
      BY <1>1, SetOf DEF Backed
    <3>4. PICK q \in 1..Len(fingerprints) : Entry(m, Origin[m]) = fingerprints[q]
      BY <3>2, <3>3
    <3>5. PICK i \in 1..N : Saw(seen, Past, fingerprints[q], i)
      BY <1>1 DEF Backed
    <3>6. Heard(Append(seen, m), U, Len(seen) + 1)
      BY <1>3, <1>7, <3>4, <3>5, SawIsHeard
    <3>7. QED BY <3>1, <3>6
  <2>3. QED BY <2>1, <2>2
<1>15. Founded'
  BY <1>3, <1>14 DEF Founded, U
<1>16. SeenBefore'
  <2> SUFFICES ASSUME NEW i \in 1..(N + 1) PROVE \E k \in 1..Held' : seen'[i] = script[k]
    BY <1>2, <1>3 DEF SeenBefore
  <2>1. CASE i \in 1..N
    <3>1. PICK k \in 1..Held : seen[i] = script[k]
      BY <1>1, <2>1 DEF SeenBefore
    <3>2. k \in 1..Held'
      BY <1>2
    <3>3. QED BY <1>3, <2>1, <3>1, <3>2
  <2>2. CASE i \notin 1..N
    <3>1. i = N + 1 /\ Held + 1 \in 1..Held'
      BY <1>2, <1>3, <2>2
    <3>2. QED BY <1>3, <3>1
  <2>3. QED BY <2>1, <2>2
<1>17. QED BY <1>13, <1>15, <1>16 DEF Repeats

LEMMA NextRepeats ==
  ASSUME Line, Repeats, [Next]_vars
  PROVE  Repeats'
<1>1. CASE UNCHANGED <<fingerprints, seen>>
  BY <1>1, RepeatsStay
<1>2. CASE Take
  <2>1. PICK first \in Msgs, q \in Seq(Msgs) :
           /\ Takes(first, q) /\ first = script[Held + 1]
           /\ Held + 1 \in 1..Len(script) /\ Held' >= Held + 1 /\ Done = Held
    BY <1>2, TakeLine
  <2>2. QED BY <1>1, <2>1, TakesEffects, ReplyStep
<1>3. UNCHANGED <<fingerprints, seen>> \/ Take
  BY DEF Next, Publish, SendSucceeds, SendFails, Retry, PageStep, Request, EnableAnew,
         Finish, StopAll
<1>4. QED BY <1>1, <1>2, <1>3

LEMMA InitRepeats ==
  ASSUME Init
  PROVE  Repeats
<1>1. fingerprints = <<>> /\ seen = <<>> /\ Len(fingerprints) = 0 /\ Len(seen) = 0
  BY DEF Init
<1>2. <<>> \in Seq(Entries)
  OBVIOUS
<1>3. Backed
  BY <1>1, <1>2 DEF Backed, OneEach
<1>4. Founded /\ SeenBefore
  BY <1>1 DEF Founded, SeenBefore
<1>5. QED BY <1>3, <1>4 DEF Repeats

\* A reply is suppressed only when the last one dispatched to its origin said the
\* same, for every size of the map and every order of replies.
THEOREM OnlyRepeatsSuppressed == Spec => []SuppressedRepeats
<1>1. Init => Repeats
  BY InitRepeats
<1>2. Line /\ Repeats /\ [Next]_vars => Repeats'
  BY NextRepeats
<1>3. Line /\ Repeats => SuppressedRepeats
  BY FoundedIs DEF Line, Shape, Repeats
<1>4. QED BY <1>1, <1>2, <1>3, LineInvariant, PTL DEF Spec
==============================================================================
