----------------------- MODULE ChannelDeliveryProofs -----------------------
(***************************************************************************)
(* What becomes of the values a Channel is given, for every capacity, any  *)
(* set of callers and any number of values: the channel implements         *)
(* ChannelFifo, no value is lost or received twice, and a receive() fails  *)
(* only on a drained channel.  Built on ChannelInv of ChannelProofs.       *)
(***************************************************************************)
EXTENDS ChannelProofs

USE CapacityAssumption, BoundsAssumption, FreshConstants, StatsFlag

BufferOf(b, h, n) == [i \in 1..n |-> b[(h + (i - 1)) % Capacity]]
RingHolds(q, b, h, n) ==
  /\ q \in Seq(Values) /\ Len(q) = n
  /\ \A i \in 1..n : q[i] = b[Wrap(h + (i - 1))]
----------------------------------------------------------------------------
(* The ring as a sequence *)

RingSlots == [0..Capacity - 1 -> Values \cup {NoValue}]
Pushed(b, h, t, n, v, d, m) ==
  /\ b \in RingSlots /\ v \in Values /\ RingAt(b, h, t, n) /\ n < Capacity
  /\ d = [b EXCEPT ![t] = v] /\ m = n + 1
Refilled(b, h, t, v, d) == d = [b EXCEPT ![h] = NoValue, ![t] = v]

(* What a ring holds, oldest first, without the remainder. *)
LEMMA BufferTyped ==
  ASSUME NEW b \in [0..Capacity - 1 -> Values \cup {NoValue}],
         NEW h, NEW t, NEW n, Capacity > 0, RingAt(b, h, t, n)
  PROVE  RingHolds(BufferOf(b, h, n), b, h, n)
<1>1. h \in 0..Capacity - 1 /\ n \in 0..Capacity /\ Capacity \in Nat \ {0}
  BY DEF RingAt
<1>2. ASSUME NEW i \in 1..n
      PROVE  /\ (h + (i - 1)) % Capacity = Wrap(h + (i - 1))
             /\ b[Wrap(h + (i - 1))] \in Values
  <2>1. h + (i - 1) \in Nat /\ h + (i - 1) < 2 * Capacity
    BY <1>1
  <2>2. (h + (i - 1)) % Capacity = Wrap(h + (i - 1))
    BY <1>1, <2>1, WrapLemma DEF Wrap
  <2>3. /\ Wrap(h + (i - 1)) \in 0..Capacity - 1
        /\ Offset(h, Wrap(h + (i - 1))) < n
    BY <1>1 DEF Wrap, Offset
  <2>4. b[Wrap(h + (i - 1))] # NoValue
    BY <2>3 DEF RingAt
  <2> QED BY <2>2, <2>3, <2>4
<1>3. BufferOf(b, h, n) = [i \in 1..n |-> b[Wrap(h + (i - 1))]]
  BY <1>2 DEF BufferOf
<1>4. n \in Nat
  BY <1>1
<1> QED BY <1>2, <1>3, <1>4 DEF RingHolds

(* A push appends (Push). *)
LEMMA BufferPush ==
  ASSUME NEW b, NEW h, NEW t, NEW n, NEW v, NEW d, NEW m,
         Pushed(b, h, t, n, v, d, m)
  PROVE  BufferOf(d, h, m) = Append(BufferOf(b, h, n), v)
<1>0. /\ b \in [0..Capacity - 1 -> Values \cup {NoValue}] /\ v \in Values
      /\ RingAt(b, h, t, n) /\ n < Capacity
      /\ d = [b EXCEPT ![t] = v] /\ m = n + 1
  BY DEF Pushed, RingSlots
<1> DEFINE c == [b EXCEPT ![t] = v]
           p == BufferOf(b, h, n)
           q == BufferOf(c, h, n + 1)
<1>1. /\ h \in 0..Capacity - 1 /\ n \in 0..Capacity /\ t = Wrap(h + n)
      /\ Capacity \in Nat \ {0} /\ Capacity > 0 /\ n < Capacity
  BY <1>0 DEF RingAt
<1>2. /\ t \in 0..Capacity - 1 /\ c \in [0..Capacity - 1 -> Values \cup {NoValue}]
      /\ RingAt(c, h, (t + 1) % Capacity, n + 1)
  BY <1>0, <1>1, RingPush
<1>3. /\ c[t] = v /\ \A j \in 0..Capacity - 1 : j # t => c[j] = b[j]
  BY <1>0, <1>2
<1> HIDE DEF c
<1>4. RingHolds(p, b, h, n)
  BY <1>0, <1>1, BufferTyped
<1>5. RingHolds(q, c, h, n + 1)
  BY <1>1, <1>2, BufferTyped
<1> HIDE DEF p, q
<1> USE DEF RingHolds
<1>6. ASSUME NEW i \in 1..n PROVE q[i] = p[i]
  <2>1. Wrap(h + (i - 1)) \in 0..Capacity - 1 /\ Wrap(h + (i - 1)) # t
    BY <1>1 DEF Wrap
  <2>2. i \in 1..n + 1
    BY <1>1
  <2> QED BY <1>4, <1>5, <1>3, <2>1, <2>2
<1>7. q[n + 1] = v
  <2>1. Wrap(h + ((n + 1) - 1)) = t /\ n + 1 \in 1..n + 1
    BY <1>1
  <2> QED BY <1>5, <1>3, <2>1
<1>8. /\ Append(p, v) \in Seq(Values) /\ Len(Append(p, v)) = n + 1
      /\ \A i \in 1..n : Append(p, v)[i] = p[i]
      /\ Append(p, v)[n + 1] = v
  BY <1>4, <1>0, AppendProperties
<1>9. \A i \in 1..n + 1 : q[i] = Append(p, v)[i]
  BY <1>1, <1>6, <1>7, <1>8
<1>10. q = Append(p, v)
  BY <1>5, <1>8, <1>9, SeqEqual
<1> QED BY <1>0, <1>10 DEF c, p, q

(* A pop drops the first value (TakeBuffered, nobody refills). *)
LEMMA BufferPop ==
  ASSUME NEW b \in [0..Capacity - 1 -> Values \cup {NoValue}],
         NEW h, NEW t, NEW n, RingAt(b, h, t, n), n # 0
  PROVE  /\ BufferOf(b, h, n) # <<>> /\ Head(BufferOf(b, h, n)) = b[h]
         /\ BufferOf([b EXCEPT ![h] = NoValue], (h + 1) % Capacity, n - 1)
              = Tail(BufferOf(b, h, n))
<1> DEFINE c == [b EXCEPT ![h] = NoValue]
           p == BufferOf(b, h, n)
           g == (h + 1) % Capacity
           q == BufferOf(c, g, n - 1)
<1>1. /\ h \in 0..Capacity - 1 /\ n \in 0..Capacity /\ Capacity > 0
      /\ Capacity \in Nat \ {0}
  BY DEF RingAt
<1>2. /\ c \in [0..Capacity - 1 -> Values \cup {NoValue}]
      /\ RingAt(c, g, t, n - 1)
  BY RingPop
<1>3. g = Wrap(h + 1)
  BY <1>1, NextIndex
<1>4. \A j \in 0..Capacity - 1 : j # h => c[j] = b[j]
  BY <1>1
<1> HIDE DEF c, g
<1>5. RingHolds(p, b, h, n)
  BY <1>1, BufferTyped
<1>6. RingHolds(q, c, g, n - 1)
  BY <1>1, <1>2, BufferTyped
<1> HIDE DEF p, q
<1> USE DEF RingHolds
<1>7. p # <<>> /\ Head(p) = p[1]
  BY <1>1, <1>5
<1>8. Head(p) = b[h]
  <2>1. Wrap(h + (1 - 1)) = h /\ 1 \in 1..n
    BY <1>1 DEF Wrap
  <2> QED BY <1>5, <1>7, <2>1
<1>9. ASSUME NEW i \in 1..n - 1 PROVE q[i] = p[i + 1]
  <2>1. /\ Wrap(g + (i - 1)) = Wrap(h + ((i + 1) - 1)) /\ i + 1 \in 1..n
        /\ Wrap(g + (i - 1)) \in 0..Capacity - 1 /\ Wrap(g + (i - 1)) # h
    BY <1>1, <1>3 DEF Wrap
  <2> QED BY <1>5, <1>6, <1>4, <2>1
<1>10. /\ Tail(p) \in Seq(Values) /\ Len(Tail(p)) = n - 1
       /\ \A i \in 1..n - 1 : Tail(p)[i] = p[i + 1]
  BY <1>5, <1>7, HeadTailProperties
<1>11. q = Tail(p)
  BY <1>6, <1>9, <1>10, SeqEqual
<1> QED BY <1>7, <1>8, <1>11 DEF c, p, q, g

(* A pop that a parked sender refills drops the first value and appends    *)
(* the sender's (TakeBuffered).                                            *)
LEMMA BufferRefill ==
  ASSUME NEW b \in RingSlots, NEW v \in Values, NEW d, NEW h, NEW t, NEW n,
         RingAt(b, h, t, n), n # 0, Refilled(b, h, t, v, d)
  PROVE  BufferOf(d, (h + 1) % Capacity, n) = Append(Tail(BufferOf(b, h, n)), v)
<1> DEFINE c == [b EXCEPT ![h] = NoValue]
           g == (h + 1) % Capacity
           m == n - 1
<1> USE DEF RingSlots
<1>1. /\ c \in [0..Capacity - 1 -> Values \cup {NoValue}]
      /\ RingAt(c, g, t, m)
  BY RingPop
<1>2. BufferOf(c, g, m) = Tail(BufferOf(b, h, n))
  BY BufferPop
<1>3. Pushed(c, g, t, m, v, d, n)
  <2>1. m < Capacity /\ n = m + 1
    BY DEF RingAt
  <2> QED BY <1>1, <2>1 DEF Refilled, Pushed
<1> HIDE DEF c, g, m
<1>5. BufferOf(d, g, n) = Append(BufferOf(c, g, m), v)
  BY <1>3, BufferPush
<1> QED BY <1>2, <1>5 DEF g
----------------------------------------------------------------------------
(* Two queues, one behind the other *)

(* Taking from the first one, moving from the second to the first, and     *)
(* adding to the second (buffer and parked senders as one queue).          *)
LEMMA BehindLemma ==
  ASSUME NEW S, NEW p \in Seq(S), NEW q \in Seq(S)
  PROVE  /\ p # <<>> => /\ p \o q # <<>> /\ Head(p \o q) = Head(p)
                        /\ Tail(p \o q) = Tail(p) \o q
         /\ q # <<>> => Append(p, Head(q)) \o Tail(q) = p \o q
         /\ \A v \in S : p \o Append(q, v) = Append(p \o q, v)
<1>1. /\ p \o q \in Seq(S) /\ Len(p \o q) = Len(p) + Len(q)
      /\ \A i \in 1..Len(p) + Len(q) :
           (p \o q)[i] = IF i <= Len(p) THEN p[i] ELSE q[i - Len(p)]
      /\ Len(p) \in Nat /\ Len(q) \in Nat
  BY ConcatProperties, LenProperties
<1>2. ASSUME p # <<>>
      PROVE  /\ p \o q # <<>> /\ Head(p \o q) = Head(p)
             /\ Tail(p \o q) = Tail(p) \o q
  <2> DEFINE r == p \o q
             t == Tail(p)
             u == t \o q
  <2>1. /\ t \in Seq(S) /\ Len(t) = Len(p) - 1 /\ Len(p) \in Nat \ {0}
        /\ \A i \in 1..Len(t) : t[i] = p[i + 1]
        /\ Head(p) = p[1]
    BY <1>2, HeadTailProperties, EmptySeq
  <2>2. r # <<>> /\ Len(r) \in Nat \ {0} /\ r[1] = p[1] /\ Head(r) = r[1]
    BY <1>1, <2>1
  <2>3. /\ Tail(r) \in Seq(S) /\ Len(Tail(r)) = Len(r) - 1
        /\ \A i \in 1..Len(r) - 1 : Tail(r)[i] = r[i + 1]
    BY <1>1, <2>2, HeadTailProperties
  <2>4. /\ u \in Seq(S) /\ Len(u) = Len(t) + Len(q)
        /\ \A i \in 1..Len(t) + Len(q) :
             u[i] = IF i <= Len(t) THEN t[i] ELSE q[i - Len(t)]
    BY <2>1, ConcatProperties
  <2> HIDE DEF r, t, u
  <2>5. ASSUME NEW i \in 1..Len(r) - 1 PROVE Tail(r)[i] = u[i]
    <3>1. /\ i + 1 \in 1..Len(p) + Len(q) /\ i \in 1..Len(t) + Len(q)
          /\ (i + 1) - Len(p) = i - Len(t)
          /\ i <= Len(t) <=> i + 1 <= Len(p)
      BY <1>1, <2>1, <2>2 DEF r
    <3>2. Tail(r)[i] = IF i + 1 <= Len(p) THEN p[i + 1] ELSE q[(i + 1) - Len(p)]
      BY <1>1, <2>3, <3>1 DEF r
    <3>3. u[i] = IF i <= Len(t) THEN t[i] ELSE q[i - Len(t)]
      BY <2>4, <3>1
    <3>4. i <= Len(t) => t[i] = p[i + 1]
      <4>1. i <= Len(t) => i \in 1..Len(t)
        BY <2>1
      <4>2. \A k \in 1..Len(t) : t[k] = p[k + 1]
        BY <2>1
      <4> QED BY <4>1, <4>2
    <3> QED BY <3>1, <3>2, <3>3, <3>4
  <2>6. Tail(r) = u
    <3>1. Len(u) = Len(r) - 1
      BY <1>1, <2>1, <2>4 DEF r
    <3>2. Tail(r) \in Seq(S) /\ Len(Tail(r)) = Len(r) - 1
      BY <2>3
    <3>3. u \in Seq(S)
      BY <2>4
    <3>4. \A i \in 1..Len(Tail(r)) : Tail(r)[i] = u[i]
      BY <2>5, <3>2
    <3> QED BY <3>1, <3>2, <3>3, <3>4, SeqEqual
  <2> QED BY <2>1, <2>2, <2>6 DEF r, t, u
<1>3. ASSUME q # <<>> PROVE Append(p, Head(q)) \o Tail(q) = p \o q
  <2> DEFINE a == Append(p, Head(q))
             t == Tail(q)
             u == a \o t
  <2>1. /\ t \in Seq(S) /\ Len(t) = Len(q) - 1 /\ Len(q) \in Nat \ {0}
        /\ \A i \in 1..Len(t) : t[i] = q[i + 1]
        /\ Head(q) = q[1] /\ Head(q) \in S
    BY <1>3, HeadTailProperties, EmptySeq
  <2>2. /\ a \in Seq(S) /\ Len(a) = Len(p) + 1
        /\ \A i \in 1..Len(p) : a[i] = p[i]
        /\ a[Len(p) + 1] = q[1]
    BY <2>1, AppendProperties
  <2>3. /\ u \in Seq(S) /\ Len(u) = Len(a) + Len(t)
        /\ \A i \in 1..Len(a) + Len(t) :
             u[i] = IF i <= Len(a) THEN a[i] ELSE t[i - Len(a)]
    BY <2>1, <2>2, ConcatProperties
  <2> HIDE DEF a, t, u
  <2>4. ASSUME NEW i \in 1..Len(p) + Len(q) PROVE u[i] = (p \o q)[i]
    <3>1. i \in 1..Len(a) + Len(t)
      BY <1>1, <2>1, <2>2
    <3>2. CASE i <= Len(p)
      BY <1>1, <2>2, <2>3, <3>1, <3>2
    <3>3. CASE i = Len(p) + 1
      BY <1>1, <2>1, <2>2, <2>3, <3>1, <3>3
    <3>4. CASE i > Len(p) + 1
      <4>1. i - Len(a) \in 1..Len(t) /\ (i - Len(a)) + 1 = i - Len(p)
        BY <1>1, <2>1, <2>2, <3>4
      <4>2. t[i - Len(a)] = q[i - Len(p)]
        BY <2>1, <4>1
      <4> QED BY <1>1, <2>2, <2>3, <3>1, <3>4, <4>2
    <3> QED BY <1>1, <3>2, <3>3, <3>4
  <2>5. Len(u) = Len(p \o q)
    BY <1>1, <2>1, <2>2, <2>3
  <2>6. u = p \o q
    BY <1>1, <2>3, <2>4, <2>5, SeqEqual
  <2> QED BY <2>6 DEF a, t, u
<1>4. ASSUME NEW v \in S PROVE p \o Append(q, v) = Append(p \o q, v)
  <2> DEFINE s == <<v>>
  <2>1. s \in Seq(S)
    OBVIOUS
  <2>2. Append(q, v) = q \o s /\ Append(p \o q, v) = (p \o q) \o s
    BY <1>1, AppendIsConcat
  <2> HIDE DEF s
  <2>3. (p \o q) \o s = p \o (q \o s)
    BY <2>1, ConcatAssociative
  <2> QED BY <2>2, <2>3
<1> QED BY <1>2, <1>3, <1>4
----------------------------------------------------------------------------
(* The values of the parked senders as a sequence *)

ParkedOf(q, o) == [i \in 1..Len(q) |-> Head(o[q[i]])]

(* Each parked sender holds one value that is next to go. *)
LEMMA ParkedTyped ==
  ASSUME NEW q \in Seq(Callers), NEW o \in [Callers -> Seq(Values)],
         \A d \in Range(q) : o[d] # <<>>
  PROVE  /\ ParkedOf(q, o) \in Seq(Values) /\ Len(ParkedOf(q, o)) = Len(q)
         /\ \A i \in 1..Len(q) : ParkedOf(q, o)[i] = Head(o[q[i]])
<1>1. Len(q) \in Nat /\ DOMAIN q = 1..Len(q)
  BY LenProperties
<1>2. ASSUME NEW i \in 1..Len(q) PROVE Head(o[q[i]]) \in Values
  <2>1. q[i] \in Callers /\ q[i] \in Range(q)
    BY <1>1, ElementOfSeq DEF Range
  <2> QED BY <2>1, PopLemma
<1> QED BY <1>1, <1>2 DEF ParkedOf

(* One more sender parks (SenderAwaiter::await_suspend). *)
LEMMA ParkedAppend ==
  ASSUME NEW q \in Seq(Callers), NEW o \in [Callers -> Seq(Values)],
         \A d \in Range(q) : o[d] # <<>>,
         NEW c \in Callers, o[c] # <<>>
  PROVE  ParkedOf(Append(q, c), o) = Append(ParkedOf(q, o), Head(o[c]))
<1> DEFINE r == ParkedOf(q, o)
<1>0. /\ r \in Seq(Values) /\ Len(r) = Len(q) /\ Len(q) \in Nat
      /\ \A i \in 1..Len(q) : r[i] = Head(o[q[i]])
      /\ DOMAIN q = 1..Len(q)
  BY ParkedTyped, LenProperties
<1> DEFINE a == Append(q, c)
           s == ParkedOf(a, o)
           v == Head(o[c])
<1>1. /\ a \in Seq(Callers) /\ Len(a) = Len(q) + 1 /\ a[Len(q) + 1] = c
      /\ \A i \in 1..Len(q) : a[i] = q[i]
      /\ Range(a) = Range(q) \cup {c}
  BY AppendProperties, PushLemma
<1>2. v \in Values
  BY PopLemma
<1> HIDE DEF a, r, v
<1>3. /\ s \in Seq(Values) /\ Len(s) = Len(a)
      /\ \A i \in 1..Len(a) : s[i] = Head(o[a[i]])
  <2>1. a \in Seq(Callers)
    BY <1>1
  <2>2. \A d \in Range(a) : o[d] # <<>>
    BY <1>1
  <2> QED BY <2>1, <2>2, ParkedTyped
<1> HIDE DEF s
<1>4. /\ Append(r, v) \in Seq(Values) /\ Len(Append(r, v)) = Len(q) + 1
      /\ \A i \in 1..Len(q) : Append(r, v)[i] = r[i]
      /\ Append(r, v)[Len(q) + 1] = v
  <2>1. r \in Seq(Values) /\ Len(r) = Len(q)
    BY <1>0
  <2> QED BY <1>2, <2>1, AppendProperties
<1>5. ASSUME NEW i \in 1..Len(q) + 1 PROVE s[i] = Append(r, v)[i]
  <2>1. CASE i \in 1..Len(q)
    <3>1. i \in 1..Len(a) /\ a[i] = q[i]
      BY <1>0, <1>1, <2>1
    <3>2. s[i] = Head(o[q[i]])
      BY <1>3, <3>1
    <3>3. Append(r, v)[i] = Head(o[q[i]])
      BY <1>0, <1>4, <2>1
    <3> QED BY <3>2, <3>3
  <2>2. CASE i = Len(q) + 1
    BY <1>0, <1>1, <1>3, <1>4, <2>2 DEF v
  <2> QED BY <1>0, <2>1, <2>2
<1>6. s = Append(r, v)
  BY <1>1, <1>3, <1>4, <1>5, SeqEqual
<1> QED BY <1>6 DEF a, r, s, v

(* The first parked sender is popped (the receiving calls). *)
LEMMA ParkedPop ==
  ASSUME NEW q \in Seq(Callers), NEW o \in [Callers -> Seq(Values)],
         \A d \in Range(q) : o[d] # <<>>, q # <<>>
  PROVE  /\ ParkedOf(q, o) # <<>>
         /\ Head(ParkedOf(q, o)) = Head(o[Head(q)])
         /\ Tail(ParkedOf(q, o)) = ParkedOf(Tail(q), o)
<1> DEFINE r == ParkedOf(q, o)
<1>0. /\ r \in Seq(Values) /\ Len(r) = Len(q) /\ Len(q) \in Nat
      /\ \A i \in 1..Len(q) : r[i] = Head(o[q[i]])
      /\ DOMAIN q = 1..Len(q)
  BY ParkedTyped, LenProperties
<1> DEFINE t == Tail(q)
           s == ParkedOf(t, o)
<1>1. /\ t \in Seq(Callers) /\ Len(t) = Len(q) - 1 /\ Len(q) \in Nat \ {0}
      /\ \A i \in 1..Len(t) : t[i] = q[i + 1]
      /\ Head(q) = q[1] /\ Range(t) \subseteq Range(q)
  BY HeadTailProperties, EmptySeq, PopLemma
<1> HIDE DEF t, r
<1>2. /\ s \in Seq(Values) /\ Len(s) = Len(t)
      /\ \A i \in 1..Len(t) : s[i] = Head(o[t[i]])
  <2>1. t \in Seq(Callers)
    BY <1>1
  <2>2. \A d \in Range(t) : o[d] # <<>>
    BY <1>1
  <2> QED BY <2>1, <2>2, ParkedTyped
<1> HIDE DEF s
<1>3. r # <<>> /\ Head(r) = r[1] /\ r[1] = Head(o[q[1]])
  BY <1>0, <1>1
<1>4. /\ Tail(r) \in Seq(Values) /\ Len(Tail(r)) = Len(q) - 1
      /\ \A i \in 1..Len(q) - 1 : Tail(r)[i] = r[i + 1]
  BY <1>0, <1>3, HeadTailProperties
<1>5. ASSUME NEW i \in 1..Len(q) - 1 PROVE Tail(r)[i] = s[i]
  <2>1. i + 1 \in 1..Len(q) /\ i \in 1..Len(t)
    BY <1>0, <1>1
  <2>2. Tail(r)[i] = Head(o[q[i + 1]])
    BY <1>0, <1>4, <2>1
  <2>3. s[i] = Head(o[q[i + 1]])
    BY <1>1, <1>2, <2>1
  <2> QED BY <2>2, <2>3
<1>6. Tail(r) = s
  <2>1. Len(Tail(r)) = Len(s) /\ \A i \in 1..Len(Tail(r)) : Tail(r)[i] = s[i]
    BY <1>1, <1>2, <1>4, <1>5
  <2> QED BY <1>2, <1>4, <2>1, SeqEqual
<1> QED BY <1>1, <1>3, <1>6 DEF r, s, t

(* Only the values of those who are parked count. *)
LEMMA ParkedSame ==
  ASSUME NEW q \in Seq(Callers), NEW o, NEW p,
         \A d \in Range(q) : p[d] = o[d]
  PROVE  ParkedOf(q, p) = ParkedOf(q, o)
<1>1. \A i \in 1..Len(q) : q[i] \in Range(q)
  BY LenProperties DEF Range
<1> QED BY <1>1 DEF ParkedOf
----------------------------------------------------------------------------
(* What is in the channel, under each helper *)

(* Two sequences of values one after the other. *)
LEMMA ConcatTyped ==
  ASSUME NEW S, NEW p \in Seq(S), NEW q \in Seq(S)
  PROVE  p \o q \in Seq(S) /\ Len(p \o q) = Len(p) + Len(q)
BY ConcatProperties

(* The channel's contents are values, the buffered ones first. *)
LEMMA ContentsTyped ==
  ASSUME RingInv, OwnInv, OfferInv
  PROVE  /\ Buffered \in Seq(Values) /\ Len(Buffered) = count_
         /\ ParkedValues \in Seq(Values)
         /\ Len(ParkedValues) = Len(sender_queue_)
         /\ Contents \in Seq(Values)
         /\ Len(Contents) = count_ + Len(sender_queue_)
         /\ count_ = 0 <=> Buffered = <<>>
         /\ sender_queue_ = <<>> <=> ParkedValues = <<>>
<1>1. Buffered \in Seq(Values) /\ Len(Buffered) = count_
  <2>1. CASE Capacity > 0
    <3>1. RingAt(buffer_, header_, tail_, count_)
      BY <2>1, RingOf
    <3>2. Buffered = BufferOf(buffer_, header_, count_)
      BY DEF Buffered, BufferOf, Slot
    <3> QED BY <2>1, <3>1, <3>2, BufferTyped DEF RingInv, RingHolds
  <2>2. CASE Capacity = 0
    <3>1. count_ = 0
      BY <2>2 DEF RingInv, RingConsistent
    <3> QED BY <3>1 DEF Buffered
  <2> QED BY <2>1, <2>2
<1>2. ParkedValues \in Seq(Values) /\ Len(ParkedValues) = Len(sender_queue_)
  <2>1. ParkedValues = ParkedOf(sender_queue_, offer)
    BY DEF ParkedValues, ParkedOf
  <2>2. \A d \in Range(sender_queue_) : offer[d] # <<>>
    BY RangeLemma DEF OwnInv, OfferInv
  <2> QED BY <2>1, <2>2, ParkedTyped DEF OwnInv, OfferInv
<1>3. Contents \in Seq(Values) /\ Len(Contents) = count_ + Len(sender_queue_)
  <2>1. Contents = Buffered \o ParkedValues
    BY DEF Contents
  <2>2. /\ Buffered \o ParkedValues \in Seq(Values)
        /\ Len(Buffered \o ParkedValues) = Len(Buffered) + Len(ParkedValues)
    BY <1>1, <1>2, ConcatTyped
  <2> QED BY <1>1, <1>2, <2>1, <2>2
<1>4. count_ = 0 <=> Buffered = <<>>
  BY <1>1, EmptySeq
<1>5. sender_queue_ = <<>> <=> ParkedValues = <<>>
  BY <1>2, EmptySeq DEF OwnInv
<1> QED BY <1>1, <1>2, <1>3, <1>4, <1>5

(* A step that leaves the ring and the offers of the parked senders alone. *)
LEMMA ContentsKept ==
  ASSUME OwnInv, OfferInv, UNCHANGED <<ring, sender_queue_>>,
         offer' \in [Callers -> Seq(Values)],
         \A d \in Range(sender_queue_) : offer'[d] = offer[d]
  PROVE  /\ Buffered' = Buffered /\ ParkedValues' = ParkedValues
         /\ Contents' = Contents
<1>1. Buffered' = Buffered
  BY DEF Buffered, Slot, ring
<1>2. /\ ParkedValues = ParkedOf(sender_queue_, offer)
      /\ ParkedValues' = ParkedOf(sender_queue_, offer')
  BY DEF ParkedValues, ParkedOf
<1>3. \A d \in Range(sender_queue_) : offer[d] # <<>>
  BY RangeLemma DEF OwnInv, OfferInv
<1>4. ParkedValues' = ParkedValues
  BY <1>2, <1>3, ParkedSame DEF OwnInv, OfferInv
<1> QED BY <1>1, <1>4 DEF Contents

(* Nobody is parked: the contents are the buffer. *)
LEMMA NoneParked ==
  /\ RingInv /\ OwnInv /\ OfferInv /\ sender_queue_ = <<>>
       => Contents = Buffered
  /\ sender_queue_' = <<>> /\ Buffered' \in Seq(Values)
       => Contents' = Buffered'
<1>1. ASSUME RingInv, OwnInv, OfferInv, sender_queue_ = <<>>
      PROVE  Contents = Buffered
  <2>1. Buffered \in Seq(Values) /\ ParkedValues = <<>>
    BY <1>1, ContentsTyped
  <2> QED BY <2>1, ConcatEmptySeq DEF Contents
<1>2. ASSUME sender_queue_' = <<>>, Buffered' \in Seq(Values)
      PROVE  Contents' = Buffered'
  <2>1. ParkedValues' = <<>>
    <3>1. Len(sender_queue_') = 0
      BY <1>2
    <3> QED BY <3>1 DEF ParkedValues
  <2>2. Contents' = Buffered' \o ParkedValues'
    BY DEF Contents
  <2> QED BY <1>2, <2>1, <2>2, ConcatEmptySeq
<1> QED BY <1>1, <1>2

(* A push is an Offer: nobody is parked while there is room. *)
LEMMA PushContents ==
  ASSUME ChannelInv, NEW v \in Values, Push(v)
  PROVE  /\ Buffered' = Append(Buffered, v) /\ Contents' = Append(Contents, v)
         /\ taken' = taken /\ got' = got /\ count_' = count_ + 1
         /\ UNCHANGED <<sender_queue_, receiver_queue_>>
<1> USE DEF ChannelInv
<1>1. count_ \in Nat /\ count_ < Capacity /\ Capacity > 0
  BY DEF RingInv, RingConsistent, Push, isFull
<1>2. RingAt(buffer_, header_, tail_, count_)
  BY <1>1, RingOf
<1>3. /\ buffer_' = [buffer_ EXCEPT ![tail_] = v] /\ count_' = count_ + 1
      /\ header_' = header_ /\ taken' = taken /\ got' = got
      /\ sender_queue_' = sender_queue_ /\ receiver_queue_' = receiver_queue_
  BY DEF Push, queues
<1>4. /\ Buffered = BufferOf(buffer_, header_, count_)
      /\ Buffered' = BufferOf(buffer_', header_', count_')
  BY DEF Buffered, BufferOf, Slot
<1>5. Buffered' = Append(Buffered, v)
  <2>1. Pushed(buffer_, header_, tail_, count_, v, buffer_', count_')
    BY <1>1, <1>2, <1>3 DEF RingInv, RingSlots, Pushed
  <2>2. BufferOf(buffer_', header_, count_')
          = Append(BufferOf(buffer_, header_, count_), v)
    BY <2>1, BufferPush
  <2> QED BY <1>3, <1>4, <2>2
<1>6. sender_queue_ = <<>>
  BY DEF Push, NoMissedMatch
<1>7. Buffered' \in Seq(Values)
  BY <1>5, ContentsTyped, AppendProperties
<1> QED BY <1>3, <1>5, <1>6, <1>7, NoneParked

(* A hand-off is a Pass: a receiver is parked only on an empty channel. *)
LEMMA HandOffContents ==
  ASSUME ChannelInv, NEW c, NEW v \in Values, HandOff(c, v)
  PROVE  /\ Buffered = <<>> /\ Buffered' = <<>>
         /\ Contents = <<>> /\ Contents' = <<>>
         /\ taken' = Append(taken, v) /\ count_' = count_
         /\ sender_queue_' = sender_queue_
<1> USE DEF ChannelInv
<1>1. /\ sender_queue_ = <<>> /\ isEmpty
      /\ sender_queue_' = sender_queue_ /\ taken' = Append(taken, v)
      /\ UNCHANGED ring
  BY DEF HandOff, NoMissedMatch
<1>2. Buffered = <<>> /\ Buffered' = Buffered
  BY <1>1, ContentsTyped DEF isEmpty, Buffered, Slot, ring
<1>3. Buffered' \in Seq(Values)
  BY <1>2
<1> QED BY <1>1, <1>2, <1>3, NoneParked DEF ring

(* A sender that parks offers its value behind all others. *)
LEMMA ParkContents ==
  ASSUME ChannelInv, NEW c \in Callers, pc[c] = "send",
         sender_queue_' = Append(sender_queue_, c), UNCHANGED <<ring, offer>>
  PROVE  /\ Buffered' = Buffered /\ Contents' = Append(Contents, Head(offer[c]))
         /\ Head(offer[c]) \in Values
<1> USE DEF ChannelInv
<1>1. Buffered' = Buffered
  BY DEF Buffered, Slot, ring
<1>2. offer[c] # <<>> /\ Head(offer[c]) \in Values
  BY PopLemma DEF OfferInv
<1>3. /\ ParkedValues = ParkedOf(sender_queue_, offer)
      /\ ParkedValues' = ParkedOf(sender_queue_', offer)
  BY DEF ParkedValues, ParkedOf
<1>4. \A d \in Range(sender_queue_) : offer[d] # <<>>
  BY RangeLemma DEF OwnInv, OfferInv
<1>5. ParkedValues' = Append(ParkedValues, Head(offer[c]))
  <2>1. sender_queue_ \in Seq(Callers) /\ offer \in [Callers -> Seq(Values)]
    BY DEF OwnInv, OfferInv
  <2>2. ParkedOf(Append(sender_queue_, c), offer)
          = Append(ParkedOf(sender_queue_, offer), Head(offer[c]))
    BY <1>2, <1>4, <2>1, ParkedAppend
  <2> QED BY <1>3, <2>2
<1>6. Buffered \in Seq(Values) /\ ParkedValues \in Seq(Values)
  BY ContentsTyped
<1> QED BY <1>1, <1>2, <1>5, <1>6, BehindLemma DEF Contents

(* What a receiving call does with the first parked sender s. *)
PopsSender(s) ==
  /\ sender_queue_ # <<>> /\ s = Head(sender_queue_)
  /\ sender_queue_' = Tail(sender_queue_)
  /\ offer' = [offer EXCEPT ![s] = <<>>]

(* The rest of the parked senders keep their values. *)
LEMMA PopParked ==
  ASSUME ChannelInv, NEW s, PopsSender(s)
  PROVE  /\ s \in Callers /\ s \in Range(sender_queue_)
         /\ Head(offer[s]) \in Values
         /\ ParkedValues # <<>> /\ Head(ParkedValues) = Head(offer[s])
         /\ ParkedValues' = Tail(ParkedValues)
<1> USE DEF ChannelInv, PopsSender
<1>1. /\ s \in Callers /\ s \in Range(sender_queue_)
      /\ Tail(sender_queue_) \in Seq(Callers)
      /\ Range(sender_queue_) = {s} \cup Range(Tail(sender_queue_))
      /\ s \notin Range(Tail(sender_queue_))
  BY PopLemma DEF OwnInv, HandleOwnedOnce
<1>2. \A d \in Range(sender_queue_) : offer[d] # <<>>
  BY RangeLemma DEF OwnInv, OfferInv
<1>3. Head(offer[s]) \in Values
  BY <1>1, <1>2, PopLemma DEF OfferInv
<1>4. /\ ParkedValues = ParkedOf(sender_queue_, offer)
      /\ ParkedValues' = ParkedOf(Tail(sender_queue_), offer')
  BY DEF ParkedValues, ParkedOf
<1>5. /\ ParkedValues # <<>> /\ Head(ParkedValues) = Head(offer[s])
      /\ Tail(ParkedValues) = ParkedOf(Tail(sender_queue_), offer)
  BY <1>2, <1>4, ParkedPop DEF OwnInv, OfferInv
<1>6. /\ offer' \in [Callers -> Seq(Values)]
      /\ \A d \in Range(Tail(sender_queue_)) :
           d \in Callers /\ offer'[d] = offer[d] /\ offer[d] # <<>>
  BY <1>1, <1>2, EmptyQueueLemma, RangeLemma DEF OfferInv
<1>7. ParkedOf(Tail(sender_queue_), offer') = ParkedOf(Tail(sender_queue_), offer)
  BY <1>1, <1>6, ParkedSame
<1> QED BY <1>1, <1>3, <1>4, <1>5, <1>7

(* The three ways c gets value v: off the buffer, off a buffer that the    *)
(* first parked sender refills, or from that sender.                       *)
TakesBuffered(v) ==
  /\ Buffered # <<>> /\ v = Head(Buffered) /\ Buffered' = Tail(Buffered)
  /\ sender_queue_ = <<>> /\ UNCHANGED <<sender_queue_, offer>>
TakesRefilled(v) ==
  /\ Buffered # <<>> /\ v = Head(Buffered)
  /\ \E s : PopsSender(s) /\ Buffered' = Append(Tail(Buffered), Head(offer[s]))
TakesFrom(v) ==
  /\ Buffered = <<>> /\ Buffered' = <<>>
  /\ \E s : PopsSender(s) /\ v = Head(offer[s])
Takes(c, v) ==
  /\ taken' = Append(taken, v) /\ got' = [got EXCEPT ![c] = Append(@, v)]
  /\ receiver_queue_' = receiver_queue_
  /\ TakesBuffered(v) \/ TakesRefilled(v) \/ TakesFrom(v)

(* However c gets it, the value is the oldest one (TakeBuffered and        *)
(* TakeDirect, in every receiving call).                                   *)
LEMMA TakeContents ==
  ASSUME ChannelInv, NEW c, TakeBuffered(c) \/ TakeDirect(c)
  PROVE  /\ Contents # <<>> /\ Head(Contents) \in Values
         /\ Contents' = Tail(Contents) /\ Takes(c, Head(Contents))
<1> USE DEF ChannelInv
<1>1. /\ Buffered \in Seq(Values) /\ ParkedValues \in Seq(Values)
      /\ Contents = Buffered \o ParkedValues
      /\ Contents' = Buffered' \o ParkedValues'
      /\ count_ = 0 <=> Buffered = <<>>
  BY ContentsTyped DEF Contents
<1>2. Contents # <<>> => Head(Contents) \in Values
  BY ContentsTyped, PopLemma
<1>3. CASE TakeBuffered(c)
  <2>1. count_ \in Nat /\ count_ # 0 /\ Capacity > 0
    BY <1>3 DEF RingInv, RingConsistent, TakeBuffered, isEmpty
  <2>2. /\ RingAt(buffer_, header_, tail_, count_)
        /\ buffer_ \in [0..Capacity - 1 -> Values \cup {NoValue}]
    BY <2>1, RingOf DEF RingInv
  <2>3. /\ Buffered = BufferOf(buffer_, header_, count_)
        /\ Buffered' = BufferOf(buffer_', header_', count_')
    BY DEF Buffered, BufferOf, Slot
  <2>4. Buffered # <<>> /\ Head(Buffered) = buffer_[header_]
    BY <2>1, <2>2, <2>3, BufferPop
  <2>5. /\ Contents # <<>> /\ Head(Contents) = buffer_[header_]
        /\ Tail(Contents) = Tail(Buffered) \o ParkedValues
    BY <1>1, <2>4, BehindLemma
  <2>6. /\ taken' = Append(taken, Head(Contents))
        /\ got' = [got EXCEPT ![c] = Append(@, Head(Contents))]
        /\ receiver_queue_' = receiver_queue_
        /\ header_' = (header_ + 1) % Capacity
    BY <1>3, <2>5 DEF TakeBuffered
  <2>7. CASE sender_queue_ = <<>>
    <3>1. /\ buffer_' = [buffer_ EXCEPT ![header_] = NoValue]
          /\ count_' = count_ - 1 /\ UNCHANGED <<sender_queue_, offer>>
      BY <1>3, <2>7 DEF TakeBuffered
    <3>2. BufferOf([buffer_ EXCEPT ![header_] = NoValue],
                   (header_ + 1) % Capacity, count_ - 1) = Tail(Buffered)
      BY <2>1, <2>2, <2>3, BufferPop
    <3>3. Buffered' = Tail(Buffered)
      BY <2>3, <2>6, <3>1, <3>2
    <3>4. ParkedValues' = ParkedValues
      BY <3>1 DEF ParkedValues
    <3>5. Takes(c, Head(Contents))
      BY <2>4, <2>5, <2>6, <2>7, <3>1, <3>3 DEF Takes, TakesBuffered
    <3> QED BY <1>1, <1>2, <2>5, <3>3, <3>4, <3>5
  <2>8. CASE sender_queue_ # <<>>
    <3> DEFINE s == Head(sender_queue_)
    <3>1. /\ buffer_' = [buffer_ EXCEPT ![header_] = NoValue,
                                        ![tail_] = Head(offer[s])]
          /\ count_' = count_ /\ PopsSender(s)
      BY <1>3, <2>8 DEF TakeBuffered, PopsSender
    <3> HIDE DEF s
    <3>2. /\ Head(offer[s]) \in Values /\ ParkedValues # <<>>
          /\ Head(ParkedValues) = Head(offer[s])
          /\ ParkedValues' = Tail(ParkedValues)
      BY <3>1, PopParked
    <3>3. Refilled(buffer_, header_, tail_, Head(offer[s]), buffer_')
          /\ buffer_ \in RingSlots
      BY <2>2, <3>1 DEF Refilled, RingSlots
    <3>4. BufferOf(buffer_', (header_ + 1) % Capacity, count_)
            = Append(Tail(BufferOf(buffer_, header_, count_)), Head(offer[s]))
      BY <2>1, <2>2, <3>2, <3>3, BufferRefill
    <3>5. Buffered' = Append(Tail(Buffered), Head(offer[s]))
      BY <2>3, <2>6, <3>1, <3>4
    <3>6. Tail(Buffered) \in Seq(Values)
      BY <1>1, <2>4, PopLemma
    <3>7. Contents' = Tail(Contents)
      <4>1. Append(Tail(Buffered), Head(ParkedValues)) \o Tail(ParkedValues)
              = Tail(Buffered) \o ParkedValues
        BY <1>1, <3>2, <3>6, BehindLemma
      <4> QED BY <1>1, <2>5, <3>2, <3>5, <4>1
    <3>8. Takes(c, Head(Contents))
      BY <2>4, <2>5, <2>6, <3>1, <3>5 DEF Takes, TakesRefilled
    <3> QED BY <1>2, <2>5, <3>7, <3>8
  <2> QED BY <2>7, <2>8
<1>4. CASE TakeDirect(c)
  <2> DEFINE s == Head(sender_queue_)
  <2>1. /\ isEmpty /\ PopsSender(s) /\ UNCHANGED ring
        /\ taken' = Append(taken, Head(offer[s]))
        /\ got' = [got EXCEPT ![c] = Append(@, Head(offer[s]))]
        /\ receiver_queue_' = receiver_queue_
    BY <1>4 DEF TakeDirect, PopsSender
  <2> HIDE DEF s
  <2>2. /\ ParkedValues # <<>> /\ Head(ParkedValues) = Head(offer[s])
        /\ ParkedValues' = Tail(ParkedValues)
    BY <2>1, PopParked
  <2>3. Buffered = <<>> /\ Buffered' = <<>>
    BY <1>1, <2>1 DEF isEmpty, Buffered, Slot, ring
  <2>4. Contents = ParkedValues
    BY <1>1, <2>3, ConcatEmptySeq
  <2>5. Tail(ParkedValues) \in Seq(Values)
    BY <1>1, <2>2, PopLemma
  <2>6. Contents' = Tail(ParkedValues)
    BY <1>1, <2>2, <2>3, <2>5, ConcatEmptySeq
  <2>7. Takes(c, Head(Contents))
    BY <2>1, <2>2, <2>3, <2>4 DEF Takes, TakesFrom
  <2> QED BY <1>2, <2>2, <2>4, <2>6, <2>7
<1> QED BY <1>3, <1>4

(* close() withdraws the values of the parked senders, who are parked only *)
(* behind a full buffer, and no other.                                     *)
LEMMA CloseContents ==
  ASSUME ChannelInv, NEW c, Close(c)
  PROVE  /\ Buffered' = Buffered /\ Contents' = Buffered
         /\ Contents' = IF Len(Contents) <= Capacity THEN Contents
                        ELSE SubSeq(Contents, 1, Capacity)
<1> USE DEF ChannelInv
<1>1. UNCHANGED ring /\ sender_queue_' = <<>>
  BY DEF Close
<1>2. Buffered' = Buffered
  BY <1>1 DEF Buffered, Slot, ring
<1>3. /\ Buffered \in Seq(Values) /\ Len(Buffered) = count_
      /\ ParkedValues \in Seq(Values)
      /\ Len(ParkedValues) = Len(sender_queue_)
      /\ Contents \in Seq(Values)
      /\ Len(Contents) = count_ + Len(sender_queue_)
      /\ Contents = Buffered \o ParkedValues
  BY ContentsTyped DEF Contents
<1>4. Contents' = Buffered
  BY <1>1, <1>2, <1>3, NoneParked
<1>5. count_ \in Nat /\ count_ <= Capacity
  BY DEF RingInv, RingConsistent
<1>6. CASE sender_queue_ = <<>>
  <2>1. Contents = Buffered /\ Len(Contents) <= Capacity
    BY <1>3, <1>5, <1>6, NoneParked
  <2> QED BY <1>2, <1>4, <2>1
<1>7. CASE sender_queue_ # <<>>
  <2>1. count_ = Capacity /\ Len(sender_queue_) \in Nat \ {0}
    BY <1>7, EmptySeq DEF NoMissedMatch, isFull, OwnInv
  <2>2. Len(Contents) > Capacity
    BY <1>3, <2>1
  <2>3. \A i \in 1..Capacity : Contents[i] = Buffered[i] /\ Contents[i] \in Values
    <3>1. \A i \in 1..Len(Buffered) + Len(ParkedValues) :
            Contents[i] = IF i <= Len(Buffered) THEN Buffered[i]
                          ELSE ParkedValues[i - Len(Buffered)]
      BY <1>3, ConcatProperties
    <3>2. \A i \in 1..Capacity : i \in 1..Len(Buffered) + Len(ParkedValues)
                                 /\ i <= Len(Buffered)
      BY <1>3, <2>1
    <3>3. \A i \in 1..Len(Contents) : Contents[i] \in Values
      BY <1>3, ElementOfSeq
    <3> QED BY <1>3, <3>1, <3>2, <3>3
  <2>4. /\ SubSeq(Contents, 1, Capacity) \in Seq(Values)
        /\ Len(SubSeq(Contents, 1, Capacity)) = Capacity
        /\ \A i \in 1..Capacity : SubSeq(Contents, 1, Capacity)[i] = Contents[i]
    <3>1. /\ SubSeq(Contents, 1, Capacity) \in Seq(Values)
          /\ Len(SubSeq(Contents, 1, Capacity))
               = IF 1 <= Capacity THEN Capacity - 1 + 1 ELSE 0
          /\ \A i \in 1..Capacity - 1 + 1 :
               SubSeq(Contents, 1, Capacity)[i] = Contents[1 + i - 1]
      BY <2>3, SubSeqProperties
    <3> QED BY <3>1
  <2>5. SubSeq(Contents, 1, Capacity) = Buffered
    BY <1>3, <2>1, <2>3, <2>4, SeqEqual
  <2> QED BY <1>2, <1>3, <1>4, <2>2, <2>5
<1> QED BY <1>6, <1>7
----------------------------------------------------------------------------
(* The batch loops hold mtx_, and what a receiver that has nothing knows *)

Loops == {"trySendMany", "tryReceiveMany"}
(* close() cannot come between two iterations of try_send_many. *)
LoopInv ==
  \A c \in Callers :
    /\ pc[c] \in Loops => mtx_ = c
    /\ pc[c] = "trySendMany" => ~close_

(* Only a receiving call holds values; a queued receiver holds none, and   *)
(* one that was taken off the queue without a value saw a closed channel   *)
(* with an empty buffer, which nothing can fill any more.                  *)
RecvInv ==
  \A c \in Callers :
    /\ pc[c] \notin {"parkedRecv", "resumeRecv", "tryReceiveMany"}
         => got[c] = <<>>
    /\ c \in Range(receiver_queue_) => got[c] = <<>>
    /\ pc[c] \in {"parkedRecv", "resumeRecv"} /\ got[c] = <<>>
       /\ c \notin Range(receiver_queue_) => close_ /\ isEmpty

LifeInv == LoopInv /\ RecvInv

(* Nobody is in a loop when a channel is constructed. *)
LEMMA LifeInit == Init => LifeInv
  BY EmptyQueueLemma DEF Init, LifeInv, LoopInv, RecvInv, Loops

(* mtx_ and close_, under every step. *)
LEMMA LoopStep ==
  ASSUME ChannelInv, LoopInv, NEW c \in Callers, Begin(c) \/ Continue(c)
  PROVE  LoopInv'
<1> USE DEF LoopInv, Loops, Goto
<1>0. pc \in [Callers -> PCs]
  BY DEF ChannelInv, OwnInv
<1>1. CASE Send(c) \/ TrySend(c) \/ TrySendMany(c)
  BY <1>0, <1>1 DEF Send, TrySend, TrySendMany, Enter, Refuse
<1>2. CASE Receive(c) \/ TryReceive(c) \/ TryReceiveMany(c)
  BY <1>0, <1>2 DEF Receive, TryReceive, TryReceiveMany, Enter
<1>3. CASE Close(c)
  BY <1>0, <1>3 DEF Close, Enter
<1>4. CASE SendSuspend(c) \/ ResumeSend(c) \/ ResumeRecv(c)
  BY <1>0, <1>4 DEF SendSuspend, ResumeSend, ResumeRecv
<1>5. CASE TrySendManyStep(c) \/ TrySendManyDone(c) \/ ReturnSend(c)
  BY <1>0, <1>5 DEF TrySendManyStep, TrySendManyDone, ReturnSend
<1>6. CASE \/ TryReceiveManyStep(c) \/ TryReceiveManyDone(c)
           \/ ReturnClose(c) \/ Reschedule(c)
  BY <1>0, <1>6 DEF TryReceiveManyStep, TryReceiveManyDone, ReturnClose, Reschedule
<1> QED BY <1>1, <1>2, <1>3, <1>4, <1>5, <1>6 DEF Begin, Continue

(* A step in which every caller's call, values and place in the queue stay *)
(* or are as RecvInv allows, and which leaves close_ and the buffer's      *)
(* emptiness as they were.                                                 *)
LEMMA RecvKept ==
  ASSUME RecvInv, NEW c \in Callers,
         close_' = close_, close_ /\ isEmpty => isEmpty',
         \A d \in Callers \ {c} :
           /\ got'[d] = got[d] /\ pc'[d] = pc[d]
           /\ d \in Range(receiver_queue_') <=> d \in Range(receiver_queue_),
         got'[c] = <<>> \/ pc'[c] \in {"resumeRecv", "tryReceiveMany"},
         c \in Range(receiver_queue_') => got'[c] = <<>>,
         pc'[c] \in {"parkedRecv", "resumeRecv"} /\ got'[c] = <<>>
           => c \in Range(receiver_queue_') \/ (close_ /\ isEmpty)
  PROVE  RecvInv'
  BY DEF RecvInv

(* A value given away by c: nobody has failed yet, as the channel is open. *)
LEMMA RecvGive ==
  ASSUME ChannelInv, RecvInv, NEW c \in Callers, Runs(c), got[c] = <<>>,
         ~close_, close_' = close_, pc'[c] # "resumeRecv",
         NEW v \in Values, HandOff(c, v) \/ Push(v)
  PROVE  RecvInv'
<1> USE DEF ChannelInv
<1>0. c \notin Range(receiver_queue_)
  BY RunnerUnowned DEF Runs
<1>1. CASE Push(v)
  <2>1. got' = got /\ receiver_queue_' = receiver_queue_
    BY <1>1 DEF Push, queues
  <2> QED BY <1>0, <2>1 DEF RecvInv, Runs, ParkedPCs
<1>2. CASE HandOff(c, v)
  <2> DEFINE r == Head(receiver_queue_)
  <2>1. /\ receiver_queue_ # <<>> /\ receiver_queue_' = Tail(receiver_queue_)
        /\ got' = [got EXCEPT ![r] = <<v>>]
    BY <1>2 DEF HandOff
  <2>2. /\ r \in Callers /\ pc[r] = "parkedRecv"
        /\ Range(receiver_queue_) = {r} \cup Range(receiver_queue_')
        /\ r \notin Range(receiver_queue_')
    BY <2>1, PopLemma DEF OwnInv, HandleOwnedOnce
  <2> HIDE DEF r
  <2>3. /\ got'[r] # <<>> /\ \A d \in Callers \ {r} : got'[d] = got[d]
    BY <2>1, <2>2 DEF DataInv
  <2>4. pc'[r] = "parkedRecv" /\ r # c
    BY <2>2 DEF Runs, ParkedPCs
  <2> QED BY <1>0, <2>2, <2>3, <2>4 DEF RecvInv, Runs, ParkedPCs
<1> QED BY <1>1, <1>2

(* A value taken by c: nobody has failed yet, as the channel was not       *)
(* drained.                                                                *)
LEMMA RecvTake ==
  ASSUME ChannelInv, RecvInv, NEW c \in Callers, Runs(c), close_' = close_,
         pc'[c] \in {"resumeRecv", "tryReceiveMany"},
         TakeBuffered(c) \/ TakeDirect(c)
  PROVE  RecvInv'
<1> USE DEF ChannelInv
<1>0. c \notin Range(receiver_queue_)
  BY RunnerUnowned DEF Runs
<1>1. Takes(c, Head(Contents)) /\ Head(Contents) \in Values
  BY TakeContents
<1>2. /\ got' = [got EXCEPT ![c] = Append(@, Head(Contents))]
      /\ receiver_queue_' = receiver_queue_
  BY <1>1 DEF Takes
<1>3. got'[c] # <<>> /\ \A d \in Callers \ {c} : got'[d] = got[d]
  <2>1. Append(got[c], Head(Contents)) # <<>>
    BY <1>1, PushLemma DEF DataInv
  <2> QED BY <1>2, <2>1 DEF DataInv
<1>4. ~(close_ /\ isEmpty)
  BY DEF TakeBuffered, TakeDirect, NoMissedMatch
<1> QED BY <1>0, <1>2, <1>3, <1>4 DEF RecvInv, Runs, ParkedPCs

(* What a receiver has, under every step. *)
LEMMA RecvStep ==
  ASSUME ChannelInv, LoopInv, RecvInv, NEW c \in Callers, Begin(c) \/ Continue(c)
  PROVE  RecvInv'
<1> USE DEF ChannelInv
<1>0. /\ pc \in [Callers -> PCs] /\ got \in [Callers -> Seq(Values)]
      /\ nextValue \in 1..MaxSends + 1
      /\ pc[c] \notin ParkedPCs
           => c \notin Range(receiver_queue_)
  BY RunnerUnowned DEF OwnInv, DataInv
<1>1. CASE Send(c) \/ TrySendMany(c) \/ TryReceiveMany(c)
  <2>1. /\ pc[c] = "idle" /\ UNCHANGED <<ring, close_, queues, got>>
        /\ \E p \in {"idle", "send", "trySendMany", "tryReceiveMany"} :
             pc' = [pc EXCEPT ![c] = p]
    BY <1>0, <1>1 DEF Send, TrySendMany, TryReceiveMany, Enter, Refuse, Goto
  <2> QED BY <1>0, <2>1, RecvKept DEF RecvInv, ParkedPCs, ring, queues, isEmpty
<1>2. CASE TrySend(c)
  <2>1. pc[c] = "idle" /\ pc[c] \notin ParkedPCs /\ got[c] = <<>>
        /\ close_' = close_
    BY <1>2 DEF TrySend, Enter, RecvInv, ParkedPCs
  <2>2. CASE UNCHANGED <<ring, queues, pc, got>>
    BY <1>0, <2>1, <2>2 DEF RecvInv, ring, queues, isEmpty
  <2>3. CASE /\ ~close_ /\ Goto(c, "returnSend")
             /\ HandOff(c, nextValue) \/ Push(nextValue)
    <3>1. Runs(c) /\ pc'[c] = "returnSend"
      BY <2>1, <2>3, GotoRuns DEF PCs, ParkedPCs
    <3>2. nextValue \in Values
      BY <1>0, <1>2 DEF TrySend, Values
    <3> QED BY <2>1, <2>3, <3>1, <3>2, RecvGive
  <2> QED BY <1>2, <2>2, <2>3 DEF TrySend, Refuse
<1>3. CASE Receive(c) \/ TryReceive(c)
  <2>1. pc[c] = "idle" /\ pc[c] \notin ParkedPCs /\ got[c] = <<>>
        /\ close_' = close_
    BY <1>3 DEF Receive, TryReceive, Enter, RecvInv, ParkedPCs
  <2>2. CASE (TakeBuffered(c) \/ TakeDirect(c)) /\ Goto(c, "resumeRecv")
    <3>1. Runs(c) /\ pc'[c] = "resumeRecv"
      BY <2>1, <2>2, GotoRuns DEF PCs, ParkedPCs
    <3> QED BY <2>1, <2>2, <3>1, RecvTake
  <2>3. CASE /\ UNCHANGED <<ring, queues, got>>
             /\ \/ pc' = pc
                \/ isEmpty /\ close_ /\ Goto(c, "resumeRecv")
    BY <1>0, <2>1, <2>3, RecvKept DEF ring, queues, isEmpty, Goto, ParkedPCs
  <2>4. CASE /\ receiver_queue_' = Append(receiver_queue_, c)
             /\ Goto(c, "parkedRecv") /\ UNCHANGED <<ring, got>>
    <3>1. Range(receiver_queue_') = Range(receiver_queue_) \cup {c}
      BY <2>4, PushLemma DEF OwnInv
    <3> QED BY <1>0, <2>1, <2>4, <3>1, RecvKept DEF ring, isEmpty, Goto
  <2> QED BY <1>3, <2>2, <2>3, <2>4 DEF Receive, TryReceive
<1>4. CASE Close(c)
  <2>1. /\ ~close_ /\ close_' = TRUE /\ pc[c] = "idle" /\ got' = got
        /\ receiver_queue_' = <<>> /\ pc' = [pc EXCEPT ![c] = "returnClose"]
        /\ isEmpty' = isEmpty
    BY <1>4 DEF Close, Enter, Goto, ring, isEmpty
  <2>2. Range(receiver_queue_') = {}
    BY <2>1, EmptyQueueLemma
  <2>3. receiver_queue_ # <<>> => isEmpty
    BY DEF NoMissedMatch
  <2>4. \A d \in Callers : d \in Range(receiver_queue_) => receiver_queue_ # <<>>
    BY EmptyQueueLemma
  <2> QED BY <1>0, <2>1, <2>2, <2>3, <2>4 DEF RecvInv
<1>5. CASE SendSuspend(c)
  <2>1. pc[c] = "send" /\ pc[c] \notin ParkedPCs /\ got[c] = <<>>
        /\ close_' = close_
    BY <1>5 DEF SendSuspend, RecvInv, ParkedPCs
  <2>2. CASE /\ UNCHANGED <<ring, receiver_queue_, got>>
             /\ Goto(c, "resumeSend") \/ Goto(c, "parkedSend")
    BY <1>0, <2>1, <2>2, RecvKept DEF ring, isEmpty, Goto
  <2>3. CASE /\ ~close_ /\ Goto(c, "resumeSend")
             /\ HandOff(c, Head(offer[c])) \/ Push(Head(offer[c]))
    <3>1. Runs(c) /\ pc'[c] = "resumeSend"
      BY <2>1, <2>3, GotoRuns DEF PCs, ParkedPCs
    <3>2. Head(offer[c]) \in Values
      BY <2>1, PopLemma DEF OfferInv
    <3> QED BY <2>1, <2>3, <3>1, <3>2, RecvGive
  <2> QED BY <1>5, <2>2, <2>3 DEF SendSuspend, queues
<1>6. CASE TrySendManyStep(c)
  <2>1. /\ pc[c] = "trySendMany" /\ pc[c] \notin ParkedPCs /\ got[c] = <<>>
        /\ close_' = close_ /\ pc' = pc /\ ~close_ /\ offer[c] # <<>>
        /\ HandOff(c, Head(offer[c])) \/ Push(Head(offer[c]))
    BY <1>6 DEF TrySendManyStep, RecvInv, LoopInv, ParkedPCs
  <2>2. Runs(c) /\ pc'[c] = "trySendMany"
    BY <2>1, GotoRuns DEF PCs, ParkedPCs
  <2>3. Head(offer[c]) \in Values
    BY <2>1, PopLemma DEF OfferInv
  <2> QED BY <2>1, <2>2, <2>3, RecvGive
<1>7. CASE TryReceiveManyStep(c)
  <2>1. /\ pc[c] = "tryReceiveMany" /\ pc[c] \notin ParkedPCs
        /\ close_' = close_ /\ pc' = pc
        /\ TakeBuffered(c) \/ TakeDirect(c)
    BY <1>7 DEF TryReceiveManyStep, ParkedPCs
  <2>2. Runs(c) /\ pc'[c] = "tryReceiveMany"
    BY <2>1, GotoRuns DEF PCs, ParkedPCs
  <2> QED BY <2>1, <2>2, RecvTake
<1>8. CASE ResumeRecv(c) \/ TryReceiveManyDone(c)
  <2>1. /\ UNCHANGED <<ring, close_, queues>> /\ pc[c] \notin ParkedPCs
        /\ \/ /\ got' = [got EXCEPT ![c] = <<>>]
              /\ pc' = [pc EXCEPT ![c] = "idle"]
           \/ /\ got' = got /\ got[c] # <<>>
              /\ pc' = [pc EXCEPT ![c] = "resumeRecv"]
           \/ /\ got' = got /\ got[c] = <<>>
              /\ pc' = [pc EXCEPT ![c] = "idle"]
    BY <1>8 DEF ResumeRecv, TryReceiveManyDone, Goto, ParkedPCs
  <2> QED BY <1>0, <2>1, RecvKept DEF ring, queues, isEmpty
<1>9. CASE \/ ResumeSend(c) \/ TrySendManyDone(c) \/ ReturnSend(c)
           \/ ReturnClose(c)
  <2>1. /\ UNCHANGED <<ring, close_, queues, got>> /\ pc[c] \notin ParkedPCs
        /\ got[c] = <<>>
        /\ \E p \in {"idle", "returnSend"} : pc' = [pc EXCEPT ![c] = p]
    BY <1>9 DEF ResumeSend, TrySendManyDone, ReturnSend, ReturnClose, Goto,
                ParkedPCs, RecvInv, client
  <2> QED BY <1>0, <2>1, RecvKept DEF ring, queues, isEmpty
<1>10. CASE Reschedule(c)
  <2> DEFINE h == Head(wake[c])
  <2>1. /\ UNCHANGED <<ring, close_, queues, got>> /\ wake[c] # <<>>
        /\ pc' = [pc EXCEPT ![h] = IF pc[h] = "parkedSend" THEN "resumeSend"
                                   ELSE "resumeRecv"]
    BY <1>10 DEF Reschedule, Goto, client
  <2>2. h \in Callers /\ h \in Range(wake[c])
    BY <2>1, PopLemma DEF OwnInv
  <2>3. h \notin Range(receiver_queue_) /\ pc[h] \in {"parkedSend", "parkedRecv"}
    BY <2>2 DEF OwnInv, HandleOwnedOnce, Queued, Popped, Parked
  <2> HIDE DEF h
  <2> QED BY <1>0, <2>1, <2>2, <2>3 DEF RecvInv, ring, queues, isEmpty
<1> QED BY <1>1, <1>2, <1>3, <1>4, <1>5, <1>6, <1>7, <1>8, <1>9, <1>10
        DEF Begin, Continue

(* Both hold for ever. *)
LEMMA LifeStep ==
  ASSUME ChannelInv, LifeInv, [Next]_vars
  PROVE  LifeInv'
<1>1. CASE UNCHANGED vars
  BY <1>1 DEF vars, ring, queues, client, LifeInv, LoopInv, RecvInv, isEmpty
<1>2. ASSUME NEW c \in Callers, Begin(c) \/ Continue(c)
      PROVE  LifeInv'
  BY <1>2, LoopStep, RecvStep DEF LifeInv
<1> QED BY <1>1, <1>2 DEF Next

(* Contract 2 of channel.h, for any capacity and any set of callers: a     *)
(* receive() that returns without a value does so on a closed channel      *)
(* whose buffer is empty, however late its coroutine is resumed            *)
(* (ReceiverAwaiter::await_suspend, await_resume, close()).                *)
THEOREM ChannelReceiveFails == Spec => []ReceiveFailsOnlyDrained
<1>1. ChannelInv /\ LifeInv => ReceiveFailsOnlyDrained
  <2> SUFFICES ASSUME ChannelInv, LifeInv, NEW c \in Callers,
                      pc[c] = "resumeRecv", got[c] = <<>>
               PROVE  close_ /\ isEmpty
    BY DEF ReceiveFailsOnlyDrained
  <2>1. c \notin Range(receiver_queue_)
    BY RunnerUnowned DEF ChannelInv, ParkedPCs
  <2> QED BY <2>1 DEF LifeInv, RecvInv
<1>2. Init => ChannelInv /\ LifeInv
  BY ChannelInitInv, LifeInit
<1>3. (ChannelInv /\ LifeInv) /\ [Next]_vars => (ChannelInv /\ LifeInv)'
  BY ChannelStep, LifeStep
<1> QED BY <1>1, <1>2, <1>3, PTL DEF Spec
----------------------------------------------------------------------------
(* The channel implements ChannelFifo *)

(* A value given away is offered, or passed to a waiting receiver. *)
LEMMA FifoGive ==
  ASSUME ChannelInv, ~close_, close_' = close_, NEW c, NEW v \in Values,
         HandOff(c, v) \/ Push(v)
  PROVE  Fifo!Next
<1>1. CASE Push(v)
  <2>1. Fifo!Offer(v)
    BY <1>1, PushContents DEF Fifo!Offer
  <2> QED BY <2>1 DEF Fifo!Next
<1>2. CASE HandOff(c, v)
  <2>1. Fifo!Pass(v)
    BY <1>2, HandOffContents DEF Fifo!Pass
  <2> QED BY <2>1 DEF Fifo!Next
<1> QED BY <1>1, <1>2

(* A sender that parks offers its value. *)
LEMMA FifoPark ==
  ASSUME ChannelInv, ~close_, NEW c \in Callers, pc[c] = "send",
         sender_queue_' = Append(sender_queue_, c),
         UNCHANGED <<ring, offer, close_, taken>>
  PROVE  Fifo!Next
<1>1. Fifo!Offer(Head(offer[c])) /\ Head(offer[c]) \in Values
  BY ParkContents DEF Fifo!Offer
<1> QED BY <1>1 DEF Fifo!Next

(* A value taken is the oldest one. *)
LEMMA FifoTake ==
  ASSUME ChannelInv, NEW c, TakeBuffered(c) \/ TakeDirect(c), close_' = close_
  PROVE  Fifo!Next
<1>1. Fifo!Take
  BY TakeContents DEF Fifo!Take, Takes
<1> QED BY <1>1 DEF Fifo!Next

(* A step that moves no value: the awaiter c writes is its own, and c is   *)
(* not parked.                                                             *)
LEMMA FifoQuiet ==
  ASSUME ChannelInv, NEW c \in Callers, pc[c] \notin ParkedPCs,
         UNCHANGED <<ring, sender_queue_, close_, taken>>,
         offer' \in [Callers -> Seq(Values)],
         \A d \in Callers \ {c} : offer'[d] = offer[d]
  PROVE  UNCHANGED <<Contents, close_, taken>>
<1>1. \A d \in Range(sender_queue_) : d \in Callers \ {c}
  BY RunnerUnowned, RangeLemma DEF ChannelInv, OwnInv
<1>2. \A d \in Range(sender_queue_) : offer'[d] = offer[d]
  BY <1>1
<1> QED BY <1>2, ContentsKept DEF ChannelInv

(* Every step of the channel is a step of the queue, or none. *)
LEMMA FifoStep ==
  ASSUME ChannelInv, ChannelInv', LoopInv, [Next]_vars
  PROVE  Fifo!Next \/ UNCHANGED <<Contents, close_, taken>>
<1> USE DEF ChannelInv
<1>0. /\ offer \in [Callers -> Seq(Values)] /\ nextValue \in 1..MaxSends + 1
      /\ offer' \in [Callers -> Seq(Values)]
  BY DEF OfferInv, DataInv
<1>1. CASE UNCHANGED vars
  BY <1>1 DEF vars, ring, queues, client, Contents, Buffered, ParkedValues, Slot
<1>2. ASSUME NEW c \in Callers, Begin(c) \/ Continue(c)
      PROVE  Fifo!Next \/ UNCHANGED <<Contents, close_, taken>>
  <2>1. CASE \/ Send(c) \/ TrySendMany(c) \/ TryReceiveMany(c)
             \/ ResumeSend(c) \/ ResumeRecv(c) \/ ReturnSend(c)
             \/ TrySendManyDone(c) \/ TryReceiveManyDone(c) \/ ReturnClose(c)
    <3>1. /\ pc[c] \notin ParkedPCs
          /\ UNCHANGED <<ring, sender_queue_, close_, taken>>
          /\ offer' = offer \/ \E x : offer' = [offer EXCEPT ![c] = x]
      BY <2>1 DEF Send, TrySendMany, TryReceiveMany, ResumeSend, ResumeRecv,
           ReturnSend, TrySendManyDone, TryReceiveManyDone, ReturnClose, Enter,
           Refuse, ParkedPCs, queues, client
    <3> QED BY <1>0, <3>1, FifoQuiet
  <2>2. CASE TrySend(c)
    <3>1. pc[c] \notin ParkedPCs /\ close_' = close_ /\ nextValue \in Values
      BY <1>0, <2>2 DEF TrySend, Enter, ParkedPCs, Values
    <3>2. CASE ~close_ /\ (HandOff(c, nextValue) \/ Push(nextValue))
      BY <3>1, <3>2, FifoGive
    <3>3. CASE UNCHANGED <<ring, queues, offer, taken>>
      BY <1>0, <3>1, <3>3, FifoQuiet DEF queues
    <3> QED BY <2>2, <3>2, <3>3 DEF TrySend, Refuse
  <2>3. CASE Receive(c) \/ TryReceive(c)
    <3>1. pc[c] \notin ParkedPCs /\ close_' = close_
      BY <2>3 DEF Receive, TryReceive, Enter, ParkedPCs
    <3>2. CASE TakeBuffered(c) \/ TakeDirect(c)
      BY <3>1, <3>2, FifoTake
    <3>3. CASE UNCHANGED <<ring, sender_queue_, offer, taken>>
      BY <1>0, <3>1, <3>3, FifoQuiet
    <3> QED BY <2>3, <3>2, <3>3 DEF Receive, TryReceive, queues
  <2>4. CASE Close(c)
    <3>1. ~close_ /\ close_' = TRUE /\ taken' = taken
      BY <2>4 DEF Close
    <3>2. Fifo!CloseQueue
      BY <2>4, <3>1, CloseContents DEF Fifo!CloseQueue
    <3> QED BY <3>2 DEF Fifo!Next
  <2>5. CASE SendSuspend(c)
    <3>1. /\ pc[c] = "send" /\ pc[c] \notin ParkedPCs /\ close_' = close_
          /\ Head(offer[c]) \in Values
      BY <2>5, PopLemma DEF SendSuspend, ParkedPCs, OfferInv
    <3>2. CASE UNCHANGED <<ring, queues, offer, taken>>
      BY <1>0, <3>1, <3>2, FifoQuiet DEF queues
    <3>3. CASE ~close_ /\ (HandOff(c, Head(offer[c])) \/ Push(Head(offer[c])))
      BY <3>1, <3>3, FifoGive
    <3>4. CASE /\ ~close_ /\ sender_queue_' = Append(sender_queue_, c)
               /\ UNCHANGED <<ring, offer, taken>>
      BY <3>1, <3>4, FifoPark
    <3> QED BY <2>5, <3>2, <3>3, <3>4 DEF SendSuspend
  <2>6. CASE TrySendManyStep(c)
    <3>1. /\ ~close_ /\ close_' = close_
          /\ HandOff(c, Head(offer[c])) \/ Push(Head(offer[c]))
      BY <2>6 DEF TrySendManyStep, LoopInv
    <3>2. Head(offer[c]) \in Values
      BY <2>6, PopLemma DEF TrySendManyStep, OfferInv
    <3> QED BY <3>1, <3>2, FifoGive
  <2>7. CASE TryReceiveManyStep(c)
    BY <2>7, FifoTake DEF TryReceiveManyStep
  <2>8. CASE Reschedule(c)
    <3>1. UNCHANGED <<ring, queues, close_, taken, offer>>
      BY <2>8 DEF Reschedule, client
    <3> QED BY <3>1, ContentsKept DEF queues, OfferInv
  <2> QED BY <1>2, <2>1, <2>2, <2>3, <2>4, <2>5, <2>6, <2>7, <2>8
          DEF Begin, Continue
<1> QED BY <1>1, <1>2 DEF Next

(* For any capacity and any set of callers, a channel is the FIFO queue of *)
(* ChannelFifo: its ring, read from header_ on, and the values of its      *)
(* parked senders behind it lose, add, reorder and repeat nothing, and     *)
(* close() withdraws the values of the parked senders and no others.       *)
THEOREM ChannelImplementsFifo == Spec => FifoSpec
<1>1. Init => Fifo!Init
  <2> SUFFICES ASSUME Init PROVE Contents = <<>>
    BY DEF Init, Fifo!Init
  <2>1. ChannelInv /\ count_ = 0 /\ sender_queue_ = <<>>
    BY ChannelInitInv DEF Init
  <2>2. Contents = Buffered /\ Buffered = <<>>
    BY <2>1, ContentsTyped, NoneParked DEF ChannelInv
  <2> QED BY <2>2
<1>2. Init => ChannelInv /\ LifeInv
  BY ChannelInitInv, LifeInit
<1>3. (ChannelInv /\ LifeInv) /\ [Next]_vars => (ChannelInv /\ LifeInv)'
  BY ChannelStep, LifeStep
<1>4. ChannelInv /\ ChannelInv' /\ LifeInv /\ [Next]_vars
        => [Fifo!Next]_<<Contents, close_, taken>>
  BY FifoStep DEF LifeInv
<1> QED BY <1>1, <1>2, <1>3, <1>4, PTL DEF Spec, FifoSpec, Fifo!Spec
----------------------------------------------------------------------------
(* The counters add up *)

(* How much each counter that StatsAccount reads grows in a step. *)
Grows(k, n) == stats[k] \in Nat /\ n \in Nat /\ stats'[k] = stats[k] + n
Counted(push, pop, direct, swait, swoken, rwait, rwoken) ==
  /\ Grows("buffer_pushes", push) /\ Grows("buffer_pops", pop)
  /\ Grows("direct_handoffs", direct)
  /\ Grows("sender_waits", swait) /\ Grows("close_wake_senders", swoken)
  /\ Grows("receiver_waits", rwait) /\ Grows("close_wake_receivers", rwoken)
One(k, names) == IF k \in names THEN 1 ELSE 0

(* stats_add counts what it is given. *)
LEMMA StatsCounted ==
  ASSUME ChannelInv, EnableStats, NEW names, stats_add(Inc(names))
  PROVE  Counted(One("buffer_pushes", names), One("buffer_pops", names),
           One("direct_handoffs", names), One("sender_waits", names),
           One("close_wake_senders", names), One("receiver_waits", names),
           One("close_wake_receivers", names))
<1>1. ASSUME NEW k \in StatNames PROVE Grows(k, One(k, names))
  BY DEF stats_add, Inc, Grows, One, ChannelInv, DataInv
<1> QED BY <1>1 DEF Counted, StatNames

(* StatsAccount without its condition. *)
Sums ==
  /\ stats["buffer_pushes"] = stats["buffer_pops"] + count_
  /\ Len(taken) = stats["buffer_pops"] + stats["direct_handoffs"]
  /\ stats["sender_waits"] >= stats["close_wake_senders"] + Len(sender_queue_)
  /\ stats["receiver_waits"]
       >= stats["close_wake_receivers"] + Len(receiver_queue_)

(* The sums, after any growth that balances. *)
Balanced(push, pop, direct, swait, swoken, rwait, rwoken) ==
  /\ Counted(push, pop, direct, swait, swoken, rwait, rwoken)
  /\ count_' = count_ + push - pop
  /\ Len(taken') = Len(taken) + pop + direct
  /\ Len(sender_queue_') \in Nat /\ Len(receiver_queue_') \in Nat
  /\ Len(sender_queue_') + swoken <= Len(sender_queue_) + swait
  /\ Len(receiver_queue_') + rwoken <= Len(receiver_queue_) + rwait
LEMMA StatsBalance ==
  ASSUME ChannelInv, Sums, NEW push, NEW pop, NEW direct, NEW swait,
         NEW swoken, NEW rwait, NEW rwoken,
         Balanced(push, pop, direct, swait, swoken, rwait, rwoken)
  PROVE  Sums'
<1>1. /\ count_ \in Nat /\ Len(taken) \in Nat
      /\ Len(sender_queue_) \in Nat /\ Len(receiver_queue_) \in Nat
  BY LenProperties DEF ChannelInv, DataInv, RingInv, OwnInv
<1>2. stats'["buffer_pushes"] = stats'["buffer_pops"] + count_'
  <2>1. Grows("buffer_pushes", push) /\ Grows("buffer_pops", pop)
    BY DEF Balanced, Counted
  <2>2. stats["buffer_pushes"] = stats["buffer_pops"] + count_
    BY DEF Sums
  <2>3. count_' = count_ + push - pop
    BY DEF Balanced
  <2> QED BY ONLY <1>1, <2>1, <2>2, <2>3 DEF Grows
<1>3. Len(taken') = stats'["buffer_pops"] + stats'["direct_handoffs"]
  <2>1. Grows("buffer_pops", pop) /\ Grows("direct_handoffs", direct)
    BY DEF Balanced, Counted
  <2>2. Len(taken) = stats["buffer_pops"] + stats["direct_handoffs"]
    BY DEF Sums
  <2> DEFINE m == Len(taken)
             n == Len(taken')
  <2>3. m \in Nat /\ n = m + pop + direct
    BY <1>1 DEF Balanced
  <2> HIDE DEF m, n
  <2>4. n = stats'["buffer_pops"] + stats'["direct_handoffs"]
    BY ONLY <2>1, <2>2, <2>3 DEF Grows, m
  <2> QED BY <2>4 DEF n
<1>4. stats'["sender_waits"] >= stats'["close_wake_senders"] + Len(sender_queue_')
  <2>1. Grows("sender_waits", swait) /\ Grows("close_wake_senders", swoken)
    BY DEF Balanced, Counted
  <2> DEFINE m == Len(sender_queue_)
             n == Len(sender_queue_')
  <2>2. m \in Nat /\ n \in Nat /\ n + swoken <= m + swait
    BY <1>1 DEF Balanced
  <2>3. stats["sender_waits"] >= stats["close_wake_senders"] + m
    BY DEF Sums
  <2> HIDE DEF m, n
  <2>4. stats'["sender_waits"] >= stats'["close_wake_senders"] + n
    BY ONLY <2>1, <2>2, <2>3 DEF Grows
  <2> QED BY <2>4 DEF n
<1>5. stats'["receiver_waits"]
        >= stats'["close_wake_receivers"] + Len(receiver_queue_')
  <2>1. Grows("receiver_waits", rwait) /\ Grows("close_wake_receivers", rwoken)
    BY DEF Balanced, Counted
  <2> DEFINE m == Len(receiver_queue_)
             n == Len(receiver_queue_')
  <2>2. m \in Nat /\ n \in Nat /\ n + rwoken <= m + rwait
    BY <1>1 DEF Balanced
  <2>3. stats["receiver_waits"] >= stats["close_wake_receivers"] + m
    BY DEF Sums
  <2> HIDE DEF m, n
  <2>4. stats'["receiver_waits"] >= stats'["close_wake_receivers"] + n
    BY ONLY <2>1, <2>2, <2>3 DEF Grows
  <2> QED BY <2>4 DEF n
<1> QED BY <1>2, <1>3, <1>4, <1>5 DEF Sums

(* The ways a value moves, counted. *)
LEMMA StatsMove ==
  ASSUME ChannelInv, Sums, EnableStats, NEW c, NEW v \in Values,
         HandOff(c, v) \/ Push(v) \/ TakeBuffered(c) \/ TakeDirect(c)
  PROVE  Sums'
<1> USE DEF ChannelInv
<1>1. /\ taken \in Seq(Values) /\ count_ \in Nat /\ Len(taken) \in Nat
      /\ Len(sender_queue_) \in Nat /\ Len(receiver_queue_) \in Nat
  BY LenProperties DEF DataInv, RingInv, OwnInv
<1>2. CASE HandOff(c, v)
  <2>1. Counted(0, 0, 1, 0, 0, 0, 0)
    BY <1>2, StatsCounted DEF HandOff, One
  <2>2. /\ count_' = count_ + 0 - 0 /\ sender_queue_' = sender_queue_
        /\ taken' = Append(taken, v)
        /\ receiver_queue_ # <<>> /\ receiver_queue_' = Tail(receiver_queue_)
    BY <1>1, <1>2 DEF HandOff, ring
  <2>3. /\ Len(taken') = Len(taken) + 0 + 1
        /\ Len(receiver_queue_') = Len(receiver_queue_) - 1
        /\ Len(receiver_queue_') \in Nat
    BY <1>1, <2>2, AppendProperties, HeadTailProperties, LenProperties DEF OwnInv
  <2>4. Balanced(0, 0, 1, 0, 0, 0, 0)
    BY <1>1, <2>1, <2>2, <2>3 DEF Balanced
  <2> QED BY <2>4, StatsBalance
<1>3. CASE Push(v)
  <2>1. Counted(1, 0, 0, 0, 0, 0, 0)
    BY <1>3, StatsCounted DEF Push, One
  <2>2. count_' = count_ + 1 - 0 /\ UNCHANGED <<taken, queues>>
    BY <1>1, <1>3 DEF Push
  <2>3. Balanced(1, 0, 0, 0, 0, 0, 0)
    BY <1>1, <2>1, <2>2 DEF Balanced, queues
  <2> QED BY <2>3, StatsBalance
<1>4. CASE TakeBuffered(c) \/ TakeDirect(c)
  <2>1. /\ taken' = Append(taken, Head(Contents)) /\ Head(Contents) \in Values
        /\ receiver_queue_' = receiver_queue_
    BY <1>4, TakeContents DEF Takes
  <2>2. Len(taken') = Len(taken) + 1
    BY <1>1, <2>1, AppendProperties
  <2>3. sender_queue_ # <<>> => /\ Len(Tail(sender_queue_)) = Len(sender_queue_) - 1
                               /\ Len(Tail(sender_queue_)) \in Nat
    BY HeadTailProperties, LenProperties DEF OwnInv
  <2>4. CASE /\ count_' = count_ - 1 /\ sender_queue_' = sender_queue_
             /\ stats_add(Inc({"buffer_pops"}))
    <3>1. Counted(0, 1, 0, 0, 0, 0, 0)
      BY <2>4, StatsCounted DEF One
    <3>2. Balanced(0, 1, 0, 0, 0, 0, 0)
      BY <1>1, <2>1, <2>2, <2>4, <3>1 DEF Balanced
    <3> QED BY <3>2, StatsBalance
  <2>5. CASE /\ count_' = count_ /\ stats_add(Inc({"buffer_pops", "buffer_pushes"}))
             /\ sender_queue_ # <<>> /\ sender_queue_' = Tail(sender_queue_)
    <3>1. Counted(1, 1, 0, 0, 0, 0, 0)
      BY <2>5, StatsCounted DEF One
    <3>2. Balanced(1, 1, 0, 0, 0, 0, 0)
      BY <1>1, <2>1, <2>2, <2>3, <2>5, <3>1 DEF Balanced
    <3> QED BY <3>2, StatsBalance
  <2>6. CASE /\ count_' = count_ /\ stats_add(Inc({"direct_handoffs"}))
             /\ sender_queue_ # <<>> /\ sender_queue_' = Tail(sender_queue_)
    <3>1. Counted(0, 0, 1, 0, 0, 0, 0)
      BY <2>6, StatsCounted DEF One
    <3>2. Balanced(0, 0, 1, 0, 0, 0, 0)
      BY <1>1, <2>1, <2>2, <2>3, <2>6, <3>1 DEF Balanced
    <3> QED BY <3>2, StatsBalance
  <2> QED BY <1>4, <2>4, <2>5, <2>6 DEF TakeBuffered, TakeDirect, ring
<1> QED BY <1>2, <1>3, <1>4

(* A step that touches no counter that is kept, nor what they count. *)
LEMMA StatsQuiet ==
  ASSUME ChannelInv, Sums, EnableStats, UNCHANGED <<ring, queues, taken>>,
         stats' = stats \/ \E x : stats_add(Inc({x})) /\ x \notin StatNames
  PROVE  Sums'
<1>1. stats' = stats => Sums'
  BY DEF Sums, ring, queues
<1>2. ASSUME NEW x, stats_add(Inc({x})), x \notin StatNames
      PROVE  Sums'
  <2>1. \A k \in StatNames : One(k, {x}) = 0
    BY <1>2 DEF One
  <2>2. Counted(0, 0, 0, 0, 0, 0, 0)
    BY <1>2, <2>1, StatsCounted DEF StatNames
  <2>3. /\ count_ \in Nat /\ Len(taken) \in Nat
        /\ Len(sender_queue_) \in Nat /\ Len(receiver_queue_) \in Nat
    BY LenProperties DEF ChannelInv, DataInv, RingInv, OwnInv
  <2>4. Balanced(0, 0, 0, 0, 0, 0, 0)
    BY <2>2, <2>3 DEF Balanced, ring, queues
  <2> QED BY <2>4, StatsBalance
<1> QED BY <1>1, <1>2

(* One more coroutine parks, and is counted. *)
LEMMA StatsPark ==
  ASSUME ChannelInv, Sums, EnableStats, UNCHANGED <<ring, taken>>,
         NEW c \in Callers,
         \/ /\ sender_queue_' = Append(sender_queue_, c)
            /\ receiver_queue_' = receiver_queue_
            /\ stats_add(Inc({"sender_waits"}))
         \/ /\ receiver_queue_' = Append(receiver_queue_, c)
            /\ sender_queue_' = sender_queue_
            /\ stats_add(Inc({"receiver_waits"}))
  PROVE  Sums'
<1>1. /\ count_ \in Nat /\ Len(taken) \in Nat
      /\ Len(sender_queue_) \in Nat /\ Len(receiver_queue_) \in Nat
      /\ Len(Append(sender_queue_, c)) = Len(sender_queue_) + 1
      /\ Len(Append(receiver_queue_, c)) = Len(receiver_queue_) + 1
  BY LenProperties, AppendProperties DEF ChannelInv, DataInv, RingInv, OwnInv
<1>2. count_' = count_ /\ taken' = taken
  BY DEF ring
<1>3. CASE /\ sender_queue_' = Append(sender_queue_, c)
           /\ receiver_queue_' = receiver_queue_
           /\ stats_add(Inc({"sender_waits"}))
  <2>1. Counted(0, 0, 0, 1, 0, 0, 0)
    BY <1>3, StatsCounted DEF One
  <2>2. Balanced(0, 0, 0, 1, 0, 0, 0)
    BY <1>1, <1>2, <1>3, <2>1 DEF Balanced
  <2> QED BY <2>2, StatsBalance
<1>4. CASE /\ receiver_queue_' = Append(receiver_queue_, c)
           /\ sender_queue_' = sender_queue_
           /\ stats_add(Inc({"receiver_waits"}))
  <2>1. Counted(0, 0, 0, 0, 0, 1, 0)
    BY <1>4, StatsCounted DEF One
  <2>2. Balanced(0, 0, 0, 0, 0, 1, 0)
    BY <1>1, <1>2, <1>4, <2>1 DEF Balanced
  <2> QED BY <2>2, StatsBalance
<1> QED BY <1>3, <1>4

(* close() empties both queues and counts whom it wakes. *)
LEMMA StatsClose ==
  ASSUME ChannelInv, Sums, EnableStats, NEW c, Close(c)
  PROVE  Sums'
<1> DEFINE ls == Len(sender_queue_)
           lr == Len(receiver_queue_)
           delta == [close_calls |-> 1, close_wake_senders |-> ls,
                     close_wake_receivers |-> lr]
<1>1. /\ count_ \in Nat /\ Len(taken) \in Nat /\ ls \in Nat /\ lr \in Nat
      /\ stats \in [StatNames -> Nat]
  BY LenProperties DEF ChannelInv, DataInv, RingInv, OwnInv
<1>2. /\ count_' = count_ /\ taken' = taken /\ stats_add(delta)
      /\ Len(sender_queue_') = 0 /\ Len(receiver_queue_') = 0
  BY DEF Close, ring
<1>3. ASSUME NEW k \in StatNames
      PROVE  /\ stats[k] \in Nat
             /\ stats'[k] = stats[k] + (IF k \in DOMAIN delta THEN delta[k] ELSE 0)
  BY <1>1, <1>2 DEF stats_add
<1>4. /\ DOMAIN delta = {"close_calls", "close_wake_senders", "close_wake_receivers"}
      /\ delta["close_wake_senders"] = ls /\ delta["close_wake_receivers"] = lr
  OBVIOUS
<1> HIDE DEF delta, ls, lr
<1>5. Counted(0, 0, 0, 0, ls, 0, lr)
  <2>1. ASSUME NEW k \in StatNames, k \notin DOMAIN delta PROVE Grows(k, 0)
    BY <1>3, <2>1 DEF Grows
  <2>2. /\ Grows("close_wake_senders", ls) /\ Grows("close_wake_receivers", lr)
    BY <1>1, <1>3, <1>4 DEF Grows, StatNames
  <2> QED BY <1>4, <2>1, <2>2 DEF Counted, StatNames
<1>6. Balanced(0, 0, 0, 0, ls, 0, lr)
  BY <1>1, <1>2, <1>5 DEF Balanced, ls, lr
<1> QED BY <1>6, StatsBalance

(* Every step keeps the sums. *)
LEMMA StatsStep ==
  ASSUME ChannelInv, Sums, EnableStats, [Next]_vars
  PROVE  Sums'
<1> USE DEF ChannelInv
<1>0. nextValue \in 1..MaxSends + 1
  BY DEF DataInv
<1>1. CASE UNCHANGED vars
  BY <1>1, StatsQuiet DEF vars
<1>2. ASSUME NEW c \in Callers, Begin(c) \/ Continue(c)
      PROVE  Sums'
  <2>0. /\ "closed_failures" \notin StatNames
        /\ "try_send_full_failures" \notin StatNames
        /\ "try_receive_empty_returns" \notin StatNames
    BY DEF StatNames
  <2>1. CASE \/ Send(c) \/ TrySendMany(c) \/ TryReceiveMany(c)
             \/ ResumeSend(c) \/ ResumeRecv(c) \/ ReturnSend(c)
             \/ TrySendManyDone(c) \/ TryReceiveManyDone(c) \/ ReturnClose(c)
             \/ Reschedule(c)
    <3>1. /\ UNCHANGED <<ring, queues, taken>>
          /\ stats' = stats \/ \E x : stats_add(Inc({x})) /\ x \notin StatNames
      BY <2>0, <2>1 DEF Send, TrySendMany, TryReceiveMany, ResumeSend,
           ResumeRecv, ReturnSend, TrySendManyDone, TryReceiveManyDone,
           ReturnClose, Reschedule, Refuse
    <3> QED BY <3>1, StatsQuiet
  <2>2. CASE TrySend(c)
    <3>1. nextValue \in Values
      BY <1>0, <2>2 DEF TrySend, Values
    <3>2. CASE HandOff(c, nextValue) \/ Push(nextValue)
      BY <3>1, <3>2, StatsMove
    <3>3. CASE /\ UNCHANGED <<ring, queues, taken>>
               /\ \E x : stats_add(Inc({x})) /\ x \notin StatNames
      BY <3>3, StatsQuiet
    <3> QED BY <2>0, <2>2, <3>2, <3>3 DEF TrySend, Refuse
  <2>3. CASE Receive(c) \/ TryReceive(c)
    <3>1. CASE TakeBuffered(c) \/ TakeDirect(c)
      <4>1. Head(Contents) \in Values
        BY <3>1, TakeContents
      <4> QED BY <3>1, <4>1, StatsMove
    <3>2. CASE /\ UNCHANGED <<ring, queues, taken>>
               /\ \E x : stats_add(Inc({x})) /\ x \notin StatNames
      BY <3>2, StatsQuiet
    <3>3. CASE /\ UNCHANGED <<ring, taken, sender_queue_>>
               /\ receiver_queue_' = Append(receiver_queue_, c)
               /\ stats_add(Inc({"receiver_waits"}))
      BY <3>3, StatsPark
    <3> QED BY <2>0, <2>3, <3>1, <3>2, <3>3 DEF Receive, TryReceive
  <2>4. CASE Close(c)
    BY <2>4, StatsClose
  <2>5. CASE SendSuspend(c)
    <3>1. Head(offer[c]) \in Values
      BY <2>5, PopLemma DEF SendSuspend, OfferInv
    <3>2. CASE HandOff(c, Head(offer[c])) \/ Push(Head(offer[c]))
      BY <3>1, <3>2, StatsMove
    <3>3. CASE /\ UNCHANGED <<ring, queues, taken>>
               /\ \E x : stats_add(Inc({x})) /\ x \notin StatNames
      BY <3>3, StatsQuiet
    <3>4. CASE /\ UNCHANGED <<ring, taken, receiver_queue_>>
               /\ sender_queue_' = Append(sender_queue_, c)
               /\ stats_add(Inc({"sender_waits"}))
      BY <3>4, StatsPark
    <3> QED BY <2>0, <2>5, <3>2, <3>3, <3>4 DEF SendSuspend
  <2>6. CASE TrySendManyStep(c)
    <3>1. Head(offer[c]) \in Values
      BY <2>6, PopLemma DEF TrySendManyStep, OfferInv
    <3> QED BY <2>6, <3>1, StatsMove DEF TrySendManyStep
  <2>7. CASE TryReceiveManyStep(c)
    <3>1. TakeBuffered(c) \/ TakeDirect(c)
      BY <2>7 DEF TryReceiveManyStep
    <3>2. Head(Contents) \in Values
      BY <3>1, TakeContents
    <3> QED BY <3>1, <3>2, StatsMove
  <2> QED BY <1>2, <2>1, <2>2, <2>3, <2>4, <2>5, <2>6, <2>7 DEF Begin, Continue
<1> QED BY <1>1, <1>2 DEF Next

(* For any capacity and any set of callers the counters add up after every *)
(* call: what was pushed is popped or buffered, what was taken was popped  *)
(* or handed over, and those close() woke had been counted as waiting      *)
(* (stats_add in every call, TINY_COROUTINE_ENABLE_STATS).                 *)
THEOREM ChannelStats == Spec => []StatsAccount
<1>1. Init => StatsAccount
  <2> SUFFICES ASSUME Init PROVE Sums
    BY Zenon DEF StatsAccount, Sums
  <2>1. \A k \in StatNames : stats[k] = 0
    BY DEF Init
  <2>2. /\ count_ = 0 /\ Len(taken) = 0
        /\ Len(sender_queue_) = 0 /\ Len(receiver_queue_) = 0
    BY DEF Init
  <2> QED BY <2>1, <2>2 DEF Sums, StatNames
<1>2. ChannelInv /\ StatsAccount /\ [Next]_vars => StatsAccount'
  <2> SUFFICES ASSUME ChannelInv, StatsAccount, [Next]_vars, EnableStats
               PROVE  Sums'
    BY Zenon DEF StatsAccount, Sums
  <2>1. Sums
    BY Zenon DEF StatsAccount, Sums
  <2> QED BY <2>1, StatsStep
<1> QED BY <1>1, <1>2, ChannelInitInv, ChannelStep, PTL DEF Spec
----------------------------------------------------------------------------
(* Where a value can be: with the caller that was given it, in the buffer, *)
(* with a receiver, or refused, and never in two of these places           *)

(* B is the buffer, T what was taken, O the offers, N what was refused and *)
(* G all values given to a sending call so far.                            *)
Excl(B, T, O, N, G) ==
  /\ B \in Seq(Values) /\ T \in Seq(Values) /\ O \in [Callers -> Seq(Values)]
  /\ IsInjective(B) /\ IsInjective(T)
  /\ \A c \in Callers : IsInjective(O[c])
  /\ Range(B) \subseteq G /\ Range(T) \subseteq G /\ N \subseteq G
  /\ \A c \in Callers : Range(O[c]) \subseteq G
  /\ Range(B) \cap Range(T) = {} /\ Range(B) \cap N = {} /\ Range(T) \cap N = {}
  /\ \A c \in Callers : \A x \in Range(O[c]) :
       x \notin Range(B) /\ x \notin Range(T) /\ x \notin N
  /\ \A c, d \in Callers : c # d => Range(O[c]) \cap Range(O[d]) = {}

(* The value v is in none of the places. *)
Free(B, T, O, N, G, v) ==
  /\ Excl(B, T, O, N, G) /\ v \in Values /\ v \in G
  /\ v \notin Range(B) /\ v \notin Range(T) /\ v \notin N
  /\ \A c \in Callers : v \notin Range(O[c])

(* The first value of an offer is moved out of it. *)
LEMMA FreeOffer ==
  ASSUME NEW B, NEW T, NEW O, NEW N, NEW G, NEW c, NEW x, NEW P,
         Excl(B, T, O, N, G), c \in Callers, O[c] # <<>>,
         x = <<>> \/ x = Tail(O[c]), P = [O EXCEPT ![c] = x]
  PROVE  Free(B, T, P, N, G, Head(O[c]))
<1>1. /\ O \in [Callers -> Seq(Values)] /\ O[c] \in Seq(Values)
      /\ IsInjective(O[c])
  BY DEF Excl
<1>2. /\ Head(O[c]) \in Values /\ Range(O[c]) = {Head(O[c])} \cup Range(Tail(O[c]))
      /\ Tail(O[c]) \in Seq(Values) /\ IsInjective(Tail(O[c]))
      /\ Head(O[c]) \notin Range(Tail(O[c]))
  BY <1>1, PopLemma
<1>3. /\ x \in Seq(Values) /\ IsInjective(x) /\ Range(x) \subseteq Range(O[c])
      /\ Head(O[c]) \notin Range(x) /\ Head(O[c]) \in Range(O[c])
  BY <1>2, EmptyQueueLemma
<1>4. /\ P \in [Callers -> Seq(Values)] /\ P[c] = x
      /\ \A d \in Callers : d # c => P[d] = O[d]
  BY <1>1, <1>3
<1> DEFINE v == Head(O[c])
<1> HIDE DEF v
<1>5. v \in Values /\ v \in Range(O[c]) /\ v \notin Range(x)
  BY <1>2, <1>3 DEF v
<1>6. Excl(B, T, P, N, G)
  <2>1. \A d \in Callers : IsInjective(P[d]) /\ Range(P[d]) \subseteq Range(O[d])
    BY <1>3, <1>4 DEF Excl
  <2> QED BY <1>4, <2>1 DEF Excl
<1>7. /\ v \in G /\ v \notin Range(B) /\ v \notin Range(T) /\ v \notin N
  BY <1>5 DEF Excl
<1>8. \A d \in Callers : v \notin Range(P[d])
  BY <1>4, <1>5 DEF Excl
<1> QED BY <1>5, <1>6, <1>7, <1>8 DEF Free, v

(* The first value of the buffer is moved out of it. *)
LEMMA FreePop ==
  ASSUME NEW B, NEW T, NEW O, NEW N, NEW G, Excl(B, T, O, N, G), B # <<>>
  PROVE  Free(Tail(B), T, O, N, G, Head(B))
<1>1. /\ Head(B) \in Values /\ Range(B) = {Head(B)} \cup Range(Tail(B))
      /\ Tail(B) \in Seq(Values) /\ IsInjective(Tail(B))
      /\ Head(B) \notin Range(Tail(B))
  BY PopLemma DEF Excl
<1> QED BY <1>1 DEF Free, Excl

(* A free value goes to the buffer (Push). *)
LEMMA PutBuffer ==
  ASSUME NEW B, NEW T, NEW O, NEW N, NEW G, NEW v, Free(B, T, O, N, G, v)
  PROVE  Excl(Append(B, v), T, O, N, G)
<1>1. /\ Append(B, v) \in Seq(Values) /\ IsInjective(Append(B, v))
      /\ Range(Append(B, v)) = Range(B) \cup {v}
  BY PushLemma DEF Free, Excl
<1> QED BY <1>1 DEF Free, Excl

(* A free value goes to a receiver (HandOff). *)
LEMMA PutTaken ==
  ASSUME NEW B, NEW T, NEW O, NEW N, NEW G, NEW v, Free(B, T, O, N, G, v)
  PROVE  Excl(B, Append(T, v), O, N, G)
<1>1. /\ Append(T, v) \in Seq(Values) /\ IsInjective(Append(T, v))
      /\ Range(Append(T, v)) = Range(T) \cup {v}
  BY PushLemma DEF Free, Excl
<1> QED BY <1>1 DEF Free, Excl

(* An offer is withdrawn, its values refused. *)
LEMMA PutRefused ==
  ASSUME NEW B, NEW T, NEW O, NEW N, NEW G, NEW c, NEW P,
         Excl(B, T, O, N, G), c \in Callers, P = [O EXCEPT ![c] = <<>>]
  PROVE  Excl(B, T, P, N \cup Range(O[c]), G)
<1>1. /\ O \in [Callers -> Seq(Values)] /\ <<>> \in Seq(Values)
      /\ Range(<<>>) = {} /\ IsInjective(<<>>)
  BY EmptyQueueLemma DEF Excl
<1>2. /\ P \in [Callers -> Seq(Values)] /\ IsInjective(P[c]) /\ Range(P[c]) = {}
      /\ \A d \in Callers : d # c => P[d] = O[d]
  BY <1>1
<1> QED BY <1>2 DEF Excl

(* Values nobody was given before are given to a call, or refused at once. *)
LEMMA GiveFresh ==
  ASSUME NEW B, NEW T, NEW O, NEW N, NEW G, NEW c, NEW F,
         Excl(B, T, O, N, G), c \in Callers, F \in Seq(Values), IsInjective(F),
         Range(F) \cap G = {}
  PROVE  /\ Excl(B, T, [O EXCEPT ![c] = F], N, G \cup Range(F))
         /\ Excl(B, T, O, N \cup Range(F), G \cup Range(F))
<1> DEFINE P == [O EXCEPT ![c] = F]
<1>1. /\ P \in [Callers -> Seq(Values)] /\ P[c] = F
      /\ \A d \in Callers : d # c => P[d] = O[d]
  BY DEF Excl
<1> HIDE DEF P
<1>2. Excl(B, T, P, N, G \cup Range(F))
  BY <1>1 DEF Excl
<1>3. Excl(B, T, O, N \cup Range(F), G \cup Range(F))
  BY DEF Excl
<1> QED BY <1>2, <1>3 DEF P

(* A value nobody was given before is free (try_send's argument). *)
LEMMA FreeFresh ==
  ASSUME NEW B, NEW T, NEW O, NEW N, NEW G, NEW v,
         Excl(B, T, O, N, G), v \in Values, v \notin G
  PROVE  Free(B, T, O, N, G \cup {v}, v)
  BY DEF Excl, Free
----------------------------------------------------------------------------
(* The flow of values through the channel *)

Given == 1..nextValue - 1
Delivered == Range(Buffered) \cup Range(taken)

ExclNow == Excl(Buffered, taken, offer, nacked, Given)

(* What was taken is with one receiving call, or was returned by one. *)
HeldInv ==
  /\ \A c, d \in Callers : c # d => Range(got[c]) \cap Range(got[d]) = {}
  /\ \A c \in Callers : returned \cap Range(got[c]) = {}
  /\ Range(taken) = returned \cup UNION {Range(got[c]) : c \in Callers}

(* What a sending call was given it still offers, or it was delivered.  A  *)
(* send() that waits offers its one value; one that close() failed still   *)
(* does, and one taken off the queue otherwise does not.                   *)
SentOf(c) ==
  /\ Range(arg[c]) \subseteq Range(offer[c]) \cup Delivered
  /\ pc[c] = "send" \/ c \in Range(sender_queue_) \/ failed[c]
       => arg[c] = offer[c] /\ Range(offer[c]) = {Head(offer[c])}
  /\ failed[c] => close_ /\ pc[c] \in {"parkedSend", "resumeSend"}
  /\ pc[c] \in {"parkedSend", "resumeSend"}
       /\ c \notin Range(sender_queue_) /\ ~failed[c] => offer[c] = <<>>
SentInv == acked \subseteq Delivered /\ \A c \in Callers : SentOf(c)

FlowInv == ExclNow /\ HeldInv /\ SentInv

(* The values of one more call are new. *)
LEMMA FreshNew ==
  ASSUME nextValue \in 1..MaxSends + 1, NEW n \in Nat, n # 0,
         nextValue + n - 1 <= MaxSends
  PROVE  /\ Fresh(n) \in Seq(Values) /\ IsInjective(Fresh(n)) /\ Fresh(n) # <<>>
         /\ Range(Fresh(n)) \cap Given = {}
         /\ 1..(nextValue + n) - 1 = Given \cup Range(Fresh(n))
         /\ n = 1 => Range(Fresh(n)) = {nextValue} /\ Head(Fresh(n)) = nextValue
<1>1. Fresh(n) \in Seq(Values) /\ Fresh(n) # <<>>
  BY FreshTyped
<1>2. /\ DOMAIN Fresh(n) = 1..n /\ \A i \in 1..n : Fresh(n)[i] = nextValue + i - 1
  BY DEF Fresh
<1>3. IsInjective(Fresh(n))
  BY <1>2 DEF IsInjective
<1>4. Range(Fresh(n)) = nextValue..nextValue + n - 1
  <2>1. \A x \in nextValue..nextValue + n - 1 :
          x - nextValue + 1 \in 1..n /\ Fresh(n)[x - nextValue + 1] = x
    BY <1>2
  <2>2. \A i \in 1..n : Fresh(n)[i] \in nextValue..nextValue + n - 1
    BY <1>2
  <2>3. ASSUME NEW x \in nextValue..nextValue + n - 1 PROVE x \in Range(Fresh(n))
    BY <1>2, <2>1 DEF Range
  <2>4. ASSUME NEW x \in Range(Fresh(n)) PROVE x \in nextValue..nextValue + n - 1
    <3>1. PICK i \in 1..n : Fresh(n)[i] = x
      BY <1>2, Zenon DEF Range
    <3> QED BY <2>2, <3>1
  <2> QED BY <2>3, <2>4
<1>5. /\ Range(Fresh(n)) \cap Given = {}
      /\ 1..(nextValue + n) - 1 = Given \cup Range(Fresh(n))
  BY <1>4 DEF Given
<1>6. n = 1 => Range(Fresh(n)) = {nextValue} /\ Head(Fresh(n)) = nextValue
  <2>1. Head(Fresh(n)) = Fresh(n)[1]
    BY <1>1
  <2>2. n = 1 => nextValue..nextValue + n - 1 = {nextValue}
    OBVIOUS
  <2> QED BY <1>2, <1>4, <2>1, <2>2
<1> QED BY <1>1, <1>3, <1>5, <1>6

(* A value given away, wherever it came from. *)
LEMMA ExclGive ==
  ASSUME ChannelInv, NEW c, NEW v \in Values, HandOff(c, v) \/ Push(v),
         Free(Buffered, taken, offer', nacked', Given', v)
  PROVE  ExclNow'
<1>1. CASE Push(v)
  <2>1. Buffered' = Append(Buffered, v) /\ taken' = taken
    BY <1>1, PushContents
  <2>2. Excl(Append(Buffered, v), taken, offer', nacked', Given')
    BY PutBuffer
  <2> QED BY <2>1, <2>2 DEF ExclNow
<1>2. CASE HandOff(c, v)
  <2>1. Buffered' = Buffered /\ taken' = Append(taken, v)
    BY <1>2, HandOffContents
  <2>2. Excl(Buffered, Append(taken, v), offer', nacked', Given')
    BY PutTaken
  <2> QED BY <2>1, <2>2 DEF ExclNow
<1> QED BY <1>1, <1>2

(* A value taken. *)
LEMMA ExclTake ==
  ASSUME ChannelInv, ExclNow, NEW c, TakeBuffered(c) \/ TakeDirect(c),
         UNCHANGED <<nacked, nextValue>>
  PROVE  ExclNow'
<1> DEFINE v == Head(Contents)
<1>1. taken' = Append(taken, v) /\ (TakesBuffered(v) \/ TakesRefilled(v) \/ TakesFrom(v))
  BY TakeContents DEF Takes
<1>2. nacked' = nacked /\ Given' = Given
  BY DEF Given
<1> HIDE DEF v
<1>3. ASSUME Buffered # <<>>, v = Head(Buffered)
      PROVE  Excl(Tail(Buffered), taken', offer, nacked, Given)
  <2>1. Free(Tail(Buffered), taken, offer, nacked, Given, v)
    BY <1>3, FreePop DEF ExclNow
  <2>2. Excl(Tail(Buffered), Append(taken, v), offer, nacked, Given)
    BY <2>1, PutTaken
  <2> QED BY <1>1, <2>2
<1>4. CASE TakesBuffered(v)
  <2>1. /\ Buffered # <<>> /\ v = Head(Buffered) /\ Buffered' = Tail(Buffered)
        /\ offer' = offer
    BY <1>4 DEF TakesBuffered
  <2> QED BY <1>2, <1>3, <2>1 DEF ExclNow
<1>5. ASSUME NEW s, PopsSender(s), NEW B, NEW T, Excl(B, T, offer, nacked, Given)
      PROVE  Free(B, T, offer', nacked, Given, Head(offer[s]))
  <2>1. s \in Callers /\ s \in Range(sender_queue_)
    BY <1>5, PopParked
  <2>2. offer[s] # <<>> /\ offer' = [offer EXCEPT ![s] = <<>>]
    BY <1>5, <2>1 DEF PopsSender, ChannelInv, OfferInv
  <2> QED BY <1>5, <2>1, <2>2, FreeOffer
<1>6. CASE TakesRefilled(v)
  <2>1. Buffered # <<>> /\ v = Head(Buffered)
    BY <1>6 DEF TakesRefilled
  <2>2. PICK s : PopsSender(s) /\ Buffered' = Append(Tail(Buffered), Head(offer[s]))
    BY <1>6 DEF TakesRefilled
  <2>3. Free(Tail(Buffered), taken', offer', nacked, Given, Head(offer[s]))
    BY <1>3, <1>5, <2>1, <2>2
  <2>4. Excl(Append(Tail(Buffered), Head(offer[s])), taken', offer', nacked, Given)
    BY <2>3, PutBuffer
  <2> QED BY <1>2, <2>2, <2>4 DEF ExclNow
<1>7. CASE TakesFrom(v)
  <2>1. Buffered' = Buffered
    BY <1>7 DEF TakesFrom
  <2>2. PICK s : PopsSender(s) /\ v = Head(offer[s])
    BY <1>7 DEF TakesFrom
  <2>3. Free(Buffered, taken, offer', nacked, Given, v)
    BY <1>5, <2>2 DEF ExclNow
  <2>4. Excl(Buffered, Append(taken, v), offer', nacked, Given)
    BY <2>3, PutTaken
  <2> QED BY <1>1, <1>2, <2>1, <2>4 DEF ExclNow
<1> QED BY <1>1, <1>4, <1>6, <1>7

(* Every step keeps the places apart. *)
LEMMA ExclStep ==
  ASSUME ChannelInv, ChannelInv', ExclNow, SentInv, NEW c \in Callers,
         Begin(c) \/ Continue(c)
  PROVE  ExclNow'
<1> USE DEF ChannelInv
<1>0. /\ nextValue \in 1..MaxSends + 1
      /\ UNCHANGED ring => Buffered' = Buffered
  BY DEF DataInv, Buffered, Slot, ring
<1>1. CASE Send(c) \/ TrySendMany(c)
  <2>1. PICK n \in Nat : /\ n # 0 /\ nextValue + n - 1 <= MaxSends
                         /\ nextValue' = nextValue + n
                         /\ \/ nacked' = nacked \cup Range(Fresh(n)) /\ offer' = offer
                            \/ /\ offer' = [offer EXCEPT ![c] = Fresh(n)]
                               /\ nacked' = nacked
    <3>1. CASE TrySendMany(c)
      BY <3>1 DEF TrySendMany, Refuse
    <3>2. CASE Send(c)
      <4>1. /\ 1 \in Nat /\ 1 # 0 /\ nextValue + 1 - 1 <= MaxSends
            /\ nextValue' = nextValue + 1
        BY <1>0, <3>2 DEF Send
      <4>2. Range(Fresh(1)) = {nextValue}
        BY <1>0, <4>1, FreshNew
      <4> QED BY <3>2, <4>1, <4>2 DEF Send
    <3> QED BY <1>1, <3>1, <3>2
  <2>2. Buffered' = Buffered /\ taken' = taken
    BY <1>0, <1>1 DEF Send, TrySendMany, Refuse
  <2>3. Given' = Given \cup Range(Fresh(n))
    BY <1>0, <2>1, FreshNew DEF Given
  <2>4. /\ Excl(Buffered, taken, [offer EXCEPT ![c] = Fresh(n)], nacked, Given')
        /\ Excl(Buffered, taken, offer, nacked \cup Range(Fresh(n)), Given')
    <3>1. /\ Fresh(n) \in Seq(Values) /\ IsInjective(Fresh(n))
          /\ Range(Fresh(n)) \cap Given = {}
      BY <1>0, <2>1, FreshNew
    <3> QED BY <2>3, <3>1, GiveFresh DEF ExclNow
  <2> QED BY <2>1, <2>2, <2>4 DEF ExclNow
<1>2. CASE TrySend(c)
  <2>1. /\ 1 # 0 /\ nextValue + 1 - 1 <= MaxSends /\ nextValue' = nextValue + 1
        /\ nextValue \in Values /\ offer' = offer
    BY <1>0, <1>2 DEF TrySend, Values, Refuse
  <2>2. /\ Given' = Given \cup Range(Fresh(1)) /\ Range(Fresh(1)) = {nextValue}
        /\ Range(Fresh(1)) \cap Given = {}
        /\ Fresh(1) \in Seq(Values) /\ IsInjective(Fresh(1))
    BY <1>0, <2>1, FreshNew DEF Given
  <2>3. CASE nacked' = nacked \cup Range(Fresh(1)) /\ UNCHANGED <<ring, taken>>
    <3>1. Excl(Buffered, taken, offer, nacked \cup Range(Fresh(1)), Given')
      BY <2>2, GiveFresh DEF ExclNow
    <3> QED BY <1>0, <2>1, <2>3, <3>1 DEF ExclNow
  <2>4. CASE nacked' = nacked /\ (HandOff(c, nextValue) \/ Push(nextValue))
    <3>1. nextValue \notin Given
      BY <2>2
    <3>2. Free(Buffered, taken, offer, nacked, Given \cup {nextValue}, nextValue)
      BY <2>1, <3>1, FreeFresh DEF ExclNow
    <3>3. Free(Buffered, taken, offer', nacked', Given', nextValue)
      BY <2>1, <2>2, <2>4, <3>2
    <3> QED BY <2>1, <2>4, <3>3, ExclGive
  <2> QED BY <1>2, <2>3, <2>4 DEF TrySend, Refuse
<1>3. CASE Receive(c) \/ TryReceive(c) \/ TryReceiveManyStep(c)
  <2>1. nacked' = nacked /\ nextValue' = nextValue
    BY <1>3 DEF Receive, TryReceive, TryReceiveManyStep, history
  <2>2. CASE TakeBuffered(c) \/ TakeDirect(c)
    BY <2>1, <2>2, ExclTake
  <2>3. CASE UNCHANGED <<ring, offer, taken>>
    BY <1>0, <2>1, <2>3 DEF ExclNow, Given
  <2> QED BY <1>3, <2>2, <2>3 DEF Receive, TryReceive, TryReceiveManyStep
<1>4. CASE SendSuspend(c) \/ TrySendManyStep(c)
  <2>1. /\ nacked' = nacked /\ nextValue' = nextValue /\ offer[c] # <<>>
        /\ Head(offer[c]) \in Values
    BY <1>4, PopLemma DEF SendSuspend, TrySendManyStep, history, OfferInv
  <2>2. Given' = Given
    BY <2>1 DEF Given
  <2>3. CASE UNCHANGED <<ring, offer, taken>>
    BY <1>0, <2>1, <2>2, <2>3 DEF ExclNow
  <2>4. CASE /\ HandOff(c, Head(offer[c])) \/ Push(Head(offer[c]))
             /\ \/ offer' = [offer EXCEPT ![c] = <<>>]
                \/ offer' = [offer EXCEPT ![c] = Tail(offer[c])]
    <3>1. Free(Buffered, taken, offer', nacked, Given, Head(offer[c]))
      BY <2>1, <2>4, FreeOffer DEF ExclNow
    <3>2. Free(Buffered, taken, offer', nacked', Given', Head(offer[c]))
      BY <2>1, <2>2, <3>1
    <3> QED BY <2>1, <2>4, <3>2, ExclGive
  <2> QED BY <1>4, <2>3, <2>4 DEF SendSuspend, TrySendManyStep
<1>5. CASE ResumeSend(c) \/ ReturnSend(c)
  <2>1. /\ offer' = [offer EXCEPT ![c] = <<>>] /\ UNCHANGED <<ring, taken>>
        /\ nextValue' = nextValue
    BY <1>5 DEF ResumeSend, ReturnSend
  <2>2. nacked' = nacked \cup Range(offer[c])
    <3>1. CASE ReturnSend(c)
      BY <3>1 DEF ReturnSend
    <3>2. CASE ResumeSend(c) /\ failed[c]
      BY <3>2 DEF ResumeSend, SentInv, SentOf
    <3>3. CASE ResumeSend(c) /\ ~failed[c]
      <4>1. offer[c] = <<>>
        <5>1. c \notin Range(sender_queue_) /\ pc[c] = "resumeSend"
          BY <3>3, RunnerUnowned DEF ResumeSend, ParkedPCs
        <5> QED BY <3>3, <5>1 DEF SentInv, SentOf
      <4> QED BY <3>3, <4>1, EmptyQueueLemma DEF ResumeSend
    <3> QED BY <1>5, <3>1, <3>2, <3>3
  <2>3. Excl(Buffered, taken, offer', nacked', Given)
    BY <2>1, <2>2, PutRefused DEF ExclNow
  <2> QED BY <1>0, <2>1, <2>3 DEF ExclNow, Given
<1>6. CASE \/ TryReceiveMany(c) \/ Close(c) \/ ResumeRecv(c)
           \/ TrySendManyDone(c) \/ TryReceiveManyDone(c) \/ ReturnClose(c)
           \/ Reschedule(c)
  <2>1. UNCHANGED <<ring, offer, taken, nacked, nextValue>>
    BY <1>6 DEF TryReceiveMany, Close, ResumeRecv, TrySendManyDone,
         TryReceiveManyDone, ReturnClose, Reschedule, client, history
  <2> QED BY <1>0, <2>1 DEF ExclNow, Given
<1> QED BY <1>1, <1>2, <1>3, <1>4, <1>5, <1>6 DEF Begin, Continue

(* One more value is taken, by r. *)
LEMMA HeldAdd ==
  ASSUME ChannelInv, HeldInv, NEW r \in Callers, NEW v \in Values,
         v \notin Range(taken), taken' = Append(taken, v),
         Range(got'[r]) = Range(got[r]) \cup {v},
         \A d \in Callers \ {r} : got'[d] = got[d], returned' = returned
  PROVE  HeldInv'
<1>1. Range(taken') = Range(taken) \cup {v}
  BY PushLemma DEF ChannelInv, DataInv
<1>2. v \notin returned /\ \A d \in Callers : v \notin Range(got[d])
  BY DEF HeldInv
<1>3. UNION {Range(got'[d]) : d \in Callers}
        = {v} \cup UNION {Range(got[d]) : d \in Callers}
  <2>1. \A d \in Callers : Range(got[d]) \subseteq Range(got'[d])
    OBVIOUS
  <2>2. \A d \in Callers : Range(got'[d]) \subseteq Range(got[d]) \cup {v}
    OBVIOUS
  <2>3. ASSUME NEW x PROVE x \in UNION {Range(got'[d]) : d \in Callers}
                           <=> x \in {v} \cup UNION {Range(got[d]) : d \in Callers}
    <3>1. ASSUME NEW d \in Callers, x \in Range(got'[d])
          PROVE  x = v \/ \E e \in Callers : x \in Range(got[e])
      BY <2>2, <3>1
    <3>2. ASSUME NEW d \in Callers, x \in Range(got[d])
          PROVE  \E e \in Callers : x \in Range(got'[e])
      BY <2>1, <3>2
    <3>3. x = v => \E e \in Callers : x \in Range(got'[e])
      OBVIOUS
    <3> QED BY <3>1, <3>2, <3>3
  <2> QED BY <2>3
<1>4. Range(taken') = returned' \cup UNION {Range(got'[d]) : d \in Callers}
  BY <1>1, <1>3 DEF HeldInv
<1>5. ASSUME NEW d \in Callers, NEW e \in Callers, d # e
      PROVE  Range(got'[d]) \cap Range(got'[e]) = {}
  BY <1>2, <1>5 DEF HeldInv
<1>6. ASSUME NEW d \in Callers PROVE returned' \cap Range(got'[d]) = {}
  BY <1>2 DEF HeldInv
<1> QED BY <1>4, <1>5, <1>6 DEF HeldInv

(* A value handed over: the receiver held nothing. *)
LEMMA HeldGive ==
  ASSUME ChannelInv, RecvInv, HeldInv, NEW c, NEW v \in Values,
         v \notin Range(taken), HandOff(c, v) \/ Push(v), returned' = returned
  PROVE  HeldInv'
<1>1. CASE Push(v)
  <2>1. taken' = taken /\ got' = got
    BY <1>1, PushContents
  <2> QED BY <2>1 DEF HeldInv
<1>2. CASE HandOff(c, v)
  <2> DEFINE r == Head(receiver_queue_)
  <2>1. /\ receiver_queue_ # <<>> /\ got' = [got EXCEPT ![r] = <<v>>]
        /\ taken' = Append(taken, v)
    BY <1>2 DEF HandOff
  <2>2. r \in Callers /\ r \in Range(receiver_queue_)
    BY <2>1, PopLemma DEF ChannelInv, OwnInv
  <2> HIDE DEF r
  <2>3. /\ got'[r] = <<v>> /\ \A d \in Callers \ {r} : got'[d] = got[d]
    BY <2>1, <2>2 DEF ChannelInv, DataInv
  <2>4. Range(got[r]) = {}
    BY <2>2, EmptyQueueLemma DEF RecvInv
  <2>5. Range(<<v>>) = {v}
    <3>1. <<v>> \in Seq(Values) /\ Head(<<v>>) = v /\ Tail(<<v>>) = <<>> /\ <<v>> # <<>>
      OBVIOUS
    <3> QED BY <3>1, PopLemma, EmptyQueueLemma
  <2> QED BY <2>1, <2>2, <2>3, <2>4, <2>5, HeldAdd
<1> QED BY <1>1, <1>2

(* The value that a call takes was in nobody's hands. *)
LEMMA TakenNew ==
  ASSUME ChannelInv, ExclNow, NEW c, TakeBuffered(c) \/ TakeDirect(c)
  PROVE  Head(Contents) \notin Range(taken)
<1> DEFINE v == Head(Contents)
<1>1. TakesBuffered(v) \/ TakesRefilled(v) \/ TakesFrom(v)
  BY TakeContents DEF Takes
<1> HIDE DEF v
<1>2. CASE Buffered # <<>> /\ v = Head(Buffered)
  <2>1. v \in Range(Buffered)
    BY <1>2, PopLemma DEF ExclNow, Excl
  <2> QED BY <2>1 DEF ExclNow, Excl, v
<1>3. ASSUME NEW s, PopsSender(s), v = Head(offer[s])
      PROVE  v \notin Range(taken)
  <2>1. s \in Callers /\ s \in Range(sender_queue_)
    BY <1>3, PopParked
  <2>2. v \in Range(offer[s])
    BY <1>3, <2>1, PopLemma DEF ChannelInv, OfferInv
  <2> QED BY <2>1, <2>2 DEF ExclNow, Excl
<1> QED BY <1>1, <1>2, <1>3 DEF TakesBuffered, TakesRefilled, TakesFrom, v

(* Every step keeps the receivers' values apart. *)
LEMMA HeldStep ==
  ASSUME ChannelInv, ExclNow, RecvInv, HeldInv, NEW c \in Callers,
         Begin(c) \/ Continue(c)
  PROVE  HeldInv'
<1> USE DEF ChannelInv
<1>0. got \in [Callers -> Seq(Values)] /\ nextValue \in 1..MaxSends + 1
  BY DEF DataInv
<1>1. CASE TrySend(c)
  <2>1. /\ nextValue \in Values /\ nextValue \notin Range(taken)
        /\ returned' = returned
    BY <1>0, <1>1 DEF TrySend, Values, ExclNow, Excl, Given
  <2>2. CASE HandOff(c, nextValue) \/ Push(nextValue)
    BY <2>1, <2>2, HeldGive
  <2>3. CASE UNCHANGED <<got, taken>>
    BY <2>1, <2>3 DEF HeldInv
  <2> QED BY <1>1, <2>2, <2>3 DEF TrySend, Refuse
<1>2. CASE Receive(c) \/ TryReceive(c) \/ TryReceiveManyStep(c)
  <2>1. returned' = returned
    BY <1>2 DEF Receive, TryReceive, TryReceiveManyStep, history
  <2>2. CASE TakeBuffered(c) \/ TakeDirect(c)
    <3> DEFINE v == Head(Contents)
    <3>1. /\ taken' = Append(taken, v) /\ v \in Values
          /\ got' = [got EXCEPT ![c] = Append(@, v)]
      BY <2>2, TakeContents DEF Takes
    <3>2. v \notin Range(taken)
      BY <2>2, TakenNew
    <3> HIDE DEF v
    <3>3. Range(Append(got[c], v)) = Range(got[c]) \cup {v}
      BY <1>0, <3>1, PushLemma
    <3>4. /\ Range(got'[c]) = Range(got[c]) \cup {v}
          /\ \A d \in Callers \ {c} : got'[d] = got[d]
      BY <1>0, <3>1, <3>3
    <3> QED BY <2>1, <3>1, <3>2, <3>4, HeldAdd
  <2>3. CASE UNCHANGED <<got, taken>>
    BY <2>1, <2>3 DEF HeldInv
  <2> QED BY <1>2, <2>2, <2>3 DEF Receive, TryReceive, TryReceiveManyStep
<1>3. CASE SendSuspend(c) \/ TrySendManyStep(c)
  <2>1. /\ returned' = returned /\ offer[c] # <<>>
        /\ Head(offer[c]) \in Values /\ Head(offer[c]) \in Range(offer[c])
    BY <1>3, PopLemma DEF SendSuspend, TrySendManyStep, history, OfferInv
  <2>2. Head(offer[c]) \notin Range(taken)
    BY <2>1 DEF ExclNow, Excl
  <2>3. CASE HandOff(c, Head(offer[c])) \/ Push(Head(offer[c]))
    BY <2>1, <2>2, <2>3, HeldGive
  <2>4. CASE UNCHANGED <<got, taken>>
    BY <2>1, <2>4 DEF HeldInv
  <2> QED BY <1>3, <2>3, <2>4 DEF SendSuspend, TrySendManyStep
<1>4. CASE ResumeRecv(c)
  <2>1. /\ returned' = returned \cup Range(got[c]) /\ taken' = taken
        /\ got' = [got EXCEPT ![c] = <<>>]
    BY <1>4 DEF ResumeRecv
  <2>2. /\ Range(got'[c]) = {} /\ \A d \in Callers \ {c} : got'[d] = got[d]
    BY <1>0, <2>1, EmptyQueueLemma
  <2>3. returned' \cup UNION {Range(got'[d]) : d \in Callers}
          = returned \cup UNION {Range(got[d]) : d \in Callers}
    BY <2>1, <2>2
  <2>4. \A d, e \in Callers : d # e => Range(got'[d]) \cap Range(got'[e]) = {}
    BY <2>2 DEF HeldInv
  <2>5. \A d \in Callers : returned' \cap Range(got'[d]) = {}
    BY <2>1, <2>2 DEF HeldInv
  <2> QED BY <2>1, <2>3, <2>4, <2>5 DEF HeldInv
<1>5. CASE \/ Send(c) \/ TrySendMany(c) \/ TryReceiveMany(c) \/ Close(c)
           \/ ResumeSend(c) \/ ReturnSend(c) \/ TrySendManyDone(c)
           \/ TryReceiveManyDone(c) \/ ReturnClose(c) \/ Reschedule(c)
  <2>1. UNCHANGED <<got, taken, returned>>
    BY <1>5 DEF Send, TrySendMany, TryReceiveMany, Close, ResumeSend, ReturnSend,
         TrySendManyDone, TryReceiveManyDone, ReturnClose, Reschedule, Refuse,
         client, history
  <2> QED BY <2>1 DEF HeldInv
<1> QED BY <1>1, <1>2, <1>3, <1>4, <1>5 DEF Begin, Continue

(* A step of c that leaves the other sending calls alone. *)
LEMMA SentKept ==
  ASSUME SentInv, NEW c \in Callers, close_' = close_,
         Delivered \subseteq Delivered', acked' \subseteq Delivered',
         \A d \in Callers \ {c} :
           /\ arg'[d] = arg[d] /\ offer'[d] = offer[d] /\ failed'[d] = failed[d]
           /\ pc'[d] = pc[d]
           /\ d \in Range(sender_queue_') <=> d \in Range(sender_queue_),
         SentOf(c)'
  PROVE  SentInv'
<1> SUFFICES ASSUME NEW d \in Callers, d # c PROVE SentOf(d)'
  BY DEF SentInv
<1>1. SentOf(d)
  BY DEF SentInv
<1> QED BY <1>1 DEF SentOf

(* What is delivered stays delivered, and so does what is given away. *)
LEMMA DeliveredGive ==
  ASSUME ChannelInv, NEW c, NEW v \in Values, HandOff(c, v) \/ Push(v)
  PROVE  Delivered' = Delivered \cup {v}
<1>1. Buffered \in Seq(Values) /\ taken \in Seq(Values)
  BY ContentsTyped DEF ChannelInv, DataInv
<1>2. CASE Push(v)
  <2>1. Buffered' = Append(Buffered, v) /\ taken' = taken
    BY <1>2, PushContents
  <2> QED BY <1>1, <2>1, PushLemma DEF Delivered
<1>3. CASE HandOff(c, v)
  <2>1. Buffered' = Buffered /\ taken' = Append(taken, v)
    BY <1>3, HandOffContents
  <2> QED BY <1>1, <2>1, PushLemma DEF Delivered
<1> QED BY <1>2, <1>3

(* A value taken stays delivered, and the sender that is popped has its    *)
(* value delivered.                                                        *)
LEMMA DeliveredTake ==
  ASSUME ChannelInv, NEW c, TakeBuffered(c) \/ TakeDirect(c)
  PROVE  /\ Delivered \subseteq Delivered'
         /\ \/ UNCHANGED <<sender_queue_, offer>>
            \/ \E s : PopsSender(s) /\ Head(offer[s]) \in Delivered'
<1> DEFINE v == Head(Contents)
<1>1. /\ taken' = Append(taken, v) /\ v \in Values
      /\ TakesBuffered(v) \/ TakesRefilled(v) \/ TakesFrom(v)
  BY TakeContents DEF Takes
<1>2. Buffered \in Seq(Values) /\ taken \in Seq(Values)
  BY ContentsTyped DEF ChannelInv, DataInv
<1> HIDE DEF v
<1>3. Range(taken') = Range(taken) \cup {v}
  BY <1>1, <1>2, PushLemma
<1>4. Buffered # <<>> => /\ Range(Buffered) = {Head(Buffered)} \cup Range(Tail(Buffered))
                         /\ Tail(Buffered) \in Seq(Values)
  BY <1>2, PopLemma
<1>5. CASE TakesBuffered(v)
  BY <1>3, <1>4, <1>5 DEF TakesBuffered, Delivered
<1>6. CASE TakesRefilled(v)
  <2>1. PICK s : PopsSender(s) /\ Buffered' = Append(Tail(Buffered), Head(offer[s]))
    BY <1>6 DEF TakesRefilled
  <2>2. Head(offer[s]) \in Values
    BY <2>1, PopParked
  <2>3. Buffered # <<>> /\ v = Head(Buffered)
    BY <1>6 DEF TakesRefilled
  <2>4. Range(Buffered') = Range(Tail(Buffered)) \cup {Head(offer[s])}
    <3> DEFINE q == Tail(Buffered)
    <3> DEFINE w == Head(offer[s])
    <3>1. q \in Seq(Values) /\ w \in Values /\ Buffered' = Append(q, w)
      BY <1>4, <2>1, <2>2, <2>3
    <3> HIDE DEF q, w
    <3>2. Range(Append(q, w)) = Range(q) \cup {w}
      BY ONLY <3>1, PushLemma
    <3> QED BY <3>1, <3>2 DEF q, w
  <2> QED BY <1>3, <1>4, <2>1, <2>3, <2>4 DEF Delivered
<1>7. CASE TakesFrom(v)
  <2>1. PICK s : PopsSender(s) /\ v = Head(offer[s])
    BY <1>7 DEF TakesFrom
  <2>2. Buffered' = Buffered
    BY <1>7 DEF TakesFrom
  <2> QED BY <1>3, <2>1, <2>2 DEF Delivered
<1> QED BY <1>1, <1>5, <1>6, <1>7

(* A receiving call takes a value; the popped sender's send() succeeds. *)
LEMMA SentTake ==
  ASSUME ChannelInv, SentInv, NEW c \in Callers, Runs(c),
         pc[c] \notin {"send", "resumeSend"}, pc'[c] \notin {"send", "resumeSend"},
         TakeBuffered(c) \/ TakeDirect(c), UNCHANGED <<close_, arg, failed, acked>>
  PROVE  SentInv'
<1>1. /\ Delivered \subseteq Delivered'
      /\ \/ UNCHANGED <<sender_queue_, offer>>
         \/ \E s : PopsSender(s) /\ Head(offer[s]) \in Delivered'
  BY DeliveredTake
<1>2. /\ c \notin Range(sender_queue_) /\ SentOf(c) /\ pc'[c] \notin ParkedPCs
      /\ pc[c] \notin ParkedPCs
  BY RunnerUnowned DEF ChannelInv, Runs, SentInv
<1>3. acked' \subseteq Delivered'
  BY <1>1 DEF SentInv
<1>4. ASSUME UNCHANGED <<sender_queue_, offer>> PROVE SentInv'
  <2>1. SentOf(c)'
    BY <1>1, <1>2, <1>4 DEF SentOf, ParkedPCs
  <2> QED BY <1>1, <1>3, <1>4, <2>1, SentKept DEF Runs
<1>5. ASSUME NEW s, PopsSender(s), Head(offer[s]) \in Delivered'
      PROVE  SentInv'
  <2>1. s \in Callers /\ s \in Range(sender_queue_)
    BY <1>5, PopParked
  <2>2. /\ Range(sender_queue_) = {s} \cup Range(sender_queue_')
        /\ s \notin Range(sender_queue_') /\ sender_queue_ # <<>>
    BY <1>5, PopLemma DEF PopsSender, ChannelInv, OwnInv, HandleOwnedOnce
  <2>3. /\ offer'[s] = <<>> /\ \A d \in Callers \ {s} : offer'[d] = offer[d]
    BY <1>5, <2>1 DEF PopsSender, ChannelInv, OfferInv
  <2>4. ~close_ /\ SentOf(s) /\ s # c
    BY <1>2, <2>1, <2>2 DEF ChannelInv, NoMissedMatch, SentInv
  <2>5. ~failed[s] /\ Range(arg[s]) = {Head(offer[s])}
    BY <2>1, <2>4 DEF SentOf
  <2>6. SentOf(s)'
    <3>1. pc'[s] = pc[s] /\ pc[s] = "parkedSend"
      BY <2>1, <2>4 DEF Runs, ChannelInv, OwnInv, HandleOwnedOnce
    <3> QED BY <1>5, <2>2, <2>3, <2>5, <3>1 DEF SentOf
  <2>7. SentOf(c)'
    BY <1>1, <1>2, <2>2, <2>3, <2>4 DEF SentOf, ParkedPCs
  <2>8. ASSUME NEW d \in Callers, d # c, d # s PROVE SentOf(d)'
    <3>1. SentOf(d) /\ pc'[d] = pc[d] /\ offer'[d] = offer[d]
      BY <2>3, <2>8 DEF SentInv, Runs
    <3>2. d \in Range(sender_queue_') <=> d \in Range(sender_queue_)
      BY <2>2, <2>8
    <3> QED BY <1>1, <3>1, <3>2 DEF SentOf
  <2> QED BY <1>3, <2>6, <2>7, <2>8 DEF SentInv
<1> QED BY <1>1, <1>4, <1>5

(* A call is given its values, or is refused them. *)
LEMMA SentBegin ==
  ASSUME ChannelInv, SentInv, NEW c \in Callers, Send(c) \/ TrySendMany(c)
  PROVE  SentInv'
<1> USE DEF ChannelInv
<1>0. /\ UNCHANGED <<ring, taken, close_, sender_queue_, failed, acked>>
      /\ pc[c] = "idle" /\ SentOf(c) /\ nextValue \in 1..MaxSends + 1
      /\ arg \in [Callers -> Seq(Values)] /\ offer \in [Callers -> Seq(Values)]
      /\ pc \in [Callers -> PCs]
  BY DEF Send, TrySendMany, Refuse, Enter, queues, SentInv, DataInv, OwnInv, OfferInv
<1>1. Delivered' = Delivered /\ acked' \subseteq Delivered'
  BY <1>0 DEF Delivered, Buffered, Slot, ring, SentInv
<1>2. ~failed[c] /\ c \notin Range(sender_queue_)
  BY <1>0, RunnerUnowned DEF SentOf, ParkedPCs
<1>3. CASE UNCHANGED <<pc, arg, offer>>
  <2>1. SentOf(c)'
    BY <1>0, <1>1, <1>3 DEF SentOf
  <2> QED BY <1>0, <1>1, <1>3, <2>1, SentKept
<1>4. ASSUME NEW F, NEW p, arg' = [arg EXCEPT ![c] = F],
             offer' = [offer EXCEPT ![c] = F], pc' = [pc EXCEPT ![c] = p],
             \/ p = "trySendMany"
             \/ p = "send" /\ Range(F) = {Head(F)}
      PROVE  SentInv'
  <2>1. SentOf(c)'
    BY <1>0, <1>2, <1>4 DEF SentOf
  <2> QED BY <1>0, <1>1, <1>4, <2>1, SentKept
<1>5. CASE Send(c)
  <2>1. 1 # 0 /\ nextValue + 1 - 1 <= MaxSends
    BY <1>0, <1>5 DEF Send
  <2>2. Range(Fresh(1)) = {Head(Fresh(1))}
    BY <1>0, <2>1, FreshNew
  <2> QED BY <1>3, <1>4, <1>5, <2>2 DEF Send, Goto
<1>6. CASE TrySendMany(c)
  BY <1>3, <1>4, <1>6 DEF TrySendMany, Refuse, Goto
<1> QED BY <1>5, <1>6

(* try_send: the value is delivered at once, or refused. *)
LEMMA SentTry ==
  ASSUME ChannelInv, SentInv, NEW c \in Callers, TrySend(c)
  PROVE  SentInv'
<1> USE DEF ChannelInv
<1>0. /\ UNCHANGED <<close_, sender_queue_, failed, acked, offer>>
      /\ pc[c] = "idle" /\ SentOf(c) /\ nextValue \in 1..MaxSends + 1
      /\ nextValue \in Values /\ arg \in [Callers -> Seq(Values)]
      /\ pc \in [Callers -> PCs]
  <2>1. sender_queue_' = sender_queue_ /\ offer' = offer
    BY DEF TrySend, Refuse, HandOff, Push, queues
  <2>2. /\ close_' = close_ /\ failed' = failed /\ acked' = acked
        /\ pc[c] = "idle" /\ nextValue <= MaxSends
    BY DEF TrySend, Enter
  <2> QED BY <2>1, <2>2 DEF SentInv, DataInv, OwnInv, Values
<1>2. ~failed[c] /\ c \notin Range(sender_queue_)
  BY <1>0, RunnerUnowned DEF SentOf, ParkedPCs
<1>3. CASE UNCHANGED <<pc, arg, ring, taken>>
  <2>1. Delivered' = Delivered /\ acked' \subseteq Delivered'
    BY <1>0, <1>3 DEF Delivered, Buffered, Slot, ring, SentInv
  <2>2. SentOf(c)'
    BY <1>0, <1>3, <2>1 DEF SentOf
  <2> QED BY <1>0, <1>3, <2>1, <2>2, SentKept
<1>4. CASE /\ HandOff(c, nextValue) \/ Push(nextValue)
           /\ arg' = [arg EXCEPT ![c] = Fresh(1)] /\ Goto(c, "returnSend")
  <2>1. Delivered' = Delivered \cup {nextValue}
    BY <1>0, <1>4, DeliveredGive
  <2>2. Range(Fresh(1)) = {nextValue}
    <3>1. 1 # 0 /\ nextValue + 1 - 1 <= MaxSends
      BY <1>0 DEF Values
    <3> QED BY <1>0, <3>1, FreshNew
  <2>3. acked' \subseteq Delivered'
    BY <1>0, <2>1 DEF SentInv
  <2>4. SentOf(c)'
    BY <1>0, <1>2, <1>4, <2>1, <2>2 DEF SentOf, Goto
  <2> QED BY <1>0, <1>4, <2>1, <2>3, <2>4, SentKept DEF Goto
<1> QED BY <1>3, <1>4 DEF TrySend, Refuse

(* SenderAwaiter::await_suspend: failed, delivered or parked. *)
LEMMA SentSuspend ==
  ASSUME ChannelInv, SentInv, NEW c \in Callers, SendSuspend(c)
  PROVE  SentInv'
<1> USE DEF ChannelInv
<1>0. /\ UNCHANGED <<close_, arg, acked>> /\ pc[c] = "send" /\ SentOf(c)
      /\ offer[c] # <<>> /\ Head(offer[c]) \in Values
      /\ offer \in [Callers -> Seq(Values)] /\ pc \in [Callers -> PCs]
      /\ failed \in [Callers -> BOOLEAN] /\ sender_queue_ \in Seq(Callers)
  BY PopLemma DEF SendSuspend, history, SentInv, DataInv, OwnInv, OfferInv
<1>1. /\ ~failed[c] /\ c \notin Range(sender_queue_) /\ arg[c] = offer[c]
      /\ Range(offer[c]) = {Head(offer[c])}
  BY <1>0, RunnerUnowned DEF SentOf, ParkedPCs
<1>2. UNCHANGED <<ring, taken>> => Delivered' = Delivered
  BY DEF Delivered, Buffered, Slot, ring
<1>3. CASE /\ close_ /\ failed' = [failed EXCEPT ![c] = TRUE]
           /\ Goto(c, "resumeSend") /\ UNCHANGED <<ring, queues, offer, taken>>
  <2>1. Delivered' = Delivered /\ acked' \subseteq Delivered'
    BY <1>0, <1>2, <1>3 DEF SentInv
  <2>2. SentOf(c)'
    BY <1>0, <1>1, <1>3, <2>1 DEF SentOf, Goto, queues
  <2> QED BY <1>0, <1>3, <2>1, <2>2, SentKept DEF Goto, queues
<1>4. CASE /\ HandOff(c, Head(offer[c])) \/ Push(Head(offer[c]))
           /\ offer' = [offer EXCEPT ![c] = <<>>]
           /\ Goto(c, "resumeSend") /\ failed' = failed
  <2>1. Delivered' = Delivered \cup {Head(offer[c])} /\ acked' \subseteq Delivered'
    BY <1>0, <1>4, DeliveredGive DEF SentInv
  <2>2. sender_queue_' = sender_queue_
    BY <1>4 DEF HandOff, Push, queues
  <2>3. SentOf(c)'
    BY <1>0, <1>1, <1>4, <2>1, <2>2 DEF SentOf, Goto
  <2> QED BY <1>0, <1>4, <2>1, <2>2, <2>3, SentKept DEF Goto
<1>5. CASE /\ sender_queue_' = Append(sender_queue_, c) /\ Goto(c, "parkedSend")
           /\ UNCHANGED <<ring, offer, failed, taken>>
  <2>1. Delivered' = Delivered /\ acked' \subseteq Delivered'
    BY <1>0, <1>2, <1>5 DEF SentInv
  <2>2. Range(sender_queue_') = Range(sender_queue_) \cup {c}
    BY <1>0, <1>5, PushLemma
  <2>3. SentOf(c)'
    BY <1>0, <1>1, <1>5, <2>1, <2>2 DEF SentOf, Goto
  <2> QED BY <1>0, <1>5, <2>1, <2>2, <2>3, SentKept DEF Goto
<1> QED BY <1>3, <1>4, <1>5 DEF SendSuspend

(* One element of a try_send_many is delivered, the others stay offered. *)
LEMMA SentLoop ==
  ASSUME ChannelInv, SentInv, NEW c \in Callers, TrySendManyStep(c)
  PROVE  SentInv'
<1> USE DEF ChannelInv
<1>0. /\ UNCHANGED <<close_, arg, acked, pc, failed, sender_queue_>>
      /\ pc[c] = "trySendMany" /\ SentOf(c) /\ offer[c] # <<>>
      /\ offer \in [Callers -> Seq(Values)]
      /\ HandOff(c, Head(offer[c])) \/ Push(Head(offer[c]))
      /\ offer' = [offer EXCEPT ![c] = Tail(@)]
  BY DEF TrySendManyStep, HandOff, Push, queues, history, SentInv, OfferInv
<1>1. Head(offer[c]) \in Values /\ Range(offer[c]) = {Head(offer[c])} \cup Range(Tail(offer[c]))
  BY <1>0, PopLemma
<1>2. ~failed[c] /\ c \notin Range(sender_queue_)
  BY <1>0, RunnerUnowned DEF SentOf, ParkedPCs
<1>3. Delivered' = Delivered \cup {Head(offer[c])} /\ acked' \subseteq Delivered'
  BY <1>0, <1>1, DeliveredGive DEF SentInv
<1>4. SentOf(c)'
  BY <1>0, <1>1, <1>2, <1>3 DEF SentOf
<1> QED BY <1>0, <1>3, <1>4, SentKept

(* A sending call returns what it delivered, or throws. *)
LEMMA SentReturn ==
  ASSUME ChannelInv, SentInv, NEW c \in Callers, ResumeSend(c) \/ ReturnSend(c)
  PROVE  SentInv'
<1> USE DEF ChannelInv
<1>0. /\ UNCHANGED <<close_, ring, taken, sender_queue_>>
      /\ pc[c] \in {"resumeSend", "returnSend"} /\ SentOf(c)
      /\ arg' = [arg EXCEPT ![c] = <<>>] /\ offer' = [offer EXCEPT ![c] = <<>>]
      /\ pc' = [pc EXCEPT ![c] = "idle"]
      /\ arg \in [Callers -> Seq(Values)] /\ offer \in [Callers -> Seq(Values)]
      /\ pc \in [Callers -> PCs] /\ failed \in [Callers -> BOOLEAN]
  BY DEF ResumeSend, ReturnSend, Goto, queues, SentInv, OfferInv, OwnInv, DataInv
<1>1. Delivered' = Delivered
  BY <1>0 DEF Delivered, Buffered, Slot, ring
<1>2. c \notin Range(sender_queue_)
  BY <1>0, RunnerUnowned DEF ParkedPCs
<1>3. ~failed'[c] /\ \A d \in Callers \ {c} : failed'[d] = failed[d]
  BY <1>0 DEF ResumeSend, ReturnSend, SentOf
<1>4. acked' \subseteq Delivered
  <2>1. Range(arg[c]) \subseteq Range(offer[c]) \cup Delivered /\ acked \subseteq Delivered
    BY <1>0 DEF SentOf, SentInv
  <2>2. CASE ReturnSend(c)
    BY <2>1, <2>2 DEF ReturnSend
  <2>3. CASE ResumeSend(c) /\ failed[c]
    BY <2>1, <2>3 DEF ResumeSend
  <2>4. CASE ResumeSend(c) /\ ~failed[c]
    <3>1. offer[c] = <<>> /\ acked' = acked \cup Range(arg[c])
      BY <1>0, <1>2, <2>4 DEF SentOf, ResumeSend
    <3> QED BY <2>1, <3>1, EmptyQueueLemma
  <2> QED BY <2>2, <2>3, <2>4
<1>5. SentOf(c)'
  BY <1>0, <1>2, <1>3, EmptyQueueLemma DEF SentOf
<1> QED BY <1>0, <1>1, <1>3, <1>4, <1>5, SentKept

(* close() fails every parked sender, whose value it leaves in place. *)
LEMMA SentClose ==
  ASSUME ChannelInv, SentInv, NEW c \in Callers, Close(c)
  PROVE  SentInv'
<1> USE DEF ChannelInv
<1>0. /\ UNCHANGED <<ring, taken, arg, offer, acked>> /\ ~close_ /\ close_' = TRUE
      /\ failed' = [d \in Callers |-> failed[d] \/ d \in Range(sender_queue_)]
      /\ sender_queue_' = <<>> /\ pc[c] = "idle"
      /\ pc' = [pc EXCEPT ![c] = "returnClose"] /\ pc \in [Callers -> PCs]
  BY DEF Close, Enter, Goto, history, OwnInv
<1>1. Delivered' = Delivered /\ acked' \subseteq Delivered'
  BY <1>0 DEF Delivered, Buffered, Slot, ring, SentInv
<1>2. Range(sender_queue_') = {}
  BY <1>0, EmptyQueueLemma
<1>3. c \notin Range(sender_queue_)
  BY <1>0, RunnerUnowned DEF ParkedPCs
<1>4. ASSUME NEW d \in Callers PROVE SentOf(d)'
  <2>1. SentOf(d)
    BY DEF SentInv
  <2>2. ~failed[d] /\ (failed'[d] <=> d \in Range(sender_queue_))
    BY <1>0, <2>1 DEF SentOf
  <2>3. d \in Range(sender_queue_) => pc'[d] = "parkedSend"
    BY <1>0, <1>3 DEF OwnInv, HandleOwnedOnce
  <2>4. pc'[d] # "send" \/ pc[d] = "send"
    BY <1>0
  <2>5. pc'[d] \in {"parkedSend", "resumeSend"} => pc[d] = pc'[d]
    BY <1>0
  <2> QED BY <1>0, <1>1, <1>2, <2>1, <2>2, <2>3, <2>4, <2>5 DEF SentOf
<1> QED BY <1>1, <1>4 DEF SentInv

(* A popped sender runs on, without its value or failed by close(). *)
LEMMA SentReschedule ==
  ASSUME ChannelInv, SentInv, NEW c \in Callers, Reschedule(c)
  PROVE  SentInv'
<1> USE DEF ChannelInv
<1>9. PICK h : h = Head(wake[c])
  OBVIOUS
<1>0. /\ UNCHANGED <<ring, taken, arg, offer, acked, close_, failed, sender_queue_>>
      /\ pc' = [pc EXCEPT ![h] = IF pc[h] = "parkedSend" THEN "resumeSend"
                                                         ELSE "resumeRecv"]
      /\ wake[c] # <<>> /\ wake[c] \in Seq(Callers) /\ pc \in [Callers -> PCs]
  BY <1>9 DEF Reschedule, Goto, history, client, queues, OwnInv
<1>1. Delivered' = Delivered /\ acked' \subseteq Delivered'
  BY <1>0 DEF Delivered, Buffered, Slot, ring, SentInv
<1>2. h \in Callers /\ h \in Range(wake[c])
  BY <1>0, <1>9, PopLemma
<1>3. Popped(h) /\ ~Queued(h) /\ pc[h] \in ParkedPCs
  BY <1>2 DEF Popped, OwnInv, HandleOwnedOnce, Parked, ParkedPCs
<1>4. SentOf(h) /\ h \notin Range(sender_queue_)
  BY <1>2, <1>3 DEF SentInv, Queued
<1>5. \/ pc[h] = "parkedSend" /\ pc'[h] = "resumeSend"
      \/ pc[h] = "parkedRecv" /\ pc'[h] = "resumeRecv"
  BY <1>0, <1>2, <1>3 DEF ParkedPCs
<1>6. SentOf(h)'
  BY <1>0, <1>1, <1>2, <1>4, <1>5 DEF SentOf
<1> QED BY <1>0, <1>1, <1>2, <1>6, SentKept

(* Every step keeps what sending calls were given. *)
LEMMA SentStep ==
  ASSUME ChannelInv, SentInv, NEW c \in Callers, Begin(c) \/ Continue(c)
  PROVE  SentInv'
<1>0. pc \in [Callers -> PCs] /\ OwnInv
  BY DEF ChannelInv, OwnInv
<1>1. CASE Send(c) \/ TrySendMany(c)
  BY <1>1, SentBegin
<1>2. CASE TrySend(c)
  BY <1>2, SentTry
<1>3. CASE SendSuspend(c)
  BY <1>3, SentSuspend
<1>4. CASE TrySendManyStep(c)
  BY <1>4, SentLoop
<1>5. CASE ResumeSend(c) \/ ReturnSend(c)
  BY <1>5, SentReturn
<1>6. CASE Close(c)
  BY <1>6, SentClose
<1>7. CASE Reschedule(c)
  BY <1>7, SentReschedule
<1>8. ASSUME UNCHANGED <<ring, taken, arg, offer, acked, close_, failed, sender_queue_>>,
             NEW p, pc' = [pc EXCEPT ![c] = p],
             pc[c] \notin {"parkedSend", "parkedRecv", "send", "resumeSend"},
             p \notin {"send", "parkedSend", "resumeSend"}
      PROVE  SentInv'
  <2>1. Delivered' = Delivered /\ acked' \subseteq Delivered'
    BY <1>8 DEF Delivered, Buffered, Slot, ring, SentInv
  <2>2. SentOf(c) /\ c \notin Range(sender_queue_)
    BY <1>0, <1>8, RunnerUnowned DEF SentInv, ParkedPCs
  <2>3. SentOf(c)'
    BY <1>0, <1>8, <2>1, <2>2 DEF SentOf
  <2> QED BY <1>0, <1>8, <2>1, <2>3, SentKept
<1>9. CASE Receive(c) \/ TryReceive(c) \/ TryReceiveManyStep(c)
  <2>1. /\ UNCHANGED <<close_, arg, failed, acked>>
        /\ pc[c] \in {"idle", "tryReceiveMany"}
    BY <1>9 DEF Receive, TryReceive, TryReceiveManyStep, Enter, history
  <2>2. CASE TakeBuffered(c) \/ TakeDirect(c)
    <3>1. /\ pc'[c] \in {"resumeRecv", "tryReceiveMany"} /\ pc' \in [Callers -> PCs]
          /\ \A d \in Callers \ {c} : pc'[d] = pc[d]
      <4>0. ~NothingToTake
        BY <2>2 DEF TakeBuffered, TakeDirect, NothingToTake
      <4>1. \/ pc' = [pc EXCEPT ![c] = "resumeRecv"]
            \/ pc' = pc /\ pc[c] = "tryReceiveMany"
        BY <1>9, <4>0 DEF Receive, TryReceive, TryReceiveManyStep, Goto
      <4> QED BY <1>0, <4>1 DEF PCs
    <3>2. Runs(c)
      BY <2>1, <3>1 DEF Runs, ParkedPCs
    <3> QED BY <2>1, <2>2, <3>1, <3>2, SentTake
  <2>3. CASE /\ UNCHANGED <<ring, taken, offer, sender_queue_>>
             /\ \/ pc' = [pc EXCEPT ![c] = "resumeRecv"]
                \/ pc' = [pc EXCEPT ![c] = "parkedRecv"]
                \/ pc' = pc
    <3>1. PICK p \in {"resumeRecv", "parkedRecv", pc[c]} : pc' = [pc EXCEPT ![c] = p]
      BY <1>0, <2>3
    <3> QED BY <1>8, <2>1, <2>3, <3>1
  <2> QED BY <1>9, <2>2, <2>3 DEF Receive, TryReceive, TryReceiveManyStep, Goto, queues
<1>10. CASE \/ TryReceiveMany(c) \/ ResumeRecv(c) \/ TrySendManyDone(c)
            \/ TryReceiveManyDone(c) \/ ReturnClose(c)
  <2>1. /\ UNCHANGED <<ring, taken, arg, offer, acked, close_, failed, sender_queue_>>
        /\ pc[c] \notin {"parkedSend", "parkedRecv", "send", "resumeSend"}
    BY <1>10 DEF TryReceiveMany, ResumeRecv, TrySendManyDone, TryReceiveManyDone,
         ReturnClose, Enter, client, history, queues
  <2>2. PICK p \in {"tryReceiveMany", "idle", "returnSend", "resumeRecv"} :
          pc' = [pc EXCEPT ![c] = p]
    BY <1>10 DEF TryReceiveMany, ResumeRecv, TrySendManyDone, TryReceiveManyDone,
         ReturnClose, Goto
  <2> QED BY <1>8, <2>1, <2>2
<1> QED BY <1>1, <1>2, <1>3, <1>4, <1>5, <1>6, <1>7, <1>9, <1>10 DEF Begin, Continue
----------------------------------------------------------------------------
(* Nothing was given to anybody when a channel is constructed. *)
LEMMA FlowInit == Init => FlowInv
<1> SUFFICES ASSUME Init PROVE FlowInv
  OBVIOUS
<1>1. Buffered = <<>>
  BY ChannelInitInv, ContentsTyped DEF Init, ChannelInv
<1>2. /\ <<>> \in Seq(Values) /\ Range(<<>>) = {} /\ IsInjective(<<>>)
  BY EmptyQueueLemma
<1>3. Given = {}
  BY DEF Init, Given
<1>4. ExclNow
  BY <1>1, <1>2, <1>3 DEF Init, ExclNow, Excl
<1>5. HeldInv
  BY <1>2 DEF Init, HeldInv
<1>6. SentInv
  BY <1>2 DEF Init, SentInv, SentOf
<1> QED BY <1>4, <1>5, <1>6 DEF FlowInv

(* The flow of values, under every step. *)
LEMMA FlowStep ==
  ASSUME ChannelInv, ChannelInv', LifeInv, FlowInv, [Next]_vars
  PROVE  FlowInv'
<1>1. CASE UNCHANGED vars
  <2>1. Buffered' = Buffered
    BY <1>1 DEF vars, ring, Buffered, Slot
  <2>2. UNCHANGED <<taken, offer, nacked, nextValue, got, returned, acked, arg, pc,
                    sender_queue_, failed, close_>>
    BY <1>1 DEF vars, queues, client, history
  <2>3. ExclNow' /\ HeldInv'
    BY <2>1, <2>2 DEF FlowInv, ExclNow, Given, HeldInv
  <2>4. SentInv'
    BY <2>1, <2>2 DEF FlowInv, SentInv, SentOf, Delivered
  <2> QED BY <2>3, <2>4 DEF FlowInv
<1>2. ASSUME NEW c \in Callers, Begin(c) \/ Continue(c)
      PROVE  FlowInv'
  BY <1>2, ExclStep, HeldStep, SentStep DEF FlowInv, LifeInv
<1> QED BY <1>1, <1>2 DEF Next

(* The channel holds its buffer and what its parked senders offer. *)
LEMMA ContentsRange ==
  ASSUME ChannelInv, NEW v \in Range(Contents)
  PROVE  v \in Range(Buffered) \/ \E s \in Callers : v \in Range(offer[s])
<1>1. /\ Buffered \in Seq(Values) /\ ParkedValues \in Seq(Values)
      /\ sender_queue_ \in Seq(Callers) /\ offer \in [Callers -> Seq(Values)]
      /\ Len(ParkedValues) = Len(sender_queue_)
  BY ContentsTyped DEF ChannelInv, OwnInv, OfferInv
<1>2. v \in Range(Buffered) \/ v \in Range(ParkedValues)
  BY <1>1, JoinLemma DEF Contents
<1>3. ASSUME v \in Range(ParkedValues)
      PROVE  \E s \in Callers : v \in Range(offer[s])
  <2>1. PICK i \in 1..Len(sender_queue_) : v = Head(offer[sender_queue_[i]])
    BY <1>3 DEF Range, ParkedValues
  <2>2. sender_queue_[i] \in Callers /\ sender_queue_[i] \in Range(sender_queue_)
    BY <1>1, LenProperties, ElementOfSeq DEF Range
  <2>3. offer[sender_queue_[i]] # <<>>
    BY <2>2 DEF ChannelInv, OfferInv
  <2>4. v \in Range(offer[sender_queue_[i]])
    BY <1>1, <2>1, <2>2, <2>3, PopLemma
  <2> QED BY <2>2, <2>4
<1> QED BY <1>2, <1>3

(* The parts that the three theorems below rest on hold together. *)
LEMMA FlowHolds == Spec => [](ChannelInv /\ LifeInv /\ FlowInv)
<1>1. Init => ChannelInv /\ LifeInv /\ FlowInv
  BY ChannelInitInv, LifeInit, FlowInit
<1>2. ChannelInv /\ LifeInv /\ FlowInv /\ [Next]_vars
      => (ChannelInv /\ LifeInv /\ FlowInv)'
  BY ChannelStep, LifeStep, FlowStep
<1> QED BY <1>1, <1>2, PTL DEF Spec

(* No value is received twice, and none that was received is still in the  *)
(* channel: every move of a value (hand-off, push, pop, refill) takes it   *)
(* out of the place it was in, for any capacity and number of callers.     *)
THEOREM ChannelTakenOnce == Spec => []TakenOnce
<1>1. ChannelInv /\ FlowInv => TakenOnce
  <2> SUFFICES ASSUME ChannelInv, FlowInv PROVE TakenOnce
    OBVIOUS
  <2>1. IsInjective(taken)
    BY DEF FlowInv, ExclNow, Excl
  <2>2. ASSUME NEW v \in Range(Contents) PROVE v \notin Range(taken)
    BY <2>2, ContentsRange DEF FlowInv, ExclNow, Excl
  <2> QED BY <2>1, <2>2 DEF TakenOnce, FlowInv, HeldInv
<1> QED BY <1>1, FlowHolds, PTL

(* A send() that threw, a try_send that returned false and the rest of a   *)
(* try_send_many that was cut short left nothing behind, also when close() *)
(* came between the suspension and the resumption of the sender.           *)
THEOREM ChannelNackedNotDelivered == Spec => []NackedNotDelivered
<1>1. ChannelInv /\ FlowInv => NackedNotDelivered
  <2> SUFFICES ASSUME ChannelInv, FlowInv,
                      NEW v \in nacked, v \in Range(Contents) \cup Range(taken)
               PROVE  FALSE
    BY DEF NackedNotDelivered
  <2>1. v \notin Range(taken)
    BY DEF FlowInv, ExclNow, Excl
  <2>2. v \notin Range(Buffered) /\ \A s \in Callers : v \notin Range(offer[s])
    BY DEF FlowInv, ExclNow, Excl
  <2> QED BY <2>1, <2>2, ContentsRange
<1> QED BY <1>1, FlowHolds, PTL

(* A value whose sending call reported success is in the buffer, with a    *)
(* receiving call, or was returned by one: no interleaving of senders,     *)
(* receivers and close() loses it.                                         *)
THEOREM ChannelAckedNotLost == Spec => []AckedNotLost
<1>1. FlowInv => AckedNotLost
  BY DEF FlowInv, SentInv, HeldInv, Delivered, AckedNotLost
<1> QED BY <1>1, FlowHolds, PTL
=============================================================================
