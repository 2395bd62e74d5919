--------------------------- MODULE ChannelProofs ---------------------------
(***************************************************************************)
(* Proofs about Channel for every capacity, any set of callers and any     *)
(* number of values.                                                       *)
(***************************************************************************)
EXTENDS Channel, QueueLemmas

USE CapacityAssumption, BoundsAssumption, FreshConstants, StatsFlag
----------------------------------------------------------------------------
(* Arithmetic of the ring *)

(* An index that has run past the buffer at most once wraps around to its  *)
(* excess (header_ and tail_ modulo capacity_).                            *)
LEMMA WrapLemma ==
  ASSUME NEW C \in Nat \ {0}, NEW a \in Nat, a < 2 * C
  PROVE  a % C = IF a < C THEN a ELSE a - C
<1>1. CASE a < C
  BY <1>1
<1>2. CASE a >= C
  <2>1. (a - C) \in Nat /\ a - C < C /\ a = 1 * C + (a - C)
    BY <1>2
  <2>2. a % C = a - C
    BY <2>1
  <2> QED BY <1>2, <2>2
<1> QED BY <1>1, <1>2

Wrap(a) == IF a < Capacity THEN a ELSE a - Capacity
Offset(h, j) == IF j >= h THEN j - h ELSE j - h + Capacity

(* The successor of an index of the ring, as channel.h computes it. *)
LEMMA NextIndex ==
  ASSUME Capacity > 0, NEW a \in 0..Capacity - 1
  PROVE  /\ (a + 1) % Capacity = Wrap(a + 1)
         /\ Wrap(a + 1) \in 0..Capacity - 1
<1>1. Capacity \in Nat \ {0} /\ a + 1 \in Nat /\ a + 1 < 2 * Capacity
  OBVIOUS
<1>2. (a + 1) % Capacity = IF a + 1 < Capacity THEN a + 1 ELSE a + 1 - Capacity
  BY <1>1, WrapLemma
<1> QED BY <1>1, <1>2 DEF Wrap

(* RingConsistent, slot by slot and without the remainder. *)
RingAt(b, h, t, n) ==
  /\ h \in 0..Capacity - 1 /\ n \in 0..Capacity
  /\ t = Wrap(h + n)
  /\ \A j \in 0..Capacity - 1 : b[j] # NoValue <=> Offset(h, j) < n

RingMod(b, h, t, n) ==
  /\ h < Capacity /\ n <= Capacity
  /\ t = (h + n) % Capacity
  /\ \A k \in 0..Capacity - 1 : b[(h + k) % Capacity] # NoValue <=> k < n

(* The two forms say the same. *)
LEMMA RingForm ==
  ASSUME Capacity > 0, NEW b, NEW h \in Nat, NEW t, NEW n \in Nat
  PROVE  RingMod(b, h, t, n) <=> RingAt(b, h, t, n)
<1>1. ASSUME h < Capacity, n <= Capacity
      PROVE  \A k \in 0..Capacity : (h + k) % Capacity = Wrap(h + k)
  BY <1>1, WrapLemma DEF Wrap
<1>2. ASSUME RingMod(b, h, t, n) PROVE RingAt(b, h, t, n)
  <2>1. h \in 0..Capacity - 1 /\ n \in 0..Capacity
    BY <1>2 DEF RingMod
  <2>4. \A k \in 0..Capacity : (h + k) % Capacity = Wrap(h + k)
    <3>1. h < Capacity /\ n <= Capacity
      BY <1>2, Zenon DEF RingMod
    <3> QED BY <1>1, <3>1, Zenon
  <2>2. t = Wrap(h + n)
    <3>1. (h + n) % Capacity = Wrap(h + n)
      BY <2>1, <2>4, Zenon
    <3> QED BY <1>2, <3>1, Zenon DEF RingMod
  <2>3. ASSUME NEW j \in 0..Capacity - 1
        PROVE  b[j] # NoValue <=> Offset(h, j) < n
    <3>1. /\ Offset(h, j) \in 0..Capacity - 1 /\ Wrap(h + Offset(h, j)) = j
          /\ Offset(h, j) \in 0..Capacity
      BY <2>1 DEF Offset, Wrap
    <3>2. (h + Offset(h, j)) % Capacity = j
      BY <2>4, <3>1, Zenon
    <3> QED BY <1>2, <3>1, <3>2 DEF RingMod
  <2> QED BY <2>1, <2>2, <2>3 DEF RingAt
<1>3. ASSUME RingAt(b, h, t, n) PROVE RingMod(b, h, t, n)
  <2>1. h < Capacity /\ n <= Capacity
    BY <1>3 DEF RingAt
  <2>2. t = (h + n) % Capacity
    BY <1>1, <1>3, <2>1 DEF RingAt
  <2>3. ASSUME NEW k \in 0..Capacity - 1
        PROVE  b[(h + k) % Capacity] # NoValue <=> k < n
    <3>1. /\ Wrap(h + k) \in 0..Capacity - 1
          /\ Offset(h, Wrap(h + k)) = k
          /\ (h + k) % Capacity = Wrap(h + k)
      BY <1>1, <2>1 DEF Wrap, Offset
    <3> QED BY <1>3, <3>1 DEF RingAt
  <2> QED BY <2>1, <2>2, <2>3 DEF RingMod
<1> QED BY <1>2, <1>3

(* A push onto a ring that is not full (Push). *)
LEMMA RingPush ==
  ASSUME NEW b \in [0..Capacity - 1 -> Values \cup {NoValue}],
         NEW h, NEW t, NEW n, RingAt(b, h, t, n), n < Capacity,
         NEW v \in Values
  PROVE  /\ t \in 0..Capacity - 1
         /\ (t + 1) % Capacity \in 0..Capacity - 1
         /\ [b EXCEPT ![t] = v] \in [0..Capacity - 1 -> Values \cup {NoValue}]
         /\ RingAt([b EXCEPT ![t] = v], h, (t + 1) % Capacity, n + 1)
<1>1. /\ h \in 0..Capacity - 1 /\ n \in 0..Capacity /\ t = Wrap(h + n)
      /\ Capacity \in Nat \ {0}
  BY DEF RingAt
<1>2. t \in 0..Capacity - 1
  BY <1>1 DEF Wrap
<1>3. (t + 1) % Capacity = Wrap(t + 1)
  BY <1>1, <1>2, NextIndex
<1>4. Wrap(t + 1) = Wrap(h + n + 1) /\ Wrap(t + 1) \in 0..Capacity - 1
  BY <1>1, <1>2 DEF Wrap
<1> DEFINE c == [b EXCEPT ![t] = v]
<1>5. c \in [0..Capacity - 1 -> Values \cup {NoValue}] /\ c[t] = v
      /\ \A j \in 0..Capacity - 1 : j # t => c[j] = b[j]
  BY <1>2
<1> HIDE DEF c
<1>6. ASSUME NEW j \in 0..Capacity - 1
      PROVE  c[j] # NoValue <=> Offset(h, j) < n + 1
  <2>1. Offset(h, j) = n <=> j = t
    BY <1>1, <1>2 DEF Offset, Wrap
  <2>2. Offset(h, j) \in Nat
    BY <1>1 DEF Offset
  <2>3. b[j] # NoValue <=> Offset(h, j) < n
    BY DEF RingAt
  <2>4. v # NoValue
    BY DEF Values
  <2> QED BY <1>1, <1>5, <2>1, <2>2, <2>3, <2>4
<1>7. RingAt(c, h, Wrap(t + 1), n + 1)
  BY <1>1, <1>4, <1>6 DEF RingAt
<1> QED BY <1>2, <1>3, <1>4, <1>5, <1>7 DEF c

(* A pop from a ring that is not empty (TakeBuffered, nobody refills). *)
LEMMA RingPop ==
  ASSUME NEW b \in [0..Capacity - 1 -> Values \cup {NoValue}],
         NEW h, NEW t, NEW n, RingAt(b, h, t, n), n # 0
  PROVE  /\ b[h] \in Values
         /\ (h + 1) % Capacity \in 0..Capacity - 1
         /\ [b EXCEPT ![h] = NoValue]
               \in [0..Capacity - 1 -> Values \cup {NoValue}]
         /\ RingAt([b EXCEPT ![h] = NoValue], (h + 1) % Capacity, t, n - 1)
<1>1. /\ h \in 0..Capacity - 1 /\ n \in 0..Capacity /\ t = Wrap(h + n)
      /\ Capacity \in Nat \ {0}
  BY DEF RingAt
<1>2. b[h] \in Values
  <2>1. Offset(h, h) = 0
    BY <1>1 DEF Offset
  <2> QED BY <1>1, <2>1 DEF RingAt
<1>3. (h + 1) % Capacity = Wrap(h + 1) /\ Wrap(h + 1) \in 0..Capacity - 1
  BY <1>1, NextIndex
<1>4. t = Wrap(Wrap(h + 1) + (n - 1))
  BY <1>1 DEF Wrap
<1> DEFINE c == [b EXCEPT ![h] = NoValue]
<1>5. c \in [0..Capacity - 1 -> Values \cup {NoValue}] /\ c[h] = NoValue
      /\ \A j \in 0..Capacity - 1 : j # h => c[j] = b[j]
  BY <1>1
<1> HIDE DEF c
<1>6. ASSUME NEW j \in 0..Capacity - 1
      PROVE  c[j] # NoValue <=> Offset(Wrap(h + 1), j) < n - 1
  <2>1. j # h => Offset(Wrap(h + 1), j) = Offset(h, j) - 1
    BY <1>1 DEF Offset, Wrap
  <2>2. Offset(Wrap(h + 1), h) = Capacity - 1
    BY <1>1 DEF Offset, Wrap
  <2>3. Offset(h, j) \in Nat
    BY <1>1 DEF Offset
  <2>4. b[j] # NoValue <=> Offset(h, j) < n
    BY DEF RingAt
  <2> QED BY <1>1, <1>5, <2>1, <2>2, <2>3, <2>4
<1>7. RingAt(c, Wrap(h + 1), t, n - 1)
  BY <1>1, <1>3, <1>4, <1>6 DEF RingAt
<1> QED BY <1>2, <1>3, <1>5, <1>7 DEF c

(* A pop from a full ring that a parked sender refills (TakeBuffered): the *)
(* slot just emptied is the one the tail points to.                        *)
LEMMA RingRefill ==
  ASSUME NEW b \in [0..Capacity - 1 -> Values \cup {NoValue}],
         NEW h, NEW t, NEW n, RingAt(b, h, t, n), n # 0, n = Capacity,
         NEW v \in Values
  PROVE  /\ (h + 1) % Capacity \in 0..Capacity - 1
         /\ (t + 1) % Capacity \in 0..Capacity - 1
         /\ [b EXCEPT ![h] = NoValue, ![t] = v]
               \in [0..Capacity - 1 -> Values \cup {NoValue}]
         /\ RingAt([b EXCEPT ![h] = NoValue, ![t] = v], (h + 1) % Capacity,
                   (t + 1) % Capacity, n)
<1>1. /\ h \in 0..Capacity - 1 /\ n = Capacity /\ t = Wrap(h + n)
      /\ Capacity \in Nat \ {0}
  BY DEF RingAt
<1>2. t = h
  BY <1>1 DEF Wrap
<1>3. (h + 1) % Capacity = Wrap(h + 1) /\ Wrap(h + 1) \in 0..Capacity - 1
  BY <1>1, NextIndex
<1> DEFINE c == [b EXCEPT ![h] = NoValue, ![t] = v]
<1>4. c \in [0..Capacity - 1 -> Values \cup {NoValue}] /\ c[h] = v
      /\ \A j \in 0..Capacity - 1 : j # h => c[j] = b[j]
  BY <1>1, <1>2
<1> HIDE DEF c
<1>5. ASSUME NEW j \in 0..Capacity - 1
      PROVE  c[j] # NoValue <=> Offset(Wrap(h + 1), j) < n
  <2>1. Offset(Wrap(h + 1), j) < n
    BY <1>1 DEF Offset, Wrap
  <2>2. Offset(h, j) < n
    BY <1>1 DEF Offset
  <2>3. b[j] # NoValue
    BY <2>2 DEF RingAt
  <2>4. v # NoValue
    BY DEF Values
  <2> QED BY <1>4, <2>1, <2>3, <2>4
<1>6. Wrap(h + 1) = Wrap(Wrap(h + 1) + n)
  BY <1>1 DEF Wrap
<1>7. RingAt(c, Wrap(h + 1), Wrap(t + 1), n)
  BY <1>1, <1>2, <1>3, <1>5, <1>6 DEF RingAt
<1> QED BY <1>2, <1>3, <1>4, <1>7 DEF c
----------------------------------------------------------------------------
(* The inductive invariant, in parts that depend on few variables each *)

RingInv ==
  /\ buffer_ \in [0..Capacity - 1 -> Values \cup {NoValue}]
  /\ header_ \in Nat /\ tail_ \in Nat /\ count_ \in Nat
  /\ RingConsistent

(* Handles: who is parked, queued, popped. *)
OwnInv ==
  /\ sender_queue_ \in Seq(Callers) /\ receiver_queue_ \in Seq(Callers)
  /\ wake \in [Callers -> Seq(Callers)] /\ pc \in [Callers -> PCs]
  /\ HandleOwnedOnce

(* A value is there to be moved out of every awaiter that may be asked. *)
OfferInv ==
  /\ offer \in [Callers -> Seq(Values)]
  /\ \A c \in Callers :
       pc[c] = "send" \/ c \in Range(sender_queue_) => offer[c] # <<>>

(* A caller that is not inside a call holds no popped handle, nor does a   *)
(* try_receive_many that has taken nothing yet.                            *)
WakeInv ==
  \A c \in Callers :
    /\ pc[c] \in {"idle", "send", "parkedSend", "parkedRecv"} => wake[c] = <<>>
    /\ pc[c] = "tryReceiveMany" /\ got[c] = <<>> => wake[c] = <<>>

DataInv ==
  /\ close_ \in BOOLEAN /\ mtx_ \in Callers \cup {Nobody}
  /\ stats \in [StatNames -> Nat]
  /\ arg \in [Callers -> Seq(Values)] /\ got \in [Callers -> Seq(Values)]
  /\ failed \in [Callers -> BOOLEAN] /\ want \in [Callers -> 0..MaxBatch]
  /\ nextValue \in 1..MaxSends + 1 /\ taken \in Seq(Values)
  /\ acked \subseteq Values /\ nacked \subseteq Values
  /\ returned \subseteq Values

ChannelInv ==
  RingInv /\ NoMissedMatch /\ OwnInv /\ OfferInv /\ WakeInv /\ DataInv

(* The parts contain the type invariant (all members of Channel). *)
LEMMA PartsTyped == ChannelInv => TypeOK
  BY DEF ChannelInv, RingInv, OwnInv, OfferInv, DataInv, TypeOK

(* The parts start out true (a channel just constructed). *)
LEMMA ChannelInitInv == Init => ChannelInv
<1> SUFFICES ASSUME Init PROVE ChannelInv
  OBVIOUS
<1>1. /\ <<>> \in Seq(Callers) /\ <<>> \in Seq(Values)
      /\ Range(<<>>) = {} /\ IsInjective(<<>>)
  BY EmptyQueueLemma
<1>2. RingInv
  <2>1. /\ buffer_ \in [0..Capacity - 1 -> Values \cup {NoValue}]
        /\ header_ = 0 /\ tail_ = 0 /\ count_ = 0
    BY DEF Init
  <2>2. ASSUME Capacity > 0 PROVE RingMod(buffer_, header_, tail_, count_)
    <3>1. RingAt(buffer_, header_, tail_, count_)
      BY <2>2 DEF Init, RingAt, Wrap, Offset
    <3> QED BY <2>1, <2>2, <3>1, RingForm
  <2> QED BY <2>1, <2>2 DEF RingInv, RingConsistent, RingMod, Slot
<1>3. NoMissedMatch
  BY DEF Init, NoMissedMatch
<1>4. OwnInv
  <2>1. /\ sender_queue_ = <<>> /\ receiver_queue_ = <<>>
        /\ wake = [c \in Callers |-> <<>>] /\ pc = [c \in Callers |-> "idle"]
    BY DEF Init
  <2>2. HandleOwnedOnce
    BY <1>1, <2>1 DEF HandleOwnedOnce, Parked, Queued, Popped
  <2> QED BY <1>1, <2>1, <2>2 DEF OwnInv, PCs
<1>5. OfferInv
  BY <1>1 DEF Init, OfferInv
<1>6. WakeInv
  BY DEF Init, WakeInv
<1>7. DataInv
  <2>1. stats \in [StatNames -> Nat]
    BY DEF Init
  <2>2. /\ arg \in [Callers -> Seq(Values)] /\ got \in [Callers -> Seq(Values)]
        /\ failed \in [Callers -> BOOLEAN] /\ want \in [Callers -> 0..MaxBatch]
        /\ taken \in Seq(Values)
    BY <1>1 DEF Init
  <2>3. /\ close_ \in BOOLEAN /\ mtx_ \in Callers \cup {Nobody}
        /\ nextValue \in 1..MaxSends + 1
    <3>1. nextValue = 1 /\ close_ = FALSE /\ mtx_ = Nobody
      BY DEF Init
    <3>2. 1 \in 1..MaxSends + 1
      BY BoundsAssumption
    <3>3. FALSE \in BOOLEAN
      OBVIOUS
    <3> QED BY <3>1, <3>2, <3>3, Zenon
  <2>4. /\ acked \subseteq Values /\ nacked \subseteq Values
        /\ returned \subseteq Values
    BY DEF Init
  <2> QED BY <2>1, <2>2, <2>3, <2>4 DEF DataInv
<1> QED BY <1>2, <1>3, <1>4, <1>5, <1>6, <1>7 DEF ChannelInv
----------------------------------------------------------------------------
(* The ring under each helper *)

(* RingConsistent with the remainders gone. *)
LEMMA RingOf ==
  ASSUME RingInv, Capacity > 0
  PROVE  RingAt(buffer_, header_, tail_, count_)
<1>1. RingMod(buffer_, header_, tail_, count_)
  BY DEF RingInv, RingConsistent, RingMod, Slot
<1> QED BY <1>1, RingForm DEF RingInv

(* And back, for the state after a step. *)
LEMMA RingNext ==
  ASSUME Capacity > 0,
         buffer_' \in [0..Capacity - 1 -> Values \cup {NoValue}],
         header_' \in Nat, tail_' \in Nat, count_' \in Nat,
         RingAt(buffer_', header_', tail_', count_')
  PROVE  RingInv'
<1>1. RingMod(buffer_', header_', tail_', count_')
  BY RingForm
<1> QED BY <1>1 DEF RingInv, RingConsistent, RingMod, Slot

(* A push fills the tail slot and no other (Push in send and try_send). *)
LEMMA PushRing ==
  ASSUME RingInv, NEW v \in Values, Push(v)
  PROVE  RingInv' /\ count_' = count_ + 1
<1>1. count_ \in Nat /\ count_ < Capacity /\ Capacity > 0
  BY DEF RingInv, RingConsistent, Push, isFull
<1>2. RingAt(buffer_, header_, tail_, count_)
  BY <1>1, RingOf
<1>3. /\ buffer_' = [buffer_ EXCEPT ![tail_] = v]
      /\ tail_' = (tail_ + 1) % Capacity
      /\ count_' = count_ + 1 /\ header_' = header_
  BY DEF Push
<1>4. /\ tail_' \in 0..Capacity - 1
      /\ buffer_' \in [0..Capacity - 1 -> Values \cup {NoValue}]
      /\ RingAt(buffer_', header_', tail_', count_')
  BY <1>1, <1>2, <1>3, RingPush DEF RingInv
<1> QED BY <1>1, <1>3, <1>4, RingNext DEF RingInv

(* A take empties the head slot; a parked sender refills the tail slot     *)
(* (the receiving calls).                                                  *)
LEMMA TakeRing ==
  ASSUME RingInv, NoMissedMatch, OwnInv, OfferInv, NEW c, TakeBuffered(c)
  PROVE  /\ RingInv'
         /\ buffer_[header_] \in Values
         /\ count_' = IF sender_queue_ = <<>> THEN count_ - 1 ELSE count_
<1>1. count_ \in Nat /\ count_ # 0 /\ Capacity > 0 /\ count_ <= Capacity
  BY DEF RingInv, RingConsistent, TakeBuffered, isEmpty
<1>2. RingAt(buffer_, header_, tail_, count_)
  BY <1>1, RingOf
<1>3. header_' = (header_ + 1) % Capacity
  BY DEF TakeBuffered
<1>4. CASE sender_queue_ = <<>>
  <2>1. /\ buffer_' = [buffer_ EXCEPT ![header_] = NoValue]
        /\ count_' = count_ - 1 /\ tail_' = tail_
    BY <1>4 DEF TakeBuffered
  <2>2. /\ buffer_[header_] \in Values
        /\ header_' \in 0..Capacity - 1
        /\ buffer_' \in [0..Capacity - 1 -> Values \cup {NoValue}]
        /\ RingAt(buffer_', header_', tail_', count_')
    BY <1>1, <1>2, <1>3, <2>1, RingPop DEF RingInv
  <2>3. count_' \in Nat /\ tail_' \in Nat
    BY <1>1, <2>1 DEF RingInv
  <2> QED BY <1>1, <1>4, <2>1, <2>2, <2>3, RingNext
<1>5. CASE sender_queue_ # <<>>
  <2> DEFINE s == Head(sender_queue_)
  <2>1. s \in Callers /\ s \in Range(sender_queue_)
    BY <1>5, PopLemma DEF OwnInv
  <2>2. Head(offer[s]) \in Values
    BY <2>1, PopLemma DEF OfferInv
  <2> HIDE DEF s
  <2>3. /\ buffer_' = [buffer_ EXCEPT ![header_] = NoValue,
                                      ![tail_] = Head(offer[s])]
        /\ count_' = count_ /\ tail_' = (tail_ + 1) % Capacity
    BY <1>5 DEF TakeBuffered, s
  <2>4. count_ = Capacity
    BY <1>5 DEF NoMissedMatch, isFull
  <2>5. buffer_[header_] \in Values
    BY <1>1, <1>2, RingPop DEF RingInv
  <2>6. /\ header_' \in 0..Capacity - 1 /\ tail_' \in 0..Capacity - 1
        /\ buffer_' \in [0..Capacity - 1 -> Values \cup {NoValue}]
        /\ RingAt(buffer_', header_', tail_', count_')
    BY <1>1, <1>2, <1>3, <2>2, <2>3, <2>4, RingRefill DEF RingInv
  <2> QED BY <1>1, <1>5, <2>3, <2>5, <2>6, RingNext
<1> QED BY <1>4, <1>5
----------------------------------------------------------------------------
(* Who owns a handle, under each kind of step *)

ParkedPCs == {"parkedSend", "parkedRecv"}

(* Only c moves, and it neither parks nor was parked. *)
Runs(c) ==
  /\ pc' \in [Callers -> PCs]
  /\ pc[c] \notin ParkedPCs /\ pc'[c] \notin ParkedPCs
  /\ \A d \in Callers \ {c} : pc'[d] = pc[d]

(* A caller that is not suspended has its handle nowhere. *)
LEMMA RunnerUnowned ==
  ASSUME OwnInv, NEW c \in Callers, pc[c] \notin ParkedPCs
  PROVE  /\ c \notin Range(sender_queue_) /\ c \notin Range(receiver_queue_)
         /\ \A d \in Callers : c \notin Range(wake[d])
  BY DEF OwnInv, HandleOwnedOnce, Parked, Queued, Popped, ParkedPCs

(* A step of c that moves no handle. *)
LEMMA OwnQuiet ==
  ASSUME OwnInv, NEW c \in Callers, Runs(c), UNCHANGED <<queues, wake>>
  PROVE  OwnInv'
<1>1. /\ sender_queue_' = sender_queue_ /\ receiver_queue_' = receiver_queue_
      /\ wake' = wake
  BY DEF queues
<1>2. \A d \in Callers : /\ Parked(d)' <=> Parked(d)
                         /\ Queued(d)' <=> Queued(d)
                         /\ Popped(d)' <=> Popped(d)
  BY <1>1 DEF Parked, Queued, Popped, Runs, ParkedPCs
<1>3. /\ \A d \in Range(sender_queue_) : d \in Callers /\ d # c
      /\ \A d \in Range(receiver_queue_) : d \in Callers /\ d # c
  BY RunnerUnowned, RangeLemma DEF OwnInv, Runs
<1>4. HandleOwnedOnce'
  BY <1>1, <1>2, <1>3 DEF OwnInv, HandleOwnedOnce, Runs
<1> QED BY <1>1, <1>4 DEF OwnInv, Runs

(* The first parked receiver goes from its queue to c (HandOff). *)
LEMMA OwnPopReceiver ==
  ASSUME OwnInv, NEW c \in Callers, Runs(c), receiver_queue_ # <<>>,
         receiver_queue_' = Tail(receiver_queue_),
         sender_queue_' = sender_queue_,
         wake' = [wake EXCEPT ![c] = Append(@, Head(receiver_queue_))]
  PROVE  OwnInv'
<1> DEFINE r == Head(receiver_queue_)
<1>1. /\ r \in Callers /\ receiver_queue_' \in Seq(Callers)
      /\ Range(receiver_queue_) = {r} \cup Range(receiver_queue_')
      /\ IsInjective(receiver_queue_') /\ r \notin Range(receiver_queue_')
  BY PopLemma DEF OwnInv, HandleOwnedOnce
<1>2. wake[c] \in Seq(Callers)
  BY DEF OwnInv
<1>3. pc[r] = "parkedRecv" /\ r # c /\ ~Popped(r) /\ Queued(r)
      /\ r \notin Range(sender_queue_)
  BY <1>1 DEF OwnInv, HandleOwnedOnce, Queued, Runs, ParkedPCs
<1> HIDE DEF r
<1>4. /\ wake'[c] = Append(wake[c], r) /\ wake'[c] \in Seq(Callers)
      /\ \A d \in Callers \ {c} : wake'[d] = wake[d]
      /\ wake' \in [Callers -> Seq(Callers)]
  BY <1>1, <1>2, PushLemma DEF OwnInv, r
<1>5. Range(wake'[c]) = Range(wake[c]) \cup {r} /\ IsInjective(wake'[c])
  <2>1. IsInjective(wake[c]) /\ r \notin Range(wake[c])
    BY <1>3 DEF OwnInv, HandleOwnedOnce, Popped
  <2> QED BY <1>1, <1>2, <1>4, <2>1, PushLemma
<1>6. \A d \in Callers : /\ Parked(d)' <=> Parked(d)
                         /\ Queued(d)' <=> Queued(d) /\ d # r
                         /\ Popped(d)' <=> Popped(d) \/ d = r
  <2>1. \A d \in Callers : Parked(d)' <=> Parked(d)
    BY DEF Parked, Runs, ParkedPCs
  <2>2. \A d \in Callers : Queued(d)' <=> Queued(d) /\ d # r
    BY <1>1, <1>3 DEF Queued
  <2>3. \A d \in Callers : Popped(d)' <=> Popped(d) \/ d = r
    BY <1>4, <1>5 DEF Popped
  <2> QED BY <2>1, <2>2, <2>3
<1>7. /\ \A d \in Range(sender_queue_) : d \in Callers /\ d # c
      /\ \A d \in Range(receiver_queue_) : d \in Callers /\ d # c
  BY RunnerUnowned, RangeLemma DEF OwnInv, Runs
<1>8. HandleOwnedOnce'
  <2>1. /\ \A d \in Range(sender_queue_)' : pc'[d] = "parkedSend"
        /\ \A d \in Range(receiver_queue_)' : pc'[d] = "parkedRecv"
    BY <1>1, <1>7 DEF OwnInv, HandleOwnedOnce, Runs
  <2>2. /\ IsInjective(sender_queue_)' /\ IsInjective(receiver_queue_)'
        /\ \A d \in Callers : IsInjective(wake'[d])
    BY <1>1, <1>4, <1>5 DEF OwnInv, HandleOwnedOnce
  <2>3. /\ \A d \in Callers : Parked(d)' <=> Queued(d)' \/ Popped(d)'
        /\ \A d \in Callers : ~(Queued(d)' /\ Popped(d)')
    BY <1>3, <1>6 DEF OwnInv, HandleOwnedOnce
  <2>4. \A d, e \in Callers : d # e => Range(wake'[d]) \cap Range(wake'[e]) = {}
    BY <1>3, <1>4, <1>5 DEF OwnInv, HandleOwnedOnce, Popped
  <2> QED BY <2>1, <2>2, <2>3, <2>4 DEF HandleOwnedOnce
<1> QED BY <1>1, <1>4, <1>8 DEF OwnInv, Runs

(* The first parked sender goes from its queue to c (TakeBuffered and     *)
(* TakeDirect).                                                            *)
LEMMA OwnPopSender ==
  ASSUME OwnInv, NEW c \in Callers, Runs(c), sender_queue_ # <<>>,
         sender_queue_' = Tail(sender_queue_),
         receiver_queue_' = receiver_queue_,
         wake' = [wake EXCEPT ![c] = Append(@, Head(sender_queue_))]
  PROVE  OwnInv'
<1> DEFINE s == Head(sender_queue_)
<1>1. /\ s \in Callers /\ sender_queue_' \in Seq(Callers)
      /\ Range(sender_queue_) = {s} \cup Range(sender_queue_')
      /\ IsInjective(sender_queue_') /\ s \notin Range(sender_queue_')
  BY PopLemma DEF OwnInv, HandleOwnedOnce
<1>2. wake[c] \in Seq(Callers)
  BY DEF OwnInv
<1>3. pc[s] = "parkedSend" /\ s # c /\ ~Popped(s) /\ Queued(s)
      /\ s \notin Range(receiver_queue_)
  BY <1>1 DEF OwnInv, HandleOwnedOnce, Queued, Runs, ParkedPCs
<1> HIDE DEF s
<1>4. /\ wake'[c] = Append(wake[c], s) /\ wake'[c] \in Seq(Callers)
      /\ \A d \in Callers \ {c} : wake'[d] = wake[d]
      /\ wake' \in [Callers -> Seq(Callers)]
  BY <1>1, <1>2, PushLemma DEF OwnInv, s
<1>5. Range(wake'[c]) = Range(wake[c]) \cup {s} /\ IsInjective(wake'[c])
  <2>1. IsInjective(wake[c]) /\ s \notin Range(wake[c])
    BY <1>3 DEF OwnInv, HandleOwnedOnce, Popped
  <2> QED BY <1>1, <1>2, <1>4, <2>1, PushLemma
<1>6. \A d \in Callers : /\ Parked(d)' <=> Parked(d)
                         /\ Queued(d)' <=> Queued(d) /\ d # s
                         /\ Popped(d)' <=> Popped(d) \/ d = s
  <2>1. \A d \in Callers : Parked(d)' <=> Parked(d)
    BY DEF Parked, Runs, ParkedPCs
  <2>2. \A d \in Callers : Queued(d)' <=> Queued(d) /\ d # s
    BY <1>1, <1>3 DEF Queued
  <2>3. \A d \in Callers : Popped(d)' <=> Popped(d) \/ d = s
    BY <1>4, <1>5 DEF Popped
  <2> QED BY <2>1, <2>2, <2>3
<1>7. /\ \A d \in Range(receiver_queue_) : d \in Callers /\ d # c
      /\ \A d \in Range(sender_queue_) : d \in Callers /\ d # c
  BY RunnerUnowned, RangeLemma DEF OwnInv, Runs
<1>8. HandleOwnedOnce'
  <2>1. /\ \A d \in Range(receiver_queue_)' : pc'[d] = "parkedRecv"
        /\ \A d \in Range(sender_queue_)' : pc'[d] = "parkedSend"
    BY <1>1, <1>7 DEF OwnInv, HandleOwnedOnce, Runs
  <2>2. /\ IsInjective(receiver_queue_)' /\ IsInjective(sender_queue_)'
        /\ \A d \in Callers : IsInjective(wake'[d])
    BY <1>1, <1>4, <1>5 DEF OwnInv, HandleOwnedOnce
  <2>3. /\ \A d \in Callers : Parked(d)' <=> Queued(d)' \/ Popped(d)'
        /\ \A d \in Callers : ~(Queued(d)' /\ Popped(d)')
    BY <1>3, <1>6 DEF OwnInv, HandleOwnedOnce
  <2>4. \A d, e \in Callers : d # e => Range(wake'[d]) \cap Range(wake'[e]) = {}
    BY <1>3, <1>4, <1>5 DEF OwnInv, HandleOwnedOnce, Popped
  <2> QED BY <2>1, <2>2, <2>3, <2>4 DEF HandleOwnedOnce
<1> QED BY <1>1, <1>4, <1>8 DEF OwnInv, Runs

(* c parks as a sender (SenderAwaiter::await_suspend). *)
LEMMA OwnParkSender ==
  ASSUME OwnInv, NEW c \in Callers, pc[c] \notin ParkedPCs,
         sender_queue_' = Append(sender_queue_, c),
         receiver_queue_' = receiver_queue_, wake' = wake,
         pc' = [pc EXCEPT ![c] = "parkedSend"]
  PROVE  OwnInv'
<1>1. /\ c \notin Range(sender_queue_) /\ c \notin Range(receiver_queue_)
      /\ \A d \in Callers : c \notin Range(wake[d])
  BY RunnerUnowned
<1>2. /\ sender_queue_' \in Seq(Callers) /\ IsInjective(sender_queue_')
      /\ Range(sender_queue_') = Range(sender_queue_) \cup {c}
  BY <1>1, PushLemma DEF OwnInv, HandleOwnedOnce
<1>3. pc' \in [Callers -> PCs] /\ pc'[c] = "parkedSend"
      /\ \A d \in Callers \ {c} : pc'[d] = pc[d]
  BY DEF OwnInv, PCs
<1>4. /\ Range(sender_queue_) \subseteq Callers
      /\ Range(receiver_queue_) \subseteq Callers
  BY RangeLemma DEF OwnInv
<1>5. \A d \in Callers : /\ Parked(d)' <=> Parked(d) \/ d = c
                         /\ Queued(d)' <=> Queued(d) \/ d = c
                         /\ Popped(d)' <=> Popped(d)
  BY <1>2, <1>3 DEF Parked, Queued, Popped
<1>6. /\ \A d \in Range(sender_queue_)' : pc'[d] = "parkedSend"
      /\ \A d \in Range(receiver_queue_)' : pc'[d] = "parkedRecv"
  BY <1>1, <1>2, <1>3, <1>4 DEF OwnInv, HandleOwnedOnce
<1>7. /\ \A d \in Callers : Parked(d)' <=> Queued(d)' \/ Popped(d)'
      /\ \A d \in Callers : ~(Queued(d)' /\ Popped(d)')
  <2>1. ~Popped(c)
    BY <1>1 DEF Popped
  <2> QED BY <1>5, <2>1 DEF OwnInv, HandleOwnedOnce
<1>8. HandleOwnedOnce'
  BY <1>2, <1>6, <1>7 DEF OwnInv, HandleOwnedOnce
<1> QED BY <1>2, <1>3, <1>8 DEF OwnInv

(* c parks as a receiver (ReceiverAwaiter::await_suspend). *)
LEMMA OwnParkReceiver ==
  ASSUME OwnInv, NEW c \in Callers, pc[c] \notin ParkedPCs,
         receiver_queue_' = Append(receiver_queue_, c),
         sender_queue_' = sender_queue_, wake' = wake,
         pc' = [pc EXCEPT ![c] = "parkedRecv"]
  PROVE  OwnInv'
<1>1. /\ c \notin Range(receiver_queue_) /\ c \notin Range(sender_queue_)
      /\ \A d \in Callers : c \notin Range(wake[d])
  BY RunnerUnowned
<1>2. /\ receiver_queue_' \in Seq(Callers) /\ IsInjective(receiver_queue_')
      /\ Range(receiver_queue_') = Range(receiver_queue_) \cup {c}
  BY <1>1, PushLemma DEF OwnInv, HandleOwnedOnce
<1>3. pc' \in [Callers -> PCs] /\ pc'[c] = "parkedRecv"
      /\ \A d \in Callers \ {c} : pc'[d] = pc[d]
  BY DEF OwnInv, PCs
<1>4. /\ Range(receiver_queue_) \subseteq Callers
      /\ Range(sender_queue_) \subseteq Callers
  BY RangeLemma DEF OwnInv
<1>5. \A d \in Callers : /\ Parked(d)' <=> Parked(d) \/ d = c
                         /\ Queued(d)' <=> Queued(d) \/ d = c
                         /\ Popped(d)' <=> Popped(d)
  BY <1>2, <1>3 DEF Parked, Queued, Popped
<1>6. /\ \A d \in Range(receiver_queue_)' : pc'[d] = "parkedRecv"
      /\ \A d \in Range(sender_queue_)' : pc'[d] = "parkedSend"
  BY <1>1, <1>2, <1>3, <1>4 DEF OwnInv, HandleOwnedOnce
<1>7. /\ \A d \in Callers : Parked(d)' <=> Queued(d)' \/ Popped(d)'
      /\ \A d \in Callers : ~(Queued(d)' /\ Popped(d)')
  <2>1. ~Popped(c)
    BY <1>1 DEF Popped
  <2> QED BY <1>5, <2>1 DEF OwnInv, HandleOwnedOnce
<1>8. HandleOwnedOnce'
  BY <1>2, <1>6, <1>7 DEF OwnInv, HandleOwnedOnce
<1> QED BY <1>2, <1>3, <1>8 DEF OwnInv

(* All parked handles go to c (close()). *)
LEMMA OwnClose ==
  ASSUME OwnInv, NEW c \in Callers, Runs(c), wake[c] = <<>>,
         sender_queue_' = <<>>, receiver_queue_' = <<>>,
         wake' = [wake EXCEPT ![c] = sender_queue_ \o receiver_queue_]
  PROVE  OwnInv'
<1> DEFINE all == sender_queue_ \o receiver_queue_
<1>1. <<>> \in Seq(Callers) /\ Range(<<>>) = {} /\ IsInjective(<<>>)
  BY EmptyQueueLemma
<1>2. /\ sender_queue_ \in Seq(Callers) /\ receiver_queue_ \in Seq(Callers)
      /\ IsInjective(sender_queue_) /\ IsInjective(receiver_queue_)
      /\ Range(sender_queue_) \cap Range(receiver_queue_) = {}
  BY DEF OwnInv, HandleOwnedOnce
<1>3. /\ all \in Seq(Callers) /\ IsInjective(all)
      /\ Range(all) = Range(sender_queue_) \cup Range(receiver_queue_)
  BY <1>2, JoinLemma
<1> HIDE DEF all
<1>4. /\ wake' \in [Callers -> Seq(Callers)] /\ wake'[c] = all
      /\ \A d \in Callers \ {c} : wake'[d] = wake[d]
  BY <1>3 DEF OwnInv, all
<1>5. \A d \in Callers : Parked(d)' <=> Parked(d)
  BY DEF Parked, Runs, ParkedPCs
<1>6. \A d \in Callers : ~Queued(d)'
  BY <1>1 DEF Queued
<1>7. \A d \in Callers : Popped(d)' <=> Popped(d) \/ Queued(d)
  <2>1. \A d \in Callers : d \in Range(wake'[c]) <=> Queued(d)
    BY <1>3, <1>4 DEF Queued
  <2>2. \A d \in Callers : d \notin Range(wake[c])
    BY <1>1
  <2> QED BY <1>4, <2>1, <2>2 DEF Popped
<1>8. \A d, e \in Callers : d # e => Range(wake'[d]) \cap Range(wake'[e]) = {}
  <2>1. \A d \in Callers \ {c} : Range(wake'[d]) \cap Range(all) = {}
    <3>1. Range(all) \subseteq Callers
      BY <1>3, RangeLemma
    <3>2. \A x \in Range(all) : Queued(x)
      BY <1>3 DEF Queued
    <3> QED BY <1>4, <3>1, <3>2 DEF OwnInv, HandleOwnedOnce, Popped
  <2> QED BY <1>4, <2>1 DEF OwnInv, HandleOwnedOnce
<1>9. HandleOwnedOnce'
  <2>1. /\ \A d \in Range(sender_queue_)' : pc'[d] = "parkedSend"
        /\ \A d \in Range(receiver_queue_)' : pc'[d] = "parkedRecv"
    BY <1>1
  <2>2. /\ IsInjective(sender_queue_)' /\ IsInjective(receiver_queue_)'
        /\ \A d \in Callers : IsInjective(wake'[d])
    BY <1>1, <1>3, <1>4 DEF OwnInv, HandleOwnedOnce
  <2>3. /\ \A d \in Callers : Parked(d)' <=> Queued(d)' \/ Popped(d)'
        /\ \A d \in Callers : ~(Queued(d)' /\ Popped(d)')
    BY <1>5, <1>6, <1>7 DEF OwnInv, HandleOwnedOnce
  <2> QED BY <1>8, <2>1, <2>2, <2>3 DEF HandleOwnedOnce
<1> QED BY <1>1, <1>4, <1>9 DEF OwnInv, Runs

(* c hands on the first handle it popped; that coroutine runs              *)
(* (reschedule_or_resume).                                                 *)
LEMMA OwnReschedule ==
  ASSUME OwnInv, NEW c \in Callers, wake[c] # <<>>,
         NEW p \in PCs \ ParkedPCs, pc' = [pc EXCEPT ![Head(wake[c])] = p],
         wake' = [wake EXCEPT ![c] = Tail(@)], UNCHANGED queues
  PROVE  OwnInv'
<1> DEFINE h == Head(wake[c])
<1>1. /\ h \in Callers /\ Tail(wake[c]) \in Seq(Callers)
      /\ Range(wake[c]) = {h} \cup Range(Tail(wake[c]))
      /\ IsInjective(Tail(wake[c])) /\ h \notin Range(Tail(wake[c]))
  BY PopLemma DEF OwnInv, HandleOwnedOnce
<1>2. Popped(h) /\ ~Queued(h) /\ h \in Range(wake[c])
  BY <1>1 DEF OwnInv, HandleOwnedOnce, Popped
<1> HIDE DEF h
<1>3. /\ wake' \in [Callers -> Seq(Callers)] /\ wake'[c] = Tail(wake[c])
      /\ \A d \in Callers \ {c} : wake'[d] = wake[d]
  BY <1>1 DEF OwnInv
<1>4. /\ pc' \in [Callers -> PCs] /\ pc'[h] = p
      /\ \A d \in Callers \ {h} : pc'[d] = pc[d]
  BY <1>1 DEF OwnInv, h
<1>5. sender_queue_' = sender_queue_ /\ receiver_queue_' = receiver_queue_
  BY DEF queues
<1>6. \A d \in Callers : Queued(d)' <=> Queued(d)
  BY <1>5 DEF Queued
<1>7. \A d \in Callers : Parked(d)' <=> Parked(d) /\ d # h
  BY <1>1, <1>4 DEF Parked, ParkedPCs
<1>8. \A d \in Callers \ {c} : h \notin Range(wake[d])
  BY <1>2 DEF OwnInv, HandleOwnedOnce
<1>9. \A d \in Callers : Popped(d)' <=> Popped(d) /\ d # h
  BY <1>1, <1>3, <1>8 DEF Popped
<1>10. HandleOwnedOnce'
  <2>1. /\ Range(sender_queue_) \subseteq Callers \ {h}
        /\ Range(receiver_queue_) \subseteq Callers \ {h}
    BY <1>2, RangeLemma DEF OwnInv, Queued
  <2>2. /\ \A d \in Range(sender_queue_)' : pc'[d] = "parkedSend"
        /\ \A d \in Range(receiver_queue_)' : pc'[d] = "parkedRecv"
    BY <1>4, <1>5, <2>1 DEF OwnInv, HandleOwnedOnce
  <2>3. /\ IsInjective(sender_queue_)' /\ IsInjective(receiver_queue_)'
        /\ \A d \in Callers : IsInjective(wake'[d])
    BY <1>1, <1>3, <1>5 DEF OwnInv, HandleOwnedOnce
  <2>4. /\ \A d \in Callers : Parked(d)' <=> Queued(d)' \/ Popped(d)'
        /\ \A d \in Callers : ~(Queued(d)' /\ Popped(d)')
    BY <1>2, <1>6, <1>7, <1>9 DEF OwnInv, HandleOwnedOnce
  <2>5. \A d, e \in Callers : d # e => Range(wake'[d]) \cap Range(wake'[e]) = {}
    BY <1>1, <1>3 DEF OwnInv, HandleOwnedOnce
  <2> QED BY <2>2, <2>3, <2>4, <2>5 DEF HandleOwnedOnce
<1> QED BY <1>3, <1>4, <1>5, <1>10 DEF OwnInv
----------------------------------------------------------------------------
(* Small facts about what the helpers compute *)

(* A counter only grows (stats_add). *)
LEMMA StatsInc ==
  ASSUME stats \in [StatNames -> Nat], NEW names, stats_add(Inc(names))
  PROVE  stats' \in [StatNames -> Nat]
<1>1. CASE EnableStats
  <2>1. \A k \in StatNames :
          stats[k] + (IF k \in DOMAIN Inc(names) THEN Inc(names)[k] ELSE 0) \in Nat
    BY DEF Inc
  <2> QED BY <1>1, <2>1 DEF stats_add
<1>2. CASE ~EnableStats
  BY <1>2 DEF stats_add
<1> QED BY <1>1, <1>2

(* The values a sending call is given are values of the model (the bound   *)
(* on the number of sends).                                                *)
LEMMA FreshTyped ==
  ASSUME nextValue \in 1..MaxSends + 1, NEW n \in Nat,
         nextValue + n - 1 <= MaxSends
  PROVE  /\ Fresh(n) \in Seq(Values) /\ Range(Fresh(n)) \subseteq Values
         /\ n # 0 => Fresh(n) # <<>>
         /\ nextValue + n \in 1..MaxSends + 1
<1>1. \A i \in 1..n : nextValue + i - 1 \in Values
  BY DEF Values
<1>2. Fresh(n) \in Seq(Values) /\ Len(Fresh(n)) = n
  BY <1>1 DEF Fresh
<1>3. Range(Fresh(n)) \subseteq Values
  BY <1>2, RangeLemma
<1>4. n # 0 => Fresh(n) # <<>>
  BY <1>2
<1> QED BY <1>2, <1>3, <1>4

(* The sender whose value is moved out leaves the queue (the receiving     *)
(* calls): nobody still queued has an empty awaiter.                       *)
LEMMA PopOffer ==
  ASSUME OwnInv, OfferInv, NEW c \in Callers, Runs(c), pc'[c] # "send",
         sender_queue_ # <<>>, sender_queue_' = Tail(sender_queue_),
         offer' = [offer EXCEPT ![Head(sender_queue_)] = <<>>]
  PROVE  OfferInv' /\ Range(sender_queue_') \subseteq Range(sender_queue_)
<1> DEFINE s == Head(sender_queue_)
<1>1. /\ s \in Callers /\ s \in Range(sender_queue_)
      /\ Range(sender_queue_) = {s} \cup Range(sender_queue_')
      /\ s \notin Range(sender_queue_')
  BY PopLemma DEF OwnInv, HandleOwnedOnce
<1>2. pc[s] = "parkedSend" /\ s # c
  BY <1>1 DEF OwnInv, HandleOwnedOnce, Runs, ParkedPCs
<1> HIDE DEF s
<1>3. offer' \in [Callers -> Seq(Values)]
      /\ \A d \in Callers \ {s} : offer'[d] = offer[d]
  BY <1>1, EmptyQueueLemma DEF OfferInv, s
<1>4. ASSUME NEW d \in Callers,
             pc'[d] = "send" \/ d \in Range(sender_queue_')
      PROVE  offer'[d] # <<>>
  BY <1>1, <1>2, <1>3, <1>4 DEF OfferInv, Runs
<1> QED BY <1>1, <1>3, <1>4 DEF OfferInv
----------------------------------------------------------------------------
(* What each helper that moves a value does, as part of a step of c *)

Moves(c) ==
  /\ RingInv' /\ NoMissedMatch' /\ OwnInv'
  /\ stats' \in [StatNames -> Nat] /\ taken' \in Seq(Values)
  /\ got' \in [Callers -> Seq(Values)]
  /\ Range(sender_queue_') \subseteq Range(sender_queue_)
  /\ \A d \in Callers \ {c} :
       wake'[d] = wake[d] /\ (pc[d] = "tryReceiveMany" => got'[d] = got[d])

(* The value goes to the first parked receiver (HandOff). *)
LEMMA HandOffMoves ==
  ASSUME ChannelInv, NEW c \in Callers, Runs(c), NEW v \in Values,
         HandOff(c, v), close_' = close_
  PROVE  Moves(c)
<1> USE DEF ChannelInv
<1> DEFINE r == Head(receiver_queue_)
<1>1. /\ receiver_queue_ # <<>> /\ receiver_queue_' = Tail(receiver_queue_)
      /\ sender_queue_' = sender_queue_
      /\ wake' = [wake EXCEPT ![c] = Append(@, r)]
      /\ got' = [got EXCEPT ![r] = <<v>>] /\ taken' = Append(taken, v)
      /\ UNCHANGED ring /\ stats_add(Inc({"direct_handoffs"}))
  BY DEF HandOff
<1>2. r \in Callers /\ pc[r] = "parkedRecv"
  BY <1>1, PopLemma DEF OwnInv, HandleOwnedOnce
<1>3. OwnInv'
  BY <1>1, OwnPopReceiver
<1> HIDE DEF r
<1>4. RingInv' /\ count_' = count_
  BY <1>1 DEF RingInv, RingConsistent, Slot, ring
<1>5. NoMissedMatch'
  BY <1>1, <1>4 DEF NoMissedMatch, isFull, isEmpty
<1>6. stats' \in [StatNames -> Nat]
  BY <1>1, StatsInc DEF DataInv
<1>7. taken' \in Seq(Values) /\ got' \in [Callers -> Seq(Values)]
  BY <1>1, <1>2, PushLemma DEF DataInv
<1>8. \A d \in Callers \ {c} :
        wake'[d] = wake[d] /\ (pc[d] = "tryReceiveMany" => got'[d] = got[d])
  BY <1>1, <1>2 DEF OwnInv, DataInv
<1> QED BY <1>1, <1>3, <1>4, <1>5, <1>6, <1>7, <1>8 DEF Moves

(* The value goes to the tail slot (Push). *)
LEMMA PushMoves ==
  ASSUME ChannelInv, NEW c \in Callers, Runs(c), NEW v \in Values,
         Push(v), close_' = close_
  PROVE  Moves(c)
<1> USE DEF ChannelInv
<1>1. /\ receiver_queue_ = <<>> /\ ~isFull
      /\ UNCHANGED <<queues, got, wake, taken>>
      /\ stats_add(Inc({"buffer_pushes"}))
  BY DEF Push
<1>2. RingInv'
  BY PushRing
<1>3. sender_queue_ = <<>> /\ sender_queue_' = <<>> /\ receiver_queue_' = <<>>
  BY <1>1 DEF NoMissedMatch, queues
<1>4. NoMissedMatch'
  BY <1>3 DEF NoMissedMatch
<1>5. OwnInv'
  BY <1>1, OwnQuiet
<1>6. stats' \in [StatNames -> Nat]
  BY <1>1, StatsInc DEF DataInv
<1> QED BY <1>1, <1>2, <1>3, <1>4, <1>5, <1>6 DEF Moves, DataInv

(* The head slot goes to c, and a parked sender refills (TakeBuffered). *)
LEMMA TakeBufferedMoves ==
  ASSUME ChannelInv, NEW c \in Callers, Runs(c), TakeBuffered(c),
         close_' = close_, pc'[c] # "send"
  PROVE  Moves(c) /\ OfferInv' /\ got'[c] # <<>>
<1> USE DEF ChannelInv
<1>1. /\ RingInv' /\ buffer_[header_] \in Values
      /\ count_' = IF sender_queue_ = <<>> THEN count_ - 1 ELSE count_
  BY TakeRing
<1>2. /\ got' = [got EXCEPT ![c] = Append(@, buffer_[header_])]
      /\ taken' = Append(taken, buffer_[header_])
      /\ receiver_queue_' = receiver_queue_ /\ ~isEmpty
  BY DEF TakeBuffered
<1>3. taken' \in Seq(Values) /\ got' \in [Callers -> Seq(Values)]
      /\ got'[c] # <<>> /\ \A d \in Callers \ {c} : got'[d] = got[d]
  <2>1. /\ Append(taken, buffer_[header_]) \in Seq(Values)
        /\ Append(got[c], buffer_[header_]) \in Seq(Values)
        /\ Append(got[c], buffer_[header_]) # <<>>
    BY <1>1, PushLemma DEF DataInv
  <2> QED BY <1>2, <2>1 DEF DataInv
<1>4. receiver_queue_ = <<>>
  BY <1>2 DEF NoMissedMatch
<1>5. CASE sender_queue_ = <<>>
  <2>1. UNCHANGED <<sender_queue_, offer, wake>>
        /\ stats_add(Inc({"buffer_pops"}))
    BY <1>5 DEF TakeBuffered
  <2>2. OwnInv'
    BY <1>2, <2>1, OwnQuiet DEF queues
  <2>3. NoMissedMatch'
    BY <1>2, <1>4, <1>5, <2>1 DEF NoMissedMatch
  <2>4. OfferInv'
    BY <2>1 DEF OfferInv, Runs
  <2>5. stats' \in [StatNames -> Nat]
    BY <2>1, StatsInc DEF DataInv
  <2> QED BY <1>1, <1>3, <2>1, <2>2, <2>3, <2>4, <2>5 DEF Moves
<1>6. CASE sender_queue_ # <<>>
  <2> DEFINE s == Head(sender_queue_)
  <2>1. /\ offer' = [offer EXCEPT ![s] = <<>>]
        /\ wake' = [wake EXCEPT ![c] = Append(@, s)]
        /\ sender_queue_' = Tail(sender_queue_)
        /\ stats_add(Inc({"buffer_pops", "buffer_pushes"}))
    BY <1>6 DEF TakeBuffered
  <2>2. OwnInv'
    BY <1>2, <1>6, <2>1, OwnPopSender
  <2>3. NoMissedMatch'
    BY <1>1, <1>2, <1>4, <1>6, <2>1 DEF NoMissedMatch, isFull
  <2>4. OfferInv' /\ Range(sender_queue_') \subseteq Range(sender_queue_)
    BY <1>6, <2>1, PopOffer
  <2>5. stats' \in [StatNames -> Nat]
    BY <2>1, StatsInc DEF DataInv
  <2>6. \A d \in Callers \ {c} : wake'[d] = wake[d]
    BY <2>1 DEF OwnInv
  <2> QED BY <1>1, <1>3, <2>2, <2>3, <2>4, <2>5, <2>6 DEF Moves
<1> QED BY <1>5, <1>6

(* The first parked sender's value goes to c (TakeDirect). *)
LEMMA TakeDirectMoves ==
  ASSUME ChannelInv, NEW c \in Callers, Runs(c), TakeDirect(c),
         close_' = close_, pc'[c] # "send"
  PROVE  Moves(c) /\ OfferInv' /\ got'[c] # <<>>
<1> USE DEF ChannelInv
<1> DEFINE s == Head(sender_queue_)
<1>1. /\ offer' = [offer EXCEPT ![s] = <<>>] /\ sender_queue_ # <<>>
      /\ wake' = [wake EXCEPT ![c] = Append(@, s)]
      /\ sender_queue_' = Tail(sender_queue_)
      /\ receiver_queue_' = receiver_queue_ /\ UNCHANGED ring
      /\ stats_add(Inc({"direct_handoffs"}))
      /\ got' = [got EXCEPT ![c] = Append(@, Head(offer[s]))]
      /\ taken' = Append(taken, Head(offer[s]))
  BY DEF TakeDirect
<1>2. s \in Callers /\ s \in Range(sender_queue_)
  BY <1>1, PopLemma DEF OwnInv
<1>3. Head(offer[s]) \in Values
  BY <1>2, PopLemma DEF OfferInv
<1>4. taken' \in Seq(Values) /\ got' \in [Callers -> Seq(Values)]
      /\ got'[c] # <<>> /\ \A d \in Callers \ {c} : got'[d] = got[d]
  <2>1. /\ Append(taken, Head(offer[s])) \in Seq(Values)
        /\ Append(got[c], Head(offer[s])) \in Seq(Values)
        /\ Append(got[c], Head(offer[s])) # <<>>
    BY <1>3, PushLemma DEF DataInv
  <2> QED BY <1>1, <2>1 DEF DataInv
<1>5. OwnInv'
  BY <1>1, OwnPopSender
<1>6. RingInv' /\ count_' = count_
  BY <1>1 DEF RingInv, RingConsistent, Slot, ring
<1>7. NoMissedMatch'
  BY <1>1, <1>6 DEF NoMissedMatch, isFull, isEmpty
<1>8. OfferInv' /\ Range(sender_queue_') \subseteq Range(sender_queue_)
  BY <1>1, PopOffer
<1>9. stats' \in [StatNames -> Nat]
  BY <1>1, StatsInc DEF DataInv
<1>10. \A d \in Callers \ {c} : wake'[d] = wake[d]
  BY <1>1 DEF OwnInv
<1> QED BY <1>4, <1>5, <1>6, <1>7, <1>8, <1>9, <1>10 DEF Moves
----------------------------------------------------------------------------
(* The two shapes a step of one caller has: it moves no value, or one *)

(* Going to a place that is not a parked one, or staying at one. *)
LEMMA GotoRuns ==
  ASSUME OwnInv, NEW c \in Callers, pc[c] \notin ParkedPCs,
         NEW p \in PCs \ ParkedPCs, Goto(c, p) \/ (pc' = pc /\ pc[c] = p)
  PROVE  Runs(c) /\ pc'[c] = p
  BY DEF OwnInv, Goto, Runs

(* A step that leaves ring, queues and popped handles alone. *)
LEMMA QuietStep ==
  ASSUME ChannelInv, NEW c \in Callers, Runs(c), DataInv',
         UNCHANGED <<ring, queues, close_, wake>>,
         offer' \in [Callers -> Seq(Values)],
         pc'[c] = "send" => offer'[c] # <<>>,
         \A d \in Callers \ {c} : offer'[d] = offer[d] /\ got'[d] = got[d],
         \/ wake[c] = <<>>
         \/ pc'[c] \notin {"idle", "send", "tryReceiveMany"}
  PROVE  ChannelInv'
<1> USE DEF ChannelInv
<1>1. /\ buffer_' = buffer_ /\ header_' = header_ /\ tail_' = tail_
      /\ count_' = count_ /\ sender_queue_' = sender_queue_
      /\ receiver_queue_' = receiver_queue_ /\ close_' = close_
      /\ wake' = wake
  BY DEF ring, queues
<1>2. RingInv'
  BY <1>1 DEF RingInv, RingConsistent, Slot
<1>3. NoMissedMatch'
  BY <1>1 DEF NoMissedMatch, isFull, isEmpty
<1>4. OwnInv'
  BY OwnQuiet
<1>5. OfferInv'
  <2>1. c \notin Range(sender_queue_)
    BY RunnerUnowned DEF Runs
  <2> QED BY <1>1, <2>1 DEF OfferInv, Runs
<1>6. WakeInv'
  <2>1. ASSUME NEW d \in Callers, d # c
        PROVE  pc'[d] = pc[d] /\ got'[d] = got[d] /\ wake'[d] = wake[d]
    BY <1>1, <2>1 DEF Runs
  <2>2. \/ wake'[c] = <<>>
        \/ pc'[c] \notin {"idle", "send", "tryReceiveMany"}
    BY <1>1
  <2>3. pc'[c] \notin {"parkedSend", "parkedRecv"}
    BY DEF Runs, ParkedPCs
  <2> QED BY <2>1, <2>2, <2>3 DEF WakeInv
<1> QED BY <1>2, <1>3, <1>4, <1>5, <1>6

(* A step that moves one value. *)
LEMMA MoveStep ==
  ASSUME ChannelInv, NEW c \in Callers, Runs(c), Moves(c), OfferInv',
         close_' = close_, mtx_' = mtx_,
         UNCHANGED <<failed, want, acked, nacked, returned>>,
         arg' \in [Callers -> Seq(Values)], nextValue' \in 1..MaxSends + 1,
         pc'[c] \notin {"idle", "send"},
         pc'[c] = "tryReceiveMany" => got'[c] # <<>>
  PROVE  ChannelInv'
<1> USE DEF ChannelInv
<1>1. DataInv'
  BY DEF DataInv, Moves
<1>2. WakeInv'
  <2>1. pc'[c] \notin {"parkedSend", "parkedRecv"}
    BY DEF Runs, ParkedPCs
  <2> QED BY <2>1 DEF WakeInv, Moves, Runs
<1> QED BY <1>1, <1>2 DEF Moves

(* A sender gives up the value it moved; nobody else's awaiter changes. *)
LEMMA GiveUp ==
  ASSUME OwnInv, OfferInv, NEW c \in Callers, Runs(c), pc'[c] # "send",
         NEW rest \in Seq(Values), offer' = [offer EXCEPT ![c] = rest],
         Range(sender_queue_') \subseteq Range(sender_queue_)
  PROVE  OfferInv'
<1>1. c \notin Range(sender_queue_)
  BY RunnerUnowned DEF Runs
<1>2. /\ offer' \in [Callers -> Seq(Values)]
      /\ \A d \in Callers \ {c} : offer'[d] = offer[d]
  BY DEF OfferInv
<1> QED BY <1>1, <1>2 DEF OfferInv, Runs
----------------------------------------------------------------------------
(* Every action keeps the invariant *)

(* send(): the value is still the caller's. *)
LEMMA SendInv ==
  ASSUME ChannelInv, NEW c \in Callers, Send(c)
  PROVE  ChannelInv'
<1> USE DEF ChannelInv
<1>1. /\ pc[c] = "idle" /\ wake[c] = <<>> /\ pc[c] \notin ParkedPCs
      /\ nextValue + 1 - 1 <= MaxSends /\ nextValue' = nextValue + 1
      /\ UNCHANGED <<ring, queues, close_, wake>> /\ got' = got
  BY DEF Send, Enter, WakeInv, DataInv, ParkedPCs
<1>0. nextValue \in 1..MaxSends + 1 /\ nextValue <= MaxSends
  BY <1>1, BoundsAssumption DEF DataInv
<1>2. /\ Fresh(1) \in Seq(Values) /\ Fresh(1) # <<>>
      /\ nextValue' \in 1..MaxSends + 1 /\ nextValue \in Values
  <2>1. Fresh(1) \in Seq(Values) /\ Fresh(1) # <<>>
    BY <1>0, <1>1, FreshTyped
  <2>2. nextValue' \in 1..MaxSends + 1 /\ nextValue \in Values
    BY <1>0, <1>1, BoundsAssumption DEF Values
  <2> QED BY <2>1, <2>2
<1>3. CASE close_
  <2>1. /\ pc' = pc /\ arg' = arg /\ offer' = offer
        /\ nacked' = nacked \cup {nextValue}
        /\ stats_add(Inc({"closed_failures"}))
    BY <1>3 DEF Send
  <2>2. Runs(c) /\ pc'[c] = "idle"
    BY <1>1, <2>1, GotoRuns DEF PCs, ParkedPCs
  <2>3. stats' \in [StatNames -> Nat]
    BY <2>1, StatsInc DEF DataInv
  <2>4. DataInv'
    BY <1>1, <1>2, <2>1, <2>3 DEF Send, DataInv
  <2> QED BY <1>1, <2>1, <2>2, <2>4, QuietStep DEF OfferInv
<1>4. CASE ~close_
  <2>1. /\ arg' = [arg EXCEPT ![c] = Fresh(1)] /\ Goto(c, "send")
        /\ offer' = [offer EXCEPT ![c] = Fresh(1)]
        /\ UNCHANGED <<nacked, stats>>
    BY <1>4 DEF Send
  <2>2. Runs(c) /\ pc'[c] = "send"
    BY <1>1, <2>1, GotoRuns DEF PCs, ParkedPCs
  <2>3. DataInv'
    BY <1>1, <1>2, <2>1 DEF Send, DataInv
  <2>4. /\ offer' \in [Callers -> Seq(Values)] /\ offer'[c] # <<>>
        /\ \A d \in Callers \ {c} : offer'[d] = offer[d]
    BY <1>2, <2>1 DEF OfferInv
  <2> QED BY <1>1, <2>2, <2>3, <2>4, QuietStep
<1> QED BY <1>3, <1>4

(* SenderAwaiter::await_suspend: refused, handed off, pushed or parked. *)
LEMMA SendSuspendInv ==
  ASSUME ChannelInv, NEW c \in Callers, SendSuspend(c)
  PROVE  ChannelInv'
<1> USE DEF ChannelInv
<1>1. /\ pc[c] = "send" /\ wake[c] = <<>> /\ pc[c] \notin ParkedPCs
      /\ offer[c] # <<>> /\ offer[c] \in Seq(Values)
      /\ UNCHANGED <<close_, mtx_, arg, want, nextValue, history>>
  BY DEF SendSuspend, WakeInv, OfferInv, ParkedPCs
<1>2. Head(offer[c]) \in Values
  BY <1>1, PopLemma
<1>3. CASE close_
  <2>1. /\ Goto(c, "resumeSend") /\ failed' = [failed EXCEPT ![c] = TRUE]
        /\ stats_add(Inc({"closed_failures"}))
        /\ UNCHANGED <<ring, queues, offer, got, wake, taken>>
    BY <1>3 DEF SendSuspend
  <2>2. Runs(c) /\ pc'[c] = "resumeSend"
    BY <1>1, <2>1, GotoRuns DEF PCs, ParkedPCs
  <2>3. stats' \in [StatNames -> Nat]
    BY <2>1, StatsInc DEF DataInv
  <2>4. DataInv'
    BY <1>1, <2>1, <2>3 DEF DataInv, history
  <2> QED BY <1>1, <2>1, <2>2, <2>4, QuietStep DEF OfferInv
<1>4. CASE /\ HandOff(c, Head(offer[c])) \/ Push(Head(offer[c]))
           /\ offer' = [offer EXCEPT ![c] = <<>>] /\ failed' = failed
           /\ Goto(c, "resumeSend")
  <2>1. Runs(c) /\ pc'[c] = "resumeSend"
    BY <1>1, <1>4, GotoRuns DEF PCs, ParkedPCs
  <2>2. Moves(c)
    BY <1>1, <1>2, <1>4, <2>1, HandOffMoves, PushMoves
  <2>3. OfferInv'
    BY <1>4, <2>1, <2>2, GiveUp, EmptyQueueLemma DEF Moves
  <2> QED BY <1>1, <1>4, <2>1, <2>2, <2>3, MoveStep DEF DataInv, history
<1>5. CASE /\ ~close_ /\ NoRoom /\ Goto(c, "parkedSend")
           /\ sender_queue_' = Append(sender_queue_, c)
           /\ stats_add(Inc({"sender_waits"}))
           /\ UNCHANGED <<ring, receiver_queue_, offer, got, failed, wake, taken>>
  <2>1. OwnInv'
    BY <1>1, <1>5, OwnParkSender DEF Goto
  <2>2. RingInv' /\ NoMissedMatch'
    BY <1>1, <1>5 DEF RingInv, RingConsistent, Slot, NoMissedMatch, NoRoom,
                      isFull, isEmpty, ring
  <2>3. stats' \in [StatNames -> Nat]
    BY <1>5, StatsInc DEF DataInv
  <2>4. DataInv'
    BY <1>1, <1>5, <2>3 DEF DataInv, history
  <2>5. pc'[c] = "parkedSend" /\ \A d \in Callers \ {c} : pc'[d] = pc[d]
    BY <1>5 DEF Goto, OwnInv
  <2>6. Range(sender_queue_') = Range(sender_queue_) \cup {c}
    BY <1>5, PushLemma DEF OwnInv
  <2>7. OfferInv'
    BY <1>1, <1>5, <2>5, <2>6 DEF OfferInv
  <2>8. WakeInv'
    BY <1>1, <1>5, <2>5 DEF WakeInv
  <2> QED BY <2>1, <2>2, <2>4, <2>7, <2>8
<1> QED BY <1>3, <1>4, <1>5 DEF SendSuspend

(* The two await_resume and the two returns: values and handles have all   *)
(* been passed on.                                                         *)
LEMMA ReturnInv ==
  ASSUME ChannelInv, NEW c \in Callers,
         ResumeSend(c) \/ ResumeRecv(c) \/ ReturnSend(c) \/ ReturnClose(c)
  PROVE  ChannelInv'
<1> USE DEF ChannelInv
<1>1. /\ pc[c] \notin ParkedPCs /\ wake[c] = <<>> /\ Goto(c, "idle")
      /\ UNCHANGED <<ring, queues, close_, wake>>
      /\ UNCHANGED <<mtx_, stats, nextValue, taken>>
  BY DEF ResumeSend, ResumeRecv, ReturnSend, ReturnClose, ParkedPCs
<1>2. Runs(c) /\ pc'[c] = "idle"
  BY <1>1, GotoRuns DEF PCs, ParkedPCs
<1>3. /\ Range(arg[c]) \subseteq Values /\ Range(offer[c]) \subseteq Values
      /\ Range(got[c]) \subseteq Values /\ <<>> \in Seq(Values)
  BY RangeLemma, EmptyQueueLemma DEF DataInv, OfferInv
<1>4. CASE ResumeSend(c)
  <2>1. /\ arg' = [arg EXCEPT ![c] = <<>>] /\ offer' = [offer EXCEPT ![c] = <<>>]
        /\ failed' = [failed EXCEPT ![c] = FALSE]
        /\ UNCHANGED <<got, want, returned>>
        /\ acked' \in {acked, acked \cup Range(arg[c])}
        /\ nacked' \in {nacked, nacked \cup Range(arg[c])}
    BY <1>4 DEF ResumeSend
  <2>2. DataInv'
    BY <1>1, <1>3, <2>1 DEF DataInv
  <2>3. /\ offer' \in [Callers -> Seq(Values)]
        /\ \A d \in Callers \ {c} : offer'[d] = offer[d] /\ got'[d] = got[d]
    BY <1>3, <2>1 DEF OfferInv
  <2> QED BY <1>1, <1>2, <2>2, <2>3, QuietStep
<1>5. CASE ResumeRecv(c)
  <2>1. /\ got' = [got EXCEPT ![c] = <<>>] /\ want' = [want EXCEPT ![c] = 0]
        /\ UNCHANGED <<arg, offer, failed, acked, nacked>>
        /\ returned' = returned \cup Range(got[c])
    BY <1>5 DEF ResumeRecv
  <2>2. DataInv'
    BY <1>1, <1>3, <2>1 DEF DataInv
  <2>3. /\ offer' \in [Callers -> Seq(Values)]
        /\ \A d \in Callers \ {c} : offer'[d] = offer[d] /\ got'[d] = got[d]
    BY <2>1 DEF OfferInv, DataInv
  <2> QED BY <1>1, <1>2, <2>2, <2>3, QuietStep
<1>6. CASE ReturnSend(c)
  <2>1. /\ arg' = [arg EXCEPT ![c] = <<>>] /\ offer' = [offer EXCEPT ![c] = <<>>]
        /\ UNCHANGED <<got, failed, want, returned>>
        /\ acked' = acked \cup (Range(arg[c]) \ Range(offer[c]))
        /\ nacked' = nacked \cup Range(offer[c])
    BY <1>6 DEF ReturnSend
  <2>2. DataInv'
    BY <1>1, <1>3, <2>1 DEF DataInv
  <2>3. /\ offer' \in [Callers -> Seq(Values)]
        /\ \A d \in Callers \ {c} : offer'[d] = offer[d] /\ got'[d] = got[d]
    BY <1>3, <2>1 DEF OfferInv
  <2> QED BY <1>1, <1>2, <2>2, <2>3, QuietStep
<1>7. CASE ReturnClose(c)
  <2>1. UNCHANGED <<client, history>>
    BY <1>7 DEF ReturnClose
  <2>2. DataInv'
    BY <1>1, <2>1 DEF DataInv, client, history
  <2> QED BY <1>1, <1>2, <2>1, <2>2, QuietStep DEF client, OfferInv
<1> QED BY <1>4, <1>5, <1>6, <1>7

(* ReceiverAwaiter::await_suspend: a value taken, a closed channel, or the *)
(* receiver parks.                                                         *)
LEMMA ReceiveInv ==
  ASSUME ChannelInv, NEW c \in Callers, Receive(c)
  PROVE  ChannelInv'
<1> USE DEF ChannelInv
<1>1. /\ pc[c] = "idle" /\ wake[c] = <<>> /\ pc[c] \notin ParkedPCs
      /\ UNCHANGED <<close_, mtx_, arg, failed, want, nextValue, history>>
  BY DEF Receive, Enter, WakeInv, ParkedPCs
<1>2. CASE (TakeBuffered(c) \/ TakeDirect(c)) /\ Goto(c, "resumeRecv")
  <2>1. Runs(c) /\ pc'[c] = "resumeRecv"
    BY <1>1, <1>2, GotoRuns DEF PCs, ParkedPCs
  <2>2. Moves(c) /\ OfferInv'
    BY <1>1, <1>2, <2>1, TakeBufferedMoves, TakeDirectMoves
  <2> QED BY <1>1, <2>1, <2>2, MoveStep DEF DataInv, history
<1>3. CASE /\ Goto(c, "resumeRecv") /\ stats_add(Inc({"closed_failures"}))
           /\ UNCHANGED <<ring, queues, offer, got, wake, taken>>
  <2>1. Runs(c) /\ pc'[c] = "resumeRecv"
    BY <1>1, <1>3, GotoRuns DEF PCs, ParkedPCs
  <2>2. stats' \in [StatNames -> Nat]
    BY <1>3, StatsInc DEF DataInv
  <2>3. DataInv'
    BY <1>1, <1>3, <2>2 DEF DataInv, history
  <2> QED BY <1>1, <1>3, <2>1, <2>3, QuietStep DEF OfferInv
<1>4. CASE /\ ~close_ /\ NothingToTake /\ Goto(c, "parkedRecv")
           /\ receiver_queue_' = Append(receiver_queue_, c)
           /\ stats_add(Inc({"receiver_waits"}))
           /\ UNCHANGED <<ring, sender_queue_, offer, got, wake, taken>>
  <2>1. OwnInv'
    BY <1>1, <1>4, OwnParkReceiver DEF Goto
  <2>2. RingInv' /\ NoMissedMatch'
    BY <1>1, <1>4 DEF RingInv, RingConsistent, Slot, NoMissedMatch,
                      NothingToTake, isFull, isEmpty, ring
  <2>3. stats' \in [StatNames -> Nat]
    BY <1>4, StatsInc DEF DataInv
  <2>4. DataInv'
    BY <1>1, <1>4, <2>3 DEF DataInv, history
  <2>5. pc'[c] = "parkedRecv" /\ \A d \in Callers \ {c} : pc'[d] = pc[d]
    BY <1>4 DEF Goto, OwnInv
  <2>6. OfferInv' /\ WakeInv'
    BY <1>1, <1>4, <2>5 DEF OfferInv, WakeInv
  <2> QED BY <2>1, <2>2, <2>4, <2>6
<1> QED BY <1>2, <1>3, <1>4 DEF Receive

(* A sending call refused under the lock. *)
LEMMA RefuseInv ==
  ASSUME ChannelInv, NEW c \in Callers, pc[c] = "idle",
         NEW n \in Nat, nextValue + n - 1 <= MaxSends,
         nextValue' = nextValue + n, NEW k, Refuse(n, k),
         UNCHANGED <<close_, failed, want, acked, returned>>
  PROVE  ChannelInv'
<1> USE DEF ChannelInv
<1>1. wake[c] = <<>> /\ pc[c] \notin ParkedPCs
  BY DEF WakeInv, ParkedPCs
<1>2. /\ nacked' = nacked \cup Range(Fresh(n)) /\ stats_add(Inc({k}))
      /\ UNCHANGED <<ring, queues, mtx_, pc, arg, offer, got, wake, taken>>
  BY DEF Refuse
<1>3. Runs(c) /\ pc'[c] = "idle"
  BY <1>1, <1>2, GotoRuns DEF PCs, ParkedPCs
<1>4. /\ Range(Fresh(n)) \subseteq Values /\ nextValue' \in 1..MaxSends + 1
  BY FreshTyped DEF DataInv
<1>5. stats' \in [StatNames -> Nat]
  BY <1>2, StatsInc DEF DataInv
<1>6. DataInv'
  BY <1>2, <1>4, <1>5 DEF DataInv
<1> QED BY <1>1, <1>2, <1>3, <1>6, QuietStep DEF OfferInv

(* try_send: refused, handed off or pushed. *)
LEMMA TrySendInv ==
  ASSUME ChannelInv, NEW c \in Callers, TrySend(c)
  PROVE  ChannelInv'
<1> USE DEF ChannelInv
<1>1. /\ pc[c] = "idle" /\ pc[c] \notin ParkedPCs
      /\ nextValue + 1 - 1 <= MaxSends /\ nextValue' = nextValue + 1
      /\ UNCHANGED <<close_, failed, want, acked, returned>>
  BY DEF TrySend, Enter, DataInv, ParkedPCs
<1>0. nextValue \in 1..MaxSends + 1 /\ nextValue <= MaxSends
  BY <1>1, BoundsAssumption DEF DataInv
<1>2. /\ Fresh(1) \in Seq(Values) /\ nextValue \in Values
      /\ nextValue' \in 1..MaxSends + 1
  <2>1. Fresh(1) \in Seq(Values)
    BY <1>0, <1>1, FreshTyped
  <2>2. nextValue' \in 1..MaxSends + 1 /\ nextValue \in Values
    BY <1>0, <1>1, BoundsAssumption DEF Values
  <2> QED BY <2>1, <2>2
<1>3. CASE Refuse(1, "closed_failures") \/ Refuse(1, "try_send_full_failures")
  BY <1>1, <1>3, RefuseInv
<1>4. CASE /\ HandOff(c, nextValue) \/ Push(nextValue)
           /\ arg' = [arg EXCEPT ![c] = Fresh(1)]
           /\ Goto(c, "returnSend") /\ UNCHANGED <<offer, nacked, mtx_>>
  <2>1. Runs(c) /\ pc'[c] = "returnSend"
    BY <1>1, <1>4, GotoRuns DEF PCs, ParkedPCs
  <2>2. Moves(c)
    BY <1>1, <1>2, <1>4, <2>1, HandOffMoves, PushMoves
  <2>3. OfferInv'
    BY <1>4, <2>1, <2>2 DEF OfferInv, Moves, Runs
  <2>4. arg' \in [Callers -> Seq(Values)]
    BY <1>2, <1>4 DEF DataInv
  <2> QED BY <1>1, <1>2, <1>4, <2>1, <2>2, <2>3, <2>4, MoveStep
<1> QED BY <1>3, <1>4 DEF TrySend

(* try_send_many up to its loop. *)
LEMMA TrySendManyInv ==
  ASSUME ChannelInv, NEW c \in Callers, TrySendMany(c)
  PROVE  ChannelInv'
<1> USE DEF ChannelInv
<1>1. PICK n \in 1..MaxBatch :
        /\ Enter(c) /\ nextValue + n - 1 <= MaxSends
        /\ nextValue' = nextValue + n
        /\ \/ close_ /\ Refuse(n, "closed_failures")
           \/ /\ ~close_ /\ mtx_' = c
              /\ arg' = [arg EXCEPT ![c] = Fresh(n)]
              /\ offer' = [offer EXCEPT ![c] = Fresh(n)]
              /\ Goto(c, "trySendMany")
              /\ UNCHANGED <<ring, queues, stats, got, wake, taken, nacked>>
        /\ UNCHANGED <<close_, failed, want, acked, returned>>
  BY DEF TrySendMany
<1>2. pc[c] = "idle" /\ pc[c] \notin ParkedPCs /\ wake[c] = <<>>
  BY <1>1 DEF Enter, ParkedPCs, WakeInv
<1>3. n \in Nat /\ Fresh(n) \in Seq(Values) /\ nextValue' \in 1..MaxSends + 1
  BY <1>1, FreshTyped DEF DataInv
<1>4. CASE Refuse(n, "closed_failures")
  BY <1>1, <1>2, <1>3, <1>4, RefuseInv
<1>5. CASE ~Refuse(n, "closed_failures")
  <2>1. /\ mtx_' = c /\ arg' = [arg EXCEPT ![c] = Fresh(n)]
        /\ offer' = [offer EXCEPT ![c] = Fresh(n)] /\ Goto(c, "trySendMany")
        /\ UNCHANGED <<ring, queues, stats, got, wake, taken, nacked>>
    BY <1>1, <1>5
  <2>2. Runs(c) /\ pc'[c] = "trySendMany"
    BY <1>2, <2>1, GotoRuns DEF PCs, ParkedPCs
  <2>3. DataInv'
    BY <1>1, <1>3, <2>1 DEF DataInv
  <2>4. /\ offer' \in [Callers -> Seq(Values)]
        /\ \A d \in Callers \ {c} : offer'[d] = offer[d] /\ got'[d] = got[d]
    BY <1>3, <2>1 DEF OfferInv
  <2> QED BY <1>1, <1>2, <2>1, <2>2, <2>3, <2>4, QuietStep
<1> QED BY <1>4, <1>5

(* An iteration of the loop of try_send_many, and its end. *)
LEMMA TrySendManyLoopInv ==
  ASSUME ChannelInv, NEW c \in Callers,
         TrySendManyStep(c) \/ TrySendManyDone(c)
  PROVE  ChannelInv'
<1> USE DEF ChannelInv
<1>1. pc[c] = "trySendMany" /\ pc[c] \notin ParkedPCs /\ close_' = close_
  BY DEF TrySendManyStep, TrySendManyDone, ParkedPCs
<1>2. CASE TrySendManyStep(c)
  <2>1. /\ HandOff(c, Head(offer[c])) \/ Push(Head(offer[c]))
        /\ offer[c] # <<>> /\ offer' = [offer EXCEPT ![c] = Tail(offer[c])]
        /\ UNCHANGED <<mtx_, pc, arg, failed, want, nextValue, history>>
    BY <1>2 DEF TrySendManyStep
  <2>2. offer[c] \in Seq(Values)
    BY DEF OfferInv
  <2>3. Head(offer[c]) \in Values /\ Tail(offer[c]) \in Seq(Values)
    BY <2>1, <2>2, PopLemma
  <2>4. Runs(c) /\ pc'[c] = "trySendMany"
    BY <1>1, <2>1, GotoRuns DEF PCs, ParkedPCs
  <2>5. Moves(c)
    BY <1>1, <2>1, <2>3, <2>4, HandOffMoves, PushMoves
  <2>6. OfferInv'
    BY <2>1, <2>3, <2>4, <2>5, GiveUp DEF Moves
  <2> QED BY <1>1, <2>1, <2>4, <2>5, <2>6, MoveStep DEF DataInv, history
<1>3. CASE TrySendManyDone(c)
  <2>1. /\ Goto(c, "returnSend") /\ mtx_' = Nobody
        /\ UNCHANGED <<ring, queues, client, wake, nextValue, taken, history>>
        /\ stats' = stats \/ stats_add(Inc({"try_send_full_failures"}))
    BY <1>3 DEF TrySendManyDone
  <2>2. Runs(c) /\ pc'[c] = "returnSend"
    BY <1>1, <2>1, GotoRuns DEF PCs, ParkedPCs
  <2>3. stats' \in [StatNames -> Nat]
    BY <2>1, StatsInc DEF DataInv
  <2>4. DataInv'
    BY <1>1, <2>1, <2>3 DEF DataInv, client, history
  <2> QED BY <1>1, <2>1, <2>2, <2>4, QuietStep DEF OfferInv, client
<1> QED BY <1>2, <1>3

(* try_receive: a value taken, or nothing changes. *)
LEMMA TryReceiveInv ==
  ASSUME ChannelInv, NEW c \in Callers, TryReceive(c)
  PROVE  ChannelInv'
<1> USE DEF ChannelInv
<1>1. /\ pc[c] = "idle" /\ wake[c] = <<>> /\ pc[c] \notin ParkedPCs
      /\ UNCHANGED <<close_, mtx_, arg, failed, want, nextValue, history>>
  BY DEF TryReceive, Enter, WakeInv, ParkedPCs
<1>2. CASE (TakeBuffered(c) \/ TakeDirect(c)) /\ Goto(c, "resumeRecv")
  <2>1. Runs(c) /\ pc'[c] = "resumeRecv"
    BY <1>1, <1>2, GotoRuns DEF PCs, ParkedPCs
  <2>2. Moves(c) /\ OfferInv'
    BY <1>1, <1>2, <2>1, TakeBufferedMoves, TakeDirectMoves
  <2> QED BY <1>1, <2>1, <2>2, MoveStep DEF DataInv, history
<1>3. CASE /\ UNCHANGED <<ring, queues, pc, offer, got, wake, taken>>
           /\ stats_add(Inc({IF close_ THEN "closed_failures"
                                       ELSE "try_receive_empty_returns"}))
  <2>1. Runs(c) /\ pc'[c] = "idle"
    BY <1>1, <1>3, GotoRuns DEF PCs, ParkedPCs
  <2>2. stats' \in [StatNames -> Nat]
    BY <1>3, StatsInc DEF DataInv
  <2>3. DataInv'
    BY <1>1, <1>3, <2>2 DEF DataInv, history
  <2> QED BY <1>1, <1>3, <2>1, <2>3, QuietStep DEF OfferInv
<1> QED BY <1>2, <1>3 DEF TryReceive

(* try_receive_many: up to its loop, an iteration, and its end. *)
LEMMA TryReceiveManyInv ==
  ASSUME ChannelInv, NEW c \in Callers,
         TryReceiveMany(c) \/ TryReceiveManyStep(c) \/ TryReceiveManyDone(c)
  PROVE  ChannelInv'
<1> USE DEF ChannelInv
<1>1. CASE TryReceiveMany(c)
  <2>1. PICK n \in 1..MaxBatch : want' = [want EXCEPT ![c] = n]
    BY <1>1 DEF TryReceiveMany
  <2>2. /\ pc[c] = "idle" /\ mtx_' = c /\ Goto(c, "tryReceiveMany")
        /\ UNCHANGED <<ring, close_, queues, stats, arg, offer, got, failed,
                       wake, nextValue, taken, history>>
    BY <1>1 DEF TryReceiveMany, Enter
  <2>3. pc[c] \notin ParkedPCs /\ wake[c] = <<>>
    BY <2>2 DEF ParkedPCs, WakeInv
  <2>4. Runs(c) /\ pc'[c] = "tryReceiveMany"
    BY <2>2, <2>3, GotoRuns DEF PCs, ParkedPCs
  <2>5. want' \in [Callers -> 0..MaxBatch]
    BY <2>1 DEF DataInv
  <2>6. DataInv'
    BY <2>2, <2>5 DEF DataInv, history
  <2> QED BY <2>2, <2>3, <2>4, <2>6, QuietStep DEF OfferInv
<1>2. CASE TryReceiveManyStep(c)
  <2>1. /\ pc[c] = "tryReceiveMany" /\ (TakeBuffered(c) \/ TakeDirect(c))
        /\ UNCHANGED <<close_, mtx_, pc, arg, failed, want, nextValue, history>>
    BY <1>2 DEF TryReceiveManyStep
  <2>2. Runs(c) /\ pc'[c] = "tryReceiveMany"
    BY <2>1, GotoRuns DEF PCs, ParkedPCs
  <2>3. Moves(c) /\ OfferInv' /\ got'[c] # <<>>
    BY <2>1, <2>2, TakeBufferedMoves, TakeDirectMoves
  <2> QED BY <2>1, <2>2, <2>3, MoveStep DEF DataInv, history
<1>3. CASE TryReceiveManyDone(c)
  <2>1. /\ pc[c] = "tryReceiveMany" /\ mtx_' = Nobody
        /\ UNCHANGED <<ring, close_, queues, arg, offer, got, failed, wake,
                       nextValue, taken, history>>
        /\ \/ Goto(c, "resumeRecv") /\ UNCHANGED <<stats, want>>
           \/ /\ got[c] = <<>> /\ Goto(c, "idle")
              /\ want' = [want EXCEPT ![c] = 0]
              /\ stats_add(Inc({IF close_ THEN "closed_failures"
                                          ELSE "try_receive_empty_returns"}))
    BY <1>3 DEF TryReceiveManyDone
  <2>2. \E p \in {"resumeRecv", "idle"} :
          Goto(c, p) /\ (p = "idle" => wake[c] = <<>>)
    BY <2>1 DEF WakeInv
  <2>3. /\ Runs(c) /\ pc'[c] \in {"resumeRecv", "idle"}
        /\ pc'[c] = "idle" => wake[c] = <<>>
    BY <2>1, <2>2, GotoRuns DEF PCs, ParkedPCs
  <2>4. stats' \in [StatNames -> Nat]
    BY <2>1, StatsInc DEF DataInv
  <2>5. want' \in [Callers -> 0..MaxBatch]
    <3>1. want' = want \/ want' = [want EXCEPT ![c] = 0]
      BY <2>1
    <3>2. 0 \in 0..MaxBatch
      OBVIOUS
    <3> QED BY <3>1, <3>2 DEF DataInv
  <2>6. DataInv'
    BY <2>1, <2>4, <2>5 DEF DataInv, history
  <2> QED BY <2>1, <2>3, <2>6, QuietStep DEF OfferInv
<1> QED BY <1>1, <1>2, <1>3

(* close(): both queues go to the closing caller. *)
LEMMA CloseInv ==
  ASSUME ChannelInv, NEW c \in Callers, Close(c)
  PROVE  ChannelInv'
<1> USE DEF ChannelInv
<1>1. /\ pc[c] = "idle" /\ wake[c] = <<>> /\ pc[c] \notin ParkedPCs
  BY DEF Close, Enter, WakeInv, ParkedPCs
<1>2. /\ close_' = TRUE /\ Goto(c, "returnClose")
      /\ failed' = [d \in Callers |-> failed[d] \/ d \in Range(sender_queue_)]
      /\ wake' = [wake EXCEPT ![c] = sender_queue_ \o receiver_queue_]
      /\ sender_queue_' = <<>> /\ receiver_queue_' = <<>>
      /\ UNCHANGED <<ring, mtx_, arg, offer, got, want, nextValue, taken,
                     history>>
  BY DEF Close
<1>3. Runs(c) /\ pc'[c] = "returnClose"
  BY <1>1, <1>2, GotoRuns DEF PCs, ParkedPCs
<1>4. OwnInv'
  BY <1>1, <1>2, <1>3, OwnClose
<1>5. RingInv'
  BY <1>2 DEF RingInv, RingConsistent, Slot, ring
<1>6. NoMissedMatch'
  BY <1>2 DEF NoMissedMatch
<1>7. OfferInv'
  BY <1>2, <1>3, EmptyQueueLemma DEF OfferInv, Runs
<1>8. WakeInv'
  <2>1. \A d \in Callers \ {c} : wake'[d] = wake[d] /\ pc'[d] = pc[d]
    BY <1>2, <1>3 DEF OwnInv, Runs
  <2> QED BY <1>2, <1>3, <2>1 DEF WakeInv
<1>9. stats' \in [StatNames -> Nat]
  <2> DEFINE delta == [close_calls |-> 1,
                       close_wake_senders |-> Len(sender_queue_),
                       close_wake_receivers |-> Len(receiver_queue_)]
  <2>1. Len(sender_queue_) \in Nat /\ Len(receiver_queue_) \in Nat
    BY LenProperties DEF OwnInv
  <2>2. \A k \in DOMAIN delta : delta[k] \in Nat
    BY <2>1
  <2>3. stats_add(delta)
    BY DEF Close
  <2> HIDE DEF delta
  <2>4. \A k \in StatNames :
          stats[k] + (IF k \in DOMAIN delta THEN delta[k] ELSE 0) \in Nat
    BY <2>2 DEF DataInv
  <2> QED BY <2>3, <2>4 DEF stats_add, DataInv
<1>10. failed' \in [Callers -> BOOLEAN]
  BY <1>2, Zenon
<1>11. DataInv'
  BY <1>2, <1>9, <1>10 DEF DataInv, history
<1> QED BY <1>4, <1>5, <1>6, <1>7, <1>8, <1>11

(* reschedule_or_resume of one popped handle. *)
LEMMA RescheduleInv ==
  ASSUME ChannelInv, NEW c \in Callers, Reschedule(c)
  PROVE  ChannelInv'
<1> USE DEF ChannelInv
<1> DEFINE h == Head(wake[c])
           p == IF pc[h] = "parkedSend" THEN "resumeSend" ELSE "resumeRecv"
<1>1. /\ wake[c] # <<>> /\ pc' = [pc EXCEPT ![h] = p]
      /\ wake' = [wake EXCEPT ![c] = Tail(@)]
      /\ UNCHANGED <<ring, close_, queues, mtx_, stats, client, nextValue,
                     taken, history>>
  BY DEF Reschedule, Goto
<1>2. p \in PCs \ ParkedPCs /\ p \in {"resumeSend", "resumeRecv"}
  BY DEF PCs, ParkedPCs
<1>3. h \in Callers
  BY <1>1, PopLemma DEF OwnInv
<1> HIDE DEF p
<1>4. OwnInv'
  BY <1>1, <1>2, OwnReschedule
<1> HIDE DEF h
<1>5. RingInv' /\ NoMissedMatch'
  BY <1>1 DEF RingInv, RingConsistent, Slot, NoMissedMatch, isFull, isEmpty,
              ring, queues
<1>6. /\ pc'[h] = p /\ \A d \in Callers \ {h} : pc'[d] = pc[d]
      /\ \A d \in Callers \ {c} : wake'[d] = wake[d]
  BY <1>1, <1>3 DEF OwnInv
<1>7. OfferInv'
  BY <1>1, <1>2, <1>6 DEF OfferInv, client, queues
<1>8. WakeInv'
  BY <1>1, <1>2, <1>6 DEF WakeInv, client
<1>9. DataInv'
  BY <1>1 DEF DataInv, client, history
<1> QED BY <1>4, <1>5, <1>7, <1>8, <1>9

(* Every step of the channel keeps the invariant. *)
LEMMA ChannelStep ==
  ASSUME ChannelInv, [Next]_vars
  PROVE  ChannelInv'
<1>1. CASE UNCHANGED vars
  <2>1. UNCHANGED <<ring, close_, queues, mtx_, stats, pc, client, wake,
                    nextValue, taken, history>>
    BY <1>1 DEF vars
  <2> USE <2>1 DEF ring, queues, client, history, ChannelInv
  <2>2. RingInv' /\ NoMissedMatch'
    BY DEF RingInv, RingConsistent, Slot, NoMissedMatch, isFull, isEmpty
  <2>3. OwnInv'
    BY DEF OwnInv, HandleOwnedOnce, Parked, Queued, Popped
  <2>4. OfferInv' /\ WakeInv'
    BY DEF OfferInv, WakeInv
  <2>5. DataInv'
    BY DEF DataInv
  <2> QED BY <2>2, <2>3, <2>4, <2>5
<1>2. ASSUME NEW c \in Callers, Begin(c) \/ Continue(c)
      PROVE  ChannelInv'
  BY <1>2, SendInv, SendSuspendInv, ReturnInv, ReceiveInv, TrySendInv,
     TrySendManyInv, TrySendManyLoopInv, TryReceiveInv, TryReceiveManyInv,
     CloseInv, RescheduleInv DEF Begin, Continue
<1> QED BY <1>1, <1>2 DEF Next
----------------------------------------------------------------------------
(* Every variable keeps its type, for any capacity and any set of callers  *)
(* (all members of Channel and of its awaiters).                           *)
THEOREM ChannelTypeOK == Spec => []TypeOK
<1> QED BY PartsTyped, ChannelInitInv, ChannelStep, PTL DEF Spec

(* For any capacity, header_, tail_ and count_ agree and exactly the       *)
(* slots between them hold a value, whatever pushes, pops and refills the  *)
(* sending and receiving calls interleave.                                 *)
THEOREM ChannelRing == Spec => []RingConsistent
<1>1. ChannelInv => RingConsistent
  BY DEF ChannelInv, RingInv
<1> QED BY <1>1, ChannelInitInv, ChannelStep, PTL DEF Spec

(* For any capacity and any set of callers nobody is parked beside the     *)
(* value or the room it waits for, nor on a closed channel                 *)
(* (await_suspend, try_send, try_receive, close()).                        *)
THEOREM ChannelNoMissedMatch == Spec => []NoMissedMatch
<1>1. ChannelInv => NoMissedMatch
  BY DEF ChannelInv
<1> QED BY <1>1, ChannelInitInv, ChannelStep, PTL DEF Spec

(* For any set of callers a suspended coroutine's handle is queued or      *)
(* held by one call that popped it, once: none is resumed twice or lost.   *)
THEOREM ChannelHandleOwnedOnce == Spec => []HandleOwnedOnce
<1>1. ChannelInv => HandleOwnedOnce
  BY DEF ChannelInv, OwnInv
<1> QED BY <1>1, ChannelInitInv, ChannelStep, PTL DEF Spec
=============================================================================
