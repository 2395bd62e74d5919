---------------------------- MODULE ChannelFifo ----------------------------
(***************************************************************************)
(* What a Channel<T> promises its users, without ring buffer, parked       *)
(* coroutines or handles: a queue of values in the order their sends took  *)
(* effect.  A value beyond the first Capacity belongs to a send that has   *)
(* not completed; close() withdraws exactly those ("all blocked senders    *)
(* ... fail") and leaves the others to be drained.                         *)
(***************************************************************************)
EXTENDS Naturals, Sequences

CONSTANTS Values, Capacity

VARIABLES
  queue,   \* values sent and not received, oldest first
  closed,
  taken    \* values received, in order

Init == queue = <<>> /\ closed = FALSE /\ taken = <<>>

(* A send takes effect: its value is buffered, or waits its turn. *)
Offer(v) ==
  /\ ~closed
  /\ queue' = Append(queue, v)
  /\ UNCHANGED <<closed, taken>>

(* A send meets a waiting receiver. *)
Pass(v) ==
  /\ ~closed /\ queue = <<>>
  /\ taken' = Append(taken, v)
  /\ UNCHANGED <<queue, closed>>

(* A receive takes the oldest value, also after close(). *)
Take ==
  /\ queue # <<>>
  /\ taken' = Append(taken, Head(queue))
  /\ queue' = Tail(queue)
  /\ UNCHANGED closed

CloseQueue ==
  /\ ~closed
  /\ closed' = TRUE
  /\ queue' = IF Len(queue) <= Capacity THEN queue
              ELSE SubSeq(queue, 1, Capacity)
  /\ UNCHANGED taken

Next ==
  \/ \E v \in Values : Offer(v) \/ Pass(v)
  \/ Take
  \/ CloseQueue

Spec == Init /\ [][Next]_<<queue, closed, taken>>
=============================================================================
