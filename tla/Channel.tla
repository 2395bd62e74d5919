------------------------------ MODULE Channel ------------------------------
(***************************************************************************)
(* tiny_coroutine::Channel<T> (include/channel.h): a ring buffer, a queue  *)
(* of parked senders and a queue of parked receivers under one std::mutex. *)
(*                                                                         *)
(* A caller is a coroutine (send, receive) or any thread (the try_ calls   *)
(* and close).  Everything a call does while it holds mtx_ is one step,    *)
(* except the two batch loops, which hold mtx_ over one step per element.  *)
(* What it does after the unlock is separate: handing the popped handles   *)
(* to runtime::reschedule_or_resume one by one, then await_resume or the   *)
(* return.  The window between the unlock and the reschedule is where      *)
(* other callers interleave.                                               *)
(*                                                                         *)
(* Every value sent is fresh.  The channel only moves values, so distinct  *)
(* values tell apart all that a property about loss, duplication or order  *)
(* can tell apart.                                                         *)
(***************************************************************************)
EXTENDS Naturals, Sequences, Functions

CONSTANTS
  Callers,      \* coroutines and threads that use the channel
  Capacity,     \* capacity_; 0 for a default-constructed Channel
  NoValue,      \* std::nullopt in a slot
  Nobody,       \* mtx_ is not held across a step
  MaxSends,     \* bound: number of values ever passed to a sending call
  MaxBatch,     \* bound: elements of one try_send_many / try_receive_many
  EnableStats   \* TINY_COROUTINE_ENABLE_STATS

Values == 1..MaxSends

ASSUME CapacityAssumption == Capacity \in Nat
ASSUME BoundsAssumption == MaxSends \in Nat /\ MaxBatch \in Nat \ {0}
ASSUME FreshConstants == NoValue \notin Values /\ Nobody \notin Callers
ASSUME StatsFlag == EnableStats \in BOOLEAN

VARIABLES
  buffer_, header_, tail_, count_, close_,   \* Channel<T>
  sender_queue_, receiver_queue_, mtx_,
  stats,     \* the stats_*_ counters
  pc,        \* where each caller is
  arg,       \* values a sending call was given
  offer,     \* of those, the ones not yet moved out (SenderAwaiter::value_)
  got,       \* values a receiving call holds (ReceiverAwaiter::value_, values)
  failed,    \* SenderAwaiter::close_
  want,      \* max_items of a try_receive_many
  wake,      \* handles popped from a queue and not yet rescheduled
  nextValue, \* next fresh value
  taken,     \* history: values in the order receivers took them
  acked,     \* history: values whose sending call reported success
  nacked,    \* history: values whose sending call threw or was cut short
  returned   \* history: values a receiving call has returned

ring == <<buffer_, header_, tail_, count_>>
queues == <<sender_queue_, receiver_queue_>>
client == <<arg, offer, got, failed, want>>
history == <<acked, nacked, returned>>
vars == <<ring, close_, queues, mtx_, stats, pc, client, wake, nextValue,
          taken, history>>

(* The counters that are kept.  Those of failed calls, try_send_full_-     *)
(* failures, try_receive_empty_returns and closed_failures, count what     *)
(* leaves the channel as it was: the actions name them, and stats_add      *)
(* drops them, since they alone could grow for ever.                       *)
StatNames == {"buffer_pushes", "buffer_pops", "direct_handoffs",
  "sender_waits", "receiver_waits", "close_calls", "close_wake_senders",
  "close_wake_receivers"}

Init ==
  /\ buffer_ = [i \in 0..Capacity - 1 |-> NoValue]
  /\ header_ = 0 /\ tail_ = 0 /\ count_ = 0 /\ close_ = FALSE
  /\ sender_queue_ = <<>> /\ receiver_queue_ = <<>> /\ mtx_ = Nobody
  /\ stats = [k \in StatNames |-> 0]
  /\ pc = [c \in Callers |-> "idle"]
  /\ arg = [c \in Callers |-> <<>>]
  /\ offer = [c \in Callers |-> <<>>]
  /\ got = [c \in Callers |-> <<>>]
  /\ failed = [c \in Callers |-> FALSE]
  /\ want = [c \in Callers |-> 0]
  /\ wake = [c \in Callers |-> <<>>]
  /\ nextValue = 1
  /\ taken = <<>> /\ acked = {} /\ nacked = {} /\ returned = {}
----------------------------------------------------------------------------
(* Helpers on the channel's state *)

isEmpty == count_ = 0
isFull == count_ = Capacity

(* stats_add: each counter named in the domain of delta and kept grows by  *)
(* its entry; compiled to nothing when the counters are off.               *)
stats_add(delta) ==
  stats' = IF EnableStats
           THEN [k \in StatNames |->
                   stats[k] + (IF k \in DOMAIN delta THEN delta[k] ELSE 0)]
           ELSE stats
Inc(names) == [k \in names |-> 1]

(* A call may start: its caller is idle and mtx_ is free. *)
Enter(c) == pc[c] = "idle" /\ mtx_ = Nobody

Fresh(n) == [i \in 1..n |-> nextValue + i - 1]

(* Mutant of HandOff: the receiver is read off the queue, never popped. *)
HandOffNoPop(c, v) ==
  /\ receiver_queue_ # <<>>
  /\ LET r == Head(receiver_queue_) IN
       /\ got' = [got EXCEPT ![r] = <<v>>]
       /\ wake' = [wake EXCEPT ![c] = Append(@, r)]
  /\ taken' = Append(taken, v)
  /\ UNCHANGED <<ring, queues>>
  /\ stats_add(Inc({"direct_handoffs"}))

(* The value leaves sender or argument and goes to the first parked        *)
(* receiver's awaiter; c keeps the receiver's handle to reschedule it.     *)
HandOff(c, v) ==
  /\ receiver_queue_ # <<>>
  /\ LET r == Head(receiver_queue_) IN
       /\ got' = [got EXCEPT ![r] = <<v>>]
       /\ wake' = [wake EXCEPT ![c] = Append(@, r)]
  /\ receiver_queue_' = Tail(receiver_queue_)
  /\ taken' = Append(taken, v)
  /\ UNCHANGED <<ring, sender_queue_>>
  /\ stats_add(Inc({"direct_handoffs"}))

(* Mutants of Push: it does not look for a parked receiver; it lets tail_  *)
(* run past the buffer.                                                    *)
PushPastReceivers(v) ==
  /\ ~isFull
  /\ buffer_' = [buffer_ EXCEPT ![tail_] = v]
  /\ tail_' = (tail_ + 1) % Capacity
  /\ count_' = count_ + 1
  /\ UNCHANGED <<header_, queues, got, wake, taken>>
  /\ stats_add(Inc({"buffer_pushes"}))
PushNoWrap(v) ==
  /\ receiver_queue_ = <<>> /\ ~isFull
  /\ buffer_' = [buffer_ EXCEPT ![tail_] = v]
  /\ tail_' = tail_ + 1
  /\ count_' = count_ + 1
  /\ UNCHANGED <<header_, queues, got, wake, taken>>
  /\ stats_add(Inc({"buffer_pushes"}))

(* No parked receiver and room left: the value goes to the tail slot. *)
Push(v) ==
  /\ receiver_queue_ = <<>> /\ ~isFull
  /\ buffer_' = [buffer_ EXCEPT ![tail_] = v]
  /\ tail_' = (tail_ + 1) % Capacity
  /\ count_' = count_ + 1
  /\ UNCHANGED <<header_, queues, got, wake, taken>>
  /\ stats_add(Inc({"buffer_pushes"}))

NoRoom == receiver_queue_ = <<>> /\ isFull

(* Mutants of TakeBuffered: no check for an empty buffer; the refilling    *)
(* sender stays queued; a refill is not counted as a push.                 *)
TakeUnchecked(c) ==
  /\ got' = [got EXCEPT ![c] = Append(@, buffer_[header_])]
  /\ taken' = Append(taken, buffer_[header_])
  /\ header_' = (header_ + 1) % Capacity
  /\ buffer_' = [buffer_ EXCEPT ![header_] = NoValue]
  /\ count_' = count_ - 1
  /\ stats_add(Inc({"buffer_pops"}))
  /\ UNCHANGED <<tail_, queues, offer, wake>>
TakeRefill(c, left, woken, counted) ==
  /\ ~isEmpty
  /\ got' = [got EXCEPT ![c] = Append(@, buffer_[header_])]
  /\ taken' = Append(taken, buffer_[header_])
  /\ header_' = (header_ + 1) % Capacity
  /\ \/ /\ sender_queue_ = <<>>
        /\ buffer_' = [buffer_ EXCEPT ![header_] = NoValue]
        /\ count_' = count_ - 1
        /\ UNCHANGED <<tail_, sender_queue_, offer, wake>>
        /\ stats_add(Inc({"buffer_pops"}))
     \/ /\ sender_queue_ # <<>>
        /\ buffer_' = [buffer_ EXCEPT ![header_] = NoValue,
                                      ![tail_] = Head(offer[Head(sender_queue_)])]
        /\ wake' = [wake EXCEPT ![c] = @ \o woken]
        /\ sender_queue_' = left
        /\ tail_' = (tail_ + 1) % Capacity
        /\ UNCHANGED <<count_, offer>>
        /\ stats_add(Inc(counted))
  /\ UNCHANGED receiver_queue_
TakeSenderStays(c) ==
  TakeRefill(c, sender_queue_, <<>>, {"buffer_pops", "buffer_pushes"})
TakeRefillUncounted(c) ==
  TakeRefill(c, Tail(sender_queue_), <<Head(sender_queue_)>>, {"buffer_pops"})

(* The head slot is emptied into c; the first parked sender, if any,       *)
(* refills the tail slot and c keeps its handle to reschedule it.          *)
TakeBuffered(c) ==
  /\ ~isEmpty
  /\ got' = [got EXCEPT ![c] = Append(@, buffer_[header_])]
  /\ taken' = Append(taken, buffer_[header_])
  /\ header_' = (header_ + 1) % Capacity
  /\ \/ /\ sender_queue_ = <<>>
        /\ buffer_' = [buffer_ EXCEPT ![header_] = NoValue]
        /\ count_' = count_ - 1
        /\ UNCHANGED <<tail_, sender_queue_, offer, wake>>
        /\ stats_add(Inc({"buffer_pops"}))
     \/ /\ sender_queue_ # <<>>
        /\ LET s == Head(sender_queue_) IN
             /\ buffer_' = [buffer_ EXCEPT ![header_] = NoValue,
                                           ![tail_] = Head(offer[s])]
             /\ offer' = [offer EXCEPT ![s] = <<>>]
             /\ wake' = [wake EXCEPT ![c] = Append(@, s)]
        /\ sender_queue_' = Tail(sender_queue_)
        /\ tail_' = (tail_ + 1) % Capacity
        /\ UNCHANGED count_
        /\ stats_add(Inc({"buffer_pops", "buffer_pushes"}))
  /\ UNCHANGED receiver_queue_

(* Mutants of TakeDirect: it takes the newest sender instead of the        *)
(* oldest; it keeps no handle to resume the sender with.                   *)
TakeNewest(c) ==
  /\ isEmpty /\ sender_queue_ # <<>>
  /\ LET s == sender_queue_[Len(sender_queue_)] IN
       /\ got' = [got EXCEPT ![c] = Append(@, Head(offer[s]))]
       /\ taken' = Append(taken, Head(offer[s]))
       /\ offer' = [offer EXCEPT ![s] = <<>>]
       /\ wake' = [wake EXCEPT ![c] = Append(@, s)]
  /\ sender_queue_' = SubSeq(sender_queue_, 1, Len(sender_queue_) - 1)
  /\ UNCHANGED <<ring, receiver_queue_>>
  /\ stats_add(Inc({"direct_handoffs"}))
TakeDirectForgets(c) ==
  /\ isEmpty /\ sender_queue_ # <<>>
  /\ LET s == Head(sender_queue_) IN
       /\ got' = [got EXCEPT ![c] = Append(@, Head(offer[s]))]
       /\ taken' = Append(taken, Head(offer[s]))
       /\ offer' = [offer EXCEPT ![s] = <<>>]
  /\ sender_queue_' = Tail(sender_queue_)
  /\ UNCHANGED <<ring, receiver_queue_, wake>>
  /\ stats_add(Inc({"direct_handoffs"}))

(* Empty buffer and a parked sender (only a channel of capacity 0 gets     *)
(* here): the value goes straight from the sender's awaiter to c.          *)
TakeDirect(c) ==
  /\ isEmpty /\ sender_queue_ # <<>>
  /\ LET s == Head(sender_queue_) IN
       /\ got' = [got EXCEPT ![c] = Append(@, Head(offer[s]))]
       /\ taken' = Append(taken, Head(offer[s]))
       /\ offer' = [offer EXCEPT ![s] = <<>>]
       /\ wake' = [wake EXCEPT ![c] = Append(@, s)]
  /\ sender_queue_' = Tail(sender_queue_)
  /\ UNCHANGED <<ring, receiver_queue_>>
  /\ stats_add(Inc({"direct_handoffs"}))

NothingToTake == isEmpty /\ sender_queue_ = <<>>

Goto(c, p) == pc' = [pc EXCEPT ![c] = p]
----------------------------------------------------------------------------
(* co_await send(v) *)

(* send(): the fast failure, or a SenderAwaiter. *)
Send(c) ==
  /\ Enter(c) /\ nextValue <= MaxSends
  /\ nextValue' = nextValue + 1
  /\ \/ /\ close_
        /\ nacked' = nacked \cup {nextValue}
        /\ stats_add(Inc({"closed_failures"}))
        /\ UNCHANGED <<pc, arg, offer>>
     \/ /\ ~close_
        /\ arg' = [arg EXCEPT ![c] = Fresh(1)]
        /\ offer' = [offer EXCEPT ![c] = Fresh(1)]
        /\ Goto(c, "send")
        /\ UNCHANGED <<nacked, stats>>
  /\ UNCHANGED <<ring, close_, queues, mtx_, got, failed, want, wake, taken,
                 acked, returned>>

(* Mutant of SendSuspend: the sender parks in front of the earlier ones. *)
SendSuspendInFront(c) ==
  /\ pc[c] = "send" /\ mtx_ = Nobody
  /\ \/ /\ close_
        /\ failed' = [failed EXCEPT ![c] = TRUE]
        /\ Goto(c, "resumeSend")
        /\ stats_add(Inc({"closed_failures"}))
        /\ UNCHANGED <<ring, queues, offer, got, wake, taken>>
     \/ /\ ~close_
        /\ HandOff(c, Head(offer[c])) \/ Push(Head(offer[c]))
        /\ offer' = [offer EXCEPT ![c] = <<>>]
        /\ Goto(c, "resumeSend")
        /\ UNCHANGED failed
     \/ /\ ~close_ /\ NoRoom
        /\ sender_queue_' = <<c>> \o sender_queue_
        /\ Goto(c, "parkedSend")
        /\ stats_add(Inc({"sender_waits"}))
        /\ UNCHANGED <<ring, receiver_queue_, offer, got, failed, wake, taken>>
  /\ UNCHANGED <<close_, mtx_, arg, want, nextValue, history>>

(* SenderAwaiter::await_suspend; close() may have come in between. *)
SendSuspend(c) ==
  /\ pc[c] = "send" /\ mtx_ = Nobody
  /\ \/ /\ close_
        /\ failed' = [failed EXCEPT ![c] = TRUE]
        /\ Goto(c, "resumeSend")
        /\ stats_add(Inc({"closed_failures"}))
        /\ UNCHANGED <<ring, queues, offer, got, wake, taken>>
     \/ /\ ~close_
        /\ HandOff(c, Head(offer[c])) \/ Push(Head(offer[c]))
        /\ offer' = [offer EXCEPT ![c] = <<>>]
        /\ Goto(c, "resumeSend")
        /\ UNCHANGED failed
     \/ /\ ~close_ /\ NoRoom
        /\ sender_queue_' = Append(sender_queue_, c)
        /\ Goto(c, "parkedSend")
        /\ stats_add(Inc({"sender_waits"}))
        /\ UNCHANGED <<ring, receiver_queue_, offer, got, failed, wake, taken>>
  /\ UNCHANGED <<close_, mtx_, arg, want, nextValue, history>>

(* Mutant of ResumeSend: it asks whether the channel is closed by now. *)
ResumeSendAsksChannel(c) ==
  /\ pc[c] = "resumeSend" /\ wake[c] = <<>>
  /\ \/ close_ /\ nacked' = nacked \cup Range(arg[c]) /\ UNCHANGED acked
     \/ ~close_ /\ acked' = acked \cup Range(arg[c]) /\ UNCHANGED nacked
  /\ arg' = [arg EXCEPT ![c] = <<>>]
  /\ offer' = [offer EXCEPT ![c] = <<>>]
  /\ failed' = [failed EXCEPT ![c] = FALSE]
  /\ Goto(c, "idle")
  /\ UNCHANGED <<ring, close_, queues, mtx_, stats, got, want, wake,
                 nextValue, taken, returned>>

(* SenderAwaiter::await_resume: throws when close_ is set. *)
ResumeSend(c) ==
  /\ pc[c] = "resumeSend" /\ wake[c] = <<>>
  /\ \/ failed[c] /\ nacked' = nacked \cup Range(arg[c]) /\ UNCHANGED acked
     \/ ~failed[c] /\ acked' = acked \cup Range(arg[c]) /\ UNCHANGED nacked
  /\ arg' = [arg EXCEPT ![c] = <<>>]
  /\ offer' = [offer EXCEPT ![c] = <<>>]
  /\ failed' = [failed EXCEPT ![c] = FALSE]
  /\ Goto(c, "idle")
  /\ UNCHANGED <<ring, close_, queues, mtx_, stats, got, want, wake,
                 nextValue, taken, returned>>
----------------------------------------------------------------------------
(* co_await receive() *)

(* Mutant of Receive: a closed channel is refused before the buffer is     *)
(* looked at.                                                              *)
ReceiveCloseFirst(c) ==
  /\ Enter(c)
  /\ \/ /\ close_
        /\ Goto(c, "resumeRecv")
        /\ UNCHANGED <<ring, queues, stats, offer, got, wake, taken>>
     \/ /\ ~close_
        /\ TakeBuffered(c) \/ TakeDirect(c)
        /\ Goto(c, "resumeRecv")
  /\ UNCHANGED <<close_, mtx_, arg, failed, want, nextValue, history>>

(* ReceiverAwaiter::await_suspend (receive() itself touches nothing). *)
Receive(c) ==
  /\ Enter(c)
  /\ \/ /\ TakeBuffered(c)
        /\ Goto(c, "resumeRecv")
     \/ /\ isEmpty /\ close_
        /\ Goto(c, "resumeRecv")
        /\ stats_add(Inc({"closed_failures"}))
        /\ UNCHANGED <<ring, queues, offer, got, wake, taken>>
     \/ /\ ~close_ /\ TakeDirect(c)
        /\ Goto(c, "resumeRecv")
     \/ /\ ~close_ /\ NothingToTake
        /\ receiver_queue_' = Append(receiver_queue_, c)
        /\ Goto(c, "parkedRecv")
        /\ stats_add(Inc({"receiver_waits"}))
        /\ UNCHANGED <<ring, sender_queue_, offer, got, wake, taken>>
  /\ UNCHANGED <<close_, mtx_, arg, failed, want, nextValue, history>>

(* ReceiverAwaiter::await_resume, and the return of a try_receive(_many)   *)
(* that holds values: the values held are returned.  A receive() that      *)
(* holds none throws "channel is closed".                                  *)
ResumeRecv(c) ==
  /\ pc[c] = "resumeRecv" /\ wake[c] = <<>>
  /\ returned' = returned \cup Range(got[c])
  /\ got' = [got EXCEPT ![c] = <<>>]
  /\ want' = [want EXCEPT ![c] = 0]
  /\ Goto(c, "idle")
  /\ UNCHANGED <<ring, close_, queues, mtx_, stats, arg, offer, failed, wake,
                 nextValue, taken, acked, nacked>>
----------------------------------------------------------------------------
(* try_send, try_send_many *)

(* A sending call that throws or is refused in its critical section. *)
Refuse(n, counter) ==
  /\ nacked' = nacked \cup Range(Fresh(n))
  /\ stats_add(Inc({counter}))
  /\ UNCHANGED <<ring, queues, mtx_, pc, arg, offer, got, wake, taken>>

TrySend(c) ==
  /\ Enter(c) /\ nextValue <= MaxSends
  /\ nextValue' = nextValue + 1
  /\ \/ close_ /\ Refuse(1, "closed_failures")
     \/ ~close_ /\ NoRoom /\ Refuse(1, "try_send_full_failures")
     \/ /\ ~close_
        /\ HandOff(c, nextValue) \/ Push(nextValue)
        /\ arg' = [arg EXCEPT ![c] = Fresh(1)]
        /\ Goto(c, "returnSend")
        /\ UNCHANGED <<offer, nacked, mtx_>>
  /\ UNCHANGED <<close_, failed, want, acked, returned>>

(* try_send_many up to the loop; an empty range returns 0 at once. *)
TrySendMany(c) ==
  \E n \in 1..MaxBatch :
    /\ Enter(c) /\ nextValue + n - 1 <= MaxSends
    /\ nextValue' = nextValue + n
    /\ \/ close_ /\ Refuse(n, "closed_failures")
       \/ /\ ~close_
          /\ mtx_' = c
          /\ arg' = [arg EXCEPT ![c] = Fresh(n)]
          /\ offer' = [offer EXCEPT ![c] = Fresh(n)]
          /\ Goto(c, "trySendMany")
          /\ UNCHANGED <<ring, queues, stats, got, wake, taken, nacked>>
    /\ UNCHANGED <<close_, failed, want, acked, returned>>

(* One iteration of the loop, under mtx_. *)
TrySendManyStep(c) ==
  /\ pc[c] = "trySendMany" /\ offer[c] # <<>>
  /\ HandOff(c, Head(offer[c])) \/ Push(Head(offer[c]))
  /\ offer' = [offer EXCEPT ![c] = Tail(@)]
  /\ UNCHANGED <<close_, mtx_, pc, arg, failed, want, nextValue, history>>

(* The loop ends, because of the range or of the buffer, and unlocks. *)
TrySendManyDone(c) ==
  /\ pc[c] = "trySendMany"
  /\ \/ offer[c] = <<>> /\ UNCHANGED stats
     \/ offer[c] # <<>> /\ NoRoom /\ stats_add(Inc({"try_send_full_failures"}))
  /\ mtx_' = Nobody
  /\ Goto(c, "returnSend")
  /\ UNCHANGED <<ring, close_, queues, client, wake, nextValue, taken, history>>

(* Return of true or of the number sent; the rest stays with the caller. *)
ReturnSend(c) ==
  /\ pc[c] = "returnSend" /\ wake[c] = <<>>
  /\ acked' = acked \cup (Range(arg[c]) \ Range(offer[c]))
  /\ nacked' = nacked \cup Range(offer[c])
  /\ arg' = [arg EXCEPT ![c] = <<>>]
  /\ offer' = [offer EXCEPT ![c] = <<>>]
  /\ Goto(c, "idle")
  /\ UNCHANGED <<ring, close_, queues, mtx_, stats, got, failed, want, wake,
                 nextValue, taken, returned>>
----------------------------------------------------------------------------
(* try_receive, try_receive_many *)

TryReceive(c) ==
  /\ Enter(c)
  /\ \/ (TakeBuffered(c) \/ TakeDirect(c)) /\ Goto(c, "resumeRecv")
     \/ /\ NothingToTake
        /\ stats_add(Inc({IF close_ THEN "closed_failures"
                                    ELSE "try_receive_empty_returns"}))
        /\ UNCHANGED <<ring, queues, pc, offer, got, wake, taken>>
  /\ UNCHANGED <<close_, mtx_, arg, failed, want, nextValue, history>>

(* try_receive_many up to the loop; max_items = 0 returns at once. *)
TryReceiveMany(c) ==
  \E max_items \in 1..MaxBatch :
    /\ Enter(c)
    /\ mtx_' = c
    /\ want' = [want EXCEPT ![c] = max_items]
    /\ Goto(c, "tryReceiveMany")
    /\ UNCHANGED <<ring, close_, queues, stats, arg, offer, got, failed, wake,
                   nextValue, taken, history>>

TryReceiveManyStep(c) ==
  /\ pc[c] = "tryReceiveMany" /\ Len(got[c]) < want[c]
  /\ TakeBuffered(c) \/ TakeDirect(c)
  /\ UNCHANGED <<close_, mtx_, pc, arg, failed, want, nextValue, history>>

(* The loop ends and unlocks.  With no value the call throws when the      *)
(* channel is closed and returns an empty vector otherwise.                *)
TryReceiveManyDone(c) ==
  /\ pc[c] = "tryReceiveMany"
  /\ Len(got[c]) = want[c] \/ NothingToTake
  /\ mtx_' = Nobody
  /\ \/ /\ got[c] # <<>>
        /\ Goto(c, "resumeRecv")
        /\ UNCHANGED <<stats, want>>
     \/ /\ got[c] = <<>>
        /\ stats_add(Inc({IF close_ THEN "closed_failures"
                                    ELSE "try_receive_empty_returns"}))
        /\ want' = [want EXCEPT ![c] = 0]
        /\ Goto(c, "idle")
  /\ UNCHANGED <<ring, close_, queues, arg, offer, got, failed, wake,
                 nextValue, taken, history>>
----------------------------------------------------------------------------
(* Mutants of Close: the parked senders are not told; the parked receivers *)
(* are left where they are.                                                *)
CloseWith(c, told, left, woken) ==
  /\ Enter(c) /\ ~close_
  /\ close_' = TRUE
  /\ failed' = [d \in Callers |-> failed[d] \/ d \in told]
  /\ wake' = [wake EXCEPT ![c] = woken]
  /\ sender_queue_' = <<>> /\ receiver_queue_' = left
  /\ Goto(c, "returnClose")
  /\ UNCHANGED <<ring, mtx_, stats, arg, offer, got, want, nextValue, taken,
                 history>>
CloseUntold(c) == CloseWith(c, {}, <<>>, sender_queue_ \o receiver_queue_)
CloseSendersOnly(c) ==
  CloseWith(c, Range(sender_queue_), receiver_queue_, sender_queue_)

(* close() on an open channel; on a closed one it throws, changing nothing. *)
Close(c) ==
  /\ Enter(c) /\ ~close_
  /\ close_' = TRUE
  /\ failed' = [d \in Callers |-> failed[d] \/ d \in Range(sender_queue_)]
  /\ wake' = [wake EXCEPT ![c] = sender_queue_ \o receiver_queue_]
  /\ sender_queue_' = <<>> /\ receiver_queue_' = <<>>
  /\ stats_add([close_calls |-> 1,
                close_wake_senders |-> Len(sender_queue_),
                close_wake_receivers |-> Len(receiver_queue_)])
  /\ Goto(c, "returnClose")
  /\ UNCHANGED <<ring, mtx_, arg, offer, got, want, nextValue, taken, history>>

ReturnClose(c) ==
  /\ pc[c] = "returnClose" /\ wake[c] = <<>>
  /\ Goto(c, "idle")
  /\ UNCHANGED <<ring, close_, queues, mtx_, stats, client, wake, nextValue,
                 taken, history>>

(* The next popped handle goes to reschedule_or_resume, outside the lock:  *)
(* from here on its coroutine runs, on a context's queue or inline.        *)
Reschedule(c) ==
  /\ wake[c] # <<>> /\ mtx_ # c
  /\ LET h == Head(wake[c]) IN
       Goto(h, IF pc[h] = "parkedSend" THEN "resumeSend" ELSE "resumeRecv")
  /\ wake' = [wake EXCEPT ![c] = Tail(@)]
  /\ UNCHANGED <<ring, close_, queues, mtx_, stats, client, nextValue, taken,
                 history>>
----------------------------------------------------------------------------
(* A call that has begun runs on; nobody is obliged to begin one. *)
Continue(c) ==
  \/ SendSuspend(c) \/ ResumeSend(c) \/ ResumeRecv(c)
  \/ TrySendManyStep(c) \/ TrySendManyDone(c) \/ ReturnSend(c)
  \/ TryReceiveManyStep(c) \/ TryReceiveManyDone(c)
  \/ ReturnClose(c) \/ Reschedule(c)

Begin(c) ==
  \/ Send(c) \/ Receive(c) \/ TrySend(c) \/ TrySendMany(c)
  \/ TryReceive(c) \/ TryReceiveMany(c) \/ Close(c)

Next == \E c \in Callers : Begin(c) \/ Continue(c)

Spec == Init /\ [][Next]_vars

(* A worker resumes what was rescheduled and a call under way finishes.    *)
Fairness == \A c \in Callers : WF_vars(Continue(c))
FairSpec == Spec /\ Fairness
----------------------------------------------------------------------------
(* Properties *)

PCs == {"idle", "send", "parkedSend", "resumeSend", "parkedRecv",
        "resumeRecv", "trySendMany", "returnSend", "tryReceiveMany",
        "returnClose"}

(* Every variable has the type its C++ counterpart has; a queue and a list *)
(* of popped handles hold callers.                                         *)
TypeOK ==
  /\ buffer_ \in [0..Capacity - 1 -> Values \cup {NoValue}]
  /\ header_ \in Nat /\ tail_ \in Nat /\ count_ \in Nat /\ close_ \in BOOLEAN
  /\ sender_queue_ \in Seq(Callers) /\ receiver_queue_ \in Seq(Callers)
  /\ mtx_ \in Callers \cup {Nobody}
  /\ stats \in [StatNames -> Nat]
  /\ pc \in [Callers -> PCs]
  /\ arg \in [Callers -> Seq(Values)] /\ offer \in [Callers -> Seq(Values)]
  /\ got \in [Callers -> Seq(Values)]
  /\ failed \in [Callers -> BOOLEAN]
  /\ want \in [Callers -> 0..MaxBatch]
  /\ wake \in [Callers -> Seq(Callers)]
  /\ nextValue \in 1..MaxSends + 1
  /\ taken \in Seq(Values)
  /\ acked \subseteq Values /\ nacked \subseteq Values
  /\ returned \subseteq Values

Slot(k) == (header_ + k) % Capacity
Buffered == [i \in 1..count_ |-> buffer_[Slot(i - 1)]]
ParkedValues ==
  [i \in 1..Len(sender_queue_) |-> Head(offer[sender_queue_[i]])]
Contents == Buffered \o ParkedValues

(* header_, tail_ and count_ agree, and exactly the count_ slots from      *)
(* header_ on hold a value: no await_suspend dereferences an empty slot    *)
(* and none overwrites a value nobody has read, at any wrap-around.        *)
RingConsistent ==
  /\ count_ <= Capacity
  /\ Capacity > 0 =>
       /\ header_ < Capacity
       /\ tail_ = Slot(count_)
       /\ \A k \in 0..Capacity - 1 : buffer_[Slot(k)] # NoValue <=> k < count_

(* Nobody is parked who could go on: a sender is parked only on a full     *)
(* buffer, a receiver only on an empty one, never both, and none at all    *)
(* once close() has run.  A missed hand-off would leave a coroutine        *)
(* suspended beside the value or the room it waits for.                    *)
NoMissedMatch ==
  /\ sender_queue_ # <<>> => isFull /\ receiver_queue_ = <<>>
  /\ receiver_queue_ # <<>> => isEmpty
  /\ close_ => sender_queue_ = <<>> /\ receiver_queue_ = <<>>

Parked(c) == pc[c] \in {"parkedSend", "parkedRecv"}
Queued(c) == c \in Range(sender_queue_) \/ c \in Range(receiver_queue_)
Popped(c) == \E d \in Callers : c \in Range(wake[d])
(* A suspended coroutine's handle is in exactly one place, once: its own   *)
(* queue, or the locals of the one call that popped it.  A handle in two   *)
(* places is resumed twice, which is undefined; one in none is lost.       *)
HandleOwnedOnce ==
  /\ \A c \in Range(sender_queue_) : pc[c] = "parkedSend"
  /\ \A c \in Range(receiver_queue_) : pc[c] = "parkedRecv"
  /\ IsInjective(sender_queue_) /\ IsInjective(receiver_queue_)
  /\ \A d \in Callers : IsInjective(wake[d])
  /\ \A c \in Callers : Parked(c) <=> Queued(c) \/ Popped(c)
  /\ \A c \in Callers : ~(Queued(c) /\ Popped(c))
  /\ \A d, e \in Callers : d # e => Range(wake[d]) \cap Range(wake[e]) = {}

(* A send that reported success is not lost: its value is still buffered,  *)
(* or with a receiver, or was returned by a receive.                       *)
AckedNotLost ==
  acked \subseteq Range(Buffered) \cup returned
                  \cup UNION {Range(got[c]) : c \in Callers}

(* A send that reported failure left nothing behind: its value is neither  *)
(* buffered nor ever received.                                             *)
NackedNotDelivered ==
  nacked \cap (Range(Contents) \cup Range(taken)) = {}

(* No value is received twice: a value is taken once, by one caller, and   *)
(* is no longer in the channel.                                            *)
TakenOnce ==
  /\ IsInjective(taken)
  /\ Range(taken) \cap Range(Contents) = {}
  /\ \A c, d \in Callers : c # d => Range(got[c]) \cap Range(got[d]) = {}
  /\ \A c \in Callers : returned \cap Range(got[c]) = {}

(* Contract 2 of channel.h: a receive() fails only on a closed channel     *)
(* whose buffer has been drained, however long ago it was woken.           *)
ReceiveFailsOnlyDrained ==
  \A c \in Callers :
    pc[c] = "resumeRecv" /\ got[c] = <<>> => close_ /\ isEmpty

(* The counters add up: what was pushed is popped or still buffered, what  *)
(* was taken was popped or handed over, and the senders close() woke had   *)
(* been counted as waiting.                                                *)
StatsAccount ==
  EnableStats =>
    /\ stats["buffer_pushes"] = stats["buffer_pops"] + count_
    /\ Len(taken) = stats["buffer_pops"] + stats["direct_handoffs"]
    /\ stats["sender_waits"] >= stats["close_wake_senders"]
                                + Len(sender_queue_)
    /\ stats["receiver_waits"] >= stats["close_wake_receivers"]
                                  + Len(receiver_queue_)

(* The channel behaves as the FIFO queue of ChannelFifo. *)
Fifo == INSTANCE ChannelFifo WITH queue <- Contents, closed <- close_
FifoSpec == Fifo!Spec

(* Contract 1 and 3: close() leaves nobody parked forever. *)
CloseReleasesAll ==
  \A c \in Callers : (close_ /\ Parked(c)) ~> (pc[c] = "idle")

(* A coroutine taken off its queue is eventually resumed, whichever call   *)
(* took it and whatever the others do meanwhile.                           *)
PoppedResumes ==
  \A c \in Callers : (Parked(c) /\ ~Queued(c)) ~> (pc[c] = "idle")
=============================================================================
