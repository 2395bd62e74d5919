--------------------------- MODULE WhenAllProofs ---------------------------
(***************************************************************************)
(* Proofs about WhenAll: that when_all joins its children faithfully, and  *)
(* that nothing uses the shared state after its end, for any number of     *)
(* children, workers and suspensions, in both forms.                       *)
(***************************************************************************)
EXTENDS WhenAll, QueueLemmas, FiniteSetTheorems

(* The wrappers that have not called done() yet. *)
Owing == {c \in kids : stage[c] \in {"start", "done"}}

(* Who may be in a worker's queue. *)
Active == kids \cup {Parent}

JoinTypeOK ==
  /\ kids \subseteq Children /\ IsFiniteSet(kids)
  /\ queue \in [Workers -> Seq(Active)]
  /\ running \in [Workers -> Active \cup {None}]
  /\ away \subseteq kids /\ owners \subseteq Coros
  /\ stage[Parent] \in {"start", "wait", "join", "returned", "threw"}
  /\ stage \in [Coros -> {"start", "wait", "join", "returned", "threw",
                          "done", "end", "over"}]
  /\ \A c \in Children : stage[c] \in {"start", "done", "end", "over"}
  /\ pc \in [Coros -> {"idle", "drain", "waking", "suspending", "parked",
                       "resumed"}]
  /\ pc[Parent] \notin {"drain", "waking"}
  /\ \A c \in Children : pc[c] \in {"idle", "drain", "waking"}
  /\ wait_queue_ \in Seq({Parent}) /\ wake \in [Coros -> Seq({Parent})]
  /\ count_ \in Nat /\ mtx \in Coros \cup {None}
  /\ res \in [Children -> {"empty", "value"}]
  /\ thrown \in Seq(Children) /\ exception \in Children \cup {None}

(* count_ is the number of wrappers that owe a done(). *)
CountInv ==
  count_ = IF stage[Parent] = "start" THEN 0 ELSE Cardinality(Owing)

(* mtx is held across two steps, and handles are drained, at zero only.    *)
LockInv ==
  /\ mtx # None => count_ = 0
  /\ \A c \in Coros : /\ pc[c] = "drain" => mtx = c
                      /\ pc[c] = "waking" => count_ = 0 /\ mtx = None
                      /\ wake[c] # <<>> => pc[c] = "waking"

(* Nothing runs or is queued but on worker w. *)
Alone(w) == \A v \in Workers \ {w} : queue[v] = <<>> /\ running[v] = None

(* Until when_all suspends no wrapper has begun: they all are behind it in *)
(* the queue of its own worker, where only that worker finds them.         *)
Home(w) ==
  /\ Alone(w)
  /\ running[w] = Parent \/ (running[w] = None /\ stage[Parent] = "start")
  /\ stage[Parent] = "start" => queue[w] \in Seq({Parent})
QuietInv ==
  stage[Parent] \in {"start", "wait"} =>
    /\ \E w \in Workers : Home(w)
    /\ away = {} /\ mtx = None
    /\ \A c \in Children : pc[c] = "idle" /\ stage[c] = "start"

(* when_all goes on, and ends, when nobody owes anything and the last      *)
(* done() has left the lock.                                               *)
Joined ==
  \/ stage[Parent] \in {"returned", "threw"}
  \/ stage[Parent] = "join" /\ pc[Parent] \in {"idle", "resumed"}
JoinedInv ==
  /\ Joined => count_ = 0 /\ mtx = None
  /\ pc[Parent] = "suspending" => stage[Parent] = "wait"
  /\ stage[Parent] \in {"wait", "join"} => Parent \in owners

(* What the wrappers have left in the state. *)
ResultInv ==
  /\ \A c \in kids :
       stage[c] # "start" => res[c] = "value" \/ thrown # <<>>
  /\ exception = None <=> thrown = <<>>
  /\ thrown # <<>> => exception = Head(thrown)
  /\ stage[Parent] = "returned" => thrown = <<>>
  /\ stage[Parent] = "threw" => thrown # <<>>

JoinInv ==
  /\ JoinTypeOK /\ CountInv /\ LockInv /\ QuietInv /\ JoinedInv /\ ResultInv
  /\ ~dangling

(* The parts start out true: only when_all's coroutine is queued. *)
LEMMA JoinInit == Init => JoinInv
<1> SUFFICES ASSUME Init PROVE JoinInv
  OBVIOUS
<1> USE NoneAssumption, ParentAssumption, CorosAssumption DEF Children
<1>1. /\ kids \subseteq Children /\ IsFiniteSet(kids)
  <2>1. kids \subseteq Coros
    BY DEF Init
  <2> QED BY <2>1, FS_Subset DEF Init
<1>2. PICK w \in Workers :
        queue = [v \in Workers |-> IF v = w THEN <<Parent>> ELSE <<>>]
  BY DEF Init
<1>3. <<Parent>> \in Seq({Parent}) /\ <<Parent>> \in Seq(Active)
  BY DEF Active
<1>4. queue \in [Workers -> Seq(Active)]
  BY <1>2, <1>3
<1>5. JoinTypeOK
  BY <1>1, <1>4 DEF Init, WgInit, JoinTypeOK
<1>6. CountInv /\ LockInv /\ JoinedInv /\ ResultInv /\ ~dangling
  BY DEF Init, WgInit, CountInv, LockInv, JoinedInv, Joined, ResultInv
<1>7. QuietInv
  BY <1>2, <1>3 DEF Init, WgInit, QuietInv, Home, Alone
<1> QED BY <1>5, <1>6, <1>7 DEF JoinInv

(* A worker that has begun on anything but when_all itself shows that      *)
(* when_all has suspended.                                                 *)
LEMMA NotQuiet ==
  ASSUME JoinInv, NEW w \in Workers, NEW c \in Children, running[w] = c
  PROVE  c \in kids /\ c # Parent /\ stage[Parent] \notin {"start", "wait"}
<1>1. c # Parent /\ c # None /\ c \in kids
  BY NoneAssumption DEF Children, JoinInv, JoinTypeOK, Active
<1> QED BY <1>1 DEF JoinInv, QuietInv, Home, Alone

(* A wrapper that owes a done(), or is in the middle of it, finds the      *)
(* state in place: when_all cannot have joined.                            *)
LEMMA StateHeld ==
  ASSUME JoinInv, NEW w \in Workers, NEW c \in Children, running[w] = c,
         stage[c] \in {"start", "done"} \/ pc[c] = "drain"
  PROVE  owners # {} /\ stage[Parent] = "join" /\ ~Joined
<1>1. c \in kids /\ stage[Parent] \notin {"start", "wait"}
  BY NotQuiet
<1>2. ~Joined
  <2>1. CASE stage[c] \in {"start", "done"}
    <3>1. c \in Owing /\ IsFiniteSet(Owing)
      BY <1>1, <2>1, FS_Subset DEF Owing, JoinInv, JoinTypeOK
    <3>2. count_ # 0
      BY <1>1, <3>1, FS_EmptySet DEF JoinInv, CountInv
    <3> QED BY <3>2 DEF JoinInv, JoinedInv
  <2>2. CASE pc[c] = "drain"
    BY <2>2, NoneAssumption DEF JoinInv, JoinedInv, LockInv, Children
  <2> QED BY <2>1, <2>2
<1>3. stage[Parent] = "join"
  BY <1>1, <1>2 DEF JoinInv, JoinTypeOK, Joined
<1> QED BY <1>2, <1>3 DEF JoinInv, JoinedInv

(* The parts that a step of the workers alone can disturb. *)
LEMMA WorkersOnly ==
  ASSUME JoinInv, UNCHANGED <<wgVars, kids, stateVars, stage, thrown, dangling>>,
         queue' \in [Workers -> Seq(Active)],
         running' \in [Workers -> Active \cup {None}],
         away' \subseteq kids, QuietInv'
  PROVE  JoinInv'
<1> USE DEF wgVars, stateVars
<1>1. Owing' = Owing /\ Active' = Active
  BY DEF Owing, Active
<1>2. JoinTypeOK'
  BY <1>1 DEF JoinInv, JoinTypeOK
<1>3. CountInv' /\ LockInv' /\ JoinedInv' /\ ResultInv'
  BY <1>1 DEF JoinInv, CountInv, LockInv, JoinedInv, Joined, ResultInv
<1> QED BY <1>2, <1>3 DEF JoinInv

(* A worker takes up the next coroutine of its queue. *)
LEMMA PickInv ==
  ASSUME JoinInv, NEW w \in Workers, Pick(w)
  PROVE  JoinInv'
<1> USE DEF JoinInv
<1>1. /\ running[w] = None /\ queue[w] # <<>> /\ queue[w] \in Seq(Active)
      /\ running' = [running EXCEPT ![w] = Head(queue[w])]
      /\ queue' = [queue EXCEPT ![w] = Tail(@)]
      /\ UNCHANGED <<wgVars, kids, stateVars, stage, thrown, dangling, away>>
      /\ running \in [Workers -> Active \cup {None}] /\ queue \in [Workers -> Seq(Active)]
  BY DEF Pick, childVars, JoinTypeOK
<1>2. Head(queue[w]) \in Active /\ Tail(queue[w]) \in Seq(Active)
  BY <1>1, PopLemma
<1>3. /\ queue' \in [Workers -> Seq(Active)]
      /\ running' \in [Workers -> Active \cup {None}]
  BY <1>1, <1>2
<1>4. QuietInv'
  <2> SUFFICES ASSUME stage[Parent] \in {"start", "wait"} PROVE QuietInv'
    BY <1>1 DEF QuietInv
  <2>1. PICK v \in Workers : Home(v)
    BY DEF QuietInv
  <2>2. v = w
    BY <1>1, <2>1 DEF Alone, Home
  <2>3. stage[Parent] = "start" /\ queue[w] \in Seq({Parent})
    BY <1>1, <2>1, <2>2, NoneAssumption, ParentAssumption DEF Home
  <2>4. Head(queue[w]) = Parent /\ Tail(queue[w]) \in Seq({Parent})
    <3> DEFINE S == {Parent}
    <3>1. queue[w] \in Seq(S) /\ queue[w] # <<>>
      BY <1>1, <2>3
    <3> HIDE DEF S
    <3>2. Head(queue[w]) \in S /\ Tail(queue[w]) \in Seq(S)
      BY <3>1, PopLemma
    <3> QED BY <3>2 DEF S
  <2>5. Alone(w)' /\ running'[w] = Parent /\ queue'[w] \in Seq({Parent})
    BY <1>1, <2>1, <2>2, <2>4 DEF Alone, Home
  <2> QED BY <1>1, <2>3, <2>5 DEF QuietInv, Home, wgVars
<1> QED BY <1>1, <1>3, <1>4, WorkersOnly DEF JoinTypeOK

(* when_all makes its state, sets the count and submits the wrappers, all  *)
(* before any of them can run.                                             *)
LEMMA StartInv ==
  ASSUME JoinInv, NEW w \in Workers, Start(w)
  PROVE  JoinInv'
<1> USE NoneAssumption, ParentAssumption DEF JoinInv
<1>1. /\ running[w] = Parent /\ stage[Parent] = "start" /\ mtx = None
      /\ pc[Parent] = "idle"
      /\ count_' = count_ + Cardinality(kids)
      /\ queue' = [queue EXCEPT ![w] = @ \o SetToSeq(kids)]
      /\ owners' = SharedBy /\ stage' = [stage EXCEPT ![Parent] = "wait"]
      /\ UNCHANGED <<wait_queue_, mtx, pc, wake, running, kids, res, exception,
                     away, thrown, dangling>>
  BY DEF Start, Add, Push, GotoStage, childVars
<1>2. PICK v \in Workers : Home(v)
  BY <1>1 DEF QuietInv
<1>3. v = w
  BY <1>1, <1>2 DEF Alone, Home
<1>4. SetToSeq(kids) \in Seq(Active)
  <2>1. PICK f \in [1..Cardinality(kids) -> kids] : IsInjective(f)
    <3>1. ExistsBijection(1..Cardinality(kids), kids)
      BY FS_CardinalityType DEF JoinTypeOK
    <3> QED BY <3>1 DEF ExistsBijection, Bijection, Injection, IsInjective
  <2>2. SetToSeq(kids) \in [1..Cardinality(kids) -> kids]
    BY <2>1 DEF SetToSeq
  <2>3. Cardinality(kids) \in Nat
    BY FS_CardinalityType DEF JoinTypeOK
  <2> QED BY <2>2, <2>3 DEF Active
<1>5. queue'[w] \in Seq(Active) /\ \A u \in Workers \ {w} : queue'[u] = queue[u]
  BY <1>1, <1>4 DEF JoinTypeOK
<1>6. /\ stage'[Parent] = "wait" /\ \A c \in Children : stage'[c] = stage[c]
      /\ Active' = Active /\ Cardinality(kids) \in Nat
  BY <1>1, FS_CardinalityType DEF JoinTypeOK, Children, Active
<1>7. JoinTypeOK'
  <2>1. queue' \in [Workers -> Seq(Active)]
    BY <1>1, <1>5 DEF JoinTypeOK
  <2>2. owners' \subseteq Coros
    BY <1>1 DEF SharedBy, JoinTypeOK, Children
  <2>3. count_' \in Nat
    BY <1>1, <1>6 DEF JoinTypeOK
  <2>4. stage' \in [Coros -> {"start", "wait", "join", "returned", "threw",
                              "done", "end", "over"}]
    BY <1>1 DEF JoinTypeOK
  <2> QED BY <1>1, <1>6, <2>1, <2>2, <2>3, <2>4 DEF JoinTypeOK
<1>8. CountInv'
  <2>1. Owing' = kids
    BY <1>1, <1>6 DEF Owing, QuietInv, JoinTypeOK
  <2>2. count_' = Cardinality(kids)
    BY <1>1, <1>6 DEF CountInv
  <2> QED BY <1>6, <2>1, <2>2 DEF CountInv
<1>9. LockInv'
  BY <1>1 DEF LockInv, QuietInv, Children, JoinTypeOK
<1>10. QuietInv'
  <2>1. Alone(w)'
    BY <1>1, <1>2, <1>3, <1>5 DEF Alone, Home
  <2> QED BY <1>1, <1>6, <2>1 DEF QuietInv, Home
<1>11. JoinedInv' /\ ResultInv'
  BY <1>1, <1>6 DEF JoinedInv, Joined, ResultInv, SharedBy, JoinTypeOK
<1> QED BY <1>1, <1>7, <1>8, <1>9, <1>10, <1>11

(* A step that moves when_all on its way through co_await wg.wait(). *)
LEMMA ParentMoves ==
  ASSUME JoinInv, UNCHANGED <<count_, mtx, kids, stateVars, thrown>>, ~dangling',
         NEW p \in {"idle", "suspending", "parked", "resumed"},
         NEW s \in {"start", "wait", "join", "returned", "threw"},
         pc' = [pc EXCEPT ![Parent] = p],
         stage' = [stage EXCEPT ![Parent] = s],
         s = "join" => stage[Parent] \in {"wait", "join"},
         s # "join" => s = stage[Parent],
         s \in {"start", "wait"} => UNCHANGED <<queue, running, away>>,
         wait_queue_' \in Seq({Parent}), wake' \in [Coros -> Seq({Parent})],
         \A c \in Coros : wake'[c] # <<>> => wake[c] # <<>>,
         queue' \in [Workers -> Seq(Active)],
         running' \in [Workers -> Active \cup {None}], away' \subseteq kids,
         p = "suspending" => s = "wait",
         s = "join" /\ p \in {"idle", "resumed"} => count_ = 0 /\ mtx = None
  PROVE  JoinInv'
<1> USE ParentAssumption DEF JoinInv
<1>1. /\ stage'[Parent] = s /\ pc'[Parent] = p
      /\ \A c \in Children : stage'[c] = stage[c] /\ pc'[c] = pc[c]
      /\ Active' = Active
  BY DEF JoinTypeOK, Children, Active
<1>2. Owing' = Owing
  BY <1>1 DEF Owing, JoinTypeOK
<1>3. JoinTypeOK'
  <2>1. pc' \in [Coros -> {"idle", "drain", "waking", "suspending", "parked",
                           "resumed"}]
    BY DEF JoinTypeOK
  <2>2. stage' \in [Coros -> {"start", "wait", "join", "returned", "threw",
                              "done", "end", "over"}]
    BY DEF JoinTypeOK
  <2> QED BY <1>1, <2>1, <2>2 DEF JoinTypeOK, stateVars
<1>4. CountInv'
  BY <1>1, <1>2 DEF CountInv
<1>5. LockInv'
  BY <1>1 DEF LockInv, JoinTypeOK, Children
<1>6. QuietInv'
  BY <1>1 DEF QuietInv, Home, Alone
<1>7. JoinedInv' /\ ResultInv'
  <2>1. JoinedInv'
    BY <1>1 DEF JoinedInv, Joined, stateVars
  <2>2. ResultInv'
    BY <1>1 DEF ResultInv, stateVars, JoinTypeOK
  <2> QED BY <2>1, <2>2
<1> QED BY <1>3, <1>4, <1>5, <1>6, <1>7

(* await_ready, await_suspend and await_resume of when_all's wait. *)
LEMMA ParentWaits ==
  ASSUME JoinInv, NEW w \in Workers,
         ParentReady(w) \/ ParentSuspend(w) \/ ParentResumed(w)
  PROVE  JoinInv'
<1> USE ParentAssumption DEF JoinInv
<1>1. /\ UNCHANGED <<count_, mtx, wake, kids, stateVars, thrown, away, queue>>
      /\ running[w] = Parent
  BY DEF ParentReady, ParentSuspend, ParentResumed, WaitReady, WaitSuspend,
         WaitReturn, runtimeVars, childVars
<1>2. /\ pc \in [Coros -> {"idle", "drain", "waking", "suspending", "parked",
                           "resumed"}]
      /\ queue \in [Workers -> Seq(Active)] /\ running \in [Workers -> Active \cup {None}]
      /\ stage \in [Coros -> {"start", "wait", "join", "returned", "threw",
                              "done", "end", "over"}]
      /\ away \subseteq kids /\ wake \in [Coros -> Seq({Parent})]
      /\ wait_queue_ \in Seq({Parent})
      /\ stage[Parent] \in {"start", "wait", "join", "returned", "threw"}
  BY DEF JoinTypeOK
<1>3. CASE ParentReady(w)
  <2>1. /\ stage[Parent] = "wait" /\ pc[Parent] = "idle" /\ mtx = None
        /\ UNCHANGED <<running, wait_queue_>>
    BY <1>3 DEF ParentReady, WaitReady, runtimeVars, QuietInv
  <2>2. ~dangling'
    BY <1>3, <2>1 DEF ParentReady, Touch, JoinedInv
  <2>3. CASE count_ = 0
    <3>1. /\ pc' = [pc EXCEPT ![Parent] = "idle"]
          /\ stage' = [stage EXCEPT ![Parent] = "join"]
      BY <1>2, <1>3, <2>1, <2>3 DEF ParentReady, WaitReady, GotoStage
    <3> QED BY <1>1, <1>2, <2>1, <2>2, <2>3, <3>1, ParentMoves
  <2>4. CASE count_ # 0
    <3>1. /\ pc' = [pc EXCEPT ![Parent] = "suspending"]
          /\ stage' = [stage EXCEPT ![Parent] = "wait"]
      BY <1>2, <1>3, <2>1, <2>4 DEF ParentReady, WaitReady, Goto
    <3> QED BY <1>1, <1>2, <2>1, <2>2, <3>1, ParentMoves
  <2> QED BY <2>3, <2>4
<1>4. CASE ParentSuspend(w)
  <2>1. /\ stage[Parent] = "wait" /\ mtx = None
        /\ stage' = [stage EXCEPT ![Parent] = "join"]
        /\ running' \in [Workers -> Active \cup {None}]
    BY <1>2, <1>4 DEF ParentSuspend, WaitSuspend, GotoStage, JoinedInv
  <2>2. ~dangling'
    BY <1>4, <2>1 DEF ParentSuspend, Touch, JoinedInv
  <2>3. CASE count_ = 0
    <3>1. pc' = [pc EXCEPT ![Parent] = "idle"] /\ wait_queue_' = wait_queue_
      BY <1>4, <2>3 DEF ParentSuspend, WaitSuspend, Goto
    <3> QED BY <1>1, <1>2, <2>1, <2>2, <2>3, <3>1, ParentMoves
  <2>4. CASE count_ # 0
    <3>1. pc' = [pc EXCEPT ![Parent] = "parked"] /\ wait_queue_' = Append(wait_queue_, Parent)
      BY <1>4, <2>4 DEF ParentSuspend, WaitSuspend, Goto
    <3>2. wait_queue_' \in Seq({Parent})
      BY <1>2, <3>1
    <3> QED BY <1>1, <1>2, <2>1, <2>2, <3>1, <3>2, ParentMoves
  <2> QED BY <2>3, <2>4
<1>5. CASE ParentResumed(w)
  <2>1. /\ pc[Parent] = "resumed" /\ pc' = [pc EXCEPT ![Parent] = "idle"]
        /\ stage' = [stage EXCEPT ![Parent] = stage[Parent]]
        /\ UNCHANGED <<running, wait_queue_>> /\ ~dangling'
    BY <1>2, <1>5 DEF ParentResumed, WaitReturn, Goto, runtimeVars
  <2>2. stage[Parent] = "join" => count_ = 0 /\ mtx = None
    BY <2>1 DEF JoinedInv, Joined
  <2> QED BY <1>1, <1>2, <2>1, <2>2, ParentMoves
<1> QED BY <1>3, <1>4, <1>5

(* when_all ends: every child has left a value, or one has thrown. *)
LEMMA FinishInv ==
  ASSUME JoinInv, NEW w \in Workers, Finish(w)
  PROVE  JoinInv'
<1> USE ParentAssumption DEF JoinInv
<1>1. /\ stage[Parent] = "join" /\ pc[Parent] = "idle" /\ owners' = owners \ {Parent}
      /\ running' = [running EXCEPT ![w] = None]
      /\ stage' = [stage EXCEPT ![Parent] =
                     IF exception # None THEN "threw"
                     ELSE IF \A c \in kids : res[c] = "value" THEN "returned"
                     ELSE "undefined"]
      /\ UNCHANGED <<wgVars, queue, kids, res, exception, away, thrown>>
      /\ ~dangling'
  BY DEF Finish, GotoStage, Suspended, Touch, childVars, JoinedInv
<1>2. count_ = 0 /\ mtx = None
  BY <1>1 DEF JoinedInv, Joined
<1>3. Owing = {}
  <2>1. IsFiniteSet(Owing)
    BY FS_Subset DEF Owing, JoinTypeOK
  <2> QED BY <1>1, <1>2, <2>1, FS_EmptySet DEF CountInv
<1>4. \A c \in kids : stage[c] # "start"
  BY <1>3 DEF Owing
<1>5. stage'[Parent] = IF exception # None THEN "threw" ELSE "returned"
  <2>1. exception = None => \A c \in kids : res[c] = "value"
    BY <1>4 DEF ResultInv
  <2> QED BY <1>1, <2>1 DEF JoinTypeOK
<1>6. /\ \A c \in Children : stage'[c] = stage[c]
      /\ Active' = Active /\ Owing' = Owing
  BY <1>1 DEF JoinTypeOK, Children, Active, Owing
<1>7. JoinTypeOK'
  <2>1. stage' \in [Coros -> {"start", "wait", "join", "returned", "threw",
                              "done", "end", "over"}]
    <3>1. \A c \in Coros \ {Parent} : stage'[c] = stage[c]
      BY <1>1 DEF JoinTypeOK
    <3>2. stage' = [c \in Coros |-> stage'[c]]
      BY <1>1 DEF JoinTypeOK
    <3>3. stage'[Parent] \in {"returned", "threw"}
      BY <1>5
    <3>4. \A c \in Coros : stage[c] \in {"start", "wait", "join", "returned",
                                         "threw", "done", "end", "over"}
      BY DEF JoinTypeOK
    <3>5. \A c \in Coros : stage'[c] \in {"start", "wait", "join", "returned",
                                          "threw", "done", "end", "over"}
      BY <3>1, <3>3, <3>4
    <3> QED BY <3>2, <3>5
  <2>2. running' \in [Workers -> Active \cup {None}]
    BY <1>1 DEF JoinTypeOK
  <2> QED BY <1>1, <1>5, <1>6, <2>1, <2>2 DEF JoinTypeOK, wgVars
<1>8. CountInv' /\ LockInv' /\ QuietInv' /\ JoinedInv'
  BY <1>1, <1>2, <1>5, <1>6 DEF wgVars, CountInv, LockInv, QuietInv, JoinedInv, Joined
<1>9. ResultInv'
  BY <1>1, <1>5, <1>6 DEF ResultInv, JoinTypeOK
<1> QED BY <1>1, <1>7, <1>8, <1>9

(* A child suspends, or is woken on any worker. *)
LEMMA ChildAway ==
  ASSUME JoinInv, NEW w \in Workers,
         ChildWakes(w) \/ \E c \in Children : ChildSuspends(w, c)
  PROVE  JoinInv'
<1> USE DEF JoinInv
<1>1. /\ UNCHANGED <<wgVars, kids, stateVars, stage, thrown, dangling>>
      /\ queue \in [Workers -> Seq(Active)] /\ running \in [Workers -> Active \cup {None}]
      /\ away \subseteq kids
  BY DEF ChildWakes, ChildSuspends, JoinTypeOK
<1>2. CASE ChildWakes(w)
  <2>1. PICK c \in away : away' = away \ {c} /\ queue' = [queue EXCEPT ![w] = @ \o <<c>>]
    BY <1>2 DEF ChildWakes, Push
  <2>2. <<c>> \in Seq(Active) /\ running' = running
    BY <1>1, <1>2, <2>1 DEF Active, ChildWakes
  <2>3. queue[w] \o <<c>> \in Seq(Active)
    BY <1>1, <2>2
  <2>4. queue' \in [Workers -> Seq(Active)]
    BY <1>1, <2>1, <2>3
  <2>5. QuietInv'
    BY <1>1, <2>1 DEF QuietInv
  <2> QED BY <1>1, <2>1, <2>2, <2>4, <2>5, WorkersOnly
<1>3. ASSUME NEW c \in Children, ChildSuspends(w, c)
      PROVE  JoinInv'
  <2>1. /\ running[w] = c /\ away' = away \cup {c} /\ queue' = queue
        /\ running' = [running EXCEPT ![w] = None]
    BY <1>3 DEF ChildSuspends, InChild, Suspended
  <2>2. c \in kids /\ stage[Parent] \notin {"start", "wait"}
    BY <1>3, <2>1, NotQuiet
  <2>3. QuietInv'
    BY <1>1, <2>2 DEF QuietInv
  <2>4. running' \in [Workers -> Active \cup {None}]
    BY <1>1, <2>1
  <2> QED BY <1>1, <2>1, <2>2, <2>3, <2>4, WorkersOnly
<1> QED BY <1>2, <1>3

(* The parts that a step of wrapper c can disturb once when_all has        *)
(* suspended: the other coroutines stay where they are.                    *)
LEMMA WrapperMoves ==
  ASSUME JoinInv, NEW c \in Children, stage[Parent] \notin {"start", "wait"},
         UNCHANGED <<kids, queue, away>>, ~dangling',
         running' \in [Workers -> Active \cup {None}],
         NEW s \in {"start", "done", "end", "over"},
         NEW p \in {"idle", "drain", "waking"},
         stage' = [stage EXCEPT ![c] = s], pc' = [pc EXCEPT ![c] = p],
         wait_queue_' \in Seq({Parent}), wake' \in [Coros -> Seq({Parent})],
         count_' \in Nat, mtx' \in Coros \cup {None}, owners' \subseteq Coros,
         Parent \in owners => Parent \in owners',
         res' \in [Children -> {"empty", "value"}],
         thrown' \in Seq(Children), exception' \in Children \cup {None},
         CountInv', LockInv', ResultInv', Joined => count_' = 0 /\ mtx' = None
  PROVE  JoinInv'
<1> USE ParentAssumption DEF JoinInv
<1>1. /\ stage'[Parent] = stage[Parent] /\ pc'[Parent] = pc[Parent]
      /\ \A d \in Children : d # c => stage'[d] = stage[d] /\ pc'[d] = pc[d]
      /\ stage'[c] = s /\ pc'[c] = p /\ Active' = Active
  BY DEF JoinTypeOK, Children, Active
<1>2. JoinTypeOK'
  <2>1. pc' \in [Coros -> {"idle", "drain", "waking", "suspending", "parked",
                           "resumed"}]
    BY DEF JoinTypeOK
  <2>2. stage' \in [Coros -> {"start", "wait", "join", "returned", "threw",
                              "done", "end", "over"}]
    BY DEF JoinTypeOK
  <2> QED BY <1>1, <2>1, <2>2 DEF JoinTypeOK
<1>3. QuietInv'
  BY <1>1 DEF QuietInv
<1>4. JoinedInv'
  BY <1>1 DEF JoinedInv, Joined
<1> QED BY <1>2, <1>3, <1>4

(* A child ends: its value or its exception is kept. *)
LEMMA ChildEnds ==
  ASSUME JoinInv, NEW w \in Workers, NEW c \in Children,
         ChildReturns(w, c) \/ ChildThrows(w, c)
  PROVE  JoinInv'
<1> USE DEF JoinInv
<1>1. /\ running[w] = c /\ stage[c] = "start" /\ stage' = [stage EXCEPT ![c] = "done"]
      /\ UNCHANGED <<wgVars, kids, queue, running, away, owners>>
      /\ dangling' = (dangling \/ owners = {})
  BY DEF ChildReturns, ChildThrows, InChild, GotoStage, Touch, runtimeVars, childVars
<1>2. c \in kids /\ c # Parent /\ stage[Parent] \notin {"start", "wait"}
  BY <1>1, NotQuiet
<1>3. owners # {} /\ stage[Parent] = "join" /\ ~Joined
  BY <1>1, StateHeld
<1>4. ~dangling'
  BY <1>1, <1>3
<1>5. /\ stage'[Parent] = "join" /\ stage'[c] = "done" /\ Owing' = Owing
      /\ \A d \in kids \ {c} : stage'[d] = stage[d]
  BY <1>1, <1>2, <1>3 DEF JoinTypeOK, Children, Owing
<1>6. CountInv' /\ LockInv'
  BY <1>1, <1>3, <1>5 DEF CountInv, LockInv, wgVars
<1>7. /\ res' \in [Children -> {"empty", "value"}] /\ thrown' \in Seq(Children)
      /\ exception' \in Children \cup {None} /\ ResultInv'
  <2>1. CASE ChildReturns(w, c)
    <3>1. /\ res' = [res EXCEPT ![c] = "value"] /\ UNCHANGED <<exception, thrown>>
      BY <2>1 DEF ChildReturns, childVars
    <3> QED BY <1>1, <1>3, <1>5, <3>1 DEF ResultInv, JoinTypeOK
  <2>2. CASE ChildThrows(w, c)
    <3>1. /\ exception' = IF exception = None THEN c ELSE exception
          /\ thrown' = Append(thrown, c) /\ res' = res
      BY <2>2 DEF ChildThrows, store_first_exception
    <3>2. /\ thrown' \in Seq(Children) /\ thrown' # <<>>
          /\ Head(thrown') = IF thrown = <<>> THEN c ELSE Head(thrown)
      BY <3>1 DEF JoinTypeOK
    <3>3. exception' \in Children /\ exception' # None
      BY <3>1, NoneAssumption DEF JoinTypeOK, Children
    <3>4. exception' = Head(thrown')
      BY <3>1, <3>2 DEF ResultInv
    <3> QED BY <1>1, <1>3, <1>5, <3>1, <3>2, <3>3, <3>4 DEF ResultInv, JoinTypeOK
  <2> QED BY <2>1, <2>2
<1>8. pc' = [pc EXCEPT ![c] = pc[c]] /\ pc[c] \in {"idle", "drain", "waking"}
  BY <1>1 DEF JoinTypeOK, wgVars
<1>9. /\ wait_queue_' \in Seq({Parent}) /\ wake' \in [Coros -> Seq({Parent})]
      /\ count_' \in Nat /\ mtx' \in Coros \cup {None} /\ owners' \subseteq Coros
      /\ running' \in [Workers -> Active \cup {None}]
  BY <1>1 DEF JoinTypeOK, wgVars
<1> QED BY <1>1, <1>2, <1>3, <1>4, <1>6, <1>7, <1>8, <1>9, WrapperMoves

(* done(): one wrapper less owes one; the last one keeps the lock. *)
LEMMA WrapperDoneInv ==
  ASSUME JoinInv, NEW w \in Workers, NEW c \in Children, WrapperDone(w, c)
  PROVE  JoinInv'
<1> USE NoneAssumption DEF JoinInv
<1>1. /\ running[w] = c /\ stage[c] = "done" /\ stage' = [stage EXCEPT ![c] = "end"]
      /\ pc[c] = "idle" /\ mtx = None /\ count_ # 0 /\ count_' = count_ - 1
      /\ UNCHANGED <<wait_queue_, wake, kids, queue, running, away, owners, res,
                     exception, thrown>>
      /\ dangling' = (dangling \/ owners = {})
  BY DEF WrapperDone, Done, GotoStage, Touch, runtimeVars, childVars, stateVars
<1>2. c \in kids /\ c # Parent /\ c \in Coros /\ c # None
      /\ stage[Parent] \notin {"start", "wait"}
  BY <1>1, NotQuiet DEF Children
<1>3. owners # {} /\ stage[Parent] = "join" /\ ~Joined
  BY <1>1, StateHeld
<1>4. PICK p \in {"idle", "drain"} :
        /\ pc' = [pc EXCEPT ![c] = p]
        /\ p = "drain" => mtx' = c /\ count_ = 1
        /\ p = "idle" => mtx' = mtx
  BY <1>1 DEF WrapperDone, Done, Goto, JoinTypeOK
<1>5. ~dangling'
  BY <1>1, <1>3
<1>6. /\ stage'[Parent] = "join" /\ stage'[c] = "end" /\ Owing' = Owing \ {c}
      /\ \A d \in kids \ {c} : stage'[d] = stage[d]
  BY <1>1, <1>2, <1>3 DEF JoinTypeOK, Children, Owing
<1>7. c \in Owing /\ IsFiniteSet(Owing) /\ count_ = Cardinality(Owing) /\ count_ \in Nat
  BY <1>1, <1>2, <1>3, FS_Subset DEF Owing, JoinTypeOK, CountInv
<1>8. CountInv' /\ count_' \in Nat
  <2>1. Cardinality(Owing \ {c}) = Cardinality(Owing) - 1
    BY <1>7, FS_RemoveElement
  <2> QED BY <1>1, <1>6, <1>7, <2>1 DEF CountInv
<1>9. LockInv'
  <2>1. \A d \in Coros : pc[d] # "drain" /\ pc[d] # "waking" /\ wake[d] = <<>>
    BY <1>1 DEF LockInv
  <2>2. mtx' # None => count_' = 0
    BY <1>1, <1>4
  <2>3. ASSUME NEW d \in Coros
        PROVE  /\ pc'[d] = "drain" => mtx' = d
               /\ pc'[d] # "waking" /\ wake'[d] = <<>>
    BY <1>1, <1>2, <1>4, <2>1 DEF JoinTypeOK
  <2> QED BY <2>2, <2>3 DEF LockInv
<1>10. ResultInv'
  BY <1>1, <1>6 DEF ResultInv
<1>11. /\ wait_queue_' \in Seq({Parent}) /\ wake' \in [Coros -> Seq({Parent})]
       /\ mtx' \in Coros \cup {None} /\ owners' \subseteq Coros
       /\ running' \in [Workers -> Active \cup {None}]
       /\ res' \in [Children -> {"empty", "value"}] /\ thrown' \in Seq(Children)
       /\ exception' \in Children \cup {None}
  BY <1>1, <1>2, <1>4 DEF JoinTypeOK
<1> QED BY <1>1, <1>2, <1>3, <1>4, <1>5, <1>8, <1>9, <1>10, <1>11, WrapperMoves

(* The rest of the last done(), and the end of a wrapper. *)
LEMMA WrapperLeaves ==
  ASSUME JoinInv, NEW w \in Workers, NEW c \in Children,
         WrapperDrain(w, c) \/ WrapperDoneReturn(w, c) \/ WrapperEnd(w, c)
  PROVE  JoinInv'
<1> USE NoneAssumption DEF JoinInv
<1>1. /\ running[w] = c /\ UNCHANGED <<count_, kids, queue, away, res, exception, thrown>>
      /\ running' = running \/ running' = [running EXCEPT ![w] = None]
      /\ owners' = owners \/ owners' = owners \ {c}
  BY DEF WrapperDrain, Drain, WrapperDoneReturn, DoneReturn, WrapperEnd, Suspended,
         runtimeVars, childVars, stateVars, wgVars
<1>2. c \in kids /\ c # Parent /\ c \in Coros /\ c # None
      /\ stage[Parent] \notin {"start", "wait"}
  BY <1>1, NotQuiet DEF Children
<1>3. /\ pc \in [Coros -> {"idle", "drain", "waking", "suspending", "parked",
                           "resumed"}]
      /\ stage \in [Coros -> {"start", "wait", "join", "returned", "threw",
                              "done", "end", "over"}]
      /\ wake \in [Coros -> Seq({Parent})] /\ wait_queue_ \in Seq({Parent})
      /\ stage[c] \in {"start", "done", "end", "over"}
      /\ pc[c] \in {"idle", "drain", "waking"}
      /\ mtx \in Coros \cup {None}
  BY <1>2 DEF JoinTypeOK
<1>4. /\ owners' \subseteq Coros /\ running' \in [Workers -> Active \cup {None}]
      /\ Parent \in owners => Parent \in owners'
      /\ count_' \in Nat /\ res' \in [Children -> {"empty", "value"}]
      /\ thrown' \in Seq(Children) /\ exception' \in Children \cup {None}
  BY <1>1, <1>2 DEF JoinTypeOK
<1>5. CASE WrapperDrain(w, c)
  <2>1. /\ pc[c] = "drain" /\ mtx' = None /\ pc' = [pc EXCEPT ![c] = "waking"]
        /\ wake' = [wake EXCEPT ![c] = wait_queue_] /\ wait_queue_' = <<>>
        /\ stage' = [stage EXCEPT ![c] = stage[c]] /\ stage' = stage
        /\ dangling' = (dangling \/ owners = {})
    BY <1>3, <1>5 DEF WrapperDrain, Drain, Goto, Touch
  <2>2. owners # {} /\ ~Joined /\ mtx = c /\ count_ = 0
    BY <1>1, <1>2, <2>1, StateHeld DEF LockInv
  <2>3. ~dangling' /\ Owing' = Owing
    BY <1>1, <2>1, <2>2 DEF Owing
  <2>4. CountInv' /\ ResultInv'
    BY <1>1, <2>1, <2>3 DEF CountInv, ResultInv
  <2>5. LockInv'
    BY <1>1, <1>2, <1>3, <2>1, <2>2 DEF LockInv
  <2>6. wait_queue_' \in Seq({Parent}) /\ wake' \in [Coros -> Seq({Parent})]
    <3>1. wait_queue_' \in Seq({Parent})
      BY <2>1
    <3>2. wake' \in [Coros -> Seq({Parent})]
      BY <1>3, <2>1
    <3> QED BY <3>1, <3>2
  <2> QED BY <1>1, <1>2, <1>3, <1>4, <2>1, <2>2, <2>3, <2>4, <2>5, <2>6, WrapperMoves
<1>6. CASE WrapperDoneReturn(w, c)
  <2>1. /\ pc[c] = "waking" /\ wake[c] = <<>> /\ pc' = [pc EXCEPT ![c] = "idle"]
        /\ stage' = [stage EXCEPT ![c] = stage[c]] /\ stage' = stage
        /\ UNCHANGED <<mtx, wake, wait_queue_>> /\ ~dangling'
    BY <1>3, <1>6 DEF WrapperDoneReturn, DoneReturn, Goto
  <2>2. Owing' = Owing
    BY <1>1, <2>1 DEF Owing
  <2>3. CountInv' /\ ResultInv'
    BY <1>1, <2>1, <2>2 DEF CountInv, ResultInv
  <2>4. LockInv'
    BY <1>1, <1>2, <1>3, <2>1 DEF LockInv
  <2>5. Joined => count_' = 0 /\ mtx' = None
    BY <1>1, <2>1 DEF JoinedInv
  <2> QED BY <1>1, <1>2, <1>3, <1>4, <2>1, <2>3, <2>4, <2>5, WrapperMoves
<1>7. CASE WrapperEnd(w, c)
  <2>1. /\ stage[c] = "end" /\ stage' = [stage EXCEPT ![c] = "over"]
        /\ pc' = [pc EXCEPT ![c] = pc[c]]
        /\ UNCHANGED <<mtx, wake, wait_queue_, pc>> /\ ~dangling'
    BY <1>3, <1>7 DEF WrapperEnd, GotoStage, wgVars
  <2>2. Owing' = Owing /\ stage'[Parent] = stage[Parent]
        /\ \A d \in kids \ {c} : stage'[d] = stage[d]
    BY <1>1, <1>2, <1>3, <2>1, ParentAssumption DEF Owing, JoinTypeOK, Children
  <2>3. CountInv' /\ ResultInv' /\ LockInv'
    BY <1>1, <2>1, <2>2 DEF CountInv, ResultInv, LockInv
  <2>4. Joined => count_' = 0 /\ mtx' = None
    BY <1>1, <2>1 DEF JoinedInv
  <2> QED BY <1>1, <1>2, <1>3, <1>4, <2>1, <2>3, <2>4, WrapperMoves
<1> QED BY <1>5, <1>6, <1>7

(* A drained handle is when_all's, and it goes to the wrapper's worker. *)
LEMMA WrapperWakes ==
  ASSUME JoinInv, NEW w \in Workers, NEW c \in Children, WrapperReschedule(w, c)
  PROVE  JoinInv'
<1> USE ParentAssumption DEF JoinInv
<1>1. /\ running[w] = c /\ pc[c] = "waking" /\ wake[c] # <<>>
      /\ pc' = [pc EXCEPT ![Head(wake[c])] = "resumed"]
      /\ wake' = [wake EXCEPT ![c] = Tail(@)]
      /\ queue' = [queue EXCEPT ![w] = @ \o <<Head(wake[c])>>]
      /\ UNCHANGED <<count_, wait_queue_, mtx, running, kids, stateVars, stage, thrown, away>>
      /\ ~dangling'
  BY DEF WrapperReschedule, Reschedule, Push, childVars
<1>2. c \in Coros /\ stage[Parent] \notin {"start", "wait"}
  BY <1>1, NotQuiet DEF Children
<1>3. Head(wake[c]) = Parent /\ Tail(wake[c]) \in Seq({Parent})
  <2> DEFINE S == {Parent}
  <2>1. wake[c] \in Seq(S) /\ wake[c] # <<>>
    BY <1>1, <1>2 DEF JoinTypeOK
  <2> HIDE DEF S
  <2>2. Head(wake[c]) \in S /\ Tail(wake[c]) \in Seq(S)
    BY <2>1, PopLemma
  <2> QED BY <2>2 DEF S
<1>4. /\ wake' \in [Coros -> Seq({Parent})]
      /\ \A d \in Coros : wake'[d] # <<>> => wake[d] # <<>>
      /\ pc' = [pc EXCEPT ![Parent] = "resumed"]
      /\ stage' = [stage EXCEPT ![Parent] = stage[Parent]]
  BY <1>1, <1>2, <1>3 DEF JoinTypeOK
<1>5. queue' \in [Workers -> Seq(Active)]
  <2>1. <<Parent>> \in Seq(Active) /\ queue \in [Workers -> Seq(Active)]
    BY DEF Active, JoinTypeOK
  <2>2. queue[w] \o <<Parent>> \in Seq(Active)
    BY <2>1
  <2> QED BY <1>1, <1>3, <2>1, <2>2
<1>6. count_ = 0 /\ mtx = None
  BY <1>1, <1>2 DEF LockInv
<1>7. /\ stage[Parent] \in {"join", "returned", "threw"}
      /\ wait_queue_' \in Seq({Parent}) /\ away' \subseteq kids
      /\ running' \in [Workers -> Active \cup {None}]
  BY <1>1, <1>2 DEF JoinTypeOK
<1> QED BY <1>1, <1>2, <1>4, <1>5, <1>6, <1>7, ParentMoves

(* Every step keeps the parts. *)
LEMMA JoinStep ==
  ASSUME JoinInv, [Next]_vars
  PROVE  JoinInv'
<1>1. CASE UNCHANGED vars
  <2>1. UNCHANGED <<wgVars, kids, stateVars, stage, thrown, dangling, queue, running, away>>
    BY <1>1 DEF vars, runtimeVars, childVars
  <2>2. QuietInv'
    BY <2>1 DEF JoinInv, QuietInv, Home, Alone, wgVars
  <2> QED BY <2>1, <2>2, WorkersOnly DEF JoinInv, JoinTypeOK
<1>2. ASSUME NEW w \in Workers, ChildWakes(w) \/ Step(w)
      PROVE  JoinInv'
  <2>1. ASSUME NEW c \in Children, ChildStep(w, c) PROVE JoinInv'
    BY <2>1, ChildAway, ChildEnds DEF ChildStep
  <2>2. ASSUME NEW c \in Children,
               \/ WrapperDone(w, c) \/ WrapperDrain(w, c) \/ WrapperReschedule(w, c)
               \/ WrapperDoneReturn(w, c) \/ WrapperEnd(w, c)
        PROVE  JoinInv'
    BY <2>2, WrapperDoneInv, WrapperLeaves, WrapperWakes
  <2> QED BY <1>2, <2>1, <2>2, PickInv, StartInv, ParentWaits, FinishInv, ChildAway
            DEF Step
<1> QED BY <1>1, <1>2 DEF Next, Wakes

(* The shared state of when_all is not used after its end, in the vector   *)
(* form too, where only when_all's own frame keeps it: the done() that     *)
(* takes the count to zero still holds mtx, and when_all, which suspended  *)
(* before any wrapper could run, is resumed by that done() alone.          *)
THEOREM WhenAllStateOutlivesUses == Spec => []StateOutlivesUses
<1>1. JoinInv => StateOutlivesUses
  BY DEF JoinInv, StateOutlivesUses
<1> QED BY <1>1, JoinInit, JoinStep, PTL DEF Spec

(* when_all comes back only after every child has ended, with all results  *)
(* or with the exception of the first child that threw, for any number of  *)
(* children and workers and any suspensions of the children.               *)
THEOREM WhenAllJoinFaithful == Spec => []JoinFaithful
<1>1. JoinInv => JoinFaithful
  <2> SUFFICES ASSUME JoinInv PROVE JoinFaithful
    OBVIOUS
  <2>1. stage[Parent] # "undefined"
    BY DEF JoinInv, JoinTypeOK
  <2>2. ASSUME stage[Parent] \in {"returned", "threw"}
        PROVE  /\ \A c \in kids : stage[c] \in {"end", "over"}
               /\ stage[Parent] = "threw" <=> thrown # <<>>
               /\ thrown # <<>> => exception = Head(thrown)
    <3>1. count_ = 0 /\ stage[Parent] # "start" /\ IsFiniteSet(Owing)
      BY <2>2, FS_Subset DEF JoinInv, JoinedInv, Joined, JoinTypeOK, Owing
    <3>2. Owing = {}
      BY <3>1, FS_EmptySet DEF JoinInv, CountInv
    <3>3. \A c \in kids : stage[c] \in {"end", "over"}
      BY <3>2 DEF Owing, JoinInv, JoinTypeOK
    <3> QED BY <2>2, <3>3 DEF JoinInv, ResultInv
  <2> QED BY <2>1, <2>2 DEF JoinFaithful
<1> QED BY <1>1, JoinInit, JoinStep, PTL DEF Spec
=============================================================================
