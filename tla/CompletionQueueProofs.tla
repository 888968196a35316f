------------------------ MODULE CompletionQueueProofs ------------------------
(***************************************************************************)
(* The safety properties of CompletionQueue, for any number of workers and *)
(* of completions.                                                         *)
(***************************************************************************)
EXTENDS CompletionQueue, QueueLemmas

\* Every variable keeps its type: in particular the counter of the eventfd and
\* pending_notify_ stay natural numbers (complete_connection, DrainCompletions).
THEOREM TypeCorrect == Spec => []TypeOK
<1>1. Init => TypeOK
  BY EmptySeq DEF Init, TypeOK, WorkerStates, LoopStates
<1>2. TypeOK /\ [Next]_vars => TypeOK'
  <2> SUFFICES ASSUME TypeOK, [Next]_vars
               PROVE  TypeOK'
    OBVIOUS
  <2> USE DEF TypeOK, WorkerStates, LoopStates
  <2>1. ASSUME NEW w \in Workers, NEW item \in Items, Push(w, item)
        PROVE  TypeOK'
    BY <2>1 DEF Push
  <2>2. ASSUME NEW w \in Workers, Count(w)
        PROVE  TypeOK'
    BY <2>2 DEF Count
  <2>3. ASSUME NEW w \in Workers, WriteEvent(w)
        PROVE  TypeOK'
    BY <2>3 DEF WriteEvent
  <2>4. CASE ReadEvent
    BY <2>4 DEF ReadEvent
  <2>5. CASE ResetCounter
    BY <2>5 DEF ResetCounter
  <2>6. CASE SwapBatch
    BY <2>6 DEF SwapBatch
  <2>7. CASE Handle
    <3>1. Head(batch) \in Items /\ Tail(batch) \in Seq(Items)
      BY <2>7, HeadTailProperties DEF Handle
    <3>2. QED
      BY <2>7, <3>1 DEF Handle
  <2>8. CASE Return
    BY <2>8 DEF Return
  <2>9. CASE UNCHANGED vars
    BY <2>9 DEF vars
  <2>10. QED
    BY <2>1, <2>2, <2>3, <2>4, <2>5, <2>6, <2>7, <2>8, <2>9
       DEF Next, Complete, Drain, Quiet
<1>3. QED
  BY <1>1, <1>2, PTL DEF Spec

\* A raised counter is backed by a wakeup on its way, and a completion in the
\* vector by a counter raised or about to be: neither alone rules out a lost
\* wakeup, and each is preserved by every step of the two functions.
WakeupInv == CounterIsBacked /\ CompletionIsCounted

LEMMA WakeupInductive == Spec => []WakeupInv
<1> USE DEF WakeupInv, CounterIsBacked, CompletionIsCounted
<1>1. Init => WakeupInv
  BY DEF Init
<1>2. TypeOK /\ WakeupInv /\ [Next]_vars => WakeupInv'
  <2> SUFFICES ASSUME TypeOK, WakeupInv, [Next]_vars
               PROVE  WakeupInv'
    OBVIOUS
  <2> USE DEF TypeOK, WorkerStates, LoopStates
  <2>1. ASSUME NEW w \in Workers, NEW item \in Items, Push(w, item)
        PROVE  WakeupInv'
    <3>1. worker'[w] = "pushed"
      BY <2>1 DEF Push
    <3>2. \A v \in Workers : worker[v] = "writing" => worker'[v] = "writing"
      BY <2>1 DEF Push
    <3>3. QED
      BY <2>1, <3>1, <3>2 DEF Push
  <2>2. ASSUME NEW w \in Workers, Count(w)
        PROVE  WakeupInv'
    <3>1. pending_notify' > 0
      BY <2>2 DEF Count
    <3>2. CASE pending_notify = 0
      <4>1. worker'[w] = "writing"
        BY <2>2, <3>2 DEF Count
      <4>2. QED
        BY <3>1, <4>1
    <3>3. CASE pending_notify # 0
      <4>1. \A v \in Workers : worker[v] = "writing" => worker'[v] = "writing"
        BY <2>2 DEF Count
      <4>2. QED
        BY <2>2, <3>1, <3>3, <4>1 DEF Count
    <3>4. QED
      BY <3>2, <3>3
  <2>3. ASSUME NEW w \in Workers, WriteEvent(w)
        PROVE  WakeupInv'
    <3>1. eventfd' > 0
      BY <2>3 DEF WriteEvent
    <3>2. \A v \in Workers : worker[v] = "pushed" => worker'[v] = "pushed"
      BY <2>3 DEF WriteEvent
    <3>3. QED
      BY <2>3, <3>1, <3>2 DEF WriteEvent
  <2>4. CASE ReadEvent
    BY <2>4 DEF ReadEvent
  <2>5. CASE ResetCounter
    BY <2>5 DEF ResetCounter
  <2>6. CASE SwapBatch
    BY <2>6 DEF SwapBatch
  <2>7. CASE Handle
    BY <2>7 DEF Handle
  <2>8. CASE Return
    BY <2>8 DEF Return
  <2>9. CASE UNCHANGED vars
    BY <2>9 DEF vars
  <2>10. QED
    BY <2>1, <2>2, <2>3, <2>4, <2>5, <2>6, <2>7, <2>8, <2>9
       DEF Next, Complete, Drain, Quiet
<1>3. QED
  BY <1>1, <1>2, TypeCorrect, PTL DEF Spec

\* No lost wakeup: the loop is never asleep in epoll_wait with a completion in
\* the vector and the eventfd silent, unless a worker is about to write to it.
THEOREM WakeupNotLost == Spec => []NoLostWakeup
<1>1. TypeOK /\ WakeupInv => NoLostWakeup
  BY DEF TypeOK, WakeupInv, CounterIsBacked, CompletionIsCounted, NoLostWakeup
<1>2. QED
  BY <1>1, TypeCorrect, WakeupInductive, PTL

\* The loop's local vector is empty whenever the loop takes the next one.
BatchInv == loop # "handling" => batch = <<>>

DeliveryInv == BatchInv /\ DeliveredOnceInOrder

LEMMA DeliveryInductive == Spec => []DeliveryInv
<1> DEFINE Inv == DeliveryInv
<1> USE DEF DeliveryInv, BatchInv, DeliveredOnceInOrder
<1>1. Init => Inv
  <2>1. <<>> \o <<>> \o <<>> = <<>>
    BY EmptySeq, ConcatEmptySeq
  <2>2. QED
    BY <2>1 DEF Init
<1>2. TypeOK /\ Inv /\ [Next]_vars => Inv'
  <2> SUFFICES ASSUME TypeOK, Inv, [Next]_vars
               PROVE  Inv'
    OBVIOUS
  <2> USE DEF TypeOK, LoopStates
  <2>0. handled \o batch \in Seq(Items)
    BY ConcatProperties
  <2>1. ASSUME NEW w \in Workers, NEW item \in Items, Push(w, item)
        PROVE  Inv'
    <3>1. (handled \o batch) \o Append(completed, item)
             = Append((handled \o batch) \o completed, item)
      BY <2>0, AppendRight
    <3>2. QED
      BY <2>1, <3>1 DEF Push
  <2>2. ASSUME NEW w \in Workers, Count(w)
        PROVE  Inv'
    BY <2>2 DEF Count
  <2>3. ASSUME NEW w \in Workers, WriteEvent(w)
        PROVE  Inv'
    BY <2>3 DEF WriteEvent
  <2>4. CASE ReadEvent
    BY <2>4 DEF ReadEvent
  <2>5. CASE ResetCounter
    BY <2>5 DEF ResetCounter
  <2>6. CASE SwapBatch
    <3>1. batch = <<>>
      BY <2>6 DEF SwapBatch
    <3>2. /\ handled \o <<>> = handled
          /\ (handled \o completed) \o <<>> = handled \o completed
      BY ConcatEmptySeq, ConcatProperties
    <3>3. QED
      BY <2>6, <3>1, <3>2 DEF SwapBatch
  <2>7. CASE Handle
    <3>1. Append(handled, Head(batch)) \o Tail(batch) = handled \o batch
      BY <2>7, MoveHead DEF Handle
    <3>2. QED
      BY <2>7, <3>1 DEF Handle
  <2>8. CASE Return
    BY <2>8 DEF Return
  <2>9. CASE UNCHANGED vars
    BY <2>9 DEF vars
  <2>10. QED
    BY <2>1, <2>2, <2>3, <2>4, <2>5, <2>6, <2>7, <2>8, <2>9
       DEF Next, Complete, Drain, Quiet
<1>3. QED
  BY <1>1, <1>2, TypeCorrect, PTL DEF Spec

\* Each completion reaches the loop exactly once, in the order of the pushes,
\* so each connection is re-armed or closed once per served request.
THEOREM DeliveredOnce == Spec => []DeliveredOnceInOrder
BY DeliveryInductive, PTL DEF DeliveryInv

-----------------------------------------------------------------------------
(* The refinement *)

\* Pushing is posting, swapping a vector that is not empty is taking, handling
\* is handling; counter, eventfd and a swap of an empty vector do not show.
LEMMA StepRefines ==
  ASSUME BatchInv, [Next]_vars
  PROVE  [Channel!Next]_(Channel!vars)
<1> USE DEF Channel!vars
<1>1. ASSUME NEW w \in Workers, NEW item \in Items, Push(w, item)
      PROVE  Channel!Post(item)
  BY <1>1 DEF Push, Channel!Post, Members, Channel!Members
<1>2. ASSUME NEW w \in Workers, Complete(w)
      PROVE  UNCHANGED Channel!vars
  BY <1>2 DEF Complete, Count, WriteEvent
<1>3. CASE ReadEvent \/ ResetCounter \/ Return
  BY <1>3 DEF ReadEvent, ResetCounter, Return
<1>4. CASE SwapBatch
  <2>1. batch = <<>>
    BY <1>4 DEF SwapBatch, BatchInv
  <2>2. CASE completed = <<>>
    BY <1>4, <2>1, <2>2 DEF SwapBatch
  <2>3. CASE completed # <<>>
    BY <1>4, <2>1, <2>3 DEF SwapBatch, Channel!Take, Channel!Next
  <2> QED
    BY <2>2, <2>3
<1>5. CASE Handle
  BY <1>5 DEF Handle, Channel!Handle, Channel!Next
<1>6. CASE Quiet \/ UNCHANGED vars
  BY <1>6 DEF Quiet, vars
<1> QED
  BY <1>1, <1>2, <1>3, <1>4, <1>5, <1>6 DEF Next, Drain, Channel!Next

\* RequestIO may take the vector, its counter and its eventfd for one sequence
\* that wakes the loop: every step of complete_connection and DrainCompletions
\* is a step of that channel or does not show in it.
THEOREM QueueIsChannel == Spec => Channel!Init /\ [][Channel!Next]_(Channel!vars)
<1>1. Init => Channel!Init
  BY DEF Init, Channel!Init
<1> QED
  BY <1>1, StepRefines, DeliveryInductive, PTL DEF Spec, DeliveryInv
=============================================================================
