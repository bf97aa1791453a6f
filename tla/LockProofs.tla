----------------------------- MODULE LockProofs -----------------------------
(***************************************************************************)
(* Proofs about the components whose threads meet at one lock or at a few  *)
(* atomic locations.                                                       *)
(*                                                                         *)
(* ProducerConsumerQueue, for any objects and any set of consumers: no     *)
(* notification is lost, Cancel releases everybody, WaitAndPop comes back  *)
(* empty-handed only after Cancel, and the queue implements a cancellable  *)
(* FIFO queue.                                                             *)
(*                                                                         *)
(* LockedQueue, for any threads, items and checkers: it implements a FIFO  *)
(* queue, and what peek returned a reference to stays.                     *)
(*                                                                         *)
(* SpinLock, for any set of threads and any number of increments: mutual   *)
(* exclusion, freedom from data races and the refinement of an atomic      *)
(* counter.                                                                *)
(*                                                                         *)
(* MemoryOrders: the orders of acquire_release.cc and seq_cst.cc suffice.  *)
(***************************************************************************)
EXTENDS MCAtomics, MCQueues, TLAPS
-----------------------------------------------------------------------------
(* The queue with a condition variable *)

\* A set that has an element for each of n objects has one for fewer; so has a larger set.
LEMMA StillEnough ==
    ASSUME NEW n \in Nat, NEW k \in 0 .. n, NEW S, NEW T, S \subseteq T,
           ExistsInjection(1 .. n, S)
    PROVE  ExistsInjection(1 .. k, T)
  <1>1. PICK f \in [1 .. n -> S] : IsInjective(f)
    BY Zenon DEF ExistsInjection, Injection
  <1>2. [i \in 1 .. k |-> f[i]] \in Injection(1 .. k, T)
    BY <1>1 DEF Injection, IsInjective
  <1> QED
    BY <1>2, Zenon DEF ExistsInjection

\* One more object and one more element.
LEMMA OneMore ==
    ASSUME NEW n \in Nat, NEW S, NEW e, e \notin S, ExistsInjection(1 .. n, S)
    PROVE  ExistsInjection(1 .. n + 1, S \union {e})
  <1>1. PICK f \in [1 .. n -> S] : IsInjective(f)
    BY Zenon DEF ExistsInjection, Injection
  <1>2. [i \in 1 .. n + 1 |-> IF i = n + 1 THEN e ELSE f[i]] \in Injection(1 .. n + 1, S \union {e})
    BY <1>1 DEF Injection, IsInjective
  <1> QED
    BY <1>2, Zenon DEF ExistsInjection

\* One object less and one element less, whichever it is.
LEMMA OneLess ==
    ASSUME NEW n \in Nat, n > 0, NEW S, NEW e, ExistsInjection(1 .. n, S)
    PROVE  ExistsInjection(1 .. n - 1, S \ {e})
  <1>1. PICK f \in [1 .. n -> S] : IsInjective(f)
    BY Zenon DEF ExistsInjection, Injection
  <1>2. [i \in 1 .. n - 1 |-> IF f[i] = e THEN f[n] ELSE f[i]] \in Injection(1 .. n - 1, S \ {e})
    BY <1>1 DEF Injection, IsInjective
  <1> QED
    BY <1>2, Zenon DEF ExistsInjection
\* The constructed queue satisfies the invariant.
LEMMA InitInv == Init => Inv
  <1> SUFFICES ASSUME Init PROVE Inv
    BY Zenon
  <1>1. Waiting = {}
    BY Zenon DEF Init, Waiting
  <1>2. _shutdown \in BOOLEAN
    BY Zenon DEF Init
  <1>3. _queue \in Seq(Items)
    BY DEF Init
  <1>4. pc \in [Consumers -> {"idle", "wait", "woken"}] /\ out \in Items \union {None}
    BY Zenon DEF Init
  <1> QED
    BY <1>1, <1>2, <1>3, <1>4, Zenon DEF Inv, TypeOK, NoLostWakeup, CancelReleases

\* Push: one more object, and one more consumer on its way if any is asleep.
LEMMA PushInv == ASSUME Inv, NEW v \in Items, Push(v) PROVE Inv'
  <1> USE DEF Inv
  <1>1. PICK S \in NotifyOne : pc' = [c \in Consumers |-> IF c \in S THEN "woken" ELSE pc[c]]
    BY Zenon DEF Push, Wake
  <1>2. /\ _queue \in Seq(Items) /\ _queue' = Append(_queue, v)
        /\ _shutdown' = _shutdown /\ out' = out
        /\ pc \in [Consumers -> {"idle", "wait", "woken"}]
    BY Zenon DEF Push, TypeOK
  <1>3. TypeOK'
    BY <1>1, <1>2 DEF TypeOK
  <1>4. CASE Waiting = {}
    <2>1. S = {}
      BY <1>1, <1>4, Zenon DEF NotifyOne
    <2>2. Waiting' = {}
      BY <1>1, <1>2, <1>4, <2>1, Zenon DEF Waiting
    <2> QED
      BY <1>3, <2>2, Zenon DEF NoLostWakeup, CancelReleases
  <1>5. CASE Waiting # {}
    <2>1. PICK c \in Waiting : S = {c}
      BY <1>1, <1>5, Zenon DEF NotifyOne
    <2>2. c \in Consumers /\ c \notin Woken
      BY Zenon DEF Waiting, Woken
    <2>3. Woken' = Woken \union {c}
      BY <1>1, <1>2, <2>1, <2>2, Zenon DEF Woken
    <2>4. Len(_queue') = Len(_queue) + 1 /\ Len(_queue) \in Nat
      BY <1>2
    <2>5. ExistsInjection(1 .. Len(_queue'), Woken')
      BY <1>5, <2>2, <2>3, <2>4, OneMore, Zenon DEF NoLostWakeup
    <2>6. ~ _shutdown
      BY <1>5, Zenon DEF CancelReleases
    <2> QED
      BY <1>2, <1>3, <2>5, <2>6, Zenon DEF NoLostWakeup, CancelReleases
  <1> QED
    BY <1>4, <1>5, Zenon

\* Pop takes an object and moves no consumer.
LEMMA PopInv == ASSUME Inv, Pop PROVE Inv'
  <1> USE DEF Inv
  <1>1. /\ _queue # <<>> /\ _queue \in Seq(Items) /\ _queue' = Tail(_queue)
        /\ out' = Head(_queue) /\ UNCHANGED <<_shutdown, pc>>
    BY Zenon DEF Pop, TakeFront, NothingToPop, TypeOK
  <1>2. /\ _queue' \in Seq(Items) /\ out' \in Items
        /\ Len(_queue) \in Nat /\ Len(_queue') \in 0 .. Len(_queue)
    BY <1>1
  <1>3. Waiting' = Waiting /\ Woken' = Woken
    BY <1>1, Zenon DEF Waiting, Woken
  <1>4. Waiting # {} => ExistsInjection(1 .. Len(_queue'), Woken')
    BY <1>2, <1>3, StillEnough, Zenon DEF NoLostWakeup
  <1> QED
    BY <1>1, <1>2, <1>3, <1>4, Zenon DEF TypeOK, NoLostWakeup, CancelReleases

\* A wait that ends by itself puts one more consumer on its way.
LEMMA SpuriousWakeupInv == ASSUME Inv, NEW c \in Consumers, SpuriousWakeup(c) PROVE Inv'
  <1> USE DEF Inv
  <1>1. /\ pc[c] = "wait" /\ pc' = [pc EXCEPT ![c] = "woken"]
        /\ UNCHANGED <<_queue, _shutdown, out>>
        /\ pc \in [Consumers -> {"idle", "wait", "woken"}]
    BY Zenon DEF SpuriousWakeup, TypeOK
  <1>2. Waiting # {} /\ Woken \subseteq Woken'
    BY <1>1, Zenon DEF Waiting, Woken
  <1>3. Len(_queue) \in Nat /\ Len(_queue') \in 0 .. Len(_queue)
    BY <1>1 DEF TypeOK
  <1>4. ExistsInjection(1 .. Len(_queue'), Woken')
    BY <1>2, <1>3, StillEnough, Zenon DEF NoLostWakeup
  <1>5. ~ _shutdown'
    BY <1>1, <1>2, Zenon DEF CancelReleases
  <1>6. TypeOK'
    BY <1>1, Zenon DEF TypeOK
  <1> QED
    BY <1>4, <1>5, <1>6, Zenon DEF NoLostWakeup, CancelReleases

\* A consumer goes to sleep only when there is no object and no Cancel.
LEMMA WaitAndPopWaitsInv == ASSUME Inv, NEW c \in Consumers, WaitAndPopWaits(c) PROVE Inv'
  <1> USE DEF Inv
  <1>1. /\ _queue = <<>> /\ ~ _shutdown /\ pc' = [pc EXCEPT ![c] = "wait"]
        /\ UNCHANGED <<_queue, _shutdown, out>>
    BY Zenon DEF WaitAndPopWaits, MustWait
  <1>2. TypeOK'
    BY <1>1, Zenon DEF TypeOK
  <1>3. [i \in 1 .. Len(_queue') |-> c] \in Injection(1 .. Len(_queue'), Woken')
    BY <1>1 DEF Injection, IsInjective
  <1>4. ExistsInjection(1 .. Len(_queue'), Woken')
    BY <1>3, Zenon DEF ExistsInjection
  <1> QED
    BY <1>1, <1>2, <1>4, Zenon DEF NoLostWakeup, CancelReleases

\* A consumer leaves WaitAndPop, with the queue cancelled.
LEMMA WaitAndPopReturnsInv == ASSUME Inv, NEW c \in Consumers, WaitAndPopReturns(c) PROVE Inv'
  <1> USE DEF Inv
  <1>1. /\ _shutdown /\ pc' = [pc EXCEPT ![c] = "idle"]
        /\ UNCHANGED <<_queue, _shutdown, out>>
        /\ pc \in [Consumers -> {"idle", "wait", "woken"}]
    BY Zenon DEF WaitAndPopReturns, MustWait, NothingToPop, TypeOK
  <1>2. TypeOK'
    BY <1>1, Zenon DEF TypeOK
  <1>3. Waiting' = {}
    BY <1>1, Zenon DEF CancelReleases, Waiting
  <1> QED
    BY <1>2, <1>3, Zenon DEF NoLostWakeup, CancelReleases

\* A consumer takes an object: one object and at most one woken consumer less.
LEMMA WaitAndPopTakesInv == ASSUME Inv, NEW c \in Consumers, WaitAndPopTakes(c) PROVE Inv'
  <1> USE DEF Inv
  <1>1. /\ _queue # <<>> /\ _queue \in Seq(Items) /\ _queue' = Tail(_queue)
        /\ out' = Head(_queue) /\ _shutdown' = _shutdown /\ ~ _shutdown
        /\ pc' = [pc EXCEPT ![c] = "idle"] /\ pc[c] # "wait"
        /\ pc \in [Consumers -> {"idle", "wait", "woken"}]
    BY Zenon DEF WaitAndPopTakes, Running, TakeFront, NothingToPop, TypeOK
  <1>2. /\ _queue' \in Seq(Items) /\ out' \in Items
        /\ Len(_queue) \in Nat /\ Len(_queue) > 0 /\ Len(_queue') = Len(_queue) - 1
    BY <1>1
  <1>3. TypeOK'
    BY <1>1, <1>2, Zenon DEF TypeOK
  <1>4. Waiting' = Waiting /\ Woken' = Woken \ {c}
    BY <1>1, Zenon DEF Waiting, Woken
  <1>5. Waiting # {} => ExistsInjection(1 .. Len(_queue'), Woken')
    BY <1>2, <1>4, OneLess, Zenon DEF NoLostWakeup
  <1> QED
    BY <1>1, <1>3, <1>4, <1>5, Zenon DEF NoLostWakeup, CancelReleases

\* Cancel wakes everybody.
LEMMA CancelInv == ASSUME Inv, Cancel PROVE Inv'
  <1> USE DEF Inv
  <1>1. /\ _queue' = <<>> /\ _shutdown' = TRUE /\ out' = out
        /\ pc' = [c \in Consumers |-> IF c \in Waiting THEN "woken" ELSE pc[c]]
        /\ pc \in [Consumers -> {"idle", "wait", "woken"}]
    BY Zenon DEF Cancel, Wake, CancelNotifies, NotifyAll, Emptied, TypeOK
  <1>2. TypeOK'
    BY <1>1 DEF TypeOK
  <1>3. Waiting' = {}
    BY <1>1, Zenon DEF Waiting
  <1> QED
    BY <1>2, <1>3, Zenon DEF NoLostWakeup, CancelReleases

\* Every step of Push, Pop, WaitAndPop and Cancel keeps the invariant.
LEMMA NextInv == Inv /\ [Next]_vars => Inv'
  <1> SUFFICES ASSUME Inv, [Next]_vars PROVE Inv'
    BY Zenon
  <1>1. CASE \E v \in Items : Push(v)
    BY <1>1, PushInv, Zenon
  <1>2. CASE Pop
    BY <1>2, PopInv, Zenon
  <1>3. ASSUME NEW c \in Consumers, WaitAndPop(c) \/ SpuriousWakeup(c) PROVE Inv'
    BY <1>3, WaitAndPopWaitsInv, WaitAndPopReturnsInv, WaitAndPopTakesInv, SpuriousWakeupInv, Zenon
       DEF WaitAndPop
  <1>4. CASE Cancel
    BY <1>4, CancelInv, Zenon
  <1>5. CASE UNCHANGED vars
    BY <1>5, Zenon DEF vars, Inv, TypeOK, NoLostWakeup, CancelReleases, Waiting, Woken
  <1> QED
    BY <1>1, <1>2, <1>3, <1>4, <1>5, Zenon DEF Next

\* The inductive invariant holds in every reachable state of the queue.
THEOREM PCQueueInvThm == Spec => []Inv
  <1> QED
    BY InitInv, NextInv, PTL DEF Spec

\* Every variable keeps its type; Pop and WaitAndPop never read an empty queue.
THEOREM TypeCorrect == Spec => []TypeOK
  <1>1. Inv => TypeOK
    BY Zenon DEF Inv
  <1> QED
    BY PCQueueInvThm, <1>1, PTL

\* While a consumer sleeps in WaitAndPop, every object in the queue has a consumer of its
\* own on the way to it.
THEOREM NoLostWakeupThm == Spec => []NoLostWakeup
  <1>1. Inv => NoLostWakeup
    BY Zenon DEF Inv
  <1> QED
    BY PCQueueInvThm, <1>1, PTL

\* Nobody sleeps in WaitAndPop once Cancel has run.
THEOREM CancelReleasesThm == Spec => []CancelReleases
  <1>1. Inv => CancelReleases
    BY Zenon DEF Inv
  <1> QED
    BY PCQueueInvThm, <1>1, PTL

\* WaitAndPop returns without an object only when Cancel has run, and from then on
\* neither it nor Pop hands anything out.
THEOREM CancelHonouredThm == Spec => CancelHonoured
  <1>1. ASSUME Inv, NEW c \in Consumers, WaitAndPopReturns(c)
        PROVE  _shutdown
    BY <1>1, Zenon DEF WaitAndPopReturns, MustWait, NothingToPop, Inv, TypeOK
  <1>2. ASSUME [Next]_vars, _shutdown
        PROVE  UNCHANGED out
    BY <1>2, Zenon DEF Next, Push, Pop, WaitAndPop, WaitAndPopWaits, WaitAndPopReturns,
                WaitAndPopTakes, NothingToPop, SpuriousWakeup, Cancel, vars
  <1>3. Inv /\ [Next]_vars => [HonoursCancel]_vars
    BY <1>1, <1>2, Zenon DEF HonoursCancel
  <1> QED
    BY <1>3, PCQueueInvThm, PTL DEF Spec, CancelHonoured

\* Push, Pop, WaitAndPop and Cancel implement a FIFO queue that can be cancelled.
THEOREM ImplementsFifo == Spec => RefinesFifo
  <1>1. Init => Fifo!FifoInit
    BY Zenon DEF Init, Fifo!FifoInit
  <1>2. Inv /\ [Next]_vars => [Fifo!FifoNext \/ Fifo!Drop]_(Fifo!fifoVars)
    <2> SUFFICES ASSUME Inv, [Next]_vars
                 PROVE  [Fifo!FifoNext \/ Fifo!Drop]_(Fifo!fifoVars)
      BY Zenon
    <2>1. ASSUME NEW v \in Items, Push(v) PROVE Fifo!FifoNext
      BY <2>1, Zenon DEF Push, Fifo!FifoNext, Fifo!Put
    <2>2. ASSUME Pop PROVE Fifo!FifoNext
      BY <2>2, Zenon DEF Pop, NothingToPop, TakeFront, Fifo!FifoNext, Fifo!Get
    <2>3. ASSUME NEW c \in Consumers, WaitAndPopTakes(c) PROVE Fifo!FifoNext
      BY <2>3, Zenon DEF WaitAndPopTakes, NothingToPop, TakeFront, Fifo!FifoNext, Fifo!Get
    <2>4. ASSUME Cancel PROVE Fifo!Drop
      BY <2>4, Zenon DEF Cancel, Emptied, Fifo!Drop
    <2>5. ASSUME NEW c \in Consumers,
                 WaitAndPopWaits(c) \/ WaitAndPopReturns(c) \/ SpuriousWakeup(c)
          PROVE  UNCHANGED Fifo!fifoVars
      BY <2>5, Zenon DEF WaitAndPopWaits, WaitAndPopReturns, SpuriousWakeup, Fifo!fifoVars
    <2>6. CASE UNCHANGED vars
      BY <2>6, Zenon DEF vars, Fifo!fifoVars
    <2> QED
      BY <2>1, <2>2, <2>3, <2>4, <2>5, <2>6, Zenon DEF Next, WaitAndPop
  <1> QED
    BY <1>1, <1>2, PCQueueInvThm, PTL DEF Spec, RefinesFifo, Fifo!CancellableSpec

-----------------------------------------------------------------------------
(* The queue with peek and batches *)

\* LockedQueue.h: only the batcher has a batch and only the peeker a reference.
ItemsInv ==
    /\ Locked!TypeOK /\ Locked!ReferenceLives
    /\ consumer # "batcher" => hand = <<>>
    /\ consumer # "peeker" => ref = None

\* How the batch and the queue make up one sequence.
LEMMA Batch ==
    ASSUME NEW h \in Seq(WorkItems), NEW s \in Seq(WorkItems)
    PROVE  /\ <<>> \o s = s /\ h \o s \in Seq(WorkItems)
           /\ \A v \in WorkItems : h \o Append(s, v) = Append(h \o s, v)
           /\ s # <<>> => Append(h, Head(s)) \o Tail(s) = h \o s
           /\ h # <<>> => /\ h \o s # <<>> /\ Head(h \o s) = Head(h)
                          /\ Tail(h \o s) = Tail(h) \o s
<1>1. <<>> \o s = s /\ h \o s \in Seq(WorkItems)
  OBVIOUS
<1>2. \A v \in WorkItems : h \o Append(s, v) = Append(h \o s, v)
  OBVIOUS
<1>3. ASSUME s # <<>> PROVE Append(h, Head(s)) \o Tail(s) = h \o s
  BY <1>3, SMT, Z3
<1>4. ASSUME h # <<>>
      PROVE  /\ h \o s # <<>> /\ Head(h \o s) = Head(h)
             /\ Tail(h \o s) = Tail(h) \o s
  BY <1>4
<1>5. QED
  BY <1>1, <1>2, <1>3, <1>4, Zenon

\* Every step of the LockedQueue keeps the invariant and puts at the back, takes from the
\* front or leaves the items as they are.
ItemsStep == ItemsInv' /\ [Locked!Fifo!FifoNext]_(Locked!Fifo!fifoVars)

\* add puts at the back; what is at the front stays there.
LEMMA AddStep ==
    ASSUME ItemsInv, NEW a \in Adders, Locked!add(a)
    PROVE  ItemsStep
<1> DEFINE v == Head(left[a])
<1>1. /\ items \in Seq(WorkItems) /\ hand \in Seq(WorkItems)
      /\ left \in [Adders -> Seq(WorkItems)] /\ left[a] \in Seq(WorkItems) /\ left[a] # <<>>
  BY Zenon DEF ItemsInv, Locked!TypeOK, Locked!add
<1>2. /\ items' = Append(items, v) /\ left' = [left EXCEPT ![a] = Tail(left[a])]
      /\ UNCHANGED <<consumer, looping, _lock, _canceled, ref, hand, working, done>>
  BY Zenon DEF Locked!add, Locked!AddAtBack
<1>3. v \in WorkItems /\ Tail(left[a]) \in Seq(WorkItems)
  BY <1>1
<1> HIDE DEF v
<1>4. /\ items' \in Seq(WorkItems)
      /\ items # <<>> => items' # <<>> /\ Head(items') = Head(items)
  <2>1. items' \in Seq(WorkItems) /\ items' # <<>> /\ (items # <<>> => items'[1] = items[1])
    BY <1>1, <1>2, <1>3
  <2>2. QED
    BY <1>1, <2>1
<1>5. left' \in [Adders -> Seq(WorkItems)]
  BY <1>1, <1>2, <1>3, Zenon
<1>6. hand' \o items' = Append(hand \o items, v)
  BY <1>1, <1>2, <1>3, Batch
<1>7. ItemsInv'
  BY <1>1, <1>2, <1>4, <1>5, Zenon DEF ItemsInv, Locked!TypeOK, Locked!ReferenceLives
<1>8. QED
  BY <1>2, <1>3, <1>6, <1>7, Zenon DEF ItemsStep, Locked!Fifo!FifoNext, Locked!Fifo!Put

\* A step that only moves items between the batch and the queue is a stuttering step.
LEMMA NextStep ==
    ASSUME ItemsInv, Locked!next
    PROVE  ItemsStep
<1>1. /\ items \in Seq(WorkItems) /\ hand \in Seq(WorkItems) /\ items # <<>>
      /\ consumer = "batcher" /\ ref = None
  BY Zenon DEF ItemsInv, Locked!TypeOK, Locked!next
<1>2. /\ items' = Tail(items) /\ hand' = Append(hand, Head(items))
      /\ UNCHANGED <<consumer, looping, _lock, _canceled, left, ref, working, done>>
  BY Zenon DEF Locked!next
<1>3. items' \in Seq(WorkItems) /\ hand' \in Seq(WorkItems)
  BY <1>1, <1>2
<1>4. hand' \o items' = hand \o items
  BY <1>1, <1>2, Batch, Zenon
<1>5. ItemsInv'
  BY <1>1, <1>2, <1>3, Zenon DEF ItemsInv, Locked!TypeOK, Locked!ReferenceLives
<1>6. QED
  BY <1>2, <1>4, <1>5, Zenon DEF ItemsStep, Locked!Fifo!fifoVars

\* readd puts what is left of the batch back in front of the queue.
LEMMA ReaddStep ==
    ASSUME ItemsInv, Locked!readd
    PROVE  ItemsStep
<1>1. items \in Seq(WorkItems) /\ hand \in Seq(WorkItems)
  BY Zenon DEF ItemsInv, Locked!TypeOK
<1>2. /\ items' = hand \o items /\ hand' = <<>> /\ working' = FALSE
      /\ UNCHANGED <<consumer, looping, _lock, _canceled, left, ref, done>>
  BY Zenon DEF Locked!readd, Locked!Inserted
<1>3. items' \in Seq(WorkItems) /\ hand' \in Seq(WorkItems) /\ hand' \o items' = hand \o items
  BY <1>1, <1>2, Batch
<1>4. ref # None => items' = items
  BY <1>1, <1>2, Batch, Zenon DEF ItemsInv
<1>5. ItemsInv'
  BY <1>1, <1>2, <1>3, <1>4, Zenon DEF ItemsInv, Locked!TypeOK, Locked!ReferenceLives
<1>6. QED
  BY <1>2, <1>3, <1>5, Zenon DEF ItemsStep, Locked!Fifo!fifoVars

\* The batcher does the oldest item.
LEMMA WorkOneStep ==
    ASSUME ItemsInv, Locked!WorkOne
    PROVE  ItemsStep
<1>1. /\ items \in Seq(WorkItems) /\ hand \in Seq(WorkItems) /\ hand # <<>>
      /\ consumer = "batcher" /\ ref = None
  BY Zenon DEF ItemsInv, Locked!TypeOK, Locked!WorkOne
<1>2. /\ done' = Head(hand) /\ hand' = Tail(hand) /\ working' = TRUE
      /\ UNCHANGED <<consumer, looping, _lock, items, _canceled, left, ref>>
  BY Zenon DEF Locked!WorkOne
<1>3. hand' \in Seq(WorkItems) /\ done' \in WorkItems
  BY <1>1, <1>2
<1>4. /\ hand \o items # <<>> /\ done' = Head(hand \o items)
      /\ hand' \o items' = Tail(hand \o items)
  BY <1>1, <1>2, Batch, Zenon
<1>5. ItemsInv'
  BY <1>1, <1>2, <1>3, Zenon DEF ItemsInv, Locked!TypeOK, Locked!ReferenceLives
<1>6. QED
  BY <1>4, <1>5, Zenon DEF ItemsStep, Locked!Fifo!FifoNext, Locked!Fifo!Get

\* A checker that accepts, and pop_front, remove the front of the queue: nobody has a batch.
LEMMA RemoveStep ==
    ASSUME ItemsInv, hand = <<>>, items # <<>>, ref' = None,
           items' = Tail(items), done' = Head(items),
           UNCHANGED <<consumer, looping, _lock, _canceled, left, hand, working>>
    PROVE  ItemsStep
<1>1. items \in Seq(WorkItems)
  BY Zenon DEF ItemsInv, Locked!TypeOK
<1>2. items' \in Seq(WorkItems) /\ done' \in WorkItems
  BY <1>1
<1>3. hand \o items = items /\ hand' \o items' = items'
  BY <1>1, <1>2, Batch, Zenon
<1>4. ItemsInv'
  BY <1>2, Zenon DEF ItemsInv, Locked!TypeOK, Locked!ReferenceLives
<1>5. QED
  BY <1>3, <1>4, Zenon DEF ItemsStep, Locked!Fifo!FifoNext, Locked!Fifo!Get

\* next with a checker that accepts removes the front.
LEMMA NextCheckedStep ==
    ASSUME ItemsInv, NEW c \in Checkers, Locked!nextChecked(c)
    PROVE  ItemsStep
<1>1. /\ consumer \in {"checkers", "pollers"}
      /\ items # <<>> /\ items' = Tail(items) /\ done' = Head(items)
      /\ UNCHANGED <<consumer, looping, _lock, _canceled, left, ref, hand, working>>
  BY Zenon DEF Locked!nextChecked, Locked!Calls, Locked!Taken, Locked!client
<1>2. hand = <<>> /\ ref = None
  BY <1>1, Zenon DEF ItemsInv
<1>3. QED
  BY <1>1, <1>2, RemoveStep, Zenon

\* pop_front removes the item the reference denotes.
LEMMA PopFrontStep ==
    ASSUME ItemsInv, Locked!pop_front
    PROVE  ItemsStep
<1>1. /\ ref # None /\ ref' = None /\ items' = Tail(items) /\ done' = ref
      /\ UNCHANGED <<consumer, looping, _lock, _canceled, left, hand, working>>
  BY Zenon DEF Locked!pop_front
<1>2. hand = <<>> /\ items # <<>> /\ ref = Head(items)
  BY <1>1, Zenon DEF ItemsInv, Locked!ReferenceLives
<1>3. QED
  BY <1>1, <1>2, RemoveStep, Zenon

\* peek, unlock, cancel and a refused item leave the items alone.
LEMMA QuietStep ==
    ASSUME ItemsInv,
           \/ \E c \in Checkers : Locked!nextRefused(c)
           \/ \E au \in BOOLEAN : Locked!peek(au)
           \/ Locked!unlock \/ Locked!cancel \/ UNCHANGED locked
    PROVE  ItemsStep
<1>1. UNCHANGED <<consumer, items, left, hand, working, done>>
  BY Zenon DEF Locked!nextRefused, Locked!peek, Locked!unlock, Locked!cancel, Locked!client, locked
<1>2. _lock' \in {"peeker", None} /\ _canceled' \in BOOLEAN /\ looping' \subseteq Checkers
  BY Zenon DEF Locked!nextRefused, Locked!peek, Locked!unlock, Locked!cancel, Locked!Unlocks,
         Locked!AfterFalse, Locked!client, locked, ItemsInv, Locked!TypeOK
<1>3. ref' = ref \/ (consumer = "peeker" /\ items # <<>> /\ ref' = Head(items))
  BY Zenon DEF Locked!nextRefused, Locked!peek, Locked!unlock, Locked!cancel, Locked!client, locked
<1>4. items \in Seq(WorkItems)
  BY Zenon DEF ItemsInv, Locked!TypeOK
<1>5. ref' \in WorkItems \cup {None}
  BY <1>3, <1>4 DEF ItemsInv, Locked!TypeOK
<1>6. ItemsInv'
  BY <1>1, <1>2, <1>3, <1>5, Zenon DEF ItemsInv, Locked!TypeOK, Locked!ReferenceLives
<1>7. QED
  BY <1>1, <1>6, Zenon DEF ItemsStep, Locked!Fifo!fifoVars

\* LockedQueue.h hands every item out once and in the order of the adds, whatever the adders
\* add, whatever the checkers accept and however large the batches are; and the item peek
\* returned a reference to stays at the front until pop_front().
THEOREM ItemsInOrderThm == MCSpec => ItemsInOrder
<1>1. MCInit => ItemsInv /\ Locked!Fifo!FifoInit
  <2> SUFFICES ASSUME MCInit PROVE ItemsInv /\ Locked!Fifo!FifoInit
    BY Zenon
  <2>1. left \in [Adders -> Seq(WorkItems)]
    BY WorkAssumption, Zenon DEF MCInit, Locked!Init
  <2>2. <<>> \in Seq(WorkItems) /\ <<>> \o <<>> = <<>>
    OBVIOUS
  <2>3. ItemsInv
    BY <2>1, <2>2, Zenon DEF MCInit, Locked!Init, ItemsInv, Locked!TypeOK, Locked!ReferenceLives
  <2>4. Locked!Fifo!FifoInit
    BY <2>2, Zenon DEF MCInit, Locked!Init, Locked!Fifo!FifoInit
  <2>5. QED
    BY <2>3, <2>4, Zenon
<1>2. ItemsInv /\ [MCNext]_<<running, vars, locked>>
      => ItemsInv' /\ [Locked!Fifo!FifoNext]_(Locked!Fifo!fifoVars)
  <2> SUFFICES ASSUME ItemsInv, [MCNext]_<<running, vars, locked>> PROVE ItemsStep
    BY Zenon DEF ItemsStep
  <2>1. Locked!Next \/ UNCHANGED locked
    BY Zenon DEF MCNext
  <2>2. QED
    BY <2>1, AddStep, NextStep, ReaddStep, WorkOneStep, NextCheckedStep, PopFrontStep, QuietStep, Zenon
    DEF Locked!Next
<1>3. ItemsInv => Locked!TypeOK /\ Locked!ReferenceLives
  BY Zenon DEF ItemsInv
<1>4. QED
  BY <1>1, <1>2, <1>3, PTL DEF MCSpec, ItemsInOrder, Locked!Fifo!FifoSpec

-----------------------------------------------------------------------------
(* The programs that show the memory orders *)

\* A store appends to the writes of a location.
LEMMA AppendWrite ==
    ASSUME NEW S, NEW s \in Seq(S), NEW e \in S
    PROVE  /\ Append(s, e) \in Seq(S)
           /\ Append(s, e) # <<>>
           /\ Len(s) \in Nat
           /\ Len(Append(s, e)) = Len(s) + 1
           /\ Append(s, e)[Len(Append(s, e))] = e
OBVIOUS

\* The writes made before it keep their places.
LEMMA AppendKeeps ==
    ASSUME NEW S, NEW s \in Seq(S), NEW e \in S, NEW i \in 1 .. Len(s)
    PROVE  Append(s, e)[i] = s[i]
OBVIOUS

\* A view, and a value of a location with the view it was published with.
Views == [{"x", "y"} -> Nat \ {0}]
Values == [val : BOOLEAN, view : Views]

\* acquire_release.cc: y is stored with a view that holds the store to x, and the reader
\* that has seen y has this view, so it cannot read the old x.
W == "write_x_then_y"
R == "read_y_then_x"
AcquireReleaseInv ==
    /\ program = Orders!AcquireReleaseProgram /\ round = 1
    /\ at \in [{W, R} -> 1 .. 3]
    /\ seen \in [{W, R} -> Views]
    /\ mem \in [{"x", "y"} -> Seq(Values)]
    /\ Len(mem["x"]) = IF at[W] = 1 THEN 1 ELSE 2
    /\ Len(mem["y"]) = IF at[W] = 3 THEN 2 ELSE 1
    /\ seen[W]["x"] = Len(mem["x"])
    /\ mem["y"][1].val = FALSE
    /\ at[W] # 1 => mem["x"][2].val = TRUE
    /\ at[W] = 3 => mem["y"][2].view["x"] = 2
    /\ at[R] # 1 => at[W] = 3 /\ seen[R]["x"] >= 2
    /\ z = IF at[R] = 3 THEN 1 ELSE 0

\* seq_cst.cc: a reader that has left its loop has seen the store it waited for, which the
\* other one then sees as well.
SeqCstThreads == {"write_x", "write_y", "read_x_then_y", "read_y_then_x"}
Writer(l) == IF l = "x" THEN "write_x" ELSE "write_y"
Reader(l) == IF l = "x" THEN "read_x_then_y" ELSE "read_y_then_x"
Newest(m, l) == m[l][Len(m[l])].val
SeqCstTypes ==
    /\ program = Orders!SeqCstProgram
    /\ seen \in [SeqCstThreads -> Views]
    /\ mem \in [{"x", "y"} -> Seq(Values) \ {<<>>}]
SeqCstOrder ==
    /\ at \in [SeqCstThreads -> 1 .. 3]
    /\ z \in Nat
    /\ \A l \in {"x", "y"} :
         /\ Newest(mem, l) = TRUE <=> at[Writer(l)] # 1
         /\ at[Reader(l)] # 1 => Newest(mem, l) = TRUE
    /\ at["read_x_then_y"] = 3 /\ at["read_y_then_x"] = 3 => z # 0
SeqCstInv == SeqCstTypes /\ SeqCstOrder

OrdersInv ==
    /\ name \in {"relaxed", "acquire_release", "seq_cst"}
    /\ name = "acquire_release" => AcquireReleaseInv
    /\ name = "seq_cst" => SeqCstInv

\* The programs' threads start with the stores and loads not made.
LEMMA OrdersInit == Orders!Init => OrdersInv
<1>1. ASSUME Orders!Start("acquire_release", Orders!AcquireReleaseProgram) PROVE OrdersInv
  <2>1. AcquireReleaseInv
    <3> DEFINE v == [val |-> FALSE, view |-> Orders!Oldest]
    <3>1. Orders!Oldest \in Views /\ Orders!Oldest["x"] = 1
      BY DEF Orders!Oldest, Orders!Locations, Views
    <3>2. v \in Values /\ v.val = FALSE
      BY <3>1, Zenon DEF Values
    <3>3. mem = [l \in {"x", "y"} |-> <<v>>]
      BY <1>1, Zenon DEF Orders!Start, Orders!Locations
    <3>4. /\ mem \in [{"x", "y"} -> Seq(Values)]
          /\ Len(mem["x"]) = 1 /\ Len(mem["y"]) = 1 /\ mem["y"][1].val = FALSE
      <4> HIDE DEF v
      <4> QED
        BY <3>2, <3>3
    <3>5. QED
      BY <1>1, <3>1, <3>4 DEF AcquireReleaseInv, Orders!Start, Orders!AcquireReleaseProgram, W, R
  <2>2. QED
    BY <1>1, <2>1, Zenon DEF OrdersInv, Orders!Start
<1>2. ASSUME Orders!Start("seq_cst", Orders!SeqCstProgram) PROVE OrdersInv
  <2>1. SeqCstInv
    <3> DEFINE v == [val |-> FALSE, view |-> Orders!Oldest]
    <3>1. Orders!Oldest \in Views
      BY DEF Orders!Oldest, Orders!Locations, Views
    <3>2. v \in Values /\ v.val = FALSE
      BY <3>1, Zenon DEF Values
    <3>3. mem = [l \in {"x", "y"} |-> <<v>>]
      BY <1>2, Zenon DEF Orders!Start, Orders!Locations
    <3>4. /\ mem \in [{"x", "y"} -> Seq(Values) \ {<<>>}]
          /\ Newest(mem, "x") = FALSE /\ Newest(mem, "y") = FALSE
      <4> HIDE DEF v
      <4> QED
        BY <3>2, <3>3, SMT, Z3 DEF Newest
    <3>5. QED
      BY <1>2, <3>1, <3>4
      DEF SeqCstInv, SeqCstTypes, SeqCstOrder, SeqCstThreads, Writer, Reader,
          Orders!Start, Orders!SeqCstProgram
  <2>2. QED
    BY <1>2, <2>1, Zenon DEF OrdersInv, Orders!Start
<1>3. QED
  BY <1>1, <1>2, Zenon DEF Orders!Init, OrdersInv, Orders!Start

\* What the threads of acquire_release.cc do at their two places.
LEMMA AcquireReleaseCode ==
    ASSUME program = Orders!AcquireReleaseProgram,
           NEW t \in Orders!Workers, Orders!Step(t), at[t] \in 1 .. 3
    PROVE  \/ t = "write_x_then_y" /\ at[t] = 1 /\ Orders!Store(t, "x", "relaxed")
           \/ t = "write_x_then_y" /\ at[t] = 2 /\ Orders!Store(t, "y", "release")
           \/ t = "read_y_then_x" /\ at[t] = 1 /\ Orders!Await(t, "y", "acquire")
           \/ t = "read_y_then_x" /\ at[t] = 2 /\ Orders!Count(t, "x", "relaxed")
<1>1. t = "write_x_then_y" \/ t = "read_y_then_x"
  BY Zenon DEF Orders!AcquireReleaseProgram, Orders!Workers
<1>2. /\ Len(program["write_x_then_y"]) = 2 /\ Len(program["read_y_then_x"]) = 2
      /\ program["write_x_then_y"][1] = <<"store", "x", "relaxed">>
      /\ program["write_x_then_y"][2] = <<"store", "y", "release">>
      /\ program["read_y_then_x"][1] = <<"await", "y", "acquire">>
      /\ program["read_y_then_x"][2] = <<"count", "x", "relaxed">>
  BY Zenon DEF Orders!AcquireReleaseProgram
<1>3. QED
  BY <1>1, <1>2 DEF Orders!Step

\* acquire_release.cc: every step keeps the invariant.
LEMMA AcquireReleaseStep ==
    ASSUME AcquireReleaseInv, name = "acquire_release", Orders!Next
    PROVE  AcquireReleaseInv'
<1>9. W # R
  BY Zenon DEF W, R
<1>1. /\ program = Orders!AcquireReleaseProgram /\ round = 1
      /\ at \in [{W, R} -> 1 .. 3]
      /\ seen \in [{W, R} -> Views] /\ seen[W] \in Views /\ seen[R] \in Views
      /\ mem \in [{"x", "y"} -> Seq(Values)]
  BY Zenon DEF AcquireReleaseInv
<1>2. Orders!Workers = {W, R}
  BY <1>1, Zenon DEF Orders!Workers, Orders!AcquireReleaseProgram, W, R
<1>3. PICK t \in Orders!Workers : Orders!Step(t)
  BY <1>1, SMT, Z3 DEF Orders!Next, Orders!Again, Orders!Rounds
<1>4. ASSUME Orders!Store(W, "x", "relaxed"), at[W] = 1 PROVE AcquireReleaseInv'
  <2> DEFINE mine == [seen[W] EXCEPT !["x"] = 2]
             new == [val |-> TRUE, view |-> [Orders!Oldest EXCEPT !["x"] = 2]]
  <2>1. Len(mem["x"]) + 1 = 2 /\ Len(mem["x"]) = 1 /\ Len(mem["y"]) = 1 /\ at[R] = 1 /\ z = 0
    BY <1>4 DEF AcquireReleaseInv
  <2>2. /\ mem' = [mem EXCEPT !["x"] = Append(mem["x"], new)]
        /\ seen' = [seen EXCEPT ![W] = mine]
        /\ at' = [at EXCEPT ![W] = at[W] + 1]
        /\ program' = program /\ round' = round /\ z' = z
    BY <1>4, <2>1, Zenon DEF Orders!Store, Orders!Advance
  <2>3. new \in Values /\ new.val = TRUE
    BY DEF Orders!Oldest, Orders!Locations, Values, Views
  <2>4. mine \in Views /\ mine["x"] = 2
    BY <1>1 DEF Views
  <2> HIDE DEF new, mine
  <2>5. /\ mem' \in [{"x", "y"} -> Seq(Values)]
        /\ Len(mem'["x"]) = 2 /\ mem'["y"] = mem["y"]
        /\ mem'["x"][2].val = TRUE
    BY <1>1, <2>1, <2>2, <2>3
  <2>6. /\ at' \in [{W, R} -> 1 .. 3] /\ at'[W] = 2 /\ at'[R] = 1
    BY <1>1, <1>4, <1>9, <2>1, <2>2
  <2>7. seen' \in [{W, R} -> Views] /\ seen'[W]["x"] = 2
    BY <1>1, <2>2, <2>4, Zenon
  <2>8. QED
    BY <1>1, <1>4, <2>1, <2>2, <2>5, <2>6, <2>7, SMT, Z3 DEF AcquireReleaseInv
<1>5. ASSUME Orders!Store(W, "y", "release"), at[W] = 2 PROVE AcquireReleaseInv'
  <2> DEFINE mine == [seen[W] EXCEPT !["y"] = 2]
             new == [val |-> TRUE, view |-> mine]
  <2>1. Len(mem["y"]) + 1 = 2 /\ Len(mem["x"]) = 2 /\ Len(mem["y"]) = 1 /\ at[R] = 1 /\ z = 0
    BY <1>5 DEF AcquireReleaseInv
  <2>2. /\ mem' = [mem EXCEPT !["y"] = Append(mem["y"], new)]
        /\ seen' = [seen EXCEPT ![W] = mine]
        /\ at' = [at EXCEPT ![W] = at[W] + 1]
        /\ program' = program /\ round' = round /\ z' = z
    BY <1>5, <2>1, Zenon DEF Orders!Store, Orders!Advance
  <2>3. mine \in Views /\ mine["x"] = 2
    BY <1>1, <1>5, Zenon DEF Views, AcquireReleaseInv
  <2> HIDE DEF mine
  <2>4. new \in Values /\ new.view["x"] = 2
    BY <2>3, Zenon DEF Values
  <2> HIDE DEF new
  <2>5. /\ mem' \in [{"x", "y"} -> Seq(Values)]
        /\ Len(mem'["y"]) = 2 /\ mem'["x"] = mem["x"]
        /\ mem'["y"][1] = mem["y"][1] /\ mem'["y"][2].view["x"] = 2
    <3> DEFINE old == mem["y"]
    <3>1. old \in Seq(Values) /\ Len(old) = 1
      BY <1>1, <2>1, Zenon
    <3>2. mem'["y"] = Append(old, new) /\ mem'["x"] = mem["x"]
      BY <1>1, <2>2, Zenon
    <3> HIDE DEF old
    <3>3. /\ Append(old, new) \in Seq(Values) /\ Len(Append(old, new)) = 2
          /\ Append(old, new)[1] = old[1] /\ Append(old, new)[2] = new
      <4>1. 1 \in 1 .. Len(old)
        BY <3>1
      <4>2. old \in Seq(Values) /\ new \in Values
        BY <2>4, <3>1, Zenon
      <4>3. /\ Append(old, new) \in Seq(Values) /\ Len(Append(old, new)) = Len(old) + 1
            /\ Append(old, new)[Len(Append(old, new))] = new
        BY <4>2, AppendWrite
      <4>4. Len(Append(old, new)) = 2
        BY <3>1, <4>3
      <4>5. Append(old, new)[1] = old[1]
        BY <4>1, <4>2, AppendKeeps
      <4>6. QED
        BY <4>3, <4>4, <4>5, Zenon
    <3>4. mem' \in [{"x", "y"} -> Seq(Values)]
      BY <1>1, <2>2, <3>3, Zenon DEF old
    <3>5. QED
      BY <2>4, <3>2, <3>3, <3>4, Zenon DEF old
  <2>6. /\ at' \in [{W, R} -> 1 .. 3] /\ at'[W] = 3 /\ at'[R] = 1
    BY <1>1, <1>5, <1>9, <2>1, <2>2
  <2>7. seen' \in [{W, R} -> Views] /\ seen'[W]["x"] = 2
    BY <1>1, <2>2, <2>3, Zenon
  <2>8. QED
    BY <1>1, <1>5, <2>1, <2>2, <2>5, <2>6, <2>7, Zenon DEF AcquireReleaseInv
<1>6. ASSUME Orders!Await(R, "y", "acquire"), at[R] = 1 PROVE AcquireReleaseInv'
  <2>1. PICK i \in seen[R]["y"] .. Len(mem["y"]) :
           /\ seen' = [seen EXCEPT ![R] = Orders!Later(seen[R], mem["y"][i].view)]
           /\ mem["y"][i].val => at' = [at EXCEPT ![R] = at[R] + 1]
           /\ ~mem["y"][i].val => at' = at
    BY <1>6, Zenon DEF Orders!Await, Orders!Readable, Orders!Seen, Orders!Advance
  <2>2. mem' = mem /\ program' = program /\ round' = round /\ z' = z
    BY <1>6, Zenon DEF Orders!Await
  <2> DEFINE mine == Orders!Later(seen[R], mem["y"][i].view)
  <2>3. i \in 1 .. Len(mem["y"]) /\ Len(mem["y"]) \in {1, 2}
    <3>1. seen[R]["y"] \in Nat \ {0}
      BY <1>1, Zenon DEF Views
    <3>2. Len(mem["y"]) \in {1, 2}
      BY Zenon DEF AcquireReleaseInv
    <3>3. QED
      BY <2>1, <3>1, <3>2
  <2>4. mem["y"][i] \in Values /\ mem["y"][i].view \in Views
    <3>1. mem["y"] \in Seq(Values)
      BY <1>1, Zenon
    <3>2. mem["y"][i] \in Values
      BY <2>3, <3>1, SMT, Z3
    <3>3. QED
      BY <3>2, Zenon DEF Values
  <2>5. mine \in Views /\ mine["x"] >= mem["y"][i].view["x"]
    <3>1. \A l \in {"x", "y"} : seen[R][l] \in Nat \ {0} /\ mem["y"][i].view[l] \in Nat \ {0}
      BY <1>1, <2>4, Zenon DEF Views
    <3>2. mine = [l \in {"x", "y"} |-> IF seen[R][l] >= mem["y"][i].view[l]
                                       THEN seen[R][l] ELSE mem["y"][i].view[l]]
      BY Zenon DEF Orders!Later, Orders!Locations
    <3>3. QED
      BY <3>1, <3>2 DEF Views
  <2> HIDE DEF mine
  <2>6. seen' \in [{W, R} -> Views] /\ seen'[W] = seen[W] /\ seen'[R] = mine
    BY <1>1, <1>9, <2>1, <2>5, Zenon DEF mine
  <2>7. CASE mem["y"][i].val
    <3>1. i = 2 /\ Len(mem["y"]) = 2 /\ at[W] = 3 /\ mem["y"][2].view["x"] = 2
      BY <1>1, <2>3, <2>7, SMT, Z3 DEF AcquireReleaseInv
    <3>2. at' \in [{W, R} -> 1 .. 3] /\ at'[W] = 3 /\ at'[R] = 2
      BY <1>1, <1>6, <1>9, <2>1, <2>7, <3>1
    <3>3. mine["x"] >= 2
      BY <2>5, <3>1, Zenon
    <3>4. seen'[R]["x"] >= 2 /\ seen'[W]["x"] = seen[W]["x"] /\ z = 0
      BY <1>6, <2>6, <3>3, SMT, Z3 DEF AcquireReleaseInv
    <3>5. /\ Len(mem["x"]) = 2 /\ seen[W]["x"] = 2 /\ mem["y"][1].val = FALSE
          /\ mem["x"][2].val = TRUE
      BY <3>1 DEF AcquireReleaseInv
    <3>6. QED
      <4>1. program' = Orders!AcquireReleaseProgram /\ round' = 1
        BY <1>1, <2>2, Zenon
      <4>2. /\ mem' \in [{"x", "y"} -> Seq(Values)]
            /\ Len(mem'["x"]) = 2 /\ Len(mem'["y"]) = 2
            /\ mem'["y"][1].val = FALSE /\ mem'["x"][2].val = TRUE
            /\ mem'["y"][2].view["x"] = 2
        BY <1>1, <2>2, <3>1, <3>5, Zenon
      <4>3. seen'[W]["x"] = Len(mem'["x"]) /\ z' = 0
        BY <2>2, <3>4, <3>5, Zenon
      <4>4. QED
        BY <2>6, <3>2, <3>4, <4>1, <4>2, <4>3 DEF AcquireReleaseInv
  <2>8. CASE ~mem["y"][i].val
    BY <1>6, <2>1, <2>2, <2>6, <2>8, Zenon DEF AcquireReleaseInv
  <2>9. QED
    BY <2>7, <2>8, Zenon
<1>7. ASSUME Orders!Count(R, "x", "relaxed"), at[R] = 2 PROVE AcquireReleaseInv'
  <2>1. at[W] = 3 /\ seen[R]["x"] >= 2 /\ Len(mem["x"]) = 2 /\ mem["x"][2].val = TRUE /\ z = 0
    BY <1>7 DEF AcquireReleaseInv
  <2>2. PICK i \in seen[R]["x"] .. Len(mem["x"]) :
           /\ seen' = [seen EXCEPT ![R] = [seen[R] EXCEPT !["x"] = i]]
           /\ mem["x"][i].val => z' = z + 1
    BY <1>7, Zenon DEF Orders!Count, Orders!Readable, Orders!Seen
  <2>3. /\ at' = [at EXCEPT ![R] = at[R] + 1]
        /\ mem' = mem /\ program' = program /\ round' = round
    BY <1>7, Zenon DEF Orders!Count, Orders!Advance
  <2>4. i = 2
    <3>1. seen[R]["x"] \in Nat
      BY <1>1, Zenon DEF Views
    <3>2. QED
      BY <2>1, <2>2, <3>1
  <2>5. z' = 1
    BY <2>1, <2>2, <2>4
  <2>6. at' \in [{W, R} -> 1 .. 3] /\ at'[W] = 3 /\ at'[R] = 3
    BY <1>1, <1>7, <1>9, <2>1, <2>3
  <2>7. seen' \in [{W, R} -> Views] /\ seen'[R]["x"] = 2 /\ seen'[W] = seen[W]
    <3> DEFINE mine == [seen[R] EXCEPT !["x"] = 2]
    <3>1. mine \in Views /\ mine["x"] = 2
      BY <1>1 DEF Views
    <3>2. seen' = [seen EXCEPT ![R] = mine]
      BY <2>2, <2>4, Zenon
    <3> HIDE DEF mine
    <3>3. QED
      BY <1>1, <1>9, <3>1, <3>2, Zenon
  <2>8. /\ Len(mem["y"]) = 2 /\ seen[W]["x"] = 2 /\ mem["y"][1].val = FALSE
        /\ mem["y"][2].view["x"] = 2
    BY <2>1, Zenon DEF AcquireReleaseInv
  <2>9. QED
    <3>1. program' = Orders!AcquireReleaseProgram /\ round' = 1
      BY <1>1, <2>3, Zenon
    <3>2. /\ mem' \in [{"x", "y"} -> Seq(Values)]
          /\ Len(mem'["x"]) = 2 /\ Len(mem'["y"]) = 2
          /\ mem'["y"][1].val = FALSE /\ mem'["x"][2].val = TRUE
          /\ mem'["y"][2].view["x"] = 2
      BY <1>1, <2>1, <2>3, <2>8, Zenon
    <3>3. seen'[W]["x"] = Len(mem'["x"]) /\ seen'[R]["x"] >= 2
      BY <2>1, <2>3, <2>7, <2>8, SMT, Z3
    <3>4. QED
      BY <2>5, <2>6, <2>7, <3>1, <3>2, <3>3 DEF AcquireReleaseInv
<1>8. QED
  BY <1>1, <1>2, <1>3, <1>4, <1>5, <1>6, <1>7, AcquireReleaseCode, Zenon DEF W, R

\* What the threads of seq_cst.cc do at their places.
LEMMA SeqCstCode ==
    ASSUME program = Orders!SeqCstProgram,
           NEW t \in Orders!Workers, Orders!Step(t), at[t] \in 1 .. 3
    PROVE  \E l, k \in {"x", "y"} :
             \/ t = Writer(l) /\ at[t] = 1 /\ Orders!Store(t, l, "seq_cst")
             \/ t = Reader(l) /\ at[t] = 1 /\ Orders!Await(t, l, "seq_cst")
             \/ t = Reader(l) /\ at[t] = 2 /\ k # l /\ Orders!Count(t, k, "seq_cst")
<1>1. PICK l, k \in {"x", "y"} : k # l /\ (t = Writer(l) \/ t = Reader(l))
  BY Zenon DEF Orders!SeqCstProgram, Orders!Workers, Writer, Reader
<1>2. /\ Len(program[Writer(l)]) = 1 /\ program[Writer(l)][1] = <<"store", l, "seq_cst">>
      /\ Len(program[Reader(l)]) = 2 /\ program[Reader(l)][1] = <<"await", l, "seq_cst">>
      /\ program[Reader(l)][2] = <<"count", k, "seq_cst">>
  BY <1>1, Zenon DEF Orders!SeqCstProgram, Writer, Reader
<1>3. CASE t = Writer(l)
  <2>1. at[t] = 1
    <3>1. at[t] <= Len(program[t])
      BY Zenon DEF Orders!Step
    <3>2. at[t] <= 1
      BY <1>2, <1>3, <3>1, Zenon
    <3>3. QED
      BY <3>2
  <2>2. Orders!Store(t, l, "seq_cst")
    <3>1. program[t][at[t]] = <<"store", l, "seq_cst">>
      BY <1>2, <1>3, <2>1, Zenon
    <3>2. QED
      BY <3>1 DEF Orders!Step
  <2>3. QED
    BY <1>3, <2>1, <2>2, Zenon
<1>4. CASE t = Reader(l)
  <2>1. CASE at[t] = 1
    <3>1. program[t][at[t]] = <<"await", l, "seq_cst">>
      BY <1>2, <1>4, <2>1, Zenon
    <3>2. Orders!Await(t, l, "seq_cst")
      BY <3>1 DEF Orders!Step
    <3>3. QED
      BY <1>4, <2>1, <3>2, Zenon
  <2>2. CASE at[t] = 2
    <3>1. program[t][at[t]] = <<"count", k, "seq_cst">>
      BY <1>2, <1>4, <2>2, Zenon
    <3>2. Orders!Count(t, k, "seq_cst")
      BY <3>1 DEF Orders!Step
    <3>3. QED
      BY <1>1, <1>4, <2>2, <3>2, Zenon
  <2>3. at[t] \in {1, 2}
    <3>1. at[t] <= Len(program[t])
      BY Zenon DEF Orders!Step
    <3>2. at[t] <= 2
      BY <1>2, <1>4, <3>1, Zenon
    <3>3. QED
      BY <3>2
  <2>4. QED
    BY <2>1, <2>2, <2>3, Zenon
<1>5. QED
  BY <1>1, <1>3, <1>4, Zenon

\* A seq_cst store appends true: it is then the location's newest value.
LEMMA SeqCstStore ==
    ASSUME SeqCstInv, NEW t \in SeqCstThreads, NEW l \in {"x", "y"}, Orders!Store(t, l, "seq_cst")
    PROVE  /\ SeqCstTypes' /\ z' = z /\ at' = [at EXCEPT ![t] = at[t] + 1]
           /\ Newest(mem', l) = TRUE
           /\ \A m \in {"x", "y"} \ {l} : Newest(mem', m) = Newest(mem, m)
<1> DEFINE n == Len(mem[l]) + 1
           mine == [seen[t] EXCEPT ![l] = n]
           new == [val |-> TRUE, view |-> mine]
<1>1. /\ seen \in [SeqCstThreads -> Views] /\ seen[t] \in Views
      /\ mem \in [{"x", "y"} -> Seq(Values) \ {<<>>}] /\ mem[l] \in Seq(Values)
  BY Zenon DEF SeqCstInv, SeqCstTypes, SeqCstOrder
<1>2. /\ program' = program /\ z' = z /\ at' = [at EXCEPT ![t] = at[t] + 1]
      /\ mem' = [mem EXCEPT ![l] = Append(mem[l], new)]
      /\ seen' = [seen EXCEPT ![t] = mine]
  BY Zenon DEF Orders!Store, Orders!Advance
<1>3. n \in Nat \ {0}
  BY <1>1
<1> HIDE DEF n
<1>4. mine \in Views
  BY <1>1, <1>3, Zenon DEF Views
<1> HIDE DEF mine
<1>5. new \in Values /\ new.val = TRUE
  BY <1>4, Zenon DEF Values
<1> HIDE DEF new
<1> DEFINE grown == Append(mem[l], new)
<1>6. grown \in Seq(Values) /\ grown # <<>> /\ grown[Len(grown)] = new
  BY <1>1, <1>5
<1> HIDE DEF grown
<1>7. mem' = [mem EXCEPT ![l] = grown]
  BY <1>2, Zenon DEF grown
<1>8. mem' \in [{"x", "y"} -> Seq(Values) \ {<<>>}]
  BY <1>1, <1>6, <1>7, Zenon
<1>9. mem'[l] = grown /\ \A m \in {"x", "y"} \ {l} : mem'[m] = mem[m]
  BY <1>1, <1>7, Zenon
<1>10. Newest(mem', l) = TRUE
  BY <1>5, <1>6, <1>9, Zenon DEF Newest
<1>11. \A m \in {"x", "y"} \ {l} : Newest(mem', m) = Newest(mem, m)
  BY <1>9, Zenon DEF Newest
<1>12. SeqCstTypes'
  BY <1>1, <1>2, <1>4, <1>8, Zenon DEF SeqCstInv, SeqCstTypes
<1>13. QED
  BY <1>2, <1>10, <1>11, <1>12, Zenon

\* A seq_cst load takes the newest value's view over.
LEMMA SeqCstSeen ==
    ASSUME SeqCstInv, NEW t \in SeqCstThreads, NEW l \in {"x", "y"},
           seen' = [seen EXCEPT ![t] = Orders!Seen(t, l, "seq_cst", Len(mem[l]))]
    PROVE  seen' \in [SeqCstThreads -> Views]
<1> DEFINE v == mem[l][Len(mem[l])].view
           mine == Orders!Later(seen[t], v)
<1>1. /\ seen \in [SeqCstThreads -> Views] /\ seen[t] \in Views
      /\ mem[l] \in Seq(Values) /\ mem[l] # <<>>
  BY Zenon DEF SeqCstInv, SeqCstTypes, SeqCstOrder
<1>2. mem[l][Len(mem[l])] \in Values
  BY <1>1
<1>3. v \in Views
  BY <1>2, Zenon DEF Values
<1>4. seen' = [seen EXCEPT ![t] = mine]
  BY Zenon DEF Orders!Seen
<1> HIDE DEF v
<1>5. mine \in Views
  BY <1>1, <1>3, Zenon DEF Orders!Later, Orders!Locations, Views
<1> HIDE DEF mine
<1>6. QED
  BY <1>1, <1>4, <1>5, Zenon

\* A thread of seq_cst.cc leaves its loop when the newest value it loads is true.
LEMMA SeqCstAwait ==
    ASSUME SeqCstInv, NEW t \in SeqCstThreads, NEW l \in {"x", "y"}, Orders!Await(t, l, "seq_cst")
    PROVE  /\ SeqCstTypes' /\ z' = z /\ mem' = mem
           /\ \/ at' = at
              \/ Newest(mem, l) = TRUE /\ at' = [at EXCEPT ![t] = at[t] + 1]
<1>1. PICK i \in Orders!Readable(t, l, "seq_cst") :
         /\ seen' = [seen EXCEPT ![t] = Orders!Seen(t, l, "seq_cst", i)]
         /\ IF mem[l][i].val THEN at' = [at EXCEPT ![t] = at[t] + 1] ELSE at' = at
  BY Zenon DEF Orders!Await, Orders!Advance
<1>2. i = Len(mem[l])
  BY Zenon DEF Orders!Readable
<1>3. mem[l] \in Seq(Values) /\ mem[l] # <<>>
  BY Zenon DEF SeqCstInv, SeqCstTypes, SeqCstOrder
<1>4. mem[l][Len(mem[l])] \in Values
  BY <1>3
<1>5. Newest(mem, l) \in BOOLEAN
  BY <1>4, Zenon DEF Newest, Values
<1>6. seen' \in [SeqCstThreads -> Views]
  BY <1>1, <1>2, SeqCstSeen, Zenon
<1>7. at' = at \/ (Newest(mem, l) = TRUE /\ at' = [at EXCEPT ![t] = at[t] + 1])
  BY <1>1, <1>2, <1>5, Zenon DEF Newest
<1>8. QED
  BY <1>6, <1>7, Zenon DEF Orders!Await, SeqCstInv, SeqCstTypes

\* A thread of seq_cst.cc counts when the newest value it loads is true.
LEMMA SeqCstCount ==
    ASSUME SeqCstInv, NEW t \in SeqCstThreads, NEW l \in {"x", "y"}, Orders!Count(t, l, "seq_cst")
    PROVE  /\ SeqCstTypes' /\ mem' = mem
           /\ at' = [at EXCEPT ![t] = at[t] + 1]
           /\ z' \in Nat
           /\ Newest(mem, l) = TRUE => z' # 0
<1>1. PICK i \in Orders!Readable(t, l, "seq_cst") :
         /\ seen' = [seen EXCEPT ![t] = Orders!Seen(t, l, "seq_cst", i)]
         /\ z' = IF mem[l][i].val THEN z + 1 ELSE z
  BY Zenon DEF Orders!Count
<1>2. i = Len(mem[l])
  BY Zenon DEF Orders!Readable
<1>3. z \in Nat
  BY Zenon DEF SeqCstInv, SeqCstTypes, SeqCstOrder
<1>4. seen' \in [SeqCstThreads -> Views]
  BY <1>1, <1>2, SeqCstSeen, Zenon
<1>5. z' \in Nat /\ (Newest(mem, l) = TRUE => z' # 0)
  BY <1>1, <1>2, <1>3 DEF Newest
<1>6. QED
  BY <1>4, <1>5, Zenon DEF Orders!Count, Orders!Advance, SeqCstInv, SeqCstTypes

\* main stores false to both locations before it creates the threads again.
LEMMA SeqCstAgain ==
    ASSUME SeqCstInv, Orders!Again
    PROVE  SeqCstInv'
<1> DEFINE newest == [l \in {"x", "y"} |-> Len(mem[l]) + 1]
           new == [val |-> FALSE, view |-> newest]
<1>1. mem \in [{"x", "y"} -> Seq(Values) \ {<<>>}] /\ program = Orders!SeqCstProgram
  BY Zenon DEF SeqCstInv, SeqCstTypes, SeqCstOrder
<1>2. Orders!Workers = SeqCstThreads
  BY <1>1, Zenon DEF Orders!Workers, Orders!SeqCstProgram, SeqCstThreads
<1>3. /\ mem' = [l \in {"x", "y"} |-> Append(mem[l], new)]
      /\ seen' = [t \in SeqCstThreads |-> newest]
      /\ at' = [t \in SeqCstThreads |-> 1]
      /\ z' = 0 /\ program' = program
  BY <1>2, Zenon DEF Orders!Again, Orders!Locations
<1>4. newest \in Views
  BY <1>1 DEF Views
<1> HIDE DEF newest
<1>5. new \in Values /\ new.val = FALSE
  BY <1>4, Zenon DEF Values
<1> HIDE DEF new
<1>6. ASSUME NEW l \in {"x", "y"}
      PROVE  mem'[l] \in Seq(Values) \ {<<>>} /\ mem'[l][Len(mem'[l])] = new
  <2>1. mem[l] \in Seq(Values) /\ mem'[l] = Append(mem[l], new)
    BY <1>1, <1>3, Zenon
  <2>2. QED
    BY <1>5, <2>1
<1>7. mem' \in [{"x", "y"} -> Seq(Values) \ {<<>>}]
  BY <1>3, <1>6, Zenon
<1>8. Newest(mem', "x") = FALSE /\ Newest(mem', "y") = FALSE
  BY <1>5, <1>6, Zenon DEF Newest
<1>9. /\ at' \in [SeqCstThreads -> 1 .. 3] /\ seen' \in [SeqCstThreads -> Views]
      /\ \A t \in SeqCstThreads : at'[t] = 1
  BY <1>3, <1>4
<1>10. QED
  BY <1>1, <1>3, <1>7, <1>8, <1>9
  DEF SeqCstInv, SeqCstTypes, SeqCstOrder, SeqCstThreads, Writer, Reader

\* seq_cst.cc: every step keeps the invariant.
LEMMA SeqCstStep ==
    ASSUME SeqCstInv, Orders!Next
    PROVE  SeqCstInv'
<1>1. program = Orders!SeqCstProgram /\ at \in [SeqCstThreads -> 1 .. 3]
  BY Zenon DEF SeqCstInv, SeqCstTypes, SeqCstOrder
<1>2. Orders!Workers = SeqCstThreads
  BY <1>1, Zenon DEF Orders!Workers, Orders!SeqCstProgram, SeqCstThreads
<1>3. CASE Orders!Again
  BY <1>3, SeqCstAgain, Zenon
<1>4. ASSUME NEW t \in SeqCstThreads, Orders!Step(t) PROVE SeqCstInv'
  <2>1. at[t] \in 1 .. 3
    BY <1>1, Zenon
  <2>2. PICK l, k \in {"x", "y"} :
           \/ t = Writer(l) /\ at[t] = 1 /\ Orders!Store(t, l, "seq_cst")
           \/ t = Reader(l) /\ at[t] = 1 /\ Orders!Await(t, l, "seq_cst")
           \/ t = Reader(l) /\ at[t] = 2 /\ k # l /\ Orders!Count(t, k, "seq_cst")
    BY <1>1, <1>2, <1>4, <2>1, SeqCstCode, Zenon
  <2>3. ASSUME NEW n \in 1 .. 3, at' = [at EXCEPT ![t] = n]
        PROVE  /\ at' \in [SeqCstThreads -> 1 .. 3] /\ at'[t] = n
               /\ \A u \in SeqCstThreads \ {t} : at'[u] = at[u]
    BY <1>1, <2>3, Zenon
  <2>4. CASE t = Writer(l) /\ at[t] = 1 /\ Orders!Store(t, l, "seq_cst")
    <3>1. /\ SeqCstTypes' /\ z' = z /\ at' = [at EXCEPT ![t] = at[t] + 1]
          /\ Newest(mem', l) = TRUE
          /\ \A m \in {"x", "y"} \ {l} : Newest(mem', m) = Newest(mem, m)
      BY <2>4, SeqCstStore, Zenon
    <3>2. /\ at' \in [SeqCstThreads -> 1 .. 3] /\ at'[t] = 2
          /\ \A u \in SeqCstThreads \ {t} : at'[u] = at[u]
      BY <2>3, <2>4, <3>1
    <3>3. SeqCstOrder'
      BY <2>4, <3>1, <3>2 DEF SeqCstInv, SeqCstOrder, SeqCstThreads, Writer, Reader
    <3>4. QED
      BY <3>1, <3>3, Zenon DEF SeqCstInv
  <2>5. CASE t = Reader(l) /\ at[t] = 1 /\ Orders!Await(t, l, "seq_cst")
    <3>1. /\ SeqCstTypes' /\ z' = z /\ mem' = mem
          /\ at' = at \/ (Newest(mem, l) = TRUE /\ at' = [at EXCEPT ![t] = at[t] + 1])
      BY <2>5, SeqCstAwait, Zenon
    <3>2. CASE at' = at
      BY <3>1, <3>2, Zenon DEF SeqCstInv, SeqCstOrder, Newest
    <3>3. CASE Newest(mem, l) = TRUE /\ at' = [at EXCEPT ![t] = at[t] + 1]
      <4>1. /\ at' \in [SeqCstThreads -> 1 .. 3] /\ at'[t] = 2
            /\ \A u \in SeqCstThreads \ {t} : at'[u] = at[u]
        BY <2>3, <2>5, <3>3
      <4>2. \A m \in {"x", "y"} : Newest(mem', m) = Newest(mem, m)
        BY <3>1, Zenon DEF Newest
      <4>3. SeqCstOrder'
        BY <2>5, <3>1, <3>3, <4>1, <4>2 DEF SeqCstInv, SeqCstOrder, SeqCstThreads, Writer, Reader
      <4>4. QED
        BY <3>1, <4>3, Zenon DEF SeqCstInv
    <3>4. QED
      BY <3>1, <3>2, <3>3, Zenon
  <2>6. CASE t = Reader(l) /\ at[t] = 2 /\ k # l /\ Orders!Count(t, k, "seq_cst")
    <3>1. /\ SeqCstTypes' /\ mem' = mem /\ at' = [at EXCEPT ![t] = at[t] + 1]
          /\ z' \in Nat /\ (Newest(mem, k) = TRUE => z' # 0)
      BY <2>6, SeqCstCount, Zenon
    <3>2. /\ at' \in [SeqCstThreads -> 1 .. 3] /\ at'[t] = 3
          /\ \A u \in SeqCstThreads \ {t} : at'[u] = at[u]
      BY <2>3, <2>6, <3>1
    <3>3. \A m \in {"x", "y"} : Newest(mem', m) = Newest(mem, m)
      BY <3>1, Zenon DEF Newest
    <3>4. SeqCstOrder'
      BY <2>6, <3>1, <3>2, <3>3 DEF SeqCstInv, SeqCstOrder, SeqCstThreads, Writer, Reader
    <3>5. QED
      BY <3>1, <3>4, Zenon DEF SeqCstInv
  <2>7. QED
    BY <2>2, <2>4, <2>5, <2>6, Zenon
<1>5. QED
  BY <1>2, <1>3, <1>4, Zenon DEF Orders!Next

\* No step of the programs changes which of them runs.
LEMMA NameKept == Orders!Next => name' = name
<1>1. \A t \in Orders!Workers : Orders!Step(t) => name' = name
  BY Zenon DEF Orders!Step, Orders!Store, Orders!Await, Orders!Count
<1>2. Orders!Again => name' = name
  BY Zenon DEF Orders!Again
<1>3. QED
  BY <1>1, <1>2, Zenon DEF Orders!Next

\* Every step of the programs, and every step of autoinc.cc, keeps the invariant.
LEMMA OrdersStep ==
    ASSUME OrdersInv, [AtomicsNext]_<<executed, lockVars, orders>>
    PROVE  OrdersInv'
<1>1. CASE Orders!Next
  <2>1. name' = name
    BY <1>1, NameKept, Zenon
  <2>2. name = "acquire_release" => AcquireReleaseInv'
    BY <1>1, AcquireReleaseStep, Zenon DEF OrdersInv
  <2>3. name = "seq_cst" => SeqCstInv'
    BY <1>1, SeqCstStep, Zenon DEF OrdersInv
  <2>4. QED
    BY <2>1, <2>2, <2>3, Zenon DEF OrdersInv
<1>2. CASE UNCHANGED orders
  <2>1. /\ name' = name /\ program' = program /\ round' = round /\ mem' = mem
        /\ seen' = seen /\ at' = at /\ z' = z
    BY <1>2, Zenon DEF orders
  <2>2. AcquireReleaseInv => AcquireReleaseInv'
    BY <2>1, Zenon DEF AcquireReleaseInv
  <2>3. SeqCstInv => SeqCstInv'
    BY <2>1, Zenon DEF SeqCstInv, SeqCstTypes, SeqCstOrder
  <2>4. QED
    BY <2>1, <2>2, <2>3, Zenon DEF OrdersInv
<1>3. QED
  BY <1>1, <1>2, Zenon DEF AtomicsNext

\* The invariants imply what the programs' comment and assertion say.
LEMMA OrdersImply == OrdersInv => OrdersSuffice
<1>1. ASSUME AcquireReleaseInv, Orders!Joined PROVE z = 1
  <2>1. at[R] \in 1 .. 3 /\ R \in Orders!Workers /\ Len(program[R]) = 2
    BY <1>1, Zenon DEF AcquireReleaseInv, Orders!Workers, Orders!AcquireReleaseProgram, R
  <2>2. at[R] = 3
    BY <1>1, <2>1, SMT, Z3 DEF Orders!Joined
  <2>3. QED
    BY <1>1, <2>2, Zenon DEF AcquireReleaseInv
<1>2. ASSUME SeqCstInv, Orders!Joined PROVE z # 0
  <2>1. \A t \in {"read_x_then_y", "read_y_then_x"} :
           at[t] \in 1 .. 3 /\ t \in Orders!Workers /\ Len(program[t]) = 2
    <3>1. program = Orders!SeqCstProgram /\ at \in [SeqCstThreads -> 1 .. 3]
      BY <1>2, Zenon DEF SeqCstInv, SeqCstTypes, SeqCstOrder
    <3>2. /\ Orders!Workers = SeqCstThreads
          /\ Len(program["read_x_then_y"]) = 2 /\ Len(program["read_y_then_x"]) = 2
      BY <3>1, Zenon DEF Orders!Workers, Orders!SeqCstProgram, SeqCstThreads
    <3>3. QED
      BY <3>1, <3>2, Zenon DEF SeqCstThreads
  <2>2. \A t \in {"read_x_then_y", "read_y_then_x"} : at[t] > Len(program[t])
    BY <1>2, <2>1, Zenon DEF Orders!Joined
  <2>3. ASSUME NEW t \in {"read_x_then_y", "read_y_then_x"} PROVE at[t] = 3
    <3>1. at[t] \in 1 .. 3 /\ Len(program[t]) = 2 /\ at[t] > Len(program[t])
      BY <2>1, <2>2, Zenon
    <3>2. QED
      BY <3>1
  <2>4. QED
    BY <1>2, <2>3, Zenon DEF SeqCstInv, SeqCstOrder
<1>3. QED
  BY <1>1, <1>2, Zenon DEF OrdersInv, OrdersSuffice, Orders!CertainlyOne, Orders!NotBothMiss

\* The memory orders the programs choose are enough in every execution, and seq_cst.cc's
\* in every pass of its loop: the release store and the acquire load of acquire_release.cc
\* make its z certain to become 1, and the readers of seq_cst.cc do not both miss the
\* other's store.
THEOREM OrdersSufficeThm == AtomicsSpec => []OrdersSuffice
<1>1. AtomicsInit => OrdersInv
  BY OrdersInit, Zenon DEF AtomicsInit
<1>2. OrdersInv /\ [AtomicsNext]_<<executed, lockVars, orders>> => OrdersInv'
  BY OrdersStep, Zenon
<1>3. QED
  BY <1>1, <1>2, OrdersImply, PTL DEF AtomicsSpec

-----------------------------------------------------------------------------
(* The spin lock *)

USE SpinLockAssumption

\* The initial state of autoinc.cc satisfies the inductive invariant.
LEMMA LockInitInv == LockInit => LockInv
BY DEF LockInit, LockInv, LockTypeOK, Places, MutualExclusion, NoDataRace, InCritical

\* A thread that goes to a place takes no other along.
LEMMA Moved ==
    ASSUME point \in [Threads -> Places], NEW t \in Threads, NEW place \in Places, Goto(t, place)
    PROVE  /\ point' \in [Threads -> Places] /\ point'[t] = place
           /\ \A u \in Threads : u # t => point'[u] = point[u]
           /\ \A u \in Threads : u # t => (InCritical(u)' <=> InCritical(u))
           /\ InCritical(t)' <=> place \in {"load", "store", "unlock"}
<1>1. /\ point' \in [Threads -> Places] /\ point'[t] = place
      /\ \A u \in Threads : u # t => point'[u] = point[u]
  BY Zenon DEF Goto
<1>2. QED
  BY <1>1, Zenon DEF InCritical

\* A step that changes nothing but the place of a thread outside preserves the invariant.
LEMMA OutsideInv ==
    ASSUME LockInv, NEW t \in Threads, NEW place \in {"idle", "exchange", "try", "tryexchange"},
           Goto(t, place), ~InCritical(t), todo[t] > 0,
           UNCHANGED <<lock, lockView, writes, view, val, todo>>
    PROVE  LockInv'
<1>1. place \in Places /\ place \notin {"load", "store", "unlock"}
  BY Zenon DEF Places
<1>2. /\ point' \in [Threads -> Places] /\ point'[t] = place
      /\ \A u \in Threads : u # t => point'[u] = point[u]
      /\ \A u \in Threads : InCritical(u)' <=> InCritical(u)
  BY <1>1, Moved, Zenon DEF LockInv, LockTypeOK
<1>3. LockTypeOK'
  BY <1>2, Zenon DEF LockInv, LockTypeOK
<1>4. MutualExclusion' /\ NoDataRace' /\ (lock = 0 => lockView = Len(writes) /\ \A u \in Threads : ~InCritical(u))'
  BY <1>2, Zenon DEF LockInv, MutualExclusion, NoDataRace
<1>5. \A u \in Threads : point'[u] = "store" => val'[u] = writes'[Len(writes')]
  BY <1>1, <1>2, Zenon DEF LockInv
<1>6. \A u \in Threads : point'[u] # "idle" => todo'[u] > 0
  BY <1>2, Zenon DEF LockInv
<1>7. QED
  BY <1>3, <1>4, <1>5, <1>6, Zenon DEF LockInv

\* Starting an iteration of incrby preserves the invariant.
LEMMA IterateInv ==
    ASSUME LockInv, NEW t \in Threads, Iterate(t)
    PROVE  LockInv'
BY OutsideInv, Zenon DEF Iterate, InCritical

\* The exchange of spinlock_lock or spinlock_trylock preserves the invariant:
\* it lets a thread in only when nobody is in, and then with the newest view.
LEMMA ExchangeInv ==
    ASSUME LockInv, NEW t \in Threads,
           NEW otherwise \in {"spin", "idle"},
           point[t] \in {"exchange", "tryexchange"},
           Exchange(t, otherwise)
    PROVE  LockInv'
<1>1. /\ Len(writes) \in Nat
      /\ AcquiredView(t) \in 1 .. Len(writes)
      /\ lock = 0 => AcquiredView(t) = Len(writes)
  BY SMT, Z3 DEF LockInv, LockTypeOK, AcquiredView, Later
<1> DEFINE place == IF WasFree THEN "load" ELSE otherwise
<1>7. /\ place \in Places /\ (place \in {"load", "store", "unlock"} <=> lock = 0)
      /\ place # "store" /\ todo[t] > 0 /\ ~InCritical(t)
  BY Zenon DEF Places, WasFree, LockInv, InCritical
<1>8. Goto(t, place)
  BY Zenon DEF Exchange
<1> HIDE DEF place
<1>9. /\ point' \in [Threads -> Places] /\ point'[t] = place
      /\ \A u \in Threads : u # t => point'[u] = point[u]
      /\ \A u \in Threads : u # t => (InCritical(u)' <=> InCritical(u))
      /\ InCritical(t)' <=> lock = 0
  BY <1>7, <1>8, Moved, Zenon DEF LockInv, LockTypeOK
<1>2. LockTypeOK'
  BY <1>1, <1>9, Zenon DEF LockInv, LockTypeOK, Exchange
<1>3. \A u \in Threads : InCritical(u)' => (IF lock = 0 THEN u = t ELSE InCritical(u) /\ u # t)
  BY <1>9, Zenon DEF LockInv
<1>4. MutualExclusion'
  BY <1>3, Zenon DEF LockInv, MutualExclusion
<1>5. NoDataRace'
  BY <1>1, <1>3, Zenon DEF LockInv, LockTypeOK, NoDataRace, Exchange
<1>6. QED
  <2>1. \A u \in Threads : point'[u] = "store" => val'[u] = writes'[Len(writes')]
    BY <1>7, <1>9, Zenon DEF LockInv, Exchange
  <2>2. \A u \in Threads : point'[u] # "idle" => todo'[u] > 0
    BY <1>7, <1>9, Zenon DEF LockInv, Exchange
  <2>3. QED
    BY <1>2, <1>4, <1>5, <2>1, <2>2 DEF LockInv, Exchange

\* The relaxed loads of the waiting loop and of spinlock_trylock preserve it.
LEMMA LookInv ==
    ASSUME LockInv, NEW t \in Threads, Spin(t) \/ TryLoad(t)
    PROVE  LockInv'
<1>1. ~InCritical(t) /\ todo[t] > 0
  BY Zenon DEF LockInv, Spin, TryLoad, InCritical
<1>2. QED
  BY <1>1, OutsideInv, Zenon DEF Spin, TryLoad

\* The read of ++count preserves it: it can only see the newest write.
LEMMA LoadInv ==
    ASSUME LockInv, NEW t \in Threads, Load(t)
    PROVE  LockInv'
<1>1. /\ Len(writes) \in Nat
      /\ view[t] = Len(writes)
      /\ writes[Len(writes)] \in Nat
      /\ InCritical(t)
  BY DEF LockInv, LockTypeOK, Load, InCritical, NoDataRace
<1>2. PICK i \in view[t] .. Len(writes) :
          /\ val' = [val EXCEPT ![t] = writes[i]]
          /\ view' = [view EXCEPT ![t] = i]
  BY Zenon DEF Load
<1>3. i = Len(writes)
  BY <1>1, <1>2, SMT, Z3
<1>8. /\ Goto(t, "store") /\ "store" \in Places /\ todo[t] > 0 /\ lock # 0
      /\ UNCHANGED <<lock, lockView, writes, todo>>
  BY <1>1, Zenon DEF Load, Places, LockInv
<1>5. /\ point' \in [Threads -> Places] /\ point'[t] = "store"
      /\ \A u \in Threads : u # t => point'[u] = point[u]
      /\ \A u \in Threads : InCritical(u)' <=> InCritical(u)
  BY <1>1, <1>8, Moved, Zenon DEF LockInv, LockTypeOK
<1>9. /\ val' \in [Threads -> Nat] /\ val'[t] = writes[Len(writes)]
      /\ view' \in [Threads -> 1 .. Len(writes)] /\ view' = view
      /\ \A u \in Threads : u # t => val'[u] = val[u]
  BY <1>1, <1>2, <1>3, Zenon DEF LockInv, LockTypeOK
<1>4. LockTypeOK'
  BY <1>5, <1>8, <1>9, Zenon DEF LockInv, LockTypeOK
<1>6. MutualExclusion' /\ NoDataRace'
  BY <1>5, <1>8, <1>9, Zenon DEF LockInv, MutualExclusion, NoDataRace
<1>7. QED
  <2>1. \A u \in Threads : point'[u] = "store" => val'[u] = writes'[Len(writes')]
    BY <1>5, <1>8, <1>9, Zenon DEF LockInv
  <2>2. \A u \in Threads : point'[u] # "idle" => todo'[u] > 0
    BY <1>5, <1>8, Zenon DEF LockInv
  <2>3. QED
    BY <1>4, <1>6, <1>8, <2>1, <2>2, Zenon DEF LockInv

\* The write of ++count preserves it: the writer is the only thread inside.
LEMMA StoreInv ==
    ASSUME LockInv, NEW t \in Threads, Store(t)
    PROVE  LockInv'
<1>1. /\ InCritical(t) /\ lock # 0 /\ val[t] + 1 \in Nat
      /\ \A u \in Threads : InCritical(u) => u = t
  BY DEF LockInv, LockTypeOK, Store, InCritical, MutualExclusion
<1>2. /\ writes' \in Seq(Nat) /\ writes' # <<>>
      /\ Len(writes) \in Nat
      /\ Len(writes') = Len(writes) + 1
  <2>1. writes \in Seq(Nat) /\ writes' = Append(writes, val[t] + 1)
    BY Zenon DEF LockInv, LockTypeOK, Store
  <2>2. val[t] + 1 \in Nat
    BY <1>1, Zenon
  <2>3. QED
    BY <2>1, <2>2, AppendWrite
<1>8. Goto(t, "unlock") /\ "unlock" \in Places /\ todo[t] > 0 /\ UNCHANGED <<lock, lockView, todo>>
  BY Zenon DEF Store, Places, LockInv
<1>9. /\ point' \in [Threads -> Places] /\ point'[t] = "unlock"
      /\ \A u \in Threads : u # t => point'[u] = point[u]
      /\ \A u \in Threads : u # t => (InCritical(u)' <=> InCritical(u))
  BY <1>8, Moved, Zenon DEF LockInv, LockTypeOK
<1>3. LockTypeOK'
  <2>1. /\ view \in [Threads -> 1 .. Len(writes)] /\ lockView \in 1 .. Len(writes) /\ lock \in {0, 1}
        /\ val \in [Threads -> Nat] /\ todo \in [Threads -> Nat]
        /\ view' = [view EXCEPT ![t] = Len(writes) + 1] /\ val' = [val EXCEPT ![t] = 0]
    BY Zenon DEF LockInv, LockTypeOK, Store
  <2>2. Len(writes) + 1 \in 1 .. Len(writes) + 1 /\ 0 \in Nat
    BY <1>2
  <2>3. \A i \in 1 .. Len(writes) : i \in 1 .. Len(writes')
    BY <1>2
  <2>4. view' \in [Threads -> 1 .. Len(writes')] /\ val' \in [Threads -> Nat] /\ lockView \in 1 .. Len(writes')
    BY <1>2, <2>1, <2>2, <2>3, Zenon
  <2>5. QED
    BY <1>2, <1>8, <1>9, <2>1, <2>4, Zenon DEF LockTypeOK
<1>4. \A u \in Threads : InCritical(u)' => u = t
  BY <1>1, <1>9, Zenon
<1>5. MutualExclusion' /\ NoDataRace'
  <2>1. view'[t] = Len(writes')
    BY <1>2, Zenon DEF LockInv, LockTypeOK, Store
  <2>2. QED
    BY <1>4, <2>1, Zenon DEF MutualExclusion, NoDataRace
<1>6. \A u \in Threads : point'[u] # "store"
  BY <1>1, <1>9, Zenon DEF InCritical
<1>7. QED
  <2>1. \A u \in Threads : point'[u] # "idle" => todo'[u] > 0
    BY <1>8, <1>9, Zenon DEF LockInv
  <2>2. QED
    BY <1>1, <1>3, <1>5, <1>6, <1>8, <2>1, Zenon DEF LockInv

\* spinlock_unlock preserves it: it publishes the view of the thread that was
\* alone inside.
LEMMA UnlockInv ==
    ASSUME LockInv, NEW t \in Threads, Unlock(t)
    PROVE  LockInv'
<1>1. /\ InCritical(t)
      /\ view[t] = Len(writes)
      /\ \A u \in Threads : InCritical(u) => u = t
  BY Zenon DEF LockInv, Unlock, InCritical, MutualExclusion, NoDataRace
<1>0. todo[t] - 1 \in Nat
  <2>1. todo[t] \in Nat /\ todo[t] > 0
    BY Zenon DEF LockInv, LockTypeOK, Unlock
  <2>2. QED
    BY <2>1
<1>7. Goto(t, "idle") /\ "idle" \in Places
  BY Zenon DEF Unlock, Places
<1>8. /\ point' \in [Threads -> Places] /\ point'[t] = "idle"
      /\ \A u \in Threads : u # t => point'[u] = point[u]
      /\ \A u \in Threads : u # t => (InCritical(u)' <=> InCritical(u))
      /\ ~InCritical(t)'
  BY <1>7, Moved, Zenon DEF LockInv, LockTypeOK
<1>2. LockTypeOK'
  BY <1>0, <1>1, <1>8, Zenon DEF LockInv, LockTypeOK, Unlock, Unlocked, ReleasedView
<1>3. \A u \in Threads : ~ InCritical(u)'
  BY <1>1, <1>8, Zenon
<1>4. lockView' = Len(writes)'
  BY <1>1, Zenon DEF Unlock, ReleasedView
<1>5. MutualExclusion' /\ NoDataRace'
  BY <1>3, Zenon DEF MutualExclusion, NoDataRace
<1>6. \A u \in Threads : point'[u] # "idle" => todo'[u] > 0
  BY <1>8, Zenon DEF LockInv, LockTypeOK, Unlock
<1>9. \A u \in Threads : point'[u] # "store"
  BY <1>3, Zenon DEF InCritical
<1>10. QED
  BY <1>2, <1>3, <1>4, <1>5, <1>6, <1>9, Zenon DEF LockInv

\* Every step preserves the inductive invariant.
LEMMA LockNextInv == LockInv /\ [LockNext]_lockVars => LockInv'
<1> SUFFICES ASSUME LockInv, [LockNext]_lockVars PROVE LockInv'
  BY Zenon
<1>1. CASE UNCHANGED lockVars
  BY <1>1, Zenon DEF lockVars, LockInv, LockTypeOK, MutualExclusion, NoDataRace, InCritical
<1>2. CASE LockNext
  <2>1. PICK t \in Threads : Step(t)
    BY <1>2, Zenon DEF LockNext
  <2>2. CASE Iterate(t)
    BY <2>2, IterateInv, Zenon
  <2>3. CASE LockExchange(t)
    BY <2>3, ExchangeInv, Zenon DEF LockExchange
  <2>4. CASE Spin(t) \/ TryLoad(t)
    BY <2>4, LookInv, Zenon
  <2>5. CASE TryExchange(t)
    BY <2>5, ExchangeInv, Zenon DEF TryExchange
  <2>6. CASE Load(t)
    BY <2>6, LoadInv, Zenon
  <2>7. CASE Store(t)
    BY <2>7, StoreInv, Zenon
  <2>8. CASE Unlock(t)
    BY <2>8, UnlockInv, Zenon
  <2>9. QED
    BY <2>1, <2>2, <2>3, <2>4, <2>5, <2>6, <2>7, <2>8, Zenon DEF Step
<1>3. QED
  BY <1>1, <1>2, Zenon

\* The inductive invariant holds in every reachable state.
THEOREM LockInvThm == LockSpec => []LockInv
BY LockInitInv, LockNextInv, PTL DEF LockSpec

\* At most one thread is between spinlock_lock and spinlock_unlock.
THEOREM MutualExclusionThm == LockSpec => []MutualExclusion
<1>1. LockInv => MutualExclusion
  BY Zenon DEF LockInv
<1>2. QED
  BY <1>1, LockInvThm, PTL

\* The accesses of ++count race with nobody's: acquire and release suffice.
THEOREM NoDataRaceThm == LockSpec => []NoDataRace
<1>1. LockInv => NoDataRace
  BY Zenon DEF LockInv
<1>2. QED
  BY <1>1, LockInvThm, PTL
-----------------------------------------------------------------------------
(* Refinement *)

AbsCount == writes[Len(writes)]
AbsTodo == [t \in Threads |-> IF point[t] = "unlock" THEN todo[t] - 1 ELSE todo[t]]

\* Only the write of ++count is a step of the atomic counter.
LEMMA StepRefines ==
    ASSUME LockInv, NEW t \in Threads, Step(t)
    PROVE  \/ /\ AbsTodo[t] > 0
              /\ AbsCount' = AbsCount + 1
              /\ AbsTodo' = [AbsTodo EXCEPT ![t] = @ - 1]
           \/ UNCHANGED <<AbsCount, AbsTodo>>
<1>1. CASE Store(t)
  <2>1. /\ AbsTodo[t] = todo[t] /\ todo[t] > 0
        /\ val[t] = AbsCount /\ val[t] + 1 \in Nat
    BY <1>1, SMT, Z3 DEF LockInv, LockTypeOK, Store, AbsTodo, AbsCount
  <2>2. AbsCount' = AbsCount + 1
    BY <1>1, <2>1, AppendWrite DEF LockInv, LockTypeOK, Store, AbsCount
  <2>3. AbsTodo' = [AbsTodo EXCEPT ![t] = @ - 1]
    BY <1>1, <2>1, Zenon DEF LockInv, LockTypeOK, Store, Goto, AbsTodo
  <2>4. QED
    BY <2>1, <2>2, <2>3, Zenon
<1>2. CASE Unlock(t)
  <2>1. /\ point' = [point EXCEPT ![t] = "idle"] /\ point[t] = "unlock"
        /\ todo' = [todo EXCEPT ![t] = @ - 1] /\ writes' = writes
    BY <1>2, Zenon DEF Unlock, Goto
  <2>2. QED
    BY <2>1, Zenon DEF LockInv, LockTypeOK, AbsTodo, AbsCount
<1>3. ASSUME NEW place \in Places \ {"unlock"}, Goto(t, place), point[t] # "unlock",
             todo' = todo, writes' = writes
      PROVE  UNCHANGED <<AbsCount, AbsTodo>>
  BY <1>3, Zenon DEF LockInv, LockTypeOK, Goto, AbsTodo, AbsCount
<1>4. CASE Load(t)
  BY <1>3, <1>4, Zenon DEF Load, Places
<1>5. CASE LockExchange(t) \/ TryExchange(t)
  <2>1. PICK otherwise \in {"spin", "idle"} : Exchange(t, otherwise) /\ point[t] # "unlock"
    BY <1>5, Zenon DEF LockExchange, TryExchange
  <2>2. QED
    BY <1>3, <2>1, Zenon DEF Exchange, Places
<1>6. CASE Iterate(t) \/ Spin(t) \/ TryLoad(t)
  BY <1>3, <1>6, Zenon DEF Iterate, Spin, TryLoad, Places
<1>7. QED
  BY <1>1, <1>2, <1>4, <1>5, <1>6, Zenon DEF Step

\* autoinc.cc with the spin lock implements autoinc.cc with the atomic counter.
THEOREM ImplementsCounter == LockSpec => RefinesCounter
<1>1. LockInit => Counter!CounterInit
  BY DEF LockInit, Counter!CounterInit
<1>2. LockInv /\ [LockNext]_lockVars => [Counter!CounterNext]_(Counter!counterVars)
  <2> SUFFICES ASSUME LockInv, [LockNext]_lockVars
               PROVE  [Counter!CounterNext]_(Counter!counterVars)
    BY Zenon
  <2>1. CASE UNCHANGED lockVars
    BY <2>1, Zenon DEF lockVars, Counter!counterVars
  <2>2. CASE LockNext
    BY <2>2, StepRefines, Zenon
       DEF LockNext, AbsCount, AbsTodo, Counter!CounterNext, Counter!FetchAdd, Counter!counterVars
  <2>3. QED
    BY <2>1, <2>2, Zenon
<1>3. QED
  BY <1>1, <1>2, LockInvThm, PTL DEF LockSpec, RefinesCounter, Counter!CounterSpec
=============================================================================
