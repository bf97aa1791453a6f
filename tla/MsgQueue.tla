------------------------------- MODULE MsgQueue -------------------------------
(***************************************************************************)
(* Queue_Design/msgqueue.c: a bounded blocking queue made of two linked    *)
(* lists.  Putters append to the put list under put_mutex; getters take    *)
(* from the get list under get_mutex and, when it is empty, swap the two.  *)
(*                                                                         *)
(* Everything a critical section of put_mutex touches, apart from nonblock *)
(* (read once per loop test), is touched under put_mutex only or belongs   *)
(* to the holder of get_mutex, so a critical section up to its unlock or   *)
(* its pthread_cond_wait is one step and put_mutex itself is not a         *)
(* variable.  get_mutex stays: a getter waits for messages while holding   *)
(* it.                                                                     *)
(***************************************************************************)
EXTENDS Naturals, Sequences, Functions

CONSTANTS Putters, Getters, Controllers,  \* threads that put, get, and set the mode
          Msgs,                           \* the callers' message structs
          MsgMax,                         \* msg_max, the maxLen of msgqueue_create
          SizeMax,                        \* the largest size_t
          NULL

Heads == {"head1", "head2"}
Cells == Msgs \union Heads                \* every place that holds a link
Threads == Putters \union Getters \union Controllers

ASSUME MsgQueueAssumption ==
    /\ Msgs \intersect Heads = {}
    /\ NULL \notin Cells \union Threads
    /\ SizeMax \in Nat
    /\ MsgMax \in 0 .. SizeMax

VARIABLES
    link,                          \* the link in every message, and head1, head2
    get_head, put_head, put_tail,  \* pointers to links
    msg_cnt, nonblock,
    get_mutex,                     \* its holder, or NULL
    pc,                            \* what every thread is doing
    msg,                           \* the argument of every thread's msgqueue_put
    saved,                         \* get_head, the local of __msgqueue_swap
    ret,                           \* the last message msgqueue_get returned
    alive,                         \* FALSE once msgqueue_destroy has run
    getq, putq                     \* history: the messages of the two lists

listVars == <<link, get_head, put_head, put_tail, msg_cnt, getq, putq>>
vars == <<listVars, nonblock, get_mutex, pc, msg, saved, ret, alive>>

queue == getq \o putq

\* Messages the callers own and may put.
Free == Msgs \ (Range(queue) \union {msg[t] : t \in Threads})

\* msgqueue_create.
Init ==
    /\ link = [c \in Cells |-> NULL]
    /\ get_head = "head1"
    /\ put_head = "head2"
    /\ put_tail = "head2"
    /\ msg_cnt = 0
    /\ nonblock = 0
    /\ get_mutex = NULL
    /\ pc = [t \in Threads |-> "idle"]
    /\ msg = [t \in Threads |-> NULL]
    /\ saved = [t \in Threads |-> NULL]
    /\ ret = NULL
    /\ alive = TRUE
    /\ getq = <<>>
    /\ putq = <<>>
-----------------------------------------------------------------------------
(* Condition variables: a thread waits by its pc, and is woken to run its  *)
(* loop test again.                                                        *)

GetWaiters == {t \in Threads : pc[t] = "getwait"}
PutWaiters == {t \in Threads : pc[t] = "putwait"}

\* pcs after thread t moved to state s and the putters in woken were released.
PcWith(t, s, woken) ==
    [u \in Threads |-> IF u = t THEN s ELSE IF u \in woken THEN "put" ELSE pc[u]]

\* No signal: the mutation of SignalGet.
SignalForgotten(t, woken) == pc' = PcWith(t, "idle", woken)

\* pthread_cond_signal(&get_cond) by thread t, which is then idle: some waiting
\* getter, if there is one, runs again; woken putters as above.
SignalGet(t, woken) ==
    \/ /\ GetWaiters = {}
       /\ pc' = PcWith(t, "idle", woken)
    \/ \E g \in GetWaiters :
          pc' = [PcWith(t, "idle", woken) EXCEPT ![g] = "swap"]

\* pthread_cond_wait may return without a signal.
SpuriousWakeup(t) ==
    /\ \/ pc[t] = "getwait" /\ pc' = [pc EXCEPT ![t] = "swap"]
       \/ pc[t] = "putwait" /\ pc' = [pc EXCEPT ![t] = "put"]
    /\ UNCHANGED <<listVars, nonblock, get_mutex, msg, saved, ret, alive>>
-----------------------------------------------------------------------------
(* msgqueue_put *)

\* msg_max - 1 in size_t arithmetic: a maximum of 0 means no maximum.
Limit == IF MsgMax = 0 THEN SizeMax ELSE MsgMax - 1

Full == msg_cnt > Limit

\* `*link = NULL`.
ClearedLink(m) == [link EXCEPT ![m] = NULL]

PutClear(t, m) ==
    /\ alive
    /\ pc[t] = "idle"
    /\ link' = ClearedLink(m)
    /\ msg' = [msg EXCEPT ![t] = m]
    /\ pc' = [pc EXCEPT ![t] = "put"]
    /\ UNCHANGED <<get_head, put_head, put_tail, msg_cnt, getq, putq,
                   nonblock, get_mutex, saved, ret, alive>>

\* The loop test of msgqueue_put.
MustWait == Full /\ nonblock = 0

PutWait(t) ==
    /\ pc[t] = "put"
    /\ MustWait
    /\ pc' = [pc EXCEPT ![t] = "putwait"]
    /\ UNCHANGED <<listVars, nonblock, get_mutex, msg, saved, ret, alive>>

PutAppend(t) ==
    /\ pc[t] = "put"
    /\ ~ MustWait
    /\ link' = [link EXCEPT ![put_tail] = msg[t]]
    /\ put_tail' = msg[t]
    /\ msg_cnt' = msg_cnt + 1
    /\ putq' = Append(putq, msg[t])
    /\ msg' = [msg EXCEPT ![t] = NULL]
    /\ pc' = [pc EXCEPT ![t] = "signal"]
    /\ UNCHANGED <<get_head, put_head, getq, nonblock, get_mutex, saved, ret, alive>>

\* put_mutex is released before get_cond is signalled.
PutSignal(t) ==
    /\ pc[t] = "signal"
    /\ SignalGet(t, {})
    /\ UNCHANGED <<listVars, nonblock, get_mutex, msg, saved, ret, alive>>
-----------------------------------------------------------------------------
(* msgqueue_get *)

\* pthread_mutex_lock(&get_mutex) can return.
GetMutexFree == get_mutex = NULL

\* Lock get_mutex; the get list has a message.
GetLock(t) ==
    /\ alive
    /\ pc[t] = "idle"
    /\ GetMutexFree
    /\ link[get_head] # NULL
    /\ get_mutex' = t
    /\ pc' = [pc EXCEPT ![t] = "take"]
    /\ UNCHANGED <<listVars, nonblock, msg, saved, ret, alive>>

\* Lock get_mutex; the get list is empty: begin __msgqueue_swap.
GetLockSwap(t) ==
    /\ alive
    /\ pc[t] = "idle"
    /\ GetMutexFree
    /\ link[get_head] = NULL
    /\ get_mutex' = t
    /\ saved' = [saved EXCEPT ![t] = get_head]
    /\ get_head' = put_head
    /\ pc' = [pc EXCEPT ![t] = "swap"]
    /\ UNCHANGED <<link, put_head, put_tail, msg_cnt, getq, putq, nonblock, msg, ret, alive>>

\* The loop test of __msgqueue_swap.
NeverWaits == FALSE
NothingYet == msg_cnt = 0 /\ nonblock = 0

SwapWait(t) ==
    /\ pc[t] = "swap"
    /\ NothingYet
    /\ pc' = [pc EXCEPT ![t] = "getwait"]
    /\ UNCHANGED <<listVars, nonblock, get_mutex, msg, saved, ret, alive>>

\* The putters __msgqueue_swap wakes.
ReleasedNobody == {}
Released == IF Full THEN PutWaiters ELSE {}

\* Where appending continues after the swap.
PutTailReset(t) == saved[t]

\* The rest of the critical section of __msgqueue_swap.
Swap(t) ==
    /\ pc[t] = "swap"
    /\ ~ NothingYet
    /\ pc' = PcWith(t, IF msg_cnt > 0 THEN "take" ELSE "null", Released)
    /\ put_head' = saved[t]
    /\ put_tail' = PutTailReset(t)
    /\ msg_cnt' = 0
    /\ getq' = putq
    /\ putq' = <<>>
    /\ saved' = [saved EXCEPT ![t] = NULL]
    /\ UNCHANGED <<link, get_head, nonblock, get_mutex, msg, ret, alive>>

\* Unlink the first message of the get list, unlock get_mutex and return it.
LostRest == NULL
AfterFirst == link[link[get_head]]

GetTake(t) ==
    /\ pc[t] = "take"
    /\ ret' = link[get_head]
    /\ link' = [link EXCEPT ![get_head] = AfterFirst]
    /\ getq' = Tail(getq)
    /\ get_mutex' = NULL
    /\ pc' = [pc EXCEPT ![t] = "idle"]
    /\ UNCHANGED <<get_head, put_head, put_tail, msg_cnt, putq, nonblock, msg, saved, alive>>

\* Unlock get_mutex and return NULL.
GetNull(t) ==
    /\ pc[t] = "null"
    /\ get_mutex' = NULL
    /\ pc' = [pc EXCEPT ![t] = "idle"]
    /\ UNCHANGED <<listVars, nonblock, msg, saved, ret, alive>>
-----------------------------------------------------------------------------
(* Modes and destruction *)

\* The flag is stored before put_mutex is locked.
SetNonblock(t) ==
    /\ alive
    /\ pc[t] = "idle"
    /\ nonblock' = 1
    /\ pc' = [pc EXCEPT ![t] = "notify"]
    /\ UNCHANGED <<listVars, get_mutex, msg, saved, ret, alive>>

\* The putters msgqueue_set_nonblock wakes: all of them.
NotifiedNobody == {}
Notified == PutWaiters

SetNonblockNotify(t) ==
    /\ pc[t] = "notify"
    /\ SignalGet(t, Notified)
    /\ UNCHANGED <<listVars, nonblock, get_mutex, msg, saved, ret, alive>>

SetBlock(t) ==
    /\ alive
    /\ pc[t] = "idle"
    /\ nonblock' = 0
    /\ UNCHANGED <<listVars, get_mutex, pc, msg, saved, ret, alive>>

\* The owner destroys the queue when no thread is inside it; it does not free
\* messages.
Destroy ==
    /\ alive
    /\ \A t \in Threads : pc[t] = "idle"
    /\ alive' = FALSE
    /\ UNCHANGED <<listVars, nonblock, get_mutex, pc, msg, saved, ret>>
-----------------------------------------------------------------------------
Put(t) == PutWait(t) \/ PutAppend(t) \/ PutSignal(t)
Get(t) == SwapWait(t) \/ Swap(t) \/ GetTake(t) \/ GetNull(t)
CallGet(t) == GetLock(t) \/ GetLockSwap(t)
Control(t) == SetNonblock(t) \/ SetNonblockNotify(t) \/ SetBlock(t)

Next ==
    \/ \E t \in Putters : (\E m \in Free : PutClear(t, m)) \/ Put(t)
    \/ \E t \in Getters : CallGet(t) \/ Get(t)
    \/ \E t \in Controllers : Control(t)
    \/ \E t \in Threads : SpuriousWakeup(t)
    \/ Destroy

Spec == Init /\ [][Next]_vars

\* A thread inside the queue keeps running when it can.
Progress ==
    /\ \A t \in Putters : WF_vars(Put(t))
    /\ \A t \in Getters : WF_vars(Get(t))
    /\ \A t \in Controllers : WF_vars(SetNonblockNotify(t))

FairSpec == Spec /\ Progress

\* The getters, together, keep calling msgqueue_get: what the callers must do
\* for the queue to drain, and not a fairness of the queue.
GettersKeepCalling == WF_vars(\E t \in Getters : CallGet(t))
-----------------------------------------------------------------------------
(* Properties *)

Places == {"idle", "put", "putwait", "signal", "swap", "getwait", "take", "null", "notify"}

\* Every variable holds a value of its declared type.
TypeOK ==
    /\ link \in [Cells -> Msgs \union {NULL}]
    /\ get_head \in Heads /\ put_head \in Heads
    /\ put_tail \in Cells
    /\ msg_cnt \in Nat
    /\ nonblock \in {0, 1}
    /\ get_mutex \in Getters \union {NULL}
    /\ pc \in [Threads -> Places]
    /\ msg \in [Threads -> Msgs \union {NULL}]
    /\ saved \in [Threads -> Heads \union {NULL}]
    /\ ret \in Msgs \union {NULL}
    /\ alive \in BOOLEAN
    /\ getq \in Seq(Msgs)
    /\ putq \in Seq(Msgs)

\* Following links from h one meets the messages of s, and then NULL.
Path(h, s) ==
    /\ link[h] = IF s = <<>> THEN NULL ELSE s[1]
    /\ \A i \in 1 .. Len(s) : link[s[i]] = IF i = Len(s) THEN NULL ELSE s[i + 1]

Swapping(t) == pc[t] \in {"swap", "getwait"}

\* The thread in the body of msgqueue_get is the holder of get_mutex: getters
\* exclude each other even while one sleeps in __msgqueue_swap.
GetExclusion ==
    \A t \in Threads :
       pc[t] \in {"swap", "getwait", "take", "null"} <=> get_mutex = t

\* The pointers describe two disjoint lists: the put list hangs off put_head,
\* put_tail is its last link and msg_cnt its length; the get list hangs off
\* get_head, except during a swap, when get_head already points to the put list
\* and the list the getter saved is empty.
ListInv ==
    /\ Path(put_head, putq)
    /\ put_tail = IF putq = <<>> THEN put_head ELSE putq[Len(putq)]
    /\ msg_cnt = Len(putq)
    /\ IF get_mutex # NULL /\ Swapping(get_mutex)
       THEN /\ get_head = put_head
            /\ saved[get_mutex] \in Heads \ {put_head}
            /\ link[saved[get_mutex]] = NULL
            /\ getq = <<>>
       ELSE /\ get_head # put_head
            /\ Path(get_head, getq)
    /\ get_mutex # NULL /\ pc[get_mutex] = "take" => getq # <<>>
    /\ IsInjective(getq) /\ IsInjective(putq)
    /\ Range(getq) \intersect Range(putq) = {}

\* A message being put is in neither list, and in no other thread's hands.
PutterOwns ==
    \A t \in Threads :
       /\ pc[t] \in {"put", "putwait"} <=> msg[t] # NULL
       /\ msg[t] # NULL =>
             /\ msg[t] \notin Range(getq) \union Range(putq)
             /\ link[msg[t]] = NULL
             /\ \A u \in Threads : msg[u] = msg[t] => u = t

\* No wakeup is lost.  A getter asleep with messages in the put list has a
\* signal on its way, as has one asleep in nonblocking mode; a putter is asleep
\* only while the put list is full, and in nonblocking mode is about to be woken.
NoLostWakeup ==
    LET signal == \E u \in Threads : pc[u] = "signal"
        notify == \E u \in Threads : pc[u] = "notify"
    IN  \A t \in Threads :
           /\ pc[t] = "getwait" =>
                 /\ msg_cnt > 0 => signal \/ notify
                 /\ nonblock = 1 => notify \/ signal
           /\ pc[t] = "putwait" =>
                 /\ Full
                 /\ nonblock = 1 => notify

\* In every state of the queue its two lists are well formed, getters exclude each
\* other, putters own what they put, and no wakeup is lost.
Inv == TypeOK /\ GetExclusion /\ ListInv /\ PutterOwns /\ NoLostWakeup

\* msgqueue_get returns NULL only in nonblocking mode and only when, at the
\* swap, there was no message in either list.
HonestNull ==
    [][\A t \in Getters : Swap(t) /\ pc'[t] = "null" => nonblock = 1 /\ queue = <<>>]_vars

\* msgqueue_put and msgqueue_get are a FIFO queue: the append puts, the unlink
\* takes, and the swap is invisible.
Fifo == INSTANCE FifoQueue WITH Items <- Msgs, None <- NULL, q <- queue, out <- ret
RefinesFifo == Fifo!FifoSpec

\* Getters that keep calling msgqueue_get receive every message, and wake every
\* putter blocked on a full queue.
Delivered ==
    GettersKeepCalling =>
       /\ \A m \in Msgs : m \in Range(queue) ~> (m \notin Range(queue) \/ ~ alive)
       /\ \A t \in Putters : pc[t] = "putwait" ~> pc[t] # "putwait"

\* If the queue stays in nonblocking mode from some time on, every call
\* returns: msgqueue_set_nonblock reaches all threads that sleep, also when
\* nobody calls msgqueue_get any more.
NonblockReleases ==
    <>[](nonblock = 1) => \A t \in Threads : (pc[t] # "idle") ~> (pc[t] = "idle")

\* msgqueue.c: every message is received and every blocked call returns, by the getters
\* that keep calling or by the mode that stays nonblocking.
EveryCallReturns == Delivered /\ NonblockReleases
=============================================================================
