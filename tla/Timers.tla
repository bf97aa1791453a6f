-------------------------------- MODULE Timers --------------------------------
(***************************************************************************)
(* Timers/timers.cc and Timers/timer_with_timerfd.cc: a set of timers      *)
(* ordered by (expire, id), and a loop that sleeps until the first of them *)
(* is due and runs the callbacks of those that are.  The programs differ   *)
(* in the sleep: epoll_wait with a timeout, or without one on a timerfd    *)
(* that is registered edge triggered and never read.  Time is in ticks of  *)
(* GetTick; it passes between any two steps.                               *)
(***************************************************************************)
EXTENDS Integers

CONSTANTS Delays,       \* the arguments of AddTimer
          MaxTimers,    \* bound on the calls of AddTimer
          MaxClock,     \* no timer expires later; the clock stops at twice that
          IntMax        \* the largest int

End == [expire |-> -1, id |-> -1]   \* timeouts.end()
Never == -1

VARIABLES timerfd,   \* which of the two programs runs: the one with the timerfd, or timers.cc
          clock, timeouts, tid,
          pc,        \* "main", "sleep", "epoll", "wait", "handle", "callback", "undefined"
          it, now,   \* HandleTimer
          asked,     \* when TimeToSleep read the clock
          timeout,   \* what it returned, as the int epoll_wait takes
          until,     \* when epoll_wait gives up
          armed, ticks, ready,  \* the timerfd: its time, its counter, its epoll edge
          fired,     \* history: of every id that fired, the times
          deleted    \* history: the ids DelTimer has removed

fdVars == <<armed, ticks, ready>>
sleepVars == <<asked, timeout, until>>
vars == <<timerfd, clock, timeouts, tid, pc, it, now, sleepVars, fdVars, fired, deleted>>

Init ==
    /\ timerfd \in BOOLEAN
    /\ clock = 1     \* the machine has been up for a while
    /\ timeouts = {}
    /\ tid = 0
    /\ pc = "main"
    /\ it = End /\ now = 0
    /\ asked = 0 /\ timeout = 0 /\ until = Never
    /\ armed = 0 /\ ticks = 0 /\ ready = FALSE
    /\ fired = [i \in 0 .. MaxTimers - 1 |-> {}]
    /\ deleted = {}

\* operator <.
ByExpireOnly(a, b) == a.expire < b.expire
Before(a, b) == a.expire < b.expire \/ (a.expire = b.expire /\ a.id < b.id)

Same(a, b) == ~Before(a, b) /\ ~Before(b, a)

begin(S) == IF S = {} THEN End ELSE CHOOSE a \in S : \A b \in S : ~Before(b, a)

\* emplace leaves out what is the same as an element.
emplace(S, n) == IF \E a \in S : Same(a, n) THEN S ELSE S \cup {n}

\* User code runs before the loop and in callbacks.
InUserCode == pc \in {"main", "callback"}

AddTimer(msec) ==
    /\ InUserCode
    /\ tid < MaxTimers
    /\ clock + msec <= MaxClock
    /\ timeouts' = emplace(timeouts, [expire |-> clock + msec, id |-> tid])
    /\ tid' = tid + 1
    /\ UNCHANGED <<timerfd, clock, pc, it, now, sleepVars, fdVars, fired, deleted>>

\* A callback may delete its own timer too.
DelTimer(n) ==
    /\ InUserCode
    /\ n \in timeouts
    /\ timeouts' = timeouts \ {n}
    /\ deleted' = deleted \cup {n.id}
    /\ UNCHANGED <<timerfd, clock, tid, pc, it, now, sleepVars, fdVars, fired>>

\* Main has added its timers.
StartLoop ==
    /\ pc = "main"
    /\ pc' = "sleep"
    /\ UNCHANGED <<timerfd, clock, timeouts, tid, it, now, sleepVars, fdVars, fired, deleted>>

-----------------------------------------------------------------------------
(* The sleep of timers.cc *)

UntilLast ==
    IF timeouts = {} THEN -1
    ELSE LET last == CHOOSE a \in timeouts : \A b \in timeouts : ~Before(a, b)
             t == last.expire - clock
         IN  IF t > 0 THEN t ELSE 0
TimeToSleep ==
    IF timeouts = {} THEN -1
    ELSE LET t == begin(timeouts).expire - clock IN IF t > 0 THEN t ELSE 0

\* The conversion of a time_t to the int of epoll_wait.
ToInt(t) ==
    LET width == 2 * (IntMax + 1)
        low == t % width
    IN  IF low > IntMax THEN low - width ELSE low

AskTimeout ==
    /\ ~timerfd /\ pc = "sleep"
    /\ timeout' = ToInt(TimeToSleep)
    /\ asked' = clock
    /\ pc' = "epoll"
    /\ UNCHANGED <<timerfd, clock, timeouts, tid, it, now, until, fdVars, fired, deleted>>

\* A negative timeout blocks without end.
EpollWait ==
    /\ pc = "epoll"
    /\ until' = IF timeout < 0 THEN Never ELSE clock + timeout
    /\ pc' = "wait"
    /\ UNCHANGED <<timerfd, clock, timeouts, tid, it, now, asked, timeout, fdVars, fired, deleted>>

-----------------------------------------------------------------------------
(* The sleep of timer_with_timerfd.cc *)

\* timerfd_settime resets the counter; the time 0 disarms; a time that has passed
\* expires at once.
OnlyFuture == IF timeouts = {} \/ begin(timeouts).expire <= clock THEN 0 ELSE begin(timeouts).expire
FirstExpire == IF timeouts = {} THEN 0 ELSE begin(timeouts).expire

UpdateTimerfd ==
    /\ timerfd /\ pc = "sleep"
    /\ LET due == FirstExpire # 0 /\ FirstExpire <= clock
       IN  /\ armed' = IF due THEN 0 ELSE FirstExpire
           /\ ticks' = IF due THEN 1 ELSE 0
           /\ ready' = (ready \/ due)
    /\ timeout' = -1
    /\ asked' = clock
    /\ pc' = "epoll"
    /\ UNCHANGED <<timerfd, clock, timeouts, tid, it, now, until, fired, deleted>>

-----------------------------------------------------------------------------
\* The bound on the clock leaves every sleep the time to end.
LastTick == IF pc = "epoll" THEN MaxClock ELSE 2 * MaxClock

\* The clock moves; a timerfd whose time has come counts it and raises an edge.
Tick ==
    /\ clock < LastTick
    /\ clock' = clock + 1
    /\ IF armed # 0 /\ armed <= clock + 1
       THEN armed' = 0 /\ ticks' = 1 /\ ready' = TRUE
       ELSE UNCHANGED fdVars
    /\ UNCHANGED <<timerfd, timeouts, tid, pc, it, now, sleepVars, fired, deleted>>

\* epoll_wait returns: its timeout is over, or the edge is there and the descriptor
\* readable.  An edge whose counter was reset is dropped on the way.
Woken == (until # Never /\ until <= clock) \/ (ready /\ ticks > 0)

NowTooFar == clock + 1
GetTick == clock

Wake ==
    /\ pc = "wait"
    /\ Woken
    /\ ready' = FALSE
    /\ now' = GetTick
    /\ it' = begin(timeouts)
    /\ pc' = "handle"
    /\ until' = Never /\ asked' = 0 /\ timeout' = 0
    /\ UNCHANGED <<timerfd, clock, timeouts, tid, armed, ticks, fired, deleted>>

\* The loop of HandleTimer.
Due == it # End /\ it.expire <= now

Fire ==
    /\ pc = "handle"
    /\ Due
    /\ fired' = [fired EXCEPT ![it.id] = @ \cup {clock}]
    /\ pc' = "callback"
    /\ UNCHANGED <<timerfd, clock, timeouts, tid, it, now, sleepVars, fdVars, deleted>>

\* it = timeouts.erase(it).
CallbackReturns ==
    /\ pc = "callback"
    /\ it \in timeouts
    /\ timeouts' = timeouts \ {it}
    /\ it' = begin({a \in timeouts : Before(it, a)})
    /\ pc' = "handle"
    /\ UNCHANGED <<timerfd, clock, tid, now, sleepVars, fdVars, fired, deleted>>

\* If the callback has deleted its own timer, erase gets an iterator to a freed node: from
\* there on the program may do anything, and nothing is said of it.
EraseFreed ==
    /\ pc = "callback"
    /\ it \notin timeouts
    /\ pc' = "undefined"
    /\ UNCHANGED <<timerfd, clock, timeouts, tid, it, now, sleepVars, fdVars, fired, deleted>>

HandleReturns ==
    /\ pc = "handle"
    /\ ~Due
    /\ pc' = "sleep"
    /\ it' = End /\ now' = 0
    /\ UNCHANGED <<timerfd, clock, timeouts, tid, sleepVars, fdVars, fired, deleted>>

Loop ==
    \/ StartLoop \/ AskTimeout \/ EpollWait \/ UpdateTimerfd
    \/ Wake \/ Fire \/ CallbackReturns \/ EraseFreed \/ HandleReturns

User == (\E d \in Delays : AddTimer(d)) \/ \E n \in timeouts : DelTimer(n)

Next == Loop \/ User \/ Tick

Spec == Init /\ [][Next]_vars

\* The thread keeps running and time passes.
FairSpec == Spec /\ WF_vars(Loop) /\ WF_vars(Tick)

-----------------------------------------------------------------------------
Ids == 0 .. MaxTimers - 1
Nodes == [expire : 0 .. MaxClock, id : Ids]

\* Every variable keeps its type.
TypeOK ==
    /\ timerfd \in BOOLEAN
    /\ {clock, now, asked} \subseteq 0 .. 2 * MaxClock
    /\ timeouts \subseteq Nodes /\ tid \in 0 .. MaxTimers
    /\ pc \in {"main", "sleep", "epoll", "wait", "handle", "callback", "undefined"}
    /\ it \in Nodes \cup {End}
    /\ timeout \in -IntMax - 1 .. IntMax
    /\ until \in -1 .. 2 * MaxClock
    /\ armed \in 0 .. MaxClock /\ ticks \in {0, 1} /\ ready \in BOOLEAN
    /\ fired \in [Ids -> SUBSET (0 .. 2 * MaxClock)]
    /\ deleted \subseteq Ids

\* Every AddTimer becomes a timer of its own that fires at most once, and not at
\* all after DelTimer: an id is pending, fired or deleted, and one of them only, but
\* for the timer that its own callback deletes.
Pending == {n.id : n \in timeouts \ (IF pc = "callback" THEN {it} ELSE {})}
OnceOrDeleted ==
    /\ TypeOK
    /\ \A i \in 0 .. tid - 1 :
          \/ i \in Pending /\ fired[i] = {} /\ i \notin deleted
          \/ i \notin Pending /\ i \in deleted /\ fired[i] = {}
          \/ /\ i \notin Pending /\ fired[i] # {}
             /\ i \in deleted => pc \in {"callback", "undefined"} /\ i = it.id
    /\ \A i \in Ids : \A s, t \in fired[i] : s = t

\* A callback runs when its time has come, and before those of all later timers,
\* also when callbacks add and delete timers meanwhile.
FiresFirstAndNotEarly ==
    [][Fire => /\ it.expire <= clock
               /\ \A n \in timeouts \ {it} : Before(it, n)]_vars

\* The loop never sleeps past its first timer: an end of the sleep is set, no later
\* than that timer's time or, if it was already due, the moment the loop looked, but
\* for the time between looking and sleeping.  Only if that timer is further away than
\* an int can tell may timers.cc sleep without an end.
Latest(a, b) == IF a >= b THEN a ELSE b
SleepCoversFirst ==
    pc = "wait" /\ timeouts # {} =>
        LET first == Latest(begin(timeouts).expire, asked)
        IN  IF timerfd THEN (ready /\ ticks > 0) \/ (armed # 0 /\ armed <= first)
            ELSE IF until = Never THEN first - asked > IntMax
                                  ELSE asked + timeout <= first

\* The loop has ended: it erased a freed node, or it sleeps without an end because of
\* a timer that is too far away.
Stuck == pc = "undefined" \/ (pc = "wait" /\ ~timerfd /\ until = Never /\ timeouts # {})

\* Every timer fires or is deleted, as long as the loop goes on.
AllFire == \A i \in Ids : (i \in Pending) ~> (i \notin Pending \/ Stuck)
=============================================================================
