--------------------------- MODULE DeadlockDetector ---------------------------
(***************************************************************************)
(* Deadlock/deadlock.c: the hooks around pthread_mutex_lock and            *)
(* pthread_mutex_unlock that keep the table of held locks (locklist) and   *)
(* the wait-for graph (list), and the thread that searches the graph.      *)
(* Each hook, and each check, is one step.  The code does not lock         *)
(* tg->mutex around them, so this is the best case for the detector: what  *)
(* goes wrong here goes wrong without any data race in the hooks.          *)
(*                                                                         *)
(* A thread runs a routine like t1_cb .. t5_cb: lock one mutex, then a     *)
(* second one, unlock the second, then the first; Rounds[t] times.         *)
(***************************************************************************)
EXTENDS Integers, FiniteSets, FiniteSetsExt, SequencesExt

CONSTANTS Threads, Locks,
          First, Second,  \* of every thread: the mutexes of its routine
          Rounds,         \* of every thread: how often it runs
          Nobody          \* id and lock_id 0

ASSUME DetectorAssumption ==
    /\ First \in [Threads -> Locks] /\ Second \in [Threads -> Locks]
    /\ \A t \in Threads : First[t] # Second[t]
    /\ Rounds \in [Threads -> Nat]
    /\ Nobody \notin Threads \cup Locks

VARIABLES prompt,    \* no thread interrupts another between a hook and its call
          holder,    \* of every mutex: the thread that holds it, or Nobody
          pc, next,  \* of every thread: place, and the calls it has made
          locklist,  \* the table; fresh memory from malloc is zero
          lock_idx,  \* number of entries in use
          list,      \* the vertices, in the order they were added, and their edges
          deadlock   \* the flag of the last check

table == <<locklist, lock_idx>>
vars == <<prompt, holder, pc, next, table, list, deadlock>>

\* The slots that the calls can reach.
Slots == 1 .. 2 * MapThenSumSet(LAMBDA t : Rounds[t], Threads)

-----------------------------------------------------------------------------
(* The search for a cycle.  A graph g is a sequence of vertices; g[v].id is the thread
   of vertex v and g[v].next the sequence of the threads it has edges to.  A search s
   holds visited, k, the highest k so far (path has been written below it) and
   deadlock. *)

search_vertex(g, u) == CHOOSE v \in DOMAIN g : g[v].id = u

\* path[k++] = idx.
Push(s) == [s EXCEPT !.k = @ + 1, !.kmax = IF s.k + 1 > @ THEN s.k + 1 ELSE @]

\* k-- after a DFS.
Popped(s) == [s EXCEPT !.k = @ - 1]

\* DFS(idx), and its loop over the rest of an adjacency list.
RECURSIVE DFS(_, _, _), DFSAll(_, _, _)

DFS(g, idx, s) ==
    IF s.visited[idx]
    THEN [Push(s) EXCEPT !.deadlock = 1]
    ELSE DFSAll(g, g[idx].next, [Push(s) EXCEPT !.visited[idx] = TRUE])

DFSAll(g, todo, s) ==
    IF todo = <<>> THEN s
    ELSE DFSAll(g, Tail(todo), Popped(DFS(g, search_vertex(g, Head(todo)), s)))

\* search_for_cycle forgets what was visited, except idx, before every edge of idx.
VisitedOnly(g, idx) == [v \in DOMAIN g |-> v = idx]

RECURSIVE SearchEdges(_, _, _, _)

SearchEdges(g, idx, todo, s) ==
    IF todo = <<>> THEN s
    ELSE SearchEdges(g, idx, Tail(todo),
            DFS(g, search_vertex(g, Head(todo)), [s EXCEPT !.visited = VisitedOnly(g, idx), !.k = 1]))

search_first_edge(g, idx, s) ==
    SearchEdges(g, idx, IF g[idx].next = <<>> THEN <<>> ELSE <<Head(g[idx].next)>>, [s EXCEPT !.k = 1])
search_for_cycle(g, idx, s) ==
    SearchEdges(g, idx, g[idx].next, [s EXCEPT !.k = 1])

\* check_dead_lock from vertex i on: it stops at the first vertex that finds a cycle.
RECURSIVE CheckFrom(_, _, _)

CheckFrom(g, i, s) ==
    IF i > Len(g) \/ s.deadlock = 1 THEN s
    ELSE CheckFrom(g, i + 1, search_for_cycle(g, i, s))

check_dead_lock(g) ==
    CheckFrom(g, 1, [visited |-> [v \in DOMAIN g |-> FALSE], k |-> 0, kmax |-> 0, deadlock |-> 0])

\* The reference: some threads each of which has an edge to one of them.
HasCycle(g) ==
    \E C \in SUBSET DOMAIN g \ {{}} :
        \A v \in C : \E w \in C : \E j \in DOMAIN g[v].next : g[v].next[j] = g[w].id

-----------------------------------------------------------------------------
(* The hooks and the checking thread *)

Init ==
    /\ prompt \in BOOLEAN
    /\ holder = [l \in Locks |-> Nobody]
    /\ pc = [t \in Threads |-> "run"]
    /\ next = [t \in Threads |-> 0]
    /\ locklist = [i \in Slots |-> [id |-> Nobody, lock_id |-> Nobody, degree |-> 0]]
    /\ lock_idx = 0
    /\ list = <<>>
    /\ deadlock = 0

\* The calls of the routine.
Mutex(t) == IF next[t] % 4 \in {0, 3} THEN First[t] ELSE Second[t]
LocksNext(t) == next[t] < 4 * Rounds[t] /\ next[t] % 4 \in {0, 1}
UnlocksNext(t) == next[t] < 4 * Rounds[t] /\ next[t] % 4 \in {2, 3}

\* When threads are prompt, t runs only if no other is between a hook and its call.
MayRun(t) == prompt => \A u \in Threads \ {t} : pc[u] \in {"run", "blocked"}
-----------------------------------------------------------------------------
(* The graph *)

Vertex(g, u) == {v \in DOMAIN g : g[v].id = u}

add_vertex(g, u) == IF Vertex(g, u) = {} THEN Append(g, [id |-> u, next |-> <<>>]) ELSE g

Both(g, t, u) == add_vertex(add_vertex(g, t), u)

\* The walk of verify_edge starts at the vertex itself, so a thread always has an
\* edge to itself, and none is ever added.
verify_edge(g, t, u) == \E v \in Vertex(g, t) : g[v].id = u \/ Contains(g[v].next, u)

add_edge(g, t, u) ==
    [v \in DOMAIN g |-> IF g[v].id = t THEN [g[v] EXCEPT !.next = Append(@, u)] ELSE g[v]]

remove_no_edge(g, t, u) == g
remove_edge(g, t, u) ==
    [v \in DOMAIN g |-> IF g[v].id = t THEN [g[v] EXCEPT !.next = RemoveFirst(@, u)] ELSE g[v]]
-----------------------------------------------------------------------------
(* The hooks *)

\* search_lock: the slots, at most one, that hold lock l.
Entries(l) == {i \in 1 .. lock_idx : locklist[i].lock_id = l}

\* search_empty_lock.
EmptySlot == Min({i \in 1 .. lock_idx : locklist[i].lock_id = Nobody} \cup {lock_idx + 1})

\* lock_before: nothing, unless the table has the lock.
WaitFor(t, i) ==
    LET u == locklist[i].id
        g == Both(list, t, u)
    IN  /\ locklist' = [locklist EXCEPT ![i].degree = @ + 1]
        /\ list' = IF verify_edge(g, t, u) THEN g ELSE add_edge(g, t, u)

LockBefore(t) ==
    /\ pc[t] = "run" /\ LocksNext(t) /\ MayRun(t)
    /\ pc' = [pc EXCEPT ![t] = "lock"]
    /\ \/ Entries(Mutex(t)) = {} /\ UNCHANGED <<locklist, list>>
       \/ \E i \in Entries(Mutex(t)) : WaitFor(t, i)
    /\ UNCHANGED <<prompt, holder, next, lock_idx, deadlock>>

\* pthread_mutex_lock_f.
Block(t) ==
    /\ pc[t] = "lock" /\ MayRun(t)
    /\ holder[Mutex(t)] # Nobody
    /\ pc' = [pc EXCEPT ![t] = "blocked"]
    /\ UNCHANGED <<prompt, holder, next, table, list, deadlock>>

Acquire(t) ==
    /\ pc[t] \in {"lock", "blocked"} /\ MayRun(t)
    /\ holder[Mutex(t)] = Nobody
    /\ holder' = [holder EXCEPT ![Mutex(t)] = t]
    /\ pc' = [pc EXCEPT ![t] = "locked"]
    /\ UNCHANGED <<prompt, next, table, list, deadlock>>

\* lock_after, for a lock that is not in the table and for one that is.
Enter(t) ==
    /\ Entries(Mutex(t)) = {}
    /\ locklist' = [locklist EXCEPT ![EmptySlot].id = t, ![EmptySlot].lock_id = Mutex(t)]
    /\ lock_idx' = lock_idx + 1
    /\ UNCHANGED list

TakeOver(t) ==
    \E i \in Entries(Mutex(t)) :
        LET u == locklist[i].id
            g == Both(list, t, u)
        IN  /\ locklist' = [locklist EXCEPT ![i].id = t, ![i].degree = @ - 1]
            /\ list' = IF verify_edge(g, t, u) THEN remove_edge(g, t, u) ELSE g
            /\ UNCHANGED lock_idx

LockAfter(t) ==
    /\ pc[t] = "locked" /\ MayRun(t)
    /\ Enter(t) \/ TakeOver(t)
    /\ pc' = [pc EXCEPT ![t] = "run"]
    /\ next' = [next EXCEPT ![t] = @ + 1]
    /\ UNCHANGED <<prompt, holder, deadlock>>

\* pthread_mutex_unlock_f.
Unlock(t) ==
    /\ pc[t] = "run" /\ UnlocksNext(t) /\ MayRun(t)
    /\ holder' = [holder EXCEPT ![Mutex(t)] = Nobody]
    /\ pc' = [pc EXCEPT ![t] = "unlocked"]
    /\ UNCHANGED <<prompt, next, table, list, deadlock>>

\* unlock_after.  Without an entry it looks at locklist[-1], whose degree is num:
\* there is a vertex by then or nothing it clears is in use, so nothing happens.
Cleared(entry) == [entry EXCEPT !.id = Nobody, !.lock_id = Nobody]

UnlockAfter(t) ==
    /\ pc[t] = "unlocked" /\ MayRun(t)
    /\ locklist' = [i \in Slots |->
          IF i \in Entries(Mutex(t)) /\ locklist[i].degree = 0
          THEN Cleared(locklist[i])
          ELSE locklist[i]]
    /\ pc' = [pc EXCEPT ![t] = "run"]
    /\ next' = [next EXCEPT ![t] = @ + 1]
    /\ UNCHANGED <<prompt, holder, lock_idx, list, deadlock>>

\* thread_routine, once a second.
Checked == check_dead_lock(list)

CheckDeadLock ==
    /\ deadlock' = Checked.deadlock
    /\ UNCHANGED <<prompt, holder, pc, next, table, list>>

Hooked(t) ==
    \/ LockBefore(t)
    \/ Block(t)
    \/ Acquire(t)
    \/ LockAfter(t)
    \/ Unlock(t)
    \/ UnlockAfter(t)

Next == CheckDeadLock \/ \E t \in Threads : Hooked(t)

Spec == Init /\ [][Next]_vars
-----------------------------------------------------------------------------
(* Properties *)

\* Every variable holds a value of its declared type.
TypeOK ==
    /\ prompt \in BOOLEAN
    /\ holder \in [Locks -> Threads \cup {Nobody}]
    /\ pc \in [Threads -> {"run", "lock", "blocked", "locked", "unlocked"}]
    /\ \A t \in Threads : next[t] \in 0 .. 4 * Rounds[t]
    /\ locklist \in [Slots -> [id : Threads \cup {Nobody}, lock_id : Locks \cup {Nobody}, degree : Int]]
    /\ lock_idx \in {0} \cup Slots
    /\ list \in Seq([id : Threads, next : Seq(Threads)])
    /\ deadlock \in {0, 1}

\* No mutex has two entries in the table, however the threads interrupt each
\* other's hooks: the first entry search_lock finds is the only one.
OneEntryPerMutex ==
    \A i, j \in Slots : locklist[i].lock_id = locklist[j].lock_id /\ i # j => locklist[i].lock_id = Nobody

\* An edge represents a thread that is waiting: the vertex of a thread that is
\* not inside pthread_mutex_lock has none.
EdgeMeansWaiting ==
    \A v \in DOMAIN list :
        list[v].next # <<>> => pc[list[v].id] \in {"lock", "blocked", "locked"}

\* The threads of S wait for each other's mutexes.
Deadlocked(S) == \A t \in S : pc[t] \in {"lock", "blocked"} /\ holder[Mutex(t)] \in S

SomeDeadlock == \E S \in SUBSET Threads \ {{}} : Deadlocked(S)

\* The table never has two entries for a mutex; and if threads are prompt, edges
\* represent waiting threads, and check_dead_lock reports a deadlock exactly when
\* there is one.  (When a thread is interrupted after it got the mutex and before
\* lock_after has entered it, the other looks the mutex up in vain and then waits
\* for it without an edge, and the deadlock is never reported.)
ReportsDeadlocks ==
    /\ TypeOK /\ OneEntryPerMutex
    /\ prompt => EdgeMeansWaiting /\ (Checked.deadlock = 1 <=> SomeDeadlock)

\* src/README.md, Deadlock Detection: following the threads' use of resources in a
\* graph detects deadlocks, those of threads that interrupt each other included.
DeadlocksDetected == SomeDeadlock => Checked.deadlock = 1

\* check_dead_lock says "no deadlock" only of a graph without a cycle; where no
\* vertex has more than one edge, as when each thread waits for one mutex, it also
\* reports cycles only (with two edges it also reports a vertex reached along two
\* paths); and it stays within path, one longer than the list of vertices.
SearchFindsCycles ==
    /\ Checked.deadlock = 0 => ~ HasCycle(list)
    /\ Checked.deadlock = 1 /\ (\A v \in DOMAIN list : Len(list[v].next) <= 1) => HasCycle(list)
    /\ Checked.kmax <= Len(list) + 1
=============================================================================
