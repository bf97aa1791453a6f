----------------------------- MODULE MemoryProofs -----------------------------
(***************************************************************************)
(* The pools and the leak detectors of Memory for every value of their     *)
(* constants.                                                              *)
(***************************************************************************)
EXTENDS Memory, TLAPS

USE MemoryAssumption

-----------------------------------------------------------------------------
(* memleak.c *)

LeakInv == Leak!TypeOK /\ Leak!FilesTellLeaks /\ Leak!NoDoubleFree

\* The calls between their two steps.
Busy(t) == pc[t] \in {"create", "free"}

\* A thread that enters a call on a adds a to the blocks in flight, one that leaves
\* takes its block from them.
LEMMA InFlightAfter ==
    ASSUME Leak!TypeOK, Leak!FilesTellLeaks, NEW t \in LeakThreads,
           \A u \in LeakThreads \ {t} : pc'[u] = pc[u] /\ p'[u] = p[u]
    PROVE  /\ ~Busy(t) /\ ~Busy(t)' => Leak!InFlight' = Leak!InFlight
           /\ ~Busy(t) /\ Busy(t)' => Leak!InFlight' = Leak!InFlight \cup ({p'[t]} \ {None})
           /\ Busy(t) /\ ~Busy(t)' => Leak!InFlight' = Leak!InFlight \ {p[t]}
<1>1. /\ \A a : a \in Leak!InFlight <=> a # None /\ \E u \in LeakThreads : Busy(u) /\ p[u] = a
      /\ \A a : a \in Leak!InFlight' <=> a # None /\ \E u \in LeakThreads : Busy(u)' /\ p'[u] = a
  BY Zenon DEF Leak!InFlight, Busy
<1>2. \A u \in LeakThreads \ {t} : Busy(u)' <=> Busy(u)
  BY Zenon DEF Busy
<1>3. \A u \in LeakThreads \ {t} : Busy(t) /\ Busy(u) /\ p[t] # None => p[t] # p[u]
  BY Zenon DEF Leak!FilesTellLeaks, Busy
<1> HIDE DEF Busy
<1>4. ASSUME ~Busy(t), ~Busy(t)' PROVE Leak!InFlight' = Leak!InFlight
  BY <1>1, <1>2, <1>4
<1>5. ASSUME ~Busy(t), Busy(t)' PROVE Leak!InFlight' = Leak!InFlight \cup ({p'[t]} \ {None})
  BY <1>1, <1>2, <1>5
<1>6. ASSUME Busy(t), ~Busy(t)' PROVE Leak!InFlight' = Leak!InFlight \ {p[t]}
  BY <1>1, <1>2, <1>3, <1>6
<1>7. QED
  BY <1>4, <1>5, <1>6, Zenon

\* What the invariant says of threads, for the threads a step leaves alone.
LEMMA LeakDistinct ==
    ASSUME Leak!TypeOK, Leak!FilesTellLeaks, NEW t \in LeakThreads,
           \A u \in LeakThreads \ {t} : pc'[u] = pc[u] /\ p'[u] = p[u],
           Busy(t)' => p'[t] \notin Leak!InFlight
    PROVE  \A v, u \in LeakThreads :
              v # u /\ {pc'[v], pc'[u]} \subseteq {"create", "free"} /\ p'[v] # None => p'[v] # p'[u]
<1>1. \A u \in LeakThreads : Busy(u) /\ p[u] # None => p[u] \in Leak!InFlight
  BY Zenon DEF Leak!InFlight, Busy
<1>2. \A v, u \in LeakThreads : v # u /\ Busy(v) /\ Busy(u) /\ p[v] # None => p[v] # p[u]
  BY Zenon DEF Leak!FilesTellLeaks, Busy
<1>3. \A u \in LeakThreads \ {t} : Busy(u)' <=> Busy(u)
  BY Zenon DEF Busy
<1> SUFFICES ASSUME NEW v \in LeakThreads, NEW u \in LeakThreads, v # u, Busy(v)', Busy(u)', p'[v] # None
             PROVE  p'[v] # p'[u]
  BY Zenon DEF Busy
<1> HIDE DEF Busy
<1>4. QED
  BY <1>1, <1>2, <1>3, Zenon

\* Every step of nMalloc and nFree preserves the invariant.
LEMMA LeakStep == LeakInv /\ [Leak!Next]_leak => LeakInv'
<1> SUFFICES ASSUME LeakInv, [Leak!Next]_leak PROVE LeakInv'
  BY Zenon
<1>1. CASE UNCHANGED leak
  BY <1>1 DEF leak, LeakInv, Leak!TypeOK, Leak!FilesTellLeaks, Leak!InFlight, Leak!NoDoubleFree
<1>2. ASSUME NEW t \in LeakThreads, NEW a \in Addr \cup {None}, Leak!MallocHeap(t, a) PROVE LeakInv'
  <2>1. Leak!TypeOK'
    BY <1>2, Zenon DEF LeakInv, Leak!TypeOK, Leak!MallocHeap, Leak!Goto
  <2>2. /\ pc[t] = "idle" /\ pc'[t] = "create" /\ p'[t] = a /\ a \notin heap
        /\ heap' = heap \cup ({a} \ {None}) /\ files' = files /\ badFree' = badFree
        /\ \A u \in LeakThreads \ {t} : pc'[u] = pc[u] /\ p'[u] = p[u]
    BY <1>2, Zenon DEF LeakInv, Leak!TypeOK, Leak!MallocHeap, Leak!Goto
  <2>3. Leak!InFlight' = Leak!InFlight \cup ({a} \ {None}) /\ a \notin Leak!InFlight
    BY <2>2, InFlightAfter, Zenon DEF Busy, LeakInv, Leak!FilesTellLeaks
  <2>4. Leak!FilesTellLeaks'
    BY <2>2, <2>3, LeakDistinct, Zenon DEF LeakInv, Leak!FilesTellLeaks
  <2>5. QED
    BY <2>1, <2>2, <2>4, Zenon DEF LeakInv, Leak!NoDoubleFree
<1>3. ASSUME NEW t \in LeakThreads, NEW a \in Addr \cup {None}, Leak!CallFree(t, a) PROVE LeakInv'
  <2>1. Leak!TypeOK'
    BY <1>3, Zenon DEF LeakInv, Leak!TypeOK, Leak!CallFree, Leak!Goto
  <2>2. /\ pc[t] = "idle" /\ pc'[t] = "unlink" /\ UNCHANGED <<heap, files, badFree>>
        /\ \A u \in LeakThreads \ {t} : pc'[u] = pc[u] /\ p'[u] = p[u]
    BY <1>3, Zenon DEF LeakInv, Leak!TypeOK, Leak!CallFree, Leak!Goto
  <2>3. Leak!InFlight' = Leak!InFlight
    BY <2>2, InFlightAfter, Zenon DEF Busy, LeakInv
  <2>4. Leak!FilesTellLeaks'
    BY <2>2, <2>3, LeakDistinct, Zenon DEF LeakInv, Leak!FilesTellLeaks, Busy
  <2>5. QED
    BY <2>1, <2>2, <2>4, Zenon DEF LeakInv, Leak!NoDoubleFree
<1>4. ASSUME NEW t \in LeakThreads, Leak!MallocFile(t) PROVE LeakInv'
  <2>1. /\ pc[t] = "create" /\ pc'[t] = "idle" /\ files' = files \cup {p[t]}
        /\ UNCHANGED <<heap, badFree>>
        /\ \A u \in LeakThreads \ {t} : pc'[u] = pc[u] /\ p'[u] = p[u]
    BY <1>4, Zenon DEF LeakInv, Leak!TypeOK, Leak!MallocFile, Leak!Goto, Leak!Idle
  <2>2. /\ p[t] \in Addr \cup {None} /\ None \notin Leak!InFlight
        /\ p[t] # None => p[t] \in Leak!InFlight
    BY <2>1, Zenon DEF LeakInv, Leak!TypeOK, Leak!InFlight
  <2>3. Leak!TypeOK'
    BY <1>4, <2>2, Zenon DEF LeakInv, Leak!TypeOK, Leak!MallocFile, Leak!Goto, Leak!Idle
  <2>4. Leak!InFlight' = Leak!InFlight \ {p[t]}
    BY <2>1, InFlightAfter, Zenon DEF Busy, LeakInv
  <2>5. Leak!FilesTellLeaks'
    BY <2>1, <2>2, <2>4, LeakDistinct, Zenon DEF LeakInv, Leak!FilesTellLeaks, Busy
  <2>6. QED
    BY <2>1, <2>3, <2>5, Zenon DEF LeakInv, Leak!NoDoubleFree
<1>5. ASSUME NEW t \in LeakThreads, Leak!MallocFails(t) PROVE LeakInv'
  <2>1. /\ pc[t] = "create" /\ pc'[t] = "idle" /\ heap' = heap \ {p[t]}
        /\ UNCHANGED <<files, badFree>>
        /\ \A u \in LeakThreads \ {t} : pc'[u] = pc[u] /\ p'[u] = p[u]
    BY <1>5, Zenon DEF LeakInv, Leak!TypeOK, Leak!MallocFails, Leak!Returned, Leak!Goto, Leak!Idle
  <2>2. Leak!TypeOK'
    BY <1>5, Zenon DEF LeakInv, Leak!TypeOK, Leak!MallocFails, Leak!Returned, Leak!Goto, Leak!Idle
  <2>3. /\ Leak!InFlight' = Leak!InFlight \ {p[t]} /\ None \notin heap
        /\ p[t] # None => p[t] \in Leak!InFlight
    BY <2>1, InFlightAfter, MemoryAssumption, Zenon DEF Busy, LeakInv, Leak!TypeOK, Leak!InFlight
  <2>4. Leak!FilesTellLeaks'
    BY <2>1, <2>3, LeakDistinct, Zenon DEF LeakInv, Leak!FilesTellLeaks, Busy
  <2>5. QED
    BY <2>1, <2>2, <2>4, Zenon DEF LeakInv, Leak!NoDoubleFree
<1>6. ASSUME NEW t \in LeakThreads, Leak!Unlink(t) PROVE LeakInv'
  <2>1. Leak!TypeOK'
    BY <1>6, Zenon DEF LeakInv, Leak!TypeOK, Leak!Unlink, Leak!Goto, Leak!Refuses
  <2>2. /\ pc[t] = "unlink" /\ UNCHANGED <<heap, badFree>>
        /\ \A u \in LeakThreads \ {t} : pc'[u] = pc[u] /\ p'[u] = p[u]
    BY <1>6, Zenon DEF LeakInv, Leak!TypeOK, Leak!Unlink, Leak!Goto
  <2>3. CASE p[t] \in files
    <3>1. pc'[t] = "free" /\ p'[t] = p[t] /\ files' = files \ {p[t]}
      BY <1>6, <2>3, Zenon DEF LeakInv, Leak!TypeOK, Leak!Unlink, Leak!Goto
    <3>2. Leak!InFlight' = Leak!InFlight \cup ({p[t]} \ {None})
      BY <2>2, <3>1, InFlightAfter, Zenon DEF Busy, LeakInv
    <3>3. Leak!FilesTellLeaks'
      BY <2>2, <2>3, <3>1, <3>2, LeakDistinct, Zenon DEF LeakInv, Leak!FilesTellLeaks
    <3>4. QED
      BY <2>1, <2>2, <3>3, Zenon DEF LeakInv, Leak!NoDoubleFree
  <2>4. CASE p[t] \notin files
    <3>1. pc'[t] = "idle" /\ files' = files
      BY <1>6, <2>4, Zenon DEF LeakInv, Leak!TypeOK, Leak!Unlink, Leak!Goto, Leak!Refuses
    <3>2. Leak!InFlight' = Leak!InFlight
      BY <2>2, <3>1, InFlightAfter, Zenon DEF Busy, LeakInv
    <3>3. Leak!FilesTellLeaks'
      BY <2>2, <3>1, <3>2, LeakDistinct, Zenon DEF LeakInv, Leak!FilesTellLeaks, Busy
    <3>4. QED
      BY <2>1, <2>2, <3>3, Zenon DEF LeakInv, Leak!NoDoubleFree
  <2>5. QED
    BY <2>3, <2>4, Zenon
<1>7. ASSUME NEW t \in LeakThreads, Leak!FreeHeap(t) PROVE LeakInv'
  <2>1. /\ pc[t] = "free" /\ pc'[t] = "idle" /\ heap' = heap \ {p[t]} /\ files' = files
        /\ badFree' = (badFree \/ p[t] \notin heap \cup {None})
        /\ \A u \in LeakThreads \ {t} : pc'[u] = pc[u] /\ p'[u] = p[u]
    BY <1>7, Zenon DEF LeakInv, Leak!TypeOK, Leak!FreeHeap, Leak!Goto, Leak!Idle
  <2>2. /\ Leak!InFlight' = Leak!InFlight \ {p[t]} /\ None \notin heap
        /\ p[t] # None => p[t] \in Leak!InFlight
    BY <2>1, InFlightAfter, MemoryAssumption, Zenon DEF Busy, LeakInv, Leak!TypeOK, Leak!InFlight
  <2>3. ~badFree'
    BY <2>1, <2>2, Zenon DEF LeakInv, Leak!FilesTellLeaks, Leak!NoDoubleFree
  <2>4. Leak!TypeOK'
    BY <1>7, <2>3, Zenon DEF LeakInv, Leak!TypeOK, Leak!FreeHeap, Leak!Goto, Leak!Idle
  <2>5. Leak!FilesTellLeaks'
    BY <2>1, <2>2, LeakDistinct, Zenon DEF LeakInv, Leak!FilesTellLeaks, Busy
  <2>6. QED
    BY <2>3, <2>4, <2>5, Zenon DEF LeakInv, Leak!NoDoubleFree
<1>8. QED
  BY <1>1, <1>2, <1>3, <1>4, <1>5, <1>6, <1>7, Zenon DEF Leak!Next

-----------------------------------------------------------------------------
(* memleak_hook.c *)

HookInv == Hook!TypeOK /\ Hook!OwnedIsAllocated /\ Hook!SingleThread

\* Every step of the hooks preserves the invariant.
LEMMA HookStep == HookInv /\ [Hook!Next]_hook => HookInv'
<1> SUFFICES ASSUME HookInv, [Hook!Next]_hook PROVE HookInv'
  BY Zenon
<1>1. CASE UNCHANGED hook
  <2>1. Hook!TypeOK'
    BY <1>1, Zenon DEF hook, HookInv, Hook!TypeOK
  <2>2. Hook!OwnedIsAllocated'
    BY <1>1, Zenon DEF hook, HookInv, Hook!OwnedIsAllocated, Hook!Working
  <2>3. Hook!SingleThread'
    BY <1>1, Zenon DEF hook, HookInv, Hook!SingleThread, Hook!Tracked, Hook!Working, Hook!Noted
  <2>4. QED
    BY <2>1, <2>2, <2>3, Zenon DEF HookInv
<1>2. ASSUME NEW t \in users, Hook!malloc(t) PROVE HookInv'
  <2>1. Hook!TypeOK'
    BY <1>2 DEF HookInv, Hook!TypeOK, Hook!malloc, Hook!process, Hook!Goto, Hook!Places
  <2>2. Hook!OwnedIsAllocated'
    BY <1>2, Zenon DEF HookInv, Hook!TypeOK, Hook!malloc, Hook!process, Hook!Goto,
       Hook!OwnedIsAllocated, Hook!Working
  <2>3. Hook!SingleThread'
    BY <1>2 DEF HookInv, Hook!TypeOK, Hook!malloc, Hook!process, Hook!Goto,
       Hook!OwnedIsAllocated, Hook!SingleThread, Hook!Tracked, Hook!Working, Hook!Noted, Hook!Given
  <2>4. QED
    BY <2>1, <2>2, <2>3, Zenon DEF HookInv
<1>3. ASSUME NEW t \in users, Hook!DisableMalloc(t) PROVE HookInv'
  <2>1. Hook!TypeOK'
    BY <1>3, Zenon DEF HookInv, Hook!TypeOK, Hook!DisableMalloc, Hook!process, Hook!Goto, Hook!Places
  <2>2. Hook!OwnedIsAllocated'
    BY <1>3, Zenon DEF HookInv, Hook!TypeOK, Hook!DisableMalloc, Hook!process, Hook!Goto,
       Hook!OwnedIsAllocated, Hook!Working
  <2>3. Hook!SingleThread'
    BY <1>3 DEF HookInv, Hook!TypeOK, Hook!DisableMalloc, Hook!process, Hook!Goto,
       Hook!OwnedIsAllocated, Hook!SingleThread, Hook!Tracked, Hook!Working, Hook!Noted, Hook!Given
  <2>4. QED
    BY <2>1, <2>2, <2>3, Zenon DEF HookInv
<1>4. ASSUME NEW t \in users, Hook!CreateFile(t) PROVE HookInv'
  <2>1. Hook!TypeOK'
    BY <1>4 DEF HookInv, Hook!TypeOK, Hook!CreateFile, Hook!process, Hook!Goto, Hook!Places,
       Hook!OwnedIsAllocated, Hook!Working
  <2>2. Hook!OwnedIsAllocated'
    BY <1>4 DEF HookInv, Hook!TypeOK, Hook!CreateFile, Hook!process, Hook!Goto,
       Hook!OwnedIsAllocated, Hook!Working
  <2>3. Hook!SingleThread'
    BY <1>4 DEF HookInv, Hook!TypeOK, Hook!CreateFile, Hook!process, Hook!Goto,
       Hook!OwnedIsAllocated, Hook!SingleThread, Hook!Tracked, Hook!Working, Hook!Noted, Hook!Given
  <2>4. QED
    BY <2>1, <2>2, <2>3, Zenon DEF HookInv
<1>5. ASSUME NEW t \in users, Hook!CreateFails(t) PROVE HookInv'
  <2>1. Hook!TypeOK'
    BY <1>5, Zenon DEF HookInv, Hook!TypeOK, Hook!CreateFails, Hook!process, Hook!Goto, Hook!Places
  <2>2. Hook!OwnedIsAllocated'
    BY <1>5 DEF HookInv, Hook!TypeOK, Hook!CreateFails, Hook!process, Hook!Goto,
       Hook!OwnedIsAllocated, Hook!Working
  <2>3. Hook!SingleThread'
    BY <1>5 DEF HookInv, Hook!TypeOK, Hook!CreateFails, Hook!process, Hook!Goto,
       Hook!OwnedIsAllocated, Hook!SingleThread, Hook!Tracked, Hook!Working, Hook!Noted, Hook!Given
  <2>4. QED
    BY <2>1, <2>2, <2>3, Zenon DEF HookInv
<1>6. ASSUME NEW t \in users, Hook!FreeFILE(t) PROVE HookInv'
  <2>1. Hook!TypeOK'
    BY <1>6, Zenon DEF HookInv, Hook!TypeOK, Hook!FreeFILE, Hook!process, Hook!Goto, Hook!Places
  <2>2. Hook!OwnedIsAllocated'
    BY <1>6 DEF HookInv, Hook!TypeOK, Hook!FreeFILE, Hook!process, Hook!Goto,
       Hook!OwnedIsAllocated, Hook!Working
  <2>3. Hook!SingleThread'
    BY <1>6, Zenon DEF HookInv, Hook!TypeOK, Hook!FreeFILE, Hook!process, Hook!Goto,
       Hook!OwnedIsAllocated, Hook!SingleThread, Hook!Tracked, Hook!Working, Hook!Noted, Hook!Given
  <2>4. QED
    BY <2>1, <2>2, <2>3, Zenon DEF HookInv
<1>7. ASSUME NEW t \in users, Hook!EnableMalloc(t) PROVE HookInv'
  <2>1. Hook!TypeOK'
    BY <1>7, Zenon DEF HookInv, Hook!TypeOK, Hook!EnableMalloc, Hook!process, Hook!Goto, Hook!Idle,
       Hook!EnabledAgain, Hook!Places, Hook!Given
  <2>2. Hook!OwnedIsAllocated'
    BY <1>7 DEF HookInv, Hook!TypeOK, Hook!EnableMalloc, Hook!process, Hook!Goto, Hook!Idle,
       Hook!EnabledAgain, Hook!OwnedIsAllocated, Hook!Working, Hook!Given
  <2>3. Hook!SingleThread'
    BY <1>7 DEF HookInv, Hook!TypeOK, Hook!EnableMalloc, Hook!process, Hook!Goto, Hook!Idle,
       Hook!EnabledAgain, Hook!OwnedIsAllocated, Hook!SingleThread, Hook!Tracked, Hook!Working, Hook!Noted, Hook!Given
  <2>4. QED
    BY <2>1, <2>2, <2>3, Zenon DEF HookInv
<1>8. ASSUME NEW t \in users, NEW a \in Addr \cup {None}, Hook!Allocate(t, a) PROVE HookInv'
  <2>1. Hook!TypeOK'
    <3>1. CASE hpc[t] = "tracked"
      <4>1. /\ hheap' = hheap \cup Hook!Given(a) /\ hpc' = [hpc EXCEPT ![t] = "create"]
            /\ hp' = [hp EXCEPT ![t] = a]
            /\ UNCHANGED <<users, limit, enable_malloc, enable_free, hfiles, open, owned, mallocs, refused, failed>>
        BY <1>8, <3>1, Zenon DEF Hook!Allocate, Hook!process, Hook!Goto
      <4>2. Hook!Given(a) \subseteq Addr /\ "create" \in Hook!Places
        BY Zenon DEF Hook!Given, Hook!Places
      <4>3. QED
        BY <4>1, <4>2, Zenon DEF HookInv, Hook!TypeOK
    <3>2. CASE hpc[t] = "untracked"
      BY <1>8, <3>2, Zenon DEF HookInv, Hook!TypeOK, Hook!Allocate, Hook!process, Hook!Goto, Hook!Idle,
         Hook!Places, Hook!Given
    <3>3. QED
      BY <1>8, <3>1, <3>2, Zenon DEF Hook!Allocate
  <2>2. Hook!OwnedIsAllocated'
    BY <1>8 DEF HookInv, Hook!TypeOK, Hook!Allocate, Hook!process, Hook!Goto, Hook!Idle,
       Hook!OwnedIsAllocated, Hook!Working, Hook!Given
  <2>3. Hook!SingleThread'
    BY <1>8 DEF HookInv, Hook!TypeOK, Hook!Allocate, Hook!process, Hook!Goto, Hook!Idle,
       Hook!OwnedIsAllocated, Hook!SingleThread, Hook!Tracked, Hook!Working, Hook!Noted, Hook!Given
  <2>4. QED
    BY <2>1, <2>2, <2>3, Zenon DEF HookInv
<1>9. ASSUME NEW t \in users, NEW a \in Addr \cup {None}, Hook!CallFree(t, a) PROVE HookInv'
  <2>1. Hook!TypeOK'
    BY <1>9, Zenon DEF HookInv, Hook!TypeOK, Hook!CallFree, Hook!process, Hook!Goto, Hook!Places
  <2>2. Hook!OwnedIsAllocated'
    BY <1>9 DEF HookInv, Hook!TypeOK, Hook!CallFree, Hook!process, Hook!Goto,
       Hook!OwnedIsAllocated, Hook!Working
  <2>3. Hook!SingleThread'
    BY <1>9 DEF HookInv, Hook!TypeOK, Hook!CallFree, Hook!process, Hook!Goto,
       Hook!OwnedIsAllocated, Hook!SingleThread, Hook!Tracked, Hook!Working, Hook!Noted, Hook!Given
  <2>4. QED
    BY <2>1, <2>2, <2>3, Zenon DEF HookInv
<1>10. ASSUME NEW t \in users, Hook!free(t) PROVE HookInv'
  <2>1. Hook!TypeOK'
    BY <1>10, Zenon DEF HookInv, Hook!TypeOK, Hook!free, Hook!process, Hook!Goto, Hook!Idle,
       Hook!Places
  <2>2. Hook!OwnedIsAllocated'
    BY <1>10 DEF HookInv, Hook!TypeOK, Hook!free, Hook!process, Hook!Goto, Hook!Idle,
       Hook!OwnedIsAllocated, Hook!Working
  <2>3. Hook!SingleThread'
    BY <1>10 DEF HookInv, Hook!TypeOK, Hook!free, Hook!process, Hook!Goto, Hook!Idle,
       Hook!OwnedIsAllocated, Hook!SingleThread, Hook!Tracked, Hook!Working, Hook!Noted, Hook!Given
  <2>4. QED
    BY <2>1, <2>2, <2>3, Zenon DEF HookInv
<1>11. ASSUME NEW t \in users, Hook!DisableFree(t) PROVE HookInv'
  <2>1. Hook!TypeOK'
    BY <1>11, Zenon DEF HookInv, Hook!TypeOK, Hook!DisableFree, Hook!process, Hook!Goto, Hook!Places
  <2>2. Hook!OwnedIsAllocated'
    BY <1>11 DEF HookInv, Hook!TypeOK, Hook!DisableFree, Hook!process, Hook!Goto,
       Hook!OwnedIsAllocated, Hook!Working
  <2>3. Hook!SingleThread'
    BY <1>11 DEF HookInv, Hook!TypeOK, Hook!DisableFree, Hook!process, Hook!Goto,
       Hook!OwnedIsAllocated, Hook!SingleThread, Hook!Tracked, Hook!Working, Hook!Noted, Hook!Given
  <2>4. QED
    BY <2>1, <2>2, <2>3, Zenon DEF HookInv
<1>12. ASSUME NEW t \in users, Hook!Unlink(t) PROVE HookInv'
  <2>1. Hook!TypeOK'
    BY <1>12 DEF HookInv, Hook!TypeOK, Hook!Unlink, Hook!process, Hook!Goto, Hook!Idle,
       Hook!Places, Hook!OwnedIsAllocated, Hook!Working
  <2>2. Hook!OwnedIsAllocated'
    BY <1>12 DEF HookInv, Hook!TypeOK, Hook!Unlink, Hook!process, Hook!Goto, Hook!Idle,
       Hook!OwnedIsAllocated, Hook!Working
  <2>3. Hook!SingleThread'
    BY <1>12 DEF HookInv, Hook!TypeOK, Hook!Unlink, Hook!process, Hook!Goto, Hook!Idle,
       Hook!OwnedIsAllocated, Hook!SingleThread, Hook!Tracked, Hook!Working, Hook!Noted, Hook!Given
  <2>4. QED
    BY <2>1, <2>2, <2>3, Zenon DEF HookInv
<1>13. ASSUME NEW t \in users, Hook!EnableFree(t) PROVE HookInv'
  <2>1. Hook!TypeOK'
    BY <1>13, Zenon DEF HookInv, Hook!TypeOK, Hook!EnableFree, Hook!process, Hook!Goto, Hook!Idle,
       Hook!Places
  <2>2. Hook!OwnedIsAllocated'
    BY <1>13, Zenon DEF HookInv, Hook!TypeOK, Hook!EnableFree, Hook!process, Hook!Goto, Hook!Idle,
       Hook!OwnedIsAllocated, Hook!Working
  <2>3. Hook!SingleThread'
    BY <1>13 DEF HookInv, Hook!TypeOK, Hook!EnableFree, Hook!process, Hook!Goto, Hook!Idle,
       Hook!OwnedIsAllocated, Hook!SingleThread, Hook!Tracked, Hook!Working, Hook!Noted, Hook!Given
  <2>4. QED
    BY <2>1, <2>2, <2>3, Zenon DEF HookInv
<1>14. QED
  BY <1>1, <1>2, <1>3, <1>4, <1>5, <1>6, <1>7, <1>8, <1>9, <1>10, <1>11, <1>12, <1>13, Zenon DEF
     Hook!Next

-----------------------------------------------------------------------------
(* mempool_fixed_block.c *)

FixedInv == Fixed!TypeOK /\ Fixed!FreeListOK /\ Fixed!LinksInPage

\* The blocks of mp_init are distinct and lie in the page.
LEMMA BlockArith ==
    ASSUME NEW M \in Nat, NEW s \in Nat \ {0}
    PROVE  /\ M \div s \in Nat /\ (M \div s) * s \in Nat /\ M % s \in Nat
           /\ M % s = M - (M \div s) * s
           /\ \A i \in 0 .. (M \div s) - 1 : i * s \in Nat /\ i * s + s <= M
           /\ \A i, j \in Nat : i * s = j * s => i = j
<1>1. M \div s \in Nat /\ M % s \in Nat
  OBVIOUS
<1> DEFINE q == M \div s
<1>0. q * s \in Nat
  BY <1>1
<1>q. M % s = M - q * s
  OBVIOUS
<1>p. q \in Nat
  BY <1>1, Zenon
<1> HIDE DEF q
<1>2. ASSUME NEW i \in 0 .. q - 1 PROVE i * s \in Nat /\ i * s + s <= M
  <2>1. PICK d \in Nat : q = i + 1 + d
    <3>1. q - (i + 1) \in Nat /\ q = i + 1 + (q - (i + 1))
      BY <1>p
    <3>2. QED
      BY <3>1, Zenon
  <2>2. (i + 1 + d) * s = i * s + s + d * s /\ d * s \in Nat /\ i * s \in Nat
    OBVIOUS
  <2>3. q * s <= M
    BY <1>0, <1>1, <1>q
  <2>4. QED
    BY <2>1, <2>2, <2>3
<1>3. ASSUME NEW i \in Nat, NEW j \in Nat, i < j PROVE i * s # j * s
  <2>1. PICK d \in Nat : j = i + 1 + d
    BY <1>3
  <2>2. (i + 1 + d) * s = i * s + s + d * s /\ d * s \in Nat /\ i * s \in Nat
    OBVIOUS
  <2>3. QED
    BY <2>1, <2>2
<1>4. QED
  BY <1>0, <1>1, <1>q, <1>2, <1>3 DEF q

\* What the addresses of mp_init satisfy in every state.
LEMMA FixedPage ==
    ASSUME Fixed!TypeOK
    PROVE  /\ Fixed!FreeCount(block_size) \in Nat
           /\ \A a \in Fixed!Blocks : a \in Nat /\ a + block_size <= MAX_PAGE_SIZE /\ a \in DOMAIN link
           /\ Fixed!LinksInPage
<1>1. block_size \in Nat \ {0} /\ Fixed!FreeCount(block_size) = MAX_PAGE_SIZE \div block_size
  BY Zenon DEF Fixed!TypeOK, Fixed!FreeCount, Fixed!Count
<1> DEFINE C == MAX_PAGE_SIZE \div block_size
<1>2. /\ C \in Nat /\ C * block_size \in Nat
      /\ MAX_PAGE_SIZE % block_size = MAX_PAGE_SIZE - C * block_size
      /\ \A i \in 0 .. C - 1 : i * block_size \in Nat /\ i * block_size + block_size <= MAX_PAGE_SIZE
  BY <1>1, BlockArith, Zenon
<1>3. DOMAIN link = {i * block_size : i \in 0 .. C}
  BY <1>1, Zenon DEF Fixed!TypeOK
<1>4. Fixed!Blocks = {i * block_size : i \in 0 .. C - 1}
  BY <1>1, Zenon DEF Fixed!Blocks
<1> HIDE DEF C
<1>5. \A a \in Fixed!Blocks : a \in Nat /\ a + block_size <= MAX_PAGE_SIZE /\ a \in DOMAIN link
  BY <1>2, <1>3, <1>4
<1>6. ASSUME MAX_PAGE_SIZE % block_size >= PtrSize, NEW a \in DOMAIN link
      PROVE  a + PtrSize <= MAX_PAGE_SIZE
  <2>1. PICK i \in 0 .. C : a = i * block_size
    BY <1>3, Zenon
  <2>2. PICK d \in Nat : C = i + d
    BY <1>2
  <2>3. (i + d) * block_size = i * block_size + d * block_size
        /\ d * block_size \in Nat /\ i * block_size \in Nat
    BY <1>1
  <2> DEFINE end == C * block_size
  <2>4. end \in Nat /\ a \in Nat /\ a <= end
    BY <2>1, <2>2, <2>3
  <2>5. MAX_PAGE_SIZE - end >= PtrSize
    BY <1>2, <1>6, Zenon
  <2> HIDE DEF end
  <2>6. QED
    BY <2>4, <2>5
<1>7. QED
  BY <1>1, <1>2, <1>5, <1>6, Zenon DEF Fixed!LinksInPage, C

\* A list of the free blocks is all the invariant asks for.
IsListed == \E w \in [1 .. free_count -> Fixed!Blocks \ live] : Fixed!IsFreeList(w)

\* The free list of the fixed pool gives the part of PoolsAreDisjoint about it.
LEMMA FreeListSuffices == Fixed!TypeOK /\ IsListed => FixedInv
<1> SUFFICES ASSUME Fixed!TypeOK, IsListed PROVE FixedInv
  BY Zenon
<1>1. live \subseteq Fixed!Blocks
  BY Zenon DEF Fixed!TypeOK
<1>2. Fixed!LinksInPage /\ \A a \in live : a + block_size <= MAX_PAGE_SIZE
  BY <1>1, FixedPage, Zenon
<1>3. QED
  BY <1>2, Zenon DEF FixedInv, Fixed!FreeListOK, IsListed

\* The pool as mp_init makes it.
LEMMA FixedStart == Fixed!Init => FixedInv
<1> SUFFICES ASSUME NEW sz \in BlockSizes, Fixed!mp_init(sz) PROVE FixedInv
  BY Zenon DEF Fixed!Init
<1> DEFINE C == MAX_PAGE_SIZE \div block_size
           w == [i \in 1 .. C |-> (i - 1) * block_size]
<1>1. block_size \in Nat \ {0}
  BY DEF Fixed!mp_init, Fixed!BlockSize
<1>2. /\ free_count = C /\ free_ptr = 0 /\ live = {} /\ lastAlloc = -1
      /\ link = [a \in {i * block_size : i \in 0 .. C} |->
                    IF a = C * block_size THEN -1 ELSE a + block_size]
  BY Zenon DEF Fixed!mp_init, Fixed!FreeCount, Fixed!Count, Fixed!Terminator, Fixed!NULL
<1>3. /\ C \in Nat
      /\ \A i, j \in Nat : i * block_size = j * block_size => i = j
  BY <1>1, BlockArith, Zenon
<1>4. Fixed!FreeCount(block_size) = C /\ Fixed!Blocks = {i * block_size : i \in 0 .. C - 1}
  BY Zenon DEF Fixed!FreeCount, Fixed!Count, Fixed!Blocks
<1> HIDE DEF C
<1>5. Fixed!TypeOK
  <2>1. link \in [{i * block_size : i \in 0 .. C} -> Int]
    BY <1>1, <1>2, <1>3
  <2>2. QED
    BY <1>1, <1>2, <1>3, <1>4, <2>1 DEF Fixed!TypeOK
<1>6. w \in [1 .. free_count -> Fixed!Blocks \ live]
  <2>1. ASSUME NEW i \in 1 .. C PROVE i - 1 \in 0 .. C - 1
    BY <1>3
  <2>2. QED
    BY <1>2, <1>4, <2>1, Zenon
<1>7. Fixed!IsFreeList(w)
  <2>1. free_count > 0 => w[1] = free_ptr
    BY <1>1, <1>2, <1>3
  <2>2. ASSUME NEW i \in 1 .. C - 1 PROVE link[w[i]] = w[i + 1]
    <3>1. i - 1 \in 0 .. C /\ i - 1 \in Nat /\ i \in Nat /\ i + 1 \in 1 .. C /\ i \in 1 .. C
      BY <1>3
    <3>2. w[i] = (i - 1) * block_size /\ w[i + 1] = i * block_size
      BY <3>1
    <3>3. (i - 1) * block_size # C * block_size
      BY <1>3, <3>1
    <3>4. link[w[i]] = (i - 1) * block_size + block_size
      BY <1>2, <3>1, <3>2, <3>3, Zenon
    <3>5. (i - 1) * block_size + block_size = i * block_size
      BY <1>1
    <3>6. QED
      BY <3>2, <3>4, <3>5, Zenon
  <2>3. ASSUME NEW i \in 1 .. C, NEW j \in 1 .. C, w[i] = w[j] PROVE i = j
    <3>1. i - 1 \in Nat /\ j - 1 \in Nat /\ (i - 1) * block_size = (j - 1) * block_size
      BY <2>3
    <3>2. i - 1 = j - 1
      BY <1>3, <3>1, Zenon
    <3>3. QED
      BY <3>2
  <2>4. ASSUME NEW a \in Fixed!Blocks PROVE \E i \in 1 .. C : w[i] = a
    <3>1. PICK i \in 0 .. C - 1 : a = i * block_size
      BY <1>4, Zenon
    <3>2. i + 1 \in 1 .. C /\ w[i + 1] = a
      BY <1>3, <3>1
    <3>3. QED
      BY <3>2, Zenon
  <2>5. QED
    BY <1>2, <2>1, <2>2, <2>3, <2>4, Zenon DEF Fixed!IsFreeList
<1>8. QED
  BY <1>5, <1>6, <1>7, FreeListSuffices, Zenon DEF IsListed

\* Every step of the pool preserves the invariant: mp_alloc takes the head of the free
\* list, mp_free puts a block there, and an owner writes no link of a free block.
LEMMA FixedStep == FixedInv /\ [Fixed!Next]_fixed => FixedInv'
<1> SUFFICES ASSUME FixedInv, [Fixed!Next]_fixed PROVE FixedInv'
  BY Zenon
<1> DEFINE B == Fixed!Blocks
<1>1. Fixed!TypeOK' /\ IsListed' => FixedInv'
  BY FreeListSuffices, PTL
<1>2. /\ free_count \in Nat /\ free_ptr \in Int /\ block_size \in Nat \ {0} /\ live \subseteq B
      /\ link \in [{i * block_size : i \in 0 .. Fixed!FreeCount(block_size)} -> Int]
  BY Zenon DEF FixedInv, Fixed!TypeOK
<1>3. \A a \in B : a \in Nat /\ a \in DOMAIN link
  BY FixedPage, Zenon DEF FixedInv
<1>4. PICK w \in [1 .. free_count -> B \ live] : Fixed!IsFreeList(w)
  BY Zenon DEF FixedInv, Fixed!FreeListOK
<1>5. /\ free_count > 0 => w[1] = free_ptr
      /\ \A i \in 1 .. free_count - 1 : link[w[i]] = w[i + 1]
      /\ \A i, j \in 1 .. free_count : w[i] = w[j] => i = j
      /\ \A a \in B \ live : \E i \in 1 .. free_count : w[i] = a
  BY <1>4, Zenon DEF Fixed!IsFreeList
<1>7. ASSUME block_size' = block_size PROVE B' = B /\ Fixed!FreeCount(block_size)' = Fixed!FreeCount(block_size)
  BY <1>7, Zenon DEF Fixed!Blocks, Fixed!FreeCount, Fixed!Count
<1> HIDE DEF B
<1>6. CASE UNCHANGED fixed
  <2>1. UNCHANGED <<block_size, free_count, free_ptr, link, live, lastAlloc>>
    BY <1>6, Zenon DEF fixed
  <2>2. Fixed!TypeOK'
    BY <1>7, <2>1, Zenon DEF FixedInv, Fixed!TypeOK, B
  <2>3. IsListed'
    <3>1. w \in [1 .. free_count' -> B' \ live']
      BY <1>4, <1>7, <2>1, Zenon
    <3>2. /\ free_count' > 0 => w[1] = free_ptr'
          /\ \A i \in 1 .. free_count' - 1 : link'[w[i]] = w[i + 1]
          /\ \A i, j \in 1 .. free_count' : w[i] = w[j] => i = j
          /\ \A a \in B' \ live' : \E i \in 1 .. free_count' : w[i] = a
      BY <1>5, <1>7, <2>1, Zenon
    <3>3. QED
      BY <3>1, <3>2, Zenon DEF IsListed, Fixed!IsFreeList, B
  <2>4. QED
    BY <1>1, <2>2, <2>3, Zenon
<1>8. CASE Fixed!mp_alloc
  <2>1. /\ free_count > 0 /\ free_count' = free_count - 1 /\ free_ptr' = link[free_ptr]
        /\ live' = live \cup {free_ptr} /\ lastAlloc' = free_ptr
        /\ block_size' = block_size /\ link' = link
    BY <1>2, <1>8 DEF Fixed!mp_alloc, Fixed!Exhausted
  <2>2. free_ptr = w[1] /\ free_ptr \in B \ live /\ 1 \in 1 .. free_count
    BY <1>2, <1>5, <2>1
  <2>3. Fixed!TypeOK'
    <3>0. link[free_ptr] \in Int
      BY <1>2, <1>3, <2>2, Zenon
    <3>1. free_ptr' \in Int /\ free_count' \in Nat /\ lastAlloc' \in Int
      <4>1. free_count \in Nat /\ free_ptr \in Int
        BY <1>2, Zenon
      <4>2. QED
        BY <2>1, <3>0, <4>1
    <3>4. live' \subseteq B
      <4>1. live \subseteq B /\ free_ptr \in B
        BY <1>2, <2>2, Zenon
      <4>2. QED
        BY <2>1, <4>1, Zenon
    <3>2. link' \in [{i * block_size : i \in 0 .. Fixed!FreeCount(block_size)} -> Int]'
      BY <1>2, <1>7, <2>1, Zenon
    <3>3. QED
      BY <1>2, <1>7, <2>1, <3>1, <3>2, <3>4, Zenon DEF Fixed!TypeOK, B
  <2> DEFINE v == [i \in 1 .. free_count - 1 |-> w[i + 1]]
  <2>4. \A i \in 1 .. free_count - 1 : i + 1 \in 1 .. free_count /\ i \in 1 .. free_count /\ v[i] = w[i + 1]
    BY <1>2
  <2>5. v \in [1 .. free_count' -> B' \ live']
    <3>1. ASSUME NEW i \in 1 .. free_count - 1 PROVE w[i + 1] \in B \ live'
      BY <1>2, <1>5, <2>1, <2>2, <2>4
    <3>2. QED
      BY <1>7, <2>1, <3>1, Zenon
  <2>6. ASSUME NEW i \in 1 .. free_count' - 1 PROVE link'[v[i]] = v[i + 1]
    <3>1. i \in 1 .. free_count - 1 /\ i + 1 \in 1 .. free_count - 1
      BY <1>2, <2>1
    <3>2. v[i] = w[i + 1] /\ v[i + 1] = w[i + 1 + 1]
      BY <2>4, <3>1, Zenon
    <3>3. QED
      BY <1>5, <2>1, <3>1, <3>2, Zenon
  <2>7. free_count' > 0 => v[1] = free_ptr'
    BY <1>2, <1>5, <2>1, <2>2, <2>4
  <2>8. \A i, j \in 1 .. free_count' : v[i] = v[j] => i = j
    BY <1>2, <1>5, <2>1, <2>4
  <2>9. ASSUME NEW a \in B' \ live' PROVE \E i \in 1 .. free_count' : v[i] = a
    <3>1. PICK i \in 1 .. free_count : w[i] = a
      BY <1>5, <1>7, <2>1, <2>9, Zenon
    <3>2. i # 1
      BY <2>1, <2>2, <2>9, <3>1, Zenon
    <3>3. i - 1 \in 1 .. free_count' /\ v[i - 1] = a
      BY <1>2, <2>1, <3>1, <3>2
    <3>4. QED
      BY <3>3, Zenon
  <2> HIDE DEF v
  <2>10. IsListed'
    BY <2>5, <2>6, <2>7, <2>8, <2>9, Zenon DEF IsListed, Fixed!IsFreeList, B
  <2>11. QED
    BY <1>1, <2>3, <2>10, Zenon
<1>9. ASSUME NEW a \in live, Fixed!Use(a) PROVE FixedInv'
  <2>1. link' = [link EXCEPT ![a] = -2] /\ UNCHANGED <<block_size, free_count, free_ptr, live, lastAlloc>>
    BY <1>9, Zenon DEF Fixed!Use, Fixed!Data
  <2>2. Fixed!TypeOK'
    <3> DEFINE D == {i * block_size : i \in 0 .. Fixed!FreeCount(block_size)}
    <3>0. link \in [D -> Int]
      BY <1>2, Zenon
    <3> HIDE DEF D
    <3>1. link' \in [D -> Int]
      <4>1. -2 \in Int
        OBVIOUS
      <4>2. QED
        BY <2>1, <3>0, <4>1, Zenon
    <3> USE DEF D
    <3>2. QED
      BY <1>7, <2>1, <3>1, Zenon DEF FixedInv, Fixed!TypeOK, B
  <2>3. \A i \in 1 .. free_count - 1 : link'[w[i]] = link[w[i]]
    BY <1>2, <1>3, <2>1
  <2>4. IsListed'
    <3>1. w \in [1 .. free_count' -> B' \ live']
      BY <1>4, <1>7, <2>1, Zenon
    <3>2. /\ free_count' > 0 => w[1] = free_ptr'
          /\ \A i \in 1 .. free_count' - 1 : link'[w[i]] = w[i + 1]
          /\ \A i, j \in 1 .. free_count' : w[i] = w[j] => i = j
          /\ \A b \in B' \ live' : \E i \in 1 .. free_count' : w[i] = b
      BY <1>5, <1>7, <2>1, <2>3, Zenon
    <3>3. QED
      BY <3>1, <3>2, Zenon DEF IsListed, Fixed!IsFreeList, B
  <2>5. QED
    BY <1>1, <2>2, <2>4, Zenon
<1>10. ASSUME NEW a \in live, Fixed!mp_free(a) PROVE FixedInv'
  <2>1. /\ link' = [link EXCEPT ![a] = free_ptr] /\ free_ptr' = a /\ free_count' = free_count + 1
        /\ live' = live \ {a} /\ UNCHANGED <<block_size, lastAlloc>>
    BY <1>10, Zenon DEF Fixed!mp_free, Fixed!LinkToFree
  <2>2. a \in B /\ a \in DOMAIN link /\ a \in Int
    BY <1>2, <1>3
  <2>3. Fixed!TypeOK'
    BY <1>2, <1>7, <2>1, <2>2 DEF FixedInv, Fixed!TypeOK, B
  <2> DEFINE v == [i \in 1 .. free_count + 1 |-> IF i = 1 THEN a ELSE w[i - 1]]
  <2>4. \A i \in 2 .. free_count + 1 : i - 1 \in 1 .. free_count /\ v[i] = w[i - 1] /\ w[i - 1] \in B \ live
    BY <1>2
  <2>5. v[1] = a /\ 1 \in 1 .. free_count + 1
    BY <1>2
  <2>6. v \in [1 .. free_count' -> B' \ live']
    <3>1. ASSUME NEW i \in 1 .. free_count + 1 PROVE v[i] \in B \ live'
      BY <1>2, <2>1, <2>2, <2>4, <2>5
    <3>2. QED
      BY <1>7, <2>1, <3>1, Zenon
  <2>7. ASSUME NEW i \in 1 .. free_count' - 1 PROVE link'[v[i]] = v[i + 1]
    <3>1. CASE i = 1
      <4>1. link'[a] = free_ptr
        BY <2>1, <2>2, Zenon
      <4>2. v[2] = w[1] /\ free_count > 0
        BY <1>2, <2>1, <2>4, <2>7, <3>1
      <4>3. QED
        BY <1>5, <2>5, <3>1, <4>1, <4>2
    <3>2. CASE i > 1
      <4>1. i - 1 \in 1 .. free_count - 1 /\ v[i] = w[i - 1] /\ v[i + 1] = w[i] /\ v[i] # a
        BY <1>2, <2>1, <2>4, <2>7, <3>2
      <4>2. link'[v[i]] = link[v[i]]
        BY <1>3, <2>1, <2>4, <4>1
      <4>3. link[w[i - 1]] = w[i - 1 + 1] /\ i - 1 + 1 = i
        BY <1>5, <4>1
      <4>4. QED
        BY <4>1, <4>2, <4>3, Zenon
    <3>3. QED
      BY <2>7, <3>1, <3>2
  <2>8. ASSUME NEW i \in 1 .. free_count', NEW j \in 1 .. free_count', v[i] = v[j] PROVE i = j
    <3>1. ASSUME NEW k \in 2 .. free_count + 1 PROVE v[k] # a
      BY <2>4
    <3>2. QED
      BY <1>2, <1>5, <2>1, <2>4, <2>5, <2>8, <3>1
  <2>9. ASSUME NEW b \in B' \ live' PROVE \E i \in 1 .. free_count' : v[i] = b
    <3>1. CASE b = a
      BY <2>1, <2>5, <3>1, Zenon
    <3>2. CASE b # a
      <4>1. PICK i \in 1 .. free_count : w[i] = b
        BY <1>5, <1>7, <2>1, <2>9, <3>2, Zenon
      <4>2. i + 1 \in 2 .. free_count + 1 /\ i + 1 \in 1 .. free_count' /\ v[i + 1] = b
        BY <1>2, <2>1, <4>1
      <4>3. QED
        BY <4>2, Zenon
    <3>3. QED
      BY <3>1, <3>2, Zenon
  <2>10. free_count' > 0 => v[1] = free_ptr'
    BY <2>1, <2>5, Zenon
  <2> HIDE DEF v
  <2>11. IsListed'
    BY <2>6, <2>7, <2>8, <2>9, <2>10, Zenon DEF IsListed, Fixed!IsFreeList, B
  <2>12. QED
    BY <1>1, <2>3, <2>11, Zenon
<1>11. QED
  BY <1>6, <1>8, <1>9, <1>10, Zenon DEF Fixed!Next, fixed

-----------------------------------------------------------------------------
(* mempool_unfixed.c *)

UnfixedInv == Unfixed!TypeOK /\ Unfixed!BlocksDisjoint /\ Unfixed!AllNodesSearched

BlockType == [node : 1 .. MaxNodes, from : Nat, size : Nat]

\* A block cut from a node behind its other blocks overlaps none of them.
LEMMA CutDisjoint ==
    ASSUME Unfixed!TypeOK, Unfixed!BlocksDisjoint, NEW n \in 1 .. MaxNodes, NEW at \in Nat, NEW sz \in Nat,
           Unfixed!Cut(n, at, sz), n \in nodes', nodes \subseteq nodes',
           \A b \in blocks : b.node = n => b.from + b.size <= at,
           sz <= Max => at + sz <= Max
    PROVE  /\ Unfixed!BlocksDisjoint'
           /\ used' \in [1 .. MaxNodes -> Nat] /\ blocks' \subseteq BlockType
<1> DEFINE new == [node |-> n, from |-> at, size |-> sz]
<1>1. used \in [1 .. MaxNodes -> Nat] /\ blocks \subseteq BlockType
  BY Zenon DEF Unfixed!TypeOK, BlockType
<1>2. blocks' \subseteq blocks \cup {new} /\ used' = [used EXCEPT ![n] = at + sz]
  BY Zenon DEF Unfixed!Cut, Unfixed!Used
<1>3. at + sz \in Nat
  OBVIOUS
<1>4. /\ used' \in [1 .. MaxNodes -> Nat] /\ used'[n] = at + sz
      /\ \A m \in 1 .. MaxNodes : m # n => used'[m] = used[m]
  BY <1>1, <1>2, <1>3, Zenon
<1>5. new \in BlockType /\ new.node = n /\ new.from = at /\ new.size = sz
  BY Zenon DEF BlockType
<1> HIDE DEF new
<1>6. ASSUME NEW b \in blocks
      PROVE  /\ ~Unfixed!Overlap(b, new) /\ ~Unfixed!Overlap(new, b)
             /\ b.from + b.size <= used'[b.node]
  <2>1. b.node \in 1 .. MaxNodes /\ b.from \in Nat /\ b.size \in Nat
    BY <1>1, Zenon DEF BlockType
  <2>2. b.from + b.size <= used[b.node] /\ (b.node = n => b.from + b.size <= at)
    BY Zenon DEF Unfixed!BlocksDisjoint
  <2>3. b.from + b.size <= used'[b.node]
    <3>1. CASE b.node = n
      BY <1>4, <2>1, <2>2, <3>1
    <3>2. CASE b.node # n
      BY <1>4, <2>1, <2>2, <3>2, Zenon
    <3>3. QED
      BY <3>1, <3>2, Zenon
  <2>4. QED
    BY <1>5, <2>1, <2>2, <2>3 DEF Unfixed!Overlap
<1>7. ASSUME NEW a \in blocks', NEW b \in blocks', a # b PROVE ~Unfixed!Overlap(a, b)
  BY <1>2, <1>6, <1>7, Zenon DEF Unfixed!BlocksDisjoint
<1>8. ASSUME NEW b \in blocks'
      PROVE  /\ b.node \in nodes' /\ b.from + b.size <= used'[b.node]
             /\ b.size <= Max => b.from + b.size <= Max
  <2>1. CASE b \in blocks
    BY <1>6, <2>1, Zenon DEF Unfixed!BlocksDisjoint
  <2>2. CASE b = new
    BY <1>3, <1>4, <1>5, <2>2
  <2>3. QED
    BY <1>2, <2>1, <2>2, Zenon
<1>9. Unfixed!BlocksDisjoint'
  BY <1>7, <1>8, Zenon DEF Unfixed!BlocksDisjoint, Unfixed!Overlap
<1>10. QED
  BY <1>1, <1>2, <1>4, <1>5, <1>9, Zenon

\* Until mp_dest the search of mp_alloc meets no freed node.
LEMMA SearchMeetsNodes ==
    ASSUME Unfixed!TypeOK, Unfixed!AllNodesSearched, first # Unfixed!NULL, NEW sz
    PROVE  Unfixed!Freed(sz) = {}
<1>1. nodes \in SUBSET (1 .. MaxNodes) /\ current \in nodes /\ Unfixed!Closed(nodes)
  BY Zenon DEF Unfixed!TypeOK, Unfixed!AllNodesSearched
<1>2. \A m \in nodes : Unfixed!GoesOn(m, sz) => next[m] \in nodes
  BY <1>1, Zenon DEF Unfixed!Closed, Unfixed!GoesOn
<1>3. QED
  BY <1>1, <1>2, Zenon DEF Unfixed!Freed, Unfixed!Searched

\* The nodes from a new one on are that one and those from current on.
LEMMA NodesAfterNew ==
    ASSUME Unfixed!TypeOK, Unfixed!AllNodesSearched, first # Unfixed!NULL,
           NEW n \in (1 .. MaxNodes) \ nodes,
           next' = [next EXCEPT ![n] = current], current' = n, nodes' = nodes \cup {n}
    PROVE  Unfixed!From(current)' = nodes' /\ current' \in nodes' /\ Unfixed!Closed(nodes)'
<1>1. /\ nodes \subseteq 1 .. MaxNodes /\ next \in [1 .. MaxNodes -> 0 .. MaxNodes]
      /\ Unfixed!From(current) = nodes /\ current \in nodes /\ Unfixed!Closed(nodes)
  BY Zenon DEF Unfixed!TypeOK, Unfixed!AllNodesSearched
<1>2. next'[n] = current /\ \A m \in nodes : next'[m] = next[m]
  BY <1>1, Zenon
<1>3. Unfixed!Closed(nodes)'
  BY <1>1, <1>2, Zenon DEF Unfixed!Closed
<1>4. ASSUME NEW k \in 1 .. MaxNodes,
             \A S \in SUBSET (1 .. MaxNodes) :
                 (n = Unfixed!NULL \/ n \in S) /\ Unfixed!Closed(S)' => k \in S
      PROVE  k \in nodes'
  <2>1. nodes' \in SUBSET (1 .. MaxNodes) /\ n \in nodes'
    BY <1>1, Zenon
  <2>2. QED
    BY <1>3, <1>4, <2>1, Zenon DEF Unfixed!Closed
<1>5. ASSUME NEW k \in nodes', NEW S \in SUBSET (1 .. MaxNodes), n \in S, Unfixed!Closed(S)'
      PROVE  k \in S
  <2>1. current \in S
    BY <1>1, <1>2, <1>5 DEF Unfixed!Closed, Unfixed!NULL
  <2>2. S \cap nodes \in SUBSET (1 .. MaxNodes) /\ current \in S \cap nodes
    BY <1>1, <2>1, Zenon
  <2>3. Unfixed!Closed(S \cap nodes)
    BY <1>1, <1>2, <1>5, Zenon DEF Unfixed!Closed
  <2>4. CASE k \in nodes
    BY <1>1, <2>2, <2>3, <2>4, Zenon DEF Unfixed!From
  <2>5. QED
    BY <1>5, <2>4, Zenon
<1>6. n # Unfixed!NULL
  BY DEF Unfixed!NULL
<1>7. Unfixed!From(n)' = nodes'
  BY <1>1, <1>4, <1>5, <1>6, Zenon DEF Unfixed!From
<1>8. QED
  BY <1>3, <1>7, Zenon

\* Every step of the pool preserves the invariant.
LEMMA UnfixedStep == UnfixedInv /\ [Unfixed!Next]_unfixed => UnfixedInv'
<1> SUFFICES ASSUME UnfixedInv, [Unfixed!Next]_unfixed PROVE UnfixedInv'
  BY Zenon
<1>1. CASE UNCHANGED unfixed
  BY <1>1, Zenon DEF unfixed, UnfixedInv, Unfixed!TypeOK, Unfixed!BlocksDisjoint, Unfixed!Overlap,
     Unfixed!AllNodesSearched, Unfixed!From, Unfixed!Closed
<1>2. CASE Unfixed!mp_dest
  <2>1. /\ nodes' = nodes \ Unfixed!From(first) /\ first' = 0
        /\ blocks' = {b \in blocks : b.node \notin Unfixed!From(first)}
        /\ UNCHANGED <<current, used, next, wild>>
    BY <1>2, Zenon DEF Unfixed!mp_dest, Unfixed!NULL
  <2>2. Unfixed!TypeOK'
    <3>1. 0 \in 0 .. MaxNodes
      OBVIOUS
    <3>2. QED
      BY <2>1, <3>1, Zenon DEF UnfixedInv, Unfixed!TypeOK
  <2>3. Unfixed!BlocksDisjoint'
    BY <2>1, Zenon DEF UnfixedInv, Unfixed!BlocksDisjoint, Unfixed!Overlap
  <2>4. QED
    BY <2>1, <2>2, <2>3, Zenon DEF UnfixedInv, Unfixed!AllNodesSearched, Unfixed!NULL
<1>3. ASSUME NEW sz \in 0 .. Max + 1, Unfixed!mp_allocOld(sz) PROVE UnfixedInv'
  <2>1. PICK n \in nodes : Unfixed!Fits(n, sz) /\ Unfixed!Cut(n, used[n], sz)
    BY <1>3, Zenon DEF Unfixed!mp_allocOld
  <2>2. UNCHANGED <<first, current, next, nodes, wild>>
    BY <1>3, Zenon DEF Unfixed!mp_allocOld
  <2>3. /\ n \in 1 .. MaxNodes /\ used[n] \in Nat
        /\ \A b \in blocks : b.node = n => b.from + b.size <= used[n]
    BY Zenon DEF UnfixedInv, Unfixed!TypeOK, Unfixed!BlocksDisjoint
  <2>4. sz \in Nat /\ used[n] + sz <= Max
    BY <2>1, <2>3 DEF Unfixed!Fits
  <2>5. /\ Unfixed!BlocksDisjoint'
        /\ used' \in [1 .. MaxNodes -> Nat] /\ blocks' \subseteq BlockType
    BY <2>1, <2>2, <2>3, <2>4, CutDisjoint, Zenon DEF UnfixedInv
  <2>6. Unfixed!TypeOK'
    BY <2>2, <2>5, Zenon DEF UnfixedInv, Unfixed!TypeOK, BlockType
  <2>7. Unfixed!AllNodesSearched'
    BY <2>2, Zenon DEF UnfixedInv, Unfixed!AllNodesSearched, Unfixed!From, Unfixed!Closed
  <2>8. QED
    BY <2>5, <2>6, <2>7, Zenon DEF UnfixedInv
<1>4. ASSUME NEW sz \in 0 .. Max + 1, Unfixed!mp_allocNew(sz) PROVE UnfixedInv'
  <2>1. PICK n \in (1 .. MaxNodes) \ nodes :
            /\ nodes' = nodes \cup {n}
            /\ next' = [next EXCEPT ![n] = current]
            /\ current' = n
            /\ Unfixed!Cut(n, 0, sz)
    BY <1>4, Zenon DEF Unfixed!mp_allocNew
  <2>2. UNCHANGED <<first, wild>>
    BY <1>4, Zenon DEF Unfixed!mp_allocNew
  <2>3. sz \in Nat /\ 0 \in Nat /\ (sz <= Max => 0 + sz <= Max)
    OBVIOUS
  <2>4. \A b \in blocks : b.node # n
    BY Zenon DEF UnfixedInv, Unfixed!BlocksDisjoint
  <2>5. /\ Unfixed!BlocksDisjoint'
        /\ used' \in [1 .. MaxNodes -> Nat] /\ blocks' \subseteq BlockType
    BY <2>1, <2>3, <2>4, CutDisjoint, Zenon DEF UnfixedInv
  <2>6. Unfixed!TypeOK'
    <3>1. /\ nodes \subseteq 1 .. MaxNodes /\ first \in 0 .. MaxNodes /\ current \in 1 .. MaxNodes
          /\ next \in [1 .. MaxNodes -> 0 .. MaxNodes] /\ wild \in BOOLEAN
      BY Zenon DEF UnfixedInv, Unfixed!TypeOK
    <3>2. current \in 0 .. MaxNodes
      BY <3>1
    <3>3. next' \in [1 .. MaxNodes -> 0 .. MaxNodes]
      BY <2>1, <3>1, <3>2, Zenon
    <3>4. QED
      BY <2>1, <2>2, <2>5, <3>1, <3>3, Zenon DEF Unfixed!TypeOK, BlockType
  <2>7. Unfixed!AllNodesSearched'
    BY <2>1, <2>2, NodesAfterNew, Zenon DEF UnfixedInv, Unfixed!AllNodesSearched
  <2>8. QED
    BY <2>5, <2>6, <2>7, Zenon DEF UnfixedInv
<1>5. ASSUME NEW sz \in 0 .. Max + 1, Unfixed!mp_allocFreed(sz) PROVE UnfixedInv'
  <2>1. /\ Unfixed!Freed(sz) # {} /\ wild' = TRUE
        /\ UNCHANGED <<first, current, used, next, nodes, blocks>>
    BY <1>5, Zenon DEF Unfixed!mp_allocFreed
  <2>2. first = Unfixed!NULL
    BY <2>1, SearchMeetsNodes, Zenon DEF UnfixedInv
  <2>3. QED
    BY <2>1, <2>2, Zenon DEF UnfixedInv, Unfixed!TypeOK, Unfixed!BlocksDisjoint, Unfixed!Overlap,
       Unfixed!AllNodesSearched
<1>6. QED
  BY <1>1, <1>2, <1>3, <1>4, <1>5, Zenon DEF Unfixed!Next

-----------------------------------------------------------------------------
(* The components together *)

\* A step is one of the component that runs, and stutters for the others.
LEMMA Frame ==
    [Next]_vars => /\ [Fixed!Next]_fixed /\ [Unfixed!Next]_unfixed
                   /\ [Leak!Next]_leak /\ [Hook!Next]_hook
BY Zenon DEF Next, vars

\* The leak detectors.  For any threads and addresses, with mallocs that fail and
\* pointers freed twice, a file tells a leak of memleak.c, and memleak_hook.c gives back
\* no memory the program owns.  As long as fopen works, memleak_hook.c has a file for
\* every block of a program with one thread, and no other until it calls free(NULL).
THEOREM FilesTellLeaksThm == Spec => []FilesTellLeaks
<1>1. Init => LeakInv /\ HookInv
  <2> SUFFICES ASSUME Init PROVE LeakInv /\ HookInv
    BY Zenon
  <2>1. Leak!Init /\ Hook!Init
    BY Zenon DEF Init, Start
  <2>2. LeakInv
    BY <2>1, Zenon DEF Leak!Init, LeakInv, Leak!TypeOK, Leak!FilesTellLeaks, Leak!InFlight,
       Leak!NoDoubleFree
  <2>3. HookInv
    <3>1. Hook!TypeOK
      <4>1. 0 \in 0 .. MaxMallocs /\ \A l \in Limits : 0 \in 0 .. l
        OBVIOUS
      <4>2. "idle" \in Hook!Places
        BY Zenon DEF Hook!Places
      <4>3. QED
        BY <2>1, <4>1, <4>2, Zenon DEF Hook!Init, Hook!TypeOK
    <3>2. \A t \in HookThreads : hpc[t] = "idle"
      BY <2>1, Zenon DEF Hook!Init
    <3>3. hheap = {} /\ hfiles = {} /\ owned = {} /\ refused = {} /\ enable_malloc = 1 /\ enable_free = 1
      BY <2>1, Zenon DEF Hook!Init
    <3>4. Hook!OwnedIsAllocated
      BY <3>2, <3>3, Zenon DEF Hook!OwnedIsAllocated, Hook!Working
    <3>5. Hook!SingleThread
      <4>1. users \subseteq HookThreads
        BY <3>1, Zenon DEF Hook!TypeOK
      <4>2. QED
        BY <3>2, <3>3, <4>1 DEF Hook!SingleThread, Hook!Working, Hook!Noted
    <3>6. QED
      BY <3>1, <3>4, <3>5, Zenon DEF HookInv
  <2>4. QED
    BY <2>2, <2>3, Zenon
<1>2. LeakInv /\ HookInv /\ [Next]_vars => (LeakInv /\ HookInv)'
  BY Frame, LeakStep, HookStep, Zenon
<1>3. LeakInv /\ HookInv => FilesTellLeaks
  <2> SUFFICES ASSUME HookInv PROVE Hook!FilesTellLeaks /\ Hook!NoFalseAlarm
    BY Zenon DEF FilesTellLeaks, LeakInv, HookInv
  <2> SUFFICES ASSUME Hook!Tracked
               PROVE  /\ refused \subseteq {None}
                      /\ Hook!Quiet => /\ hheap = owned /\ hheap \subseteq hfiles
                                       /\ refused = {} => hfiles \subseteq hheap \cup {None}
    BY Zenon DEF Hook!FilesTellLeaks, Hook!NoFalseAlarm
  <2>1. PICK t \in HookThreads : users = {t}
    BY Zenon DEF Hook!Tracked
  <2>2. /\ refused \subseteq {None}
        /\ hheap = owned \cup (IF Hook!Working(t) THEN Hook!Given(hp[t]) ELSE {})
        /\ Hook!Noted(t) \subseteq hfiles /\ (refused = {} => hfiles \subseteq Hook!Noted(t) \cup {None})
    BY <2>1, Zenon DEF HookInv, Hook!SingleThread
  <2>3. ASSUME Hook!Quiet PROVE Hook!Noted(t) = hheap /\ ~Hook!Working(t)
    BY <2>3 DEF Hook!Quiet, Hook!Noted, Hook!Working
  <2>4. QED
    BY <2>2, <2>3, Zenon
<1>4. QED
  BY <1>1, <1>2, <1>3, PTL DEF Spec

\* The pools.  For any page, block sizes, node size and sequence of calls, the free list
\* of the fixed pool holds exactly the blocks nobody owns, whatever the owners write
\* and in whatever order the blocks come back.  The blocks cut from the nodes of the
\* other are disjoint, also those larger than a node and those cut after mp_dest; until
\* mp_dest none of its nodes is forgotten and no freed one is looked at.
THEOREM PoolsAreDisjointThm == Spec => []PoolsAreDisjoint
<1>1. Init => FixedInv /\ UnfixedInv
  <2> SUFFICES ASSUME Init PROVE FixedInv /\ UnfixedInv
    BY Zenon
  <2>1. Fixed!Init /\ Unfixed!Init
    BY Zenon DEF Init, Start
  <2>2. Unfixed!TypeOK /\ Unfixed!BlocksDisjoint
    <3>1. /\ first = 1 /\ current = 1 /\ nodes = {1} /\ blocks = {} /\ wild = FALSE
          /\ used = [n \in 1 .. MaxNodes |-> 0] /\ next = [n \in 1 .. MaxNodes |-> 0]
      BY <2>1, Zenon DEF Unfixed!Init, Unfixed!NULL
    <3>0. 1 \in 1 .. MaxNodes /\ 1 \in 0 .. MaxNodes /\ 0 \in Nat /\ 0 \in 0 .. MaxNodes
      OBVIOUS
    <3>2. Unfixed!TypeOK
      BY <3>0, <3>1, Zenon DEF Unfixed!TypeOK
    <3>3. QED
      BY <3>1, <3>2, Zenon DEF Unfixed!BlocksDisjoint
  <2>3. Unfixed!AllNodesSearched
    <3>1. /\ current = 1 /\ nodes = {1} /\ wild = FALSE /\ 1 \in 1 .. MaxNodes /\ Unfixed!NULL = 0
          /\ next = [n \in 1 .. MaxNodes |-> 0]
      BY <2>1 DEF Unfixed!Init, Unfixed!NULL
    <3>2. \A S \in SUBSET (1 .. MaxNodes) : Unfixed!Closed(S)
      BY <3>1, Zenon DEF Unfixed!Closed
    <3>3. Unfixed!From(1) = {1}
      BY <3>1, <3>2 DEF Unfixed!From
    <3>4. QED
      BY <3>1, <3>2, <3>3, Zenon DEF Unfixed!AllNodesSearched
  <2>4. QED
    BY <2>1, <2>2, <2>3, FixedStart, Zenon DEF UnfixedInv
<1>2. FixedInv /\ UnfixedInv /\ [Next]_vars => (FixedInv /\ UnfixedInv)'
  BY Frame, FixedStep, UnfixedStep, Zenon
<1>3. FixedInv /\ UnfixedInv => PoolsAreDisjoint
  BY Zenon DEF FixedInv, UnfixedInv, PoolsAreDisjoint
<1>4. QED
  BY <1>1, <1>2, <1>3, PTL DEF Spec
=============================================================================
