------------------------------- MODULE MemLeak -------------------------------
(***************************************************************************)
(* Memory_Leak/memleak.c: nMalloc leaves a file named after the address,   *)
(* nFree removes it, and a file that is still there is a leak.  Threads    *)
(* interleave between the heap and the file system; addresses are reused.  *)
(* malloc may fail: None is the null pointer, which has a file name too.   *)
(***************************************************************************)
EXTENDS Naturals

CONSTANTS Threads, Addr, None

VARIABLES heap,    \* the addresses malloc has handed out
          files,   \* the addresses with a .mem file
          pc, p,   \* of every thread: its place and the pointer it works on
          given,   \* history: the addresses nMalloc has returned
          badFree  \* history: free() was called for an address not handed out

vars == <<heap, files, pc, p, given, badFree>>

Init ==
    /\ heap = {} /\ files = {}
    /\ pc = [t \in Threads |-> "idle"]
    /\ p = [t \in Threads |-> None]
    /\ given = {}
    /\ badFree = FALSE

Goto(t, place) == pc' = [pc EXCEPT ![t] = place]
Idle(t) == Goto(t, "idle") /\ p' = [p EXCEPT ![t] = None]

\* nMalloc: p = malloc(size), which is not looked at.
MallocHeap(t, a) ==
    /\ pc[t] = "idle"
    /\ a \in (Addr \ heap) \cup {None}
    /\ heap' = heap \cup ({a} \ {None})
    /\ p' = [p EXCEPT ![t] = a]
    /\ Goto(t, "create")
    /\ UNCHANGED <<files, given, badFree>>

\* fopen creates the file.
MallocFile(t) ==
    /\ pc[t] = "create"
    /\ files' = files \cup {p[t]}
    /\ given' = given \cup {p[t]}
    /\ Idle(t)
    /\ UNCHANGED <<heap, badFree>>

\* fopen fails: the memory goes back and nMalloc returns NULL.
Returned(a) == heap \ {a}

MallocFails(t) ==
    /\ pc[t] = "create"
    /\ heap' = Returned(p[t])
    /\ Idle(t)
    /\ UNCHANGED <<files, given, badFree>>

\* nFree, of NULL or any pointer that was ever returned: threads share pointers, and
\* may free one again.
CallFree(t, a) ==
    /\ pc[t] = "idle"
    /\ a \in given \cup {None}
    /\ p' = [p EXCEPT ![t] = a]
    /\ Goto(t, "unlink")
    /\ UNCHANGED <<heap, files, given, badFree>>

\* unlink fails: "double free" is printed and the memory is left alone.
FreesAnyway == "free"
Refuses == "idle"

Unlink(t) ==
    /\ pc[t] = "unlink"
    /\ IF p[t] \in files
       THEN files' = files \ {p[t]} /\ Goto(t, "free") /\ UNCHANGED p
       ELSE /\ Goto(t, Refuses)
            /\ p' = [p EXCEPT ![t] = IF Refuses = "idle" THEN None ELSE @]
            /\ UNCHANGED files
    /\ UNCHANGED <<heap, given, badFree>>

FreeHeap(t) ==
    /\ pc[t] = "free"
    /\ heap' = heap \ {p[t]}
    /\ badFree' = (badFree \/ p[t] \notin heap \cup {None})
    /\ Idle(t)
    /\ UNCHANGED <<files, given>>

Next ==
    \E t \in Threads :
        \/ \E a \in Addr \cup {None} : MallocHeap(t, a) \/ CallFree(t, a)
        \/ MallocFile(t) \/ MallocFails(t) \/ Unlink(t) \/ FreeHeap(t)

Spec == Init /\ [][Next]_vars

-----------------------------------------------------------------------------
\* Every variable keeps its type.
TypeOK ==
    /\ heap \subseteq Addr /\ files \subseteq Addr \cup {None}
    /\ pc \in [Threads -> {"idle", "create", "unlink", "free"}]
    /\ p \in [Threads -> Addr \cup {None}]
    /\ given \subseteq Addr \cup {None}
    /\ badFree \in BOOLEAN

\* A file tells a leak, but for the one of NULL that a failed malloc leaves: the memory
\* without a file is that of a call between its two steps, no file is left of memory
\* that was given back, and two calls never work on one block, whichever thread reuses
\* an address.
InFlight == {p[t] : t \in {u \in Threads : pc[u] \in {"create", "free"}}} \ {None}
FilesTellLeaks ==
    /\ files \cap InFlight = {}
    /\ heap = (files \ {None}) \cup InFlight
    /\ \A t, u \in Threads :
        t # u /\ {pc[t], pc[u]} \subseteq {"create", "free"} /\ p[t] # None => p[t] # p[u]

\* A pointer freed twice, by one thread or by two at a time, never reaches free() a
\* second time while its address is free: nFree finds its file gone.
NoDoubleFree == ~badFree
=============================================================================
