----------------------------- MODULE MemLeakHook -----------------------------
(***************************************************************************)
(* Memory_Leak/memleak_hook.c: malloc and free of the whole program are    *)
(* replaced; two global flags turn the tracking off while a hook calls     *)
(* functions that allocate themselves.  Every access to a flag is a step.  *)
(* The file of a block is opened and never closed.  What the C library     *)
(* allocates for itself inside a hook is left out, but for the FILE of     *)
(* fopen, which there may be no memory for and which a failed fopen frees. *)
(* malloc may fail: None is the null pointer, which has a file name too.   *)
(***************************************************************************)
EXTENDS Naturals

CONSTANTS Threads, Addr, None,
          Limits,       \* the descriptors a process may have
          MaxMallocs    \* bound on the calls of malloc

VARIABLES users, limit,  \* the threads that run, and the descriptors they have
          enable_malloc, enable_free,
          heap, files,
          open,         \* the descriptors in use
          pc, p,        \* of every thread: its place and the pointer it works on
          owned,        \* the pointers the program got and has not freed
          mallocs,      \* calls of malloc so far
          refused,      \* history: pointers free() took for freed twice
          failed        \* history: fopen has failed

vars == <<users, limit, enable_malloc, enable_free, heap, files, open, pc, p, owned, mallocs, refused, failed>>
process == <<users, limit>>

Init ==
    /\ users \in (SUBSET Threads) \ {{}}
    /\ limit \in Limits
    /\ enable_malloc = 1 /\ enable_free = 1
    /\ heap = {} /\ files = {} /\ open = 0
    /\ pc = [t \in Threads |-> "idle"]
    /\ p = [t \in Threads |-> None]
    /\ owned = {}
    /\ mallocs = 0
    /\ refused = {} /\ failed = FALSE

Goto(t, place) == pc' = [pc EXCEPT ![t] = place]
Idle(t) == Goto(t, "idle") /\ p' = [p EXCEPT ![t] = None]

\* malloc: if (enable_malloc) enable_malloc = 0 else malloc_f.
malloc(t) ==
    /\ pc[t] = "idle"
    /\ mallocs < MaxMallocs
    /\ mallocs' = mallocs + 1
    /\ Goto(t, IF enable_malloc = 1 THEN "disable" ELSE "untracked")
    /\ UNCHANGED <<process, enable_malloc, enable_free, heap, files, open, p, owned, refused, failed>>

DisableMalloc(t) ==
    /\ pc[t] = "disable"
    /\ enable_malloc' = 0
    /\ Goto(t, "tracked")
    /\ UNCHANGED <<process, enable_free, heap, files, open, p, owned, mallocs, refused, failed>>

\* p = malloc_f(size), in either branch, which is not looked at.
Given(a) == {a} \ {None}
Allocate(t, a) ==
    /\ pc[t] \in {"tracked", "untracked"}
    /\ a \in (Addr \ heap) \cup {None}
    /\ heap' = heap \cup Given(a)
    /\ IF pc[t] = "tracked"
       THEN Goto(t, "create") /\ p' = [p EXCEPT ![t] = a] /\ UNCHANGED owned
       ELSE Idle(t) /\ owned' = owned \cup Given(a)
    /\ UNCHANGED <<process, enable_malloc, enable_free, files, open, mallocs, refused, failed>>

\* fopen; the FILE it allocates does not concern the program.
CreateFile(t) ==
    /\ pc[t] = "create"
    /\ open < limit
    /\ files' = files \cup {p[t]}
    /\ open' = open + 1
    /\ Goto(t, "enable")
    /\ UNCHANGED <<process, enable_malloc, enable_free, heap, p, owned, mallocs, refused, failed>>

\* fopen gets no memory for its FILE, or has no descriptor left and frees the FILE,
\* which has no file; then free(p) of this program runs and malloc returns NULL.  The
\* flag of malloc stays 0.
CreateFails(t) ==
    /\ pc[t] = "create"
    /\ \E freed \in BOOLEAN :
        /\ freed => open >= limit
        /\ Goto(t, IF freed /\ enable_free = 1 THEN "freeFILE" ELSE "free")
    /\ failed' = TRUE
    /\ UNCHANGED <<process, enable_malloc, enable_free, heap, files, open, p, owned, mallocs, refused>>

FreeFILE(t) ==
    /\ pc[t] = "freeFILE"
    /\ enable_free' = 0
    /\ refused' = refused \cup {"FILE"}
    /\ Goto(t, "free")
    /\ UNCHANGED <<process, enable_malloc, heap, files, open, p, owned, mallocs, failed>>

FlagForgotten == 0
EnabledAgain == 1

EnableMalloc(t) ==
    /\ pc[t] = "enable"
    /\ enable_malloc' = EnabledAgain
    /\ owned' = owned \cup Given(p[t])
    /\ Idle(t)
    /\ UNCHANGED <<process, enable_free, heap, files, open, mallocs, refused, failed>>

\* free, of NULL or a pointer the program owns.
CallFree(t, a) ==
    /\ pc[t] = "idle"
    /\ a \in owned \cup {None}
    /\ owned' = owned \ {a}
    /\ p' = [p EXCEPT ![t] = a]
    /\ Goto(t, "free")
    /\ UNCHANGED <<process, enable_malloc, enable_free, heap, files, open, mallocs, refused, failed>>

free(t) ==
    /\ pc[t] = "free"
    /\ IF enable_free = 1
       THEN Goto(t, "disableFree") /\ UNCHANGED <<heap, p>>
       ELSE heap' = heap \ {p[t]} /\ Idle(t)
    /\ UNCHANGED <<process, enable_malloc, enable_free, files, open, owned, mallocs, refused, failed>>

DisableFree(t) ==
    /\ pc[t] = "disableFree"
    /\ enable_free' = 0
    /\ Goto(t, "unlink")
    /\ UNCHANGED <<process, enable_malloc, heap, files, open, p, owned, mallocs, refused, failed>>

\* unlink and free_f; a missing file ends the call with the flag still 0.
Unlink(t) ==
    /\ pc[t] = "unlink"
    /\ IF p[t] \in files
       THEN /\ files' = files \ {p[t]}
            /\ heap' = heap \ {p[t]}
            /\ Goto(t, "enableFree")
            /\ UNCHANGED <<p, refused>>
       ELSE /\ refused' = refused \cup {p[t]}
            /\ Idle(t)
            /\ UNCHANGED <<files, heap>>
    /\ UNCHANGED <<process, enable_malloc, enable_free, open, owned, mallocs, failed>>

EnableFree(t) ==
    /\ pc[t] = "enableFree"
    /\ enable_free' = 1
    /\ Idle(t)
    /\ UNCHANGED <<process, enable_malloc, heap, files, open, owned, mallocs, refused, failed>>

Next ==
    \E t \in users :
        \/ malloc(t) \/ DisableMalloc(t) \/ CreateFile(t) \/ CreateFails(t)
        \/ FreeFILE(t) \/ EnableMalloc(t)
        \/ \E a \in Addr \cup {None} : Allocate(t, a) \/ CallFree(t, a)
        \/ free(t) \/ DisableFree(t) \/ Unlink(t) \/ EnableFree(t)

Spec == Init /\ [][Next]_vars

-----------------------------------------------------------------------------
Quiet == \A t \in Threads : pc[t] = "idle"

Places == {"idle", "disable", "tracked", "untracked", "create", "freeFILE", "enable",
           "free", "disableFree", "unlink", "enableFree"}

\* Every variable keeps its type.
TypeOK ==
    /\ users \subseteq Threads /\ limit \in Limits
    /\ {enable_malloc, enable_free} \subseteq {0, 1}
    /\ heap \subseteq Addr /\ files \subseteq Addr \cup {None} /\ owned \subseteq Addr
    /\ refused \subseteq Addr \cup {None, "FILE"} /\ failed \in BOOLEAN
    /\ open \in 0 .. limit /\ mallocs \in 0 .. MaxMallocs
    /\ pc \in [Threads -> Places]
    /\ p \in [Threads -> Addr \cup {None}]

\* Tracking may fail, but a block the program owns is never given back to the heap,
\* and no two calls work on one block: not when threads switch the flags off under
\* each other, and not when a file cannot be created.
Working(t) == pc[t] \in {"create", "freeFILE", "enable", "free", "disableFree", "unlink"}
OwnedIsAllocated ==
    /\ owned \subseteq heap
    /\ \A t \in Threads : Working(t) => p[t] \in (heap \ owned) \cup {None}
    /\ \A t, u \in Threads : t # u /\ Working(t) /\ Working(u) /\ p[t] # None => p[t] # p[u]

\* One thread for which fopen never failed.
Tracked == ~failed /\ \E t \in Threads : users = {t}

\* It finds every flag as its own calls left it.  Its blocks have their files from the
\* moment fopen returns; they lose them when they are freed, until free(NULL), which has
\* no file to remove, leaves the flag of free at 0.
Noted(t) == heap \ (IF pc[t] = "create" THEN {p[t]} ELSE {})
SingleThread ==
    Tracked => \A t \in users :
        /\ pc[t] \notin {"untracked", "freeFILE"}
        /\ enable_malloc = IF pc[t] \in {"tracked", "create", "enable"} THEN 0 ELSE 1
        /\ enable_free = IF pc[t] \in {"unlink", "enableFree"} \/ refused # {} THEN 0 ELSE 1
        /\ refused \subseteq {None}
        /\ refused # {} => pc[t] \notin {"disableFree", "unlink", "enableFree"}
        /\ heap = owned \cup (IF Working(t) THEN Given(p[t]) ELSE {})
        /\ Noted(t) \subseteq files
        /\ refused = {} => files \subseteq Noted(t) \cup {None}

\* Between its calls the memory in use is the memory it owns and has its file, so that
\* no leak goes unreported; and until free(NULL) found no file every file, but for the
\* one of NULL that a failed malloc leaves, is that of memory in use.
FilesTellLeaks ==
    Tracked /\ Quiet => /\ heap = owned /\ heap \subseteq files
                        /\ refused = {} => files \subseteq heap \cup {None}

\* No pointer but NULL is taken for freed twice: the program frees none twice.
NoFalseAlarm == Tracked => refused \subseteq {None}
=============================================================================
