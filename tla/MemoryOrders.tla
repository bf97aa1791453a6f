----------------------------- MODULE MemoryOrders -----------------------------
(***************************************************************************)
(* The programs of Atomic & Lock that show the memory orders:              *)
(* acquire_release.cc, relaxed.cc and seq_cst.cc.  A location keeps all    *)
(* the values stored to it, each with the view its thread published; a     *)
(* load may return any value its thread's view does not rule out.  A       *)
(* release store publishes the view of its thread, an acquire load takes   *)
(* the published view over, a seq_cst load returns the newest value (all   *)
(* accesses to the locations of seq_cst.cc are seq_cst).                   *)
(***************************************************************************)
EXTENDS Naturals, Sequences

Locations == {"x", "y"}

\* A thread is a sequence of <<instruction, location, order>>: store true, load
\* until true, and increment z if true.
RelaxedProgram ==
    [write_x_then_y |-> <<<<"store", "x", "relaxed">>, <<"store", "y", "relaxed">>>>,
     read_y_then_x  |-> <<<<"await", "y", "relaxed">>, <<"count", "x", "relaxed">>>>]

AcquireReleaseProgram ==
    [write_x_then_y |-> <<<<"store", "x", "relaxed">>, <<"store", "y", "release">>>>,
     read_y_then_x  |-> <<<<"await", "y", "acquire">>, <<"count", "x", "relaxed">>>>]

SeqCstProgram ==
    [write_x       |-> <<<<"store", "x", "seq_cst">>>>,
     write_y       |-> <<<<"store", "y", "seq_cst">>>>,
     read_x_then_y |-> <<<<"await", "x", "seq_cst">>, <<"count", "y", "seq_cst">>>>,
     read_y_then_x |-> <<<<"await", "y", "seq_cst">>, <<"count", "x", "seq_cst">>>>]

\* How often main runs its threads: 100000 times in relaxed.cc, of which two are kept.
Rounds == [relaxed |-> 2, acquire_release |-> 1, seq_cst |-> 20]

VARIABLES name, program, round, mem, view, pc, z

vars == <<name, program, round, mem, view, pc, z>>
Workers == DOMAIN program

Oldest == [l \in Locations |-> 1]
Later(v, w) == [l \in Locations |-> IF v[l] >= w[l] THEN v[l] ELSE w[l]]

Start(n, p) ==
    /\ name = n
    /\ program = p
    /\ round = 1
    /\ mem = [l \in Locations |-> <<[val |-> FALSE, view |-> Oldest]>>]
    /\ view = [t \in DOMAIN p |-> Oldest]
    /\ pc = [t \in DOMAIN p |-> 1]
    /\ z = 0

Init ==
    \/ Start("relaxed", RelaxedProgram)
    \/ Start("acquire_release", AcquireReleaseProgram)
    \/ Start("seq_cst", SeqCstProgram)

Advance(t) == pc' = [pc EXCEPT ![t] = @ + 1]

\* l.store(true, order).  Every location has one writer.
Store(t, l, order) ==
    LET newest == Len(mem[l]) + 1
        seen == [view[t] EXCEPT ![l] = newest]
        published == IF order = "relaxed" THEN [Oldest EXCEPT ![l] = newest] ELSE seen
    IN  /\ mem' = [mem EXCEPT ![l] = Append(@, [val |-> TRUE, view |-> published])]
        /\ view' = [view EXCEPT ![t] = seen]
        /\ Advance(t)
        /\ UNCHANGED <<name, program, round, z>>

\* l.load(order): the values it may return, by their place in the location's history.
Readable(t, l, order) ==
    IF order = "seq_cst" THEN {Len(mem[l])} ELSE view[t][l] .. Len(mem[l])

Seen(t, l, order, i) ==
    IF order = "relaxed" THEN [view[t] EXCEPT ![l] = i] ELSE Later(view[t], mem[l][i].view)

\* while (!load);  a false value leads back to the load.
Await(t, l, order) ==
    /\ \E i \in Readable(t, l, order) :
        /\ view' = [view EXCEPT ![t] = Seen(t, l, order, i)]
        /\ IF mem[l][i].val THEN Advance(t) ELSE UNCHANGED pc
    /\ UNCHANGED <<name, program, round, mem, z>>

\* if (load) ++z;
Count(t, l, order) ==
    /\ \E i \in Readable(t, l, order) :
        /\ view' = [view EXCEPT ![t] = Seen(t, l, order, i)]
        /\ z' = IF mem[l][i].val THEN z + 1 ELSE z
    /\ Advance(t)
    /\ UNCHANGED <<name, program, round, mem>>

Step(t) ==
    /\ pc[t] <= Len(program[t])
    /\ LET i == program[t][pc[t]]
       IN  \/ i[1] = "store" /\ Store(t, i[2], i[3])
           \/ i[1] = "await" /\ Await(t, i[2], i[3])
           \/ i[1] = "count" /\ Count(t, i[2], i[3])

Joined == \A t \in Workers : pc[t] > Len(program[t])

\* The next pass of main's loop: it has joined its threads and stores the initial
\* values; the threads it then creates start from there.
Again ==
    LET newest == [l \in Locations |-> Len(mem[l]) + 1]
    IN  /\ Joined
        /\ round < Rounds[name]
        /\ round' = round + 1
        /\ mem' = [l \in Locations |-> Append(mem[l], [val |-> FALSE, view |-> newest])]
        /\ view' = [t \in Workers |-> newest]
        /\ pc' = [t \in Workers |-> 1]
        /\ z' = 0
        /\ UNCHANGED <<name, program>>

Next ==
    \/ \E t \in Workers : Step(t)
    \/ Again

Spec == Init /\ [][Next]_vars

-----------------------------------------------------------------------------
\* The comment of acquire_release.cc: z is certain to become 1.
CertainlyOne == name = "acquire_release" /\ Joined => z = 1

\* The assertion of seq_cst.cc: the readers cannot both miss the other's store.
NotBothMiss == name = "seq_cst" /\ Joined => z # 0
=============================================================================
