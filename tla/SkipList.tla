------------------------------- MODULE SkipList -------------------------------
(***************************************************************************)
(* Atomic & Lock/skiplist.h: one thread inserts, readers search and move   *)
(* iterators without a lock.  A node is its key; every load or store of a  *)
(* link is a step.  max_height_ is relaxed, so a reader may load any value *)
(* it has held; the links are release/acquire and read in order.           *)
(***************************************************************************)
EXTENDS Integers

CONSTANTS Keys,          \* positive numbers
          Readers, kMaxHeight_

ASSUME SkipListAssumption == Keys \subseteq Nat \ {0} /\ kMaxHeight_ \in Nat \ {0}

head_ == 0
Nil == -1     \* nullptr
Junk == -2    \* the content of malloc'ed memory
Nodes == Keys \cup {head_}
Levels == 0 .. kMaxHeight_ - 1

VARIABLES next_,         \* the links of every node
          max_height_, heights,      \* and the values it has held
          prev_, prev_height_,
          pc, key, height, level,    \* Insert: its place and locals
          at, notAfter,              \* the x and last_not_after of its search
          find, x, lv, last,         \* of every reader: its search and its locals
          call, target,              \* the operation it runs and its argument
          node_                      \* its iterator

writer == <<pc, key, height, level, at, notAfter>>
search == <<find, x, lv, last>>
reader == <<search, call, target, node_>>
vars == <<next_, max_height_, heights, prev_, prev_height_, writer, reader>>

\* The constructor; every reader has an iterator that is not valid.
Init ==
    /\ next_ = [n \in Nodes |-> [l \in Levels |-> IF n = head_ THEN Nil ELSE Junk]]
    /\ max_height_ = 1 /\ heights = {1}
    /\ prev_ = [l \in Levels |-> head_]
    /\ prev_height_ = 1
    /\ pc = "idle" /\ key = head_ /\ height = 0 /\ level = 0
    /\ at = head_ /\ notAfter = Nil
    /\ find = [r \in Readers |-> "none"]
    /\ x = [r \in Readers |-> head_]
    /\ lv = [r \in Readers |-> 0]
    /\ last = [r \in Readers |-> Nil]
    /\ call = [r \in Readers |-> "none"]
    /\ target = [r \in Readers |-> Nil]
    /\ node_ = [r \in Readers |-> Nil]

\* nullptr n is considered infinite.
KeyIsAtOrAfterNode(k, n) == n # Nil /\ n <= k
KeyIsAfterNode(k, n) == n # Nil /\ n < k

-----------------------------------------------------------------------------
(* Insert *)

\* The fast path: prev_[0] is the predecessor of k at level 0.
FastPath(k) ==
    /\ ~KeyIsAfterNode(k, next_[prev_[0]][0])
    /\ prev_[0] = head_ \/ KeyIsAfterNode(k, prev_[0])

StalePrev == prev_
FastPrev == [l \in Levels |-> IF l < prev_height_ THEN prev_[0] ELSE prev_[l]]

Inserted == {n \in Keys : next_[n][0] # Junk /\ ~(pc # "idle" /\ n = key)}

InsertFast(k) ==
    /\ pc = "idle"
    /\ k \notin Inserted
    /\ FastPath(k)
    /\ prev_' = FastPrev
    /\ pc' = "height"
    /\ key' = k
    /\ UNCHANGED <<next_, max_height_, heights, prev_height_, height, level, at, notAfter, reader>>

\* Otherwise FindLessThan(key, prev_) sets prev_ at every level below max_height_.
InsertFind(k) ==
    /\ pc = "idle"
    /\ k \notin Inserted
    /\ ~FastPath(k)
    /\ pc' = "find"
    /\ key' = k
    /\ at' = head_ /\ level' = max_height_ - 1 /\ notAfter' = Nil
    /\ UNCHANGED <<next_, max_height_, heights, prev_, prev_height_, height, reader>>

FindLessThan ==
    LET n == next_[at][level]
        onward == n # notAfter /\ KeyIsAfterNode(key, n)
    IN  /\ pc = "find"
        /\ \/ /\ onward
              /\ at' = n
              /\ UNCHANGED <<prev_, pc, level, notAfter>>
           \/ /\ ~onward
              /\ prev_' = [prev_ EXCEPT ![level] = at]
              /\ IF level = 0
                 THEN pc' = "height" /\ at' = head_ /\ notAfter' = Nil /\ UNCHANGED level
                 ELSE level' = level - 1 /\ notAfter' = n /\ UNCHANGED <<pc, at>>
        /\ UNCHANGED <<next_, max_height_, heights, prev_height_, key, height, reader>>

\* RandomHeight gives any height up to kMaxHeight_.  Levels that are new to the
\* list start at the head; then max_height_ is stored.
RandomHeight == 1 .. kMaxHeight_

PrevAtNewLevels(h) == [l \in Levels |-> IF l >= max_height_ /\ l < h THEN head_ ELSE prev_[l]]

InsertHeight(h) ==
    /\ pc = "height"
    /\ prev_' = PrevAtNewLevels(h)
    /\ IF h > max_height_
       THEN max_height_' = h /\ heights' = heights \cup {h}
       ELSE UNCHANGED <<max_height_, heights>>
    /\ height' = h
    /\ pc' = "init"
    /\ UNCHANGED <<next_, prev_height_, key, level, at, notAfter, reader>>

\* NewNode, and x->NoBarrier_SetNext(i, prev_[i]->NoBarrier_Next(i)).
InsertInit ==
    /\ pc = "init"
    /\ next_' = [next_ EXCEPT ![key][level] = next_[prev_[level]][level]]
    /\ pc' = "publish"
    /\ UNCHANGED <<max_height_, heights, prev_, prev_height_, key, height, level, at, notAfter,
                   reader>>

\* prev_[i]->SetNext(i, x); after the last level prev_[0] = x and prev_height_.
InsertPublish ==
    /\ pc = "publish"
    /\ next_' = [next_ EXCEPT ![prev_[level]][level] = key]
    /\ IF level + 1 < height
       THEN /\ level' = level + 1
            /\ pc' = "init"
            /\ UNCHANGED <<prev_, prev_height_, key, height>>
       ELSE /\ prev_' = [prev_ EXCEPT ![0] = key]
            /\ prev_height_' = height
            /\ pc' = "idle" /\ key' = head_ /\ height' = 0 /\ level' = 0
    /\ UNCHANGED <<max_height_, heights, at, notAfter, reader>>

-----------------------------------------------------------------------------
(* Searches.  Every one starts at head_ on a level it loads max_height_ for. *)

Search(r, kind, h) ==
    /\ find' = [find EXCEPT ![r] = kind]
    /\ x' = [x EXCEPT ![r] = head_]
    /\ lv' = [lv EXCEPT ![r] = h - 1]
    /\ last' = [last EXCEPT ![r] = Nil]

\* One load of a link of node n: the iterator steps Next and SeekToFirst.
Load(r, n) ==
    /\ find' = [find EXCEPT ![r] = "next"]
    /\ x' = [x EXCEPT ![r] = n]
    /\ UNCHANGED <<lv, last>>

Call(r, op, k) ==
    /\ call[r] = "none"
    /\ call' = [call EXCEPT ![r] = op]
    /\ target' = [target EXCEPT ![r] = k]
    /\ UNCHANGED <<next_, max_height_, heights, prev_, prev_height_, writer, node_>>

\* Iterator::Seek (and Contains, which compares the node found), SeekForPrev,
\* SeekToLast, Prev, SeekToFirst and Next.
Seek(r, k, h) == Call(r, "Seek", k) /\ Search(r, "greaterOrEqual", h)
SeekForPrev(r, k, h) == Call(r, "SeekForPrev", k) /\ Search(r, "greaterOrEqual", h)
SeekToLast(r, h) == Call(r, "SeekToLast", Nil) /\ Search(r, "last", h)
Prev(r, h) == node_[r] # Nil /\ Call(r, "Prev", node_[r]) /\ Search(r, "lessThan", h)
SeekToFirst(r) == Call(r, "SeekToFirst", Nil) /\ Load(r, head_)
Next_(r) == node_[r] # Nil /\ Call(r, "Next", node_[r]) /\ Load(r, node_[r])

\* What SeekForPrev does when a search has left the iterator at n: go to the end of
\* the list if Seek found nothing, go back while its key is after the target.
ToTheEnd(r, n) == call[r] = "SeekForPrev" /\ find[r] = "greaterOrEqual" /\ n = Nil
BackNever(r, n) == FALSE
Back(r, n) == call[r] = "SeekForPrev" /\ n # Nil /\ target[r] < n

Return(r) ==
    /\ call' = [call EXCEPT ![r] = "none"]
    /\ target' = [target EXCEPT ![r] = Nil]
    /\ find' = [find EXCEPT ![r] = "none"]
    /\ x' = [x EXCEPT ![r] = head_]
    /\ lv' = [lv EXCEPT ![r] = 0]
    /\ last' = [last EXCEPT ![r] = Nil]

\* A search of the call ends at node n; head_ makes the iterator invalid.
Found(r, n) ==
    LET it == IF n = head_ THEN Nil ELSE n
    IN  /\ node_' = [node_ EXCEPT ![r] = it]
        /\ \/ /\ ToTheEnd(r, it)
              /\ \E h \in heights : Search(r, "last", h)
              /\ UNCHANGED <<call, target>>
           \/ /\ Back(r, it)
              /\ \E h \in heights : Search(r, "lessThan", h)
              /\ UNCHANGED <<call, target>>
           \/ ~ToTheEnd(r, it) /\ ~Back(r, it) /\ Return(r)

Advance(r, n) ==
    /\ x' = [x EXCEPT ![r] = n]
    /\ UNCHANGED <<find, lv, last, call, target, node_>>

Descend(r, n) ==
    /\ last' = [last EXCEPT ![r] = n]
    /\ lv' = [lv EXCEPT ![r] = lv[r] - 1]
    /\ UNCHANGED <<find, x, call, target, node_>>

\* next = x->Next(level).
Loaded(r) == next_[x[r]][lv[r]]

\* FindGreaterOrEqual.
Bigger(r, n, k) == n = Nil \/ n = last[r] \/ n > k

StepGreaterOrEqual(r) ==
    LET n == Loaded(r)
        k == target[r]
    IN  /\ find[r] = "greaterOrEqual"
        /\ \/ Bigger(r, n, k) /\ lv[r] = 0 /\ Found(r, n)
           \/ ~Bigger(r, n, k) /\ n = k /\ Found(r, n)
           \/ ~Bigger(r, n, k) /\ n < k /\ Advance(r, n)
           \/ Bigger(r, n, k) /\ lv[r] > 0 /\ Descend(r, n)

\* FindLessThan without prev.
StepLessThan(r) ==
    LET n == Loaded(r)
        onward == n # last[r] /\ KeyIsAfterNode(node_[r], n)
    IN  /\ find[r] = "lessThan"
        /\ \/ onward /\ Advance(r, n)
           \/ ~onward /\ lv[r] = 0 /\ Found(r, x[r])
           \/ ~onward /\ lv[r] > 0 /\ Descend(r, n)

\* FindLast.
StepLast(r) ==
    LET n == Loaded(r)
    IN  /\ find[r] = "last"
        /\ \/ n # Nil /\ Advance(r, n)
           \/ n = Nil /\ lv[r] = 0 /\ Found(r, x[r])
           \/ n = Nil /\ lv[r] > 0 /\ Descend(r, Nil)

StepNext(r) == find[r] = "next" /\ Found(r, Loaded(r))

Step(r) ==
    /\ StepGreaterOrEqual(r) \/ StepLessThan(r) \/ StepLast(r) \/ StepNext(r)
    /\ UNCHANGED <<next_, max_height_, heights, prev_, prev_height_, writer>>

-----------------------------------------------------------------------------
Insert ==
    \/ \E k \in Keys : InsertFast(k) \/ InsertFind(k)
    \/ FindLessThan
    \/ \E h \in RandomHeight : InsertHeight(h)
    \/ InsertInit
    \/ InsertPublish

Calls(r) ==
    \/ \E k \in Keys, h \in heights : Seek(r, k, h)
    \/ \E k \in Keys, h \in heights : SeekForPrev(r, k, h)
    \/ \E h \in heights : SeekToLast(r, h)
    \/ \E h \in heights : Prev(r, h)
    \/ SeekToFirst(r)
    \/ Next_(r)

Next == Insert \/ \E r \in Readers : Calls(r) \/ Step(r)

Spec == Init /\ [][Next]_vars

\* A thread in a call keeps running.
FairSpec == Spec /\ \A r \in Readers : WF_vars(Step(r))

-----------------------------------------------------------------------------
\* Every variable keeps its type.
TypeOK ==
    /\ next_ \in [Nodes -> [Levels -> Nodes \cup {Nil, Junk}]]
    /\ max_height_ \in 1 .. kMaxHeight_
    /\ heights \subseteq 1 .. max_height_ /\ max_height_ \in heights
    /\ prev_ \in [Levels -> Nodes]
    /\ prev_height_ \in 1 .. kMaxHeight_
    /\ pc \in {"idle", "find", "height", "init", "publish"}
    /\ key \in Nodes /\ height \in 0 .. kMaxHeight_ /\ level \in Levels
    /\ at \in Nodes /\ notAfter \in Nodes \cup {Nil}
    /\ find \in [Readers -> {"none", "greaterOrEqual", "lessThan", "last", "next"}]
    /\ x \in [Readers -> Nodes]
    /\ lv \in [Readers -> Levels]
    /\ last \in [Readers -> Nodes \cup {Nil}]
    /\ call \in [Readers -> {"none", "Seek", "SeekForPrev", "SeekToLast", "Prev", "SeekToFirst", "Next"}]
    /\ target \in [Readers -> Keys \cup {Nil}]
    /\ node_ \in [Readers -> Keys \cup {Nil}]

\* The comment at prev_ and the assertion of the fast path: between two calls of
\* Insert, prev_[i] is the predecessor of prev_[0] on every level above 0, and
\* prev_[0] is the head only in the fresh list, whose heights are 1.
Predecessor(p, l) ==
    /\ p = head_ \/ p < prev_[0]
    /\ next_[p][l] = Nil \/ next_[p][l] >= prev_[0]
PrevIsPredecessor ==
    pc = "idle" =>
        /\ prev_[0] = head_ => Inserted = {} /\ heights = {1} /\ prev_height_ = 1
        /\ prev_[0] # head_ => \A l \in 1 .. max_height_ - 1 : Predecessor(prev_[l], l)

\* A reader only follows links that were stored: it never loads from a level its
\* node does not have, although it may start above the links of the head, on a
\* stale max_height_, or meet a node that Insert has linked in part.
OnlyStoredLinks ==
    \A r \in Readers : find[r] # "none" => Loaded(r) # Junk

\* The assertions of the searches: what lies behind the reader is before its key,
\* and the list ahead is sorted.
NotOvershot ==
    \A r \in Readers :
        /\ find[r] = "greaterOrEqual" => x[r] = head_ \/ x[r] < target[r]
        /\ find[r] = "lessThan" => x[r] = head_ \/ x[r] < node_[r]
        /\ find[r] # "none" /\ x[r] # head_ => Loaded(r) = Nil \/ Loaded(r) > x[r]

\* The nodes a link of a level leads to.
Linked(l) == {head_} \cup {n \in Keys : \E p \in Nodes : next_[p][l] = n}

\* Every level links in order exactly the nodes linked at it, and a node of a level is
\* on all levels below, at any moment of an Insert; the inserted keys are on level 0.
Follows(m, n, S) ==
    /\ m = Nil \/ (m \in S /\ m > n)
    /\ \A k \in S : k <= n \/ (m # Nil /\ k >= m)
LevelsAreNested ==
    /\ \A l \in Levels : \A n \in Linked(l) : Follows(next_[n][l], n, Linked(l))
    /\ \A l \in Levels : \A m \in 0 .. l : Linked(l) \subseteq Linked(m)
    /\ Inserted \subseteq Linked(0)

\* In every state the levels are sorted and nested, prev_ caches the predecessors
\* between calls of Insert, and no reader follows a link that was not stored or
\* passes its key.
Inv ==
    /\ TypeOK /\ LevelsAreNested /\ PrevIsPredecessor
    /\ OnlyStoredLinks /\ NotOvershot

\* Every query of a reader is answered exactly as of one moment while it ran, and
\* a key enters the set at one moment of its Insert (the release store at level 0).
OS == INSTANCE OrderedSet WITH
    set <- Linked(0) \ {head_},
    node <- [r \in Readers |-> IF call[r] = "none" THEN node_[r] ELSE Nil]
RefinesOrderedSet == OS!SetSpec

\* Searches end, the loop of SeekForPrev included, whatever Insert does meanwhile.
CallsReturn == \A r \in Readers : call[r] # "none" ~> call[r] = "none"
=============================================================================
