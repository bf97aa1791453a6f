---------------------------- MODULE SkipListProofs ----------------------------
(***************************************************************************)
(* The skip list, for any keys, any heights and any readers: its levels    *)
(* stay sorted and nested while one writer inserts, and a reader meets     *)
(* nothing but nodes that are linked.                                      *)
(***************************************************************************)
EXTENDS SkipList, TLAPS

USE SkipListAssumption

-----------------------------------------------------------------------------
(* skiplist.h: the inductive invariant *)

\* p is the predecessor of k at level l, or k is already linked behind it.
Precedes(p, k, l) ==
    /\ p \in Linked(l) /\ p < k
    /\ next_[p][l] = Nil \/ next_[p][l] >= k

\* The list: the levels are sorted and nested, those above max_height_ are empty, and
\* the links of a level belong to the nodes linked at it, or to the one about to be.
Stored(n, l) == n \in Linked(l) \/ (pc = "publish" /\ level = l /\ n = key)
ListInv ==
    /\ \A l \in Levels : \A n \in Linked(l) : Follows(next_[n][l], n, Linked(l))
    /\ \A l \in Levels : \A m \in 0 .. l : Linked(l) \subseteq Linked(m)
    /\ \A l \in max_height_ .. kMaxHeight_ - 1 : Linked(l) = {head_}
    /\ \A l \in Levels, n \in Keys : next_[n][l] # Junk => Stored(n, l)

\* Between two calls of Insert, prev_ holds the predecessors of the node inserted last.
IdleInv ==
    /\ key = head_ /\ height = 0 /\ level = 0
    /\ prev_[0] = head_ => Linked(0) = {head_} /\ heights = {1} /\ max_height_ = 1 /\ prev_height_ = 1
    /\ prev_[0] # head_ => \A l \in 0 .. max_height_ - 1 :
                             /\ prev_[0] \in Linked(l) <=> l < prev_height_
                             /\ l > 0 => Precedes(prev_[l], prev_[0], l)

\* In the search it holds those of the new key on the levels above the current one,
FindInv ==
    /\ key \in Keys \ Linked(0)
    /\ level < max_height_ /\ at \in Linked(level) /\ at < key
    /\ notAfter = Nil \/ notAfter >= key
    /\ \A l \in level + 1 .. max_height_ - 1 : Precedes(prev_[l], key, l)

\* and then on all of them, while the key is linked from level 0 up.
LinkInv ==
    /\ key \in Keys
    /\ \A l \in 0 .. max_height_ - 1 : Precedes(prev_[l], key, l) /\ (key \in Linked(l) <=> l < level)

WriterInv ==
    /\ pc = "idle" => IdleInv
    /\ pc = "find" => FindInv
    /\ pc = "height" => LinkInv /\ level = 0
    /\ pc \in {"init", "publish"} => LinkInv /\ level < height /\ height <= max_height_
    /\ pc = "publish" => next_[key][level] = next_[prev_[level]][level]

\* A reader is at a linked node before what it looks for; the last node it has rejected
\* was too far.  (f, n, l, m, c, t and i are its find, x, lv, last, call, target and node_.)
Reading(f, n, l, m, c, t, i) ==
    /\ i \in Linked(0) \cup {Nil}
    /\ n \in Linked(l)
    /\ f \in {"none", "next"} => l = 0
    /\ f = "none" <=> c = "none"
    /\ f = "greaterOrEqual" =>
          c \in {"Seek", "SeekForPrev"} /\ t \in Keys /\ n < t /\ (m = Nil \/ m > t)
    /\ f = "lessThan" =>
          /\ i \in Keys /\ n < i /\ (m = Nil \/ m >= i)
          /\ (c = "Prev" /\ t = i) \/ (c = "SeekForPrev" /\ t \in Keys /\ t < i)
    /\ f = "last" => c = "SeekToLast" \/ (c = "SeekForPrev" /\ t \in Keys)
    /\ f = "next" => (c = "Next" /\ t \in Keys /\ n = t) \/ (c = "SeekToFirst" /\ n = head_)
ReaderInv(r) == Reading(find[r], x[r], lv[r], last[r], call[r], target[r], node_[r])

SkipInv == TypeOK /\ ListInv /\ WriterInv /\ \A r \in Readers : ReaderInv(r)

-----------------------------------------------------------------------------
(* skiplist.h: the writer *)

\* The nodes are numbers, with the head before all keys.
LEMMA NodeFacts ==
    /\ Keys \subseteq Nodes /\ head_ = 0 /\ Nil = -1 /\ Junk = -2
    /\ \A n \in Nodes : n \in Int /\ n >= 0
    /\ \A n \in Keys : n > head_
BY DEF Nodes, head_, Nil, Junk

\* What is linked is a node.
LEMMA LinkedNodes ==
    ASSUME NEW l
    PROVE  head_ \in Linked(l) /\ Linked(l) \subseteq Nodes /\ Linked(l) \subseteq Int
<1>1. head_ \in Linked(l) /\ Linked(l) \subseteq Nodes
  BY Zenon DEF Linked, Nodes
<1>2. QED
  BY <1>1, NodeFacts, Zenon

\* The predecessors Insert keeps are nodes.
LEMMA PrevType ==
    ASSUME TypeOK, NEW l \in Levels
    PROVE  prev_[l] \in Nodes /\ prev_[l] \in Int
<1>1. prev_ \in [Levels -> Nodes]
  BY Zenon DEF TypeOK
<1>2. prev_[l] \in Nodes
  BY <1>1, Zenon
<1>3. QED
  BY <1>2, NodeFacts, Zenon

\* A link is a node, null or not yet stored.
LEMMA NextType ==
    ASSUME TypeOK, NEW n \in Nodes, NEW l \in Levels
    PROVE  next_[n][l] \in Nodes \cup {Nil, Junk} /\ next_[n][l] \in Int
<1>1. next_ \in [Nodes -> [Levels -> Nodes \cup {Nil, Junk}]]
  BY Zenon DEF TypeOK
<1>2. next_[n][l] \in Nodes \cup {Nil, Junk}
  BY <1>1, Zenon
<1>3. Nil \in Int /\ Junk \in Int
  BY DEF Nil, Junk
<1>4. QED
  BY <1>2, <1>3, NodeFacts, Zenon

\* While no link changes, the levels hold what they held.
LEMMA LinkedSame == next_' = next_ => \A l : Linked(l)' = Linked(l)
BY Zenon DEF Linked

\* Outside of a store of a link only Insert's own state can disturb the list.
LEMMA ListSame ==
    ASSUME ListInv, UNCHANGED next_, pc # "publish", max_height_' >= max_height_,
           max_height_ \in Nat, max_height_' \in Nat
    PROVE  ListInv'
<1>1. \A l : Linked(l)' = Linked(l)
  BY LinkedSame, Zenon
<1>2. \A l \in max_height_' .. kMaxHeight_ - 1 : l \in max_height_ .. kMaxHeight_ - 1
  OBVIOUS
<1>3. QED
  BY <1>1, <1>2, Zenon DEF ListInv, Stored, Follows

\* What follows a linked node on its level is linked there too, or nothing.
LEMMA NextLinked ==
    ASSUME ListInv, NEW l \in Levels, NEW n \in Linked(l)
    PROVE  /\ next_[n][l] = Nil \/ (next_[n][l] \in Linked(l) /\ next_[n][l] > n)
           /\ \A k \in Linked(l) : k <= n \/ (next_[n][l] # Nil /\ k >= next_[n][l])
BY Zenon DEF ListInv, Follows

\* Insert is called with a key that is not in the list, on any level.
LEMMA NotInserted ==
    ASSUME TypeOK, ListInv, pc = "idle", NEW k \in Keys, k \notin Inserted
    PROVE  k \notin Linked(0)
<1>1. 0 \in Levels
  BY DEF Levels
<1>2. k \in Linked(0) => next_[k][0] # Junk
  BY <1>1, NextLinked, NodeFacts, LinkedNodes
<1>3. QED
  BY <1>2, Zenon DEF Inserted

\* A key that is not linked at the lowest level is linked nowhere.
LEMMA NotLinked ==
    ASSUME TypeOK, ListInv, NEW k, k \notin Linked(0), NEW l \in 0 .. max_height_ - 1
    PROVE  l \in Levels /\ Linked(l) \subseteq Linked(0) /\ k \notin Linked(l)
<1>1. l \in Levels /\ 0 \in 0 .. l
  BY DEF TypeOK, Levels
<1>2. QED
  BY <1>1, Zenon DEF ListInv

\* Insert of a key behind the last inserted one keeps the predecessors it has.
LEMMA InsertFastStep ==
    ASSUME TypeOK, ListInv, WriterInv, NEW k \in Keys, InsertFast(k)
    PROVE  TypeOK' /\ ListInv' /\ WriterInv'
<1>1. /\ pc = "idle" /\ IdleInv /\ k \notin Inserted /\ FastPath(k) /\ prev_' = FastPrev
      /\ pc' = "height" /\ key' = k /\ level = 0
      /\ UNCHANGED <<next_, max_height_, heights, prev_height_, height, level, at, notAfter, reader>>
  BY Zenon DEF InsertFast, WriterInv, IdleInv
<1>2. TypeOK'
  BY <1>1, NodeFacts, Zenon DEF TypeOK, FastPrev, reader, search
<1>3. ListInv'
  BY <1>1, ListSame DEF TypeOK
<1>4. k \notin Linked(0)
  BY <1>1, NotInserted, Zenon
<1>5. ASSUME NEW l \in 0 .. max_height_ - 1
      PROVE  Precedes(prev_'[l], k, l) /\ k \notin Linked(l)
  <2>1. l \in Levels /\ 0 \in Levels /\ 0 \in 0 .. l /\ l \in Nat /\ 0 \in 0 .. max_height_ - 1
    BY DEF TypeOK, Levels
  <2>2. Linked(l) \subseteq Linked(0) /\ Linked(l) \subseteq Int /\ prev_[0] \in Int /\ k \in Int
    BY <2>1, NodeFacts, LinkedNodes, PrevType, Zenon DEF ListInv
  <2>3. prev_'[l] = IF l < prev_height_ THEN prev_[0] ELSE prev_[l]
    BY <1>1, <2>1, Zenon DEF FastPrev
  <2>4. next_[prev_[0]][0] = Nil \/ next_[prev_[0]][0] >= k
    <3>1. next_[prev_[0]][0] \in Int
      BY <2>1, PrevType, NextType, Zenon
    <3>2. QED
      BY <1>1, <2>2, <3>1 DEF FastPath, KeyIsAfterNode
  <2>5. CASE prev_[0] = head_
    BY <1>1, <1>4, <2>1, <2>2, <2>3, <2>4, <2>5, NodeFacts DEF IdleInv, Precedes
  <2>6. CASE prev_[0] # head_
    <3>1. prev_[0] < k /\ prev_[0] \in Linked(0)
      BY <1>1, <2>1, <2>6 DEF FastPath, KeyIsAfterNode, IdleInv, TypeOK
    <3>2. \A m \in Linked(l) : m <= prev_[0] \/ m >= k
      <4>1. \A m \in Linked(0) : m <= prev_[0] \/ (next_[prev_[0]][0] # Nil /\ m >= next_[prev_[0]][0])
        BY <2>1, <3>1, NextLinked, Zenon
      <4>2. prev_[0] \in Nodes /\ next_[prev_[0]][0] \in Int
        BY <2>1, PrevType, NextType, Zenon
      <4>3. QED
        BY <2>2, <2>4, <4>1, <4>2, NodeFacts
    <3>3. prev_'[l] \in Linked(l) /\ prev_'[l] <= prev_[0]
      BY <1>1, <2>1, <2>3, <2>6, NodeFacts DEF IdleInv, Precedes, TypeOK
    <3>4. next_[prev_'[l]][l] = Nil \/ next_[prev_'[l]][l] > prev_[0]
      <4>1. next_[prev_'[l]][l] = Nil \/ (next_[prev_'[l]][l] \in Linked(l) /\ next_[prev_'[l]][l] > prev_'[l])
        BY <2>1, <3>3, NextLinked, Zenon
      <4>2. l >= prev_height_ => next_[prev_'[l]][l] = Nil \/ next_[prev_'[l]][l] >= prev_[0]
        BY <1>1, <2>1, <2>3, <2>6 DEF IdleInv, Precedes, TypeOK
      <4>3. l >= prev_height_ => prev_[0] \notin Linked(l)
        BY <1>1, <2>1, <2>6 DEF IdleInv, TypeOK
      <4>4. prev_height_ \in Int
        BY DEF TypeOK
      <4>5. QED
        BY <2>1, <2>2, <2>3, <4>1, <4>2, <4>3, <4>4
    <3>5. QED
      <4>1. next_[prev_'[l]][l] = Nil \/ next_[prev_'[l]][l] \in Linked(l)
        BY <2>1, <3>3, NextLinked, Zenon
      <4>2. QED
        BY <1>4, <2>2, <3>1, <3>2, <3>3, <3>4, <4>1 DEF Precedes
  <2>7. QED
    BY <2>5, <2>6, Zenon
<1>6. LinkInv'
  BY <1>1, <1>5, LinkedSame DEF LinkInv, Precedes
<1>7. QED
  BY <1>1, <1>2, <1>3, <1>6, Zenon DEF WriterInv

\* Insert of any other key starts a search for its predecessors.
LEMMA InsertFindStep ==
    ASSUME TypeOK, ListInv, WriterInv, NEW k \in Keys, InsertFind(k)
    PROVE  TypeOK' /\ ListInv' /\ WriterInv'
<1>1. /\ pc = "idle" /\ k \notin Inserted /\ pc' = "find" /\ key' = k
      /\ at' = head_ /\ level' = max_height_ - 1 /\ notAfter' = Nil
      /\ UNCHANGED <<next_, max_height_, heights, prev_, prev_height_, height, reader>>
  BY Zenon DEF InsertFind
<1>2. max_height_ \in 1 .. kMaxHeight_ /\ level' \in Levels
  BY <1>1 DEF TypeOK, Levels
<1>3. TypeOK'
  BY <1>1, <1>2, NodeFacts, Zenon DEF TypeOK, reader, search, Nodes
<1>4. ListInv'
  BY <1>1, <1>2, ListSame
<1>5. k \notin Linked(0)
  BY <1>1, NotInserted, Zenon
<1>6. FindInv'
  <2>1. key' \in Keys \ Linked(0)'
    BY <1>1, <1>5, LinkedSame, Zenon
  <2>2. (at \in Linked(level) /\ at < key)'
    <3>1. (at \in Linked(level))'
      BY <1>1, Zenon DEF Linked
    <3>2. QED
      BY <1>1, <3>1, NodeFacts, Zenon
  <2>3. level' < max_height_' /\ level' + 1 .. max_height_' - 1 = {}
    BY <1>1, <1>2
  <2>4. QED
    BY <1>1, <2>1, <2>2, <2>3, Zenon DEF FindInv
<1>7. QED
  BY <1>1, <1>3, <1>4, <1>6, Zenon DEF WriterInv

\* A step of FindLessThan goes on to the next node or down a level.
LEMMA FindLessThanStep ==
    ASSUME TypeOK, ListInv, WriterInv, FindLessThan
    PROVE  TypeOK' /\ ListInv' /\ WriterInv'
<1> DEFINE n == next_[at][level]
           onward == n # notAfter /\ KeyIsAfterNode(key, n)
<1>1. /\ pc = "find" /\ FindInv
      /\ UNCHANGED <<next_, max_height_, heights, prev_height_, key, height, reader>>
  BY Zenon DEF FindLessThan, WriterInv
<1>2. /\ max_height_ \in 1 .. kMaxHeight_ /\ level \in Levels /\ level \in Nat
      /\ level \in 0 .. max_height_ - 1 /\ key \in Int /\ at \in Int
  BY <1>1, NodeFacts DEF TypeOK, Levels, FindInv
<1>3. ListInv'
  BY <1>1, <1>2, ListSame
<1>4. n = Nil \/ (n \in Linked(level) /\ n > at)
  BY <1>1, <1>2, NextLinked, Zenon DEF FindInv
<1>5. n \in Int /\ n \in Nodes \cup {Nil}
  BY <1>4, NodeFacts, LinkedNodes
<1>6. \A l : Linked(l)' = Linked(l)
  BY <1>1, LinkedSame, Zenon
<1>7. CASE onward
  <2>1. at' = n /\ UNCHANGED <<prev_, pc, level, notAfter>>
    BY <1>7, Zenon DEF FindLessThan
  <2>2. n \in Linked(level) /\ n < key /\ n \in Nodes
    BY <1>4, <1>5, <1>7, LinkedNodes, Zenon DEF KeyIsAfterNode
  <2>3. TypeOK'
    BY <1>1, <2>1, <2>2, Zenon DEF TypeOK, reader, search
  <2>4. FindInv'
    BY <1>1, <1>6, <2>1, <2>2, Zenon DEF FindInv, Precedes
  <2>5. QED
    BY <1>1, <1>3, <2>1, <2>3, <2>4, Zenon DEF WriterInv
<1>8. CASE ~onward
  <2>1. prev_' = [prev_ EXCEPT ![level] = at]
    BY <1>8, Zenon DEF FindLessThan
  <2>2. Precedes(at, key, level)
    BY <1>1, <1>2, <1>5, <1>8 DEF KeyIsAfterNode, FindInv, Precedes
  <2>3. prev_' \in [Levels -> Nodes] /\ \A l \in Levels : prev_'[l] = IF l = level THEN at ELSE prev_[l]
    BY <2>1, Zenon DEF TypeOK
  <2>4. \A l \in level .. max_height_ - 1 : Precedes(prev_'[l], key, l)
    BY <1>1, <1>2, <2>2, <2>3 DEF FindInv, Levels
  <2>5. CASE level = 0
    <3>1. pc' = "height" /\ at' = head_ /\ notAfter' = Nil /\ level' = 0
      BY <1>8, <2>5, Zenon DEF FindLessThan
    <3>2. TypeOK'
      BY <1>1, <2>3, <2>5, <3>1, NodeFacts, Zenon DEF TypeOK, reader, search, Nodes
    <3>3. \A l \in 0 .. max_height_ - 1 : key \notin Linked(l)
      BY <1>1, NotLinked, Zenon DEF FindInv
    <3>4. LinkInv'
      BY <1>1, <1>6, <2>4, <2>5, <3>1, <3>3 DEF LinkInv, Precedes, FindInv
    <3>5. QED
      BY <1>1, <1>3, <3>1, <3>2, <3>4, Zenon DEF WriterInv
  <2>6. CASE level # 0
    <3>1. level' = level - 1 /\ notAfter' = n /\ UNCHANGED <<pc, at>>
      BY <1>8, <2>6, Zenon DEF FindLessThan
    <3>2. level' \in Levels /\ level' < max_height_
      BY <1>2, <2>6, <3>1 DEF Levels
    <3>3. TypeOK'
      BY <1>1, <1>5, <2>3, <3>1, <3>2, Zenon DEF TypeOK, reader, search
    <3>4. at \in Linked(level - 1)
      <4>1. level - 1 \in 0 .. level
        BY <1>2, <2>6
      <4>2. QED
        BY <1>1, <1>2, <4>1, Zenon DEF ListInv, FindInv
    <3>5. n = Nil \/ n >= key
      BY <1>1, <1>2, <1>5, <1>8 DEF KeyIsAfterNode, FindInv
    <3>6. \A l \in level' + 1 .. max_height_ - 1 : l \in level .. max_height_ - 1
      BY <1>2, <3>1
    <3>7. FindInv'
      BY <1>1, <1>6, <2>4, <3>1, <3>2, <3>4, <3>5, <3>6, Zenon DEF FindInv, Precedes
    <3>8. QED
      BY <1>1, <1>3, <3>1, <3>3, <3>7, Zenon DEF WriterInv
  <2>7. QED
    BY <2>5, <2>6, Zenon
<1>9. QED
  BY <1>7, <1>8, Zenon

\* A level below a height exists.
LEMMA LevelBelow ==
    ASSUME NEW m \in 1 .. kMaxHeight_, NEW l \in Nat, l <= m - 1
    PROVE  l \in Levels
BY DEF Levels

\* Insert draws the height of the node and raises max_height_.
LEMMA InsertHeightStep ==
    ASSUME TypeOK, ListInv, WriterInv, NEW h \in RandomHeight, InsertHeight(h)
    PROVE  TypeOK' /\ ListInv' /\ WriterInv'
<1>1. /\ pc = "height" /\ LinkInv /\ level = 0 /\ prev_' = PrevAtNewLevels(h)
      /\ height' = h /\ pc' = "init"
      /\ UNCHANGED <<next_, prev_height_, key, level, at, notAfter, reader>>
  BY Zenon DEF InsertHeight, WriterInv
<1>2. /\ max_height_ \in 1 .. kMaxHeight_ /\ h \in 1 .. kMaxHeight_
      /\ max_height_' = IF h > max_height_ THEN h ELSE max_height_
      /\ heights' = IF h > max_height_ THEN heights \cup {h} ELSE heights
  BY Zenon DEF InsertHeight, TypeOK, RandomHeight
<1>3. /\ max_height_' \in 1 .. kMaxHeight_ /\ max_height_' >= max_height_ /\ h <= max_height_'
      /\ heights' \subseteq 1 .. max_height_' /\ max_height_' \in heights'
  BY <1>2 DEF TypeOK
<1>4. /\ prev_' \in [Levels -> Nodes]
      /\ \A l \in Levels : prev_'[l] = IF l >= max_height_ /\ l < h THEN head_ ELSE prev_[l]
  BY <1>1, NodeFacts, Zenon DEF PrevAtNewLevels, TypeOK, Nodes
<1>5. TypeOK'
  BY <1>1, <1>2, <1>3, <1>4 DEF TypeOK, reader, search
<1>6. ListInv'
  BY <1>1, <1>2, <1>3, ListSame
<1>7. \A l : Linked(l)' = Linked(l)
  BY <1>1, LinkedSame, Zenon
<1>8. key \in Keys /\ key \notin Linked(0)
  <2>1. 0 \in 0 .. max_height_ - 1
    BY <1>2
  <2>2. QED
    BY <1>1, <2>1 DEF LinkInv
<1>9. ASSUME NEW l \in Nat, l <= max_height_' - 1
      PROVE  Precedes(prev_'[l], key, l) /\ key \notin Linked(l)
  <2>1. l \in Levels /\ l \in Nat
    <3>1. max_height_' \in 1 .. kMaxHeight_
      BY <1>3, Zenon
    <3>2. l <= max_height_' - 1
      BY <1>9, Zenon
    <3>3. QED
      BY <3>1, <3>2, LevelBelow, Zenon
  <2>2. CASE l < max_height_
    <3>1. l \in 0 .. max_height_ - 1 /\ prev_'[l] = prev_[l]
      BY <1>2, <1>4, <2>1, <2>2
    <3>2. QED
      BY <1>1, <1>8, <3>1, NotLinked, Zenon DEF LinkInv
  <2>3. CASE l >= max_height_
    <3>1. prev_'[l] = head_
      BY <1>2, <1>4, <1>9, <2>1, <2>3
    <3>2. Linked(l) = {head_}
      BY <1>2, <2>1, <2>3 DEF ListInv, Levels
    <3>3. next_[head_][l] = Nil
      BY <2>1, <3>2, NextLinked, NodeFacts
    <3>4. QED
      BY <1>8, <3>1, <3>2, <3>3, NodeFacts, Zenon DEF Precedes
  <2>4. QED
    BY <1>2, <2>1, <2>2, <2>3
<1>10. LinkInv'
  BY <1>1, <1>7, <1>8, <1>9 DEF LinkInv, Precedes
<1>11. QED
  BY <1>1, <1>2, <1>3, <1>5, <1>6, <1>10 DEF WriterInv

\* NoBarrier_SetNext of the new node: it leads to where its predecessor's link does, and
\* no level changes.
LEMMA InsertInitStep ==
    ASSUME TypeOK, ListInv, WriterInv, InsertInit
    PROVE  TypeOK' /\ ListInv' /\ WriterInv' /\ \A l \in Levels : Linked(l)' = Linked(l)
<1>1. /\ pc = "init" /\ LinkInv /\ level < height /\ height <= max_height_ /\ pc' = "publish"
      /\ next_' = [next_ EXCEPT ![key][level] = next_[prev_[level]][level]]
      /\ UNCHANGED <<max_height_, heights, prev_, prev_height_, key, height, level, at, notAfter, reader>>
  BY Zenon DEF InsertInit, WriterInv
<1>2. /\ max_height_ \in 1 .. kMaxHeight_ /\ level \in Levels /\ level \in Nat /\ key \in Keys
      /\ height \in Nat /\ key \in Nodes
  BY <1>1, NodeFacts DEF TypeOK, Levels, LinkInv
<1>3. level \in 0 .. max_height_ - 1
  BY <1>1, <1>2
<1>4. Precedes(prev_[level], key, level) /\ key \notin Linked(level)
  BY <1>1, <1>2, <1>3 DEF LinkInv
<1>5. prev_[level] \in Linked(level) /\ prev_[level] \in Nodes /\ prev_[level] # key
  BY <1>4, LinkedNodes, Zenon DEF Precedes
<1> DEFINE n == next_[prev_[level]][level]
<1>6. n = Nil \/ n \in Linked(level)
  BY <1>2, <1>5, NextLinked, Zenon
<1>7. next_[key][level] = Junk
  BY <1>1, <1>2, <1>4, Zenon DEF ListInv, Stored
<1>8. n \in Nodes \cup {Nil, Junk}
  BY <1>6, LinkedNodes, Zenon
<1>9. next_ \in [Nodes -> [Levels -> Nodes \cup {Nil, Junk}]]
  BY Zenon DEF TypeOK
<1>10. /\ next_' \in [Nodes -> [Levels -> Nodes \cup {Nil, Junk}]]
       /\ \A p \in Nodes, l \in Levels :
             next_'[p][l] = IF p = key /\ l = level THEN n ELSE next_[p][l]
  BY <1>1, <1>2, <1>8, <1>9, Zenon
<1>11. TypeOK'
  BY <1>1, <1>10, Zenon DEF TypeOK, reader, search
<1>12. ASSUME NEW l \in Levels PROVE Linked(l)' = Linked(l)
  <2>1. \A k \in Keys : (\E p \in Nodes : next_'[p][l] = k) <=> (\E p \in Nodes : next_[p][l] = k)
    <3> SUFFICES ASSUME NEW k \in Keys
                 PROVE  (\E p \in Nodes : next_'[p][l] = k) <=> (\E p \in Nodes : next_[p][l] = k)
      BY Zenon
    <3>1. k # Junk
      BY NodeFacts
    <3>2. ASSUME NEW p \in Nodes, next_'[p][l] = k PROVE \E q \in Nodes : next_[q][l] = k
      BY <1>2, <1>5, <1>10, <3>2, Zenon
    <3>3. ASSUME NEW p \in Nodes, next_[p][l] = k PROVE next_'[p][l] = k
      BY <1>7, <1>10, <3>1, <3>3, Zenon
    <3>4. QED
      BY <3>2, <3>3, Zenon
  <2>2. QED
    BY <2>1, Zenon DEF Linked
<1>13. \A l \in Levels : \A p \in Linked(l) : p \in Nodes /\ next_'[p][l] = next_[p][l]
  BY <1>4, <1>10, LinkedNodes, Zenon
<1>14. ListInv'
  <2>1. \A l \in Levels : \A p \in Linked(l)' : Follows(next_[p][l], p, Linked(l))'
    BY <1>12, <1>13 DEF ListInv, Follows
  <2>2. \A l \in Levels : \A m \in 0 .. l : m \in Levels
    BY DEF Levels
  <2>3. \A l \in Levels : \A m \in 0 .. l : Linked(l)' \subseteq Linked(m)'
    BY <1>12, <2>2 DEF ListInv
  <2>4. \A l \in max_height_' .. kMaxHeight_ - 1 : Linked(l)' = {head_}
    BY <1>1, <1>2, <1>12 DEF ListInv, Levels
  <2>5. \A l \in Levels, p \in Keys : next_'[p][l] # Junk => Stored(p, l)'
    BY <1>1, <1>10, <1>12, NodeFacts DEF ListInv, Stored
  <2>6. QED
    BY <2>1, <2>3, <2>4, <2>5, Zenon DEF ListInv
<1>15. \A l \in 0 .. max_height_ - 1 : l \in Levels
  BY <1>2 DEF Levels
<1>16. LinkInv'
  BY <1>1, <1>12, <1>13, <1>15 DEF LinkInv, Precedes
<1>17. next_'[key][level] = next_'[prev_[level]][level]
  BY <1>2, <1>5, <1>10, Zenon
<1>18. QED
  BY <1>1, <1>11, <1>12, <1>14, <1>16, <1>17, Zenon DEF WriterInv

\* A key linked between p and what follows p.
LEMMA FollowsInsert ==
    ASSUME NEW S \in SUBSET Nodes, NEW p \in S, NEW k \in Keys, k \notin S, p < k,
           NEW m \in Int, m = Nil \/ m > k, Follows(m, p, S)
    PROVE  /\ Follows(k, p, S \cup {k}) /\ Follows(m, k, S \cup {k})
           /\ \A n \in S \ {p}, q \in Int : Follows(q, n, S) => Follows(q, n, S \cup {k})
<1>1. \A n \in S : n \in Int
  BY NodeFacts, Zenon
<1>2. k \in Int /\ k # Nil
  BY NodeFacts
<1>3. QED
  BY <1>1, <1>2 DEF Follows

\* SetNext of the predecessor publishes the new node at its level, and no other.
LEMMA PublishLinks ==
    ASSUME TypeOK, ListInv, WriterInv, pc = "publish",
           next_' = [next_ EXCEPT ![prev_[level]][level] = key]
    PROVE  /\ prev_[level] \in Nodes /\ level \in Levels /\ level \in 0 .. max_height_ - 1
           /\ key \in Nodes /\ key \in Keys /\ key \notin Linked(level)
           /\ next_' \in [Nodes -> [Levels -> Nodes \cup {Nil, Junk}]]
           /\ \A p \in Nodes, l \in Levels :
                 next_'[p][l] = IF p = prev_[level] /\ l = level THEN key ELSE next_[p][l]
           /\ \A l \in Levels : Linked(l)' = IF l = level THEN Linked(l) \cup {key} ELSE Linked(l)
<1>1. /\ LinkInv /\ level < height /\ height <= max_height_
      /\ next_[key][level] = next_[prev_[level]][level]
  BY Zenon DEF WriterInv
<1>2. level \in Levels /\ level \in 0 .. max_height_ - 1 /\ key \in Keys /\ key \in Nodes
  BY <1>1, NodeFacts DEF TypeOK, Levels, LinkInv
<1>3. Precedes(prev_[level], key, level) /\ key \notin Linked(level)
  BY <1>1, <1>2 DEF LinkInv, Levels
<1>4. prev_[level] \in Nodes /\ prev_[level] # key
  BY <1>3, LinkedNodes, Zenon DEF Precedes
<1>5. next_ \in [Nodes -> [Levels -> Nodes \cup {Nil, Junk}]]
  BY Zenon DEF TypeOK
<1>6. /\ next_' \in [Nodes -> [Levels -> Nodes \cup {Nil, Junk}]]
      /\ \A p \in Nodes, l \in Levels :
            next_'[p][l] = IF p = prev_[level] /\ l = level THEN key ELSE next_[p][l]
  BY <1>2, <1>4, <1>5, Zenon
<1>7. ASSUME NEW l \in Levels
      PROVE  Linked(l)' = IF l = level THEN Linked(l) \cup {key} ELSE Linked(l)
  <2>1. ASSUME NEW k \in Keys
        PROVE  (\E p \in Nodes : next_'[p][l] = k) <=> (\E p \in Nodes : next_[p][l] = k) \/ (l = level /\ k = key)
    <3>1. ASSUME NEW p \in Nodes, next_'[p][l] = k
          PROVE  (\E q \in Nodes : next_[q][l] = k) \/ (l = level /\ k = key)
      BY <1>6, <3>1, Zenon
    <3>2. ASSUME NEW p \in Nodes, next_[p][l] = k PROVE \E q \in Nodes : next_'[q][l] = k
      <4>1. CASE p = prev_[level] /\ l = level
        BY <1>1, <1>2, <1>4, <1>6, <3>2, <4>1, Zenon
      <4>2. CASE ~(p = prev_[level] /\ l = level)
        BY <1>6, <3>2, <4>2
      <4>3. QED
        BY <4>1, <4>2, Zenon
    <3>3. l = level => next_'[prev_[level]][l] = key
      BY <1>4, <1>6, Zenon
    <3>4. QED
      BY <1>4, <3>1, <3>2, <3>3, Zenon
  <2>2. QED
    BY <1>2, <2>1, Zenon DEF Linked
<1>8. QED
  BY <1>2, <1>3, <1>4, <1>6, <1>7, Zenon

\* Insert links the node at one level with a release store.
LEMMA InsertPublishStep ==
    ASSUME TypeOK, ListInv, WriterInv, InsertPublish
    PROVE  TypeOK' /\ ListInv' /\ WriterInv' /\ \A l \in Levels : Linked(l) \subseteq Linked(l)'
<1>1. /\ pc = "publish" /\ LinkInv /\ level < height /\ height <= max_height_
      /\ next_' = [next_ EXCEPT ![prev_[level]][level] = key]
      /\ next_[key][level] = next_[prev_[level]][level]
      /\ UNCHANGED <<max_height_, heights, at, notAfter, reader>>
  BY Zenon DEF InsertPublish, WriterInv
<1> DEFINE p == prev_[level]
<1>2. /\ p \in Nodes /\ level \in Levels /\ level \in 0 .. max_height_ - 1
      /\ key \in Nodes /\ key \in Keys /\ key \notin Linked(level)
      /\ next_' \in [Nodes -> [Levels -> Nodes \cup {Nil, Junk}]]
      /\ \A n \in Nodes, l \in Levels :
            next_'[n][l] = IF n = p /\ l = level THEN key ELSE next_[n][l]
  BY <1>1, PublishLinks, Zenon
<1>3. \A l \in Levels : Linked(l)' = IF l = level THEN Linked(l) \cup {key} ELSE Linked(l)
  BY <1>1, PublishLinks, Zenon
<1>4. \A l \in Levels : Linked(l) \subseteq Linked(l)'
  BY <1>3, Zenon
<1>5. max_height_ \in 1 .. kMaxHeight_ /\ height \in 1 .. kMaxHeight_
  BY <1>1, <1>2 DEF TypeOK, Levels
<1>6. p \in Linked(level) /\ p < key /\ (next_[p][level] = Nil \/ next_[p][level] > key) /\ p # key
  <2>1. Precedes(p, key, level)
    BY <1>1, <1>2, Zenon DEF LinkInv
  <2>2. next_[p][level] = Nil \/ next_[p][level] \in Linked(level)
    BY <1>2, <2>1, NextLinked, Zenon DEF Precedes
  <2>3. next_[p][level] \in Int /\ key \in Int
    BY <1>2, NextType, NodeFacts, Zenon
  <2>4. QED
    BY <1>2, <2>1, <2>2, <2>3 DEF Precedes
<1>7. ASSUME NEW l \in Levels, NEW n \in Linked(l)' PROVE Follows(next_[n][l], n, Linked(l))'
  <2>1. CASE l # level
    <3>1. Linked(l)' = Linked(l) /\ n \in Nodes
      BY <1>3, <1>7, <2>1, LinkedNodes, Zenon
    <3>2. next_'[n][l] = next_[n][l]
      BY <1>2, <2>1, <3>1, Zenon
    <3>3. QED
      BY <1>7, <3>1, <3>2 DEF ListInv, Follows
  <2>2. CASE l = level
    <3> DEFINE S == Linked(level)
    <3>1. /\ S \in SUBSET Nodes /\ p \in S /\ key \in Keys /\ key \notin S /\ p < key
          /\ next_[p][level] \in Int /\ (next_[p][level] = Nil \/ next_[p][level] > key)
      BY <1>2, <1>6, LinkedNodes, NextType, Zenon
    <3>2. Follows(next_[p][level], p, S)
      BY <1>2, <3>1, Zenon DEF ListInv
    <3>3. /\ Follows(key, p, S \cup {key}) /\ Follows(next_[p][level], key, S \cup {key})
          /\ \A m \in S \ {p}, q \in Int : Follows(q, m, S) => Follows(q, m, S \cup {key})
      BY <3>1, <3>2, FollowsInsert, Zenon
    <3>4. n \in S \cup {key} /\ Linked(l)' = S \cup {key}
      BY <1>3, <1>7, <2>2, Zenon
    <3>5. Follows(next_'[n][l], n, S \cup {key})
      <4>1. CASE n = p
        BY <1>2, <2>2, <3>3, <4>1, Zenon
      <4>2. CASE n = key
        BY <1>1, <1>2, <1>6, <2>2, <3>3, <4>2, Zenon
      <4>3. CASE n \in S \ {p}
        <5>1. n \in Nodes /\ next_'[n][l] = next_[n][l]
          BY <1>2, <3>1, <4>3, Zenon
        <5>2. next_[n][l] \in Int /\ Follows(next_[n][l], n, S)
          BY <2>2, <4>3, <5>1, NextType, Zenon DEF ListInv
        <5>3. QED
          BY <3>3, <4>3, <5>1, <5>2, Zenon
      <4>4. QED
        BY <3>4, <4>1, <4>2, <4>3, Zenon
    <3>6. QED
      BY <3>4, <3>5, Zenon DEF Follows
  <2>3. QED
    BY <2>1, <2>2, Zenon
<1>8. ListInv'
  <2>1. ASSUME NEW l \in Levels, NEW m \in 0 .. l PROVE Linked(l)' \subseteq Linked(m)'
    <3>1. m \in Levels /\ Linked(l) \subseteq Linked(m)
      BY DEF Levels, ListInv
    <3>2. l = level /\ m # level => key \in Linked(m)
      <4>0. level \in 0 .. max_height_ - 1 /\ max_height_ \in Int /\ m \in 0 .. l
        BY <1>2, <1>5
      <4>1. l = level /\ m # level => m \in 0 .. max_height_ - 1 /\ m < level
        BY <4>0
      <4>2. QED
        BY <1>1, <4>1, Zenon DEF LinkInv
    <3>3. QED
      BY <1>3, <3>1, <3>2, Zenon
  <2>2. \A l \in max_height_' .. kMaxHeight_ - 1 : Linked(l)' = {head_}
    <3>1. \A l \in max_height_ .. kMaxHeight_ - 1 : l \in Levels /\ l # level
      BY <1>2, <1>5 DEF Levels
    <3>2. \A l \in max_height_ .. kMaxHeight_ - 1 : Linked(l) = {head_}
      BY Zenon DEF ListInv
    <3>3. max_height_' = max_height_
      BY <1>1, Zenon
    <3>4. QED
      BY <1>3, <3>1, <3>2, <3>3, Zenon
  <2>3. ASSUME NEW l \in Levels, NEW n \in Keys, next_'[n][l] # Junk PROVE n \in Linked(l)'
    <3>1. n \in Nodes
      BY NodeFacts, Zenon
    <3>2. next_'[n][l] = IF n = p /\ l = level THEN key ELSE next_[n][l]
      BY <1>2, <3>1, Zenon
    <3>3. CASE n = p /\ l = level
      BY <1>3, <1>6, <3>3, Zenon
    <3>4. CASE ~(n = p /\ l = level)
      <4>1. Stored(n, l)
        BY <2>3, <3>2, <3>4, Zenon DEF ListInv
      <4>2. QED
        BY <1>3, <4>1, Zenon DEF Stored
    <3>5. QED
      BY <3>3, <3>4, Zenon
  <2>4. QED
    BY <1>7, <2>1, <2>2, <2>3, Zenon DEF ListInv, Stored
<1>9. ASSUME NEW l \in 0 .. max_height_ - 1
      PROVE  /\ l \in Levels /\ prev_[l] \in Linked(l)' /\ prev_[l] < key
             /\ next_'[prev_[l]][l] = Nil \/ next_'[prev_[l]][l] >= key
             /\ key \in Linked(l)' <=> l < level + 1
  <2>1. l \in Levels /\ Precedes(prev_[l], key, l) /\ (key \in Linked(l) <=> l < level) /\ key \in Int
    BY <1>1, <1>2, <1>5, NodeFacts DEF LinkInv, Levels
  <2>2. prev_[l] \in Nodes
    BY <2>1, PrevType, Zenon
  <2>3. /\ prev_[l] \in Linked(l) /\ prev_[l] < key
        /\ next_[prev_[l]][l] = Nil \/ next_[prev_[l]][l] >= key
    BY <2>1, Zenon DEF Precedes
  <2>4. next_'[prev_[l]][l] = key \/ next_'[prev_[l]][l] = next_[prev_[l]][l]
    BY <1>2, <2>1, <2>2, Zenon
  <2>5. key >= key /\ l \in Int /\ level \in Int
    BY <1>2, <2>1 DEF Levels
  <2>6. prev_[l] \in Linked(l)' /\ (key \in Linked(l)' <=> key \in Linked(l) \/ l = level)
    BY <1>3, <2>1, <2>3, Zenon
  <2>7. key \in Linked(l)' <=> l < level + 1
    BY <2>1, <2>5, <2>6
  <2>8. next_'[prev_[l]][l] = Nil \/ next_'[prev_[l]][l] >= key
    BY <2>3, <2>4, <2>5, Zenon
  <2>9. QED
    BY <2>1, <2>3, <2>6, <2>7, <2>8, Zenon
<1>10. CASE level + 1 < height
  <2>1. level' = level + 1 /\ pc' = "init" /\ UNCHANGED <<prev_, prev_height_, key, height>>
    BY <1>10, Zenon DEF InsertPublish
  <2>2. level' \in Levels
    BY <1>2, <1>5, <1>10, <2>1 DEF Levels
  <2>3. TypeOK'
    BY <1>1, <1>2, <2>1, <2>2, Zenon DEF TypeOK, reader, search
  <2>4. LinkInv'
    BY <1>1, <1>2, <1>9, <2>1, Zenon DEF LinkInv, Precedes
  <2>5. QED
    BY <1>1, <1>4, <1>8, <1>10, <2>1, <2>3, <2>4, Zenon DEF WriterInv
<1>11. CASE ~(level + 1 < height)
  <2>1. /\ prev_' = [prev_ EXCEPT ![0] = key] /\ prev_height_' = height
        /\ pc' = "idle" /\ key' = head_ /\ height' = 0 /\ level' = 0
    BY <1>11, Zenon DEF InsertPublish
  <2>2. 0 \in Levels /\ level + 1 = height
    BY <1>1, <1>2, <1>5, <1>11 DEF Levels
  <2>3. /\ prev_' \in [Levels -> Nodes] /\ prev_'[0] = key
        /\ \A l \in Levels \ {0} : prev_'[l] = prev_[l]
    BY <1>2, <2>1, <2>2, Zenon DEF TypeOK
  <2>4. TypeOK'
    BY <1>1, <1>2, <1>5, <2>1, <2>2, <2>3 DEF TypeOK, reader, search, Nodes
  <2>5. key # head_
    BY <1>2, NodeFacts, Zenon
  <2>6. IdleInv'
    BY <1>1, <1>9, <2>1, <2>2, <2>3, <2>5 DEF IdleInv, Precedes
  <2>7. QED
    BY <1>4, <1>8, <2>1, <2>4, <2>6, Zenon DEF WriterInv
<1>12. QED
  BY <1>10, <1>11, Zenon

-----------------------------------------------------------------------------
(* skiplist.h: the readers *)

\* Insert only adds nodes to levels and disturbs no reader.
LEMMA InsertStep ==
    ASSUME SkipInv, Insert
    PROVE  SkipInv' /\ UNCHANGED reader /\ \A l \in Levels : Linked(l) \subseteq Linked(l)'
<1>1. /\ TypeOK' /\ ListInv' /\ WriterInv' /\ UNCHANGED reader
      /\ \A l \in Levels : Linked(l) \subseteq Linked(l)'
  <2>1. CASE \E k \in Keys : InsertFast(k)
    BY <2>1, InsertFastStep, LinkedSame, Zenon DEF SkipInv, InsertFast
  <2>2. CASE \E k \in Keys : InsertFind(k)
    BY <2>2, InsertFindStep, LinkedSame, Zenon DEF SkipInv, InsertFind
  <2>3. CASE FindLessThan
    BY <2>3, FindLessThanStep, LinkedSame, Zenon DEF SkipInv, FindLessThan
  <2>4. CASE \E h \in RandomHeight : InsertHeight(h)
    BY <2>4, InsertHeightStep, LinkedSame, Zenon DEF SkipInv, InsertHeight
  <2>5. CASE InsertInit
    BY <2>5, InsertInitStep, Zenon DEF SkipInv, InsertInit
  <2>6. CASE InsertPublish
    BY <2>6, InsertPublishStep, Zenon DEF SkipInv, InsertPublish
  <2>7. QED
    BY <2>1, <2>2, <2>3, <2>4, <2>5, <2>6, Zenon DEF Insert
<1>2. ASSUME NEW r \in Readers PROVE ReaderInv(r)'
  <2>1. lv[r] \in Levels /\ 0 \in Levels
    BY DEF SkipInv, TypeOK, Levels
  <2>2. ReaderInv(r)
    BY Zenon DEF SkipInv
  <2>3. UNCHANGED <<find, x, lv, last, call, target, node_>>
    BY <1>1, Zenon DEF reader, search
  <2>4. QED
    BY <1>1, <2>1, <2>2, <2>3, Zenon DEF ReaderInv, Reading
<1>3. QED
  BY <1>1, <1>2, Zenon DEF SkipInv

Finds == {"none", "greaterOrEqual", "lessThan", "last", "next"}
Ops == {"none", "Seek", "SeekForPrev", "SeekToLast", "Prev", "SeekToFirst", "Next"}

\* A step of a reader changes its own state and nothing else.
shared == <<next_, max_height_, heights, prev_, prev_height_, writer>>
\* A step of one reader keeps the invariant if what it stands on and has loaded is right.
LEMMA ReaderUpdate ==
    ASSUME SkipInv, UNCHANGED shared, NEW r \in Readers,
           NEW f \in Finds,
           NEW n \in Nodes, NEW l \in Levels, NEW m \in Nodes \cup {Nil},
           NEW c \in Ops,
           NEW t \in Keys \cup {Nil}, NEW i \in Keys \cup {Nil},
           find' = [find EXCEPT ![r] = f], x' = [x EXCEPT ![r] = n], lv' = [lv EXCEPT ![r] = l],
           last' = [last EXCEPT ![r] = m], call' = [call EXCEPT ![r] = c],
           target' = [target EXCEPT ![r] = t], node_' = [node_ EXCEPT ![r] = i],
           Reading(f, n, l, m, c, t, i)
    PROVE  SkipInv'
<1>1. TypeOK'
  BY Zenon DEF SkipInv, TypeOK, shared, writer, Finds, Ops
<1>2. \A k : Linked(k)' = Linked(k)
  BY LinkedSame, Zenon DEF shared
<1>3. ListInv' /\ WriterInv'
  BY <1>2, Zenon DEF SkipInv, shared, writer, ListInv, Stored, Follows, WriterInv, IdleInv, FindInv, LinkInv, Precedes
<1>4. ASSUME NEW q \in Readers PROVE ReaderInv(q)'
  <2>1. /\ find \in [Readers -> Finds]
        /\ x \in [Readers -> Nodes] /\ lv \in [Readers -> Levels] /\ last \in [Readers -> Nodes \cup {Nil}]
        /\ call \in [Readers -> Ops]
        /\ target \in [Readers -> Keys \cup {Nil}] /\ node_ \in [Readers -> Keys \cup {Nil}]
    BY Zenon DEF SkipInv, TypeOK, Finds, Ops
  <2>2. CASE q = r
    <3>1. /\ find'[q] = f /\ x'[q] = n /\ lv'[q] = l /\ last'[q] = m /\ call'[q] = c
          /\ target'[q] = t /\ node_'[q] = i
      BY <2>1, <2>2, Zenon
    <3>2. QED
      BY <1>2, <3>1, Zenon DEF ReaderInv, Reading
  <2>3. CASE q # r
    <3>1. /\ find'[q] = find[q] /\ x'[q] = x[q] /\ lv'[q] = lv[q] /\ last'[q] = last[q]
          /\ call'[q] = call[q] /\ target'[q] = target[q] /\ node_'[q] = node_[q]
      BY <2>1, <2>3, Zenon
    <3>2. ReaderInv(q)
      BY Zenon DEF SkipInv
    <3>3. QED
      BY <1>2, <3>1, <3>2, Zenon DEF ReaderInv, Reading
  <2>4. QED
    BY <2>2, <2>3, Zenon
<1>5. QED
  BY <1>1, <1>3, <1>4, Zenon DEF SkipInv

\* The state of one reader.
LEMMA ReaderTypes ==
    ASSUME SkipInv, NEW r \in Readers
    PROVE  /\ find[r] \in Finds
           /\ x[r] \in Nodes /\ lv[r] \in Levels /\ last[r] \in Nodes \cup {Nil}
           /\ call[r] \in Ops
           /\ target[r] \in Keys \cup {Nil} /\ node_[r] \in Keys \cup {Nil}
           /\ Reading(find[r], x[r], lv[r], last[r], call[r], target[r], node_[r])
           /\ find = [find EXCEPT ![r] = find[r]] /\ x = [x EXCEPT ![r] = x[r]]
           /\ lv = [lv EXCEPT ![r] = lv[r]] /\ last = [last EXCEPT ![r] = last[r]]
           /\ call = [call EXCEPT ![r] = call[r]] /\ target = [target EXCEPT ![r] = target[r]]
           /\ node_ = [node_ EXCEPT ![r] = node_[r]]
<1>1. /\ find \in [Readers -> Finds]
      /\ x \in [Readers -> Nodes] /\ lv \in [Readers -> Levels] /\ last \in [Readers -> Nodes \cup {Nil}]
      /\ call \in [Readers -> Ops]
      /\ target \in [Readers -> Keys \cup {Nil}] /\ node_ \in [Readers -> Keys \cup {Nil}]
  BY Zenon DEF SkipInv, TypeOK, Finds, Ops
<1>2. Reading(find[r], x[r], lv[r], last[r], call[r], target[r], node_[r])
  BY Zenon DEF SkipInv, ReaderInv
<1>3. QED
  BY <1>1, <1>2, Zenon

\* A search starts on a level of the list, at the head.
LEMMA SearchStart ==
    ASSUME SkipInv, NEW h \in heights
    PROVE  h - 1 \in Levels /\ head_ \in Linked(h - 1) /\ head_ \in Nodes /\ Nil \in Nodes \cup {Nil}
<1>1. h \in 1 .. kMaxHeight_
  BY DEF SkipInv, TypeOK
<1>2. QED
  BY <1>1, LinkedNodes DEF Levels, Nodes

\* The calls of an iterator start a search or move to the next node.
LEMMA CallsStep ==
    ASSUME SkipInv, NEW r \in Readers, Calls(r)
    PROVE  SkipInv'
<1>1. /\ node_[r] \in Linked(0) \cup {Nil} /\ node_[r] \in Keys \cup {Nil}
      /\ node_ = [node_ EXCEPT ![r] = node_[r]] /\ Nil \in Keys \cup {Nil}
      /\ lv[r] \in Levels /\ last[r] \in Nodes \cup {Nil}
      /\ lv = [lv EXCEPT ![r] = lv[r]] /\ last = [last EXCEPT ![r] = last[r]]
      /\ call[r] = "none" => lv[r] = 0
  BY ReaderTypes, Zenon DEF Reading, Finds
<1>2. \A k \in Keys : k \in Keys \cup {Nil} /\ head_ < k /\ k \in Nodes
  BY NodeFacts, Zenon
<1>3. head_ \in Nodes /\ head_ \in Linked(0)
  BY LinkedNodes, Zenon
<1>4. ASSUME NEW k \in Keys, NEW h \in heights, Seek(r, k, h) PROVE SkipInv'
  <2>1. /\ UNCHANGED shared
        /\ find' = [find EXCEPT ![r] = "greaterOrEqual"] /\ x' = [x EXCEPT ![r] = head_]
        /\ lv' = [lv EXCEPT ![r] = h - 1] /\ last' = [last EXCEPT ![r] = Nil]
        /\ call' = [call EXCEPT ![r] = "Seek"] /\ target' = [target EXCEPT ![r] = k]
        /\ node_' = [node_ EXCEPT ![r] = node_[r]] /\ call[r] = "none"
    BY <1>1, <1>4, Zenon DEF Seek, Call, Search, shared
  <2>2. Reading("greaterOrEqual", head_, h - 1, Nil, "Seek", k, node_[r])
    BY <1>1, <1>2, <1>3, <2>1, SearchStart, Zenon DEF Reading
  <2>3. QED
    BY <1>1, <1>2, <1>3, <2>1, <2>2, SearchStart, ReaderUpdate, Zenon DEF Finds, Ops
<1>5. ASSUME NEW k \in Keys, NEW h \in heights, SeekForPrev(r, k, h) PROVE SkipInv'
  <2>1. /\ UNCHANGED shared
        /\ find' = [find EXCEPT ![r] = "greaterOrEqual"] /\ x' = [x EXCEPT ![r] = head_]
        /\ lv' = [lv EXCEPT ![r] = h - 1] /\ last' = [last EXCEPT ![r] = Nil]
        /\ call' = [call EXCEPT ![r] = "SeekForPrev"] /\ target' = [target EXCEPT ![r] = k]
        /\ node_' = [node_ EXCEPT ![r] = node_[r]] /\ call[r] = "none"
    BY <1>1, <1>5, Zenon DEF SeekForPrev, Call, Search, shared
  <2>2. Reading("greaterOrEqual", head_, h - 1, Nil, "SeekForPrev", k, node_[r])
    BY <1>1, <1>2, <1>3, <2>1, SearchStart, Zenon DEF Reading
  <2>3. QED
    BY <1>1, <1>2, <1>3, <2>1, <2>2, SearchStart, ReaderUpdate, Zenon DEF Finds, Ops
<1>6. ASSUME NEW h \in heights, SeekToLast(r, h) PROVE SkipInv'
  <2>1. /\ UNCHANGED shared
        /\ find' = [find EXCEPT ![r] = "last"] /\ x' = [x EXCEPT ![r] = head_]
        /\ lv' = [lv EXCEPT ![r] = h - 1] /\ last' = [last EXCEPT ![r] = Nil]
        /\ call' = [call EXCEPT ![r] = "SeekToLast"] /\ target' = [target EXCEPT ![r] = Nil]
        /\ node_' = [node_ EXCEPT ![r] = node_[r]] /\ call[r] = "none"
    BY <1>1, <1>6, Zenon DEF SeekToLast, Call, Search, shared
  <2>2. Reading("last", head_, h - 1, Nil, "SeekToLast", Nil, node_[r])
    BY <1>1, <1>2, <1>3, <2>1, SearchStart, Zenon DEF Reading
  <2>3. QED
    BY <1>1, <1>2, <1>3, <2>1, <2>2, SearchStart, ReaderUpdate, Zenon DEF Finds, Ops
<1>7. ASSUME NEW h \in heights, Prev(r, h) PROVE SkipInv'
  <2>1. node_[r] \in Keys
    BY <1>1, <1>7, Zenon DEF Prev
  <2>2. /\ UNCHANGED shared
        /\ find' = [find EXCEPT ![r] = "lessThan"] /\ x' = [x EXCEPT ![r] = head_]
        /\ lv' = [lv EXCEPT ![r] = h - 1] /\ last' = [last EXCEPT ![r] = Nil]
        /\ call' = [call EXCEPT ![r] = "Prev"] /\ target' = [target EXCEPT ![r] = node_[r]]
        /\ node_' = [node_ EXCEPT ![r] = node_[r]] /\ call[r] = "none"
    BY <1>1, <1>7, Zenon DEF Prev, Call, Search, shared
  <2>3. Reading("lessThan", head_, h - 1, Nil, "Prev", node_[r], node_[r])
    BY <1>1, <1>2, <1>3, <2>1, <2>2, SearchStart, Zenon DEF Reading
  <2>4. QED
    BY <1>1, <1>2, <1>3, <2>1, <2>2, <2>3, SearchStart, ReaderUpdate, Zenon DEF Finds, Ops
<1>8. ASSUME SeekToFirst(r) PROVE SkipInv'
  <2>1. /\ UNCHANGED shared
        /\ find' = [find EXCEPT ![r] = "next"] /\ x' = [x EXCEPT ![r] = head_]
        /\ lv' = [lv EXCEPT ![r] = lv[r]] /\ last' = [last EXCEPT ![r] = last[r]]
        /\ call' = [call EXCEPT ![r] = "SeekToFirst"] /\ target' = [target EXCEPT ![r] = Nil]
        /\ node_' = [node_ EXCEPT ![r] = node_[r]] /\ call[r] = "none"
    BY <1>1, <1>8, Zenon DEF SeekToFirst, Call, Load, shared
  <2>2. Reading("next", head_, lv[r], last[r], "SeekToFirst", Nil, node_[r])
    BY <1>1, <1>2, <1>3, <2>1, Zenon DEF Reading
  <2>3. QED
    BY <1>1, <1>2, <1>3, <2>1, <2>2, ReaderUpdate, Zenon DEF Finds, Ops
<1>9. ASSUME Next_(r) PROVE SkipInv'
  <2>1. node_[r] \in Keys /\ node_[r] \in Nodes /\ node_[r] \in Linked(0)
    BY <1>1, <1>2, <1>9, Zenon DEF Next_
  <2>2. /\ UNCHANGED shared
        /\ find' = [find EXCEPT ![r] = "next"] /\ x' = [x EXCEPT ![r] = node_[r]]
        /\ lv' = [lv EXCEPT ![r] = lv[r]] /\ last' = [last EXCEPT ![r] = last[r]]
        /\ call' = [call EXCEPT ![r] = "Next"] /\ target' = [target EXCEPT ![r] = node_[r]]
        /\ node_' = [node_ EXCEPT ![r] = node_[r]] /\ call[r] = "none"
    BY <1>1, <1>9, Zenon DEF Next_, Call, Load, shared
  <2>3. Reading("next", node_[r], lv[r], last[r], "Next", node_[r], node_[r])
    BY <1>1, <1>2, <1>3, <2>1, <2>2, Zenon DEF Reading
  <2>4. QED
    BY <1>1, <1>2, <1>3, <2>1, <2>2, <2>3, ReaderUpdate, Zenon DEF Finds, Ops
<1>10. QED
  BY <1>4, <1>5, <1>6, <1>7, <1>8, <1>9, Zenon DEF Calls

\* What a reader loads is the next node of its level, or nothing.
LEMMA LoadedFacts ==
    ASSUME SkipInv, NEW r \in Readers
    PROVE  /\ Loaded(r) \in Int /\ Loaded(r) \in Nodes \cup {Nil}
           /\ Loaded(r) = Nil \/ (Loaded(r) \in Linked(lv[r]) /\ Loaded(r) > x[r] /\ Loaded(r) \in Keys)
           /\ \A k \in Linked(lv[r]) : k <= x[r] \/ (Loaded(r) # Nil /\ k >= Loaded(r))
           /\ Linked(lv[r]) \subseteq Linked(0)
<1>1. x[r] \in Nodes /\ lv[r] \in Levels /\ x[r] \in Linked(lv[r]) /\ 0 \in 0 .. lv[r]
  BY ReaderTypes DEF Reading, Levels
<1>2. /\ Loaded(r) = Nil \/ (Loaded(r) \in Linked(lv[r]) /\ Loaded(r) > x[r])
      /\ \A k \in Linked(lv[r]) : k <= x[r] \/ (Loaded(r) # Nil /\ k >= Loaded(r))
  BY <1>1, NextLinked, Zenon DEF SkipInv, Loaded
<1>3. Loaded(r) \in Nodes \cup {Nil} /\ Loaded(r) \in Int
  BY <1>2, LinkedNodes, NodeFacts
<1>4. Loaded(r) # Nil => Loaded(r) \in Keys
  <2>1. x[r] \in Int /\ x[r] >= 0
    BY <1>1, NodeFacts, Zenon
  <2>2. Loaded(r) # Nil => Loaded(r) # head_
    BY <1>2, <1>3, <2>1 DEF head_
  <2>3. QED
    BY <1>3, <2>2, Zenon DEF Nodes
<1>5. QED
  BY <1>1, <1>2, <1>3, <1>4, Zenon DEF SkipInv, ListInv

\* A search goes on to the node it has loaded, which is before its target.
LEMMA AdvanceStep ==
    ASSUME SkipInv, UNCHANGED shared, NEW r \in Readers, NEW n \in Linked(lv[r]), Advance(r, n),
           find[r] \in {"greaterOrEqual", "lessThan", "last"},
           find[r] = "greaterOrEqual" => n < target[r], find[r] = "lessThan" => n < node_[r]
    PROVE  SkipInv'
<1>1. Reading(find[r], n, lv[r], last[r], call[r], target[r], node_[r])
  BY ReaderTypes, Zenon DEF Reading, Finds
<1>2. n \in Nodes
  BY LinkedNodes, Zenon
<1>3. /\ find' = [find EXCEPT ![r] = find[r]] /\ x' = [x EXCEPT ![r] = n]
      /\ lv' = [lv EXCEPT ![r] = lv[r]] /\ last' = [last EXCEPT ![r] = last[r]]
      /\ call' = [call EXCEPT ![r] = call[r]] /\ target' = [target EXCEPT ![r] = target[r]]
      /\ node_' = [node_ EXCEPT ![r] = node_[r]]
  BY ReaderTypes, Zenon DEF Advance
<1>4. /\ find[r] \in Finds
      /\ lv[r] \in Levels /\ last[r] \in Nodes \cup {Nil}
      /\ call[r] \in Ops
      /\ target[r] \in Keys \cup {Nil} /\ node_[r] \in Keys \cup {Nil}
  BY ReaderTypes, Zenon
<1>5. QED
  BY <1>1, <1>2, <1>3, <1>4, ReaderUpdate, Zenon

\* A search goes down a level below a node that is not before its target.
LEMMA DescendStep ==
    ASSUME SkipInv, UNCHANGED shared, NEW r \in Readers, NEW n \in Nodes \cup {Nil}, Descend(r, n),
           find[r] \in {"greaterOrEqual", "lessThan", "last"}, lv[r] > 0,
           find[r] = "greaterOrEqual" => n = Nil \/ n > target[r],
           find[r] = "lessThan" => n = Nil \/ n >= node_[r]
    PROVE  SkipInv'
<1>1. lv[r] \in Levels /\ lv[r] - 1 \in Levels /\ lv[r] - 1 \in 0 .. lv[r]
  BY ReaderTypes DEF Levels
<1>2. x[r] \in Linked(lv[r] - 1)
  BY <1>1, ReaderTypes DEF SkipInv, ListInv, Reading
<1>3. Reading(find[r], x[r], lv[r] - 1, n, call[r], target[r], node_[r])
  BY <1>2, ReaderTypes, Zenon DEF Reading
<1>4. /\ find' = [find EXCEPT ![r] = find[r]] /\ x' = [x EXCEPT ![r] = x[r]]
      /\ lv' = [lv EXCEPT ![r] = lv[r] - 1] /\ last' = [last EXCEPT ![r] = n]
      /\ call' = [call EXCEPT ![r] = call[r]] /\ target' = [target EXCEPT ![r] = target[r]]
      /\ node_' = [node_ EXCEPT ![r] = node_[r]]
  BY ReaderTypes, Zenon DEF Descend
<1>5. /\ find[r] \in Finds /\ x[r] \in Nodes
      /\ call[r] \in Ops
      /\ target[r] \in Keys \cup {Nil} /\ node_[r] \in Keys \cup {Nil}
  BY ReaderTypes, Zenon
<1>6. QED
  BY <1>1, <1>3, <1>4, <1>5, ReaderUpdate, Zenon

\* A search ends on a linked node or behind all of them.
LEMMA FoundStep ==
    ASSUME SkipInv, UNCHANGED shared, NEW r \in Readers, NEW n \in Linked(0) \cup {Nil},
           Found(r, n), find[r] # "none"
    PROVE  SkipInv'
<1> DEFINE i == IF n = head_ THEN Nil ELSE n
<1>1. i \in Keys \cup {Nil} /\ i \in Linked(0) \cup {Nil} /\ node_' = [node_ EXCEPT ![r] = i]
  <2>1. n \in Keys \/ n = head_ \/ n = Nil
    BY LinkedNodes, Zenon DEF Nodes
  <2>2. QED
    BY <2>1, Zenon DEF Found
<1>2. head_ \in Nodes /\ head_ \in Linked(0) /\ 0 \in Levels /\ Nil \in Keys \cup {Nil}
  BY LinkedNodes DEF Levels
<1>3. call[r] = "SeekForPrev" => target[r] \in Keys
  BY ReaderTypes, Zenon DEF Reading, Finds
<1>4. \A k \in Keys : head_ < k
  BY NodeFacts, Zenon
<1>5. /\ "last" \in Finds /\ "lessThan" \in Finds
      /\ target[r] \in Keys \cup {Nil}
      /\ call[r] \in Ops
  BY ReaderTypes, Zenon DEF Finds
<1> HIDE DEF i
<1>6. ASSUME ToTheEnd(r, i), NEW h \in heights, Search(r, "last", h), UNCHANGED <<call, target>>
      PROVE  SkipInv'
  <2>1. Reading("last", head_, h - 1, Nil, call[r], target[r], i)
    BY <1>1, <1>3, <1>6, SearchStart, Zenon DEF Reading, ToTheEnd
  <2>2. /\ find' = [find EXCEPT ![r] = "last"] /\ x' = [x EXCEPT ![r] = head_]
        /\ lv' = [lv EXCEPT ![r] = h - 1] /\ last' = [last EXCEPT ![r] = Nil]
        /\ call' = [call EXCEPT ![r] = call[r]] /\ target' = [target EXCEPT ![r] = target[r]]
    BY <1>6, ReaderTypes, Zenon DEF Search
  <2>3. QED
    BY <1>1, <1>2, <1>5, <2>1, <2>2, SearchStart, ReaderUpdate, Zenon
<1>7. ASSUME Back(r, i), NEW h \in heights, Search(r, "lessThan", h), UNCHANGED <<call, target>>
      PROVE  SkipInv'
  <2>1. Reading("lessThan", head_, h - 1, Nil, call[r], target[r], i)
    BY <1>1, <1>3, <1>4, <1>7, SearchStart, Zenon DEF Reading, Back
  <2>2. /\ find' = [find EXCEPT ![r] = "lessThan"] /\ x' = [x EXCEPT ![r] = head_]
        /\ lv' = [lv EXCEPT ![r] = h - 1] /\ last' = [last EXCEPT ![r] = Nil]
        /\ call' = [call EXCEPT ![r] = call[r]] /\ target' = [target EXCEPT ![r] = target[r]]
    BY <1>7, ReaderTypes, Zenon DEF Search
  <2>3. QED
    BY <1>1, <1>2, <1>5, <2>1, <2>2, SearchStart, ReaderUpdate, Zenon
<1>8. ASSUME Return(r) PROVE SkipInv'
  <2>1. Reading("none", head_, 0, Nil, "none", Nil, i)
    BY <1>1, <1>2, Zenon DEF Reading
  <2>2. QED
    BY <1>1, <1>2, <1>8, <2>1, ReaderUpdate, Zenon DEF Return, Finds, Ops
<1>9. QED
  BY <1>6, <1>7, <1>8, Zenon DEF Found, i

\* Every step of a search keeps the invariant.
LEMMA StepStep ==
    ASSUME SkipInv, NEW r \in Readers, Step(r)
    PROVE  SkipInv'
<1> DEFINE n == Loaded(r)
<1>1. UNCHANGED shared
  BY Zenon DEF Step, shared
<1>2. /\ n \in Int /\ n \in Nodes \cup {Nil}
      /\ n = Nil \/ (n \in Linked(lv[r]) /\ n \in Keys)
      /\ Linked(lv[r]) \subseteq Linked(0)
  BY LoadedFacts, Zenon
<1>3. n \in Linked(0) \cup {Nil} /\ x[r] \in Linked(lv[r]) /\ x[r] \in Linked(0)
  BY <1>2, ReaderTypes, Zenon DEF Reading
<1>4. lv[r] \in Nat /\ target[r] \in Int /\ last[r] \in Int /\ node_[r] \in Int
  BY ReaderTypes, NodeFacts DEF Levels, Nil
<1>5. Reading(find[r], x[r], lv[r], last[r], call[r], target[r], node_[r])
  BY ReaderTypes, Zenon
<1> HIDE DEF n
<1>6. CASE StepGreaterOrEqual(r)
  <2>1. find[r] = "greaterOrEqual" /\ (last[r] = Nil \/ last[r] > target[r])
    BY <1>5, <1>6, Zenon DEF StepGreaterOrEqual, Reading
  <2>2. CASE Found(r, n)
    BY <1>1, <1>3, <2>1, <2>2, FoundStep, Zenon
  <2>3. CASE ~Bigger(r, n, target[r]) /\ n < target[r] /\ Advance(r, n)
    <3>1. n \in Linked(lv[r])
      BY <1>2, <2>3, Zenon DEF Bigger
    <3>2. QED
      BY <1>1, <2>1, <2>3, <3>1, AdvanceStep, Zenon
  <2>4. CASE Bigger(r, n, target[r]) /\ lv[r] > 0 /\ Descend(r, n)
    <3>1. n = Nil \/ n > target[r]
      BY <2>1, <2>4, Zenon DEF Bigger
    <3>2. QED
      BY <1>1, <1>2, <2>1, <2>4, <3>1, DescendStep, Zenon
  <2>5. QED
    BY <1>6, <2>2, <2>3, <2>4, Zenon DEF StepGreaterOrEqual, n
<1>7. CASE StepLessThan(r)
  <2> DEFINE onward == n # last[r] /\ KeyIsAfterNode(node_[r], n)
  <2>1. find[r] = "lessThan" /\ (last[r] = Nil \/ last[r] >= node_[r])
    BY <1>5, <1>7, Zenon DEF StepLessThan, Reading
  <2>2. CASE Found(r, x[r])
    BY <1>1, <1>3, <2>1, <2>2, FoundStep, Zenon
  <2>3. CASE onward /\ Advance(r, n)
    <3>1. n \in Linked(lv[r]) /\ n < node_[r]
      BY <1>2, <2>3, Zenon DEF KeyIsAfterNode
    <3>2. QED
      BY <1>1, <2>1, <2>3, <3>1, AdvanceStep, Zenon
  <2>4. CASE ~onward /\ lv[r] > 0 /\ Descend(r, n)
    <3>1. n = Nil \/ n >= node_[r]
      BY <1>2, <1>4, <2>1, <2>4 DEF KeyIsAfterNode
    <3>2. QED
      BY <1>1, <1>2, <2>1, <2>4, <3>1, DescendStep, Zenon
  <2>5. QED
    BY <1>7, <2>2, <2>3, <2>4, Zenon DEF StepLessThan, n
<1>8. CASE StepLast(r)
  <2>1. find[r] = "last"
    BY <1>8, Zenon DEF StepLast
  <2>2. CASE Found(r, x[r])
    BY <1>1, <1>3, <2>1, <2>2, FoundStep, Zenon
  <2>3. CASE n # Nil /\ Advance(r, n)
    <3>1. n \in Linked(lv[r])
      BY <1>2, <2>3, Zenon
    <3>2. QED
      BY <1>1, <2>1, <2>3, <3>1, AdvanceStep, Zenon
  <2>4. CASE lv[r] > 0 /\ Descend(r, Nil)
    BY <1>1, <2>1, <2>4, DescendStep, Zenon
  <2>5. QED
    BY <1>8, <2>2, <2>3, <2>4, Zenon DEF StepLast, n
<1>9. CASE StepNext(r)
  BY <1>1, <1>3, <1>9, FoundStep, Zenon DEF StepNext, n
<1>10. QED
  BY <1>6, <1>7, <1>8, <1>9, Zenon DEF Step

\* The invariant holds in the empty list and every step keeps it.
LEMMA SkipInit == Init => SkipInv
<1> SUFFICES ASSUME Init PROVE SkipInv
  BY Zenon
<1>1. \A l \in Levels : Linked(l) = {head_}
  <2>1. \A l \in Levels, p \in Nodes : next_[p][l] \in {Nil, Junk}
    BY Zenon DEF Init
  <2>2. \A k \in Keys : k \notin {Nil, Junk}
    BY NodeFacts
  <2>3. QED
    BY <2>1, <2>2, Zenon DEF Linked
<1>2. 0 \in Levels /\ head_ \in Nodes /\ 1 \in 1 .. kMaxHeight_ /\ 0 \in 0 .. kMaxHeight_
  BY DEF Levels, Nodes
<1>3. TypeOK
  BY <1>2 DEF Init, TypeOK
<1>4. ListInv
  <2>1. \A l \in Levels : next_[head_][l] = Nil
    BY <1>2, Zenon DEF Init
  <2>2. \A l \in Levels : \A n \in Linked(l) : Follows(next_[n][l], n, Linked(l))
    <3>1. Follows(Nil, head_, {head_})
      BY DEF Follows, head_
    <3>2. ASSUME NEW l \in Levels, NEW n \in Linked(l) PROVE Follows(next_[n][l], n, Linked(l))
      <4>1. Linked(l) = {head_} /\ n = head_ /\ next_[n][l] = Nil
        BY <1>1, <2>1, <3>2
      <4>2. QED
        BY <3>1, <4>1, Zenon
    <3>3. QED
      BY <3>2, Zenon
  <2>3. \A l \in Levels : \A m \in 0 .. l : m \in Levels
    BY DEF Levels
  <2>4. \A l \in 1 .. kMaxHeight_ - 1 : l \in Levels
    BY DEF Levels
  <2>5. \A l \in Levels, n \in Keys : next_[n][l] = Junk
    BY NodeFacts, Zenon DEF Init
  <2>6. QED
    BY <1>1, <2>2, <2>3, <2>4, <2>5, Zenon DEF ListInv, Init
<1>5. WriterInv
  BY <1>1, <1>2, Zenon DEF WriterInv, IdleInv, Init
<1>6. ASSUME NEW r \in Readers PROVE ReaderInv(r)
  BY <1>1, <1>2, Zenon DEF ReaderInv, Reading, Init
<1>7. QED
  BY <1>3, <1>4, <1>5, <1>6, Zenon DEF SkipInv

\* Every step of the writer and the readers keeps the invariant.
LEMMA SkipStep == SkipInv /\ [Next]_vars => SkipInv'
<1> SUFFICES ASSUME SkipInv, [Next]_vars PROVE SkipInv'
  BY Zenon
<1>1. CASE Insert
  BY <1>1, InsertStep, Zenon
<1>2. CASE \E r \in Readers : Calls(r) \/ Step(r)
  BY <1>2, CallsStep, StepStep, Zenon
<1>3. CASE UNCHANGED vars
  <2>1. UNCHANGED shared /\ UNCHANGED <<find, x, lv, last, call, target, node_>>
    BY <1>3, Zenon DEF vars, shared, reader, search
  <2>2. \A k : Linked(k)' = Linked(k)
    BY <2>1, LinkedSame, Zenon DEF shared
  <2>3. TypeOK'
    BY <2>1, Zenon DEF SkipInv, TypeOK, shared, writer
  <2>4. ListInv' /\ WriterInv'
    BY <2>1, <2>2, Zenon DEF SkipInv, shared, writer, ListInv, Stored, Follows, WriterInv, IdleInv, FindInv, LinkInv, Precedes
  <2>5. \A r \in Readers : ReaderInv(r)'
    BY <2>1, <2>2, Zenon DEF SkipInv, ReaderInv, Reading
  <2>6. QED
    BY <2>3, <2>4, <2>5, Zenon DEF SkipInv
<1>4. QED
  BY <1>1, <1>2, <1>3, Zenon DEF Next

\* What the invariant says of the list, its writer and its readers.
LEMMA SkipImplies == SkipInv => Inv
<1> SUFFICES ASSUME SkipInv PROVE Inv
  BY Zenon
<1>1. 0 \in Levels /\ TypeOK /\ ListInv /\ WriterInv
  BY DEF SkipInv, Levels
<1>2. Inserted \subseteq Linked(0)
  <2>1. ASSUME NEW n \in Inserted PROVE n \in Linked(0)
    <3>1. n \in Keys /\ next_[n][0] # Junk /\ ~(pc # "idle" /\ n = key)
      BY Zenon DEF Inserted
    <3>2. Stored(n, 0)
      BY <1>1, <3>1, Zenon DEF ListInv
    <3>3. QED
      BY <3>1, <3>2, Zenon DEF Stored
  <2>2. QED
    BY <2>1, Zenon
<1>3. LevelsAreNested
  BY <1>1, <1>2, Zenon DEF LevelsAreNested, ListInv
<1>4. PrevIsPredecessor
  <2>1. SUFFICES ASSUME pc = "idle"
                 PROVE  /\ prev_[0] = head_ => Inserted = {} /\ heights = {1} /\ prev_height_ = 1
                        /\ prev_[0] # head_ => \A l \in 1 .. max_height_ - 1 : Predecessor(prev_[l], l)
    BY Zenon DEF PrevIsPredecessor
  <2>2. IdleInv
    BY <1>1, <2>1, Zenon DEF WriterInv
  <2>3. prev_[0] = head_ => Inserted = {}
    <3>1. \A n \in Inserted : n \in Keys /\ n # head_
      BY NodeFacts, Zenon DEF Inserted
    <3>2. QED
      BY <1>2, <2>2, <3>1, Zenon DEF IdleInv
  <2>4. \A l \in 1 .. max_height_ - 1 : l \in 0 .. max_height_ - 1 /\ l > 0
    BY <1>1 DEF TypeOK
  <2>5. QED
    BY <2>2, <2>3, <2>4, Zenon DEF IdleInv, Precedes, Predecessor
<1>5. OnlyStoredLinks
  BY LoadedFacts, NodeFacts DEF OnlyStoredLinks
<1>6. NotOvershot
  <2>1. ASSUME NEW r \in Readers
        PROVE  /\ find[r] = "greaterOrEqual" => x[r] < target[r]
               /\ find[r] = "lessThan" => x[r] < node_[r]
               /\ Loaded(r) = Nil \/ Loaded(r) > x[r]
    BY ReaderTypes, LoadedFacts, Zenon DEF Reading
  <2>2. QED
    BY <2>1, Zenon DEF NotOvershot
<1>7. QED
  BY <1>1, <1>3, <1>4, <1>5, <1>6, Zenon DEF Inv

\* skiplist.h, for any set of keys, any number of readers and any kMaxHeight_: at every
\* moment of an Insert the levels are sorted and nested, prev_ caches the predecessors
\* between calls, and no reader loads a link that was not stored or passes its key.
THEOREM SkipListInvThm == Spec => []Inv
<1>1. Spec => []SkipInv
  BY SkipInit, SkipStep, PTL DEF Spec
<1>2. QED
  BY <1>1, SkipImplies, PTL
=============================================================================
