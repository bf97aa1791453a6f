------------------------------ MODULE OrderedSet ------------------------------
(***************************************************************************)
(* What Atomic & Lock/skiplist.h promises its callers: a set of keys that  *)
(* one writer extends and that readers query, every query answered exactly *)
(* as of one moment between its call and its return.                       *)
(***************************************************************************)
EXTENDS Integers

CONSTANTS Keys, Readers, Nil

VARIABLES set,     \* the keys in the list
          call,    \* of every reader, the operation it runs, or "none"
          target,  \* and its argument
          node     \* where its iterator stands (Nil while it runs a call)

setVars == <<set, call, target, node>>

Least(S) == IF S = {} THEN Nil ELSE CHOOSE n \in S : \A m \in S : n <= m
Greatest(S) == IF S = {} THEN Nil ELSE CHOOSE n \in S : \A m \in S : n >= m

SetInit ==
    /\ set = {}
    /\ call = [r \in Readers |-> "none"]
    /\ target = [r \in Readers |-> Nil]
    /\ node = [r \in Readers |-> Nil]

Add(k) ==
    /\ k \in Keys \ set
    /\ set' = set \cup {k}
    /\ UNCHANGED <<call, target, node>>

\* The queries with an argument, and the ones that start from the iterator.
Queries == {"Seek", "SeekForPrev"}
Moves == {"Next", "Prev"}
Ends == {"SeekToFirst", "SeekToLast"}

Ask(r, op, k) ==
    /\ call[r] = "none"
    /\ call' = [call EXCEPT ![r] = op]
    /\ target' = [target EXCEPT ![r] = k]
    /\ node' = [node EXCEPT ![r] = Nil]
    /\ UNCHANGED set

Asks(r) ==
    \/ \E op \in Queries, k \in Keys : Ask(r, op, k)
    \/ \E op \in Moves : node[r] # Nil /\ Ask(r, op, node[r])
    \/ \E op \in Ends : Ask(r, op, Nil)

\* The comments of the interface, in terms of the set.
Answer(op, k) ==
    CASE op = "Seek"        -> Least({n \in set : n >= k})
      [] op = "SeekForPrev" -> Greatest({n \in set : n <= k})
      [] op = "Next"        -> Least({n \in set : n > k})
      [] op = "Prev"        -> Greatest({n \in set : n < k})
      [] op = "SeekToFirst" -> Least(set)
      [] op = "SeekToLast"  -> Greatest(set)

Reply(r) ==
    /\ call[r] # "none"
    /\ node' = [node EXCEPT ![r] = Answer(call[r], target[r])]
    /\ call' = [call EXCEPT ![r] = "none"]
    /\ target' = [target EXCEPT ![r] = Nil]
    /\ UNCHANGED set

SetNext == (\E k \in Keys : Add(k)) \/ \E r \in Readers : Asks(r) \/ Reply(r)

SetSpec == SetInit /\ [][SetNext]_setVars
=============================================================================
