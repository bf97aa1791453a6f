--------------------------- MODULE StructuresProofs ---------------------------
(***************************************************************************)
(* The skip list implements an ordered set, for any keys, any heights and  *)
(* any readers: what an iterator operation returns is what the set holds   *)
(* at one moment between its call and its return.  The timers of both      *)
(* programs, for any delays that fit an int.  And the properties of the    *)
(* run that takes them together.                                           *)
(***************************************************************************)
EXTENDS MCStructures, SkipListProofs, WellFoundedInduction

USE SkipListAssumption

\* The least element is the one no other is below.
LEMMA LeastIs ==
    ASSUME NEW S \in SUBSET Int, NEW n \in Int, (n = Nil /\ S = {}) \/ (n \in S /\ \A m \in S : n <= m)
    PROVE  OS!Least(S) = n
<1>1. CASE S = {}
  BY <1>1, Zenon DEF OS!Least
<1>2. CASE S # {}
  <2>1. n \in S /\ \A m \in S : n <= m
    BY <1>2, Zenon
  <2>2. \A k \in S : (\A m \in S : k <= m) => k = n
    BY <2>1
  <2>3. QED
    BY <1>2, <2>1, <2>2, Zenon DEF OS!Least
<1>3. QED
  BY <1>1, <1>2, Zenon

\* The greatest element is the one no other is above.
LEMMA GreatestIs ==
    ASSUME NEW S \in SUBSET Int, NEW n \in Int, (n = Nil /\ S = {}) \/ (n \in S /\ \A m \in S : n >= m)
    PROVE  OS!Greatest(S) = n
<1>1. CASE S = {}
  BY <1>1, Zenon DEF OS!Greatest
<1>2. CASE S # {}
  <2>1. n \in S /\ \A m \in S : n >= m
    BY <1>2, Zenon
  <2>2. \A k \in S : (\A m \in S : k >= m) => k = n
    BY <2>1
  <2>3. QED
    BY <1>2, <2>1, <2>2, Zenon DEF OS!Greatest
<1>3. QED
  BY <1>1, <1>2, Zenon

\* When a search ends, the node it found is the answer in the set as it is then.
It(n) == IF n = head_ THEN Nil ELSE n
Returns(r, n) == ~ToTheEnd(r, It(n)) /\ ~Back(r, It(n)) => It(n) = OS!Answer(call[r], target[r])

\* On level 0 the link a reader has loaded is the next key of the present set.
LEMMA LoadedAtZero ==
    ASSUME SkipInv, NEW r \in Readers, lv[r] = 0
    PROVE  /\ Loaded(r) = Nil \/ (Loaded(r) \in Linked(0) \ {head_} /\ Loaded(r) > x[r])
           /\ It(Loaded(r)) = Loaded(r)
           /\ It(x[r]) = Nil \/ (It(x[r]) = x[r] /\ x[r] \in Linked(0) \ {head_})
           /\ \A k \in Linked(0) \ {head_} :
                 /\ k \in Int /\ k > 0
                 /\ k <= x[r] \/ (Loaded(r) # Nil /\ k >= Loaded(r))
                 /\ It(x[r]) = Nil => k > x[r]
<1>1. \A k \in Linked(0) \ {head_} : k \in Keys /\ k \in Int /\ k > 0
  BY LinkedNodes, NodeFacts, Zenon DEF Nodes, head_
<1>2. x[r] \in Linked(0)
  BY ReaderTypes, Zenon DEF Reading
<1>3. Loaded(r) = Nil \/ (Loaded(r) \in Linked(0) /\ Loaded(r) \in Keys /\ Loaded(r) > x[r])
  BY LoadedFacts, Zenon
<1>4. \A k \in Linked(0) : k <= x[r] \/ (Loaded(r) # Nil /\ k >= Loaded(r))
  BY LoadedFacts, Zenon
<1>5. Nil # head_ /\ \A k \in Keys : k # head_
  BY NodeFacts
<1>6. x[r] # head_ => x[r] # Nil
  BY <1>1, <1>2, NodeFacts
<1>7. QED
  BY <1>1, <1>2, <1>3, <1>4, <1>5, <1>6, Zenon DEF It, head_

\* The six answers.  A is the set of the keys in the list.
LEMMA GreaterOrEqualReturns ==
    ASSUME SkipInv, NEW r \in Readers, find[r] = "greaterOrEqual",
           \/ lv[r] = 0 /\ Bigger(r, Loaded(r), target[r])
           \/ ~Bigger(r, Loaded(r), target[r]) /\ Loaded(r) = target[r]
    PROVE  Returns(r, Loaded(r))
<1> DEFINE A == Linked(0) \ {head_}
           n == Loaded(r)
           t == target[r]
<1>1. /\ call[r] \in {"Seek", "SeekForPrev"} /\ t \in Keys /\ t \in Int
      /\ x[r] < t /\ x[r] \in Int /\ (last[r] = Nil \/ last[r] > t)
  BY ReaderTypes, NodeFacts, Zenon DEF Reading
<1>2. n \in Int /\ A \in SUBSET Int /\ Nil \in Int
  <2>1. \A k \in Linked(0) : k \in Int
    BY LinkedNodes, NodeFacts, Zenon
  <2>2. Nil \in Int
    BY NodeFacts
  <2>3. n = Nil \/ n \in Linked(0)
    BY LoadedFacts, Zenon
  <2>4. QED
    BY <2>1, <2>2, <2>3, Zenon
<1>3. \/ n \in A /\ n = t /\ It(n) = n
      \/ /\ n = Nil \/ (n \in A /\ n > t)
         /\ It(n) = n /\ \A k \in A : k <= x[r] \/ (n # Nil /\ k >= n)
  <2>1. CASE lv[r] = 0 /\ Bigger(r, n, t)
    BY <1>1, <2>1, LoadedAtZero, Zenon DEF Bigger
  <2>2. CASE ~Bigger(r, n, t) /\ n = t
    <3>1. n \in Linked(lv[r]) /\ Linked(lv[r]) \subseteq Linked(0) /\ t # head_
      BY <1>1, <2>2, LoadedFacts, NodeFacts, Zenon DEF Bigger
    <3>2. QED
      BY <2>2, <3>1, Zenon DEF It
  <2>3. QED
    BY <2>1, <2>2, Zenon
<1> HIDE DEF A, n, t
<1>4. OS!Least({m \in A : m >= t}) = n
  <2>1. {m \in A : m >= t} \in SUBSET Int
    BY <1>2, Zenon
  <2>2. \/ n = Nil /\ {m \in A : m >= t} = {}
        \/ n \in {m \in A : m >= t} /\ \A m \in {k \in A : k >= t} : n <= m
    <3>1. \A k \in A : k \in Int
      BY <1>2, Zenon
    <3>2. n = t \/ \A k \in A : k >= t => n # Nil /\ k >= n
      BY <1>1, <1>2, <1>3, <3>1
    <3>3. n = Nil \/ (n \in A /\ n >= t)
      BY <1>1, <1>2, <1>3
    <3>4. n = t => n # Nil
      BY <1>1, NodeFacts
    <3>5. QED
      BY <3>1, <3>2, <3>3, <3>4, Zenon
  <2>3. QED
    BY <1>2, <2>1, <2>2, LeastIs, Zenon
<1>5. n = t => OS!Greatest({m \in A : m <= t}) = n
  <2>1. {m \in A : m <= t} \in SUBSET Int
    BY <1>2, Zenon
  <2>2. n = t => n \in {m \in A : m <= t} /\ \A m \in {k \in A : k <= t} : n >= m
    BY <1>1, <1>2, <1>3, NodeFacts
  <2>3. QED
    BY <1>2, <2>1, <2>2, GreatestIs, Zenon
<1>6. CASE call[r] = "Seek"
  <2>1. OS!Answer(call[r], target[r]) = OS!Least({m \in A : m >= t})
    BY <1>6, Zenon DEF OS!Answer, A, t
  <2>2. QED
    BY <1>3, <1>4, <2>1, Zenon DEF Returns, n
<1>7. CASE call[r] = "SeekForPrev"
  <2>1. OS!Answer(call[r], target[r]) = OS!Greatest({m \in A : m <= t})
    BY <1>7, Zenon DEF OS!Answer, A, t
  <2>2. ~ToTheEnd(r, It(n)) /\ ~Back(r, It(n)) => n = t
    BY <1>1, <1>2, <1>3, <1>7, Zenon DEF ToTheEnd, Back, t
  <2>3. QED
    BY <1>3, <1>5, <2>1, <2>2, Zenon DEF Returns, n
<1>8. QED
  BY <1>1, <1>6, <1>7, Zenon

\* The greatest key that passes a test, when x is the last that does.
LEMMA GreatestBelow ==
    ASSUME SkipInv, NEW r \in Readers, lv[r] = 0,
           NEW B \in SUBSET (Linked(0) \ {head_}), \A k \in B : k <= x[r], It(x[r]) \in B \cup {Nil}
    PROVE  OS!Greatest(B) = It(x[r])
<1>1. /\ It(x[r]) = Nil \/ It(x[r]) = x[r]
      /\ \A k \in B : k \in Int /\ (It(x[r]) = Nil => k > x[r])
  BY LoadedAtZero, Zenon
<1>2. It(x[r]) \in Int /\ x[r] \in Int
  BY <1>1, ReaderTypes, NodeFacts
<1>3. B \in SUBSET Int
  BY <1>1, Zenon
<1>4. (It(x[r]) = Nil /\ B = {}) \/ (It(x[r]) \in B /\ \A m \in B : It(x[r]) >= m)
  <2>1. It(x[r]) = Nil => B = {}
    BY <1>1, <1>2
  <2>2. It(x[r]) # Nil => It(x[r]) \in B /\ \A m \in B : It(x[r]) >= m
    BY <1>1, <1>2, Zenon
  <2>3. QED
    BY <2>1, <2>2, Zenon
<1>5. QED
  BY <1>2, <1>3, <1>4, GreatestIs, Zenon

\* What FindLessThan ends on is what Prev or SeekForPrev promises.
LEMMA LessThanReturns ==
    ASSUME SkipInv, NEW r \in Readers, find[r] = "lessThan", lv[r] = 0,
           ~(Loaded(r) # last[r] /\ KeyIsAfterNode(node_[r], Loaded(r)))
    PROVE  Returns(r, x[r])
<1> DEFINE A == Linked(0) \ {head_}
           t == target[r]
<1>1. /\ node_[r] \in Keys /\ x[r] < node_[r] /\ (last[r] = Nil \/ last[r] >= node_[r]) /\ x[r] \in Int
      /\ (call[r] = "Prev" /\ t = node_[r]) \/ (call[r] = "SeekForPrev" /\ t \in Keys /\ t < node_[r])
  BY ReaderTypes, NodeFacts, Zenon DEF Reading
<1>2. Loaded(r) \in Int /\ node_[r] \in Int /\ t \in Int
  BY <1>1, LoadedFacts, NodeFacts, Zenon
<1>3. Loaded(r) = Nil \/ Loaded(r) >= node_[r]
  BY <1>1, <1>2 DEF KeyIsAfterNode
<1>4. /\ It(x[r]) = Nil \/ (It(x[r]) = x[r] /\ x[r] \in A)
      /\ \A k \in A : k \in Int /\ (k <= x[r] \/ (Loaded(r) # Nil /\ k >= Loaded(r)))
  BY LoadedAtZero, Zenon
<1> HIDE DEF A
<1>5. CASE call[r] = "Prev" /\ t = node_[r]
  <2> DEFINE B == {m \in A : m < t}
  <2>1. OS!Answer(call[r], target[r]) = OS!Greatest(B)
    BY <1>5, Zenon DEF OS!Answer, A
  <2>2. B \in SUBSET (Linked(0) \ {head_})
    BY Zenon DEF A
  <2>3. (\A k \in B : k <= x[r]) /\ It(x[r]) \in B \cup {Nil}
    BY <1>1, <1>2, <1>3, <1>4, <1>5
  <2> HIDE DEF B
  <2>4. OS!Greatest(B) = It(x[r])
    BY <2>2, <2>3, GreatestBelow, Zenon
  <2>5. QED
    BY <2>1, <2>4, Zenon DEF Returns
<1>6. CASE call[r] = "SeekForPrev" /\ t \in Keys /\ t < node_[r]
  <2> DEFINE B == {m \in A : m <= t}
  <2>1. OS!Answer(call[r], target[r]) = OS!Greatest(B)
    BY <1>6, Zenon DEF OS!Answer, A
  <2>2. SUFFICES ASSUME ~Back(r, It(x[r])) PROVE It(x[r]) = OS!Answer(call[r], target[r])
    BY Zenon DEF Returns
  <2>3. B \in SUBSET (Linked(0) \ {head_})
    BY Zenon DEF A
  <2>4. \A k \in B : k <= x[r]
    BY <1>1, <1>2, <1>3, <1>4, <1>6
  <2>5. It(x[r]) \in B \cup {Nil}
    BY <1>1, <1>2, <1>4, <1>6, <2>2 DEF Back
  <2> HIDE DEF B
  <2>6. OS!Greatest(B) = It(x[r])
    BY <2>3, <2>4, <2>5, GreatestBelow, Zenon
  <2>7. QED
    BY <2>1, <2>6, Zenon
<1>7. QED
  BY <1>1, <1>5, <1>6, Zenon

\* What FindLast ends on is what SeekToLast or SeekForPrev promises.
LEMMA LastReturns ==
    ASSUME SkipInv, NEW r \in Readers, find[r] = "last", lv[r] = 0, Loaded(r) = Nil
    PROVE  Returns(r, x[r])
<1> DEFINE A == Linked(0) \ {head_}
           t == target[r]
<1>1. /\ call[r] = "SeekToLast" \/ (call[r] = "SeekForPrev" /\ t \in Keys)
      /\ x[r] \in Int /\ t \in Int
  BY ReaderTypes, NodeFacts DEF Reading
<1>2. /\ It(x[r]) = Nil \/ (It(x[r]) = x[r] /\ x[r] \in A)
      /\ \A k \in A : k \in Int /\ k <= x[r]
  BY LoadedAtZero, Zenon
<1>3. CASE call[r] = "SeekToLast"
  <2>1. OS!Answer(call[r], target[r]) = OS!Greatest(A)
    BY <1>3, Zenon DEF OS!Answer
  <2>2. A \in SUBSET (Linked(0) \ {head_}) /\ It(x[r]) \in A \cup {Nil}
    BY <1>2, Zenon
  <2> HIDE DEF A
  <2>3. OS!Greatest(A) = It(x[r])
    BY <1>2, <2>2, GreatestBelow, Zenon
  <2>4. QED
    BY <2>1, <2>3, Zenon DEF Returns
<1>4. CASE call[r] = "SeekForPrev" /\ t \in Keys
  <2> DEFINE B == {m \in A : m <= t}
  <2>1. OS!Answer(call[r], target[r]) = OS!Greatest(B)
    BY <1>4, Zenon DEF OS!Answer
  <2>2. SUFFICES ASSUME ~Back(r, It(x[r])) PROVE It(x[r]) = OS!Answer(call[r], target[r])
    BY Zenon DEF Returns
  <2>3. B \in SUBSET (Linked(0) \ {head_}) /\ \A k \in B : k <= x[r]
    BY <1>2, Zenon
  <2>4. It(x[r]) \in B \cup {Nil}
    BY <1>1, <1>2, <1>4, <2>2 DEF Back
  <2> HIDE DEF B
  <2>5. OS!Greatest(B) = It(x[r])
    BY <2>3, <2>4, GreatestBelow, Zenon
  <2>6. QED
    BY <2>1, <2>5, Zenon
<1>5. QED
  BY <1>1, <1>3, <1>4, Zenon

\* The link Next and SeekToFirst load is what they promise.
LEMMA NextReturns ==
    ASSUME SkipInv, NEW r \in Readers, find[r] = "next"
    PROVE  Returns(r, Loaded(r))
<1> DEFINE A == Linked(0) \ {head_}
           n == Loaded(r)
           t == target[r]
<1>1. /\ (call[r] = "Next" /\ x[r] = t) \/ (call[r] = "SeekToFirst" /\ x[r] = 0)
      /\ lv[r] = 0 /\ x[r] \in Int
  BY ReaderTypes, NodeFacts, Zenon DEF Reading, head_
<1>2. /\ n = Nil \/ (n \in A /\ n > x[r])
      /\ It(n) = n
      /\ \A k \in A : k \in Int /\ k > 0 /\ (k <= x[r] \/ (n # Nil /\ k >= n))
  BY <1>1, LoadedAtZero, Zenon
<1>3. n \in Int
  BY LoadedFacts, Zenon
<1> DEFINE B == {m \in A : m > x[r]}
<1>4. B \in SUBSET Int /\ (call[r] = "SeekToFirst" => B = A)
  BY <1>1, <1>2, Zenon
<1>5. (n = Nil /\ B = {}) \/ (n \in B /\ \A m \in B : n <= m)
  <2>1. \A k \in B : n # Nil /\ k >= n
    BY <1>1, <1>2, <1>3
  <2>2. n # Nil => n \in B
    BY <1>2, Zenon
  <2>3. QED
    BY <2>1, <2>2, Zenon
<1>6. OS!Answer(call[r], target[r]) = OS!Least(B)
  <2>1. CASE call[r] = "Next" /\ x[r] = t
    BY <2>1, Zenon DEF OS!Answer
  <2>2. CASE call[r] = "SeekToFirst"
    BY <1>4, <2>2, Zenon DEF OS!Answer
  <2>3. QED
    BY <1>1, <2>1, <2>2, Zenon
<1> HIDE DEF B, n
<1>7. OS!Least(B) = n
  BY <1>3, <1>4, <1>5, LeastIs, Zenon
<1>8. QED
  BY <1>2, <1>6, <1>7, Zenon DEF Returns, n

\* The iterators as a caller sees them.
Iterators == [r \in Readers |-> IF call[r] = "none" THEN node_[r] ELSE Nil]

\* A step that leaves the set and the calls alone is a stuttering step of the ordered set.
LEMMA Quiet ==
    ASSUME Linked(0)' = Linked(0), UNCHANGED <<call, target>>,
           \A r \in Readers : call[r] = "none" => node_'[r] = node_[r]
    PROVE  UNCHANGED OS!setVars
BY Zenon DEF OS!setVars

\* A search that ends with what its call promises is a step of the ordered set.
LEMMA FoundRefines ==
    ASSUME SkipInv, UNCHANGED shared, NEW r \in Readers, NEW n, Found(r, n),
           find[r] # "none", Returns(r, n)
    PROVE  [OS!SetNext]_(OS!setVars)
<1>1. node_' = [node_ EXCEPT ![r] = It(n)]
  BY Zenon DEF Found, It
<1>2. Linked(0)' = Linked(0)
  BY LinkedSame, Zenon DEF shared
<1>3. call[r] # "none"
  BY ReaderTypes, Zenon DEF Reading
<1>4. /\ node_ \in [Readers -> Keys \cup {Nil}] /\ target \in [Readers -> Keys \cup {Nil}]
      /\ call \in [Readers -> Ops]
  BY Zenon DEF SkipInv, TypeOK, Ops
<1>5. CASE UNCHANGED <<call, target>>
  <2>1. \A q \in Readers : call[q] = "none" => node_'[q] = node_[q]
    BY <1>1, <1>3, <1>4, Zenon
  <2>2. QED
    BY <1>2, <1>5, <2>1, Quiet, Zenon
<1>6. CASE ~ToTheEnd(r, It(n)) /\ ~Back(r, It(n)) /\ Return(r)
  <2>1. It(n) = OS!Answer(call[r], target[r])
    BY <1>6, Zenon DEF Returns
  <2>2. call' = [call EXCEPT ![r] = "none"] /\ target' = [target EXCEPT ![r] = Nil]
    BY <1>6, Zenon DEF Return
  <2>3. Iterators' = [Iterators EXCEPT ![r] = It(n)]
    BY <1>1, <1>4, <2>2, Zenon DEF Iterators
  <2>4. OS!Reply(r)
    BY <1>2, <1>3, <2>1, <2>2, <2>3, Zenon DEF OS!Reply, Iterators
  <2>5. QED
    BY <2>4, Zenon DEF OS!SetNext
<1>7. QED
  BY <1>5, <1>6, Zenon DEF Found, It

\* Every step of a search is a step of the ordered set or a stuttering step.
LEMMA StepRefines ==
    ASSUME SkipInv, NEW r \in Readers, Step(r)
    PROVE  [OS!SetNext]_(OS!setVars)
<1>1. UNCHANGED shared /\ Linked(0)' = Linked(0)
  BY LinkedSame, Zenon DEF Step, shared
<1>2. ASSUME NEW n, Advance(r, n) \/ Descend(r, n) PROVE UNCHANGED OS!setVars
  BY <1>1, <1>2, Quiet, Zenon DEF Advance, Descend
<1>3. CASE StepGreaterOrEqual(r)
  <2>1. ASSUME Found(r, Loaded(r)),
               \/ Bigger(r, Loaded(r), target[r]) /\ lv[r] = 0
               \/ ~Bigger(r, Loaded(r), target[r]) /\ Loaded(r) = target[r]
        PROVE  [OS!SetNext]_(OS!setVars)
    BY <1>1, <1>3, <2>1, GreaterOrEqualReturns, FoundRefines, Zenon DEF StepGreaterOrEqual
  <2>2. QED
    BY <1>2, <1>3, <2>1, Zenon DEF StepGreaterOrEqual
<1>4. CASE StepLessThan(r)
  <2>1. ASSUME ~(Loaded(r) # last[r] /\ KeyIsAfterNode(node_[r], Loaded(r))), lv[r] = 0, Found(r, x[r])
        PROVE  [OS!SetNext]_(OS!setVars)
    BY <1>1, <1>4, <2>1, LessThanReturns, FoundRefines, Zenon DEF StepLessThan
  <2>2. QED
    BY <1>2, <1>4, <2>1, Zenon DEF StepLessThan
<1>5. CASE StepLast(r)
  <2>1. ASSUME Loaded(r) = Nil, lv[r] = 0, Found(r, x[r]) PROVE [OS!SetNext]_(OS!setVars)
    BY <1>1, <1>5, <2>1, LastReturns, FoundRefines, Zenon DEF StepLast
  <2>2. QED
    BY <1>2, <1>5, <2>1, Zenon DEF StepLast
<1>6. CASE StepNext(r)
  BY <1>1, <1>6, NextReturns, FoundRefines, Zenon DEF StepNext
<1>7. QED
  BY <1>3, <1>4, <1>5, <1>6, Zenon DEF Step

\* A call of an iterator starts an operation of the ordered set or is a whole one.
LEMMA CallsRefines ==
    ASSUME SkipInv, NEW r \in Readers, Calls(r)
    PROVE  OS!SetNext
<1>1. /\ node_ \in [Readers -> Keys \cup {Nil}] /\ target \in [Readers -> Keys \cup {Nil}]
      /\ call \in [Readers -> Ops]
  BY Zenon DEF SkipInv, TypeOK, Ops
<1>2. ASSUME NEW op \in Ops \ {"none"}, call[r] = "none", call' = [call EXCEPT ![r] = op],
             UNCHANGED <<next_, node_>>
      PROVE  /\ Linked(0)' = Linked(0) /\ Iterators' = [Iterators EXCEPT ![r] = Nil]
             /\ Iterators[r] = node_[r]
  <2>1. Linked(0)' = Linked(0)
    BY <1>2, LinkedSame, Zenon
  <2>2. Iterators' = [Iterators EXCEPT ![r] = Nil]
    BY <1>1, <1>2, Zenon DEF Iterators
  <2>3. QED
    BY <1>2, <2>1, <2>2, Zenon DEF Iterators
<1>3. OS!Asks(r)
  <2>1. ASSUME NEW k \in Keys, NEW op \in {"Seek", "SeekForPrev"}, Call(r, op, k) PROVE OS!Asks(r)
    <3>1. OS!Ask(r, op, k)
      BY <1>2, <2>1, Zenon DEF Call, OS!Ask, Iterators, Ops
    <3>2. QED
      BY <3>1, Zenon DEF OS!Asks, OS!Queries
  <2>2. ASSUME NEW op \in {"Next", "Prev"}, node_[r] # Nil, Call(r, op, node_[r]) PROVE OS!Asks(r)
    <3>1. Iterators[r] # Nil /\ OS!Ask(r, op, Iterators[r])
      BY <1>2, <2>2, Zenon DEF Call, OS!Ask, Iterators, Ops
    <3>2. QED
      BY <3>1, Zenon DEF OS!Asks, OS!Moves, Iterators
  <2>3. ASSUME NEW op \in {"SeekToFirst", "SeekToLast"}, Call(r, op, Nil) PROVE OS!Asks(r)
    <3>1. OS!Ask(r, op, Nil)
      BY <1>2, <2>3, Zenon DEF Call, OS!Ask, Iterators, Ops
    <3>2. QED
      BY <3>1, Zenon DEF OS!Asks, OS!Ends
  <2>4. QED
    BY <2>1, <2>2, <2>3, Zenon DEF Calls, Seek, SeekForPrev, SeekToLast, Prev, SeekToFirst, Next_
<1>4. QED
  BY <1>3, Zenon DEF OS!SetNext

\* The release store at level 0 adds the key; no other step of Insert changes the set.
LEMMA InsertRefines ==
    ASSUME SkipInv, Insert
    PROVE  [OS!SetNext]_(OS!setVars)
<1>1. UNCHANGED <<call, target, node_>>
  BY InsertStep, Zenon DEF reader
<1>2. 0 \in Levels /\ TypeOK /\ ListInv /\ WriterInv
  BY DEF SkipInv, Levels
<1>3. CASE Linked(0)' = Linked(0)
  BY <1>1, <1>3, Quiet, Zenon
<1>4. CASE InsertPublish
  <2>1. pc = "publish" /\ next_' = [next_ EXCEPT ![prev_[level]][level] = key]
    BY <1>4, Zenon DEF InsertPublish
  <2>2. /\ key \in Keys /\ key \notin Linked(level) /\ key # head_
        /\ Linked(0)' = IF 0 = level THEN Linked(0) \cup {key} ELSE Linked(0)
    BY <1>2, <2>1, PublishLinks, NodeFacts, Zenon
  <2>3. CASE level = 0
    <3>1. OS!Add(key)
      BY <1>1, <2>2, <2>3, Zenon DEF OS!Add
    <3>2. QED
      BY <2>2, <3>1, Zenon DEF OS!SetNext
  <2>4. QED
    BY <1>3, <2>2, <2>3, Zenon
<1>5. CASE InsertInit
  BY <1>2, <1>3, <1>5, InsertInitStep, Zenon
<1>6. CASE UNCHANGED next_
  BY <1>3, <1>6, LinkedSame, Zenon
<1>7. QED
  BY <1>4, <1>5, <1>6, Zenon DEF Insert, InsertFast, InsertFind, FindLessThan, InsertHeight

\* The empty skip list is the empty set.
LEMMA SetInitRefines == Init => OS!SetInit
<1> SUFFICES ASSUME Init PROVE OS!SetInit
  BY Zenon
<1>1. SkipInv /\ prev_[0] = head_ /\ pc = "idle" /\ 0 \in Levels
  BY SkipInit DEF Init, Levels
<1>2. Linked(0) = {head_}
  BY <1>1, Zenon DEF SkipInv, WriterInv, IdleInv
<1>3. QED
  BY <1>2, Zenon DEF OS!SetInit, Init

\* Every step of the skip list is a step of the ordered set or a stuttering step.
LEMMA SetStepRefines == SkipInv /\ [Next]_vars => [OS!SetNext]_(OS!setVars)
<1> SUFFICES ASSUME SkipInv, [Next]_vars PROVE [OS!SetNext]_(OS!setVars)
  BY Zenon
<1>1. CASE Insert
  BY <1>1, InsertRefines, Zenon
<1>2. CASE \E r \in Readers : Calls(r) \/ Step(r)
  BY <1>2, CallsRefines, StepRefines, Zenon
<1>3. CASE UNCHANGED vars
  BY <1>3, LinkedSame, Quiet, Zenon DEF vars, reader
<1>4. QED
  BY <1>1, <1>2, <1>3, Zenon DEF Next

\* skiplist.h implements the ordered set: a key enters it at one step of its Insert, and
\* every Seek, SeekForPrev, SeekToFirst, SeekToLast, Next and Prev of a reader returns the
\* exact answer in the set as it is when the call returns, whatever was inserted meanwhile.
THEOREM SkipListRefinesThm == Spec => RefinesOrderedSet
<1>1. Spec => []SkipInv
  BY SkipInit, SkipStep, PTL DEF Spec
<1>2. QED
  BY <1>1, SetInitRefines, SetStepRefines, PTL DEF Spec, RefinesOrderedSet, OS!SetSpec
-----------------------------------------------------------------------------
(* Timers: the inductive invariant *)

\* The timers: ids are given out in order, and the time of no timer is 0, which would disarm
\* a timerfd.
TimersInv ==
    /\ clock >= 1 /\ now <= clock /\ asked <= clock
    /\ \A n \in timeouts : n.id < tid /\ n.expire > 0
    /\ \A a, b \in timeouts : a.id = b.id => a = b

\* An id is pending, deleted or fired, and fires once; only a callback deletes what has fired.
Waits(i) == \E n \in timeouts : n.id = i /\ ~(tpc = "callback" /\ n = it)
Once(i) ==
    /\ i < tid => \/ Waits(i) /\ fired[i] = {} /\ i \notin deleted
                  \/ ~Waits(i) /\ fired[i] = {} /\ i \in deleted
                  \/ /\ ~Waits(i) /\ fired[i] # {}
                     /\ i \in deleted => tpc \in {"callback", "undefined"} /\ i = it.id
    /\ i >= tid => fired[i] = {} /\ i \notin deleted
    /\ \A s, t \in fired[i] : s = t
OnceInv == \A i \in T!Ids : Once(i)

\* HandleTimer: it is the first of the timers, also when a callback has added some, unless
\* the callback has deleted it.
HandleInv ==
    /\ tpc = "handle" => it = T!begin(timeouts)
    /\ tpc = "callback" =>
          /\ it \in T!Nodes /\ it.id < tid /\ it.expire <= now
          /\ \A n \in timeouts \ {it} : T!Before(it, n)
          /\ fired[it.id] # {} /\ (it.id \in deleted => it \notin timeouts)

\* The sleep: the end asked for is not later than the first timer, and there is one unless the
\* time does not fit an int; past MaxClock the clock stands still between asking and sleeping.
SleepInv ==
    tpc \in {"epoll", "wait"} =>
        /\ clock > MaxClock /\ tpc = "epoll" => asked = clock
        /\ timeout > 0 => asked + timeout <= MaxClock
        /\ timeouts # {} /\ timerfd => (ready /\ ticks > 0) \/ (armed # 0 /\ armed <= T!begin(timeouts).expire)
        /\ timeouts # {} /\ ~timerfd =>
              /\ asked + timeout <= T!Latest(T!begin(timeouts).expire, asked)
              /\ timeout < 0 => T!Latest(T!begin(timeouts).expire, asked) - asked > IntMax
              /\ tpc = "wait" /\ until = T!Never => timeout < 0

TInv == T!TypeOK /\ TimersInv /\ OnceInv /\ HandleInv /\ SleepInv

\* A set of numbers that is not empty has a least one: the first timer exists.
LEMMA NatMin ==
    ASSUME NEW S \in SUBSET Nat, S # {}
    PROVE  \E n \in S : \A m \in S : n <= m
<1> DEFINE R == OpToRel(<, Nat)
<1>1. IsWellFoundedOn(R, Nat)
  BY NatLessThanWellFounded, Zenon
<1>2. R = {ss \in Nat \X Nat : ss[1] < ss[2]}
  BY Zenon DEF OpToRel
<1> HIDE DEF R
<1>3. PICK n \in S : \A m \in S : ~(<<m, n>> \in R)
  BY <1>1, WFMin, Zenon
<1>4. \A a, b \in Nat : <<a, b>> \in R <=> a < b
  BY <1>2, Zenon
<1>5. ASSUME NEW m \in S PROVE n <= m
  <2>1. m \in Nat /\ n \in Nat /\ ~(<<m, n>> \in R)
    BY <1>3, Zenon
  <2>2. ~(m < n)
    BY <1>4, <2>1, Zenon
  <2>3. QED
    BY <2>1, <2>2
<1>6. QED
  BY <1>5, Zenon

\* The fields of a timer and their types.
LEMMA TimerFacts ==
    ASSUME NEW n \in T!Nodes
    PROVE  /\ n.expire \in 0 .. MaxClock /\ n.expire \in Nat /\ n.id \in T!Ids /\ n.id \in Nat
           /\ n = [expire |-> n.expire, id |-> n.id] /\ n # T!End
<1>1. n.expire \in 0 .. MaxClock /\ n.id \in 0 .. MaxTimers - 1 /\ n = [expire |-> n.expire, id |-> n.id]
  BY Zenon DEF T!Nodes, T!Ids
<1>2. n # T!End
  BY <1>1 DEF T!End
<1>3. QED
  BY <1>1, <1>2, TimersAssumption DEF T!Ids

\* The operator < is a total order on timers.
LEMMA BeforeTotal ==
    ASSUME NEW a \in T!Nodes, NEW b \in T!Nodes, a # b
    PROVE  T!Before(a, b) <=> ~T!Before(b, a)
<1>1. a.expire = b.expire => a.id # b.id
  BY TimerFacts, Zenon
<1>2. a.expire \in Nat /\ b.expire \in Nat /\ a.id \in Nat /\ b.id \in Nat
  BY TimerFacts, Zenon
<1>3. QED
  BY <1>1, <1>2 DEF T!Before

\* begin() of a set that is not empty is its first timer.
LEMMA BeginFirst ==
    ASSUME NEW S \in SUBSET T!Nodes, S # {}
    PROVE  T!begin(S) \in S /\ \A b \in S : ~T!Before(b, T!begin(S))
<1>1. PICK e \in {n.expire : n \in S} : \A m \in {n.expire : n \in S} : e <= m
  <2>1. {n.expire : n \in S} \in SUBSET Nat /\ {n.expire : n \in S} # {}
    BY TimerFacts
  <2>2. QED
    BY <2>1, NatMin, Zenon
<1> DEFINE F == {n \in S : n.expire = e}
<1>2. PICK i \in {n.id : n \in F} : \A m \in {n.id : n \in F} : i <= m
  <2>1. {n.id : n \in F} \in SUBSET Nat /\ {n.id : n \in F} # {}
    BY <1>1, TimerFacts
  <2>2. QED
    BY <2>1, NatMin, Zenon
<1>3. PICK a \in F : a.id = i
  BY <1>2, Zenon
<1>4. ASSUME NEW b \in S PROVE ~T!Before(b, a)
  <2>1. a \in S /\ a.expire = e /\ e <= b.expire /\ (b.expire = e => i <= b.id)
    BY <1>1, <1>2, <1>3, Zenon
  <2>2. b.expire \in Nat /\ b.id \in Nat /\ a.expire \in Nat /\ a.id \in Nat
    BY <2>1, TimerFacts, Zenon
  <2>3. QED
    BY <1>3, <2>1, <2>2 DEF T!Before
<1>5. QED
  BY <1>3, <1>4, Zenon DEF T!begin

\* The conversion to an int keeps what fits, and makes no sleep longer.
LEMMA ToIntIs ==
    ASSUME NEW t \in Int, t >= -1
    PROVE  /\ T!ToInt(t) \in -IntMax - 1 .. IntMax /\ T!ToInt(t) <= t
           /\ t <= IntMax => T!ToInt(t) = t
<1> DEFINE w == 2 * (IntMax + 1)
<1>1. w \in Nat \ {0} /\ IntMax \in Nat /\ w = IntMax + IntMax + 2
  BY TimersAssumption
<1>2. T!ToInt(t) = IF t % w > IntMax THEN (t % w) - w ELSE t % w
  BY Zenon DEF T!ToInt
<1> HIDE DEF w
<1>3. ASSUME NEW q \in Int, NEW r \in 0 .. w - 1 PROVE (q * w + r) % w = r
  BY <1>1
<1>4. CASE t >= 0 /\ t < w
  <2>1. 0 * w + t = t /\ t \in 0 .. w - 1
    BY <1>1, <1>4
  <2>2. t % w = t
    BY <1>3, <2>1
  <2>3. QED
    BY <1>1, <1>2, <1>4, <2>2
<1>5. CASE t = -1
  <2>1. (-1) * w + (w - 1) = -1 /\ w - 1 \in 0 .. w - 1
    BY <1>1
  <2>2. t % w = w - 1
    BY <1>3, <1>5, <2>1
  <2>3. QED
    BY <1>1, <1>2, <1>5, <2>2
<1>6. CASE t >= w
  <2>1. t % w \in 0 .. w - 1
    BY <1>1
  <2>2. QED
    BY <1>1, <1>2, <1>6, <2>1
<1>7. QED
  BY <1>1, <1>4, <1>5, <1>6

-----------------------------------------------------------------------------
(* Timers: the steps *)

\* A new timer comes after the one whose callback adds it.
LEMMA AddTimerStep ==
    ASSUME TInv, NEW d \in Delays, T!AddTimer(d)
    PROVE  TInv'
<1> DEFINE n == [expire |-> clock + d, id |-> tid]
<1>1. /\ tpc \in {"main", "callback"} /\ tid < MaxTimers /\ clock + d <= MaxClock
      /\ timeouts' = T!emplace(timeouts, n) /\ tid' = tid + 1
      /\ UNCHANGED <<timerfd, clock, tpc, it, now, asked, timeout, until, armed, ticks, ready, fired, deleted>>
  BY Zenon DEF T!AddTimer, T!InUserCode, T!sleepVars, T!fdVars
<1>2. /\ d \in Nat /\ clock \in Nat /\ clock >= 1 /\ now \in Nat /\ now <= clock /\ tid \in Nat
      /\ MaxClock \in Nat /\ MaxTimers \in Nat /\ timeouts \in SUBSET T!Nodes
  BY TimersAssumption DEF TInv, TimersInv, T!TypeOK
<1>3. n \in T!Nodes /\ n.expire = clock + d /\ n.id = tid
  BY <1>1, <1>2 DEF T!Nodes, T!Ids
<1>4. \A a \in timeouts : a \in T!Nodes /\ a.id \in Nat /\ a.id < tid /\ a.expire \in Nat /\ a.expire > 0
  BY <1>2, TimerFacts, Zenon DEF TInv, TimersInv
<1> HIDE DEF n
<1>5. \A a \in timeouts : ~T!Same(a, n) /\ a # n
  BY <1>2, <1>3, <1>4 DEF T!Same, T!Before
<1>6. timeouts' = timeouts \cup {n}
  BY <1>1, <1>5, Zenon DEF T!emplace
<1>7. T!TypeOK'
  BY <1>1, <1>2, <1>3, <1>6 DEF TInv, T!TypeOK
<1>8. TimersInv'
  BY <1>1, <1>2, <1>3, <1>4, <1>6 DEF TInv, TimersInv
<1>9. tpc = "callback" => n # it /\ it.id < tid /\ it.expire \in Nat /\ it.id \in Nat
  BY <1>2, <1>3, TimerFacts DEF TInv, HandleInv
<1>10. OnceInv'
  <2>1. ASSUME NEW i \in T!Ids PROVE Waits(i)' <=> Waits(i) \/ i = tid
    BY <1>1, <1>3, <1>6, <1>9, Zenon DEF Waits
  <2>2. \A i \in T!Ids : i \in Nat
    BY DEF T!Ids
  <2>3. ASSUME NEW i \in T!Ids, i < tid PROVE ~(i = tid) /\ i < tid' /\ ~(i >= tid')
    BY <1>1, <1>2, <2>2, <2>3
  <2>4. ASSUME NEW i \in T!Ids, i > tid PROVE ~(i = tid) /\ i >= tid /\ ~(i < tid')
    BY <1>1, <1>2, <2>2, <2>4
  <2>5. tid >= tid /\ tid < tid' /\ ~(tid >= tid') /\ ~(tid < tid)
    BY <1>1, <1>2
  <2>6. ASSUME NEW i \in T!Ids PROVE i < tid \/ i = tid \/ i > tid
    BY <1>2, <2>2
  <2>7. \A i \in T!Ids : Once(i) /\ fired'[i] = fired[i] /\ deleted' = deleted
    BY <1>1, Zenon DEF TInv, OnceInv
  <2>8. ASSUME NEW i \in T!Ids, i < tid PROVE Once(i)'
    BY <1>1, <2>1, <2>3, <2>7, <2>8, Zenon DEF Once
  <2>9. ASSUME NEW i \in T!Ids, i = tid PROVE Once(i)'
    BY <2>1, <2>5, <2>7, <2>9, Zenon DEF Once
  <2>10. ASSUME NEW i \in T!Ids, i > tid PROVE Once(i)'
    BY <2>1, <2>4, <2>7, <2>10, Zenon DEF Once
  <2>11. QED
    BY <2>6, <2>8, <2>9, <2>10, Zenon DEF OnceInv
<1>11. HandleInv'
  <2>1. tpc = "callback" => T!Before(it, n)
    BY <1>1, <1>2, <1>3, <1>4, <1>9 DEF TInv, HandleInv, T!Before
  <2>2. tpc = "callback" => it.id < tid'
    BY <1>1, <1>2, <1>9
  <2>3. QED
    BY <1>1, <1>6, <1>9, <2>1, <2>2, Zenon DEF TInv, HandleInv, T!Before
<1>12. SleepInv'
  BY <1>1, Zenon DEF SleepInv
<1>13. QED
  BY <1>7, <1>8, <1>10, <1>11, <1>12, Zenon DEF TInv

\* A deleted timer is not pending any more, and no other has its id.
LEMMA DelTimerStep ==
    ASSUME TInv, NEW n \in timeouts, T!DelTimer(n)
    PROVE  TInv'
<1>1. /\ tpc \in {"main", "callback"} /\ timeouts' = timeouts \ {n} /\ deleted' = deleted \cup {n.id}
      /\ UNCHANGED <<timerfd, clock, tid, tpc, it, now, asked, timeout, until, armed, ticks, ready, fired>>
  BY Zenon DEF T!DelTimer, T!InUserCode, T!sleepVars, T!fdVars
<1>2. n.id \in T!Ids /\ n.id \in Nat /\ n.id < tid /\ tid \in Nat /\ n.id \in Int
  BY TimerFacts DEF TInv, TimersInv, T!TypeOK
<1>3. T!TypeOK'
  BY <1>1, <1>2, Zenon DEF TInv, T!TypeOK
<1>4. TimersInv'
  BY <1>1, Zenon DEF TInv, TimersInv
<1>5. \A m \in timeouts : m.id = n.id => m = n
  BY Zenon DEF TInv, TimersInv
<1>6. OnceInv'
  <2>1. ASSUME NEW i \in T!Ids PROVE Waits(i)' <=> Waits(i) /\ i # n.id
    BY <1>1, <1>5, Zenon DEF Waits
  <2>2. CASE tpc = "callback" /\ n = it
    <3>1. fired[n.id] # {} /\ ~Waits(n.id) /\ ~(n.id >= tid)
      BY <1>2, <1>5, <2>2 DEF TInv, HandleInv, Waits
    <3>2. QED
      BY <1>1, <1>2, <2>1, <2>2, <3>1, Zenon DEF TInv, OnceInv, Once
  <2>3. CASE ~(tpc = "callback" /\ n = it)
    <3>1. Waits(n.id) /\ ~(n.id >= tid)
      BY <1>2, <2>3 DEF Waits
    <3>2. QED
      BY <1>1, <1>2, <2>1, <3>1, Zenon DEF TInv, OnceInv, Once
  <2>4. QED
    BY <2>2, <2>3, Zenon
<1>7. HandleInv'
  BY <1>1, <1>5, Zenon DEF TInv, HandleInv, T!Before
<1>8. SleepInv'
  BY <1>1, Zenon DEF SleepInv
<1>9. QED
  BY <1>3, <1>4, <1>6, <1>7, <1>8, Zenon DEF TInv

\* The steps that change neither the timers nor who is in a callback.
LEMMA QuietTimers ==
    ASSUME TInv, UNCHANGED <<timeouts, tid, fired, deleted>>,
           {tpc, tpc'} \cap {"callback", "undefined"} # {} => UNCHANGED <<tpc, it>>,
           clock' \in Nat, clock' >= clock, now' <= clock', asked' <= clock'
    PROVE  TimersInv' /\ OnceInv'
<1>1. TimersInv'
  <2>1. \A n \in timeouts : n.expire \in Nat
    BY TimerFacts, Zenon DEF TInv, T!TypeOK
  <2>2. clock \in Nat
    BY DEF TInv, T!TypeOK
  <2>3. QED
    BY <2>1, <2>2 DEF TInv, TimersInv
<1>2. \A i : Waits(i)' <=> Waits(i)
  BY Zenon DEF Waits
<1>3. QED
  BY <1>1, <1>2, Zenon DEF TInv, OnceInv, Once

\* main enters its loop.
LEMMA StartLoopStep == ASSUME TInv, T!StartLoop PROVE TInv'
<1>1. /\ tpc = "main" /\ tpc' = "sleep"
      /\ UNCHANGED <<timerfd, clock, timeouts, tid, it, now, asked, timeout, until, armed, ticks, ready, fired, deleted>>
  BY Zenon DEF T!StartLoop, T!sleepVars, T!fdVars
<1>2. TimersInv' /\ OnceInv'
  BY <1>1, QuietTimers DEF TInv, T!TypeOK, TimersInv
<1>3. T!TypeOK'
  BY <1>1, Zenon DEF TInv, T!TypeOK
<1>4. QED
  BY <1>1, <1>2, <1>3, Zenon DEF TInv, HandleInv, SleepInv

\* The first timer, where there is one.
LEMMA FirstFacts ==
    ASSUME TInv, timeouts # {}
    PROVE  LET f == T!begin(timeouts)
           IN  /\ f \in timeouts /\ f \in T!Nodes /\ f.expire \in Nat /\ f.expire > 0 /\ f.expire <= MaxClock
               /\ \A n \in timeouts \ {f} : T!Before(f, n)
<1> DEFINE f == T!begin(timeouts)
<1>1. timeouts \in SUBSET T!Nodes
  BY Zenon DEF TInv, T!TypeOK
<1>2. f \in timeouts /\ \A n \in timeouts : ~T!Before(n, f)
  BY <1>1, BeginFirst, Zenon
<1> HIDE DEF f
<1>3. f \in T!Nodes /\ f.expire \in Nat /\ f.expire <= MaxClock
  BY <1>1, <1>2, TimerFacts, TimersAssumption
<1>4. f.expire > 0
  BY <1>2, Zenon DEF TInv, TimersInv
<1>5. ASSUME NEW n \in timeouts \ {f} PROVE T!Before(f, n)
  <2>1. n \in T!Nodes /\ n # f /\ ~T!Before(n, f)
    BY <1>1, <1>2, Zenon
  <2>2. QED
    BY <1>3, <2>1, BeforeTotal, Zenon
<1>6. QED
  BY <1>2, <1>3, <1>4, <1>5, Zenon DEF f

\* The loop asks for the time until the first timer.
LEMMA AskTimeoutStep == ASSUME TInv, T!AskTimeout PROVE TInv'
<1> DEFINE f == T!begin(timeouts)
<1>1. /\ ~timerfd /\ tpc = "sleep" /\ tpc' = "epoll" /\ asked' = clock /\ timeout' = T!ToInt(T!TimeToSleep)
      /\ UNCHANGED <<timerfd, clock, timeouts, tid, it, now, until, armed, ticks, ready, fired, deleted>>
  BY Zenon DEF T!AskTimeout, T!fdVars
<1>2. clock \in Nat /\ clock \in 0 .. 2 * MaxClock /\ now <= clock /\ IntMax \in Nat /\ MaxClock \in Nat
  BY TimersAssumption DEF TInv, T!TypeOK, TimersInv
<1>3. timeouts # {} => f.expire \in Nat /\ f.expire <= MaxClock
  BY FirstFacts, Zenon
<1>4. T!TimeToSleep = IF timeouts = {} THEN -1 ELSE IF f.expire - clock > 0 THEN f.expire - clock ELSE 0
  BY Zenon DEF T!TimeToSleep
<1> HIDE DEF f
<1>5. T!TimeToSleep \in Int /\ T!TimeToSleep >= -1
  BY <1>2, <1>3, <1>4
<1>6. /\ timeout' \in -IntMax - 1 .. IntMax /\ timeout' <= T!TimeToSleep
      /\ T!TimeToSleep <= IntMax => timeout' = T!TimeToSleep
  BY <1>1, <1>5, ToIntIs, Zenon
<1>7. TimersInv' /\ OnceInv'
  BY <1>1, <1>2, QuietTimers
<1>8. T!TypeOK'
  BY <1>1, <1>2, <1>5, <1>6, Zenon DEF TInv, T!TypeOK
<1>9. SleepInv'
  <2>1. timeout' > 0 => asked' + timeout' <= MaxClock
    BY <1>1, <1>2, <1>3, <1>4, <1>6
  <2>2. timeouts # {} => /\ asked' + timeout' <= T!Latest(f.expire, asked')
                         /\ timeout' < 0 => T!Latest(f.expire, asked') - asked' > IntMax
    BY <1>1, <1>2, <1>3, <1>4, <1>6 DEF T!Latest
  <2>3. T!begin(timeouts)' = f
    BY <1>1 DEF f, T!begin, T!Before
  <2>4. QED
    BY <1>1, <2>1, <2>2, <2>3, Zenon DEF SleepInv, T!Latest
<1>10. QED
  BY <1>1, <1>7, <1>8, <1>9, Zenon DEF TInv, HandleInv

\* UpdateTimerfd sets the timerfd to the first timer.
LEMMA UpdateTimerfdStep == ASSUME TInv, T!UpdateTimerfd PROVE TInv'
<1> DEFINE f == T!begin(timeouts)
           due == T!FirstExpire # 0 /\ T!FirstExpire <= clock
<1>1. /\ timerfd /\ tpc = "sleep" /\ tpc' = "epoll" /\ asked' = clock /\ timeout' = -1
      /\ armed' = (IF due THEN 0 ELSE T!FirstExpire) /\ ticks' = (IF due THEN 1 ELSE 0)
      /\ ready' = (ready \/ due)
      /\ UNCHANGED <<timerfd, clock, timeouts, tid, it, now, until, fired, deleted>>
  BY Zenon DEF T!UpdateTimerfd
<1>2. clock \in Nat /\ clock \in 0 .. 2 * MaxClock /\ now <= clock /\ IntMax \in Nat /\ MaxClock \in Nat
  BY TimersAssumption DEF TInv, T!TypeOK, TimersInv
<1>3. timeouts # {} => f.expire \in Nat /\ f.expire > 0 /\ f.expire <= MaxClock
  BY FirstFacts, Zenon
<1>4. T!FirstExpire = IF timeouts = {} THEN 0 ELSE f.expire
  BY Zenon DEF T!FirstExpire
<1>5. T!begin(timeouts)' = f
  BY <1>1 DEF T!begin, T!Before
<1> HIDE DEF f, due
<1>6. TimersInv' /\ OnceInv'
  BY <1>1, <1>2, QuietTimers
<1>7. T!TypeOK'
  <2>1. armed' \in 0 .. MaxClock /\ ticks' \in {0, 1} /\ timeout' \in -IntMax - 1 .. IntMax
    BY <1>1, <1>2, <1>3, <1>4
  <2>2. ready' \in BOOLEAN
    BY <1>1, Zenon
  <2>3. QED
    BY <1>1, <1>2, <2>1, <2>2, Zenon DEF TInv, T!TypeOK
<1>8. SleepInv'
  <2>1. timeouts # {} => (ready' /\ ticks' > 0) \/ (armed' # 0 /\ armed' <= f.expire)
    <3>1. CASE due
      <4>1. ready'
        BY <1>1, <3>1, Zenon
      <4>2. ticks' = 1
        BY <1>1, <3>1, Zenon
      <4>3. QED
        BY <4>1, <4>2
    <3>2. CASE ~due
      BY <1>1, <1>3, <1>4, <3>2 DEF due
    <3>3. QED
      BY <3>1, <3>2, Zenon
  <2>2. QED
    BY <1>1, <1>5, <2>1 DEF SleepInv
<1>9. QED
  BY <1>1, <1>6, <1>7, <1>8, Zenon DEF TInv, HandleInv

\* epoll_wait begins to sleep until the timeout or the timerfd.
LEMMA EpollWaitStep == ASSUME TInv, T!EpollWait PROVE TInv'
<1>1. /\ tpc = "epoll" /\ tpc' = "wait" /\ until' = IF timeout < 0 THEN T!Never ELSE clock + timeout
      /\ UNCHANGED <<timerfd, clock, timeouts, tid, it, now, asked, timeout, armed, ticks, ready, fired, deleted>>
  BY Zenon DEF T!EpollWait, T!fdVars
<1>2. /\ clock \in 0 .. 2 * MaxClock /\ now <= clock /\ MaxClock \in Nat /\ timeout \in Int
      /\ asked \in Nat /\ asked <= clock
  BY TimersAssumption DEF TInv, T!TypeOK, TimersInv
<1>3. (clock > MaxClock => asked = clock) /\ (timeout > 0 => asked + timeout <= MaxClock)
  BY <1>1, Zenon DEF TInv, SleepInv
<1>4. until' \in -1 .. 2 * MaxClock /\ (until' = T!Never => timeout < 0)
  BY <1>1, <1>2, <1>3 DEF T!Never
<1>5. TimersInv' /\ OnceInv'
  BY <1>1, <1>2, QuietTimers
<1>6. T!TypeOK'
  BY <1>1, <1>4, Zenon DEF TInv, T!TypeOK
<1>7. SleepInv'
  <2>1. T!begin(timeouts)' = T!begin(timeouts)
    BY <1>1 DEF T!begin, T!Before
  <2>2. QED
    BY <1>1, <1>3, <1>4, <2>1, Zenon DEF TInv, SleepInv, T!Latest
<1>8. QED
  BY <1>1, <1>5, <1>6, <1>7, Zenon DEF TInv, HandleInv

\* Time passes; the edge of a timerfd that expires covers the timer it was armed for.
LEMMA TickStep == ASSUME TInv, T!Tick PROVE TInv'
<1>1. /\ clock < T!LastTick /\ clock' = clock + 1
      /\ IF armed # 0 /\ armed <= clock + 1
         THEN armed' = 0 /\ ticks' = 1 /\ ready' = TRUE ELSE UNCHANGED <<armed, ticks, ready>>
      /\ UNCHANGED <<timerfd, timeouts, tid, tpc, it, now, asked, timeout, until, fired, deleted>>
  BY Zenon DEF T!Tick, T!sleepVars, T!fdVars
<1>2. /\ clock \in Nat /\ now \in Nat /\ asked \in Nat /\ now <= clock /\ asked <= clock
      /\ MaxClock \in Nat /\ armed \in 0 .. MaxClock /\ ticks \in {0, 1} /\ ready \in BOOLEAN
  BY TimersAssumption DEF TInv, T!TypeOK, TimersInv
<1>3. clock' \in 0 .. 2 * MaxClock /\ clock' \in Nat /\ (tpc = "epoll" => ~(clock' > MaxClock))
  BY <1>1, <1>2 DEF T!LastTick
<1>4. TimersInv' /\ OnceInv'
  BY <1>1, <1>2, <1>3, QuietTimers
<1>5. T!TypeOK'
  <2>1. armed' \in 0 .. MaxClock /\ ticks' \in {0, 1}
    BY <1>1, <1>2
  <2>2. ready' \in BOOLEAN
    BY <1>1, <1>2, Zenon
  <2>3. QED
    BY <1>1, <1>3, <2>1, <2>2, Zenon DEF TInv, T!TypeOK
<1>6. T!begin(timeouts)' = T!begin(timeouts)
  BY <1>1 DEF T!begin, T!Before
<1>7. HandleInv'
  BY <1>1, <1>6, Zenon DEF TInv, HandleInv, T!Before
<1>8. SleepInv'
  <2>1. SUFFICES ASSUME tpc' \in {"epoll", "wait"} PROVE SleepInv'
    BY Zenon DEF SleepInv
  <2>2. ASSUME timeouts # {}, timerfd
        PROVE  (ready' /\ ticks' > 0) \/ (armed' # 0 /\ armed' <= T!begin(timeouts).expire)
    <3>1. (ready /\ ticks > 0) \/ (armed # 0 /\ armed <= T!begin(timeouts).expire)
      BY <1>1, <2>1, <2>2, Zenon DEF TInv, SleepInv
    <3>2. CASE armed # 0 /\ armed <= clock + 1
      BY <1>1, <3>2
    <3>3. CASE ~(armed # 0 /\ armed <= clock + 1)
      BY <1>1, <3>1, <3>3, Zenon
    <3>4. QED
      BY <3>2, <3>3, Zenon
  <2>3. QED
    BY <1>1, <1>3, <1>6, <2>1, <2>2, Zenon DEF TInv, SleepInv, T!Latest
<1>9. QED
  BY <1>4, <1>5, <1>7, <1>8, Zenon DEF TInv

\* epoll_wait returns.
LEMMA WakeStep == ASSUME TInv, T!Wake PROVE TInv'
<1>1. /\ tpc = "wait" /\ tpc' = "handle" /\ ready' = FALSE /\ now' = clock /\ it' = T!begin(timeouts)
      /\ until' = T!Never /\ asked' = 0 /\ timeout' = 0
      /\ UNCHANGED <<timerfd, clock, timeouts, tid, armed, ticks, fired, deleted>>
  BY Zenon DEF T!Wake, T!GetTick
<1>2. clock \in Nat /\ clock \in 0 .. 2 * MaxClock /\ IntMax \in Nat /\ MaxClock \in Nat
  BY TimersAssumption DEF TInv, T!TypeOK
<1>3. it' \in T!Nodes \cup {T!End}
  <2>1. CASE timeouts = {}
    BY <1>1, <2>1, Zenon DEF T!begin
  <2>2. CASE timeouts # {}
    BY <1>1, <2>2, FirstFacts, Zenon
  <2>3. QED
    BY <2>1, <2>2, Zenon
<1>4. TimersInv' /\ OnceInv'
  BY <1>1, <1>2, QuietTimers
<1>5. T!TypeOK'
  <2>1. ready' \in BOOLEAN
    BY <1>1, Zenon
  <2>2. until' \in -1 .. 2 * MaxClock /\ asked' \in 0 .. 2 * MaxClock /\ timeout' \in -IntMax - 1 .. IntMax
    BY <1>1, <1>2 DEF T!Never
  <2>3. {clock, now, asked}' \subseteq 0 .. 2 * MaxClock
    BY <1>1, <1>2, <2>2, Zenon
  <2>4. QED
    BY <1>1, <1>3, <2>1, <2>2, <2>3, Zenon DEF TInv, T!TypeOK
<1>6. HandleInv'
  BY <1>1 DEF HandleInv, T!begin, T!Before
<1>7. QED
  BY <1>1, <1>4, <1>5, <1>6, Zenon DEF TInv, SleepInv

\* A timer that fires is due and the first of all.
LEMMA FireFirst ==
    ASSUME TInv, T!Fire
    PROVE  /\ it \in timeouts /\ it.expire <= now /\ it.expire <= clock
           /\ \A n \in timeouts \ {it} : T!Before(it, n)
<1>1. tpc = "handle" /\ it # T!End /\ it.expire <= now /\ it = T!begin(timeouts)
  BY Zenon DEF T!Fire, T!Due, TInv, HandleInv
<1>2. timeouts # {}
  BY <1>1, Zenon DEF T!begin
<1>3. it \in timeouts /\ it.expire \in Nat /\ \A n \in timeouts \ {it} : T!Before(it, n)
  BY <1>1, <1>2, FirstFacts, Zenon
<1>4. now \in Nat /\ clock \in Nat /\ now <= clock
  BY DEF TInv, T!TypeOK, TimersInv
<1>5. QED
  BY <1>1, <1>3, <1>4

\* HandleTimer runs the callback of the first timer.
LEMMA FireStep == ASSUME TInv, T!Fire PROVE TInv'
<1>1. /\ tpc = "handle" /\ tpc' = "callback" /\ fired' = [fired EXCEPT ![it.id] = @ \cup {clock}]
      /\ UNCHANGED <<timerfd, clock, timeouts, tid, it, now, asked, timeout, until, armed, ticks, ready, deleted>>
  BY Zenon DEF T!Fire, T!sleepVars, T!fdVars
<1>2. it \in timeouts /\ it.expire <= now /\ \A n \in timeouts \ {it} : T!Before(it, n)
  BY FireFirst, Zenon
<1>3. it.id \in T!Ids /\ it.id \in Nat /\ it.id < tid /\ tid \in Nat /\ clock \in 0 .. 2 * MaxClock
  BY <1>2, TimerFacts DEF TInv, TimersInv, T!TypeOK
<1>4. fired \in [T!Ids -> SUBSET (0 .. 2 * MaxClock)]
  BY Zenon DEF TInv, T!TypeOK
<1>5. /\ fired' \in [T!Ids -> SUBSET (0 .. 2 * MaxClock)]
      /\ \A i \in T!Ids : fired'[i] = IF i = it.id THEN fired[i] \cup {clock} ELSE fired[i]
  BY <1>1, <1>3, <1>4, Zenon
<1>6. T!TypeOK'
  BY <1>1, <1>5, Zenon DEF TInv, T!TypeOK
<1>7. TimersInv'
  BY <1>1, Zenon DEF TInv, TimersInv
<1>8. OnceInv'
  <2>1. ASSUME NEW i \in T!Ids PROVE Waits(i)' <=> Waits(i) /\ i # it.id
    <3>1. \A m \in timeouts : m.id = it.id => m = it
      BY <1>2, Zenon DEF TInv, TimersInv
    <3>2. QED
      BY <1>1, <3>1, Zenon DEF Waits
  <2>2. Waits(it.id)
    BY <1>1, <1>2, Zenon DEF Waits
  <2>3. ~(it.id >= tid)
    BY <1>3
  <2>4. fired[it.id] = {} /\ it.id \notin deleted
    BY <1>3, <2>2, Zenon DEF TInv, OnceInv, Once
  <2>5. fired'[it.id] = {clock}
    BY <1>3, <1>5, <2>4, Zenon
  <2>6. \A i \in T!Ids : i # it.id => fired'[i] = fired[i]
    BY <1>5, Zenon
  <2>7. QED
    BY <1>1, <1>3, <2>1, <2>3, <2>4, <2>5, <2>6 DEF TInv, OnceInv, Once
<1>9. HandleInv'
  <2>1. it \in T!Nodes
    BY <1>2, Zenon DEF TInv, T!TypeOK
  <2>2. fired'[it.id] # {}
    BY <1>3, <1>5
  <2>3. it.id \notin deleted
    BY <1>1, <1>2, <1>3 DEF TInv, OnceInv, Once, Waits
  <2>4. QED
    BY <1>1, <1>2, <1>3, <2>1, <2>2, <2>3, Zenon DEF HandleInv, T!Before
<1>10. QED
  BY <1>1, <1>6, <1>7, <1>8, <1>9, Zenon DEF TInv, SleepInv

\* erase(it): what follows the timer that has fired is the first of those left.
LEMMA CallbackReturnsStep == ASSUME TInv, T!CallbackReturns PROVE TInv'
<1>1. /\ tpc = "callback" /\ it \in timeouts /\ tpc' = "handle" /\ timeouts' = timeouts \ {it}
      /\ it' = T!begin({a \in timeouts : T!Before(it, a)})
      /\ UNCHANGED <<timerfd, clock, tid, now, asked, timeout, until, armed, ticks, ready, fired, deleted>>
  BY Zenon DEF T!CallbackReturns, T!sleepVars, T!fdVars
<1>2. it \in T!Nodes /\ it.id \notin deleted /\ \A n \in timeouts \ {it} : T!Before(it, n)
  BY <1>1, Zenon DEF TInv, HandleInv
<1>3. {a \in timeouts : T!Before(it, a)} = timeouts \ {it}
  <2>1. ~T!Before(it, it)
    BY <1>2, TimerFacts DEF T!Before
  <2>2. QED
    BY <1>2, <2>1, Zenon
<1>4. it' = T!begin(timeouts \ {it}) /\ timeouts \ {it} \in SUBSET T!Nodes
  BY <1>1, <1>3, Zenon DEF TInv, T!TypeOK
<1>5. it' \in T!Nodes \cup {T!End}
  <2>1. CASE timeouts \ {it} = {}
    BY <1>4, <2>1, Zenon DEF T!begin
  <2>2. CASE timeouts \ {it} # {}
    BY <1>4, <2>2, BeginFirst, Zenon
  <2>3. QED
    BY <2>1, <2>2, Zenon
<1>6. T!TypeOK'
  BY <1>1, <1>5, Zenon DEF TInv, T!TypeOK
<1>7. TimersInv'
  BY <1>1, Zenon DEF TInv, TimersInv
<1>8. OnceInv'
  <2>1. \A i : Waits(i)' <=> Waits(i)
    BY <1>1, Zenon DEF Waits
  <2>2. QED
    BY <1>1, <1>2, <2>1, Zenon DEF TInv, OnceInv, Once
<1>9. HandleInv'
  <2>1. T!begin(timeouts)' = T!begin(timeouts \ {it})
    BY <1>1 DEF T!begin, T!Before
  <2>2. QED
    BY <1>1, <1>4, <2>1, Zenon DEF HandleInv
<1>10. QED
  BY <1>1, <1>6, <1>7, <1>8, <1>9, Zenon DEF TInv, SleepInv

\* erase of a freed node changes nothing of what has happened until then.
LEMMA EraseFreedStep == ASSUME TInv, T!EraseFreed PROVE TInv'
<1>1. /\ tpc = "callback" /\ it \notin timeouts /\ tpc' = "undefined"
      /\ UNCHANGED <<timerfd, clock, timeouts, tid, it, now, asked, timeout, until, armed, ticks, ready, fired, deleted>>
  BY Zenon DEF T!EraseFreed, T!sleepVars, T!fdVars
<1>2. \A i : Waits(i)' <=> Waits(i)
  BY <1>1, Zenon DEF Waits
<1>3. TimersInv' /\ OnceInv'
  BY <1>1, <1>2, Zenon DEF TInv, TimersInv, OnceInv, Once
<1>4. T!TypeOK'
  BY <1>1, Zenon DEF TInv, T!TypeOK
<1>5. QED
  BY <1>1, <1>3, <1>4, Zenon DEF TInv, HandleInv, SleepInv

\* HandleTimer returns at the first timer that is not due.
LEMMA HandleReturnsStep == ASSUME TInv, T!HandleReturns PROVE TInv'
<1>1. /\ tpc = "handle" /\ tpc' = "sleep" /\ it' = T!End /\ now' = 0
      /\ UNCHANGED <<timerfd, clock, timeouts, tid, asked, timeout, until, armed, ticks, ready, fired, deleted>>
  BY Zenon DEF T!HandleReturns, T!sleepVars, T!fdVars
<1>2. clock \in Nat /\ asked <= clock /\ MaxClock \in Nat
  BY TimersAssumption DEF TInv, T!TypeOK, TimersInv
<1>3. TimersInv' /\ OnceInv'
  BY <1>1, <1>2, QuietTimers
<1>4. T!TypeOK'
  BY <1>1, <1>2 DEF TInv, T!TypeOK
<1>5. QED
  BY <1>1, <1>3, <1>4, Zenon DEF TInv, HandleInv, SleepInv

\* Without timers the invariant holds.
LEMMA TimersInit == T!Init => TInv
<1> SUFFICES ASSUME T!Init PROVE TInv
  BY Zenon
<1>1. /\ timerfd \in BOOLEAN /\ clock = 1 /\ timeouts = {} /\ tid = 0 /\ tpc = "main" /\ it = T!End /\ now = 0
      /\ asked = 0 /\ timeout = 0 /\ until = T!Never /\ armed = 0 /\ ticks = 0 /\ ready = FALSE
      /\ fired = [i \in 0 .. MaxTimers - 1 |-> {}] /\ deleted = {}
  BY Zenon DEF T!Init
<1>2. MaxClock \in Nat \ {0} /\ MaxTimers \in Nat /\ IntMax \in Nat
  BY TimersAssumption, Zenon
<1>3. T!TypeOK
  <2>1. ready \in BOOLEAN
    BY <1>1, Zenon
  <2>2. {clock, now, asked} \subseteq 0 .. 2 * MaxClock
    BY <1>1, <1>2
  <2>3. until \in -1 .. 2 * MaxClock /\ timeout \in -IntMax - 1 .. IntMax /\ armed \in 0 .. MaxClock
    BY <1>1, <1>2 DEF T!Never
  <2>4. fired \in [T!Ids -> SUBSET (0 .. 2 * MaxClock)]
    BY <1>1, Zenon DEF T!Ids
  <2>5. QED
    BY <1>1, <1>2, <2>1, <2>2, <2>3, <2>4 DEF T!TypeOK
<1>4. TimersInv
  BY <1>1, <1>2 DEF TimersInv
<1>5. OnceInv
  BY <1>1, <1>2 DEF OnceInv, Once, T!Ids
<1>6. QED
  BY <1>1, <1>3, <1>4, <1>5, Zenon DEF TInv, HandleInv, SleepInv

\* Every step of the timers keeps the invariant.
LEMMA TimersStep == TInv /\ [T!Next]_timers => TInv'
<1> SUFFICES ASSUME TInv, [T!Next]_timers PROVE TInv'
  BY Zenon
<1>1. CASE T!Loop
  BY <1>1, StartLoopStep, AskTimeoutStep, EpollWaitStep, UpdateTimerfdStep, WakeStep, FireStep,
     CallbackReturnsStep, EraseFreedStep, HandleReturnsStep, Zenon DEF T!Loop
<1>2. CASE T!User
  BY <1>2, AddTimerStep, DelTimerStep, Zenon DEF T!User
<1>3. CASE T!Tick
  BY <1>3, TickStep, Zenon
<1>4. CASE UNCHANGED timers
  <2>1. /\ UNCHANGED <<timerfd, clock, timeouts, tid, tpc, it, now, asked, timeout, until,
                       armed, ticks, ready, fired, deleted>>
    BY <1>4, Zenon DEF timers
  <2>2. T!TypeOK'
    BY <2>1, Zenon DEF TInv, T!TypeOK
  <2>3. TimersInv' /\ OnceInv'
    BY <2>1, Zenon DEF TInv, TimersInv, OnceInv, Once, Waits
  <2>4. T!begin(timeouts)' = T!begin(timeouts)
    BY <2>1 DEF T!begin, T!Before
  <2>5. HandleInv' /\ SleepInv'
    BY <2>1, <2>4, Zenon DEF TInv, HandleInv, SleepInv, T!Before, T!Latest
  <2>6. QED
    BY <2>2, <2>3, <2>5, Zenon DEF TInv
<1>5. QED
  BY <1>1, <1>2, <1>3, <1>4, Zenon DEF T!Next

\* The invariant implies what StructuresAreSound says of the timers.
LEMMA TimersImply == TInv => T!OnceOrDeleted /\ T!SleepCoversFirst
<1> SUFFICES ASSUME TInv PROVE T!OnceOrDeleted /\ T!SleepCoversFirst
  BY Zenon
<1>1. \A i : i \in T!Pending <=> Waits(i)
  BY Zenon DEF T!Pending, Waits
<1>2. \A i \in 0 .. tid - 1 : i \in T!Ids /\ i < tid
  BY TimersAssumption DEF TInv, T!TypeOK, T!Ids
<1>3. T!OnceOrDeleted
  BY <1>1, <1>2, Zenon DEF TInv, OnceInv, Once, T!OnceOrDeleted
<1>4. T!SleepCoversFirst
  <2>1. SUFFICES ASSUME tpc = "wait", timeouts # {}
                 PROVE  LET first == T!Latest(T!begin(timeouts).expire, asked)
                        IN  IF timerfd THEN (ready /\ ticks > 0) \/ (armed # 0 /\ armed <= first)
                            ELSE IF until = T!Never THEN first - asked > IntMax
                                                    ELSE asked + timeout <= first
    BY Zenon DEF T!SleepCoversFirst
  <2>2. T!begin(timeouts).expire \in Nat /\ asked \in Nat /\ armed \in Nat
    BY <2>1, FirstFacts DEF TInv, T!TypeOK
  <2>3. CASE timerfd
    <3>1. (ready /\ ticks > 0) \/ (armed # 0 /\ armed <= T!begin(timeouts).expire)
      BY <2>1, <2>3, Zenon DEF TInv, SleepInv
    <3>2. T!begin(timeouts).expire <= T!Latest(T!begin(timeouts).expire, asked)
      BY <2>2 DEF T!Latest
    <3>3. T!Latest(T!begin(timeouts).expire, asked) \in Nat
      BY <2>2, Zenon DEF T!Latest
    <3>4. QED
      BY <2>2, <2>3, <3>1, <3>2, <3>3
  <2>4. CASE ~timerfd
    BY <2>1, <2>4, Zenon DEF TInv, SleepInv
  <2>5. QED
    BY <2>3, <2>4, Zenon
<1>5. QED
  BY <1>3, <1>4, Zenon

-----------------------------------------------------------------------------
(* Both *)

\* A step of one leaves the other alone.
LEMMA EachAlone ==
    [MCNext]_<<running, vars, timers>> => [Next]_vars /\ [T!Next]_timers
BY Zenon DEF MCNext

\* For any keys, readers and heights of skiplist.h, and any delays and any number of calls of
\* AddTimer and DelTimer in timers.cc and timer_with_timerfd.cc: the levels of the list are
\* sorted and nested, its readers follow stored links only, every timer fires once or is
\* deleted, and the loop never sleeps past its first timer, unless that is further away than
\* an int can tell.
THEOREM StructuresAreSoundThm == MCSpec => []StructuresAreSound
<1>1. MCSpec => []SkipInv
  <2>1. MCInit => SkipInv
    BY SkipInit, Zenon DEF MCInit
  <2>2. SkipInv /\ [MCNext]_<<running, vars, timers>> => SkipInv'
    BY SkipStep, EachAlone, Zenon
  <2>3. QED
    BY <2>1, <2>2, PTL DEF MCSpec
<1>2. MCSpec => []TInv
  <2>1. MCInit => TInv
    BY TimersInit, Zenon DEF MCInit
  <2>2. TInv /\ [MCNext]_<<running, vars, timers>> => TInv'
    BY TimersStep, EachAlone, Zenon
  <2>3. QED
    BY <2>1, <2>2, PTL DEF MCSpec
<1>3. SkipInv /\ TInv => StructuresAreSound
  BY SkipImplies, TimersImply, Zenon DEF StructuresAreSound
<1>4. QED
  BY <1>1, <1>2, <1>3, PTL

\* HandleTimer of both programs: a callback runs when its time has come and before those of
\* all later timers, although callbacks add and delete timers while the loop runs.
THEOREM FiresFirstAndNotEarlyThm == MCSpec => FiresFirstAndNotEarly
<1>1. MCSpec => []TInv
  <2>1. MCInit => TInv
    BY TimersInit, Zenon DEF MCInit
  <2>2. TInv /\ [MCNext]_<<running, vars, timers>> => TInv'
    BY TimersStep, EachAlone, Zenon
  <2>3. QED
    BY <2>1, <2>2, PTL DEF MCSpec
<1>2. TInv => [T!Fire => /\ it.expire <= clock
                         /\ \A n \in timeouts \ {it} : T!Before(it, n)]_(T!vars)
  BY FireFirst, Zenon
<1>3. QED
  BY <1>1, <1>2, PTL DEF FiresFirstAndNotEarly, T!FiresFirstAndNotEarly
=============================================================================
