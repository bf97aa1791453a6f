--------------------------- MODULE MPSCQueueProofs ---------------------------
(***************************************************************************)
(* Proofs about MPSCQueueNonIntrusive, for any number of producers, any    *)
(* set of objects and any heap: the shape of the list is an invariant, no  *)
(* step touches a deleted node, nothing leaks, a failed Dequeue is honest, *)
(* and the list implements a FIFO queue.                                   *)
(***************************************************************************)
EXTENDS MPSCQueueNonIntrusive, TLAPS

-----------------------------------------------------------------------------
(* Sequences *)

\* The elements of a sequence after an append.
LEMMA RangeAppend ==
  ASSUME NEW S, NEW s \in Seq(S), NEW e \in S
  PROVE  Range(Append(s, e)) = Range(s) \union {e}
  <1>1. /\ DOMAIN s = 1 .. Len(s)
        /\ DOMAIN Append(s, e) = 1 .. Len(s) + 1
        /\ Len(s) \in Nat
        /\ Append(s, e)[Len(s) + 1] = e
        /\ \A i \in 1 .. Len(s) : Append(s, e)[i] = s[i]
    OBVIOUS
  <1> QED
    BY <1>1 DEF Range

\* The elements of a non-empty sequence are its head and those of its tail.
LEMMA RangeTail ==
  ASSUME NEW S, NEW s \in Seq(S), Len(s) >= 1
  PROVE  Range(s) = Range(Tail(s)) \union {s[1]}
  <1>1. /\ Len(s) \in Nat
        /\ DOMAIN s = 1 .. Len(s)
        /\ DOMAIN Tail(s) = 1 .. Len(s) - 1
        /\ \A i \in 1 .. Len(s) - 1 : Tail(s)[i] = s[i + 1]
    OBVIOUS
  <1>2. \A i \in 1 .. Len(s) : i = 1 \/ (i - 1 \in 1 .. Len(s) - 1 /\ (i - 1) + 1 = i)
    BY <1>1
  <1>3. ASSUME NEW i \in 1 .. Len(s) PROVE s[i] \in Range(Tail(s)) \union {s[1]}
    <2>1. CASE i = 1
      BY <2>1, Zenon
    <2>2. CASE i # 1
      <3>1. i - 1 \in DOMAIN Tail(s) /\ Tail(s)[i - 1] = s[i]
        BY <2>2, <1>1, <1>2, Zenon
      <3> QED
        BY <3>1, Zenon DEF Range
    <2> QED
      BY <2>1, <2>2, Zenon
  <1>4. \A i \in 1 .. Len(s) - 1 : i + 1 \in 1 .. Len(s)
    BY <1>1
  <1>5. Range(Tail(s)) \union {s[1]} \subseteq Range(s)
    BY <1>1, <1>4 DEF Range
  <1> QED
    BY <1>1, <1>3, <1>5 DEF Range

\* Sequences of the same length with the same elements are equal.
LEMMA SeqEqual ==
  ASSUME NEW S, NEW s \in Seq(S), NEW t \in Seq(S), Len(s) = Len(t),
         \A i \in 1 .. Len(s) : s[i] = t[i]
  PROVE  s = t
OBVIOUS

\* A sequence that extends s by e is Append(s, e).
LEMMA AppendByIndex ==
  ASSUME NEW S, NEW s \in Seq(S), NEW t \in Seq(S), NEW e \in S,
         Len(t) = Len(s) + 1,
         \A i \in 1 .. Len(s) : t[i] = s[i],
         t[Len(s) + 1] = e
  PROVE  t = Append(s, e)
  <1>1. /\ Append(s, e) \in Seq(S)
        /\ Len(Append(s, e)) = Len(s) + 1
        /\ \A i \in 1 .. Len(s) : Append(s, e)[i] = s[i]
        /\ Append(s, e)[Len(s) + 1] = e
    OBVIOUS
  <1>2. Len(s) \in Nat
    OBVIOUS
  <1>3. \A i \in 1 .. Len(s) + 1 : i \in 1 .. Len(s) \/ i = Len(s) + 1
    BY <1>2
  <1>4. \A i \in 1 .. Len(t) : t[i] = Append(s, e)[i]
    BY <1>1, <1>3, Zenon
  <1> QED
    BY <1>1, <1>4, SeqEqual, Zenon

-----------------------------------------------------------------------------
\* What the proofs carry from state to state.
IInv == TypeOK /\ ListInv /\ NoLeak

\* The constructor establishes the invariant.
LEMMA InitInv == Init => IInv
  <1> SUFFICES ASSUME Init PROVE IInv
    BY Zenon
  <1> USE NullAssumption
  <1>1. PICK n \in Nodes : head = n /\ tail = n /\ allocated = {n} /\ chain = <<n>>
    BY Zenon DEF Init
  <1>2. TypeOK
    BY <1>1 DEF Init, TypeOK
  <1>3. ListInv
    BY <1>1 DEF Init, ListInv, ListShape, ProducersOwn, ConsumerOwns, Lifetime
  <1>4. NoLeak
    BY <1>1 DEF Init, NoLeak, Range
  <1> QED
    BY <1>2, <1>3, <1>4, Zenon DEF IInv

\* Enqueue, `new Node(input)`.
LEMMA EnqueueNewInv == ASSUME IInv, NEW p \in Producers, EnqueueNew(p) PROVE IInv'
  <1> USE NullAssumption
  <1> TypeOK /\ ListInv /\ NoLeak
    BY Zenon DEF IInv
  <1>1. PICK n \in Nodes \ allocated, v \in Free :
            /\ allocated' = allocated \union {n}
            /\ data' = [data EXCEPT ![n] = v]
            /\ next' = [next EXCEPT ![n] = NULL]
            /\ node' = [node EXCEPT ![p] = n]
    BY Zenon DEF EnqueueNew, NewNodeNext
  <1>2. v \in Items
    BY Zenon DEF Free
  <1>3. TypeOK'
    BY <1>1, <1>2, Zenon DEF TypeOK, EnqueueNew, consumerVars
  <1>4. n \notin Range(chain) /\ (cpc = "delete" => n # ctail)
    BY <1>1, Zenon DEF NoLeak, EnqueueNew
  <1>5. ListShape'
    <2>1. chain' = chain /\ head' = head /\ tail' = tail
      BY Zenon DEF EnqueueNew
    <2>2. \A i \in 1 .. Len(chain) : next'[chain[i]] = next[chain[i]] /\ data'[chain[i]] = data[chain[i]]
      BY <1>1, <1>4 DEF TypeOK, Range
    <2>3. \A i \in 1 .. Len(chain) - 1 : Linking(i) => Linking(i)'
      BY <1>1, <2>1 DEF TypeOK, Linking, EnqueueNew
    <2>4. \A i \in 1 .. Len(chain) - 1 : i \in 1 .. Len(chain)
      BY DEF TypeOK
    <2>5. \A i \in 1 .. Len(chain) - 1 :
             next'[chain[i]] = chain[i + 1] \/ (next'[chain[i]] = NULL /\ Linking(i)')
      BY <2>2, <2>3, <2>4, Zenon DEF ListInv, ListShape
    <2>6. next'[head] = NULL /\ \A i \in 2 .. Len(chain) : data'[chain[i]] \in Items
      BY <2>2 DEF TypeOK, ListInv, ListShape
    <2> QED
      BY <2>1, <2>5, <2>6, Zenon DEF ListInv, ListShape
  <1>6. ProducersOwn'
    <2>1. /\ pc[p] = "idle" /\ pc' = [pc EXCEPT ![p] = "exchange"]
          /\ UNCHANGED <<chain, prevHead>>
          /\ life = "live"
      BY Zenon DEF EnqueueNew
    <2>2. \A r \in Producers : pc[r] = "exchange" => node[r] # n
      BY <1>1, <2>1, Zenon DEF NoLeak
    <2>3. \A r \in Producers : r # p => pc'[r] = pc[r] /\ node'[r] = node[r]
      BY <1>1, <2>1, Zenon DEF TypeOK
    <2>4. \A r \in Producers : pc'[r] = "exchange" =>
             /\ node'[r] \in Nodes \ Range(chain')
             /\ next'[node'[r]] = NULL
             /\ data'[node'[r]] \in Items
      BY <1>1, <1>2, <1>4, <2>1, <2>2, <2>3 DEF TypeOK, ListInv, ProducersOwn
    <2>5. \A i \in 1 .. Len(chain) - 1 : next'[chain[i]] = next[chain[i]]
      BY <1>1, <1>4 DEF TypeOK, Range
    <2>6. \A r \in Producers : pc'[r] = "link" =>
             \E i \in 1 .. Len(chain) - 1 : /\ prevHead'[r] = chain[i]
                                            /\ node'[r] = chain[i + 1]
                                            /\ next'[chain[i]] = NULL
      <3> SUFFICES ASSUME NEW r \in Producers, pc'[r] = "link"
                   PROVE  \E i \in 1 .. Len(chain) - 1 : /\ prevHead'[r] = chain[i]
                                                         /\ node'[r] = chain[i + 1]
                                                         /\ next'[chain[i]] = NULL
        BY Zenon
      <3>1. r # p /\ pc[r] = "link" /\ node'[r] = node[r] /\ prevHead'[r] = prevHead[r]
        BY <2>1, <2>3, Zenon DEF TypeOK
      <3>2. PICK i \in 1 .. Len(chain) - 1 :
                prevHead[r] = chain[i] /\ node[r] = chain[i + 1] /\ next[chain[i]] = NULL
        BY <3>1, Zenon DEF ListInv, ProducersOwn
      <3> QED
        BY <3>1, <3>2, <2>5, Zenon
    <2>7. \A r, u \in Producers :
             pc'[r] # "idle" /\ pc'[u] = pc'[r] /\ node'[r] = node'[u] => r = u
      BY <1>1, <2>1, <2>2, <2>3 DEF TypeOK, ListInv, ProducersOwn
    <2> QED
      BY <2>1, <2>4, <2>6, <2>7, Zenon DEF ProducersOwn
  <1>7. ConsumerOwns' /\ Lifetime'
    BY <1>1, <1>2, <1>4 DEF TypeOK, ListInv, ListShape, ConsumerOwns, Lifetime, EnqueueNew, Range, consumerVars, NoLeak
  <1>8. NoLeak'
    BY <1>1 DEF TypeOK, NoLeak, EnqueueNew, consumerVars
  <1> QED
    BY <1>3, <1>5, <1>6, <1>7, <1>8, Zenon DEF ListInv, IInv

\* Enqueue, `_head.exchange(node)`: the list grows by the producer's node and
\* the new last gap belongs to that producer.
LEMMA EnqueueExchangeInv ==
  ASSUME IInv, NEW p \in Producers, EnqueueExchange(p) PROVE IInv'
  <1> USE NullAssumption
  <1> TypeOK /\ ListInv /\ NoLeak
    BY Zenon DEF IInv
  <1>0. PICK n \in Nodes, L \in Nat : n = node[p] /\ L = Len(chain)
    BY DEF EnqueueExchange, ListInv, ProducersOwn, TypeOK
  <1>1. /\ pc[p] = "exchange"
        /\ n \notin Range(chain)
        /\ next[n] = NULL
        /\ data[n] \in Items
        /\ life = "live"
        /\ cpc = "delete" => n # ctail
    BY <1>0, Zenon DEF EnqueueExchange, ListInv, ProducersOwn, ConsumerOwns, Lifetime, TypeOK
  <1>2. /\ chain' = Append(chain, n)
        /\ head' = n
        /\ pc' = [pc EXCEPT ![p] = "link"]
        /\ prevHead' = [prevHead EXCEPT ![p] = head]
        /\ UNCHANGED <<tail, next, data, allocated, node, cpc, ctail, cnext, result, life>>
    BY <1>0, Zenon DEF EnqueueExchange, consumerVars
  <1>3. TypeOK'
    BY <1>1, <1>2 DEF TypeOK
  <1>4. /\ L >= 1
        /\ Len(chain') = L + 1
        /\ chain'[L + 1] = n
        /\ \A i \in 1 .. L : chain'[i] = chain[i] /\ chain[i] # n
        /\ chain[L] = head
    BY <1>0, <1>1, <1>2 DEF TypeOK, ListInv, ListShape, Range
  <1>5. Range(chain') = Range(chain) \union {n}
    BY <1>2, RangeAppend DEF TypeOK
  <1>6. ListShape'
    <2>1. Linking(L)'
      BY <1>0, <1>2, <1>4 DEF TypeOK, Linking
    <2>2. \A i \in 1 .. L - 1 : Linking(i) => Linking(i)'
      BY <1>1, <1>2, <1>4 DEF TypeOK, Linking
    <2>3. \A i \in 1 .. L :
             next'[chain'[i]] = chain'[i + 1] \/ (next'[chain'[i]] = NULL /\ Linking(i)')
      BY <1>0, <2>1, <2>2, <1>2, <1>4 DEF ListInv, ListShape
    <2>4. \A i, j \in 1 .. L + 1 : chain'[i] = chain'[j] => i = j
      BY <1>0, <1>4 DEF ListInv, ListShape
    <2>5. \A i \in 2 .. L + 1 : data'[chain'[i]] \in Items
      BY <1>0, <1>1, <1>2, <1>4 DEF ListInv, ListShape
    <2> QED
      BY <1>0, <2>3, <2>4, <2>5, <1>1, <1>2, <1>4 DEF ListInv, ListShape
  <1>7. ProducersOwn'
    <2>1. \A r \in Producers : pc'[r] = "exchange" =>
             /\ r # p
             /\ pc[r] = "exchange"
             /\ node[r] # n
      BY <1>0, <1>1, <1>2 DEF TypeOK, ListInv, ProducersOwn
    <2>2. \A r \in Producers : pc'[r] = "exchange" =>
             /\ node'[r] \in Nodes \ Range(chain')
             /\ next'[node'[r]] = NULL
             /\ data'[node'[r]] \in Items
      BY <2>1, <1>2, <1>5, Zenon DEF ListInv, ProducersOwn
    <2>3. \A r \in Producers : pc'[r] = "link" =>
             \E i \in 1 .. L : /\ prevHead'[r] = chain'[i]
                               /\ node'[r] = chain'[i + 1]
                               /\ next'[chain'[i]] = NULL
      <3> SUFFICES ASSUME NEW r \in Producers, pc'[r] = "link"
                   PROVE \E i \in 1 .. L : /\ prevHead'[r] = chain'[i]
                                            /\ node'[r] = chain'[i + 1]
                                            /\ next'[chain'[i]] = NULL
        BY Zenon
      <3>1. CASE r = p
        <4>1. prevHead'[r] = chain'[L] /\ node'[r] = chain'[L + 1] /\ next'[chain'[L]] = NULL
          BY <1>0, <3>1, <1>2, <1>4 DEF TypeOK, ListInv, ListShape
        <4> QED
          BY <4>1, <1>4
      <3>2. CASE r # p
        <4>1. pc[r] = "link" /\ prevHead'[r] = prevHead[r] /\ node'[r] = node[r]
          BY <3>2, <1>2, Zenon DEF TypeOK
        <4>2. PICK i \in 1 .. L - 1 : /\ prevHead[r] = chain[i]
                                      /\ node[r] = chain[i + 1]
                                      /\ next[chain[i]] = NULL
          BY <1>0, <4>1, Zenon DEF ListInv, ProducersOwn
        <4>3. i \in 1 .. L /\ i + 1 \in 1 .. L
          BY <1>4
        <4>4. chain'[i] = chain[i] /\ chain'[i + 1] = chain[i + 1] /\ next' = next
          BY <4>3, <1>2, <1>4, Zenon
        <4> QED
          BY <4>1, <4>2, <4>3, <4>4, Zenon
      <3> QED
        BY <3>1, <3>2, Zenon
    <2>4. \A r, u \in Producers :
             pc'[r] # "idle" /\ pc'[u] = pc'[r] /\ node'[r] = node'[u] => r = u
      <3>1. \A r \in Producers : pc[r] = "link" => node[r] # n
        BY <1>0, <1>4 DEF ListInv, ProducersOwn
      <3> QED
        BY <1>0, <3>1, <1>1, <1>2 DEF TypeOK, ListInv, ProducersOwn
    <2> QED
      BY <2>2, <2>3, <2>4, <1>4 DEF ProducersOwn
  <1>8. ConsumerOwns' /\ Lifetime'
    <2>1. ConsumerOwns'
      BY <1>0, <1>1, <1>2, <1>4, <1>5 DEF TypeOK, ListInv, ConsumerOwns
    <2>2. Lifetime'
      BY <1>1, <1>2, Zenon DEF Lifetime
    <2> QED
      BY <2>1, <2>2, Zenon
  <1>9. NoLeak'
    <2>1. {node'[r] : r \in {u \in Producers : pc'[u] = "exchange"}} \union {n}
            = {node[r] : r \in {u \in Producers : pc[u] = "exchange"}}
      BY <1>0, <1>1, <1>2 DEF TypeOK
    <2> QED
      BY <2>1, <1>1, <1>2, <1>5, Zenon DEF NoLeak
  <1> QED
    BY <1>3, <1>6, <1>7, <1>8, <1>9, Zenon DEF ListInv, IInv

\* Enqueue, `prevHead->Next.store(node)`: the gap the producer owned is closed.
LEMMA EnqueueLinkInv ==
  ASSUME IInv, NEW p \in Producers, EnqueueLink(p) PROVE IInv'
  <1> USE NullAssumption
  <1> TypeOK /\ ListInv /\ NoLeak
    BY Zenon DEF IInv
  <1>1. /\ pc[p] = "link"
        /\ pc' = [pc EXCEPT ![p] = "idle"]
        /\ node' = [node EXCEPT ![p] = NULL]
        /\ prevHead' = [prevHead EXCEPT ![p] = NULL]
        /\ UNCHANGED <<head, tail, data, allocated, cpc, ctail, cnext, result, life, chain>>
    BY Zenon DEF EnqueueLink, consumerVars
  <1>2. PICK k \in 1 .. Len(chain) - 1 : /\ prevHead[p] = chain[k]
                                         /\ node[p] = chain[k + 1]
                                         /\ next[chain[k]] = NULL
    BY <1>1, Zenon DEF ListInv, ProducersOwn
  <1>3. next' = [next EXCEPT ![chain[k]] = chain[k + 1]]
    BY <1>2, Zenon DEF EnqueueLink, Link
  <1>4. /\ \A i \in 1 .. Len(chain) : chain[i] \in Nodes
        /\ chain[Len(chain)] = head
        /\ head # chain[k]
        /\ \A i \in 1 .. Len(chain) : i # k => next'[chain[i]] = next[chain[i]]
        /\ next'[chain[k]] = chain[k + 1]
    <2>1. /\ Len(chain) \in Nat
          /\ \A i \in 1 .. Len(chain) : chain[i] \in Nodes
          /\ chain[Len(chain)] = head
          /\ \A i \in 1 .. Len(chain) : chain[i] = chain[k] => i = k
      BY DEF TypeOK, ListInv, ListShape
    <2>2. k \in 1 .. Len(chain) /\ k # Len(chain)
      BY <2>1
    <2> QED
      BY <2>1, <2>2, <1>3 DEF TypeOK
  <1>5. TypeOK'
    BY <1>1, <1>3, <1>4 DEF TypeOK
  <1>6. ListShape'
    <2>1. \A i \in 1 .. Len(chain) - 1 : i # k /\ Linking(i) => Linking(i)'
      BY <1>1, <1>2 DEF TypeOK, Linking, ListInv, ListShape
    <2>2. next'[head] = NULL
      BY <1>4 DEF ListInv, ListShape
    <2>3. \A i \in 1 .. Len(chain) - 1 :
             next'[chain[i]] = chain[i + 1] \/ (next'[chain[i]] = NULL /\ Linking(i)')
      <3>1. \A i \in 1 .. Len(chain) - 1 :
               i \in 1 .. Len(chain) /\ (next[chain[i]] = chain[i + 1] \/ (next[chain[i]] = NULL /\ Linking(i)))
        BY DEF TypeOK, ListInv, ListShape
      <3> QED
        BY <2>1, <1>4, <3>1, Zenon
    <2> QED
      BY <2>2, <2>3, <1>1, Zenon DEF ListInv, ListShape
  <1>7. ProducersOwn'
    <2>1. \A r \in Producers : pc'[r] # "idle" =>
             r # p /\ pc'[r] = pc[r] /\ node'[r] = node[r] /\ prevHead'[r] = prevHead[r]
      BY <1>1, Zenon DEF TypeOK
    <2>2. \A r \in Producers : pc[r] = "exchange" => node[r] # chain[k]
      BY DEF TypeOK, ListInv, ProducersOwn, Range
    <2>3. \A r \in Producers : pc'[r] = "exchange" =>
             /\ node'[r] \in Nodes \ Range(chain')
             /\ next'[node'[r]] = NULL
             /\ data'[node'[r]] \in Items
      BY <2>1, <2>2, <1>1, <1>3 DEF TypeOK, ListInv, ProducersOwn
    <2>4. \A r \in Producers : pc'[r] = "link" =>
             \E i \in 1 .. Len(chain) - 1 : /\ prevHead'[r] = chain[i]
                                            /\ node'[r] = chain[i + 1]
                                            /\ next'[chain[i]] = NULL
      <3> SUFFICES ASSUME NEW r \in Producers, pc'[r] = "link"
                   PROVE \E i \in 1 .. Len(chain) - 1 : /\ prevHead'[r] = chain[i]
                                                         /\ node'[r] = chain[i + 1]
                                                         /\ next'[chain[i]] = NULL
        BY Zenon
      <3>1. PICK i \in 1 .. Len(chain) - 1 : /\ prevHead[r] = chain[i]
                                             /\ node[r] = chain[i + 1]
                                             /\ next[chain[i]] = NULL
        BY <2>1 DEF ListInv, ProducersOwn
      <3>2. i # k
        BY <2>1, <3>1, <1>1, <1>2 DEF ListInv, ProducersOwn
      <3>3. i \in 1 .. Len(chain)
        BY DEF TypeOK
      <3> QED
        BY <2>1, <3>1, <3>2, <3>3, <1>4, Zenon
    <2>5. \A r, u \in Producers :
             pc'[r] # "idle" /\ pc'[u] = pc'[r] /\ node'[r] = node'[u] => r = u
      BY <2>1 DEF ListInv, ProducersOwn
    <2> QED
      BY <2>3, <2>4, <2>5, <1>1 DEF ProducersOwn
  <1>8. ConsumerOwns'
    <2>1. cpc = "take" => chain[k] # tail
      BY <1>2 DEF TypeOK, ListInv, ListShape, ConsumerOwns
    <2> QED
      BY <2>1, <1>1, <1>3, <1>4, Zenon DEF TypeOK, ListInv, ConsumerOwns
  <1>9. Lifetime'
    BY <1>1, Zenon DEF TypeOK, ListInv, Lifetime
  <1>10. NoLeak'
    <2>1. {node'[r] : r \in {u \in Producers : pc'[u] = "exchange"}}
            = {node[r] : r \in {u \in Producers : pc[u] = "exchange"}}
      BY <1>1, Zenon DEF TypeOK
    <2>2. life # "dead"
      BY <1>1, Zenon DEF ListInv, Lifetime
    <2> QED
      BY <2>1, <2>2, <1>1, Zenon DEF NoLeak
  <1> QED
    BY <1>5, <1>6, <1>7, <1>8, <1>9, <1>10, Zenon DEF ListInv, IInv

\* Dequeue returning false, and the end of the destructor.
LEMMA DequeueEmptyInv == ASSUME IInv, DequeueEmpty PROVE IInv'
  <1> USE NullAssumption
  <1> TypeOK /\ ListInv /\ NoLeak
    BY Zenon DEF IInv
  <1>1. UNCHANGED <<head, tail, next, data, pc, node, prevHead, cpc, ctail, cnext, result, chain>>
    BY Zenon DEF DequeueEmpty, producerVars, consumerVars
  <1>2. cpc = "idle"
    BY Zenon DEF DequeueEmpty, Consuming
  <1>3. CASE life = "live"
    <2>1. UNCHANGED <<allocated, life>>
      BY <1>3, Zenon DEF DequeueEmpty
    <2> QED
      BY <2>1, <1>1 DEF IInv, TypeOK, ListInv, ListShape, Linking, ProducersOwn, ConsumerOwns, Lifetime,
                        NoLeak, Empty
  <1>4. CASE life # "live"
    <2>1. life' = "dead" /\ allocated' = allocated \ {head} /\ life = "destructing"
      BY <1>4, Zenon DEF DequeueEmpty, Consuming
    <2>2. \A p \in Producers : pc[p] = "idle"
      BY <1>4, Zenon DEF ListInv, Lifetime
    <2>3. Len(chain) = 1
      <3>1. next[chain[1]] = NULL
        BY Zenon DEF DequeueEmpty, NothingToTake, ListInv, ListShape
      <3>2. \A i \in 1 .. Len(chain) - 1 : ~ Linking(i)
        BY <2>2, Zenon DEF Linking
      <3>3. ASSUME Len(chain) # 1 PROVE FALSE
        <4>1. Len(chain) \in Nat /\ Len(chain) >= 2
          <5>1. PICK k \in Nat : k = Len(chain) /\ k >= 1
            BY DEF TypeOK, ListInv, ListShape
          <5>2. k # 1 => k >= 2
            BY <5>1
          <5> QED
            BY <3>3, <5>1, <5>2, Zenon
        <4>2. 1 \in 1 .. Len(chain) - 1 /\ 1 + 1 = 2 /\ chain[2] \in Nodes
          BY <4>1 DEF TypeOK
        <4>3. next[chain[1]] = chain[2]
          BY <4>2, <3>2, Zenon DEF ListInv, ListShape
        <4> QED
          BY <4>2, <4>3, <3>1, Zenon
      <3> QED
        BY <3>3, Zenon
    <2>4. Range(chain) = {head}
      BY <2>3 DEF TypeOK, ListInv, ListShape, Range
    <2>5. allocated' = {}
      BY <2>1, <2>2, <2>4, <1>2, Zenon DEF NoLeak
    <2>6. ListShape' /\ ProducersOwn'
      <3>1. \A i \in 1 .. Len(chain) - 1 : Linking(i)' <=> Linking(i)
        BY <1>1, Zenon DEF Linking
      <3>2. ListShape'
        BY <3>1, <1>1, Zenon DEF ListInv, ListShape
      <3>3. ProducersOwn'
        BY <2>2, <1>1, Zenon DEF ProducersOwn
      <3> QED
        BY <3>2, <3>3, Zenon
    <2>7. ConsumerOwns' /\ Lifetime'
      BY <2>1, <2>2, <2>3, <1>1, <1>2, Zenon DEF ConsumerOwns, Lifetime
    <2> QED
      BY <2>1, <2>3, <2>5, <2>6, <2>7, <1>1, Zenon DEF IInv, TypeOK, ListInv, NoLeak, Empty
  <1> QED
    BY <1>3, <1>4, Zenon DEF IInv

\* Dequeue, the loads of _tail and of tail->Next.
LEMMA DequeueLoadInv == ASSUME IInv, DequeueLoad PROVE IInv'
  <1> USE NullAssumption
  <1> TypeOK /\ ListInv /\ NoLeak
    BY Zenon DEF IInv
  <1>1. /\ UNCHANGED <<head, tail, next, data, allocated, pc, node, prevHead, result, life, chain>>
        /\ cpc = "idle" /\ cpc' = "take" /\ ctail' = tail /\ cnext' = next[tail]
        /\ life # "dead" /\ next[tail] # NULL
    BY Zenon DEF DequeueLoad, NothingToTake, Consuming, producerVars
  <1>2. PICK L \in Nat : L = Len(chain) /\ L >= 1
    BY DEF TypeOK, ListInv, ListShape
  <1>3. L >= 2
    <2>1. L = 1 => next[tail] = NULL
      BY <1>2, Zenon DEF ListInv, ListShape
    <2>2. L # 1
      BY <2>1, <1>1, Zenon
    <2> QED
      BY <1>2, <2>2
  <1>4. next[tail] = chain[2]
    <2>1. 1 \in 1 .. L - 1 /\ 1 + 1 = 2
      BY <1>3
    <2> QED
      BY <2>1, <1>1, <1>2, Zenon DEF ListInv, ListShape
  <1>5. TypeOK'
    BY <1>1, Zenon DEF TypeOK
  <1>6. ListShape' /\ ProducersOwn' /\ Lifetime'
    <2>1. \A k \in 1 .. Len(chain) - 1 : Linking(k)' <=> Linking(k)
      BY <1>1, Zenon DEF Linking
    <2> QED
      BY <2>1, <1>1 DEF ListInv, ListShape, ProducersOwn, Lifetime
  <1>7. ConsumerOwns'
    BY <1>1, <1>2, <1>3, <1>4, Zenon DEF ConsumerOwns
  <1>8. NoLeak'
    BY <1>1, Zenon DEF NoLeak
  <1> QED
    BY <1>5, <1>6, <1>7, <1>8, Zenon DEF ListInv, IInv

\* Dequeue, the store to _tail: the list loses its first node, which nobody
\* but the consumer refers to any more.
LEMMA DequeueTakeInv == ASSUME IInv, DequeueTake PROVE IInv'
  <1> USE NullAssumption
  <1> TypeOK /\ ListInv /\ NoLeak
    BY Zenon DEF IInv
  <1>1. /\ UNCHANGED <<head, next, data, allocated, pc, node, prevHead, ctail, cnext, life>>
        /\ cpc = "take" /\ cpc' = "delete" /\ tail' = cnext /\ chain' = Tail(chain)
        /\ result' = data[cnext]
    BY Zenon DEF DequeueTake, DataOfNext, producerVars
  <1>2. PICK L \in Nat : /\ L = Len(chain) /\ L >= 2
                         /\ ctail = chain[1] /\ cnext = chain[2]
                         /\ next[chain[1]] = chain[2]
    BY <1>1 DEF TypeOK, ListInv, ListShape, ConsumerOwns
  <1>3. /\ Len(chain') = L - 1
        /\ \A i \in 1 .. L - 1 : chain'[i] = chain[i + 1]
        /\ \A i \in 1 .. L : chain[i] \in Nodes
    <2>1. chain \in Seq(Nodes) /\ chain # <<>>
      BY <1>2 DEF TypeOK
    <2> QED
      BY <2>1, <1>1, <1>2
  <1>4. TypeOK'
    BY <1>1, <1>2, <1>3 DEF TypeOK, ListInv, ListShape
  <1>5. /\ Range(chain) = Range(chain') \union {ctail}
        /\ ctail \notin Range(chain')
    <2>1. Range(chain) = Range(chain') \union {ctail}
      BY <1>1, <1>2, RangeTail DEF TypeOK
    <2>2. \A i \in 1 .. L - 1 : chain'[i] # ctail
      BY <1>2, <1>3 DEF ListInv, ListShape
    <2>3. DOMAIN chain' = 1 .. L - 1
      BY <1>3, <1>4 DEF TypeOK
    <2> QED
      BY <2>1, <2>2, <2>3, Zenon DEF Range
  <1>6. ListShape'
    <2>1. \A i \in 1 .. L - 2 : i + 1 \in 1 .. L - 1 /\ (i + 1) + 1 = i + 2 /\ i + 1 \in 1 .. L
      BY <1>2
    <2>2. \A i \in 1 .. L - 2 : Linking(i + 1) => Linking(i)'
      <3>1. \A i \in 1 .. L - 2 : chain'[i] = chain[i + 1] /\ chain'[i + 1] = chain[(i + 1) + 1]
        BY <2>1, <1>2, <1>3
      <3> QED
        BY <3>1, <1>1, Zenon DEF Linking
    <2>3. \A i \in 1 .. L - 2 :
             next'[chain'[i]] = chain'[i + 1] \/ (next'[chain'[i]] = NULL /\ Linking(i)')
      BY <2>1, <2>2, <1>1, <1>2, <1>3 DEF ListInv, ListShape
    <2>4. \A i, j \in 1 .. L - 1 : chain'[i] = chain'[j] => i = j
      <3>1. \A i, j \in 1 .. L - 1 : chain[i + 1] = chain[j + 1] => i + 1 = j + 1
        BY <1>2 DEF ListInv, ListShape
      <3> QED
        BY <3>1, <1>2, <1>3
    <2>5. chain'[1] = chain[2] /\ chain'[L - 1] = chain[L]
      BY <1>2, <1>3
    <2>6. \A i \in 2 .. L - 1 : data'[chain'[i]] \in Items
      BY <1>1, <1>2, <1>3 DEF ListInv, ListShape
    <2>7. (L - 1) - 1 = L - 2 /\ L - 1 >= 1
      BY <1>2
    <2> QED
      BY <2>3, <2>4, <2>5, <2>6, <2>7, <1>1, <1>2, <1>3 DEF ListInv, ListShape
  <1>7. ProducersOwn'
    <2>1. \A r \in Producers : pc[r] = "link" =>
             \E i \in 1 .. (L - 1) - 1 : /\ prevHead[r] = chain'[i]
                                         /\ node[r] = chain'[i + 1]
                                         /\ next[chain'[i]] = NULL
      <3> SUFFICES ASSUME NEW r \in Producers, pc[r] = "link"
                   PROVE \E i \in 1 .. (L - 1) - 1 : /\ prevHead[r] = chain'[i]
                                                     /\ node[r] = chain'[i + 1]
                                                     /\ next[chain'[i]] = NULL
        BY Zenon
      <3>1. PICK i \in 1 .. L - 1 : /\ prevHead[r] = chain[i]
                                    /\ node[r] = chain[i + 1]
                                    /\ next[chain[i]] = NULL
        BY <1>2, Zenon DEF ListInv, ProducersOwn
      <3>2. i # 1
        BY <3>1, <1>2, <1>3
      <3>3. i - 1 \in 1 .. (L - 1) - 1 /\ chain'[i - 1] = chain[i] /\ chain'[(i - 1) + 1] = chain[i + 1]
        BY <3>2, <1>2, <1>3
      <3> QED
        BY <3>1, <3>3, Zenon
    <2>2. \A r \in Producers : pc[r] = "exchange" => node[r] \in Nodes \ Range(chain')
      BY <1>5, Zenon DEF ListInv, ProducersOwn
    <2> QED
      BY <2>1, <2>2, <1>1, <1>3, Zenon DEF ListInv, ProducersOwn
  <1>8. ConsumerOwns' /\ Lifetime'
    <2>1. \A r \in Producers : pc[r] = "exchange" => node[r] # ctail
      BY <1>5, Zenon DEF ListInv, ProducersOwn
    <2>2. ctail \in Nodes
      BY <1>2, <1>3
    <2> QED
      BY <2>1, <2>2, <1>1, <1>5, Zenon DEF ListInv, ConsumerOwns, Lifetime
  <1>9. NoLeak'
    BY <1>1, <1>5, Zenon DEF ListInv, Lifetime, NoLeak
  <1> QED
    BY <1>4, <1>6, <1>7, <1>8, <1>9, Zenon DEF ListInv, IInv

\* Dequeue, `delete tail`.
LEMMA DequeueDeleteInv == ASSUME IInv, DequeueDelete PROVE IInv'
  <1> USE NullAssumption
  <1> TypeOK /\ ListInv /\ NoLeak
    BY Zenon DEF IInv
  <1>1. /\ UNCHANGED <<head, tail, next, data, pc, node, prevHead, result, life, chain>>
        /\ cpc = "delete" /\ cpc' = "idle" /\ ctail' = NULL /\ cnext' = NULL
        /\ allocated' = allocated \ {ctail}
    BY Zenon DEF DequeueDelete, TailDeleted, producerVars
  <1>2. /\ ctail \notin Range(chain)
        /\ \A r \in Producers : pc[r] = "exchange" => node[r] # ctail
        /\ life # "dead"
    BY <1>1, Zenon DEF ListInv, ConsumerOwns, Lifetime
  <1>3. TypeOK'
    BY <1>1, Zenon DEF TypeOK
  <1>4. ListInv'
    <2>1. \A i \in 1 .. Len(chain) - 1 : Linking(i)' <=> Linking(i)
      BY <1>1, Zenon DEF Linking
    <2>2. ListShape'
      BY <2>1, <1>1, Zenon DEF ListInv, ListShape
    <2>3. ProducersOwn'
      BY <1>1, Zenon DEF ListInv, ProducersOwn
    <2>4. ConsumerOwns' /\ Lifetime'
      BY <1>1, Zenon DEF ListInv, ConsumerOwns, Lifetime
    <2> QED
      BY <2>2, <2>3, <2>4, Zenon DEF ListInv
  <1>5. NoLeak'
    BY <1>1, <1>2, Zenon DEF NoLeak
  <1> QED
    BY <1>3, <1>4, <1>5, Zenon DEF IInv

\* The call of the destructor.
LEMMA DestructInv == ASSUME IInv, Destruct PROVE IInv'
  <1> USE NullAssumption
  <1> TypeOK /\ ListInv /\ NoLeak
    BY Zenon DEF IInv
  <1>1. /\ UNCHANGED <<head, tail, next, data, allocated, pc, node, prevHead, cpc, ctail, cnext, result, chain>>
        /\ life = "live" /\ life' = "destructing"
        /\ \A p \in Producers : pc[p] = "idle"
    BY Zenon DEF Destruct, producerVars, consumerVars
  <1>2. \A i \in 1 .. Len(chain) - 1 : Linking(i)' <=> Linking(i)
    BY <1>1, Zenon DEF Linking
  <1>3. ListInv'
    BY <1>1, <1>2 DEF ListInv, ListShape, ProducersOwn, ConsumerOwns, Lifetime
  <1>4. TypeOK' /\ NoLeak'
    BY <1>1 DEF TypeOK, NoLeak
  <1> QED
    BY <1>3, <1>4, Zenon DEF IInv

\* Every step of the code preserves the invariant.
LEMMA NextInv == IInv /\ [Next]_vars => IInv'
  <1> SUFFICES ASSUME IInv, [Next]_vars PROVE IInv'
    BY Zenon
  <1>1. CASE \E p \in Producers : Enqueue(p)
    BY <1>1, EnqueueNewInv, EnqueueExchangeInv, EnqueueLinkInv, Zenon DEF Enqueue
  <1>2. CASE Dequeue
    BY <1>2, DequeueEmptyInv, DequeueLoadInv, DequeueTakeInv, DequeueDeleteInv, Zenon DEF Dequeue
  <1>3. CASE Destruct
    BY <1>3, DestructInv, Zenon
  <1>4. CASE UNCHANGED vars
    <2>1. UNCHANGED <<head, tail, next, data, allocated, pc, node, prevHead,
                      cpc, ctail, cnext, result, life, chain>>
      BY <1>4, Zenon DEF vars, producerVars, consumerVars
    <2>2. \A i \in 1 .. Len(chain) - 1 : Linking(i)' <=> Linking(i)
      BY <2>1, Zenon DEF Linking
    <2>3. ListInv'
      BY <2>1, <2>2, Zenon DEF IInv, ListInv, ListShape, ProducersOwn, ConsumerOwns, Lifetime
    <2> QED
      BY <2>1, <2>3, Zenon DEF IInv, TypeOK, NoLeak, Empty
  <1> QED
    BY <1>1, <1>2, <1>3, <1>4, Zenon DEF Next

\* The inductive invariant holds in every reachable state.
THEOREM Invariance == Spec => []IInv
  <1> QED
    BY InitInv, NextInv, PTL DEF Spec

\* Every variable keeps its type; in particular Dequeue only ever returns objects
\* that callers enqueued.
THEOREM TypeCorrect == Spec => []TypeOK
  <1>1. IInv => TypeOK
    BY Zenon DEF IInv
  <1> QED
    BY Invariance, <1>1, PTL

\* Enqueue and Dequeue keep the list well formed: the nodes from _tail to _head
\* are those of the exchanges, and every missing link has one producer that is
\* about to store it.
THEOREM ListIsWellFormed == Spec => []ListInv
  <1>1. IInv => ListInv
    BY Zenon DEF IInv
  <1> QED
    BY <1>1, Invariance, PTL

\* No thread dereferences or deletes a node after Dequeue has deleted it.
THEOREM NoUseAfterFreeThm == Spec => []NoUseAfterFree
  <1>1. IInv => NoUseAfterFree
    <2> SUFFICES ASSUME IInv PROVE NoUseAfterFree
      BY Zenon
    <2> USE DEF IInv
    <2>1. PICK L \in Nat : L = Len(chain) /\ L >= 1
      BY DEF TypeOK, ListInv, ListShape
    <2>2. \A i \in 1 .. L : chain[i] \in Range(chain)
      BY <2>1 DEF TypeOK, Range
    <2>3. life # "dead" => Range(chain) \subseteq allocated
      BY Zenon DEF NoLeak
    <2>4. life # "dead" => head \in allocated /\ tail \in allocated
      BY <2>1, <2>2, <2>3 DEF ListInv, ListShape
    <2>5. \A p \in Producers : pc[p] = "exchange" => node[p] \in allocated
      BY Zenon DEF NoLeak, ListInv, Lifetime
    <2>6. ASSUME NEW p \in Producers, pc[p] = "link"
          PROVE  {node[p], prevHead[p]} \subseteq allocated
      <3>1. life # "dead"
        BY <2>6, Zenon DEF ListInv, Lifetime
      <3>2. PICK i \in 1 .. L - 1 : prevHead[p] = chain[i] /\ node[p] = chain[i + 1]
        BY <2>1, <2>6, Zenon DEF ListInv, ProducersOwn
      <3>3. i \in 1 .. L /\ i + 1 \in 1 .. L
        BY <2>1
      <3> QED
        BY <3>1, <3>2, <3>3, <2>2, <2>3, Zenon
    <2>7. cpc = "take" => cnext \in allocated
      BY <2>1, <2>2, <2>3 DEF ListInv, ConsumerOwns, Lifetime
    <2>8. cpc = "delete" => ctail \in allocated /\ ctail # tail
      BY <2>1, <2>2 DEF ListInv, ListShape, ConsumerOwns, Lifetime, NoLeak
    <2> QED
      BY <2>4, <2>5, <2>6, <2>7, <2>8, Zenon DEF NoUseAfterFree
  <1> QED
    BY <1>1, Invariance, PTL

\* Nodes are neither leaked while the queue is in use nor left by the destructor.
THEOREM NoLeakThm == Spec => []NoLeak
  <1>1. IInv => NoLeak
    BY Zenon DEF IInv
  <1> QED
    BY <1>1, Invariance, PTL

\* All of it together: the list is well formed, no deleted node is about to be
\* touched, and no node is lost by Enqueue, Dequeue or the destructor.
THEOREM Safety == Spec => []Inv
  <1>1. TypeOK /\ ListInv /\ NoUseAfterFree /\ NoLeak => Inv
    BY Zenon DEF Inv
  <1> QED
    BY <1>1, TypeCorrect, ListIsWellFormed, NoUseAfterFreeThm, NoLeakThm, PTL

\* Dequeue returns false only when the queue is empty or the oldest Enqueue is
\* still between its exchange and its link.
THEOREM MissIsHonestThm == Spec => MissIsHonest
  <1>1. IInv /\ [Next]_vars => [DequeueEmpty => Empty \/ (life = "live" /\ Linking(1))]_vars
    <2> SUFFICES ASSUME IInv, DequeueEmpty, ~ Empty
                 PROVE  life = "live" /\ Linking(1)
      BY Zenon
    <2> USE NullAssumption DEF IInv
    <2>1. PICK L \in Nat : L = Len(chain) /\ L >= 1
      BY DEF TypeOK, ListInv, ListShape
    <2>2. 1 \in 1 .. L - 1 /\ 1 + 1 = 2 /\ 2 \in 1 .. L
      BY <2>1 DEF Empty
    <2>3. next[chain[1]] = NULL /\ chain[2] \in Nodes
      BY <2>1, <2>2 DEF TypeOK, DequeueEmpty, NothingToTake, ListInv, ListShape
    <2>4. Linking(1)
      <3>1. NULL # chain[2]
        BY <2>3, Zenon
      <3>2. next[chain[1]] = chain[1 + 1] \/ Linking(1)
        BY <2>1, <2>2, Zenon DEF ListInv, ListShape
      <3> QED
        BY <3>1, <3>2, <2>2, <2>3, Zenon
    <2>5. life = "live"
      BY <2>4, Zenon DEF Linking, ListInv, Lifetime
    <2> QED
      BY <2>4, <2>5, Zenon
  <1> QED
    BY <1>1, Invariance, PTL DEF Spec, MissIsHonest

\* A list of nodes whose Data are objects, as ListShape describes it.
IsList(c, d) ==
    /\ c \in Seq(Nodes)
    /\ Len(c) >= 1
    /\ \A i \in 2 .. Len(c) : d[c[i]] \in Items

\* The queue read off a list holds one object per node behind the front one.
LEMMA QueueOfList ==
  ASSUME NEW c, NEW d, IsList(c, d)
  PROVE  /\ Len(c) \in Nat
         /\ DataBehindFront(c, d) \in Seq(Items)
         /\ Len(DataBehindFront(c, d)) = Len(c) - 1
         /\ \A i \in 1 .. Len(c) - 1 : DataBehindFront(c, d)[i] = d[c[i + 1]]
  <1>1. PICK L \in Nat : L = Len(c) /\ L >= 1
    BY DEF IsList
  <1>2. \A i \in 1 .. L - 1 : d[c[i + 1]] \in Items
    <2>1. \A i \in 1 .. L - 1 : i + 1 \in 2 .. L
      BY <1>1
    <2> QED
      BY <1>1, <2>1, Zenon DEF IsList
  <1> QED
    BY <1>1, <1>2 DEF DataBehindFront

\* Appending a node to the list appends its object to the queue.
LEMMA QueueAppend ==
  ASSUME NEW c, NEW d, IsList(c, d), NEW n \in Nodes, d[n] \in Items
  PROVE  DataBehindFront(Append(c, n), d) = Append(DataBehindFront(c, d), d[n])
  <1> DEFINE Q == DataBehindFront(c, d)
  <1> DEFINE cn == Append(c, n)
  <1>1. PICK L \in Nat : L = Len(c) /\ L >= 1
    BY DEF IsList
  <1>2. /\ cn \in Seq(Nodes)
        /\ Len(cn) = L + 1
        /\ \A i \in 1 .. L : cn[i] = c[i]
        /\ cn[L + 1] = n
    BY <1>1 DEF IsList
  <1> HIDE DEF cn
  <1>3. \A i \in 2 .. L + 1 : d[cn[i]] \in Items
    <2>1. \A i \in 2 .. L + 1 : i \in 2 .. L \/ i = L + 1
      BY <1>1
    <2> QED
      BY <1>1, <1>2, <2>1 DEF IsList
  <1>4. IsList(cn, d)
    BY <1>1, <1>2, <1>3 DEF IsList
  <1>5. /\ Q \in Seq(Items) /\ Len(Q) = L - 1
        /\ \A i \in 1 .. L - 1 : Q[i] = d[c[i + 1]]
    BY <1>1, QueueOfList, Zenon
  <1>6. /\ DataBehindFront(cn, d) \in Seq(Items) /\ Len(DataBehindFront(cn, d)) = L
        /\ \A i \in 1 .. L : DataBehindFront(cn, d)[i] = d[cn[i + 1]]
    <2>1. (L + 1) - 1 = L
      BY <1>1
    <2> QED
      BY <1>2, <1>4, <2>1, QueueOfList
  <1> HIDE DEF Q
  <1>7. (L - 1) + 1 = L /\ L \in 1 .. L /\ \A i \in 1 .. L - 1 : i \in 1 .. L /\ i + 1 \in 1 .. L
    BY <1>1
  <1>8. DataBehindFront(cn, d)[L] = d[n]
    BY <1>2, <1>6, <1>7, Zenon
  <1>9. \A i \in 1 .. L - 1 : DataBehindFront(cn, d)[i] = Q[i]
    <2> SUFFICES ASSUME NEW i \in 1 .. L - 1 PROVE DataBehindFront(cn, d)[i] = Q[i]
      BY Zenon
    <2>1. DataBehindFront(cn, d)[i] = d[cn[i + 1]] /\ cn[i + 1] = c[i + 1]
      BY <1>2, <1>6, <1>7, Zenon
    <2>2. Q[i] = d[c[i + 1]]
      BY <1>5, Zenon
    <2> QED
      BY <2>1, <2>2, Zenon
  <1>10. DataBehindFront(cn, d) = Append(Q, d[n])
    BY <1>5, <1>6, <1>7, <1>8, <1>9, AppendByIndex
  <1> QED
    BY <1>10, Zenon DEF Q, cn

\* Removing the front node removes the oldest object from the queue.
LEMMA QueueTail ==
  ASSUME NEW c, NEW d, IsList(c, d), Len(c) >= 2
  PROVE  /\ DataBehindFront(c, d) # <<>>
         /\ Head(DataBehindFront(c, d)) = d[c[2]]
         /\ DataBehindFront(Tail(c), d) = Tail(DataBehindFront(c, d))
  <1> DEFINE Q == DataBehindFront(c, d)
  <1> DEFINE ct == Tail(c)
  <1>1. PICK L \in Nat : L = Len(c) /\ L >= 2 /\ c # <<>>
    BY DEF IsList
  <1>2. /\ ct \in Seq(Nodes)
        /\ Len(ct) = L - 1
        /\ \A i \in 1 .. L - 1 : ct[i] = c[i + 1]
    BY <1>1 DEF IsList
  <1> HIDE DEF ct
  <1>3. IsList(ct, d)
    <2>1. L - 1 >= 1 /\ \A i \in 2 .. L - 1 : i \in 1 .. L - 1 /\ i + 1 \in 2 .. L
      BY <1>1
    <2> QED
      BY <1>1, <1>2, <2>1, Zenon DEF IsList
  <1>4. /\ Q \in Seq(Items) /\ Len(Q) = L - 1
        /\ \A i \in 1 .. L - 1 : Q[i] = d[c[i + 1]]
    BY <1>1, QueueOfList, Zenon
  <1>5. /\ DataBehindFront(ct, d) \in Seq(Items) /\ Len(DataBehindFront(ct, d)) = L - 2
        /\ \A i \in 1 .. L - 2 : DataBehindFront(ct, d)[i] = d[ct[i + 1]]
    <2>1. (L - 1) - 1 = L - 2
      BY <1>1
    <2> QED
      BY <1>2, <1>3, <2>1, QueueOfList
  <1> HIDE DEF Q
  <1>6. Q # <<>> /\ Head(Q) = d[c[2]]
    <2>1. Q # <<>> /\ 1 \in 1 .. L - 1 /\ 1 + 1 = 2
      BY <1>1, <1>4
    <2>2. Head(Q) = Q[1]
      BY <1>4, <2>1
    <2> QED
      BY <1>4, <2>1, <2>2, Zenon
  <1>7. /\ Tail(Q) \in Seq(Items) /\ Len(Tail(Q)) = L - 2
        /\ \A i \in 1 .. L - 2 : Tail(Q)[i] = Q[i + 1]
    <2>1. (L - 1) - 1 = L - 2
      BY <1>1
    <2> QED
      BY <1>4, <1>6, <2>1
  <1>8. \A i \in 1 .. L - 2 : DataBehindFront(ct, d)[i] = Tail(Q)[i]
    <2>1. \A i \in 1 .. L - 2 : i + 1 \in 1 .. L - 1
      BY <1>1
    <2> QED
      BY <2>1, <1>2, <1>4, <1>5, <1>7, Zenon
  <1>9. DataBehindFront(ct, d) = Tail(Q)
    BY <1>5, <1>7, <1>8, SeqEqual, Zenon
  <1> QED
    BY <1>6, <1>9, Zenon DEF Q, ct

\* The queue does not depend on the Data of nodes outside the list.
LEMMA QueueSame ==
  ASSUME NEW c, NEW d, NEW e, IsList(c, d),
         \A i \in 1 .. Len(c) : e[c[i]] = d[c[i]]
  PROVE  DataBehindFront(c, e) = DataBehindFront(c, d)
  <1>1. Len(c) \in Nat
    BY DEF IsList
  <1>2. \A i \in 1 .. Len(c) - 1 : i + 1 \in 1 .. Len(c)
    BY <1>1
  <1>3. \A i \in 1 .. Len(c) - 1 : e[c[i + 1]] = d[c[i + 1]]
    BY <1>2, Zenon
  <1> QED
    BY <1>3, Zenon DEF DataBehindFront

\* The list implements a FIFO queue: Enqueue appends at its exchange, Dequeue
\* removes the oldest object at its store to _tail, and no other step changes
\* what the queue holds.
THEOREM ImplementsFifo == Spec => RefinesFifo
  <1> USE NullAssumption
  <1>1. Init => Fifo!FifoInit
    <2> SUFFICES ASSUME Init PROVE Fifo!FifoInit
      BY Zenon
    <2>1. PICK n \in Nodes : chain = <<n>>
      BY Zenon DEF Init
    <2>2. IsList(chain, data) /\ Len(chain) = 1
      BY <2>1 DEF IsList
    <2>3. queue \in Seq(Items) /\ Len(queue) = 0
      BY <2>2, QueueOfList DEF queue
    <2>4. queue = <<>>
      BY <2>3
    <2> QED
      BY <2>4, Zenon DEF Init, Fifo!FifoInit
  <1>2. IInv /\ [Next]_vars => [Fifo!FifoNext]_(Fifo!fifoVars)
    <2> SUFFICES ASSUME IInv, [Next]_vars
                 PROVE  [Fifo!FifoNext]_(Fifo!fifoVars)
      BY Zenon
    <2>1. IsList(chain, data)
      BY Zenon DEF IInv, TypeOK, ListInv, ListShape, IsList
    <2>2. ASSUME NEW p \in Producers, EnqueueExchange(p) PROVE Fifo!FifoNext
      <3>1. /\ node[p] \in Nodes /\ data[node[p]] \in Items
            /\ chain' = Append(chain, node[p])
            /\ data' = data /\ result' = result
        BY <2>2, Zenon DEF EnqueueExchange, consumerVars, IInv, ListInv, ProducersOwn
      <3>2. queue' = Append(queue, data[node[p]])
        BY <2>1, <3>1, QueueAppend, Zenon DEF queue
      <3> QED
        BY <3>1, <3>2, Zenon DEF Fifo!FifoNext, Fifo!Put
    <2>3. ASSUME DequeueTake PROVE Fifo!FifoNext
      <3>1. /\ Len(chain) >= 2 /\ cnext = chain[2]
            /\ chain' = Tail(chain) /\ data' = data /\ result' = data[cnext]
        BY <2>3, Zenon DEF DequeueTake, DataOfNext, IInv, ListInv, ConsumerOwns
      <3>2. queue # <<>> /\ result' = Head(queue) /\ queue' = Tail(queue)
        BY <2>1, <3>1, QueueTail, Zenon DEF queue
      <3> QED
        BY <3>2, Zenon DEF Fifo!FifoNext, Fifo!Get
    <2>4. ASSUME UNCHANGED <<chain, result>>,
                 \A i \in 1 .. Len(chain) : data'[chain[i]] = data[chain[i]]
          PROVE  UNCHANGED Fifo!fifoVars
      <3>1. queue' = queue
        BY <2>1, <2>4, QueueSame, Zenon DEF queue
      <3> QED
        BY <2>4, <3>1, Zenon DEF Fifo!fifoVars
    <2>5. ASSUME NEW p \in Producers, EnqueueNew(p) PROVE UNCHANGED Fifo!fifoVars
      <3>1. PICK n \in Nodes \ allocated, v \in Free : data' = [data EXCEPT ![n] = v]
        BY <2>5, Zenon DEF EnqueueNew
      <3>2. n \notin Range(chain)
        BY <2>5, Zenon DEF EnqueueNew, IInv, NoLeak
      <3>3. \A i \in 1 .. Len(chain) : data'[chain[i]] = data[chain[i]]
        BY <3>1, <3>2 DEF IInv, TypeOK, Range
      <3> QED
        BY <2>4, <2>5, <3>3, Zenon DEF EnqueueNew, consumerVars
    <2>6. ASSUME UNCHANGED <<chain, result, data>> PROVE UNCHANGED Fifo!fifoVars
      BY <2>4, <2>6, Zenon
    <2>7. CASE \E p \in Producers : Enqueue(p)
      <3>1. ASSUME NEW p \in Producers, EnqueueLink(p) PROVE UNCHANGED Fifo!fifoVars
        BY <2>6, <3>1, Zenon DEF EnqueueLink, consumerVars
      <3> QED
        BY <2>2, <2>5, <2>7, <3>1, Zenon DEF Enqueue
    <2>8. CASE Dequeue
      BY <2>3, <2>6, <2>8, Zenon DEF Dequeue, DequeueEmpty, DequeueLoad, DequeueDelete, consumerVars
    <2>9. CASE Destruct \/ UNCHANGED vars
      BY <2>6, <2>9, Zenon DEF Destruct, consumerVars, vars
    <2> QED
      BY <2>7, <2>8, <2>9, Zenon DEF Next
  <1> QED
    BY <1>1, <1>2, Invariance, PTL DEF Spec, RefinesFifo, Fifo!FifoSpec
=============================================================================
