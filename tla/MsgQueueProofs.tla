---------------------------- MODULE MsgQueueProofs ----------------------------
(***************************************************************************)
(* Proofs about MsgQueue, for any sets of threads and messages, any limit  *)
(* and any interleaving, spurious wakeups included: the two linked lists   *)
(* stay what the counters and pointers say, no wakeup is lost, NULL is     *)
(* returned honestly, and the queue implements a FIFO queue.               *)
(***************************************************************************)
EXTENDS MsgQueue, SequenceTheorems, TLAPS

-----------------------------------------------------------------------------
(* Sequences *)

\* The elements of a sequence after an append.
LEMMA RangeAppend ==
  ASSUME NEW S, NEW s \in Seq(S), NEW e \in S
  PROVE  Range(Append(s, e)) = Range(s) \union {e}
  <1>1. /\ DOMAIN s = 1 .. Len(s)
        /\ DOMAIN Append(s, e) = 1 .. Len(s) + 1
        /\ Len(s) \in Nat
        /\ Append(s, e)[Len(s) + 1] = e
        /\ \A i \in 1 .. Len(s) : Append(s, e)[i] = s[i]
    OBVIOUS
  <1> QED
    BY <1>1 DEF Range

\* A sequence that extends s by e is Append(s, e).
LEMMA AppendByIndex ==
  ASSUME NEW S, NEW s \in Seq(S), NEW t \in Seq(S), NEW e \in S,
         Len(t) = Len(s) + 1,
         \A i \in 1 .. Len(s) : t[i] = s[i],
         t[Len(s) + 1] = e
  PROVE  t = Append(s, e)
  <1>1. /\ Append(s, e) \in Seq(S)
        /\ Len(Append(s, e)) = Len(s) + 1
        /\ \A i \in 1 .. Len(s) : Append(s, e)[i] = s[i]
        /\ Append(s, e)[Len(s) + 1] = e
    BY AppendProperties
  <1>2. Len(s) \in Nat
    OBVIOUS
  <1>3. \A i \in 1 .. Len(s) + 1 : i \in 1 .. Len(s) \/ i = Len(s) + 1
    BY <1>2
  <1>4. \A i \in 1 .. Len(t) : t[i] = Append(s, e)[i]
    BY <1>1, <1>3, Zenon
  <1> QED
    BY <1>1, <1>4, SeqEqual, Zenon

\* The elements of a non-empty sequence are its head and those of its tail.
LEMMA RangeTail ==
  ASSUME NEW S, NEW s \in Seq(S), Len(s) >= 1
  PROVE  Range(s) = Range(Tail(s)) \union {s[1]}
  <1>1. /\ Len(s) \in Nat
        /\ DOMAIN s = 1 .. Len(s)
        /\ DOMAIN Tail(s) = 1 .. Len(s) - 1
        /\ \A i \in 1 .. Len(s) - 1 : Tail(s)[i] = s[i + 1]
    OBVIOUS
  <1>2. \A i \in 1 .. Len(s) : i = 1 \/ (i - 1 \in 1 .. Len(s) - 1 /\ (i - 1) + 1 = i)
    BY <1>1
  <1>3. ASSUME NEW i \in 1 .. Len(s) PROVE s[i] \in Range(Tail(s)) \union {s[1]}
    <2>1. CASE i = 1
      BY <2>1, Zenon
    <2>2. CASE i # 1
      <3>1. i - 1 \in DOMAIN Tail(s) /\ Tail(s)[i - 1] = s[i]
        BY <2>2, <1>1, <1>2, Zenon
      <3> QED
        BY <3>1, Zenon DEF Range
    <2> QED
      BY <2>1, <2>2, Zenon
  <1>4. \A i \in 1 .. Len(s) - 1 : i + 1 \in 1 .. Len(s)
    BY <1>1
  <1>5. Range(Tail(s)) \union {s[1]} \subseteq Range(s)
    BY <1>1, <1>4 DEF Range
  <1> QED
    BY <1>1, <1>3, <1>5 DEF Range

\* An injective sequence stays injective when a new element is appended.
LEMMA InjectiveAppend ==
  ASSUME NEW S, NEW s \in Seq(S), NEW e \in S, IsInjective(s), e \notin Range(s)
  PROVE  IsInjective(Append(s, e))
  <1>1. /\ DOMAIN s = 1 .. Len(s)
        /\ DOMAIN Append(s, e) = 1 .. Len(s) + 1
        /\ Len(s) \in Nat
        /\ Append(s, e)[Len(s) + 1] = e
        /\ \A i \in 1 .. Len(s) : Append(s, e)[i] = s[i]
    OBVIOUS
  <1>2. \A i \in 1 .. Len(s) : s[i] # e
    BY <1>1, Zenon DEF Range
  <1>3. \A i \in 1 .. Len(s) + 1 : i \in 1 .. Len(s) \/ i = Len(s) + 1
    BY <1>1
  <1> QED
    BY <1>1, <1>2, <1>3, Zenon DEF IsInjective

\* The tail of an injective sequence is injective and lacks the head.
LEMMA InjectiveTail ==
  ASSUME NEW S, NEW s \in Seq(S), Len(s) >= 1, IsInjective(s)
  PROVE  IsInjective(Tail(s)) /\ s[1] \notin Range(Tail(s))
  <1>1. /\ Len(s) \in Nat
        /\ DOMAIN s = 1 .. Len(s)
        /\ DOMAIN Tail(s) = 1 .. Len(s) - 1
        /\ \A i \in 1 .. Len(s) - 1 : Tail(s)[i] = s[i + 1]
    OBVIOUS
  <1>2. \A i \in 1 .. Len(s) - 1 : i + 1 \in 1 .. Len(s) /\ i + 1 # 1
    BY <1>1
  <1>3. 1 \in 1 .. Len(s)
    BY <1>1
  <1>4. ASSUME NEW i \in 1 .. Len(s) - 1, NEW j \in 1 .. Len(s) - 1, s[i + 1] = s[j + 1]
        PROVE  i = j
    <2>1. i + 1 = j + 1
      BY <1>1, <1>2, <1>4, Zenon DEF IsInjective
    <2> QED
      BY <2>1, <1>1
  <1>5. IsInjective(Tail(s))
    BY <1>1, <1>4, Zenon DEF IsInjective
  <1>6. \A i \in 1 .. Len(s) - 1 : s[i + 1] # s[1]
    BY <1>1, <1>2, <1>3, Zenon DEF IsInjective
  <1> QED
    BY <1>1, <1>5, <1>6 DEF Range

\* Appending to the second of two concatenated sequences.
LEMMA ConcatAppend ==
  ASSUME NEW S, NEW s \in Seq(S), NEW t \in Seq(S), NEW e \in S
  PROVE  s \o Append(t, e) = Append(s \o t, e)
  <1>1. /\ s \o t \in Seq(S)
        /\ s \o Append(t, e) \in Seq(S)
        /\ Len(s \o t) = Len(s) + Len(t)
        /\ Len(s \o Append(t, e)) = (Len(s) + Len(t)) + 1
    OBVIOUS
  <1>2. \A i \in 1 .. Len(s \o t) : (s \o Append(t, e))[i] = (s \o t)[i]
    OBVIOUS
  <1>3. (s \o Append(t, e))[Len(s \o t) + 1] = e
    OBVIOUS
  <1> QED
    BY <1>1, <1>2, <1>3, AppendByIndex

\* Removing the head of the first of two concatenated sequences.
LEMMA ConcatTail ==
  ASSUME NEW S, NEW s \in Seq(S), NEW t \in Seq(S), Len(s) >= 1
  PROVE  /\ s \o t # <<>>
         /\ Head(s \o t) = s[1]
         /\ Tail(s \o t) = Tail(s) \o t
  <1>1. /\ Len(s) \in Nat /\ Len(t) \in Nat
        /\ s \o t \in Seq(S)
        /\ Len(s \o t) = Len(s) + Len(t)
        /\ Tail(s) \in Seq(S)
        /\ Len(Tail(s)) = Len(s) - 1
        /\ Tail(s) \o t \in Seq(S)
        /\ Len(Tail(s) \o t) = (Len(s) - 1) + Len(t)
    OBVIOUS
  <1>2. s \o t # <<>> /\ Head(s \o t) = s[1]
    BY <1>1
  <1>3. Tail(s \o t) \in Seq(S) /\ Len(Tail(s \o t)) = (Len(s) + Len(t)) - 1
    BY <1>1
  <1>4. ASSUME NEW i \in 1 .. Len(Tail(s \o t))
        PROVE  Tail(s \o t)[i] = (Tail(s) \o t)[i]
    <2>1. i + 1 \in 1 .. Len(s) + Len(t)
      BY <1>1, <1>3
    <2>2. Tail(s \o t)[i] = (s \o t)[i + 1]
      BY <1>1, <1>3
    <2>3. CASE i <= Len(s) - 1
      <3>1. (s \o t)[i + 1] = s[i + 1] /\ (Tail(s) \o t)[i] = Tail(s)[i]
        BY <1>1, <2>1, <2>3, <1>3
      <3>2. Tail(s)[i] = s[i + 1]
        BY <1>1, <2>3, <1>3
      <3> QED
        BY <3>1, <3>2, <2>2, Zenon
    <2>4. CASE ~ (i <= Len(s) - 1)
      <3>1. (s \o t)[i + 1] = t[(i + 1) - Len(s)]
        BY <1>1, <2>1, <2>4, <1>3
      <3>2. (Tail(s) \o t)[i] = t[i - (Len(s) - 1)]
        BY <1>1, <2>1, <2>4, <1>3
      <3>3. (i + 1) - Len(s) = i - (Len(s) - 1)
        BY <1>1, <1>3
      <3> QED
        BY <3>1, <3>2, <3>3, <2>2, Zenon
    <2> QED
      BY <2>3, <2>4, Zenon
  <1> QED
    BY <1>1, <1>2, <1>3, <1>4, SeqEqual

-----------------------------------------------------------------------------
(* Linked lists.  PathOf is Path with the links as a parameter. *)

Links == [Cells -> Msgs \union {NULL}]

PathOf(l, h, s) ==
    /\ l[h] = IF s = <<>> THEN NULL ELSE s[1]
    /\ \A i \in 1 .. Len(s) : l[s[i]] = IF i = Len(s) THEN NULL ELSE s[i + 1]

\* Writing a link outside of a list does not change the list.
LEMMA PathFrame ==
  ASSUME NEW l \in Links, NEW h \in Heads, NEW s \in Seq(Msgs), PathOf(l, h, s),
         NEW c \in Cells, NEW x, c # h, c \notin Range(s)
  PROVE  PathOf([l EXCEPT ![c] = x], h, s)
  <1>1. DOMAIN s = 1 .. Len(s) /\ \A i \in 1 .. Len(s) : s[i] \in Msgs
    OBVIOUS
  <1>2. \A i \in 1 .. Len(s) : s[i] # c
    BY <1>1, Zenon DEF Range
  <1>3. [l EXCEPT ![c] = x][h] = l[h]
    BY Zenon DEF Links, Cells
  <1>4. \A i \in 1 .. Len(s) : [l EXCEPT ![c] = x][s[i]] = l[s[i]]
    BY <1>1, <1>2, Zenon DEF Links, Cells
  <1> QED
    BY <1>3, <1>4, Zenon DEF PathOf

\* Storing a new message in the last link of a list appends it.
LEMMA PathAppend ==
  ASSUME NEW l \in Links, NEW h \in Heads, NEW s \in Seq(Msgs), PathOf(l, h, s),
         IsInjective(s), NEW m \in Msgs, m \notin Range(s), l[m] = NULL
  PROVE  PathOf([l EXCEPT ![IF s = <<>> THEN h ELSE s[Len(s)]] = m], h, Append(s, m))
  <1> DEFINE tl == IF s = <<>> THEN h ELSE s[Len(s)]
             k == [l EXCEPT ![tl] = m]
  <1>1. /\ DOMAIN s = 1 .. Len(s) /\ \A i \in 1 .. Len(s) : s[i] \in Msgs
        /\ Len(s) \in Nat
        /\ Append(s, m) # <<>>
        /\ Len(Append(s, m)) = Len(s) + 1
        /\ Append(s, m)[Len(s) + 1] = m
        /\ \A i \in 1 .. Len(s) : Append(s, m)[i] = s[i]
    OBVIOUS
  <1>2. h \notin Msgs
    BY MsgQueueAssumption, Zenon DEF Heads
  <1>3. \A i \in 1 .. Len(s) : s[i] # m
    BY <1>1, Zenon DEF Range
  <1>4. CASE s = <<>>
    <2>1. Len(s) = 0 /\ tl = h
      BY <1>4, Zenon
    <2>2. k[h] = m /\ k[m] = NULL
      BY <2>1, <1>2, Zenon DEF Links, Cells
    <2>3. Append(s, m)[1] = m /\ Len(Append(s, m)) = 1
      BY <1>1, <2>1
    <2> QED
      BY <1>1, <2>1, <2>2, <2>3 DEF PathOf
  <1>5. CASE s # <<>>
    <2>0. PICK L \in Nat : L = Len(s) /\ L >= 1
      BY <1>5, EmptySeq
    <2>1. L \in 1 .. L /\ 1 \in 1 .. L
      BY <2>0
    <2>2. tl = s[L] /\ tl \in Msgs
      BY <1>5, <1>1, <2>0, <2>1, Zenon
    <2>3. k[h] = l[h] /\ k[tl] = m /\ k[m] = NULL
      BY <2>0, <2>1, <2>2, <1>2, <1>3, Zenon DEF Links, Cells
    <2>4. k[h] = Append(s, m)[1]
      BY <1>5, <1>1, <2>0, <2>1, <2>3, Zenon DEF PathOf
    <2>5. ASSUME NEW i \in 1 .. L + 1
          PROVE  k[Append(s, m)[i]] = IF i = L + 1 THEN NULL ELSE Append(s, m)[i + 1]
      <3>1. CASE i = L + 1
        BY <3>1, <1>1, <2>0, <2>3, Zenon
      <3>2. CASE i = L
        BY <3>2, <1>1, <2>0, <2>1, <2>2, <2>3, Zenon
      <3>3. CASE i # L + 1 /\ i # L
        <4>1. i \in 1 .. L /\ i + 1 \in 1 .. L
          BY <3>3
        <4>2. s[i] # tl
          BY <4>1, <3>3, <2>0, <2>1, <2>2, <1>1, Zenon DEF IsInjective
        <4>3. k[s[i]] = l[s[i]]
          BY <4>1, <4>2, <1>1, <2>0, Zenon DEF Links, Cells
        <4>4. l[s[i]] = s[i + 1]
          BY <4>1, <3>3, <2>0, Zenon DEF PathOf
        <4> QED
          BY <4>1, <4>3, <4>4, <1>1, <2>0, <3>3, Zenon
      <3> QED
        BY <3>1, <3>2, <3>3, Zenon
    <2>6. Len(Append(s, m)) = L + 1
      BY <1>1, <2>0, Zenon
    <2>7. PathOf(k, h, Append(s, m))
      <3> HIDE DEF k
      <3> QED
        BY <1>1, <2>4, <2>5, <2>6, Zenon DEF PathOf
    <2> QED
      BY <2>7, Zenon
  <1> QED
    BY <1>4, <1>5, Zenon

\* Storing the second link in the first removes the first message.
LEMMA PathTail ==
  ASSUME NEW l \in Links, NEW h \in Heads, NEW s \in Seq(Msgs), PathOf(l, h, s),
         s # <<>>
  PROVE  /\ l[h] = s[1]
         /\ PathOf([l EXCEPT ![h] = l[l[h]]], h, Tail(s))
  <1> DEFINE k == [l EXCEPT ![h] = l[l[h]]]
  <1>1. PICK L \in Nat : L = Len(s) /\ L >= 1
    BY EmptySeq
  <1>2. /\ \A i \in 1 .. L : s[i] \in Msgs
        /\ Len(Tail(s)) = L - 1
        /\ Tail(s) \in Seq(Msgs)
        /\ \A i \in 1 .. L - 1 : Tail(s)[i] = s[i + 1]
    BY <1>1
  <1>3. Tail(s) = <<>> <=> L = 1
    <2>1. L - 1 = 0 <=> L = 1
      OBVIOUS
    <2>2. Tail(s) = <<>> <=> Len(Tail(s)) = 0
      BY <1>2, EmptySeq, Zenon
    <2> QED
      BY <2>1, <2>2, <1>2, Zenon
  <1>4. h \notin Msgs
    BY MsgQueueAssumption, Zenon DEF Heads
  <1>5. l[h] = s[1] /\ \A i \in 1 .. L : l[s[i]] = IF i = L THEN NULL ELSE s[i + 1]
    BY <1>1, Zenon DEF PathOf
  <1>6. 1 \in 1 .. L
    BY <1>1
  <1>7. k[h] = IF L = 1 THEN NULL ELSE s[2]
    BY <1>5, <1>6 DEF Links, Cells
  <1>8. k[h] = IF Tail(s) = <<>> THEN NULL ELSE Tail(s)[1]
    <2>1. L # 1 => 1 \in 1 .. L - 1 /\ 1 + 1 = 2
      BY <1>1
    <2> QED
      BY <2>1, <1>2, <1>3, <1>7, Zenon
  <1>9. ASSUME NEW i \in 1 .. L - 1
        PROVE  k[Tail(s)[i]] = IF i = L - 1 THEN NULL ELSE Tail(s)[i + 1]
    <2>1. i + 1 \in 1 .. L /\ Tail(s)[i] = s[i + 1]
      BY <1>2
    <2>2. k[s[i + 1]] = l[s[i + 1]]
      BY <2>1, <1>2, <1>4, Zenon DEF Links, Cells
    <2>3. l[s[i + 1]] = IF i + 1 = L THEN NULL ELSE s[(i + 1) + 1]
      BY <2>1, <1>5, Zenon
    <2>4. i + 1 = L <=> i = L - 1
      OBVIOUS
    <2>5. i # L - 1 => i + 1 \in 1 .. L - 1
      OBVIOUS
    <2> QED
      BY <2>1, <2>2, <2>3, <2>4, <2>5, <1>2, Zenon
  <1> QED
    BY <1>2, <1>5, <1>8, <1>9 DEF PathOf
-----------------------------------------------------------------------------
(* The invariant *)

\* msgqueue_create establishes the invariant.
LEMMA InitInv == Init => Inv
  <1> SUFFICES ASSUME Init PROVE Inv
    BY Zenon
  <1>1. TypeOK
    BY DEF Init, TypeOK, Heads, Cells, Places
  <1>2. GetExclusion
    BY MsgQueueAssumption, Zenon DEF Init, GetExclusion
  <1>3. Len(<<>>) = 0 /\ 1 .. 0 = {} /\ DOMAIN <<>> = {}
    OBVIOUS
  <1>4. Path("head1", <<>>) /\ Path("head2", <<>>)
    BY <1>3, Zenon DEF Init, Path, Heads, Cells
  <1>5. IsInjective(<<>>) /\ Range(<<>>) = {}
    BY <1>3, Zenon DEF IsInjective, Range
  <1>6. ListInv
    BY <1>3, <1>4, <1>5, Zenon DEF Init, ListInv
  <1>7. PutterOwns
    BY Zenon DEF Init, PutterOwns
  <1>8. NoLostWakeup
    BY Zenon DEF Init, NoLostWakeup
  <1> QED
    BY <1>1, <1>2, <1>6, <1>7, <1>8, Zenon DEF Inv

\* The lists do not change in a step that leaves their variables alone and in
\* which the holder of get_mutex neither enters nor leaves a swap.
LEMMA ListFrame ==
  ASSUME Inv, UNCHANGED <<listVars, get_mutex, saved>>,
         get_mutex # NULL => (Swapping(get_mutex)' <=> Swapping(get_mutex)),
         get_mutex # NULL => (pc'[get_mutex] = "take" => pc[get_mutex] = "take")
  PROVE  ListInv'
  <1>1. UNCHANGED <<link, get_head, put_head, put_tail, msg_cnt, getq, putq, get_mutex, saved>>
    BY Zenon DEF listVars
  <1>2. Path(put_head, putq)' <=> Path(put_head, putq)
    BY <1>1, Zenon DEF Path
  <1>3. Path(get_head, getq)' <=> Path(get_head, getq)
    BY <1>1, Zenon DEF Path
  <1> QED
    BY <1>1, <1>2, <1>3, Zenon DEF Inv, ListInv

\* A wakeup that nobody asked for.
LEMMA SpuriousWakeupInv ==
  ASSUME Inv, NEW t \in Threads, SpuriousWakeup(t) PROVE Inv'
  <1> USE DEF SpuriousWakeup, Inv
  <1>1. TypeOK'
    BY Zenon DEF TypeOK, Places, listVars
  <1>2. GetExclusion'
    BY Zenon DEF GetExclusion, TypeOK
  <1>3. ListInv'
    <2>1. get_mutex \in Threads \union {NULL} /\ pc \in [Threads -> Places]
      BY Zenon DEF TypeOK, Threads
    <2> QED
      BY <2>1, ListFrame, Zenon DEF Swapping
  <1>4. PutterOwns'
    BY DEF PutterOwns, TypeOK, listVars
  <1>5. NoLostWakeup'
    BY Zenon DEF NoLostWakeup, TypeOK, listVars, Full
  <1> QED
    BY <1>1, <1>2, <1>3, <1>4, <1>5, Zenon

\* msgqueue_put clears the link of its message, which no list contains.
LEMMA PutClearInv ==
  ASSUME Inv, NEW t \in Putters, NEW m \in Free, PutClear(t, m) PROVE Inv'
  <1> USE DEF Inv
  <1>1. /\ t \in Threads /\ m \in Msgs /\ m \in Cells /\ m \notin Heads
        /\ m \notin Range(getq) /\ m \notin Range(putq)
        /\ \A u \in Threads : msg[u] # m
        /\ m # NULL
    <2>1. Range(getq \o putq) = Range(getq) \union Range(putq)
      BY RangeConcatenation DEF TypeOK
    <2> QED
      BY <2>1, MsgQueueAssumption, Zenon DEF Free, queue, Threads, Cells
  <1>2. /\ link' = [link EXCEPT ![m] = NULL]
        /\ msg' = [msg EXCEPT ![t] = m]
        /\ pc[t] = "idle" /\ pc' = [pc EXCEPT ![t] = "put"]
        /\ UNCHANGED <<get_head, put_head, put_tail, msg_cnt, getq, putq,
                       nonblock, get_mutex, saved, ret, alive>>
    BY Zenon DEF PutClear, ClearedLink
  <1>3. TypeOK'
    BY <1>1, <1>2, Zenon DEF TypeOK, Places
  <1>4. GetExclusion'
    BY <1>1, <1>2, Zenon DEF GetExclusion, TypeOK
  <1>5. ListInv'
    <2>1. /\ link \in Links /\ put_head \in Heads /\ get_head \in Heads
          /\ getq \in Seq(Msgs) /\ putq \in Seq(Msgs)
      BY Zenon DEF TypeOK, Links
    <2>2. Path(put_head, putq)'
      <3>1. PathOf(link, put_head, putq)
        BY Zenon DEF ListInv, Path, PathOf
      <3>2. PathOf(link', put_head, putq)
        BY <3>1, <2>1, <1>1, <1>2, PathFrame, Zenon
      <3> QED
        BY <3>2, <1>2, Zenon DEF Path, PathOf
    <2>3. Path(get_head, getq) => Path(get_head, getq)'
      <3>1. SUFFICES ASSUME PathOf(link, get_head, getq) PROVE PathOf(link', get_head, getq)
        BY <1>2, Zenon DEF Path, PathOf
      <3> QED
        BY <3>1, <2>1, <1>1, <1>2, PathFrame, Zenon
    <2>4. get_mutex \in Threads \union {NULL} /\ pc \in [Threads -> Places]
          /\ saved \in [Threads -> Heads \union {NULL}]
      BY Zenon DEF TypeOK, Threads
    <2>5. get_mutex # NULL => get_mutex # t /\ pc'[get_mutex] = pc[get_mutex]
      BY <1>1, <1>2, <2>4, Zenon DEF GetExclusion
    <2>6. get_mutex # NULL /\ Swapping(get_mutex)
            => link'[saved[get_mutex]] = link[saved[get_mutex]]
      BY <1>1, <1>2, <2>1, <2>4, Zenon DEF ListInv, Links, Cells
    <2> QED
      BY <1>2, <2>2, <2>3, <2>5, <2>6, Zenon DEF ListInv, Swapping
  <1>6. PutterOwns'
    <2>1. link \in Links /\ msg \in [Threads -> Msgs \union {NULL}] /\ pc \in [Threads -> Places]
      BY Zenon DEF TypeOK, Links
    <2>2. \A u \in Threads : msg[u] # NULL => link'[msg[u]] = link[msg[u]]
      BY <1>1, <1>2, <2>1, Zenon DEF Links, Cells
    <2>3. link'[m] = NULL
      BY <1>1, <1>2, <2>1, Zenon DEF Links
    <2> QED
      BY <1>1, <1>2, <2>1, <2>2, <2>3 DEF PutterOwns
  <1>7. NoLostWakeup'
    BY <1>1, <1>2, Zenon DEF NoLostWakeup, TypeOK, Full
  <1> QED
    BY <1>3, <1>4, <1>5, <1>6, <1>7, Zenon

\* A putter goes to sleep: the put list is full and the mode is blocking.
LEMMA PutWaitInv ==
  ASSUME Inv, NEW t \in Putters, PutWait(t) PROVE Inv'
  <1> USE DEF PutWait, Inv
  <1>0. t \in Threads /\ get_mutex \in Threads \union {NULL} /\ pc \in [Threads -> Places]
    BY Zenon DEF TypeOK, Threads
  <1>1. TypeOK'
    BY <1>0, Zenon DEF TypeOK, Places, listVars
  <1>2. GetExclusion'
    BY <1>0, Zenon DEF GetExclusion
  <1>3. ListInv'
    BY <1>0, ListFrame, Zenon DEF Swapping
  <1>4. PutterOwns'
    BY <1>0, Zenon DEF PutterOwns, listVars
  <1>5. NoLostWakeup'
    BY <1>0 DEF NoLostWakeup, listVars, Full, MustWait
  <1> QED
    BY <1>1, <1>2, <1>3, <1>4, <1>5, Zenon

\* A putter stores its message in the last link of the put list.
LEMMA PutAppendInv ==
  ASSUME Inv, NEW t \in Putters, PutAppend(t) PROVE Inv'
  <1> USE DEF Inv
  <1> DEFINE m == msg[t]
  <1>1. /\ pc[t] = "put" /\ pc' = [pc EXCEPT ![t] = "signal"]
        /\ link' = [link EXCEPT ![put_tail] = m]
        /\ put_tail' = m
        /\ msg_cnt' = msg_cnt + 1
        /\ putq' = Append(putq, m)
        /\ msg' = [msg EXCEPT ![t] = NULL]
        /\ UNCHANGED <<get_head, put_head, getq, nonblock, get_mutex, saved, ret, alive>>
    BY Zenon DEF PutAppend
  <1>2. /\ t \in Threads /\ get_mutex \in Threads \union {NULL} /\ pc \in [Threads -> Places]
        /\ saved \in [Threads -> Heads \union {NULL}]
        /\ link \in Links /\ put_head \in Heads /\ get_head \in Heads
        /\ getq \in Seq(Msgs) /\ putq \in Seq(Msgs)
        /\ msg \in [Threads -> Msgs \union {NULL}]
    BY Zenon DEF TypeOK, Threads, Links
  <1>3. /\ m \in Msgs /\ m \notin Range(getq) /\ m \notin Range(putq) /\ link[m] = NULL
        /\ \A u \in Threads : msg[u] = m => u = t
    BY <1>1, <1>2, Zenon DEF PutterOwns
  <1>4. m \in Cells /\ m \notin Heads /\ m # NULL
    BY <1>3, MsgQueueAssumption, Zenon DEF Cells
  <1>5. /\ put_tail = IF putq = <<>> THEN put_head ELSE putq[Len(putq)]
        /\ IsInjective(putq) /\ IsInjective(getq)
        /\ Range(getq) \intersect Range(putq) = {}
        /\ msg_cnt = Len(putq)
        /\ PathOf(link, put_head, putq)
    BY Zenon DEF ListInv, Path, PathOf
  <1>6. putq' \in Seq(Msgs) /\ Len(putq') = Len(putq) + 1 /\ putq'[Len(putq) + 1] = m
        /\ putq' # <<>>
    BY <1>1, <1>2, <1>3
  <1>7. Range(putq)' = Range(putq) \union {m} /\ IsInjective(putq)'
    BY <1>1, <1>2, <1>3, <1>5, RangeAppend, InjectiveAppend
  <1>8. put_tail \in {put_head} \union Range(putq)
    <2>1. putq # <<>> => Len(putq) \in DOMAIN putq
      BY <1>2, EmptySeq
    <2> QED
      BY <1>5, <2>1, Zenon DEF Range
  <1>9. Range(putq) \subseteq Msgs /\ Range(getq) \subseteq Msgs
    BY <1>2, RangeOfSeq, Zenon
  <1>10. TypeOK'
    BY <1>1, <1>2, <1>3, <1>4, <1>6 DEF TypeOK, Places, Links
  <1>11. GetExclusion'
    BY <1>1, <1>2, Zenon DEF GetExclusion
  <1>12. ListInv'
    <2>1. Path(put_head, putq)'
      <3>1. PathOf(link', put_head, putq')
        BY <1>1, <1>2, <1>3, <1>5, PathAppend, Zenon
      <3> QED
        BY <3>1, <1>1, Zenon DEF Path, PathOf
    <2>2. get_head # put_head /\ Path(get_head, getq) => Path(get_head, getq)'
      <3>1. SUFFICES ASSUME get_head # put_head, PathOf(link, get_head, getq)
                     PROVE PathOf(link', get_head, getq)
        BY <1>1, Zenon DEF Path, PathOf
      <3>2. put_tail # get_head /\ put_tail \notin Range(getq) /\ put_tail \in Cells
        BY <3>1, <1>2, <1>5, <1>8, <1>9, MsgQueueAssumption, Zenon DEF Cells
      <3> QED
        BY <3>1, <3>2, <1>1, <1>2, PathFrame, Zenon
    <2>3. get_mutex # NULL => get_mutex # t /\ pc'[get_mutex] = pc[get_mutex]
      BY <1>1, <1>2, Zenon DEF GetExclusion
    <2>4. ASSUME get_mutex # NULL, Swapping(get_mutex)
          PROVE  link'[saved[get_mutex]] = link[saved[get_mutex]]
      <3>1. saved[get_mutex] \in Heads \ {put_head}
        BY <2>4, Zenon DEF ListInv
      <3>2. saved[get_mutex] # put_tail
        BY <3>1, <1>8, <1>9, MsgQueueAssumption, Zenon
      <3> QED
        BY <3>1, <3>2, <1>1, <1>2, Zenon DEF Links, Cells
    <2>5. put_tail' = IF putq' = <<>> THEN put_head' ELSE putq'[Len(putq')]
      BY <1>1, <1>6, Zenon
    <2>6. msg_cnt' = Len(putq')
      BY <1>1, <1>5, <1>6, Zenon
    <2>7. Range(getq)' \intersect Range(putq)' = {} /\ IsInjective(getq)'
      BY <1>1, <1>3, <1>5, <1>7, Zenon
    <2> QED
      BY <1>1, <1>7, <2>1, <2>2, <2>3, <2>4, <2>5, <2>6, <2>7, Zenon DEF ListInv, Swapping
  <1>13. PutterOwns'
    <2>1. ASSUME NEW u \in Threads, msg'[u] # NULL
          PROVE  u # t /\ msg'[u] = msg[u] /\ msg[u] # m /\ link'[msg[u]] = link[msg[u]]
      <3>1. u # t /\ msg'[u] = msg[u] /\ msg[u] # m /\ msg[u] \in Msgs
        BY <2>1, <1>1, <1>2, <1>3, Zenon
      <3>2. msg[u] \notin Range(putq) /\ msg[u] # put_head
        BY <3>1, <2>1, <1>2, MsgQueueAssumption, Zenon DEF PutterOwns
      <3>3. msg[u] # put_tail
        BY <3>2, <1>8, Zenon
      <3> QED
        BY <3>1, <3>3, <1>1, <1>2, Zenon DEF Links, Cells
    <2>2. \A u \in Threads : u # t => pc'[u] = pc[u] /\ msg'[u] = msg[u]
      BY <1>1, <1>2, Zenon
    <2>3. pc'[t] = "signal" /\ msg'[t] = NULL
      BY <1>1, <1>2, Zenon
    <2> QED
      BY <1>1, <1>7, <2>1, <2>2, <2>3 DEF PutterOwns
  <1>14. NoLostWakeup'
    <2>1. pc'[t] = "signal" /\ \A u \in Threads : u # t => pc'[u] = pc[u]
      BY <1>1, <1>2, Zenon
    <2>2. Full => Full'
      BY <1>1, MsgQueueAssumption DEF Full, TypeOK, Limit
    <2> QED
      BY <1>1, <1>2, <2>1, <2>2, Zenon DEF NoLostWakeup
  <1> QED
    BY <1>10, <1>11, <1>12, <1>13, <1>14, Zenon

\* pthread_cond_signal(&get_cond) wakes the only getter that can be asleep.
LEMMA SignalGetEffect ==
  ASSUME TypeOK, GetExclusion, NEW t \in Threads, NEW W \in SUBSET PutWaiters,
         pc[t] \in {"signal", "notify"}, SignalGet(t, W)
  PROVE  /\ pc' \in [Threads -> Places]
         /\ pc'[t] = "idle"
         /\ \A u \in Threads \ {t} :
               pc'[u] = IF u \in W THEN "put"
                        ELSE IF pc[u] = "getwait" THEN "swap" ELSE pc[u]
  <1>1. pc \in [Threads -> Places]
    BY Zenon DEF TypeOK
  <1>2. \A u, v \in GetWaiters : u = v
    BY Zenon DEF GetExclusion, GetWaiters
  <1>3. PcWith(t, "idle", W) \in [Threads -> Places]
    BY <1>1, Zenon DEF PcWith, Places
  <1>4. CASE GetWaiters = {} /\ pc' = PcWith(t, "idle", W)
    BY <1>1, <1>3, <1>4, Zenon DEF PcWith, GetWaiters
  <1>5. CASE \E g \in GetWaiters : pc' = [PcWith(t, "idle", W) EXCEPT ![g] = "swap"]
    <2>1. PICK g \in GetWaiters : pc' = [PcWith(t, "idle", W) EXCEPT ![g] = "swap"]
      BY <1>5, Zenon
    <2>2. g \in Threads /\ g # t /\ g \notin W /\ pc[g] = "getwait"
      BY <1>1, Zenon DEF GetWaiters, PutWaiters
    <2>3. \A u \in Threads : pc[u] = "getwait" => u = g
      BY <1>2, <2>2, Zenon DEF GetWaiters
    <2>4. pc' \in [Threads -> Places]
      BY <1>3, <2>1, <2>2, Zenon DEF Places
    <2>5. \A u \in Threads : pc'[u] = IF u = g THEN "swap" ELSE PcWith(t, "idle", W)[u]
      BY <1>3, <2>1, <2>2, Zenon
    <2> QED
      BY <2>2, <2>3, <2>4, <2>5, Zenon DEF PcWith
  <1> QED
    BY <1>4, <1>5, Zenon DEF SignalGet

\* A step that only signals: the signal of msgqueue_put, with W empty, and the
\* critical section of msgqueue_set_nonblock, with all sleeping putters.
LEMMA SignalInv ==
  ASSUME Inv, NEW t \in Threads, NEW W \in SUBSET PutWaiters,
         pc[t] \in {"signal", "notify"}, pc[t] = "notify" => W = PutWaiters,
         SignalGet(t, W),
         UNCHANGED <<listVars, nonblock, get_mutex, msg, saved, ret, alive>>
  PROVE  Inv'
  <1> USE DEF Inv
  <1>1. /\ pc' \in [Threads -> Places]
        /\ pc'[t] = "idle"
        /\ \A u \in Threads \ {t} :
              pc'[u] = IF u \in W THEN "put"
                       ELSE IF pc[u] = "getwait" THEN "swap" ELSE pc[u]
    BY SignalGetEffect, Zenon
  <1>2. \A u \in W : u \in Threads /\ pc[u] = "putwait"
    BY Zenon DEF PutWaiters
  <1>3. UNCHANGED <<link, get_head, put_head, put_tail, msg_cnt, getq, putq,
                    nonblock, get_mutex, msg, saved, ret, alive>>
    BY Zenon DEF listVars
  <1>4. TypeOK'
    BY <1>1, <1>3, Zenon DEF TypeOK
  <1>5. GetExclusion'
    BY <1>1, <1>2, <1>3, Zenon DEF GetExclusion
  <1>6. ListInv'
    <2>1. get_mutex \in Threads \union {NULL}
      BY Zenon DEF TypeOK, Threads
    <2>2. get_mutex # NULL => get_mutex # t /\ get_mutex \notin W
      BY <2>1, <1>2, Zenon DEF GetExclusion
    <2>3. get_mutex # NULL => (Swapping(get_mutex)' <=> Swapping(get_mutex))
      BY <1>1, <1>3, <2>1, <2>2, Zenon DEF Swapping
    <2>4. get_mutex # NULL => (pc'[get_mutex] = "take" => pc[get_mutex] = "take")
      BY <1>1, <1>3, <2>1, <2>2, Zenon
    <2> QED
      BY <2>3, <2>4, ListFrame, Zenon
  <1>7. PutterOwns'
    <2>1. \A u \in Threads : pc'[u] \in {"put", "putwait"} <=> pc[u] \in {"put", "putwait"}
      BY <1>1, <1>2, Zenon
    <2> QED
      BY <1>3, <2>1 DEF PutterOwns
  <1>8. NoLostWakeup'
    <2>1. \A u \in Threads : pc'[u] # "getwait"
      BY <1>1, Zenon
    <2>2. ASSUME NEW u \in Threads, pc'[u] = "putwait" PROVE pc[u] = "putwait" /\ pc[t] = "signal"
      BY <2>2, <1>1, <1>2, Zenon DEF PutWaiters
    <2>3. \A u \in Threads : pc[u] = "notify" /\ pc[t] = "signal" => pc'[u] = "notify"
      BY <1>1, <1>2, Zenon
    <2>4. Full' <=> Full
      BY <1>3, Zenon DEF Full, Limit
    <2> QED
      BY <1>3, <2>1, <2>2, <2>3, <2>4, Zenon DEF NoLostWakeup
  <1> QED
    BY <1>4, <1>5, <1>6, <1>7, <1>8, Zenon

\* msgqueue_put signals a getter after it has unlocked put_mutex.
LEMMA PutSignalInv == ASSUME Inv, NEW t \in Putters, PutSignal(t) PROVE Inv'
  <1>1. t \in Threads /\ {} \in SUBSET PutWaiters
    BY Zenon DEF Threads
  <1>2. pc[t] = "signal" /\ SignalGet(t, {})
    BY Zenon DEF PutSignal
  <1>3. UNCHANGED <<listVars, nonblock, get_mutex, msg, saved, ret, alive>>
    BY Zenon DEF PutSignal
  <1> QED
    BY <1>1, <1>2, <1>3, SignalInv, Zenon

\* msgqueue_set_nonblock wakes the waiting threads.
LEMMA SetNonblockNotifyInv ==
  ASSUME Inv, NEW t \in Controllers, SetNonblockNotify(t) PROVE Inv'
  <1>1. t \in Threads /\ PutWaiters \in SUBSET PutWaiters
    BY Zenon DEF Threads
  <1>2. pc[t] = "notify" /\ SignalGet(t, PutWaiters)
    BY Zenon DEF SetNonblockNotify, Notified
  <1>3. UNCHANGED <<listVars, nonblock, get_mutex, msg, saved, ret, alive>>
    BY Zenon DEF SetNonblockNotify
  <1> QED
    BY <1>1, <1>2, <1>3, SignalInv, Zenon

\* The mode is set before the threads asleep are notified.
LEMMA SetNonblockInv == ASSUME Inv, NEW t \in Controllers, SetNonblock(t) PROVE Inv'
  <1> USE DEF SetNonblock, Inv
  <1>0. t \in Threads /\ get_mutex \in Threads \union {NULL} /\ pc \in [Threads -> Places]
    BY Zenon DEF TypeOK, Threads
  <1>1. TypeOK'
    BY <1>0, Zenon DEF TypeOK, Places, listVars
  <1>2. GetExclusion'
    BY <1>0, Zenon DEF GetExclusion
  <1>3. ListInv'
    BY <1>0, ListFrame, Zenon DEF Swapping
  <1>4. PutterOwns'
    BY <1>0, Zenon DEF PutterOwns, listVars
  <1>5. NoLostWakeup'
    BY <1>0, Zenon DEF NoLostWakeup, listVars, Full, Limit
  <1> QED
    BY <1>1, <1>2, <1>3, <1>4, <1>5, Zenon

\* msgqueue_set_block clears the flag.
LEMMA SetBlockInv == ASSUME Inv, NEW t \in Controllers, SetBlock(t) PROVE Inv'
  <1> USE DEF SetBlock, Inv
  <1>1. TypeOK'
    BY Zenon DEF TypeOK, listVars
  <1>2. GetExclusion'
    BY Zenon DEF GetExclusion
  <1>3. ListInv'
    BY ListFrame, Zenon DEF Swapping
  <1>4. PutterOwns'
    BY Zenon DEF PutterOwns, listVars
  <1>5. NoLostWakeup'
    BY DEF NoLostWakeup, listVars, Full, Limit
  <1> QED
    BY <1>1, <1>2, <1>3, <1>4, <1>5, Zenon

\* msgqueue_destroy ends the life of the queue.
LEMMA DestroyInv == ASSUME Inv, Destroy PROVE Inv'
  <1> USE DEF Destroy, Inv
  <1>1. TypeOK'
    BY Zenon DEF TypeOK, listVars
  <1>2. GetExclusion'
    BY Zenon DEF GetExclusion
  <1>3. ListInv'
    BY ListFrame, Zenon DEF Swapping
  <1>4. PutterOwns'
    BY Zenon DEF PutterOwns, listVars
  <1>5. NoLostWakeup'
    BY Zenon DEF NoLostWakeup, listVars, Full, Limit
  <1> QED
    BY <1>1, <1>2, <1>3, <1>4, <1>5, Zenon

\* A getter locks get_mutex and finds the get list non-empty.
LEMMA GetLockInv == ASSUME Inv, NEW t \in Getters, GetLock(t) PROVE Inv'
  <1> USE DEF Inv
  <1>1. /\ pc[t] = "idle" /\ pc' = [pc EXCEPT ![t] = "take"]
        /\ get_mutex = NULL /\ get_mutex' = t /\ link[get_head] # NULL
        /\ UNCHANGED <<link, get_head, put_head, put_tail, msg_cnt, getq, putq,
                       nonblock, msg, saved, ret, alive>>
    BY Zenon DEF GetLock, GetMutexFree, listVars
  <1>2. t \in Threads /\ t # NULL /\ pc \in [Threads -> Places]
    BY MsgQueueAssumption, Zenon DEF TypeOK, Threads
  <1>3. TypeOK'
    BY <1>1, <1>2, Zenon DEF TypeOK, Places
  <1>4. GetExclusion'
    BY <1>1, <1>2, MsgQueueAssumption, Zenon DEF GetExclusion
  <1>5. ListInv'
    <2>1. ~ Swapping(t)' /\ getq # <<>>
      BY <1>1, <1>2, Zenon DEF Swapping, ListInv, Path
    <2>2. Path(put_head, putq)' /\ Path(get_head, getq)'
      BY <1>1, Zenon DEF ListInv, Path
    <2> QED
      BY <1>1, <2>1, <2>2, Zenon DEF ListInv
  <1>6. PutterOwns'
    BY <1>1, <1>2, Zenon DEF PutterOwns
  <1>7. NoLostWakeup'
    BY <1>1, <1>2, Zenon DEF NoLostWakeup, Full, Limit
  <1> QED
    BY <1>3, <1>4, <1>5, <1>6, <1>7, Zenon

\* A getter locks get_mutex, finds the get list empty and redirects get_head.
LEMMA GetLockSwapInv == ASSUME Inv, NEW t \in Getters, GetLockSwap(t) PROVE Inv'
  <1> USE DEF Inv
  <1>1. /\ pc[t] = "idle" /\ pc' = [pc EXCEPT ![t] = "swap"]
        /\ get_mutex = NULL /\ get_mutex' = t /\ link[get_head] = NULL
        /\ saved' = [saved EXCEPT ![t] = get_head]
        /\ get_head' = put_head
        /\ UNCHANGED <<link, put_head, put_tail, msg_cnt, getq, putq,
                       nonblock, msg, ret, alive>>
    BY Zenon DEF GetLockSwap, GetMutexFree
  <1>2. /\ t \in Threads /\ t # NULL /\ pc \in [Threads -> Places]
        /\ saved \in [Threads -> Heads \union {NULL}] /\ get_head \in Heads
        /\ getq \in Seq(Msgs)
    BY MsgQueueAssumption, Zenon DEF TypeOK, Threads
  <1>3. TypeOK'
    BY <1>1, <1>2, Zenon DEF TypeOK, Places
  <1>4. GetExclusion'
    BY <1>1, <1>2, MsgQueueAssumption, Zenon DEF GetExclusion
  <1>5. ListInv'
    <2>1. Swapping(t)' /\ saved'[t] = get_head /\ pc'[t] = "swap"
      BY <1>1, <1>2, Zenon DEF Swapping
    <2>2. get_head # put_head /\ getq = <<>>
      <3>1. get_head # put_head /\ Path(get_head, getq)
        BY <1>1, Zenon DEF ListInv
      <3>2. getq # <<>> => getq[1] \in Msgs
        BY <1>2, EmptySeq
      <3> QED
        BY <3>1, <3>2, <1>1, MsgQueueAssumption, Zenon DEF Path, Cells
    <2>3. Path(put_head, putq)'
      BY <1>1, Zenon DEF ListInv, Path
    <2> QED
      BY <1>1, <1>2, <2>1, <2>2, <2>3, Zenon DEF ListInv
  <1>6. PutterOwns'
    BY <1>1, <1>2, Zenon DEF PutterOwns
  <1>7. NoLostWakeup'
    BY <1>1, <1>2, Zenon DEF NoLostWakeup, Full, Limit
  <1> QED
    BY <1>3, <1>4, <1>5, <1>6, <1>7, Zenon

\* A getter goes to sleep: there is no message and the mode is blocking.
LEMMA SwapWaitInv == ASSUME Inv, NEW t \in Getters, SwapWait(t) PROVE Inv'
  <1> USE DEF SwapWait, Inv
  <1>0. t \in Threads /\ get_mutex \in Threads \union {NULL} /\ pc \in [Threads -> Places]
    BY Zenon DEF TypeOK, Threads
  <1>1. TypeOK'
    BY <1>0, Zenon DEF TypeOK, Places, listVars
  <1>2. GetExclusion'
    BY <1>0, Zenon DEF GetExclusion
  <1>3. ListInv'
    BY <1>0, ListFrame, Zenon DEF Swapping
  <1>4. PutterOwns'
    BY <1>0, Zenon DEF PutterOwns, listVars
  <1>5. NoLostWakeup'
    BY <1>0 DEF NoLostWakeup, listVars, Full, Limit, NothingYet
  <1> QED
    BY <1>1, <1>2, <1>3, <1>4, <1>5, Zenon

\* The lists change places; putters asleep on a full list are woken.
LEMMA SwapInv == ASSUME Inv, NEW t \in Getters, Swap(t) PROVE Inv'
  <1> USE DEF Inv
  <1> DEFINE place == IF msg_cnt > 0 THEN "take" ELSE "null"
  <1>1. /\ pc[t] = "swap" /\ ~ NothingYet /\ pc' = PcWith(t, place, Released)
        /\ put_head' = saved[t] /\ put_tail' = saved[t]
        /\ msg_cnt' = 0 /\ getq' = putq /\ putq' = <<>>
        /\ saved' = [saved EXCEPT ![t] = NULL]
        /\ UNCHANGED <<link, get_head, nonblock, get_mutex, msg, ret, alive>>
    BY Zenon DEF Swap, PutTailReset
  <1>2. /\ t \in Threads /\ t # NULL /\ pc \in [Threads -> Places]
        /\ saved \in [Threads -> Heads \union {NULL}] /\ get_head \in Heads
        /\ putq \in Seq(Msgs) /\ msg_cnt \in Nat
    BY MsgQueueAssumption, Zenon DEF TypeOK, Threads
  <1>3. get_mutex = t /\ Swapping(get_mutex)
    BY <1>1, <1>2, Zenon DEF GetExclusion, Swapping
  <1>4. /\ Path(put_head, putq) /\ get_head = put_head /\ saved[t] \in Heads \ {put_head}
        /\ link[saved[t]] = NULL
        /\ msg_cnt = Len(putq)
        /\ IsInjective(putq)
    BY <1>2, <1>3, Zenon DEF ListInv
  <1>5. Released \subseteq PutWaiters /\ t \notin Released
    BY <1>1, Zenon DEF Released, PutWaiters
  <1>6. /\ pc' \in [Threads -> Places]
        /\ pc'[t] = place
        /\ \A u \in Threads \ {t} : pc'[u] = IF u \in Released THEN "put" ELSE pc[u]
    BY <1>1, <1>2, <1>5, Zenon DEF PcWith, Places
  <1>7. \A u \in Released : pc[u] = "putwait"
    BY <1>5, Zenon DEF PutWaiters
  <1>8. TypeOK'
    <2>1. saved[t] \in Heads /\ saved[t] \in Cells /\ <<>> \in Seq(Msgs)
      BY <1>4 DEF Cells
    <2>2. pc' \in [Threads -> Places] /\ saved' \in [Threads -> Heads \union {NULL}]
      BY <1>1, <1>2, <1>6, Zenon
    <2> QED
      BY <1>1, <1>2, <2>1, <2>2, Zenon DEF TypeOK
  <1>9. GetExclusion'
    BY <1>1, <1>3, <1>6, <1>7 DEF GetExclusion
  <1>10. ListInv'
    <2>1. Len(<<>>) = 0 /\ 1 .. 0 = {} /\ DOMAIN <<>> = {}
      OBVIOUS
    <2>2. Path(put_head, putq)'
      BY <1>1, <1>4, <2>1, Zenon DEF Path
    <2>3. Path(get_head, getq)'
      BY <1>1, <1>4, Zenon DEF Path
    <2>4. IsInjective(putq)' /\ Range(putq)' = {}
      BY <1>1, <2>1, Zenon DEF IsInjective, Range
    <2>5. ~ Swapping(get_mutex)'
      BY <1>1, <1>3, <1>6, Zenon DEF Swapping
    <2>6. pc'[t] = "take" => getq' # <<>>
      BY <1>1, <1>2, <1>4, <1>6, <2>1
    <2>7. IsInjective(getq)'
      BY <1>1, <1>4, Zenon
    <2> QED
      BY <1>1, <1>3, <1>4, <2>1, <2>2, <2>3, <2>4, <2>5, <2>6, <2>7, Zenon DEF ListInv
  <1>11. PutterOwns'
    <2>1. \A u \in Threads : pc'[u] \in {"put", "putwait"} <=> pc[u] \in {"put", "putwait"}
      BY <1>1, <1>6, <1>7, Zenon
    <2>2. Range(getq)' \union Range(putq)' = Range(getq) \union Range(putq)
      <3>1. getq = <<>>
        BY <1>2, <1>3, Zenon DEF ListInv
      <3>2. Range(<<>>) = {}
        BY DEF Range
      <3> QED
        BY <3>1, <3>2, <1>1, Zenon
    <2> QED
      BY <1>1, <2>1, <2>2, Zenon DEF PutterOwns
  <1>12. NoLostWakeup'
    <2>1. \A u \in Threads : pc'[u] # "getwait"
      BY <1>1, <1>3, <1>6, Zenon DEF GetExclusion
    <2>2. \A u \in Threads : pc'[u] # "putwait"
      BY <1>1, <1>6, Zenon DEF NoLostWakeup, Released, PutWaiters
    <2> QED
      BY <2>1, <2>2, Zenon DEF NoLostWakeup
  <1> QED
    BY <1>8, <1>9, <1>10, <1>11, <1>12, Zenon

\* A getter unlinks the first message of the get list.
LEMMA GetTakeInv == ASSUME Inv, NEW t \in Getters, GetTake(t) PROVE Inv'
  <1> USE DEF Inv
  <1>1. /\ pc[t] = "take" /\ pc' = [pc EXCEPT ![t] = "idle"]
        /\ ret' = link[get_head]
        /\ link' = [link EXCEPT ![get_head] = link[link[get_head]]]
        /\ getq' = Tail(getq)
        /\ get_mutex' = NULL
        /\ UNCHANGED <<get_head, put_head, put_tail, msg_cnt, putq, nonblock, msg, saved, alive>>
    BY Zenon DEF GetTake, AfterFirst
  <1>2. /\ t \in Threads /\ t # NULL /\ pc \in [Threads -> Places]
        /\ link \in Links /\ get_head \in Heads /\ put_head \in Heads
        /\ getq \in Seq(Msgs) /\ putq \in Seq(Msgs)
        /\ msg \in [Threads -> Msgs \union {NULL}]
    BY MsgQueueAssumption, Zenon DEF TypeOK, Threads, Links
  <1>3. get_mutex = t /\ ~ Swapping(get_mutex)
    BY <1>1, <1>2, Zenon DEF GetExclusion, Swapping
  <1>4. /\ get_head # put_head /\ getq # <<>>
        /\ PathOf(link, get_head, getq) /\ PathOf(link, put_head, putq)
        /\ IsInjective(getq) /\ IsInjective(putq)
        /\ Range(getq) \intersect Range(putq) = {}
    BY <1>1, <1>2, <1>3, Zenon DEF ListInv, Path, PathOf
  <1>5. Len(getq) >= 1
    BY <1>2, <1>4, EmptySeq
  <1>6. link[get_head] = getq[1] /\ getq[1] \in Msgs /\ PathOf(link', get_head, getq')
    <2>1. /\ link[get_head] = getq[1]
          /\ PathOf([link EXCEPT ![get_head] = link[link[get_head]]], get_head, Tail(getq))
      BY <1>2, <1>4, PathTail, Zenon
    <2>2. getq[1] \in Msgs
      BY <1>2, <1>5
    <2> QED
      BY <1>1, <2>1, <2>2, Zenon
  <1>7. /\ getq' \in Seq(Msgs) /\ IsInjective(getq)'
        /\ Range(getq)' \subseteq Range(getq)
    BY <1>1, <1>2, <1>4, <1>5, InjectiveTail, RangeTail
  <1>8. get_head \notin Msgs /\ get_head \in Cells /\ getq[1] \in Cells /\ get_head \notin Range(putq)
    BY <1>2, <1>6, RangeOfSeq, MsgQueueAssumption, Zenon DEF Cells
  <1>9. TypeOK'
    <2>1. link[getq[1]] \in Msgs \union {NULL} /\ link' \in [Cells -> Msgs \union {NULL}]
      BY <1>1, <1>2, <1>6, <1>8, Zenon DEF Links
    <2> QED
      BY <1>1, <1>2, <1>6, <1>7, <2>1, Zenon DEF TypeOK, Places
  <1>10. GetExclusion'
    BY <1>1, <1>2, <1>3, MsgQueueAssumption, Zenon DEF GetExclusion
  <1>11. ListInv'
    <2>1. Path(get_head, getq)'
      BY <1>1, <1>6, Zenon DEF Path, PathOf
    <2>2. PathOf(link', put_head, putq)
      BY <1>1, <1>2, <1>4, <1>8, PathFrame, Zenon
    <2>3. Path(put_head, putq)'
      BY <1>1, <2>2, Zenon DEF Path, PathOf
    <2>4. Range(getq)' \intersect Range(putq)' = {} /\ IsInjective(putq)'
      BY <1>1, <1>4, <1>7, Zenon
    <2> QED
      BY <1>1, <1>4, <1>7, <2>1, <2>3, <2>4, Zenon DEF ListInv
  <1>12. PutterOwns'
    <2>1. \A u \in Threads : msg[u] # NULL => link'[msg[u]] = link[msg[u]]
      BY <1>1, <1>2, <1>8, Zenon DEF Links, Cells
    <2>2. \A u \in Threads : pc'[u] \in {"put", "putwait"} <=> pc[u] \in {"put", "putwait"}
      BY <1>1, <1>2, Zenon
    <2> QED
      BY <1>1, <1>7, <2>1, <2>2 DEF PutterOwns
  <1>13. NoLostWakeup'
    BY <1>1, <1>2, Zenon DEF NoLostWakeup, Full, Limit
  <1> QED
    BY <1>9, <1>10, <1>11, <1>12, <1>13, Zenon

\* msgqueue_get returns NULL from a queue in nonblocking mode.
LEMMA GetNullInv == ASSUME Inv, NEW t \in Getters, GetNull(t) PROVE Inv'
  <1> USE DEF Inv
  <1>1. /\ pc[t] = "null" /\ pc' = [pc EXCEPT ![t] = "idle"]
        /\ get_mutex' = NULL
        /\ UNCHANGED <<link, get_head, put_head, put_tail, msg_cnt, getq, putq,
                       nonblock, msg, saved, ret, alive>>
    BY Zenon DEF GetNull, listVars
  <1>2. t \in Threads /\ t # NULL /\ pc \in [Threads -> Places]
    BY MsgQueueAssumption, Zenon DEF TypeOK, Threads
  <1>3. get_mutex = t /\ ~ Swapping(get_mutex)
    BY <1>1, <1>2, Zenon DEF GetExclusion, Swapping
  <1>4. TypeOK'
    BY <1>1, <1>2, Zenon DEF TypeOK, Places
  <1>5. GetExclusion'
    BY <1>1, <1>2, <1>3, MsgQueueAssumption, Zenon DEF GetExclusion
  <1>6. ListInv'
    <2>1. Path(put_head, putq)' /\ Path(get_head, getq)'
      BY <1>1, <1>3, <1>2, Zenon DEF ListInv, Path
    <2> QED
      BY <1>1, <1>2, <1>3, <2>1, Zenon DEF ListInv
  <1>7. PutterOwns'
    BY <1>1, <1>2, Zenon DEF PutterOwns
  <1>8. NoLostWakeup'
    BY <1>1, <1>2, Zenon DEF NoLostWakeup, Full, Limit
  <1> QED
    BY <1>4, <1>5, <1>6, <1>7, <1>8, Zenon

\* Every step of every thread keeps the invariant.
LEMMA NextInv == Inv /\ [Next]_vars => Inv'
  <1> SUFFICES ASSUME Inv, [Next]_vars PROVE Inv'
    BY Zenon
  <1>1. ASSUME NEW t \in Putters, NEW m \in Free, PutClear(t, m) PROVE Inv'
    BY <1>1, PutClearInv, Zenon
  <1>2. ASSUME NEW t \in Putters, Put(t) PROVE Inv'
    BY <1>2, PutWaitInv, PutAppendInv, PutSignalInv, Zenon DEF Put
  <1>3. ASSUME NEW t \in Getters, CallGet(t) \/ Get(t) PROVE Inv'
    BY <1>3, GetLockInv, GetLockSwapInv, SwapWaitInv, SwapInv, GetTakeInv, GetNullInv, Zenon
       DEF CallGet, Get
  <1>4. ASSUME NEW t \in Controllers, Control(t) PROVE Inv'
    BY <1>4, SetNonblockInv, SetNonblockNotifyInv, SetBlockInv, Zenon DEF Control
  <1>5. ASSUME NEW t \in Threads, SpuriousWakeup(t) PROVE Inv'
    BY <1>5, SpuriousWakeupInv, Zenon
  <1>6. CASE Destroy
    BY <1>6, DestroyInv, Zenon
  <1>7. CASE UNCHANGED vars
    <2> USE <1>7 DEF vars, listVars, Inv
    <2>1. TypeOK'
      BY Zenon DEF TypeOK
    <2>2. GetExclusion'
      BY Zenon DEF GetExclusion
    <2>3. ListInv'
      BY ListFrame, Zenon DEF Swapping
    <2>4. PutterOwns'
      BY Zenon DEF PutterOwns
    <2>5. NoLostWakeup'
      BY Zenon DEF NoLostWakeup, Full, Limit
    <2> QED
      BY <2>1, <2>2, <2>3, <2>4, <2>5, Zenon
  <1> QED
    BY <1>1, <1>2, <1>3, <1>4, <1>5, <1>6, <1>7, Zenon DEF Next

\* The inductive invariant holds in every reachable state of the queue.
THEOREM Invariance == Spec => []Inv
  <1> QED
    BY InitInv, NextInv, PTL DEF Spec

\* Every variable keeps its type; in particular put_tail always points into a
\* message or a head, and msgqueue_get returns a message.
THEOREM TypeCorrect == Spec => []TypeOK
  <1>1. Inv => TypeOK
    BY Zenon DEF Inv
  <1> QED
    BY Invariance, <1>1, PTL

\* Getters exclude each other, the one asleep in __msgqueue_swap included.
THEOREM GetExclusionThm == Spec => []GetExclusion
  <1>1. Inv => GetExclusion
    BY Zenon DEF Inv
  <1> QED
    BY Invariance, <1>1, PTL

\* The two linked lists are disjoint, complete and counted by msg_cnt.
THEOREM ListsAreWellFormed == Spec => []ListInv
  <1>1. Inv => ListInv
    BY Zenon DEF Inv
  <1> QED
    BY Invariance, <1>1, PTL

\* No thread sleeps in the queue while what it waits for is there and nobody is
\* about to wake it.
THEOREM NoLostWakeupThm == Spec => []NoLostWakeup
  <1>1. Inv => NoLostWakeup
    BY Zenon DEF Inv
  <1> QED
    BY Invariance, <1>1, PTL

\* msgqueue_get returns NULL only in nonblocking mode with both lists empty.
THEOREM HonestNullThm == Spec => HonestNull
  <1>1. ASSUME Inv, NEW t \in Getters, Swap(t), pc'[t] = "null"
        PROVE  nonblock = 1 /\ queue = <<>>
    <2> USE <1>1 DEF Inv
    <2>1. t \in Threads /\ t # NULL /\ pc[t] = "swap" /\ ~ NothingYet
      BY MsgQueueAssumption, Zenon DEF Swap, Threads
    <2>2. pc'[t] = IF msg_cnt > 0 THEN "take" ELSE "null"
      BY <2>1, Zenon DEF Swap, PcWith
    <2>3. msg_cnt = 0 /\ nonblock = 1
      BY <2>1, <2>2 DEF TypeOK, NothingYet
    <2>4. get_mutex = t /\ Swapping(get_mutex)
      BY <2>1, Zenon DEF GetExclusion, Swapping
    <2>5. getq = <<>> /\ Len(putq) = 0 /\ putq \in Seq(Msgs)
      BY <2>1, <2>3, <2>4, Zenon DEF ListInv, TypeOK
    <2>6. putq = <<>>
      BY <2>5, EmptySeq, Zenon
    <2> QED
      BY <2>3, <2>5, <2>6 DEF queue
  <1>2. Inv => [\A t \in Getters : Swap(t) /\ pc'[t] = "null" => nonblock = 1 /\ queue = <<>>]_vars
    BY <1>1, Zenon
  <1> QED
    BY Invariance, <1>2, PTL DEF HonestNull

\* The queue implements a FIFO queue of messages: the append puts, the unlink
\* takes, and no other step, the swap included, changes the queue.
THEOREM ImplementsFifo == Spec => RefinesFifo
  <1>1. Init => Fifo!FifoInit
    BY DEF Init, Fifo!FifoInit, queue
  <1>2. ASSUME Inv, [Next]_vars PROVE [Fifo!FifoNext]_(Fifo!fifoVars)
    <2> USE <1>2
    <2>1. getq \in Seq(Msgs) /\ putq \in Seq(Msgs)
      BY Zenon DEF Inv, TypeOK
    <2>2. CASE UNCHANGED <<getq, putq, ret>>
      BY <2>2, Zenon DEF Fifo!fifoVars, queue
    <2>3. ASSUME NEW t \in Putters, PutAppend(t) PROVE \E m \in Msgs : Fifo!Put(m)
      <3>1. msg[t] \in Msgs
        BY <2>3, Zenon DEF PutAppend, Inv, PutterOwns, TypeOK, Threads
      <3>2. queue' = Append(queue, msg[t])
        BY <2>1, <2>3, <3>1, ConcatAppend DEF PutAppend, queue
      <3>3. ret' = ret
        BY <2>3, Zenon DEF PutAppend
      <3> QED
        BY <3>1, <3>2, <3>3, Zenon DEF Fifo!Put
    <2>4. ASSUME NEW t \in Getters, GetTake(t) PROVE Fifo!Get
      <3>1. t \in Threads /\ t # NULL /\ pc[t] = "take"
        BY <2>4, MsgQueueAssumption, Zenon DEF GetTake, Threads
      <3>2. get_mutex = t /\ ~ Swapping(get_mutex)
        BY <3>1, Zenon DEF Inv, GetExclusion, Swapping
      <3>3. getq # <<>> /\ Path(get_head, getq)
        BY <3>1, <3>2, Zenon DEF Inv, ListInv
      <3>4. Len(getq) >= 1
        BY <2>1, <3>3, EmptySeq
      <3>5. ret' = getq[1]
        BY <2>4, <3>3, Zenon DEF GetTake, Path
      <3>6. queue' = Tail(getq) \o putq
        BY <2>4, Zenon DEF GetTake, queue
      <3> QED
        BY <2>1, <3>4, <3>5, <3>6, ConcatTail, Zenon DEF Fifo!Get, queue
    <2>5. ASSUME NEW t \in Getters, Swap(t) PROVE UNCHANGED <<queue, ret>>
      <3>1. t \in Threads /\ t # NULL /\ pc[t] = "swap"
        BY <2>5, MsgQueueAssumption, Zenon DEF Swap, Threads
      <3>2. get_mutex = t /\ Swapping(get_mutex)
        BY <3>1, Zenon DEF Inv, GetExclusion, Swapping
      <3>3. getq = <<>>
        BY <3>1, <3>2, Zenon DEF Inv, ListInv
      <3>4. getq' = putq /\ putq' = <<>> /\ ret' = ret
        BY <2>5, Zenon DEF Swap
      <3> QED
        BY <2>1, <3>3, <3>4, ConcatEmptySeq, Zenon DEF queue
    <2>6. ASSUME NEW t \in Putters, PutWait(t) \/ PutSignal(t) PROVE UNCHANGED <<getq, putq, ret>>
      BY <2>6, Zenon DEF PutWait, PutSignal, listVars
    <2>7. ASSUME NEW t \in Getters, CallGet(t) \/ SwapWait(t) \/ GetNull(t)
          PROVE  UNCHANGED <<getq, putq, ret>>
      BY <2>7, Zenon DEF CallGet, GetLock, GetLockSwap, SwapWait, GetNull, listVars
    <2>8. ASSUME NEW t \in Controllers, Control(t) PROVE UNCHANGED <<getq, putq, ret>>
      BY <2>8, Zenon DEF Control, SetNonblock, SetNonblockNotify, SetBlock, listVars
    <2>9. ASSUME NEW t \in Putters, NEW m \in Free, PutClear(t, m)
          PROVE  UNCHANGED <<getq, putq, ret>>
      BY <2>9, Zenon DEF PutClear
    <2>10. ASSUME NEW t \in Threads, SpuriousWakeup(t) PROVE UNCHANGED <<getq, putq, ret>>
      BY <2>10, Zenon DEF SpuriousWakeup, listVars
    <2>11. Destroy \/ UNCHANGED vars => UNCHANGED <<getq, putq, ret>>
      BY Zenon DEF Destroy, vars, listVars
    <2> QED
      BY <2>2, <2>3, <2>4, <2>5, <2>6, <2>7, <2>8, <2>9, <2>10, <2>11, Zenon
         DEF Next, Put, Get, Fifo!FifoNext, Fifo!fifoVars
  <1> QED
    BY <1>1, <1>2, Invariance, PTL DEF Spec, RefinesFifo, Fifo!FifoSpec
=============================================================================
