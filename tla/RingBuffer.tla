------------------------------ MODULE RingBuffer ------------------------------
(***************************************************************************)
(* Network_Buffer_Design/RingBuffer/ringbuffer.c: a byte queue in an array *)
(* whose size is a power of two, with free-running unsigned counters head  *)
(* and tail that are reduced modulo the size on access and that wrap.      *)
(***************************************************************************)
EXTENDS Integers, Sequences

CONSTANTS Bytes,       \* the contents of the data
          Sizes,       \* the arguments of buffer_new
          Modulus,     \* 2^32: the range of uint32_t
          MaxAdd       \* bound on the length of one buffer_add

Junk == -1             \* a byte outside the array or never written

VARIABLES size, head, tail, buf,
          bytes,       \* history: what was added and not yet removed
          ret,         \* what the last call gave its caller
          aborted      \* free() was given a pointer malloc had not returned

vars == <<size, head, tail, buf, bytes, ret, aborted>>

\* Bounded sequences of bytes.
Data(n) == UNION {[1 .. m -> Bytes] : m \in 0 .. n}

PowersOfTwo == {n \in 2 .. Modulus - 1 : \E i \in 1 .. n : 2 ^ i = n}
is_pow_of_two(x) == x \in PowersOfTwo

\* The shift at the end is 1u << 1, whatever x.
roundup_pow_of_two(x) == 2

NewSize(sz) == IF is_pow_of_two(sz) THEN sz ELSE roundup_pow_of_two(sz)

\* buffer_new
Init ==
    \E sz \in Sizes :
        /\ size = NewSize(sz)
        /\ head = 0 /\ tail = 0
        /\ buf = [i \in 0 .. NewSize(sz) - 1 |-> Junk]
        /\ bytes = <<>>
        /\ ret = [call |-> "buffer_new"]
        /\ aborted = FALSE

buffer_len == (tail - head) % Modulus
buf_remain == size - buffer_len
At(c) == c % size                        \* c & (r->size - 1)
Lesser(a, b) == IF a <= b THEN a ELSE b

\* memcpy within the array, and from it: d bytes at the counter c, the rest of n
\* bytes at the start.
Filled(data, d) ==
    [i \in DOMAIN buf |->
        IF At(tail) <= i /\ i < At(tail) + d THEN data[i - At(tail) + 1]
        ELSE IF i < Len(data) - d THEN data[d + i + 1]
        ELSE buf[i]]
Byte(i) == IF i \in DOMAIN buf THEN buf[i] ELSE Junk
Copied(c, d, n) ==
    [i \in 1 .. n |-> IF i <= d THEN Byte(At(c) + i - 1) ELSE Byte(i - 1 - d)]

\* A buffer_add that returns -1 changes nothing.
NoSplit(sz) == sz
ToEnd(sz) == Lesser(sz, size - At(tail))

Fits(sz) == sz <= buf_remain

buffer_add(data) ==
    /\ ~aborted
    /\ Fits(Len(data))
    /\ buf' = Filled(data, ToEnd(Len(data)))
    /\ tail' = (tail + Len(data)) % Modulus
    /\ bytes' = bytes \o data
    /\ ret' = [call |-> "buffer_add"]
    /\ UNCHANGED <<size, head, aborted>>

\* buffer_remove splits the copy where the tail, not the head, meets the end.
buffer_remove(sz) ==
    LET n == Lesser(sz, buffer_len)
    IN  /\ ~aborted
        /\ head # tail                    \* assert(!buf_isEmpty(r))
        /\ ret' = [call |-> "buffer_remove", data |-> Copied(head, Lesser(n, size - At(tail)), n),
                   oldest |-> SubSeq(bytes, 1, n),
                   split |-> At(head) = At(tail),
                   whole |-> At(head) + n <= size /\ n <= size - At(tail)]
        /\ head' = (head + n) % Modulus
        /\ bytes' = SubSeq(bytes, n + 1, Len(bytes))
        /\ UNCHANGED <<size, tail, buf, aborted>>

Capped(sz) == Lesser(sz, buffer_len)

buffer_delete(sz) ==
    /\ ~aborted
    /\ head' = (head + Capped(sz)) % Modulus
    /\ bytes' = SubSeq(bytes, Lesser(sz, Len(bytes)) + 1, Len(bytes))
    /\ ret' = [call |-> "buffer_delete"]
    /\ UNCHANGED <<size, tail, buf, aborted>>

\* buffer_search: the comparison i <= buffer_len - len is unsigned; a mismatch before
\* the end of the array returns at once; a mismatch after it leads to a comparison with
\* what lies behind the array, which may or may not match.
Matches(pos, data, from, n) == \A k \in 0 .. n - 1 : Byte(pos + k) = data[from + k]
Wraps(i, data) == At(head + i) + Len(data) > size
FirstPart(i, data) == Matches(At(head + i), data, 1, size - At(head + i))
SecondPart(i, data) ==
    Matches(0, data, size - At(head + i) + 1, At(head + i) + Len(data) - size)
Last(data) == (buffer_len - Len(data)) % Modulus

\* What iteration i can return, and whether it can also go on to the next.
Returns(i, data) ==
    IF i > Last(data) \/ (Wraps(i, data) /\ ~FirstPart(i, data)) THEN {0}
    ELSE IF Wraps(i, data) \/ Matches(At(head + i), data, 1, Len(data)) THEN {i + Len(data)}
    ELSE {}
GoesOn(i, data) ==
    IF Wraps(i, data) THEN FirstPart(i, data) /\ ~SecondPart(i, data)
    ELSE ~Matches(At(head + i), data, 1, Len(data))

Results(data) ==
    UNION {Returns(i, data) :
        i \in {k \in 0 .. Last(data) + 1 : \A j \in 0 .. k - 1 : GoesOn(j, data)}}

buffer_search(data) ==
    /\ ~aborted
    /\ \E n \in Results(data) : ret' = [call |-> "buffer_search", data |-> data, found |-> n]
    /\ UNCHANGED <<size, head, tail, buf, bytes, aborted>>

\* buffer_write_atomost: it frees r->buf, the inside of the block buffer_new allocated.
buffer_write_atomost ==
    /\ ~aborted
    /\ aborted' = (At(tail) < At(head))
    /\ ret' = [call |-> "buffer_write_atomost", at |-> At(head)]
    /\ UNCHANGED <<size, head, tail, buf, bytes>>

Next ==
    \/ \E data \in Data(MaxAdd) : buffer_add(data)
    \/ \E sz \in 1 .. size + 1 : buffer_remove(sz)
    \/ \E sz \in 0 .. size + 1 : buffer_delete(sz)
    \/ \E data \in Data(2) \ {<<>>} : buffer_search(data)
    \/ buffer_write_atomost

Spec == Init /\ [][Next]_vars

-----------------------------------------------------------------------------
\* The size is a power of two, which the masks rely on, and the counters are never
\* further apart than it, wherever they have wrapped.
CountersOK ==
    /\ size \in PowersOfTwo
    /\ DOMAIN buf = 0 .. size - 1
    /\ {head, tail} \subseteq 0 .. Modulus - 1
    /\ buffer_len <= size

\* The array holds between head and tail exactly the bytes added and not yet removed
\* or deleted, in order, across the end of the array and of the counters.
HoldsTheBytes ==
    /\ bytes \in Seq(Bytes)
    /\ buffer_len = Len(bytes)
    /\ \A i \in 1 .. Len(bytes) : buf[At(head + i - 1)] = bytes[i]

\* buffer_remove splits its copy by the distance of the tail, not of the head, from the
\* end of the array.  It gives its caller the oldest bytes when the buffer is full, where
\* the two distances are one, and when the bytes lie in one piece and are no more than
\* the array has from the tail on.  In all other cases, also when bytes that lie in one
\* piece are more than that, the second part of the copy is taken from a wrong place.
RemoveGivesOldest ==
    ret.call = "buffer_remove" /\ (ret.whole \/ ret.split) => ret.data = ret.oldest

\* buffer_search gives the end of the first occurrence of the string, or 0 if there is
\* none, when the data lies in one piece and is no shorter than the string.  Of
\* a longer string the unsigned bound lets it look behind the tail.
Ends(data) == {i \in Len(data) .. Len(bytes) : SubSeq(bytes, i - Len(data) + 1, i) = data}
SearchFinds ==
    ret.call = "buffer_search" /\ Len(ret.data) <= buffer_len /\ At(head) + buffer_len <= size =>
        IF Ends(ret.data) = {} THEN ret.found = 0
        ELSE ret.found \in Ends(ret.data) /\ \A i \in Ends(ret.data) : ret.found <= i
=============================================================================
