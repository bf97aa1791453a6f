--------------------------------- MODULE Sds ---------------------------------
(***************************************************************************)
(* Distributed_Lock/redlock-cpp/sds.c: the dynamic strings of the lock     *)
(* manager.  One string through any sequence of calls; the history         *)
(* variable str is the value a plain string would have.  An sds is a       *)
(* header with len and free before the bytes 0 .. len + free of buf.  A    *)
(* call that cannot allocate returns NULL and leaves its argument valid,   *)
(* which is no step here.                                                  *)
(***************************************************************************)
EXTENDS Integers, Sequences, FiniteSetsExt

CONSTANTS Bytes,              \* the bytes of the arguments, NUL included
          NUL,
          Lower, Upper,       \* pairs tolower and toupper map, as functions on Bytes
          Cset,               \* the argument of sdstrim
          SDS_MAX_PREALLOC,
          FirstBuf,           \* 16: the first buffer of sdscatvprintf
          MaxLen              \* bound on the length of the string

VARIABLES sh,                 \* the header and the bytes
          str                 \* history: the value

vars == <<sh, str>>

Junk == "junk"                \* a byte never written

Texts == UNION {[1 .. n -> Bytes] : n \in 0 .. MaxLen}
Cap(s) == s.len + s.free
Content(s) == [i \in 1 .. s.len |-> s.buf[i - 1]]

\* memcpy into the string; one that leaves the allocation enlarges the domain.
Put(buf, at, t) ==
    [i \in DOMAIN buf \cup at .. at + Len(t) - 1 |->
        IF i \in at .. at + Len(t) - 1 THEN t[i - at + 1] ELSE buf[i]]
\* realloc to n bytes and a terminator
Resized(buf, n) == [i \in 0 .. n |-> IF i \in DOMAIN buf THEN buf[i] ELSE Junk]
\* strlen: the bytes before the first NUL
CString(t) == SubSeq(t, 1, Min({i \in DOMAIN t : t[i] = NUL} \cup {Len(t) + 1}) - 1)

sdsnewlen(t) ==
    [len |-> Len(t), free |-> 0,
     buf |-> Put([i \in 0 .. Len(t) |-> Junk], 0, Append(t, NUL))]
Zeros(n) == [i \in 1 .. n |-> NUL]

Init ==
    \E t \in Texts \cup {Zeros(n) : n \in 0 .. MaxLen} : sh = sdsnewlen(t) /\ str = t

EnoughWithoutNul(s, addlen) == s.free + 1 >= addlen          \* mutant of Enough
Enough(s, addlen) == s.free >= addlen

sdsMakeRoomFor(s, addlen) ==
    LET newlen == s.len + addlen
        total == IF newlen < SDS_MAX_PREALLOC THEN newlen * 2 ELSE newlen + SDS_MAX_PREALLOC
    IN  IF Enough(s, addlen) THEN s
        ELSE [s EXCEPT !.free = total - s.len, !.buf = Resized(s.buf, total)]

catlen(s, t) ==
    LET r == sdsMakeRoomFor(s, Len(t))
    IN  [len |-> s.len + Len(t), free |-> r.free - Len(t), buf |-> Put(r.buf, s.len, Append(t, NUL))]

-----------------------------------------------------------------------------
sdsdup == sh' = sdsnewlen(Content(sh)) /\ UNCHANGED str

sdsclear ==
    /\ sh' = [len |-> 0, free |-> Cap(sh), buf |-> Put(sh.buf, 0, <<NUL>>)]
    /\ str' = <<>>

\* The comment's use: overwrite a byte with NUL, then take strlen for the length.
sdsupdatelen(i) ==
    LET buf == [sh.buf EXCEPT ![i] = NUL]
        reallen == Min({k \in DOMAIN buf : buf[k] = NUL})
    IN  /\ i < sh.len
        /\ sh' = [len |-> reallen, free |-> sh.free + (sh.len - reallen), buf |-> buf]
        /\ str' = CString([str EXCEPT ![i + 1] = NUL])

sdsRemoveFreeSpace ==
    /\ sh' = [sh EXCEPT !.free = 0, !.buf = Resized(sh.buf, sh.len)]
    /\ UNCHANGED str

\* The comment's use: make room for n bytes, let read() put some of them behind the
\* string, then count those.
sdsIncrLen(n, t) ==
    LET r == sdsMakeRoomFor(sh, n)
    IN  /\ Len(t) <= n /\ Len(str) + n <= MaxLen
        /\ sh' = [len |-> r.len + Len(t), free |-> r.free - Len(t),
                  buf |-> Put(Put(r.buf, r.len, t), r.len + Len(t), <<NUL>>)]
        /\ str' = str \o t

\* sdsIncrLen with a negative increment
RightTrim(n) ==
    /\ n \in 1 .. sh.len
    /\ sh' = [len |-> sh.len - n, free |-> sh.free + n, buf |-> Put(sh.buf, sh.len - n, <<NUL>>)]
    /\ str' = SubSeq(str, 1, Len(str) - n)

sdsgrowzero(n) ==
    LET r == sdsMakeRoomFor(sh, n - sh.len)
    IN  /\ sh.len < n
        /\ sh' = [len |-> n, free |-> Cap(r) - n, buf |-> Put(r.buf, sh.len, Zeros(n - sh.len + 1))]
        /\ str' = str \o Zeros(n - Len(str))

sdscatlen(t) ==
    /\ Len(str) + Len(t) <= MaxLen
    /\ sh' = catlen(sh, t)
    /\ str' = str \o t

\* sdscatsds with a duplicate of the string; the string itself may move while it grows.
sdscatsds ==
    /\ 2 * Len(str) <= MaxLen
    /\ sh' = catlen(sh, Content(sh))
    /\ str' = str \o str

sdscpylen(t) ==
    LET r == IF Cap(sh) < Len(t) THEN sdsMakeRoomFor(sh, Len(t) - sh.len) ELSE sh
    IN  /\ sh' = [len |-> Len(t), free |-> Cap(r) - Len(t), buf |-> Put(r.buf, 0, Append(t, NUL))]
        /\ str' = t

\* sdscatvprintf: vsnprintf into buffers of doubling size until the byte before the
\* last is still NUL, which is taken to say that all of the text fits.
Printed(t, n) == [i \in 1 .. n |-> IF i < n /\ i <= Len(t) THEN t[i] ELSE NUL]
FirstBufferOnly(t) == CString(Printed(t, FirstBuf))          \* mutant of Formatted
Formatted(t) ==
    LET size[k \in 0 .. MaxLen] == IF k = 0 THEN FirstBuf ELSE 2 * size[k - 1]
        k == Min({j \in 0 .. MaxLen : Printed(t, size[j])[size[j] - 1] = NUL})
    IN  CString(Printed(t, size[k]))

sdscatvprintf(t) ==
    /\ Len(str) + Len(t) <= MaxLen
    /\ sh' = catlen(sh, Formatted(t))
    /\ str' = str \o CString(t)

\* sdstrim: strchr also finds the NUL that ends cset.
sdstrim ==
    LET set == Cset \cup {NUL}
        end == sh.len - 1
        sp == Min({i \in 0 .. end : sh.buf[i] \notin set} \cup {end + 1})
        ep == Max({i \in 1 .. end : sh.buf[i] \notin set} \cup {IF end < 0 THEN end ELSE 0})
        n == IF sp > ep THEN 0 ELSE ep - sp + 1
        kept == {i \in DOMAIN str : str[i] \notin set}
    IN  /\ sh' = [len |-> n, free |-> sh.free + (sh.len - n),
                  buf |-> Put(Put(sh.buf, 0, [i \in 1 .. n |-> sh.buf[sp + i - 1]]), n, <<NUL>>)]
        /\ str' = IF kept = {} THEN <<>> ELSE SubSeq(str, Min(kept), Max(kept))

Clamped(i, n) == IF i >= 0 THEN i ELSE IF n + i < 0 THEN 0 ELSE n + i

sdsrange(start, end) ==
    LET len == sh.len
        s == Clamped(start, len)
        e == Clamped(end, len)
        newlen == IF s > e \/ s >= len THEN 0
                  ELSE IF e >= len THEN len - s
                  ELSE e - s + 1
    IN  /\ len # 0
        /\ sh' = [len |-> newlen, free |-> sh.free + (len - newlen),
                  buf |-> Put(Put(sh.buf, 0, [i \in 1 .. newlen |-> sh.buf[s + i - 1]]),
                              newlen, <<NUL>>)]
        /\ str' = SubSeq(str, s + 1, Min({e + 1, Len(str)}))

\* sdsmapchars; sdstolower and sdstoupper are maps of single bytes as well.
Mapped(f) ==
    /\ sh' = [sh EXCEPT !.buf = [i \in DOMAIN @ |-> IF i < sh.len THEN f[@[i]] ELSE @[i]]]
    /\ str' = [i \in DOMAIN str |-> f[str[i]]]

Next ==
    \/ sdsdup \/ sdsclear \/ sdsRemoveFreeSpace \/ sdscatsds \/ sdstrim
    \/ Mapped(Lower) \/ Mapped(Upper)
    \/ \E t \in Texts : sdscatlen(t) \/ sdscpylen(t) \/ sdscatvprintf(t)
    \/ \E n \in 0 .. MaxLen : sdsupdatelen(n) \/ RightTrim(n) \/ sdsgrowzero(n)
    \/ \E n \in 0 .. MaxLen, t \in Texts : sdsIncrLen(n, t)
    \/ \E i, j \in -MaxLen - 1 .. MaxLen : sdsrange(i, j)

Spec == Init /\ [][Next]_vars

-----------------------------------------------------------------------------
\* Whatever the sequence of calls, an sds holds the value a plain string would have,
\* ends in a NUL, and its allocation is the header's len and free and one byte: no
\* call wrote behind it or lost track of it.
HoldsTheString ==
    /\ DOMAIN sh.buf = 0 .. Cap(sh)
    /\ sh.len >= 0 /\ sh.free >= 0
    /\ sh.buf[sh.len] = NUL
    /\ Content(sh) = str
=============================================================================
