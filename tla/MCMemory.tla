------------------------------- MODULE MCMemory -------------------------------
(***************************************************************************)
(* The components of Memory on small instances, the dynamic strings, and   *)
(* the functions of sds.c that split, join and quote.                      *)
(***************************************************************************)
EXTENDS Memory, Sequences

CONSTANTS Bytes, NUL, Lower, Upper, Cset, SDS_MAX_PREALLOC, FirstBuf, MaxLen \* of Sds

MCLower == [b \in Bytes |-> IF b = "A" THEN "a" ELSE b]
MCUpper == [b \in Bytes |-> IF b = "a" THEN "A" ELSE b]

VARIABLES sh, str
sds == <<sh, str>>
Sds == INSTANCE Sds

VARIABLES args, text, sep, fail
strings == <<args, text, sep, fail>>
Upto(S, n) == UNION {[1 .. k -> S] : k \in 0 .. n}
Strings == INSTANCE SdsText
            WITH Arguments <- Upto({<<b>> : b \in {34, 92, 39, 32, 10, 0, 120, 97, 27}} \cup {<<>>}, 3)
                              \cup Upto(Upto({34, 92, 97}, 2), 2),
                 Texts <- Upto({1, 2}, 5), Separators <- {<<>>, <<1>>, <<1, 1>>, <<1, 2>>},
                 Slots <- 2, MaxAllocs <- 8

NoText == args = <<>> /\ text = <<>> /\ sep = <<>> /\ fail = 0
NoSds == sh = Sds!sdsnewlen(<<>>) /\ str = <<>>

MCInit ==
    \/ Init /\ NoSds /\ NoText
    \/ Start("sds") /\ Sds!Init /\ NoText
    \/ Start("strings") /\ NoSds /\ Strings!Init

MCNext ==
    \/ Next /\ UNCHANGED <<sds, strings>>
    \/ running = "sds" /\ Sds!Next /\ UNCHANGED <<vars, strings>>

MCSpec == MCInit /\ [][MCNext]_<<vars, sds, strings>>

\* sds.c: through any sequence of calls an sds holds the value a plain string would
\* have, NUL-terminated, in an allocation of exactly len, free and one byte;
\* sdssplitargs parses what sdscatrepr and sdsjoin write into the same arguments, and
\* sdssplitlen loses nothing and has a slot for every token.
StringsHold == Sds!HoldsTheString /\ Strings!ReprIsParsed /\ Strings!SplitIsJoined
=============================================================================
