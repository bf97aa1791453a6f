------------------------------- MODULE SdsText -------------------------------
(***************************************************************************)
(* Distributed_Lock/redlock-cpp/sds.c: the functions that split, join and  *)
(* quote strings.  Bytes are their ASCII codes.  A behaviour is one set of *)
(* arguments; fail is the number of the allocation that fails.             *)
(***************************************************************************)
EXTENDS Integers, Sequences, SequencesExt

CONSTANTS Arguments,          \* sets of sequences of strings to quote and to join
          Texts, Separators,  \* what sdssplitlen is called with
          Slots,              \* 5: the first size of the array of tokens
          MaxAllocs           \* bound on fail

VARIABLES args, text, sep, fail

vars == <<args, text, sep, fail>>

Init ==
    \/ args \in Arguments /\ text = <<>> /\ sep = <<>> /\ fail = 0
    \/ args = <<>> /\ text \in Texts /\ sep \in Separators /\ fail \in 0 .. MaxAllocs

Spec == Init /\ [][FALSE]_vars

-----------------------------------------------------------------------------
Backslash == 92
DoubleQuote == 34
SingleQuote == 39
Letter(esc) == CASE esc = 10 -> 110 [] esc = 13 -> 114 [] esc = 9 -> 116 [] esc = 7 -> 97 [] esc = 8 -> 98
Escapes == {10, 13, 9, 7, 8}
isspace(c) == c \in 9 .. 13 \cup {32}
isprint(c) == c \in 32 .. 126
HexDigit(d) == IF d < 10 THEN 48 + d ELSE 87 + d             \* %02x

\* sdscatrepr onto an empty string
QuoteOnly(c) ==                                              \* mutant of ReprOf
    IF c = DoubleQuote THEN <<Backslash, c>> ELSE <<c>>
ReprOf(c) ==
    IF c \in {Backslash, DoubleQuote} THEN <<Backslash, c>>
    ELSE IF c \in Escapes THEN <<Backslash, Letter(c)>>
    ELSE IF isprint(c) THEN <<c>>
    ELSE <<Backslash, 120, HexDigit(c \div 16), HexDigit(c % 16)>>

sdscatrepr(t) == <<DoubleQuote>> \o FlattenSeq([i \in DOMAIN t |-> ReprOf(t[i])]) \o <<DoubleQuote>>

\* sdsjoinsds; sdsjoin is the same for strings without a NUL.
sdsjoinsds(argv, separator) ==
    FlattenSeq([j \in DOMAIN argv |-> IF j # Len(argv) THEN argv[j] \o separator ELSE argv[j]])

-----------------------------------------------------------------------------
is_hex_digit(c) == c \in 48 .. 57 \cup 97 .. 102 \cup 65 .. 70
hex_digit_to_int(c) ==
    IF c \in 48 .. 57 THEN c - 48 ELSE IF c \in 97 .. 102 THEN c - 87 ELSE c - 55

\* The byte an escape stands for in double quotes.
Unescaped(c) ==
    IF \E e \in Escapes : Letter(e) = c THEN CHOOSE e \in Escapes : Letter(e) = c ELSE c

NULL == [ok |-> FALSE, argv |-> <<>>]

\* sdssplitargs from position p: mode says whether it skips blanks or is in a token,
\* in double or in single quotes; line ends in a NUL.
RECURSIVE Scan(_, _, _, _, _)
Scan(line, p, mode, current, argv) ==
    LET At(i) == IF i <= Len(line) THEN line[i] ELSE 0
        c == At(p)
        Done == Scan(line, IF c = 0 THEN p ELSE p + 1, "skip", <<>>, Append(argv, current))
        Take(b, n) == Scan(line, p + n, mode, Append(current, b), argv)
        Closing == IF At(p + 1) # 0 /\ ~isspace(At(p + 1)) THEN NULL ELSE Done
    IN  CASE mode = "skip" ->
               IF c = 0 THEN [ok |-> TRUE, argv |-> argv]
               ELSE IF isspace(c) THEN Scan(line, p + 1, "skip", <<>>, argv)
               ELSE Scan(line, p, "token", <<>>, argv)
          [] mode = "token" ->
               IF c \in {32, 10, 13, 9, 0} THEN Done
               ELSE IF c = DoubleQuote THEN Scan(line, p + 1, "inq", current, argv)
               ELSE IF c = SingleQuote THEN Scan(line, p + 1, "insq", current, argv)
               ELSE Take(c, 1)
          [] mode = "inq" ->
               IF /\ c = Backslash /\ At(p + 1) = 120
                  /\ is_hex_digit(At(p + 2)) /\ is_hex_digit(At(p + 3))
               THEN Take(hex_digit_to_int(At(p + 2)) * 16 + hex_digit_to_int(At(p + 3)), 4)
               ELSE IF c = Backslash /\ At(p + 1) # 0 THEN Take(Unescaped(At(p + 1)), 2)
               ELSE IF c = DoubleQuote THEN Closing
               ELSE IF c = 0 THEN NULL
               ELSE Take(c, 1)
          [] mode = "insq" ->
               IF c = Backslash /\ At(p + 1) = SingleQuote THEN Take(SingleQuote, 2)
               ELSE IF c = SingleQuote THEN Closing
               ELSE IF c = 0 THEN NULL
               ELSE Take(c, 1)

sdssplitargs(line) == Scan(line, 1, "skip", <<>>, <<>>)

-----------------------------------------------------------------------------
\* sdssplitlen: allocs counts the allocations made, slots is the size of the array;
\* room tells whether every token had a place in it; a failure frees all of them.
Cleanup(state) == [ok |-> FALSE, tokens |-> <<>>, room |-> state.room]
FinalOnly(slots, elements) == slots < elements + 1                          \* mutant of Full
Full(slots, elements) == slots < elements + 2

Token(state, t) ==
    [state EXCEPT !.tokens = Append(@, t), !.allocs = @ + 1,
                  !.room = @ /\ Len(state.tokens) < state.slots]
Grown(state) ==
    IF Full(state.slots, Len(state.tokens))
    THEN [state EXCEPT !.slots = 2 * @, !.allocs = @ + 1] ELSE state

RECURSIVE Split(_, _, _, _)
Split(j, start, state, separator) ==
    LET search == j < Len(text) - (Len(separator) - 1)
        grown == IF search THEN Grown(state) ELSE state
        found == search /\ SubSeq(text, j + 1, j + Len(separator)) = separator
        next == Token(grown, SubSeq(text, start + 1, IF found THEN j ELSE Len(text)))
    IN  IF grown # state /\ grown.allocs = fail THEN Cleanup(state)
        ELSE IF search /\ ~found THEN Split(j + 1, start, grown, separator)
        ELSE IF next.allocs = fail THEN Cleanup(grown)
        ELSE IF found THEN Split(j + Len(separator), j + Len(separator), next, separator)
        ELSE [ok |-> TRUE, tokens |-> next.tokens, room |-> next.room]

sdssplitlen(separator) ==
    LET first == [tokens |-> <<>>, slots |-> Slots, allocs |-> 1, room |-> TRUE]
    IN  IF Len(separator) < 1 \/ fail = 1
        THEN [ok |-> FALSE, tokens |-> <<>>, room |-> TRUE]
        ELSE IF Len(text) = 0 THEN [ok |-> TRUE, tokens |-> <<>>, room |-> TRUE]
        ELSE Split(0, 0, first, separator)

-----------------------------------------------------------------------------
\* sdssplitargs' comment, that sdscatrepr converts a string into the format it parses:
\* arguments quoted by sdscatrepr and joined by a blank are split into themselves,
\* whatever bytes they hold.
ReprIsParsed ==
    sdssplitargs(sdsjoinsds([i \in DOMAIN args |-> sdscatrepr(args[i])], <<32>>))
        = [ok |-> TRUE, argv |-> args]

\* sdssplitlen cuts at the separators and loses nothing: joined again, the tokens are the
\* text, and none contains the separator.  The array always has a place for the token,
\* as the comment at the last one says, after any number of reallocations.
SplitIsJoined ==
    LET r == sdssplitlen(sep)
    IN  /\ r.ok => /\ sdsjoinsds(r.tokens, sep) = text
                   /\ \A i \in DOMAIN r.tokens :
                          \A k \in 1 .. Len(r.tokens[i]) - Len(sep) + 1 :
                              SubSeq(r.tokens[i], k, k + Len(sep) - 1) # sep
        /\ r.room
=============================================================================
