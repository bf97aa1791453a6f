------------------------------ MODULE CJSONText ------------------------------
(***************************************************************************)
(* ProtoBuf/cjson_test/cJSON.c: parsing, printing, minifying and comparing. *)
(* A behaviour is one call: its step brings the input, a text to parse or   *)
(* two values to print and compare; fail is the number of the allocation    *)
(* that fails.  Offsets count from 0 and a text ends in NUL, as in the code. *)
(* A buffer is its text, its size, whether there is a block, and whether    *)
(* something was written behind its end.                                    *)
(***************************************************************************)
EXTENDS JsonNodes

CONSTANTS Documents,          \* the texts parsed
          Failures,           \* the allocations that fail in them; 0 is none
          Pairs,              \* the pairs of values printed and compared
          CJSON_NESTING_LIMIT,
          NumberBuf,          \* 64: sizeof(number_c_string)
          default_buffer_size, INT_MAX,
          Spare               \* 5: cJSON.h's advice for cJSON_PrintPreallocated

VARIABLES doc, fail, pair

vars == <<doc, fail, pair>>

Init == doc = NoText /\ fail \in Failures /\ pair = <<Null, Null>>

ParseCall == doc = NoText /\ doc' \in Documents /\ UNCHANGED <<fail, pair>>
PrintCall ==
    /\ doc = NoText
    /\ doc' = <<>> /\ pair' \in Pairs /\ UNCHANGED fail
    /\ fail # 0 => pair'[2] = Null
Next == ParseCall \/ PrintCall

Spec == Init /\ [][Next]_vars

-----------------------------------------------------------------------------
\* Allocations: how many there were, the blocks in use, and whether every string
\* fitted into its block.
NoBlocks == [n |-> 0, live |-> 0, room |-> TRUE]
Grab(m) == [m EXCEPT !.n = @ + 1, !.live = IF m.n + 1 = fail THEN @ ELSE @ + 1]
Refused(m) == m.n = fail
Drop(m, n) == [m EXCEPT !.live = @ - n]

\* The blocks below an item: strings, and the items of a list with their names.
RECURSIVE Blocks(_)
Blocks(v) ==
    IF v.t = "str" THEN 1
    ELSE FoldLeft(LAMBDA n, x : n + 1 + Blocks(x.v) + IF v.t = "obj" THEN 1 ELSE 0, 0, v.e)

Ok(off, val, m) == [ok |-> TRUE, off |-> off, val |-> val, m |-> m]
Fail(off, m) == [ok |-> FALSE, off |-> off, val |-> Null, m |-> m]

At(text, i) == text[i + 1]
CanAccess(text, i) == i < Len(text)
Is(text, i, c) == CanAccess(text, i) /\ At(text, i) = c
Starts(text, i, word) == i + Len(word) <= Len(text) /\ Sub(text, i, Len(word)) = word

\* All bytes up to 32 are blanks, the NUL at the end too, to which it then steps back.
RECURSIVE SkipBlanks(_, _)
SkipBlanks(text, i) ==
    IF CanAccess(text, i) /\ At(text, i) <= 32 THEN SkipBlanks(text, i + 1) ELSE i
buffer_skip_whitespace(text, i) ==
    LET j == SkipBlanks(text, i) IN IF j = Len(text) THEN j - 1 ELSE j

\* The end of the bytes copied to number_c_string, of which strtod takes what it can.
NumberBytes == 48 .. 57 \cup {Plus, Minus, Dot, 69, 101}
RECURSIVE NumberEnd(_, _, _)
NumberEnd(text, i, last) ==
    IF CanAccess(text, i) /\ i < last /\ At(text, i) \in NumberBytes THEN NumberEnd(text, i + 1, last) ELSE i

parse_number(text, off, m) ==
    LET d == strtod(Sub(text, off, NumberEnd(text, off, off + NumberBuf - 1) - off), "num")
    IN  IF d.len = 0 THEN Fail(off, m) ELSE Ok(off + d.len, d.val, m)

parse_hex4(text, i) ==
    IF \A k \in 0 .. 3 : IsHex(At(text, i + k))
    THEN FoldLeft(LAMBDA h, c : 16 * h + HexValue(c), 0, Sub(text, i, 4)) ELSE 0

Utf8(c) ==
    LET tail(n) == 128 + ((c \div (64 ^ n)) % 64)
    IN  IF c < 128 THEN <<c>>
        ELSE IF c < 2048 THEN <<192 + c \div 64, tail(0)>>
        ELSE IF c < 65536 THEN <<224 + c \div 4096, tail(1), tail(0)>>
        ELSE <<240 + c \div 262144, tail(2), tail(1), tail(0)>>

HighSurrogate(c) == c \in 55296 .. 56319
LowSurrogate(c) == c \in 56320 .. 57343

\* The bytes of a literal and its length, 0 for none.
utf16_literal_to_utf8(text, i, end) ==
    LET first == parse_hex4(text, i + 2)
        second == parse_hex4(text, i + 8)
        none == [len |-> 0, bytes |-> <<>>]
    IN  IF end - i < 6 \/ LowSurrogate(first) THEN none
        ELSE IF ~HighSurrogate(first) THEN [len |-> 6, bytes |-> Utf8(first)]
        ELSE IF end - (i + 6) < 6 \/ Sub(text, i + 6, 2) # <<Backslash, 117>>
                \/ ~LowSurrogate(second) THEN none
        ELSE [len |-> 12, bytes |-> Utf8(65536 + (first % 1024) * 1024 + (second % 1024))]

\* A search for the closing quote that knows no escapes.
RECURSIVE StringEndPlain(_, _)
StringEndPlain(text, i) ==
    IF ~CanAccess(text, i) \/ At(text, i) = Quote THEN i ELSE StringEndPlain(text, i + 1)

\* The offset of the closing quote, or the end of the text.
RECURSIVE StringEnd(_, _)
StringEnd(text, i) ==
    IF ~CanAccess(text, i) \/ At(text, i) = Quote THEN i
    ELSE IF At(text, i) # Backslash THEN StringEnd(text, i + 1)
    ELSE IF i + 1 >= Len(text) THEN Len(text)
    ELSE StringEnd(text, i + 2)

Escapes == << <<98, 8>>, <<102, 12>>, <<110, LF>>, <<114, CR>>, <<116, Tab>>,
              <<Quote, Quote>>, <<Backslash, Backslash>>, <<Slash, Slash>> >>
EscapedAs(c) == {e[2] : e \in {f \in Range(Escapes) : f[1] = c}}

\* The bytes between the quotes; skipped counts the backslashes of the first pass.
RECURSIVE Unescape(_, _, _, _, _)
Unescape(text, i, end, out, skipped) ==
    LET c == At(text, i)
        esc == EscapedAs(At(text, i + 1))
        lit == utf16_literal_to_utf8(text, i, end)
    IN  IF i >= end THEN [ok |-> TRUE, off |-> i, out |-> out, skipped |-> skipped]
        ELSE IF c # Backslash THEN Unescape(text, i + 1, end, Append(out, c), skipped)
        ELSE IF esc # {}
             THEN Unescape(text, i + 2, end, Append(out, CHOOSE e \in esc : TRUE), skipped + 1)
        ELSE IF At(text, i + 1) = 117 /\ lit.len > 0
             THEN Unescape(text, i + lit.len, end, out \o lit.bytes, skipped + lit.len \div 6)
        ELSE [ok |-> FALSE, off |-> i, out |-> out, skipped |-> skipped]

\* As a C string, the value ends at the first NUL.
CString(s) == IF Contains(s, NUL) THEN SubSeq(s, 1, SelectInSeq(s, LAMBDA c : c = NUL) - 1) ELSE s

\* parse_string that forgets its output when an escape is wrong.
parse_string_leaks(text, off, m) ==
    LET end == StringEnd(text, off + 1)
        r == Unescape(text, off + 1, end, <<>>, 0)
    IN  IF ~Is(text, off, Quote) \/ ~Is(text, end, Quote) THEN Fail(off + 1, m)
        ELSE IF ~r.ok THEN Fail(r.off, Grab(m)) ELSE Ok(end + 1, Str(CString(r.out)), Grab(m))

parse_string(text, off, m) ==
    LET end == StringEnd(text, off + 1)
        m1 == Grab(m)
        r == Unescape(text, off + 1, end, <<>>, 0)
    IN  IF ~Is(text, off, Quote) \/ ~Is(text, end, Quote) THEN Fail(off + 1, m)
        ELSE IF Refused(m1) THEN Fail(off + 1, m1)
        ELSE IF ~r.ok THEN Fail(r.off, Drop(m1, 1))
        ELSE Ok(end + 1, Str(CString(r.out)),
                [m1 EXCEPT !.room = @ /\ Len(r.out) <= (end - off) - r.skipped])

-----------------------------------------------------------------------------
RECURSIVE parse_value(_, _, _, _)

\* parse_array's loop from p, the offset before the next element; list is what the
\* items hold so far.  A failure deletes the list with the current item.
RECURSIVE Elements(_, _, _, _, _)
Elements(text, p, depth, m, list) ==
    LET m1 == Grab(m)
        r == parse_value(text, buffer_skip_whitespace(text, p + 1), depth, m1)
        next == buffer_skip_whitespace(text, r.off)
        all == Append(list, Member(<<>>, r.val))
    IN  IF Refused(m1) THEN Fail(p, Drop(m1, Blocks(Val("arr", <<>>, 0, list))))
        ELSE IF ~r.ok THEN Fail(r.off, Drop(r.m, 1 + Blocks(Val("arr", <<>>, 0, list))))
        ELSE IF Is(text, next, Comma) THEN Elements(text, next, depth, r.m, all)
        ELSE IF Is(text, next, RBracket) THEN Ok(next + 1, Val("arr", <<>>, 0, all), r.m)
        ELSE Fail(next, Drop(r.m, Blocks(Val("arr", <<>>, 0, all))))

TooDeep(depth) == depth >= CJSON_NESTING_LIMIT

parse_array(text, off, depth, m) ==
    LET first == buffer_skip_whitespace(text, off + 1)
    IN  IF TooDeep(depth) THEN Fail(off, m)
        ELSE IF Is(text, first, RBracket) THEN Ok(first + 1, Arr(<<>>), m)
        ELSE Elements(text, first - 1, depth + 1, m, <<>>)

\* parse_object's loop: the name, parsed into the value of the item, then moved.
RECURSIVE Members(_, _, _, _, _)
Members(text, p, depth, m, list) ==
    LET m1 == Grab(m)
        name == parse_string(text, buffer_skip_whitespace(text, p + 1), m1)
        colon == buffer_skip_whitespace(text, name.off)
        r == parse_value(text, buffer_skip_whitespace(text, colon + 1), depth, name.m)
        next == buffer_skip_whitespace(text, r.off)
        all == Append(list, Member(name.val.s, r.val))
        Deleted(n, l) == n + Blocks(Val("obj", <<>>, 0, l))
    IN  IF Refused(m1) THEN Fail(p, Drop(m1, Deleted(0, list)))
        ELSE IF ~name.ok THEN Fail(name.off, Drop(name.m, Deleted(1, list)))
        ELSE IF ~Is(text, colon, Colon) THEN Fail(colon, Drop(name.m, Deleted(2, list)))
        ELSE IF ~r.ok THEN Fail(r.off, Drop(r.m, Deleted(2, list)))
        ELSE IF Is(text, next, Comma) THEN Members(text, next, depth, r.m, all)
        ELSE IF Is(text, next, RBrace) THEN Ok(next + 1, Obj(all), r.m)
        ELSE Fail(next, Drop(r.m, Deleted(0, all)))

parse_object(text, off, depth, m) ==
    LET first == buffer_skip_whitespace(text, off + 1)
    IN  IF TooDeep(depth) THEN Fail(off, m)
        ELSE IF Is(text, first, RBrace) THEN Ok(first + 1, Obj(<<>>), m)
        ELSE Members(text, first - 1, depth + 1, m, <<>>)

parse_value(text, off, depth, m) ==
    LET c == At(text, off)
    IN  IF Starts(text, off, NullText) THEN Ok(off + 4, Null, m)
        ELSE IF Starts(text, off, FalseText) THEN Ok(off + 5, False, m)
        ELSE IF Starts(text, off, TrueText) THEN Ok(off + 4, True, m)
        ELSE IF c = Quote THEN parse_string(text, off, m)
        ELSE IF c = Minus \/ IsDigit(c) THEN parse_number(text, off, m)
        ELSE IF c = LBracket THEN parse_array(text, off, depth, m)
        ELSE IF c = LBrace THEN parse_object(text, off, depth, m)
        ELSE Fail(off, m)

skip_utf8_bom(text) == IF CanAccess(text, 4) /\ Starts(text, 0, <<239, 187, 191>>) THEN 3 ELSE 0

\* The position of the error is that of the buffer, or the last of the text.
Position(text, off) == IF off < Len(text) THEN off ELSE Len(text) - 1

cJSON_ParseWithOpts(content, require_null_terminated) ==
    LET text == Append(content, NUL)
        m == Grab(NoBlocks)
        r == parse_value(text, buffer_skip_whitespace(text, skip_utf8_bom(text)), 0, m)
        end == IF require_null_terminated THEN buffer_skip_whitespace(text, r.off) ELSE r.off
    IN  IF Refused(m) THEN Fail(0, m)
        ELSE IF ~r.ok THEN Fail(Position(text, r.off), Drop(r.m, 1))
        ELSE IF require_null_terminated /\ ~Is(text, end, NUL)
             THEN Fail(Position(text, end), Drop(r.m, 1 + Blocks(r.val)))
        ELSE [r EXCEPT !.off = end]

-----------------------------------------------------------------------------
NewSize(needed) ==
    IF needed <= INT_MAX \div 2 THEN needed * 2 ELSE INT_MAX

\* ensure without the byte for the NUL.
ensureExactly(p, needed) ==
    IF ~p.ok \/ p.noalloc \/ needed + Len(p.out) <= p.length THEN p
    ELSE [p EXCEPT !.length = NewSize(needed + Len(p.out))]

\* A buffer that cannot grow fails, and stays so: every caller returns at once.  The
\* old block is freed whether there is a new one or not; without one there is no buffer.
Freed(p) == IF p.buffer THEN [p EXCEPT !.buffer = FALSE, !.m = Drop(@, 1)] ELSE p
ensure(p, needed) ==
    LET total == needed + Len(p.out) + 1
        m == Grab(p.m)
    IN  IF ~p.ok \/ ~p.buffer \/ (p.length > 0 /\ Len(p.out) >= p.length) \/ needed > INT_MAX
        THEN [p EXCEPT !.ok = FALSE]
        ELSE IF total <= p.length THEN p
        ELSE IF p.noalloc \/ total > INT_MAX THEN [p EXCEPT !.ok = FALSE]
        ELSE IF Refused(m) THEN Freed([p EXCEPT !.ok = FALSE, !.length = 0, !.m = m])
        ELSE [p EXCEPT !.length = NewSize(total), !.m = Drop(m, 1)]

\* Make room for needed bytes and write some, with a NUL behind them or not.
Put(p, needed, bytes, nul) ==
    LET q == ensure(p, needed)
    IN  IF ~q.ok THEN q
        ELSE [q EXCEPT !.out = @ \o bytes,
                       !.over = @ \/ Len(p.out) + Len(bytes) + nul > q.length]

NumberText(v) == IF v.t = "num" THEN GeneralText(v) ELSE NullText
print_number(p, v) == Put(p, Len(NumberText(v)) + 1, NumberText(v), 1)

Escape(c) ==
    LET short == SelectSeq(Escapes, LAMBDA e : e[2] = c /\ c # Slash)
    IN  IF short # <<>> THEN <<Backslash, short[1][1]>>
        ELSE IF c < 32 THEN <<Backslash, 117>> \o Hex4(c)
        ELSE <<c>>

print_string_ptr(p, s) ==
    LET escaped == FlattenSeq([i \in DOMAIN s |-> Escape(s[i])])
    IN  Put(p, Len(escaped) + 3, <<Quote>> \o escaped \o <<Quote>>, 1)

RECURSIVE print_value(_, _)

RECURSIVE PrintElements(_, _)
PrintElements(p, e) ==
    LET q == print_value(p, e[1].v)
        sep == IF p.format THEN <<Comma, Space>> ELSE <<Comma>>
    IN  IF e = <<>> THEN p
        ELSE PrintElements(IF Len(e) > 1 THEN Put(q, Len(sep) + 1, sep, 1) ELSE q, Tail(e))

print_array(p, e) ==
    LET open == [Put(p, 1, <<LBracket>>, 0) EXCEPT !.depth = @ + 1]
        close == Put(PrintElements(open, e), 2, <<RBracket>>, 1)
    IN  [close EXCEPT !.depth = p.depth]

Tabs(n) == [i \in 1 .. n |-> Tab]

RECURSIVE PrintMembers(_, _)
PrintMembers(p, e) ==
    LET indented == IF p.format THEN Put(p, p.depth, Tabs(p.depth), 0) ELSE p
        key == print_string_ptr(indented, e[1].k)
        colon == IF p.format THEN Put(key, 2, <<Colon, Tab>>, 0) ELSE Put(key, 1, <<Colon>>, 0)
        value == print_value(colon, e[1].v)
        end == (IF Len(e) > 1 THEN <<Comma>> ELSE <<>>) \o IF p.format THEN <<LF>> ELSE <<>>
    IN  IF e = <<>> THEN p ELSE PrintMembers(Put(value, Len(end) + 1, end, 1), Tail(e))

print_object(p, e) ==
    LET start == IF p.format THEN <<LBrace, LF>> ELSE <<LBrace>>
        open == [Put(p, Len(start) + 1, start, 0) EXCEPT !.depth = @ + 1]
        end == IF p.format THEN Append(Tabs(p.depth), RBrace) ELSE <<RBrace>>
        close == Put(PrintMembers(open, e), IF p.format THEN open.depth + 1 ELSE 2, end, 1)
    IN  [close EXCEPT !.depth = p.depth]

print_value(p, v) ==
    CASE v.t = "null" -> Put(p, 5, NullText, 1)
      [] v.t = "false" -> Put(p, 6, FalseText, 1)
      [] v.t = "true" -> Put(p, 5, TrueText, 1)
      [] v.t \in {"num", "nan", "+inf", "-inf"} -> print_number(p, v)
      [] v.t = "raw" -> Put(p, Len(v.s) + 1, v.s, 1)
      [] v.t = "str" -> print_string_ptr(p, v.s)
      [] v.t = "arr" -> print_array(p, v.e)
      [] v.t = "obj" -> print_object(p, v.e)

Buffer(length, noalloc, format, m) ==
    [out |-> <<>>, length |-> length, noalloc |-> noalloc, format |-> format, depth |-> 0,
     buffer |-> noalloc \/ ~Refused(m), ok |-> TRUE, over |-> FALSE, m |-> m]
\* What print returns is a copy of the right size; a failure frees the buffer there is.
print(v, format) ==
    LET p == print_value(Buffer(default_buffer_size, FALSE, format, Grab(NoBlocks)), v)
        printed == [p EXCEPT !.m = Grab(@)]
    IN  IF ~p.ok THEN Freed(p)
        ELSE IF Refused(printed.m) THEN Freed([printed EXCEPT !.ok = FALSE])
        ELSE [printed EXCEPT !.m = Drop(@, 1)]
cJSON_PrintBuffered(v, prebuffer, format) ==
    LET p == print_value(Buffer(prebuffer, FALSE, format, Grab(NoBlocks)), v)
    IN  IF p.ok THEN p ELSE Freed(p)
cJSON_PrintPreallocated(v, len, format) == print_value(Buffer(len, TRUE, format, NoBlocks), v)

-----------------------------------------------------------------------------
\* cJSON_Minify from offset i, in a string or not; comments end at a line or at */.
RECURSIVE Minified(_, _, _)
Minified(text, i, instring) ==
    LET c == At(text, i)
        d == At(text, i + 1)
        lineEnd == CHOOSE j \in i .. Len(text) - 1 :
                       /\ At(text, j) \in {LF, NUL} /\ \A k \in i .. j - 1 : At(text, k) \notin {LF, NUL}
        Closes(j) == At(text, j) = NUL \/ (At(text, j) = Star /\ At(text, j + 1) = Slash)
        closed == CHOOSE j \in i + 2 .. Len(text) - 1 :
                       Closes(j) /\ \A k \in i + 2 .. j - 1 : ~Closes(k)
    IN  IF c = NUL THEN <<>>
        ELSE IF instring /\ c = Backslash /\ d = Quote
             THEN <<c, d>> \o Minified(text, i + 2, TRUE)
        ELSE IF instring THEN <<c>> \o Minified(text, i + 1, c # Quote)
        ELSE IF c \in {Space, Tab, CR, LF} THEN Minified(text, i + 1, FALSE)
        ELSE IF c = Slash /\ d = Slash
             THEN Minified(text, IF At(text, lineEnd) = LF THEN lineEnd + 1 ELSE lineEnd, FALSE)
        ELSE IF c = Slash /\ d = Star
             THEN Minified(text, IF At(text, closed) = NUL THEN closed ELSE closed + 2, FALSE)
        ELSE IF c = Slash THEN Minified(text, i + 1, FALSE)
        ELSE <<c>> \o Minified(text, i + 1, c = Quote)
cJSON_Minify(content) == Minified(Append(content, NUL), 0, FALSE)

LowerByte(c) == IF c \in 65 .. 90 THEN c + 32 ELSE c
SameName(k, l, case_sensitive) ==
    IF case_sensitive THEN k = l
    ELSE Len(k) = Len(l) /\ \A i \in DOMAIN k : LowerByte(k[i]) = LowerByte(l[i])

\* cJSON_Compare that looks a member up by its place.
CompareInOrder(a, b, identical, case_sensitive) ==
    /\ a.t = b.t /\ a.n = b.n /\ a.s = b.s
    /\ Len(a.e) <= Len(b.e) /\ \A i \in DOMAIN a.e : a.e[i].v.t = b.e[i].v.t

\* identical: the two are one item.  Items that are not share no child.
RECURSIVE cJSON_Compare(_, _, _, _)
cJSON_Compare(a, b, identical, case_sensitive) ==
    LET Found(x, o) == SelectSeq(o.e, LAMBDA y : SameName(x.k, y.k, case_sensitive))
        Within(o, p) == \A i \in DOMAIN o.e :
            LET f == Found(o.e[i], p)
            IN  f # <<>> /\ cJSON_Compare(o.e[i].v, f[1].v, FALSE, case_sensitive)
    IN  /\ a.t = b.t
        /\ CASE identical -> TRUE
             [] a.t \in {"false", "true", "null"} -> TRUE
             [] a.t \in {"num", "+inf", "-inf"} -> a.n = b.n
             [] a.t = "nan" -> FALSE
             [] a.t \in {"str", "raw"} -> a.s = b.s
             [] a.t = "arr" -> /\ Len(a.e) = Len(b.e)
                              /\ \A i \in DOMAIN a.e : cJSON_Compare(a.e[i].v, b.e[i].v, FALSE, case_sensitive)
             [] a.t = "obj" -> Within(a, b) /\ Within(b, a)

-----------------------------------------------------------------------------
\* A parse that fails, for the text or for memory, leaves no block behind and reports
\* a position inside the text; one that succeeds owns the blocks of its value, and no
\* string was larger than the estimate of parse_string ("at most how much we need").
ParseIsClean(text) ==
    \A require \in BOOLEAN :
        LET r == cJSON_ParseWithOpts(text, require)
        IN  /\ r.off \in 0 .. Len(text)
            /\ r.m.live = IF r.ok THEN 1 + Blocks(r.val) ELSE 0
            /\ r.m.room

EndsInBackslash(text) ==
    \E i \in 1 .. Len(text) - 2 : SubSeq(text, i, i + 2) = <<Backslash, Backslash, Quote>>

\* A text without escapes, control bytes and byte order mark.
Plain(text) == \A i \in DOMAIN text : text[i] # Backslash /\ text[i] \in 32 .. 127

\* A text without blanks and escapes, from i, with every number written as it is printed.
RECURSIVE Renumbered(_, _, _)
Renumbered(text, i, instring) ==
    LET d == strtod(SubSeq(text, i, Len(text)), "num")
    IN  IF i > Len(text) THEN <<>>
        ELSE IF ~instring /\ (text[i] = Minus \/ IsDigit(text[i]))
             THEN NumberText(d.val) \o Renumbered(text, i + d.len, FALSE)
        ELSE <<text[i]>> \o Renumbered(text, i + 1, IF text[i] = Quote THEN ~instring ELSE instring)

\* What a whole text parses to is all of the text: printed again without format it is
\* the minified text, but for the form of its numbers: 01 is accepted as 1, 1e1 is printed
\* as 10, and a number too large for a double as null.  Minifying keeps the value, unless a string ends in an escaped
\* backslash, which minify_string takes for an escaped quote.
ParseReadsAll(text) ==
    LET r == cJSON_ParseWithOpts(text, TRUE)
        small == cJSON_Minify(text)
        s == cJSON_ParseWithOpts(small, TRUE)
    IN  r.ok /\ fail = 0 =>
            /\ Plain(text) => print(r.val, FALSE).out = Renumbered(small, 1, FALSE)
            /\ ~EndsInBackslash(text) => s.ok /\ s.val = r.val

\* What parsing gives for a printed value: nan and infinity are printed as null.
RECURSIVE Printable(_)
Printable(v) ==
    IF v.t \in {"nan", "+inf", "-inf"} THEN Null
    ELSE [v EXCEPT !.e = [i \in DOMAIN @ |-> [@[i] EXCEPT !.v = Printable(@)]]]

\* Every way of printing gives a text that parses to the value and writes nothing
\* behind its buffer, however often that grows, and a failing allocation leaves no
\* block behind; a preallocated buffer is enough if it
\* has 5 bytes more than the text and its NUL need, as cJSON.h says.
PrintIsParsed(v) ==
    \A format \in BOOLEAN :
        LET p == print(v, format)
            need == Len(p.out) + 1
            Kept(q) == ~q.over /\ q.m.live = IF q.ok THEN 1 ELSE 0
        IN  /\ Kept(p)
            /\ \A n \in {1, 2, 5} : Kept(cJSON_PrintBuffered(v, n, format))
            /\ fail = 0 =>
                  /\ p.ok /\ cJSON_ParseWithOpts(p.out, TRUE).val = Printable(v)
                  /\ \A n \in {1, 2, 5} :
                        LET q == cJSON_PrintBuffered(v, n, format) IN q.ok /\ q.out = p.out
                  /\ \A n \in 0 .. need + Spare :
                        LET q == cJSON_PrintPreallocated(v, n, format)
                        IN  /\ ~q.over /\ (q.ok => q.out = p.out)
                            /\ n = need + Spare => q.ok

\* Values as the JSON standard compares them: objects are maps from names.
RECURSIVE Same(_, _, _)
Same(a, b, cs) ==
    /\ a.t = b.t /\ a.t # "nan" /\ a.n = b.n /\ Len(a.e) = Len(b.e)
    /\ a.t = "str" => a.s = b.s
    /\ a.t = "arr" => \A i \in DOMAIN a.e : Same(a.e[i].v, b.e[i].v, cs)
    /\ a.t = "obj" => \A i \in DOMAIN a.e : \E j \in DOMAIN b.e :
                         SameName(a.e[i].k, b.e[j].k, cs) /\ Same(a.e[i].v, b.e[j].v, cs)
RECURSIVE DistinctNames(_, _)
DistinctNames(v, cs) ==
    /\ v.t = "obj" => \A i, j \in DOMAIN v.e : i # j => ~SameName(v.e[i].k, v.e[j].k, cs)
    /\ \A i \in DOMAIN v.e : DistinctNames(v.e[i].v, cs)

\* cJSON_Compare is symmetric, and on values without repeated names it is equality,
\* the order of the members aside; an object that repeats a name with another value is
\* not even equal to its copy.  Every item is equal to itself.
CompareIsEquality(a, b) ==
    \A cs \in BOOLEAN :
        /\ cJSON_Compare(a, a, TRUE, cs)
        /\ cJSON_Compare(a, b, FALSE, cs) = cJSON_Compare(b, a, FALSE, cs)
        /\ DistinctNames(a, cs) /\ DistinctNames(b, cs) => cJSON_Compare(a, b, FALSE, cs) = Same(a, b, cs)
=============================================================================
