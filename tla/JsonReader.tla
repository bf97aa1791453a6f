------------------------------ MODULE JsonReader -----------------------------
(***************************************************************************)
(* class Reader of ProtoBuf/jsoncpp_test/json_reader.cpp.  An operator     *)
(* takes the reader and gives the reader afterwards; ok is what the method *)
(* returns, tok the last token read, thrown whether an exception or an     *)
(* assertion ended the parse.  The stack nodes_ is the path of the current *)
(* value.  Offsets count from 0; an error has the offsets of its token and *)
(* the place it points to, or None.                                        *)
(***************************************************************************)
EXTENDS JsonNodes

CONSTANTS MaxInt, MaxLargestInt, MaxLargestUInt,   \* the limits of the integer types
          stackLimit_g                             \* how deep readValue may nest

None == -1

\* The character at offset i, 0 at the end (getNextChar).
At(doc, i) == IF i < Len(doc) THEN doc[i + 1] ELSE 0
NextAt(doc, i) == IF i < Len(doc) THEN i + 1 ELSE i

containsNewLine(doc, begin, end) == \E k \in begin .. end - 1 : At(doc, k) \in {LF, CR}

addError(r, token, extra) ==
    [r EXCEPT !.errs = Append(@, [start |-> token.start, end |-> token.end, extra |-> extra]), !.ok = FALSE]
Thrown(r) == [r EXCEPT !.thrown = TRUE, !.ok = FALSE]

\* The comment of the value at path; an assertion may fail in setComment.
Comment(r, path, text, slot) ==
    IF MayComment(text) THEN [r EXCEPT !.tree = setComment(@, path, text, slot)] ELSE Thrown(r)

RECURSIVE skipSpaces(_, _)
skipSpaces(doc, i) == IF At(doc, i) \in {Space, Tab, CR, LF} THEN skipSpaces(doc, i + 1) ELSE i

normalizeEOL(text) ==
    FlattenSeq([i \in DOMAIN text |->
        IF text[i] = CR THEN <<LF>> ELSE IF text[i] = LF /\ i > 1 /\ text[i - 1] = CR THEN <<>>
        ELSE <<text[i]>>])

addComment(r, begin, end, placement) ==
    LET text == normalizeEOL(Sub(r.doc, begin, end - begin))
    IN  IF placement = "same" THEN Comment(r, r.last, text, "same")
        ELSE [r EXCEPT !.before = @ \o text]

\* Where a comment that started before i ends.  Without its end mark the comment
\* reaches to the end of the document, and is one if a slash is the last character.
readCStyleComment(doc, i) ==
    LET marks == {j \in i .. Len(doc) - 2 : At(doc, j) = Star /\ At(doc, j + 1) = Slash}
    IN  IF marks # {} THEN [ok |-> TRUE, cur |-> 2 + CHOOSE j \in marks : \A k \in marks : j <= k]
        ELSE [ok |-> i < Len(doc) /\ Last(doc) = Slash, cur |-> Len(doc)]
RECURSIVE readCppStyleComment(_, _)
readCppStyleComment(doc, i) ==
    IF i = Len(doc) THEN i
    ELSE IF At(doc, i) = LF THEN i + 1
    ELSE IF At(doc, i) = CR THEN (IF At(doc, i + 1) = LF THEN i + 2 ELSE i + 1)
    ELSE readCppStyleComment(doc, i + 1)

readComment(r) ==
    LET begin == r.cur - 1
        c == At(r.doc, r.cur)
        at == NextAt(r.doc, r.cur)
        read == IF c = Star THEN readCStyleComment(r.doc, at)
                ELSE [ok |-> c = Slash, cur |-> IF c = Slash THEN readCppStyleComment(r.doc, at) ELSE at]
        same == /\ r.lastEnd # None /\ ~containsNewLine(r.doc, r.lastEnd, begin)
                /\ c = Star => ~containsNewLine(r.doc, begin, read.cur)
        done == [r EXCEPT !.cur = read.cur, !.ok = read.ok]
    IN  IF read.ok /\ r.collect THEN addComment(done, begin, read.cur, IF same THEN "same" ELSE "before")
        ELSE done

RECURSIVE DigitsEnd(_, _)
DigitsEnd(doc, i) == IF IsDigit(At(doc, i)) THEN DigitsEnd(doc, i + 1) ELSE i
readNumber(doc, i) ==
    LET whole == DigitsEnd(doc, i)
        frac == IF At(doc, whole) = Dot THEN DigitsEnd(doc, whole + 1) ELSE whole
        sign == IF At(doc, frac + 1) \in {Plus, Minus} THEN frac + 2 ELSE frac + 1
    IN  IF At(doc, frac) \in {69, 101} THEN DigitsEnd(doc, sign) ELSE frac

RECURSIVE readString(_, _)
readString(doc, i) ==
    IF i = Len(doc) THEN [ok |-> FALSE, cur |-> i]
    ELSE IF At(doc, i) = Backslash THEN readString(doc, NextAt(doc, i + 1))
    ELSE IF At(doc, i) = Quote THEN [ok |-> TRUE, cur |-> i + 1]
    ELSE readString(doc, i + 1)

match(doc, i, pattern) ==
    LET same == i + Len(pattern) <= Len(doc) /\ Sub(doc, i, Len(pattern)) = pattern
    IN  [ok |-> same, cur |-> IF same THEN i + Len(pattern) ELSE i]

Single == (LBrace :> "{") @@ (RBrace :> "}") @@ (LBracket :> "[") @@ (RBracket :> "]")
          @@ (Comma :> ",") @@ (Colon :> ":") @@ (0 :> "end")

readToken(r0) ==
    LET start == skipSpaces(r0.doc, r0.cur)
        c == At(r0.doc, start)
        r == [r0 EXCEPT !.cur = NextAt(r0.doc, start)]
        Token(q, type) ==
            [q EXCEPT !.tok = [type |-> IF q.ok THEN type ELSE "error", start |-> start, end |-> q.cur]]
        Scanned(s, type) == Token([r EXCEPT !.cur = s.cur, !.ok = s.ok], type)
        Word(rest, type) == Scanned(match(r.doc, r.cur, rest), type)
    IN  IF c \in DOMAIN Single THEN Token([r EXCEPT !.ok = TRUE], Single[c])
        ELSE IF c = Quote THEN Scanned(readString(r.doc, r.cur), "string")
        ELSE IF c = Slash THEN Token(readComment(r), "comment")
        ELSE IF IsDigit(c) \/ c = Minus
             THEN Scanned([ok |-> TRUE, cur |-> readNumber(r.doc, r.cur)], "number")
        ELSE IF c = Head(TrueText) THEN Word(Tail(TrueText), "true")
        ELSE IF c = Head(FalseText) THEN Word(Tail(FalseText), "false")
        ELSE IF c = Head(NullText) THEN Word(Tail(NullText), "null")
        ELSE Token([r EXCEPT !.ok = FALSE], "error")

RECURSIVE SkipComments(_)
SkipComments(r) == IF r.tok.type = "comment" THEN SkipComments(readToken(r)) ELSE r
skipCommentTokens(r) == IF r.f.allowComments THEN SkipComments(readToken(r)) ELSE readToken(r)

RECURSIVE SkipUntil(_, _)
SkipUntil(r, type) ==
    LET q == readToken(r) IN IF q.tok.type \in {type, "end"} THEN q ELSE SkipUntil(q, type)
recoverFromError(r, type) == [SkipUntil(r, type) EXCEPT !.errs = r.errs, !.ok = FALSE]
addErrorAndRecover(r, type) == recoverFromError(addError(r, r.tok, None), type)

-----------------------------------------------------------------------------
\* Decoding a token: the reader, with the error if there is one, and the value.

\* The integer of the digits from offset i, or None if it is too large for max or
\* something else than a digit is met.
RECURSIVE Integer(_, _, _, _)
Integer(text, i, value, max) ==
    LET digit == At(text, i) - 48
        last == i + 1 = Len(text)
    IN  IF i = Len(text) THEN value
        ELSE IF digit \notin 0 .. 9 THEN None
        ELSE IF value >= max \div 10 /\ (value > max \div 10 \/ ~last \/ digit > max % 10) THEN None
        ELSE Integer(text, i + 1, value * 10 + digit, max)

\* The stream takes all of the text, exponent included, or fails; it fails on overflow.
decodeDouble(r, token, text) ==
    LET d == strtod(text, "real")
    IN  IF d.len = Len(text) /\ d.val.t = "real" THEN [r |-> r, val |-> d.val]
        ELSE [r |-> addError(r, token, None), val |-> Null]

decodeNumber(r, token) ==
    LET text == Sub(r.doc, token.start, token.end - token.start)
        negative == Head(text) = Minus
        n == Integer(text, IF negative THEN 1 ELSE 0, 0, IF negative THEN MaxLargestInt + 1 ELSE MaxLargestUInt)
    IN  IF n = None THEN decodeDouble(r, token, text)
        ELSE [r |-> r, val |-> IF negative THEN Val("int", <<>>, -n, <<>>)
                               ELSE IF n <= MaxInt THEN Val("int", <<>>, n, <<>>)
                               ELSE Val("uint", <<>>, n, <<>>)]

decodeUnicodeEscapeSequence(doc, i, end) ==
    LET bad == {k \in 0 .. 3 : ~IsHex(At(doc, i + k))}
    IN  IF end - i < 4 THEN [ok |-> FALSE, at |-> i, code |-> 0]
        ELSE IF bad # {} THEN [ok |-> FALSE, at |-> i + 1 + CHOOSE k \in bad : \A l \in bad : k <= l, code |-> 0]
        ELSE [ok |-> TRUE, at |-> i + 4,
              code |-> FoldLeft(LAMBDA h, c : 16 * h + HexValue(c), 0, Sub(doc, i, 4))]

\* The second half of a pair may be any code.
decodeUnicodeCodePoint(doc, i, end) ==
    LET first == decodeUnicodeEscapeSequence(doc, i, end)
        j == first.at
        second == decodeUnicodeEscapeSequence(doc, j + 2, end)
    IN  IF ~first.ok \/ first.code \notin 55296 .. 56319 THEN first
        ELSE IF end - j < 6 THEN [first EXCEPT !.ok = FALSE]
        ELSE IF At(doc, j) # Backslash THEN [first EXCEPT !.ok = FALSE, !.at = j + 1]
        ELSE IF At(doc, j + 1) # 117 THEN [first EXCEPT !.ok = FALSE, !.at = j + 2]
        ELSE [second EXCEPT !.code = 65536 + (first.code % 1024) * 1024 + (@ % 1024)]

Escapes == (98 :> 8) @@ (102 :> 12) @@ (110 :> LF) @@ (114 :> CR) @@ (116 :> Tab)
           @@ (Quote :> Quote) @@ (Backslash :> Backslash) @@ (Slash :> Slash)

RECURSIVE Decoded(_, _, _, _)
Decoded(doc, i, end, out) ==
    LET c == At(doc, i)
        e == At(doc, i + 1)
        u == decodeUnicodeCodePoint(doc, i + 2, end)
    IN  IF i = end \/ c = Quote THEN [ok |-> TRUE, out |-> out, at |-> i]
        ELSE IF c # Backslash THEN Decoded(doc, i + 1, end, Append(out, c))
        ELSE IF i + 1 = end THEN [ok |-> FALSE, out |-> out, at |-> i + 1]
        ELSE IF e \in DOMAIN Escapes THEN Decoded(doc, i + 2, end, Append(out, Escapes[e]))
        ELSE IF e # 117 THEN [ok |-> FALSE, out |-> out, at |-> i + 2]
        ELSE IF ~u.ok THEN [ok |-> FALSE, out |-> out, at |-> u.at]
        ELSE Decoded(doc, u.at, end, out \o codePointToUTF8(u.code))

decodeString(r, token) ==
    LET d == Decoded(r.doc, token.start + 1, token.end - 1, <<>>)
    IN  [r |-> IF d.ok THEN r ELSE addError(r, token, d.at), val |-> Str(d.out)]

-----------------------------------------------------------------------------
Become(r, v, start, limit) ==
    [r EXCEPT !.tree = setOffsets(swapPayload(@, r.path, v), r.path, start, limit), !.ok = TRUE]

\* decodeNumber and decodeString into the current value.
Decode(d, token) == IF d.r.ok THEN Become(d.r, d.val, token.start, token.end) ELSE d.r

Below(r, key) == LET p == Append(r.path, key) IN [r EXCEPT !.path = p, !.tree = Demand(@, p)]
Above(r) == [r EXCEPT !.path = Front(@)]

RECURSIVE readValue(_)

\* The loop of readObject; name is that of the last member, empty before the first.
RECURSIVE Members(_, _)
Members(r, name) ==
    LET first == SkipComments(readToken(r))
        key == decodeString(first, first.tok)
        number == decodeNumber(first, first.tok)
        colon == readToken(key.r)
        value == readValue(Below(colon, key.val.s))
        comma == readToken(Above(value))
        next == SkipComments(comma)
    IN  IF first.tok.type = "}" /\ name = <<>> THEN first
        ELSE IF first.tok.type = "number" /\ r.f.allowNumericKeys
             THEN IF number.r.ok THEN Thrown(first) ELSE recoverFromError(number.r, "}")
        ELSE IF first.tok.type # "string" THEN addErrorAndRecover(first, "}")
        ELSE IF ~key.r.ok THEN recoverFromError(key.r, "}")
        ELSE IF colon.tok.type # ":" THEN addErrorAndRecover(colon, "}")
        ELSE IF value.thrown THEN value
        ELSE IF ~value.ok THEN recoverFromError(Above(value), "}")
        ELSE IF comma.tok.type \notin {"}", ",", "comment"} THEN addErrorAndRecover(comma, "}")
        ELSE IF next.tok.type = "}" THEN next
        ELSE Members(next, key.val.s)

readObject(r, token) == Members(Become(r, Obj(<<>>), token.start, r.tree[r.path].limit), <<>>)

RECURSIVE Elements(_, _)
Elements(r, index) ==
    LET value == readValue(Below(r, Index(index)))
        next == SkipComments(readToken(Above(value)))
    IN  IF value.thrown THEN value
        ELSE IF ~value.ok THEN recoverFromError(Above(value), "]")
        ELSE IF next.tok.type \notin {",", "]"} THEN addErrorAndRecover(next, "]")
        ELSE IF next.tok.type = "]" THEN next
        ELSE Elements(next, index + 1)

readArray(r, token) ==
    LET q == Become(r, Arr(<<>>), token.start, r.tree[r.path].limit)
        at == skipSpaces(r.doc, r.cur)
    IN  IF At(r.doc, at) = RBracket THEN readToken(q) ELSE Elements([q EXCEPT !.cur = at], 0)

readValue(r0) ==
    LET r1 == skipCommentTokens(r0)
        r == IF r1.collect /\ r1.before # <<>>
             THEN [Comment(r1, r1.path, r1.before, "before") EXCEPT !.before = <<>>] ELSE r1
        tok == r.tok
        Closed(q) == [q EXCEPT !.tree[r.path].limit = q.cur]
        bad == addError([r EXCEPT !.tree = setOffsets(@, r.path, tok.start, tok.end)], tok, None)
        done == CASE tok.type = "{" -> Closed(readObject(r, tok))
                  [] tok.type = "[" -> Closed(readArray(r, tok))
                  [] tok.type = "number" -> Decode(decodeNumber(r, tok), tok)
                  [] tok.type = "string" -> Decode(decodeString(r, tok), tok)
                  [] tok.type = "true" -> Become(r, True, tok.start, tok.end)
                  [] tok.type = "false" -> Become(r, False, tok.start, tok.end)
                  [] tok.type = "null" -> Become(r, Null, tok.start, tok.end)
                  [] tok.type \in {",", "}", "]"} /\ r.f.allowDroppedNullPlaceholders ->
                        [Become(r, Null, r.cur - 2, r.cur - 1) EXCEPT !.cur = r.cur - 1]
                  [] OTHER -> bad
        dropped == tok.type \in {",", "}", "]"} /\ ~r.f.allowDroppedNullPlaceholders
    IN  IF Len(r0.path) + 1 > stackLimit_g THEN Thrown(r0)
        ELSE IF r.collect /\ ~dropped /\ tok.type \notin {"error", "end", ":", "comment"}
             THEN [done EXCEPT !.lastEnd = done.cur, !.last = r.path] ELSE done

\* A reader that was never used, and a parse with it into a tree.
NewReader(f) ==
    [doc |-> <<>>, f |-> f, cur |-> 0, errs |-> <<>>, path |-> <<>>, tree |-> NewTree,
     before |-> <<>>, last |-> <<>>, lastEnd |-> None, collect |-> FALSE,
     tok |-> [type |-> "end", start |-> 0, end |-> 0], ok |-> TRUE, thrown |-> FALSE]

parse(old, doc, tree, collectComments) ==
    LET r0 == [old EXCEPT !.doc = doc, !.tree = tree, !.collect = collectComments /\ old.f.allowComments,
                 !.cur = 0, !.lastEnd = None, !.last = <<>>, !.before = <<>>, !.errs = <<>>,
                 !.path = <<>>, !.thrown = FALSE]
        value == readValue(r0)
        after == skipCommentTokens(value)
        root == IF after.collect /\ after.before # <<>> THEN Comment(after, <<>>, after.before, "after") ELSE after
        whole == [type |-> "error", start |-> 0, end |-> Len(doc)]
    IN  IF value.thrown \/ root.thrown THEN Thrown(root)
        ELSE IF old.f.strictRoot /\ root.tree[<<>>].t \notin {"arr", "obj"} THEN addError(root, whole, None)
        ELSE [root EXCEPT !.ok = value.ok]

all == [allowComments |-> TRUE, strictRoot |-> FALSE, allowDroppedNullPlaceholders |-> FALSE,
        allowNumericKeys |-> FALSE]
strictMode == [all EXCEPT !.allowComments = FALSE, !.strictRoot = TRUE]
=============================================================================
