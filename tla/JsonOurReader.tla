---------------------------- MODULE JsonOurReader ----------------------------
(***************************************************************************)
(* class OurReader of ProtoBuf/jsoncpp_test/json_reader.cpp, the reader    *)
(* behind CharReaderBuilder.  The file calls it a "complete copy" of       *)
(* Reader; the methods that are still the same are those of JsonReader,    *)
(* the others are here, under their own names.                             *)
(***************************************************************************)
EXTENDS JsonNodes

CONSTANTS MaxInt, MaxLargestInt, MaxLargestUInt, stackLimit_g,
          MaxName              \* 2^30: names of this length throw

R == INSTANCE JsonReader

NoNumber == R!None

readCommentAgain(r) ==                                       \* mutant of readComment
    LET begin == r.cur - 1
        c == R!At(r.doc, r.cur)
        at == R!NextAt(r.doc, r.cur)
        read == IF c = Star THEN R!readCStyleComment(r.doc, at)
                ELSE [ok |-> c = Slash, cur |-> IF c = Slash THEN R!readCppStyleComment(r.doc, at) ELSE at]
        embedded == c = Star /\ \E k \in at .. read.cur - 1 : R!At(r.doc, k) = LF
        same == /\ r.lastEnd # NoNumber /\ ~R!containsNewLine(r.doc, r.lastEnd, begin)
                /\ ~embedded
        done == [r EXCEPT !.cur = read.cur, !.ok = read.ok]
    IN  IF ~(read.ok /\ r.collect) THEN done
        ELSE R!addComment([done EXCEPT !.hasComment = @ \/ same], begin, read.cur,
                          IF same THEN "same" ELSE "before")

\* Only '\n' counts as a new line here.
readComment(r) ==
    LET begin == r.cur - 1
        c == R!At(r.doc, r.cur)
        at == R!NextAt(r.doc, r.cur)
        read == IF c = Star THEN R!readCStyleComment(r.doc, at)
                ELSE [ok |-> c = Slash, cur |-> IF c = Slash THEN R!readCppStyleComment(r.doc, at) ELSE at]
        embedded == c = Star /\ \E k \in at .. read.cur - 1 : R!At(r.doc, k) = LF
        same == /\ ~r.hasComment /\ r.lastEnd # NoNumber /\ ~R!containsNewLine(r.doc, r.lastEnd, begin)
                /\ ~embedded
        done == [r EXCEPT !.cur = read.cur, !.ok = read.ok]
    IN  IF ~(read.ok /\ r.collect) THEN done
        ELSE R!addComment([done EXCEPT !.hasComment = @ \/ same], begin, read.cur,
                          IF same THEN "same" ELSE "before")

RECURSIVE readStringSingleQuote(_, _)
readStringSingleQuote(doc, i) ==
    IF i = Len(doc) THEN [ok |-> FALSE, cur |-> i]
    ELSE IF R!At(doc, i) = Backslash THEN readStringSingleQuote(doc, R!NextAt(doc, i + 1))
    ELSE IF R!At(doc, i) = Apostrophe THEN [ok |-> TRUE, cur |-> i + 1]
    ELSE readStringSingleQuote(doc, i + 1)

\* A sign before an 'I' starts no number; the 'I' is consumed.
readNumber(doc, i, checkInf) ==
    IF checkInf /\ R!At(doc, i) = 73 THEN [number |-> FALSE, cur |-> i + 1]
    ELSE [number |-> TRUE, cur |-> R!readNumber(doc, i)]

nfinity == <<110, 102, 105, 110, 105, 116, 121>>

\* An apostrophe that starts no string is read as a comment would be.
readToken(r0) ==
    LET start == R!skipSpaces(r0.doc, r0.cur)
        c == R!At(r0.doc, start)
        r == [r0 EXCEPT !.cur = R!NextAt(r0.doc, start)]
        Token(q, type) ==
            [q EXCEPT !.tok = [type |-> IF q.ok THEN type ELSE "error", start |-> start, end |-> q.cur]]
        Scanned(s, type) == Token([r EXCEPT !.cur = s.cur, !.ok = s.ok], type)
        Word(at, rest, type) == Scanned(R!match(r.doc, at, rest), type)
        Special(at, rest, type) ==
            IF r.f.allowSpecialFloats THEN Word(at, rest, type)
            ELSE Token([r EXCEPT !.cur = at, !.ok = FALSE], "error")
        number == readNumber(r.doc, r.cur, c \in {Minus, Plus})
    IN  IF c \in DOMAIN R!Single THEN Token([r EXCEPT !.ok = TRUE], R!Single[c])
        ELSE IF c = Quote THEN Scanned(R!readString(r.doc, r.cur), "string")
        ELSE IF c = Apostrophe /\ r.f.allowSingleQuotes
             THEN Scanned(readStringSingleQuote(r.doc, r.cur), "string")
        ELSE IF c \in {Slash, Apostrophe} THEN Token(readComment(r), "comment")
        ELSE IF (IsDigit(c) \/ c \in {Minus, Plus}) /\ number.number
             THEN Scanned([ok |-> TRUE, cur |-> number.cur], "number")
        ELSE IF c \in {Minus, Plus} THEN Special(number.cur, nfinity, IF c = Minus THEN "-inf" ELSE "+inf")
        ELSE IF c = Head(TrueText) THEN Word(r.cur, Tail(TrueText), "true")
        ELSE IF c = Head(FalseText) THEN Word(r.cur, Tail(FalseText), "false")
        ELSE IF c = Head(NullText) THEN Word(r.cur, Tail(NullText), "null")
        ELSE IF c = 78 THEN Special(r.cur, <<97, 78>>, "nan")
        ELSE IF c = 73 THEN Special(r.cur, nfinity, "+inf")
        ELSE Token([r EXCEPT !.ok = FALSE], "error")

RECURSIVE SkipComments(_)
SkipComments(r) == IF r.tok.type = "comment" THEN SkipComments(readToken(r)) ELSE r
skipCommentTokens(r) == IF r.f.allowComments THEN SkipComments(readToken(r)) ELSE readToken(r)

RECURSIVE SkipUntil(_, _)
SkipUntil(r, type) ==
    LET q == readToken(r) IN IF q.tok.type \in {type, "end"} THEN q ELSE SkipUntil(q, type)
recoverSilently(r, type) ==                                  \* mutant of the next
    [SkipUntil(r, type) EXCEPT !.errs = r.errs, !.ok = TRUE]
recoverFromError(r, type) == [SkipUntil(r, type) EXCEPT !.errs = r.errs, !.ok = FALSE]
addErrorAndRecover(r, type) == recoverFromError(R!addError(r, r.tok, NoNumber), type)

\* sscanf is content with a number at the start of the text, and with an infinity.
decodeDouble(r, token, text) ==
    LET d == strtod(text, "real")
    IN  IF d.len > 0 THEN [r |-> r, val |-> d.val]
        ELSE [r |-> R!addError(r, token, NoNumber), val |-> Null]

decodeNumberNoMin(r, token) ==                               \* mutant of decodeNumber
    LET text == Sub(r.doc, token.start, token.end - token.start)
        negative == Head(text) = Minus
        n == R!Integer(text, IF negative THEN 1 ELSE 0, 0, IF negative THEN MaxLargestInt ELSE MaxLargestUInt)
    IN  IF n = NoNumber THEN decodeDouble(r, token, text)
        ELSE [r |-> r, val |-> Val("int", <<>>, IF negative THEN -n ELSE n, <<>>)]
\* LargestInt(value) wraps for the smallest number, and so does its negation.
decodeNumber(r, token) ==
    LET text == Sub(r.doc, token.start, token.end - token.start)
        negative == Head(text) = Minus
        n == R!Integer(text, IF negative THEN 1 ELSE 0, 0, IF negative THEN MaxLargestInt + 1 ELSE MaxLargestUInt)
    IN  IF n = NoNumber THEN decodeDouble(r, token, text)
        ELSE [r |-> r, val |-> IF negative THEN Val("int", <<>>, -n, <<>>)
                               ELSE IF n <= MaxLargestInt THEN Val("int", <<>>, n, <<>>)
                               ELSE Val("uint", <<>>, n, <<>>)]

asString(v) == IF v.t = "int" \/ v.t = "uint" THEN Digits(v.n) ELSE RealText(v)

RECURSIVE readValue(_)

RECURSIVE Members(_, _)
Members(r, name) ==
    LET first == SkipComments(readToken(r))
        numeric == first.tok.type = "number" /\ r.f.allowNumericKeys
        read == IF numeric THEN decodeNumber(first, first.tok) ELSE R!decodeString(first, first.tok)
        key == IF numeric THEN asString(read.val) ELSE read.val.s
        colon == readToken(read.r)
        value == readValue(R!Below(colon, key))
        comma == readToken(R!Above(value))
        next == SkipComments(comma)
    IN  IF first.tok.type = "}" /\ name = <<>> THEN first
        ELSE IF first.tok.type # "string" /\ ~numeric THEN addErrorAndRecover(first, "}")
        ELSE IF ~read.r.ok THEN recoverFromError(read.r, "}")
        ELSE IF Len(key) >= MaxName THEN R!Thrown(first)
        ELSE IF r.f.rejectDupKeys /\ key \in KeysAt(r.tree, r.path) THEN addErrorAndRecover(first, "}")
        ELSE IF colon.tok.type # ":" THEN addErrorAndRecover(colon, "}")
        ELSE IF value.thrown THEN value
        ELSE IF ~value.ok THEN recoverFromError(R!Above(value), "}")
        ELSE IF comma.tok.type \notin {"}", ",", "comment"} THEN addErrorAndRecover(comma, "}")
        ELSE IF next.tok.type = "}" THEN next
        ELSE Members(next, key)

readObject(r, token) == Members(R!Become(r, Obj(<<>>), token.start, r.tree[r.path].limit), <<>>)

RECURSIVE Elements(_, _)
Elements(r, index) ==
    LET value == readValue(R!Below(r, Index(index)))
        next == SkipComments(readToken(R!Above(value)))
    IN  IF value.thrown THEN value
        ELSE IF ~value.ok THEN recoverFromError(R!Above(value), "]")
        ELSE IF next.tok.type \notin {",", "]"} THEN addErrorAndRecover(next, "]")
        ELSE IF next.tok.type = "]" THEN next
        ELSE Elements(next, index + 1)

readArray(r, token) ==
    LET q == R!Become(r, Arr(<<>>), token.start, r.tree[r.path].limit)
        at == R!skipSpaces(r.doc, r.cur)
    IN  IF R!At(r.doc, at) = RBracket THEN readToken(q) ELSE Elements([q EXCEPT !.cur = at], 0)

Special(type) == Val(type, <<>>, 0, <<>>)

readValue(r0) ==
    LET r1 == skipCommentTokens(r0)
        r == IF r1.collect /\ r1.before # <<>>
             THEN [R!Comment(r1, r1.path, r1.before, "before") EXCEPT !.before = <<>>] ELSE r1
        tok == r.tok
        separator == tok.type \in {",", "}", "]"}
        Closed(q) == [q EXCEPT !.tree[r.path].limit = q.cur]
        Is(v) == R!Become(r, v, tok.start, tok.end)
        bad == R!addError([r EXCEPT !.tree = setOffsets(@, r.path, tok.start, tok.end)], tok, NoNumber)
        done == CASE tok.type = "{" -> Closed(readObject(r, tok))
                  [] tok.type = "[" -> Closed(readArray(r, tok))
                  [] tok.type = "number" -> R!Decode(decodeNumber(r, tok), tok)
                  [] tok.type = "string" -> R!Decode(R!decodeString(r, tok), tok)
                  [] tok.type = "true" -> Is(True)
                  [] tok.type = "false" -> Is(False)
                  [] tok.type = "null" -> Is(Null)
                  [] tok.type \in {"nan", "+inf", "-inf"} -> Is(Special(tok.type))
                  [] separator /\ r.f.allowDroppedNullPlaceholders ->
                        [R!Become(r, Null, r.cur - 2, r.cur - 1) EXCEPT !.cur = r.cur - 1]
                  [] OTHER -> bad
        refused == \/ separator /\ ~r.f.allowDroppedNullPlaceholders
                   \/ tok.type \in {"error", "end", ":", "comment"}
    IN  IF Len(r0.path) + 1 > r0.f.stackLimit THEN R!Thrown(r0)
        ELSE IF ~r.collect \/ refused THEN done
        ELSE [done EXCEPT !.lastEnd = done.cur, !.last = r.path, !.hasComment = FALSE]

\* A reader that was never used, and a parse with it; lastValueHasAComment_ stays as
\* the last parse left it.
NewReader(f) ==
    [doc |-> <<>>, f |-> f, cur |-> 0, errs |-> <<>>, path |-> <<>>, tree |-> NewTree,
     before |-> <<>>, last |-> <<>>, lastEnd |-> NoNumber, collect |-> FALSE, hasComment |-> FALSE,
     tok |-> [type |-> "end", start |-> 0, end |-> 0], ok |-> TRUE, thrown |-> FALSE]

parse(old, doc, tree, collectComments) ==
    LET r0 == [old EXCEPT !.doc = doc, !.tree = tree, !.collect = collectComments /\ old.f.allowComments,
                 !.cur = 0, !.lastEnd = NoNumber, !.last = <<>>, !.before = <<>>, !.errs = <<>>,
                 !.path = <<>>, !.thrown = FALSE]
        value == readValue(r0)
        after == skipCommentTokens(value)
        extra == old.f.failIfExtra /\ after.tok.type # "end"
        root == IF after.collect /\ after.before # <<>> THEN R!Comment(after, <<>>, after.before, "after") ELSE after
        whole == [type |-> "error", start |-> 0, end |-> Len(doc)]
    IN  IF value.thrown \/ after.thrown THEN R!Thrown(after)
        ELSE IF extra THEN R!addError(after, after.tok, NoNumber)
        ELSE IF root.thrown THEN root
        ELSE IF old.f.strictRoot /\ root.tree[<<>>].t \notin {"arr", "obj"} THEN R!addError(root, whole, NoNumber)
        ELSE [root EXCEPT !.ok = value.ok]

\* CharReaderBuilder: the default and the strict settings, as the features they give.
setDefaults ==
    [collectComments |-> TRUE, allowComments |-> TRUE, strictRoot |-> FALSE,
     allowDroppedNullPlaceholders |-> FALSE, allowNumericKeys |-> FALSE, allowSingleQuotes |-> FALSE,
     stackLimit |-> stackLimit_g, failIfExtra |-> FALSE, rejectDupKeys |-> FALSE, allowSpecialFloats |-> FALSE]
strictMode ==
    [setDefaults EXCEPT !.allowComments = FALSE, !.strictRoot = TRUE, !.failIfExtra = TRUE, !.rejectDupKeys = TRUE]
=============================================================================
