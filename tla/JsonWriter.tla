----------------------------- MODULE JsonWriter -----------------------------
(***************************************************************************)
(* The writers of ProtoBuf/jsoncpp_test/json_writer.cpp: FastWriter, and   *)
(* the three that lay a value out over lines, StyledWriter ("styled"),     *)
(* StyledStreamWriter ("stream") and BuiltStyledStreamWriter ("built").    *)
(* They write the tree of a value with its comments.  A writer is a record *)
(* of its settings, the text so far, the indentation, and what is kept     *)
(* between the calls: childValues_ and indented_.  For StyledWriter, which *)
(* has no indented_, it stays FALSE.                                       *)
(***************************************************************************)
EXTENDS JsonNodes

CONSTANT rightMargin_

Hex(cp) == <<Backslash, 117>> \o Hex4(cp)
Short == (8 :> 98) @@ (12 :> 102) @@ (LF :> 110) @@ (CR :> 114) @@ (Tab :> 116)
         @@ (Quote :> Quote) @@ (Backslash :> Backslash)

\* utf8ToCodepoint: the code point at i and the bytes it takes.
Replacement == 65533
utf8ToCodepoint(s, i) ==
    LET first == s[i]
        n == CASE first < 128 -> 1 [] first \in 128 .. 223 -> 2 [] first \in 224 .. 239 -> 3
               [] first \in 240 .. 247 -> 4 [] OTHER -> 0
        low(j) == s[i + j] % 64
        cp == CASE n = 2 -> 64 * (first % 32) + low(1)
                [] n = 3 -> 4096 * (first % 16) + 64 * low(1) + low(2)
                [] n = 4 -> 262144 * (first % 8) + 4096 * low(1) + 64 * low(2) + low(3)
    IN  IF n = 1 THEN [cp |-> first, n |-> 1]
        ELSE IF n = 0 \/ Len(s) - i + 1 < n THEN [cp |-> Replacement, n |-> 1]
        ELSE [cp |-> IF cp < <<0, 128, 2048, 65536>>[n] \/ (n = 3 /\ cp \in 55296 .. 57343)
                     THEN Replacement ELSE cp, n |-> n]

RECURSIVE Quoted(_, _, _)
Quoted(s, i, emitUTF8) ==
    LET u == utf8ToCodepoint(s, i)
        rest == u.cp - 65536
    IN  IF i > Len(s) THEN <<>>
        ELSE IF s[i] \in DOMAIN Short THEN <<Backslash, Short[s[i]]>> \o Quoted(s, i + 1, emitUTF8)
        ELSE IF emitUTF8 THEN <<s[i]>> \o Quoted(s, i + 1, emitUTF8)
        ELSE (IF u.cp \in 32 .. 127 THEN <<u.cp>>
              ELSE IF u.cp < 65536 THEN Hex(u.cp)
              ELSE Hex(rest \div 1024 + 55296) \o Hex((rest % 1024) + 56320)) \o Quoted(s, i + u.n, emitUTF8)
valueToQuotedStringN(s, emitUTF8) == <<Quote>> \o Quoted(s, 1, emitUTF8) \o <<Quote>>

\* valueToQuotedString takes a C string.
CString(s) == IF Contains(s, NUL) THEN SubSeq(s, 1, SelectInSeq(s, LAMBDA c : c = NUL) - 1) ELSE s
valueToQuotedString(s) == valueToQuotedStringN(CString(s), FALSE)

RECURSIVE fixZerosInTheEnd(_)
fixZerosInTheEnd(text) ==
    IF text = <<>> \/ Last(text) # 48 THEN text
    ELSE IF Len(text) > 1 /\ text[Len(text) - 1] = Dot THEN text
    ELSE fixZerosInTheEnd(Front(text))

\* valueToString of a double, in hundredths: all significant digits, or two or more places.
Infinity == <<73, 110, 102, 105, 110, 105, 116, 121>>
DoubleText(v, w) ==
    LET abs == IF v.n < 0 THEN -v.n ELSE v.n
        places == <<48 + ((abs \div 10) % 10), 48 + (abs % 10)>> \o [i \in 1 .. w.precision - 2 |-> 48]
        sign == IF Negative(v) THEN <<Minus>> ELSE <<>>
    IN  CASE v.t = "nan" -> IF w.useSpecialFloats THEN <<78, 97, 78>> ELSE NullText
          [] v.t = "+inf" /\ w.useSpecialFloats -> Infinity
          [] v.t = "-inf" /\ w.useSpecialFloats -> <<Minus>> \o Infinity
          [] v.t = "real" /\ w.precisionType = "decimal" ->
                fixZerosInTheEnd(sign \o Digits(abs \div 100) \o <<Dot>> \o places)
          [] OTHER -> RealText(v)

\* What writeValue writes for a value that holds no other.
ScalarText(v, w) ==
    CASE v.t = "null" -> w.nullSymbol
      [] v.t \in {"int", "uint"} -> Digits(v.n)
      [] v.t \in {"real", "nan", "+inf", "-inf"} -> DoubleText(v, w)
      [] v.t = "str" -> valueToQuotedStringN(v.s, w.emitUTF8)
      [] v.t = "true" -> TrueText
      [] v.t = "false" -> FalseText
      [] v.t = "arr" -> <<LBracket, RBracket>>
      [] v.t = "obj" -> <<LBrace, RBrace>>

KeysInOrder(tree, path) == SetToSortSeq(KeysAt(tree, path), NameLess)
Colons == <<Space, Colon, Space>>

-----------------------------------------------------------------------------
\* FastWriter.
RECURSIVE FastValue(_, _, _)
FastValue(w, tree, path) ==
    LET v == tree[path]
        keys == KeysInOrder(tree, path)
        Part(i) == (IF i > 1 THEN <<Comma>> ELSE <<>>)
                   \o (IF v.t = "obj" THEN valueToQuotedStringN(keys[i], FALSE) \o w.colonSymbol ELSE <<>>)
                   \o FastValue(w, tree, Append(path, keys[i]))
        parts == FlattenSeq([i \in DOMAIN keys |-> Part(i)])
    IN  CASE v.t = "arr" -> <<LBracket>> \o parts \o <<RBracket>>
          [] v.t = "obj" -> <<LBrace>> \o parts \o <<RBrace>>
          [] OTHER -> ScalarText(v, w)
FastWriter(yamlCompatibilityEnabled_, dropNullPlaceholders_, omitEndingLineFeed_) ==
    [k |-> "fast", colonSymbol |-> IF yamlCompatibilityEnabled_ THEN <<Colon, Space>> ELSE <<Colon>>,
     nullSymbol |-> IF dropNullPlaceholders_ THEN <<>> ELSE NullText, emitUTF8 |-> FALSE,
     useSpecialFloats |-> FALSE, precision |-> 17, precisionType |-> "significant",
     end |-> IF omitEndingLineFeed_ THEN <<>> ELSE <<LF>>]

-----------------------------------------------------------------------------
\* The three writers with a layout.
StyledWriter ==
    [k |-> "styled", indentation |-> <<Space, Space, Space>>, cs |-> "All", colonSymbol |-> Colons,
     nullSymbol |-> NullText, emitUTF8 |-> FALSE, useSpecialFloats |-> FALSE, precision |-> 17,
     precisionType |-> "significant", end |-> <<LF>>,
     out |-> <<>>, indentString |-> <<>>, childs |-> <<>>, indented |-> FALSE]
StyledStreamWriter(indentation) == [StyledWriter EXCEPT !.k = "stream", !.indentation = indentation]
newStreamWriter(s) ==
    [StyledWriter EXCEPT !.k = "built", !.indentation = s.indentation, !.cs = s.commentStyle,
       !.colonSymbol = IF s.enableYAMLCompatibility THEN <<Colon, Space>>
                       ELSE IF s.indentation = <<>> THEN <<Colon>> ELSE Colons,
       !.nullSymbol = IF s.dropNullPlaceholders THEN <<>> ELSE NullText,
       !.useSpecialFloats = s.useSpecialFloats, !.emitUTF8 = s.emitUTF8,
       !.precision = IF s.precision > 17 THEN 17 ELSE s.precision,
       !.precisionType = s.precisionType, !.end = <<>>]
setDefaults ==
    [commentStyle |-> "All", indentation |-> <<Tab>>, enableYAMLCompatibility |-> FALSE,
     dropNullPlaceholders |-> FALSE, useSpecialFloats |-> FALSE, emitUTF8 |-> FALSE,
     precision |-> 17, precisionType |-> "significant"]

Put(w, text) == [w EXCEPT !.out = @ \o text]
\* With addChildValues_ set, the text becomes one of childValues_: see isMultilineArray.
pushValue(w, text) == Put(w, text)

\* StyledWriter looks at what it wrote, the others trust indented_.
StyledIndent(w) ==
    LET last == IF w.out = <<>> THEN LF ELSE Last(w.out)
    IN  IF last = Space THEN w
        ELSE Put(w, (IF last = LF THEN <<>> ELSE <<LF>>) \o w.indentString)
writeIndent(w) ==
    IF w.k = "styled" THEN StyledIndent(w)
    ELSE IF w.k = "built" /\ w.indentation = <<>> THEN w
    ELSE Put(w, <<LF>> \o w.indentString)
UnlessIndented(w) == IF w.indented THEN w ELSE writeIndent(w)
Indented(w, yes) == [w EXCEPT !.indented = yes /\ w.k # "styled"]
writeWithIndent(w, text) == Indented(Put(UnlessIndented(w), text), FALSE)
indent(w) == [w EXCEPT !.indentString = @ \o w.indentation]
unindent(w) == [w EXCEPT !.indentString = SubSeq(@, 1, Len(@) - Len(w.indentation))]

RECURSIVE CommentLines(_, _, _)
CommentLines(w, text, i) ==
    LET q == Put(w, <<text[i]>>)
        newline == text[i] = LF /\ i < Len(text) /\ text[i + 1] = Slash
    IN  IF i > Len(text) THEN w
        ELSE CommentLines(IF ~newline THEN q
                          ELSE IF w.k = "styled" THEN writeIndent(q) ELSE Put(q, w.indentString), text, i + 1)

writeCommentBeforeValue(w, v) ==
    IF w.cs = "None" \/ v.before = <<>> THEN w
    ELSE IF w.k = "styled" THEN Put(CommentLines(writeIndent(Put(w, <<LF>>)), v.before, 1), <<LF>>)
    ELSE Indented(CommentLines(UnlessIndented(w), v.before, 1), FALSE)
writeCommentAfterValueOnSameLine(w, v) ==
    LET q == IF v.same # <<>> THEN Put(w, <<Space>> \o v.same) ELSE w
        after == IF v.after = <<>> THEN q
                 ELSE IF w.k = "styled" THEN Put(q, <<LF>> \o v.after \o <<LF>>)
                 ELSE Put(writeIndent(q), v.after)
    IN  IF w.cs = "None" THEN w ELSE IF w.k = "stream" THEN Indented(after, FALSE) ELSE after
hasCommentForValue(v) == v.before # <<>> \/ v.same # <<>> \/ v.after # <<>>

\* isMultilineArray fills childValues_ when no element holds values.
isMultilineArray(w, tree, path) ==
    LET elements == [i \in 1 .. Cardinality(KeysAt(tree, path)) |-> Append(path, Index(i - 1))]
        nested == \E i \in DOMAIN elements : KeysAt(tree, elements[i]) # {}
        texts == [i \in DOMAIN elements |-> ScalarText(tree[elements[i]], w)]
        lineLength == 4 + (Len(elements) - 1) * 2 + Len(FlattenSeq(texts))
    IN  IF Len(elements) * 3 >= rightMargin_ \/ nested THEN [multi |-> TRUE, w |-> [w EXCEPT !.childs = <<>>]]
        ELSE [multi |-> \/ \E i \in DOMAIN elements : hasCommentForValue(tree[elements[i]])
                        \/ lineLength >= rightMargin_,
              w |-> [w EXCEPT !.childs = texts]]

RECURSIVE writeValue(_, _, _), writeMembers(_, _, _, _), writeElements(_, _, _, _, _)
writeMembers(w, tree, paths, i) ==
    LET v == tree[paths[i]]
        name == Last(paths[i])
        quoted == IF w.k = "built" THEN valueToQuotedStringN(name, w.emitUTF8) ELSE valueToQuotedString(name)
        head == Put(writeWithIndent(writeCommentBeforeValue(w, v), quoted), w.colonSymbol)
        value == writeValue(head, tree, paths[i])
    IN  IF i = Len(paths) THEN writeCommentAfterValueOnSameLine(value, v)
        ELSE writeMembers(writeCommentAfterValueOnSameLine(Put(value, <<Comma>>), v), tree, paths, i + 1)

CommaAfterComment(w, tree, paths, i, hasChildValue) ==       \* mutant of writeElements
    LET v == tree[paths[i]]
        q == writeCommentBeforeValue(w, v)
        value == IF hasChildValue THEN writeWithIndent(q, w.childs[i])
                 ELSE Indented(writeValue(Indented(UnlessIndented(q), TRUE), tree, paths[i]), FALSE)
        noted == writeCommentAfterValueOnSameLine(value, v)
    IN  IF i = Len(paths) THEN noted
        ELSE writeElements(Put(noted, <<Comma>>), tree, paths, i + 1, hasChildValue)
writeElements(w, tree, paths, i, hasChildValue) ==
    LET v == tree[paths[i]]
        q == writeCommentBeforeValue(w, v)
        value == IF hasChildValue THEN writeWithIndent(q, w.childs[i])
                 ELSE Indented(writeValue(Indented(UnlessIndented(q), TRUE), tree, paths[i]), FALSE)
    IN  IF i = Len(paths) THEN writeCommentAfterValueOnSameLine(value, v)
        ELSE writeElements(writeCommentAfterValueOnSameLine(Put(value, <<Comma>>), v), tree, paths, i + 1,
                           hasChildValue)

writeArrayValue(w, tree, path, paths) ==
    LET m == IF w.k = "built" /\ w.cs = "All" THEN [multi |-> TRUE, w |-> w] ELSE isMultilineArray(w, tree, path)
        gap == IF w.k = "built" /\ w.indentation = <<>> THEN <<>> ELSE <<Space>>
        line == FlattenSeq([i \in DOMAIN m.w.childs |-> (IF i = 1 THEN gap ELSE <<Comma>> \o gap) \o m.w.childs[i]])
    IN  IF m.multi
        THEN writeWithIndent(unindent(writeElements(indent(writeWithIndent(m.w, <<LBracket>>)), tree, paths, 1,
                                                    m.w.childs # <<>>)), <<RBracket>>)
        ELSE Put(m.w, <<LBracket>> \o line \o gap \o <<RBracket>>)

writeValue(w, tree, path) ==
    LET v == tree[path]
        keys == KeysInOrder(tree, path)
        paths == [i \in DOMAIN keys |-> Append(path, keys[i])]
    IN  IF keys = <<>> THEN pushValue(w, ScalarText(v, w))
        ELSE IF v.t = "arr" THEN writeArrayValue(w, tree, path, paths)
        ELSE writeWithIndent(unindent(writeMembers(indent(writeWithIndent(w, <<LBrace>>)), tree, paths, 1)),
                             <<RBrace>>)

\* write: the text of a value.
write(w, tree) ==
    LET before == writeCommentBeforeValue(Indented(w, TRUE), tree[<<>>])
        start == IF w.k = "styled" THEN before ELSE Indented(UnlessIndented(before), TRUE)
    IN  IF w.k = "fast" THEN FastValue(w, tree, <<>>) \o w.end
        ELSE Put(writeCommentAfterValueOnSameLine(writeValue(start, tree, <<>>), tree[<<>>]), w.end).out
=============================================================================
