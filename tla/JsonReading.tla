----------------------------- MODULE JsonReading -----------------------------
(***************************************************************************)
(* What both jsoncpp readers promise for a document.  A behaviour is one   *)
(* call: its step brings the document; f are the features it is read with, *)
(* earlier is the document the reader was used for before.                 *)
(***************************************************************************)
EXTENDS JsonNodes

CONSTANTS Documents, Earlier, MaxInt, MaxLargestInt, MaxLargestUInt, stackLimit_g, MaxName,
          rightMargin_

VARIABLES doc, earlier, f

readVars == <<doc, earlier, f>>

Old == INSTANCE JsonReader
Our == INSTANCE JsonOurReader
W == INSTANCE JsonWriter

\* The settings read with: the defaults, the strict ones, and all extensions.
Lenient == [Our!setDefaults EXCEPT !.allowDroppedNullPlaceholders = TRUE, !.allowNumericKeys = TRUE,
              !.allowSingleQuotes = TRUE, !.failIfExtra = TRUE, !.allowSpecialFloats = TRUE,
              !.rejectDupKeys = TRUE]
Settings == {Our!setDefaults, Our!strictMode, Lenient}

Init == doc = NoText /\ earlier \in Earlier /\ f \in Settings
Next == doc = NoText /\ doc' \in Documents /\ UNCHANGED <<earlier, f>>
Spec == Init /\ [][Next]_readVars

OurParse(d, tree, comments) == Our!parse(Our!NewReader(f), d, tree, comments)

-----------------------------------------------------------------------------
RECURSIVE Inside(_, _)
\* The offsets of a value hold those of what it contains, in the order of the document.
Inside(tree, path) ==
    LET below == {p \in DOMAIN tree : IsStrictPrefix(path, p) /\ Len(p) = Len(path) + 1}
    IN  /\ \A p \in below : /\ tree[path].start < tree[p].start /\ tree[p].limit < tree[path].limit
                            /\ Inside(tree, p)
        /\ \A p, q \in below : p # q => tree[p].limit <= tree[q].start \/ tree[q].limit <= tree[p].start

\* A parse reports an error exactly if it fails, every error is in the document, and
\* the offsets of an accepted value are right: each part of it, read alone, is the same value.
ReadsSoundly(d) ==
    LET r == OurParse(d, NewTree, FALSE)
    IN  /\ ~r.thrown => (r.ok <=> r.errs = <<>>)
        /\ \A i \in DOMAIN r.errs :
              /\ r.errs[i].start <= r.errs[i].end /\ r.errs[i].end <= Len(d)
              /\ r.errs[i].extra \in {-1} \cup r.errs[i].start + 1 .. r.errs[i].end
        /\ (r.ok /\ ~f.allowDroppedNullPlaceholders) =>
              /\ Inside(r.tree, <<>>)
              /\ \A p \in DOMAIN r.tree :
                    LET n == r.tree[p]
                        again == Our!parse(Our!NewReader([f EXCEPT !.strictRoot = FALSE]),
                                           Sub(d, n.start, n.limit - n.start), NewTree, FALSE)
                    IN  again.ok /\ ValueAt(again.tree, <<>>) = ValueAt(r.tree, p)

\* The texts of the tokens of a type, comments and numbers among them.
RECURSIVE TokensIn(_, _)
TokensIn(r, type) ==
    LET q == Our!readToken(r)
        text == Sub(r.doc, q.tok.start, q.tok.end - q.tok.start)
    IN  IF q.tok.type = "end" THEN <<>>
        ELSE (IF q.tok.type = type THEN <<text>> ELSE <<>>) \o TokensIn(q, type)
TokensOf(d, type) == TokensIn([Our!NewReader(f) EXCEPT !.doc = d], type)

\* Where the copy differs from the original: signs, apostrophes, long names, and numbers
\* with an exponent that has no digits or makes them too large, which only OurReader accepts.
Common(d) ==
    /\ \A i \in DOMAIN d : d[i] \notin {Plus, Apostrophe, 73, 78}
    /\ \A t \in Range(TokensOf(d, "number")) :
          LET n == strtod(t, "real") IN n.len = 0 \/ (n.len = Len(t) /\ n.val.t = "real")
    /\ \A i \in 1 .. Len(d) - MaxName : d[i] = Quote => Contains(SubSeq(d, i + 1, i + MaxName), Quote)
RECURSIVE AnyInt(_)
AnyInt(v) == [v EXCEPT !.t = IF @ = "uint" THEN "int" ELSE @,
                       !.e = [i \in DOMAIN @ |-> [@[i] EXCEPT !.v = AnyInt(@)]]]

\* On what both know, OurReader does what Reader does: the same verdict, the same
\* errors at the same offsets and the same value, numbers signed or not.
CopyAgrees(d) ==
    LET g == [f EXCEPT !.allowNumericKeys = FALSE, !.allowSingleQuotes = FALSE, !.failIfExtra = FALSE,
                       !.rejectDupKeys = FALSE, !.allowSpecialFloats = FALSE]
        a == Old!parse(Old!NewReader(g), d, NewTree, FALSE)
        b == Our!parse(Our!NewReader(g), d, NewTree, FALSE)
    IN  Common(d) => /\ a.ok = b.ok /\ a.thrown = b.thrown /\ a.errs = b.errs /\ a.cur = b.cur
                       /\ AnyInt(ValueAt(a.tree, <<>>)) = AnyInt(ValueAt(b.tree, <<>>))

\* How many bytes of a text, of the comments of a value, and of the comments between
\* the tokens of a document are no line ends.
Inked(text) == Len(SelectSeq(text, LAMBDA c : c # LF))
CommentBytes(tree) ==
    FoldFunction(LAMBDA n, m : Inked(n.before) + Inked(n.same) + Inked(n.after) + m, 0, tree)
CommentsIn(d) ==
    LET comments == TokensOf(d, "comment")
    IN  Inked(FlattenSeq([i \in DOMAIN comments |-> Our!R!normalizeEOL(comments[i])]))

\* Collecting comments changes nothing else about a parse.  It makes no comment up, and
\* keeps every one, once, wherever it stands, if no object repeats a name and nothing
\* follows the value; a member loses its comments to the next one of its name.
KeepsComments(d) ==
    LET r == OurParse(d, NewTree, TRUE)
        q == OurParse(d, NewTree, FALSE)
        once == Our!parse(Our!NewReader([f EXCEPT !.rejectDupKeys = TRUE, !.failIfExtra = TRUE]), d, NewTree, TRUE)
    IN  ~r.thrown =>
          /\ r.ok = q.ok /\ r.errs = q.errs /\ ValueAt(r.tree, <<>>) = ValueAt(q.tree, <<>>)
          /\ (r.ok /\ r.collect) =>
                IF once.ok THEN CommentBytes(r.tree) = CommentsIn(d) ELSE CommentBytes(r.tree) <= CommentsIn(d)

\* What a reader was used for before, and what the root held, does not show.
ReuseIsFresh(d) ==
    \A comments \in BOOLEAN :
        LET used == OurParse(earlier, NewTree, TRUE)
            again == Our!parse(used, d, NewTree, comments)
            r == OurParse(d, NewTree, comments)
            into == OurParse(d, used.tree, FALSE)
        IN  /\ again.ok = r.ok /\ again.errs = r.errs /\ again.tree = r.tree /\ again.thrown = r.thrown
            /\ r.ok /\ ~comments => into.ok /\ ValueAt(into.tree, <<>>) = ValueAt(r.tree, <<>>)

-----------------------------------------------------------------------------
Writers ==
    {W!FastWriter(yaml, drop, omit) : yaml, drop, omit \in BOOLEAN}
    \cup {W!StyledWriter, W!StyledStreamWriter(<<Tab>>), W!StyledStreamWriter(<<>>)}
    \cup {W!newStreamWriter([W!setDefaults EXCEPT !.commentStyle = cs, !.indentation = i, !.emitUTF8 = u,
              !.dropNullPlaceholders = u, !.useSpecialFloats = u, !.precisionType = pt]) :
            cs \in {"All", "None"}, i \in {<<>>, <<Space>>}, u \in BOOLEAN, pt \in {"significant", "decimal"}}

\* A code of half a pair, which the readers accept alone and no writer escapes.
HalfPair(t) == \E i \in 1 .. Len(t) - 1 : t[i] = 237 /\ t[i + 1] >= 160

\* What a writer cannot express: with some settings, nulls that leave no trace, NaN, and a
\* line comment without the end of its line; a name that is cut at a NUL; half a pair; and a
\* line comment that ends in a blank, which StyledWriter takes for the indentation of the
\* next line: what should be there becomes part of the comment.
Expressible(w, tree) ==
    /\ w.nullSymbol = <<>> => /\ tree[<<>>].t # "null"
                              /\ \A p \in DOMAIN tree : tree[p].t = "arr" /\ Cardinality(KeysAt(tree, p)) = 1
                                                          => tree[Append(p, Index(0))].t # "null"
    /\ ~w.useSpecialFloats => \A p \in DOMAIN tree : tree[p].t # "nan"
    /\ w.k = "styled" => \A p \in DOMAIN tree \ {<<>>} : ~IsSuffix(<<Space>>, tree[p].same)
    /\ (w.k = "built" /\ w.cs = "All" /\ w.indentation = <<>>) =>
          \A p \in DOMAIN tree : ~W!hasCommentForValue(tree[p])
    /\ w.k \in {"styled", "stream"} => \A p \in DOMAIN tree : \A i \in DOMAIN p : ~(NUL = p[i][1])
    /\ (w.k # "built" \/ ~w.emitUTF8) =>
          \A p \in DOMAIN tree : ~HalfPair(tree[p].s) /\ \A i \in DOMAIN p : ~HalfPair(p[i])

\* What any writer writes, a reader reads as the same value, whatever comments it has
\* and wherever the lines are broken; a writer with comments loses none of them: what
\* it writes of the value read back is the same text.
WritesReadBack(d) ==
    LET r == OurParse(d, NewTree, TRUE)
    IN  (r.ok /\ f # Our!strictMode) => \A w \in Writers :
          LET text == W!write(w, r.tree)
              again == Our!parse(Our!NewReader(Lenient), text, NewTree, TRUE)
          IN  Expressible(w, r.tree) =>
                /\ again.ok /\ ValueAt(again.tree, <<>>) = ValueAt(r.tree, <<>>)
                /\ (w.k # "fast" /\ w.cs = "All" /\ w.nullSymbol # <<>>) => W!write(w, again.tree) = text
=============================================================================
