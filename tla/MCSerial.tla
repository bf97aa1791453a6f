------------------------------- MODULE MCSerial -------------------------------
(***************************************************************************)
(* The serialisation libraries, on small instances: cJSON's trees and its  *)
(* texts, jsoncpp's readers with its writers, jsoncpp's values, and the    *)
(* generated Person messages.  A behaviour runs one of them; the variables *)
(* of the others keep one value.                                           *)
(***************************************************************************)
EXTENDS JsonNodes

CONSTANT Parts           \* the parts that run: "tree", "text", "read", "value", "person"

VARIABLES part,
          heap, kids, held, lost, calls,
          cdoc, fail, pair,
          doc, earlier, f,
          val, out, ops, seen,
          msg, own, phones, owned, pcalls

tree == <<heap, kids, held, lost, calls>>
text == <<cdoc, fail, pair>>
read == <<doc, earlier, f>>
value == <<val, out, ops, seen>>
person == <<msg, own, phones, owned, pcalls>>

-----------------------------------------------------------------------------
\* Documents: up to two of some lexemes, everything one token away from a seed, strings
\* of up to three pieces, numbers, and seeds with two comments.
Name(c) == <<Quote, c, Quote>>
LineComment == <<Slash, Slash, 99, LF>>
BlockComment == <<Slash, Star, LF, Slash, Star, Slash>>
Accented == <<Quote, Backslash, 117, 48, 48, 101, 57, Quote>>
Lexemes ==
    {<<c>> : c \in {LBrace, RBrace, LBracket, RBracket, Colon, Comma, Quote, Backslash, Space,
                    Apostrophe, Plus, 49, 73, 120}}
    \cup {<<Minus, 49>>, <<54, 52>>, <<Minus, 51, 50>>, <<49, Dot, 53>>, NullText, Name(97), Accented,
          LineComment, BlockComment, <<Slash, Star>>}
Tokens(s) == [i \in DOMAIN s |-> IF s[i] = 97 \/ s[i] = 98 THEN Name(s[i]) ELSE <<s[i]>>]
Seeds == {Tokens(<<LBrace, 97, Colon, 49, Comma, 98, Colon, 97, RBrace>>),
          Tokens(<<LBracket, LBrace, 97, Colon, LBracket, RBracket, RBrace, Comma, 49, RBracket>>),
          <<<<LBracket>>, <<49>>, <<Comma>>, BlockComment, Name(97), LineComment, <<RBracket>>>>}
Edits(s) ==
    {s} \cup {InsertAt(s, i, x) : i \in 1 .. Len(s) + 1, x \in Lexemes}
    \cup {[s EXCEPT ![i] = x] : i \in DOMAIN s, x \in Lexemes} \cup {RemoveAt(s, i) : i \in DOMAIN s}
Concatenations(S, n) == {FlattenSeq(q) : q \in UNION {[1 .. m -> S] : m \in 0 .. n}}
Documents == Concatenations(Lexemes, 2) \cup {FlattenSeq(e) : e \in UNION {Edits(s) : s \in Seeds}}
Pieces == {<<Quote>>, <<Backslash>>, <<97>>, <<LF>>, <<117, 48, 48, 101, 57>>,
           <<Backslash, 117, 100, 56, 52, 52>>, <<Backslash, 117, 100, 100, 49, 101>>}
Quoted == {<<Quote>> \o t : t \in Concatenations(Pieces, 3)}
\* Numbers in every form, alone and in an array: leading zeros, fractions, exponents that
\* are missing or too large, and what is no number.
Numbers == {FlattenSeq(q) : q \in {<<>>, <<Minus>>} \X {<<48>>, <<48, 49>>, <<49, 48>>}
                                 \X {<<>>, <<Dot>>, <<Dot, 53>>, <<Dot, 53, 48>>}
                                 \X {<<>>, <<101>>, <<101, 49>>, <<69, Plus, 49>>, <<101, Minus, 49>>, <<101, 57>>}}
Specials == {<<78, 97, 78>>}
            \cup {s \o <<73, 110, 102, 105, 110, 105, 116, 121>> : s \in {<<>>, <<Plus>>, <<Minus>>}}
Counted == UNION {{n, <<LBracket>> \o n \o <<RBracket>>} : n \in Numbers \cup Specials}
Comments == {LineComment, <<Slash, Slash, Space, LF>>, <<LF>> \o LineComment, BlockComment,
             <<Slash, Star, 99, Star, Slash>>}
Commented ==
    {FlattenSeq(InsertAt(InsertAt(s, i, x), j, y)) :
        s \in {Tokens(<<LBracket, 49, Comma, 97, RBracket>>),
               Tokens(<<LBrace, 97, Colon, LBracket, 49, RBracket, RBrace>>)},
        i \in 1 .. 6, j \in 1 .. 7, x, y \in Comments}
    \cup {FlattenSeq(InsertAt(InsertAt(Tokens(<<LBrace, 97, Colon, 49, Comma, 97, Colon, 49, RBrace>>), 9, x), 5, y)) :
            x, y \in Comments}

\* cJSON's values.
NegativeZero == Double("num", <<Minus>>, 0)
Leaves == {Null, Num(100), Num(-1250), Num(0), NegativeZero, NaN, Inf, Str(<<97>>), Str(<<Quote, 1, LF>>),
           True, Arr(<<>>), Obj(<<>>)}
Two(k, v, l, w) == Obj(<<Member(k, v), Member(l, w)>>)
Values ==
    Leaves \cup {Arr(<<a>>) : a \in Leaves} \cup {Arr(<<a, b>>) : a, b \in {Null, Num(100)}}
    \cup {Obj(<<Member(k, v)>>) : k \in {<<97>>, <<65>>}, v \in Leaves}
    \cup {Two(k, v, l, w) : k, l \in {<<97>>, <<65>>}, v, w \in {Null, Num(100), Arr(<<>>)}}

Tree == INSTANCE CJSONTree
    WITH N <- 5, Keys <- {1}, Asked <- {1, 2}, Types <- {"string", "object"}, MaxIndex <- 2, MaxCalls <- 5
Text == INSTANCE CJSONText
    WITH doc <- cdoc, Documents <- Documents \cup Quoted \cup Counted, Failures <- 0 .. 7, Pairs <- Values \X Values,
         CJSON_NESTING_LIMIT <- 3, NumberBuf <- 6, default_buffer_size <- 6, INT_MAX <- 60, Spare <- 5
Read == INSTANCE JsonReading
    WITH Documents <- Documents \cup Quoted \cup Counted \cup Commented, Earlier <- {<<LBracket, 49, Slash, Slash>>},
         MaxInt <- 7, MaxLargestInt <- 31, MaxLargestUInt <- 63, stackLimit_g <- 3, MaxName <- 5,
         rightMargin_ <- 10

\* jsoncpp's values: scalars around every limit, and small containers.
V(t, n, s, m) == [t |-> t, n |-> n, s |-> s, m |-> m]
One == V("int", 1, <<>>, <<>>)
Nothing == V("null", 0, <<>>, <<>>)
Containing(t, keys) == V(t, 0, <<>>, [k \in keys |-> One])
Compared ==
    {One, Nothing} \cup {V("uint", n, <<>>, <<>>) : n \in {1, 16, 33, 255}}
    \cup {V("int", n, <<>>, <<>>) : n \in {-128, 8, 98, 127}}
    \cup {V("bool", n, <<>>, <<>>) : n \in 0 .. 1} \cup {V("str", 0, s, <<>>) : s \in {<<>>, <<97>>, <<97, 98>>}}
    \cup {V("real", n, <<>>, <<>>) : n \in {0, 50, -50, -800, -850, 700, 750, 1500, 1550, 3200, 3400, 9600, 10000,
                                            12400, 12800, 13600, 24800, 25600, -12800, -13600}}
    \cup {V(t, 0, <<>>, <<>>) : t \in {"arr", "obj"}}
    \cup {Containing("arr", s) : s \in {{Index(0)}, {Index(1)}, {Index(0), Index(1)}}}
    \cup {Containing("obj", s) : s \in {{<<97>>}, {<<98>>}, {<<97>>, <<98>>}}}
    \cup {V("obj", 0, <<>>, [k \in {<<97>>} |-> Containing("arr", {Index(0)})])}
Value == INSTANCE JsonValue
    WITH Scalars <- {Nothing, One}, Names <- {<<97>>}, MaxIndex <- 2, MaxOps <- 3, Compared <- Compared,
         Paths <- {<<>>} \cup {<<a>> : a \in {Index(0), Index(12), <<97>>}}
                  \cup {<<a, b>> : a, b \in {Index(0), <<97>>}},
         MaxInt <- 7, MaxUInt <- 15, MaxLargestInt <- 127, MaxLargestUInt <- 255, MaxExact <- 32

\* The messages parsed: an unknown field, text that is no UTF-8, a wrong wire type and an
\* end group, a phone without a number whose unknown field stays.
Wire(n, w, v, s, m) == [f |-> n, w |-> w, n |-> v, s |-> s, m |-> m]
TextField(n, s) == Wire(n, 2, 0, s, <<>>)
VarintField(n, v) == Wire(n, 0, v, <<>>, <<>>)
MessageField(n, m) == Wire(n, 2, 0, <<>>, m)
Wires == {<<TextField(1, <<1>>), VarintField(2, 200), VarintField(9, 3)>>,
          <<MessageField(4, <<TextField(1, <<255>>)>>)>>,
          <<MessageField(5, <<VarintField(2, 1)>>), VarintField(1, 2), Wire(3, 4, 0, <<>>, <<>>)>>,
          <<MessageField(4, <<TextField(3, <<2>>), VarintField(2, 255)>>)>>}
Person == INSTANCE PersonMessages
    WITH Group <- 4, Mod32 <- 16, Mod64 <- 256, Invalid <- 255, Strings <- {<<1, 1>>, <<255>>}, Ints <- {-1, 3},
         Wires <- Wires, MaxPhones <- 3, MaxCalls <- 3, heap <- phones, held <- owned, calls <- pcalls

-----------------------------------------------------------------------------
MCInit ==
    /\ part \in Parts
    /\ Tree!Init /\ Person!Init
    /\ Text!Init /\ Read!Init /\ Value!Init
    /\ part # "text" => fail = 0
    /\ part # "read" => f = Read!Lenient
    /\ part # "value" => ops = 0

MCNext ==
    /\ UNCHANGED part
    /\ \/ part = "tree" /\ Tree!Next /\ UNCHANGED <<text, read, value, person>>
       \/ part = "text" /\ Text!Next /\ UNCHANGED <<tree, read, value, person>>
       \/ part = "read" /\ Read!Next /\ UNCHANGED <<tree, text, value, person>>
       \/ part = "value" /\ Value!Next /\ UNCHANGED <<tree, text, read, person>>
       \/ part = "person" /\ Person!Next /\ UNCHANGED <<tree, text, read, value>>

MCSpec == MCInit /\ [][MCNext]_<<part, tree, text, read, value, person>>

-----------------------------------------------------------------------------
\* Properties of texts and readers are about a call: what it does with the input that its
\* step brings.

\* cJSON trees: the child lists are what the calls promise, every cell in use has one
\* owner, and a duplicate is equal to the original or leaves nothing behind.
TreesAreSound == part = "tree" => Tree!ListsAreKids /\ Tree!OneOwner /\ Tree!DuplicateIsEqual

\* cJSON texts: a call that fails to parse leaves no block behind and reports a position
\* in the text, no string outgrows its estimate, and what a call accepts it read
\* completely, numbers in any form.
ParseIsSound == [][part = "text" => Text!ParseIsClean(cdoc') /\ Text!ParseReadsAll(cdoc')]_text

\* cJSON printing: the printed text parses to the value, whatever buffer it grew in.
\* cJSON_Compare is symmetric, and equality on values without repeated names.
PrintIsParsed ==
    [][part = "text" => /\ Text!PrintIsParsed(pair'[1])
                        /\ Text!CompareIsEquality(pair'[1], pair'[2])]_text

\* jsoncpp's OurReader: errors are reported exactly for what fails and lie in the
\* document, offsets are those of the values, and an earlier parse does not show; the
\* copy of Reader that it is does what Reader does on what both know.
ReadsSoundly ==
    [][part = "read" => /\ Read!ReadsSoundly(doc') /\ Read!ReuseIsFresh(doc')
                        /\ Read!CopyAgrees(doc')]_read

\* OurReader keeps every comment of an accepted document, once, unless a name is repeated
\* or something follows the value; it makes none up.
KeepsComments == [][part = "read" => Read!KeepsComments(doc')]_read

\* What any writer of jsoncpp writes is read as the same value with the same comments, but
\* for what a writer or its settings cannot express.
WritesReadBack == [][part = "read" => Read!WritesReadBack(doc')]_read

\* Every call of Value does to the elements and members what value.h promises, but for
\* array elements that were never accessed.  Values are totally ordered, is- and
\* isConvertibleTo are truthful about the conversions, and a Path resolves to what it made.
ValuesAreHonest ==
    /\ Value!ArraysAreDense
    /\ [](part = "value" =>
            Value!OrderIsTotal /\ Value!ConversionsAreHonest /\ Value!PathsFindWhatTheyMake)

\* value.h on resize: its own assertion never fails.
ResizeNeverAsserts == part = "value" => Value!ResizeNeverAsserts

\* Messages: the computed size is that of the bytes, what is written is read back, and
\* every Phone has one owner through release, set_allocated, swap and copy.
MessagesAreFaithful == part = "person" => Person!WireIsFaithful /\ Person!PhonesHaveOneOwner
=============================================================================
