------------------------------ MODULE JsonNodes ------------------------------
(***************************************************************************)
(* What the models of the JSON libraries share: the bytes of JSON texts by *)
(* name, the values a text stands for, and decimal numbers; and the part   *)
(* of Json::Value (ProtoBuf/jsoncpp_test) that its readers build their     *)
(* result with.                                                            *)
(***************************************************************************)
EXTENDS Integers, Sequences, SequencesExt, FiniteSets

NoText == <<-1>>              \* no text: -1 is no byte

NUL == 0
Tab == 9
LF == 10
CR == 13
Space == 32
Quote == 34
Apostrophe == 39
Star == 42
Plus == 43
Comma == 44
Minus == 45
Dot == 46
Slash == 47
Colon == 58
LBracket == 91
Backslash == 92
RBracket == 93
LBrace == 123
RBrace == 125
NullText == <<110, 117, 108, 108>>
TrueText == <<116, 114, 117, 101>>
FalseText == <<102, 97, 108, 115, 101>>

IsDigit(c) == c \in 48 .. 57
IsHex(c) == c \in 48 .. 57 \cup 65 .. 70 \cup 97 .. 102
HexValue(c) == IF c <= 57 THEN c - 48 ELSE IF c <= 70 THEN c - 55 ELSE c - 87
HexDigit(d) == IF d < 10 THEN 48 + d ELSE 87 + d
Hex4(n) == [i \in 1 .. 4 |-> HexDigit((n \div (16 ^ (4 - i))) % 16)]

\* The decimal digits of a number, and the number digits stand for.
RECURSIVE Digits(_)
Digits(n) ==
    IF n < 0 THEN <<Minus>> \o Digits(-n)
    ELSE IF n < 10 THEN <<48 + n>>
    ELSE Append(Digits(n \div 10), 48 + (n % 10))
NumberOf(digits) == FoldLeft(LAMBDA n, c : 10 * n + c - 48, 0, digits)

\* The part of a text from offset i, counted from 0, of n bytes.
Sub(text, i, n) == SubSeq(text, i + 1, i + n)

\* A value: its type, the bytes of a string, a number, and the elements or the
\* members, each with a name (empty in an array) and a value.
Val(t, s, n, e) == [t |-> t, s |-> s, n |-> n, e |-> e]
Null == Val("null", <<>>, 0, <<>>)
True == Val("true", <<>>, 0, <<>>)
False == Val("false", <<>>, 0, <<>>)
Num(hundredths) == Val("num", <<>>, hundredths, <<>>)
NaN == Val("nan", <<>>, 0, <<>>)
Inf == Val("+inf", <<>>, 0, <<>>)
Str(s) == Val("str", s, 0, <<>>)
Arr(values) == Val("arr", <<>>, 0, [i \in DOMAIN values |-> [k |-> <<>>, v |-> values[i]]])
Obj(members) == Val("obj", <<>>, 0, members)
Member(k, v) == [k |-> k, v |-> v]

-----------------------------------------------------------------------------
(* The values of a document are a tree: a function from paths to nodes, so *)
(* that a pointer to a Value is a path.  A node has its payload, its       *)
(* offsets in the document and its three comments.                         *)

\* The key of an array element; the key of a member is its name.
Index(i) == <<-1, i>>

NewNode == [t |-> "null", s |-> <<>>, n |-> 0, start |-> 0, limit |-> 0,
            before |-> <<>>, same |-> <<>>, after |-> <<>>]
NewTree == [p \in {<<>>} |-> NewNode]

\* Value::swapPayload with a fresh scalar or an empty container: what was below is
\* gone, offsets and comments stay.
swapPayload(tree, path, v) ==
    [p \in {q \in DOMAIN tree : ~IsStrictPrefix(path, q)} |->
        IF p = path THEN [tree[p] EXCEPT !.t = v.t, !.s = v.s, !.n = v.n] ELSE tree[p]]
setOffsets(tree, path, start, limit) ==
    [tree EXCEPT ![path] = [@ EXCEPT !.start = start, !.limit = limit]]

\* operator[] of a key or an index: the value there, a null one if it is new.
Demand(tree, path) ==
    IF path \in DOMAIN tree THEN tree ELSE [p \in DOMAIN tree \cup {path} |->
        IF p = path THEN NewNode ELSE tree[p]]

\* Value::setComment drops one newline at the end and asserts how the text starts.
WithoutNewline(text) == IF text # <<>> /\ Last(text) = LF THEN Front(text) ELSE text
MayComment(text) == WithoutNewline(text) # <<>> /\ Head(WithoutNewline(text)) \in {NUL, Slash}
setComment(tree, path, text, slot) == [tree EXCEPT ![path][slot] = WithoutNewline(text)]

\* Value::CZString::operator<: bytes first, then length.
NameLess(a, b) ==
    \/ \E i \in DOMAIN a \cap DOMAIN b : a[i] < b[i] /\ \A j \in 1 .. i - 1 : a[j] = b[j]
    \/ IsStrictPrefix(a, b)

KeysAt(tree, path) ==
    {p[Len(p)] : p \in {q \in DOMAIN tree : IsPrefix(path, q) /\ Len(q) = Len(path) + 1}}

\* The value a node stands for.
RECURSIVE ValueAt(_, _)
ValueAt(tree, path) ==
    LET v == tree[path]
        keys == SetToSortSeq(KeysAt(tree, path), NameLess)
        below == [i \in DOMAIN keys |->
                    Member(IF v.t = "arr" THEN <<>> ELSE keys[i], ValueAt(tree, Append(path, keys[i])))]
    IN  Val(v.t, v.s, v.n, below)

-----------------------------------------------------------------------------
\* What the readers share with json_tool.h and the C++ library.

codePointToUTF8(cp) ==
    LET tail(n) == 128 + ((cp \div (64 ^ n)) % 64)
    IN  IF cp <= 127 THEN <<cp>>
        ELSE IF cp <= 2047 THEN <<192 + cp \div 64, tail(0)>>
        ELSE IF cp <= 65535 THEN <<224 + cp \div 4096, tail(1), tail(0)>>
        ELSE <<240 + cp \div 262144, tail(2), tail(1), tail(0)>>

\* A double is in hundredths, with at most DoubleDigits digits before the point where
\* DBL_MAX has 309, or an infinity; a zero has the sign in s.
DoubleDigits == 6
Double(t, s, n) == Val(t, s, n, <<>>)
Negative(v) == v.n < 0 \/ v.s = <<Minus>>

RECURSIVE AfterDigits(_, _)
AfterDigits(text, i) == IF i <= Len(text) /\ IsDigit(text[i]) THEN AfterDigits(text, i + 1) ELSE i

\* strtod: the bytes of the longest number a text starts with, 0 for none, and its value as
\* a node of type t.  A number is a sign, digits with a point among them, and an exponent,
\* which is not taken unless it has a digit.
strtod(text, t) ==
    LET Sign(i) == IF i <= Len(text) /\ text[i] \in {Minus, Plus} THEN i + 1 ELSE i
        whole == AfterDigits(text, Sign(1))
        point == whole <= Len(text) /\ text[whole] = Dot
        end == IF point THEN AfterDigits(text, whole + 1) ELSE whole
        places == IF point THEN end - whole - 1 ELSE 0
        digits == SelectSeq(SubSeq(text, Sign(1), end - 1), IsDigit)
        expEnd == AfterDigits(text, Sign(end + 1))
        hasExp == end <= Len(text) /\ text[end] \in {69, 101} /\ expEnd > Sign(end + 1)
        exp == NumberOf(SubSeq(text, Sign(end + 1), expEnd - 1))
        power == (IF ~hasExp THEN 0 ELSE IF text[end + 1] = Minus THEN -exp ELSE exp) - places
        d == NumberOf(digits)
        huge == d # 0 /\ Len(Digits(d)) + power > DoubleDigits
        tiny == d = 0 \/ Len(Digits(d)) + power < -1
        n == IF tiny THEN 0 ELSE IF power < -2 THEN d \div 10 ^ (-2 - power) ELSE d * 10 ^ (power + 2)
        sign == Head(text) = Minus
    IN  [len |-> IF digits = <<>> THEN 0 ELSE IF hasExp THEN expEnd - 1 ELSE end - 1,
         val |-> IF huge THEN Double(IF sign THEN "-inf" ELSE "+inf", <<>>, 0)
                 ELSE Double(t, IF sign /\ n = 0 THEN <<Minus>> ELSE <<>>, IF sign THEN -n ELSE n)]

\* The text of a double: no more digits than it needs.
GeneralText(v) ==
    LET abs == IF v.n < 0 THEN -v.n ELSE v.n
        cents == <<48 + ((abs \div 10) % 10), 48 + (abs % 10)>>
        frac == IF abs % 100 = 0 THEN <<>> ELSE IF abs % 10 = 0 THEN <<Dot, cents[1]>> ELSE <<Dot>> \o cents
    IN  (IF Negative(v) THEN <<Minus>> ELSE <<>>) \o Digits(abs \div 100) \o frac

\* valueToString of a double, 17 digits: at least one digit after the point, and an
\* infinity as a number that is too large for a double.
RealText(v) ==
    LET text == GeneralText(v)
        large == <<49, 101, Plus, 57, 57, 57, 57>>
    IN  CASE v.t = "+inf" -> large [] v.t = "-inf" -> <<Minus>> \o large
          [] OTHER -> IF Contains(text, Dot) THEN text ELSE text \o <<Dot, 48>>
=============================================================================
