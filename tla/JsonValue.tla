------------------------------ MODULE JsonValue ------------------------------
(***************************************************************************)
(* class Value of ProtoBuf/jsoncpp_test/json_value.cpp: two values and the *)
(* operations that change them, its order and conversions, and class Path. *)
(* A value has a type, a scalar and a map; the map of an array holds only  *)
(* the elements that were ever accessed, under Index(i).  A behaviour is a *)
(* sequence of calls, or one pair of values that are looked at.  out is    *)
(* the last call: operation, arguments and result; a failing JSON_ASSERT   *)
(* is the result "assert".  Reals are in hundredths.                       *)
(***************************************************************************)
EXTENDS JsonNodes, FiniteSetsExt

CONSTANTS Scalars,                       \* the scalar values stored
          Names, MaxIndex, MaxOps,       \* member names, largest index, calls of a behaviour
          Compared, Paths,               \* the values and the paths looked at
          MaxInt, MaxUInt, MaxLargestInt, MaxLargestUInt,
          MaxExact                       \* 2^53: up to it every integer is a double

VARIABLES val, out, ops, seen

valueVars == <<val, out, ops, seen>>

V(t, n, s, m) == [t |-> t, n |-> n, s |-> s, m |-> m]
nullSingleton == V("null", 0, <<>>, <<>>)
Empty(type) == V(type, 0, <<>>, <<>>)
Slots == {1, 2}

Init ==
    /\ val = [x \in Slots |-> nullSingleton]
    /\ out = [op |-> "none", x |-> 1, k |-> <<>>, v |-> nullSingleton, r |-> nullSingleton, ret |-> "void"]
    /\ \/ ops = 0 /\ seen = <<nullSingleton, nullSingleton>>
       \/ ops = MaxOps /\ seen \in Compared \X Compared

-----------------------------------------------------------------------------
IndexOf(key) == key[2]
size(v) ==
    IF v.t = "arr" THEN (IF v.m = <<>> THEN 0 ELSE Max({IndexOf(k) : k \in DOMAIN v.m}) + 1)
    ELSE Cardinality(DOMAIN v.m)

\* operator[] and resolveReference: a null value becomes a container of the right type,
\* and a key that is not there gets a null.
Holds(v, type) == v.t \in {"null", type}
As(v, type) == IF v.t = "null" THEN Empty(type) ELSE v
TypeOf(key) == IF key[1] = -1 THEN "arr" ELSE "obj"
With(v, key, x) ==
    LET c == As(v, TypeOf(key))
    IN  [c EXCEPT !.m = [k \in DOMAIN c.m \cup {key} |-> IF k = key THEN x ELSE c.m[k]]]
Access(v, key) ==
    LET c == As(v, TypeOf(key)) IN IF key \in DOMAIN c.m THEN c ELSE With(c, key, nullSingleton)

\* The const operator[]: nullSingleton for what is not there.
Lookup(v, key) == IF key \in DOMAIN v.m THEN v.m[key] ELSE nullSingleton
Without(v, key) == [v EXCEPT !.m = [k \in DOMAIN v.m \ {key} |-> v.m[k]]]

Returns(op, x, key, y, v, r, ret) ==
    /\ val' = [val EXCEPT ![x] = v]
    /\ out' = [op |-> op, x |-> x, k |-> key, v |-> y, r |-> r, ret |-> ret]
Done(op, x, key, y, v, ret) == Returns(op, x, key, y, v, nullSingleton, ret)

\* A call whose precondition on the type is asserted.
Requires(op, x, key, y, type, v, ret) ==
    IF Holds(val[x], type) THEN Done(op, x, key, y, v, ret)
    ELSE Done(op, x, key, y, val[x], "assert")

Indices == {Index(i) : i \in 0 .. MaxIndex}
Keyed == Indices \cup Names

\* v[key] = y; without y this is only the access.
set(x, key, y) == Requires("set", x, key, y, TypeOf(key), With(Access(val[x], key), key, y), "void")

clear(x) ==
    IF val[x].t \in {"null", "arr", "obj"}
    THEN Done("clear", x, <<>>, nullSingleton, [val[x] EXCEPT !.m = <<>>], "void")
    ELSE Done("clear", x, <<>>, nullSingleton, val[x], "assert")

\* A resize that keeps one element too many.
resizeOneMore(x, newSize) ==
    LET v == As(val[x], "arr")
    IN  Requires("resize", x, Index(newSize), nullSingleton, "arr",
                 [v EXCEPT !.m = [k \in {k \in DOMAIN v.m : IndexOf(k) <= newSize} |-> v.m[k]]], "void")

\* Growing makes the last element, shrinking erases the others and asserts the size.
resize(x, newSize) ==
    LET v == As(val[x], "arr")
        kept == [v EXCEPT !.m = [k \in {k \in DOMAIN v.m : IndexOf(k) < newSize} |-> v.m[k]]]
        new == IF newSize = 0 THEN Empty("arr")
               ELSE IF newSize > size(v) THEN Access(v, Index(newSize - 1)) ELSE kept
        ret == IF newSize \in 1 .. size(v) /\ size(kept) # newSize THEN "assert" ELSE "void"
    IN  Requires("resize", x, Index(newSize), nullSingleton, "arr", new, ret)

append(x, y) ==
    LET v == As(val[x], "arr")
    IN  Requires("append", x, Index(size(v)), y, "arr", With(v, Index(size(v)), y), "void")

\* Each element is swapped with the one before it, down to index.
RECURSIVE ShiftRight(_, _, _)
ShiftRight(v, i, index) ==
    LET w == Access(Access(v, Index(i - 1)), Index(i))
    IN  IF i = index THEN v
        ELSE ShiftRight([w EXCEPT !.m = [@ EXCEPT ![Index(i)] = w.m[Index(i - 1)],
                                                 ![Index(i - 1)] = w.m[Index(i)]]], i - 1, index)
insert(x, index, y) ==
    IF index > size(val[x])
    THEN Requires("insert", x, Index(index), y, "arr", val[x], "false")
    ELSE Requires("insert", x, Index(index), y, "arr",
                  With(ShiftRight(As(val[x], "arr"), size(val[x]), index), Index(index), y), "true")

\* Each element is overwritten by the one behind it, up to the last, which is erased.
RECURSIVE ShiftLeft(_, _, _)
ShiftLeft(v, i, last) ==
    LET w == Access(v, Index(i + 1))
    IN  IF i = last THEN Without(v, Index(last)) ELSE ShiftLeft(With(w, Index(i), w.m[Index(i + 1)]), i + 1, last)
removeIndex(x, index) ==
    LET v == val[x]
    IN  IF v.t # "arr" \/ Index(index) \notin DOMAIN v.m
        THEN Done("removeIndex", x, Index(index), nullSingleton, v, "false")
        ELSE Returns("removeIndex", x, Index(index), nullSingleton, ShiftLeft(v, index, size(v) - 1),
                     v.m[Index(index)], "true")

removeMember(x, key) ==
    IF val[x].t # "obj" \/ key \notin DOMAIN val[x].m
    THEN Done("removeMember", x, key, nullSingleton, val[x], "false")
    ELSE Returns("removeMember", x, key, nullSingleton, Without(val[x], key), val[x].m[key], "true")

\* get(key, default), the default being the scalar y: what it returns, and isMember.
get(x, key, y) ==
    IF Holds(val[x], TypeOf(key))
    THEN Returns("get", x, key, y, val[x], IF key \in DOMAIN val[x].m THEN val[x].m[key] ELSE y, "void")
    ELSE Done("get", x, key, y, val[x], "assert")

\* Assigning a scalar or a copy, and a moved value: a move swaps.
assign(x, y) == Done("assign", x, <<>>, y, y, "void")
copy(x, y) == Done("copy", x, <<>>, val[y], val[y], "void")
move(x, y) ==
    /\ val' = [val EXCEPT ![x] = val[y], ![y] = val[x]]
    /\ out' = [op |-> "move", x |-> x, k |-> <<>>, v |-> val[y], r |-> nullSingleton, ret |-> "void"]

Call ==
    \E x \in Slots :
        \/ \E key \in Keyed, y \in Scalars : set(x, key, y)
        \/ clear(x)
        \/ \E n \in 0 .. MaxIndex + 1 : resize(x, n)
        \/ \E y \in Scalars : size(val[x]) <= MaxIndex /\ append(x, y)
        \/ \E i \in 0 .. MaxIndex, y \in Scalars : size(val[x]) <= MaxIndex /\ insert(x, i, y)
        \/ \E i \in 0 .. MaxIndex : removeIndex(x, i)
        \/ \E key \in Names : removeMember(x, key)
        \/ \E key \in Keyed, y \in Scalars : get(x, key, y)
        \/ \E y \in Scalars : assign(x, y)
        \/ \E y \in Slots \ {x} : copy(x, y) \/ move(x, y)

Next == ops < MaxOps /\ ops' = ops + 1 /\ Call /\ UNCHANGED seen
Spec == Init /\ [][Next]_valueVars

-----------------------------------------------------------------------------
\* The order of values.
Rank == [null |-> 0, int |-> 1, uint |-> 2, real |-> 3, str |-> 4, bool |-> 5, arr |-> 6, obj |-> 7]
InOrder(v) == SetToSortSeq(DOMAIN v.m, NameLess)

RECURSIVE Less(_, _)
Less(a, b) ==
    LET ka == InOrder(a)
        kb == InOrder(b)
        Pair(i) == NameLess(ka[i], kb[i]) \/ (ka[i] = kb[i] /\ Less(a.m[ka[i]], b.m[kb[i]]))
        Tie(i) == ka[i] = kb[i] /\ ~Less(a.m[ka[i]], b.m[kb[i]]) /\ ~Less(b.m[kb[i]], a.m[ka[i]])
    IN  CASE a.t # b.t -> Rank[a.t] < Rank[b.t]
          [] a.t = "null" -> FALSE
          [] a.t \in {"int", "uint", "real", "bool"} -> a.n < b.n
          [] a.t = "str" -> NameLess(a.s, b.s)
          [] OTHER -> \/ Len(ka) < Len(kb)
                      \/ /\ Len(ka) = Len(kb)
                         /\ \E i \in DOMAIN ka : Pair(i) /\ \A j \in 1 .. i - 1 : Tie(j)

RECURSIVE Equal(_, _)
Equal(a, b) ==
    /\ a.t = b.t /\ a.n = b.n
    /\ a.t = "str" => a.s = b.s
    /\ DOMAIN a.m = DOMAIN b.m /\ \A k \in DOMAIN a.m : Equal(a.m[k], b.m[k])

-----------------------------------------------------------------------------
\* static_cast<double>: the nearest double, the even one of two.  Doubles are Spacing apart.
RECURSIVE Spacing(_)
Spacing(n) == IF n < MaxExact THEN 1 ELSE 2 * Spacing(n \div 2)
Nearest(n) ==
    LET u == Spacing(n)
        down == n \div u
        over == 2 * (n % u)
    IN  IF over < u \/ (over = u /\ down % 2 = 0) THEN down * u ELSE (down + 1) * u
ToDouble(n) == IF n < 0 THEN -Nearest(-n) ELSE Nearest(n)

\* Conversions.  An integer type is its limits and the double its maximum becomes: that
\* of a 64-bit type is rounded up.
Integer(min, max, wide) == [min |-> min, max |-> max, real |-> ToDouble(max), wide |-> wide]
Int32 == Integer(-MaxInt - 1, MaxInt, FALSE)
UInt32 == Integer(0, MaxUInt, FALSE)
Int64 == Integer(-MaxLargestInt - 1, MaxLargestInt, TRUE)
UInt64 == Integer(0, MaxLargestUInt, TRUE)

isNumeric(v) == v.t \in {"int", "uint", "real"}
InRange(d, min, max) == d >= 100 * min /\ d <= 100 * max
IsIntegral(d) == d % 100 = 0
Truncated(d) == IF d >= 0 THEN d \div 100 ELSE -((-d) \div 100)

isIntegerRounded(v, T) ==                                    \* mutant of isInteger
    CASE v.t \in {"int", "uint"} -> v.n \in T.min .. T.max
      [] v.t = "real" -> InRange(v.n, T.min, T.real) /\ IsIntegral(v.n)
      [] OTHER -> FALSE
\* isInt, isUInt, isInt64 and isUInt64.
isInteger(v, T) ==
    CASE v.t \in {"int", "uint"} -> v.n \in T.min .. T.max
      [] v.t = "real" -> InRange(v.n, T.min, T.real) /\ IsIntegral(v.n) /\ (T.wide => v.n < 100 * T.real)
      [] OTHER -> FALSE

\* asInt, asUInt, asInt64 and asUInt64: the results, none where an assertion fails.
\* The conversion of a double beyond the type is undefined: processors give a limit.
Cast(d, T) == IF Truncated(d) \in T.min .. T.max THEN {Truncated(d)} ELSE {T.min, T.max}
asInteger(v, T) ==
    CASE v.t \in {"int", "uint"} -> IF v.n \in T.min .. T.max THEN {v.n} ELSE {}
      [] v.t = "real" -> IF InRange(v.n, T.min, T.real) THEN Cast(v.n, T) ELSE {}
      [] v.t = "null" -> {0}
      [] v.t = "bool" -> {v.n}
      [] OTHER -> {}
asDouble(v) ==
    CASE v.t \in {"int", "uint", "bool"} -> {100 * ToDouble(v.n)} [] v.t = "real" -> {v.n}
      [] v.t = "null" -> {0} [] OTHER -> {}
asBool(v) == IF isNumeric(v) \/ v.t \in {"null", "bool"} THEN {v.n # 0} ELSE {}
asString(v) ==
    CASE v.t = "null" -> {<<>>} [] v.t = "str" -> {v.s} [] v.t = "real" -> {RealText(v)}
      [] v.t \in {"int", "uint"} -> {Digits(v.n)}
      [] v.t = "bool" -> {IF v.n = 1 THEN TrueText ELSE FalseText} [] OTHER -> {}

isConvertibleTo(v, other) ==
    LET plain == v.t \in {"bool", "null"} IN
    CASE other = "null" -> IF isNumeric(v) \/ v.t = "bool" THEN v.n = 0 ELSE v.s = <<>> /\ v.m = <<>>
      [] other = "int" -> isInteger(v, Int32) \/ (v.t = "real" /\ InRange(v.n, Int32.min, Int32.max)) \/ plain
      [] other = "uint" -> isInteger(v, UInt32) \/ (v.t = "real" /\ InRange(v.n, 0, UInt32.max)) \/ plain
      [] other \in {"real", "bool"} -> isNumeric(v) \/ plain
      [] other = "str" -> isNumeric(v) \/ plain \/ v.t = "str"
      [] OTHER -> v.t \in {other, "null"}

-----------------------------------------------------------------------------
\* class Path: keys parsed from a text, in being the arguments for '%'.
RECURSIVE NameEnd(_, _)
NameEnd(text, i) ==
    IF i > Len(text) \/ text[i] \in {LBracket, Dot} THEN i ELSE NameEnd(text, i + 1)

Percent == 37
addPathInArg(in, args, type) == in # <<>> /\ TypeOf(Head(in)) = type

RECURSIVE makePath(_, _, _, _)
makePath(text, i, in, args) ==
    LET c == text[i]
        type == IF c = LBracket THEN "arr" ELSE "obj"
        taken == addPathInArg(in, args, type)
        Taken(j) == IF taken THEN makePath(text, j, Tail(in), Append(args, Head(in)))
                    ELSE makePath(text, j, in, args)
        digits == AfterDigits(text, i + 1)
        Past(j) == IF j > Len(text) THEN j ELSE j + 1
        name == NameEnd(text, i)
    IN  IF i > Len(text) THEN args
        ELSE IF c = LBracket /\ i < Len(text) /\ text[i + 1] = Percent THEN Taken(i + 2)
        ELSE IF c = LBracket
             THEN makePath(text, Past(digits), in,
                           Append(args, Index(NumberOf(SubSeq(text, i + 1, digits - 1)))))
        ELSE IF c = Percent THEN Taken(i + 1)
        ELSE IF c \in {Dot, RBracket} THEN makePath(text, i + 1, in, args)
        ELSE makePath(text, name, in, Append(args, SubSeq(text, i, name - 1)))

\* Path::resolve: the values found, none if the default would be returned.
RECURSIVE resolve(_, _)
resolve(v, args) ==
    LET key == Head(args)
    IN  IF args = <<>> THEN {v}
        ELSE IF v.t # TypeOf(key) THEN {}
        ELSE IF v.t = "arr" /\ IndexOf(key) >= size(v) THEN {}
        ELSE IF v.t = "obj" /\ key \notin DOMAIN v.m THEN {}
        ELSE resolve(Lookup(v, key), Tail(args))

\* Path::make: the root with the node in it, none where operator[] asserts.
RECURSIVE make(_, _)
make(v, args) ==
    LET key == Head(args)
        c == Access(v, key)
    IN  IF args = <<>> THEN {v}
        ELSE IF ~Holds(v, TypeOf(key)) THEN {}
        ELSE {With(c, key, n) : n \in make(c.m[key], Tail(args))}

-----------------------------------------------------------------------------
\* An array as its user sees it: the elements 0 .. size() - 1, null where none is.
Elems(v) == [i \in 1 .. size(v) |-> Lookup(v, Index(i - 1))]
Nulls(n) == [i \in 1 .. n |-> nullSingleton]
Resized(a, n) == IF n <= Len(a) THEN SubSeq(a, 1, n) ELSE a \o Nulls(n - Len(a))

\* Removing the last element also ends the array before it at the last accessed one.
Removed(a, b, i) ==
    \/ b = RemoveAt(a, i)
    \/ i = Len(a) /\ IsPrefix(b, a) /\ \A j \in Len(b) + 1 .. i - 1 : a[j] = nullSingleton

\* What a call does to the elements a, giving b: the promises of value.h, which the code
\* keeps but for elements that were never accessed.  Such an element counts in size, but get
\* gives the default for it ("at least index+1 elements, returns the element value", value.h
\* says), removeIndex does not find it, and resize asserts if it would become the last.
KeepsPromise(a, b, v, call) ==
    LET i == IndexOf(call.k) IN
    CASE call.op = "set" -> b = [Resized(a, IF i < Len(a) THEN Len(a) ELSE i + 1) EXCEPT ![i + 1] = call.v]
      [] call.op = "append" -> b = Append(a, call.v)
      [] call.op = "insert" -> IF i <= Len(a) THEN call.ret = "true" /\ b = InsertAt(a, i + 1, call.v)
                               ELSE call.ret = "false" /\ b = a
      [] call.op = "removeIndex" -> IF call.ret = "true" THEN call.r = a[i + 1] /\ Removed(a, b, i + 1)
                                    ELSE b = a /\ (i < Len(a) => a[i + 1] = nullSingleton)
      [] call.op = "resize" -> IF call.ret = "void" THEN b = Resized(a, i)
                               ELSE i < Len(a) /\ a[i] = nullSingleton
      [] call.op = "get" -> /\ b = a
                            /\ call.r = IF i < Len(a) /\ call.k \in DOMAIN v.m THEN a[i + 1] ELSE call.v
      [] OTHER -> TRUE

\* Every operation on an array does to its elements what value.h promises, through any
\* sequence of calls, except get, removeIndex and resize at elements that were left out; a
\* call that asserts, for the type, changes nothing; and no call touches the other value, except a move, which swaps the two.
CallsKeepPromises ==
    LET x == out'.x
        old == val[x]
        new == val'[x]
    IN  /\ (out'.ret = "assert" /\ out'.op # "resize") => new = old
        /\ out'.op # "move" => \A y \in Slots \ {x} : val'[y] = val[y]
        /\ out'.op \in {"copy", "move"} => \A y \in Slots \ {x} : new = val[y]
        /\ (new.t = "arr" /\ Holds(old, "arr") /\ out'.k \in Indices \cup {Index(MaxIndex + 1)}) =>
              KeepsPromise(Elems(old), Elems(new), old, out')
        /\ (new.t = "obj" /\ Holds(old, "obj") /\ out'.k \in Names) =>
              Lookup(new, out'.k) = CASE out'.op = "set" -> out'.v
                                      [] out'.op = "removeMember" -> nullSingleton
                                      [] OTHER -> Lookup(old, out'.k)
ArraysAreDense == [][CallsKeepPromises]_valueVars

\* resize may be called on every array, value.h says: "Resize the array to newSize
\* elements"; it never fails its own assertion.
ResizeNeverAsserts == out.op = "resize" /\ val[out.x].t = "arr" => out.ret # "assert"

\* The order of values is total and agrees with equality, and is transitive.
OrderIsTotal ==
    LET a == seen[1] b == seen[2] IN
    /\ Cardinality({k \in 1 .. 3 : <<Less(a, b), Less(b, a), Equal(a, b)>>[k]}) = 1
    /\ \A c \in Compared : Less(a, b) /\ Less(b, c) => Less(a, c)

\* The whole part of a number, and how far from a value a number in hundredths is.
Whole(v) == IF v.t = "real" THEN Truncated(v.n) ELSE v.n
Off(v, d) == LET n == IF v.t = "real" THEN v.n ELSE 100 * v.n IN IF d < n THEN n - d ELSE d - n

\* isConvertibleTo says truly which conversions assert, a conversion to an integer type
\* keeps the whole part and stays in range, and isInt and its kin promise an exact one.
\* The one exception is a double equal to the rounded maximum of a 64-bit type.  A double
\* is exact for what fits into 32 bits, and else none is nearer to the integer.
ConversionsAreHonest ==
    LET v == seen[1] IN
    /\ isConvertibleTo(v, "int") <=> asInteger(v, Int32) # {}
    /\ isConvertibleTo(v, "uint") <=> asInteger(v, UInt32) # {}
    /\ isConvertibleTo(v, "real") <=> asDouble(v) # {}
    /\ isConvertibleTo(v, "bool") <=> asBool(v) # {}
    /\ isConvertibleTo(v, "str") <=> asString(v) # {}
    /\ isConvertibleTo(v, "null") => \A b \in asBool(v) : ~b
    /\ \A T \in {Int32, UInt32, Int64, UInt64} :
          /\ \A n \in asInteger(v, T) : \/ n \in T.min .. T.max /\ n = Whole(v)
                                        \/ T.wide /\ v.t = "real" /\ v.n = 100 * T.real
          /\ isInteger(v, T) => \E n \in T.min .. T.max : asInteger(v, T) = {n} /\ Off(v, 100 * n) = 0
    /\ \A d \in asDouble(v) :
          IF isInteger(v, Int32) \/ isInteger(v, UInt32) THEN Off(v, d) = 0
          ELSE \A w \in Compared : (w.t = "real" /\ isNumeric(v)) => Off(v, d) <= Off(v, w.n)

PathText(args) ==
    FlattenSeq([i \in DOMAIN args |-> IF TypeOf(args[i]) = "obj" THEN <<Dot>> \o args[i]
                                      ELSE <<LBracket>> \o Digits(IndexOf(args[i])) \o <<RBracket>>])
Placeholders(args) ==
    FlattenSeq([i \in DOMAIN args |-> IF TypeOf(args[i]) = "obj" THEN <<Dot, Percent>>
                                      ELSE <<LBracket, Percent, RBracket>>])

\* A path is read as it is written, with its keys in the text or as arguments; what
\* make creates resolve finds, and what resolve finds make leaves as it is, but for
\* elements of arrays that come into being.
PathsFindWhatTheyMake ==
    \A args \in Paths :
        LET v == seen[1] IN
        /\ makePath(PathText(args), 1, <<>>, <<>>) = args
        /\ makePath(Placeholders(args), 1, args, <<>>) = args
        /\ \A root \in make(v, args) : /\ resolve(root, args) # {} /\ make(root, args) = {root}
                                       /\ resolve(v, args) # {} => resolve(root, args) = resolve(v, args)
=============================================================================
