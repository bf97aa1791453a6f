--------------------------- MODULE PersonMessages ---------------------------
(***************************************************************************)
(* The messages of ProtoBuf/ProtoBuf_test/person.pb.cc and person.pb.h:    *)
(* parsing, serialising, sizes, merging, swapping, and who owns the phone  *)
(* of a person.  Bytes on the wire are a sequence of fields: number, wire  *)
(* type, and a varint or 32 bits (n), a string (s) or a message (m).       *)
(* The protobuf library (varints, UTF-8, unknown fields, nesting) is       *)
(* external.  Two persons, "a" and "b", are used without an arena; heap    *)
(* holds the Phone objects there are, held the ones the caller owns.       *)
(***************************************************************************)
EXTENDS Integers, Sequences, FiniteSets, SequencesExt, FiniteSetsExt

CONSTANTS Group, Mod32, Mod64,      \* values of a varint's byte, of an int32, of an int64
          Invalid,                  \* a byte that is no UTF-8
          Strings, Ints, Wires,     \* what is set, and what is parsed
          MaxPhones, MaxCalls

VARIABLES msg, own, heap, held, calls

personVars == <<msg, own, heap, held, calls>>

-----------------------------------------------------------------------------
\* The library: fields, their sizes, integers, and what is left of an unknown field.
Field(f, w, n, s, m) == [f |-> f, w |-> w, n |-> n, s |-> s, m |-> m]
Varint(f, n) == Field(f, 0, IF n < 0 THEN n + Mod64 ELSE n, <<>>, <<>>)
Text(f, s) == Field(f, 2, 0, s, <<>>)
Message(f, m) == Field(f, 2, 0, <<>>, m)

Int32Of(n) == ((n + Mod32 \div 2) % Mod32) - Mod32 \div 2
RECURSIVE VarintSize(_)
VarintSize(n) == IF n < Group THEN 1 ELSE 1 + VarintSize(n \div Group)
Int32Size(n) == VarintSize(IF n < 0 THEN n + Mod64 ELSE n)
LengthDelimitedSize(n) == VarintSize(n) + n

RECURSIVE WireSize(_)
WireSize(wire) ==
    FoldLeft(LAMBDA n, d : n + 1 + CASE d.w = 0 -> VarintSize(d.n)
                                     [] d.w = 5 -> 4
                                     [] d.w = 2 -> LengthDelimitedSize(Len(d.s) + WireSize(d.m))
                                     [] OTHER -> 0, 0, wire)
VerifyUTF8(s) == ~Contains(s, Invalid)

\* A message being parsed, and handle_unusual: an end-group tag or a zero ends the
\* message before its end, which its caller refuses; other fields are kept as they are.
Reading(v) == [v |-> v, ok |-> TRUE]
Unusual(r, d) == IF d.f = 0 \/ d.w = 4 THEN [r EXCEPT !.ok = FALSE] ELSE [r EXCEPT !.v.u = Append(@, d)]
If(set, fields) == IF set THEN fields ELSE <<>>
Later(set, old, new) == IF set THEN new ELSE old

-----------------------------------------------------------------------------
\* Phone.
NewPhone == [number |-> <<>>, phone_type |-> 0, u |-> <<>>]
PhoneField(r, d) ==
    IF ~r.ok THEN r
    ELSE CASE d.f = 1 /\ d.w = 2 -> [r EXCEPT !.v.number = d.s, !.ok = VerifyUTF8(d.s)]
           [] d.f = 2 /\ d.w = 0 -> [r EXCEPT !.v.phone_type = Int32Of(d.n)]
           [] OTHER -> Unusual(r, d)
PhoneParse(p, wire) == FoldLeft(PhoneField, Reading(p), wire)
PhoneSerialize(p) ==
    If(p.number # <<>>, <<Text(1, p.number)>>) \o If(p.phone_type # 0, <<Varint(2, p.phone_type)>>) \o p.u
PhoneByteSize(p) ==
    Later(p.number # <<>>, 0, 1 + LengthDelimitedSize(Len(p.number)))
    + Later(p.phone_type # 0, 0, 1 + Int32Size(p.phone_type)) + WireSize(p.u)
PhoneMergeFrom(p, from) ==
    [number |-> Later(from.number # <<>>, p.number, from.number),
     phone_type |-> Later(from.phone_type # 0, p.phone_type, from.phone_type), u |-> p.u \o from.u]

\* Book: the price is the 32 bits of a float.
NewBook == [name |-> <<>>, price |-> 0, u |-> <<>>]
BookField(r, d) ==
    IF ~r.ok THEN r
    ELSE CASE d.f = 1 /\ d.w = 2 -> [r EXCEPT !.v.name = d.s, !.ok = VerifyUTF8(d.s)]
           [] d.f = 2 /\ d.w = 5 -> [r EXCEPT !.v.price = d.n]
           [] OTHER -> Unusual(r, d)
BookParse(b, wire) == FoldLeft(BookField, Reading(b), wire)
BookSerialize(b) ==
    If(b.name # <<>>, <<Text(1, b.name)>>) \o If(b.price # 0, <<Field(2, 5, b.price, <<>>, <<>>)>>) \o b.u
BookByteSize(b) ==
    Later(b.name # <<>>, 0, 1 + LengthDelimitedSize(Len(b.name))) + Later(b.price # 0, 0, 1 + 4) + WireSize(b.u)

\* Person; phone is a set of at most one.
NewPerson == [name |-> <<>>, age |-> 0, languages |-> <<>>, phone |-> {}, books |-> <<>>, vip |-> FALSE,
              address |-> <<>>, u |-> <<>>]
PhoneOf(p) == IF p.phone = {} THEN NewPhone ELSE CHOOSE q \in p.phone : TRUE
PersonField(r, d) ==
    LET phone == PhoneParse(PhoneOf(r.v), d.m)
        book == BookParse(NewBook, d.m)
    IN  IF ~r.ok THEN r
        ELSE CASE d.f = 1 /\ d.w = 2 -> [r EXCEPT !.v.name = d.s, !.ok = VerifyUTF8(d.s)]
               [] d.f = 2 /\ d.w = 0 -> [r EXCEPT !.v.age = Int32Of(d.n)]
               [] d.f = 3 /\ d.w = 2 -> [r EXCEPT !.v.languages = Append(@, d.s), !.ok = VerifyUTF8(d.s)]
               [] d.f = 4 /\ d.w = 2 -> [r EXCEPT !.v.phone = {phone.v}, !.ok = phone.ok]
               [] d.f = 5 /\ d.w = 2 -> [r EXCEPT !.v.books = Append(@, book.v), !.ok = book.ok]
               [] d.f = 6 /\ d.w = 0 -> [r EXCEPT !.v.vip = d.n # 0]
               [] d.f = 7 /\ d.w = 2 -> [r EXCEPT !.v.address = d.s, !.ok = VerifyUTF8(d.s)]
               [] OTHER -> Unusual(r, d)
PersonParse(p, wire) == FoldLeft(PersonField, Reading(p), wire)
PersonSerialize(p) ==
    If(p.name # <<>>, <<Text(1, p.name)>>)
    \o If(p.age # 0, <<Varint(2, p.age)>>)
    \o [i \in DOMAIN p.languages |-> Text(3, p.languages[i])]
    \o If(p.phone # {}, <<Message(4, PhoneSerialize(PhoneOf(p)))>>)
    \o [i \in DOMAIN p.books |-> Message(5, BookSerialize(p.books[i]))]
    \o If(p.vip, <<Varint(6, 1)>>)
    \o If(p.address # <<>>, <<Text(7, p.address)>>) \o p.u
Total(seq, Size(_)) == FoldLeft(LAMBDA n, x : n + Size(x), 0, seq)

SingularByteSize(p) ==
    Later(p.name # <<>>, 0, 1 + LengthDelimitedSize(Len(p.name)))
    + Later(p.address # <<>>, 0, 1 + LengthDelimitedSize(Len(p.address)))
    + Later(p.phone # {}, 0, 1 + LengthDelimitedSize(PhoneByteSize(PhoneOf(p))))
    + Later(p.age # 0, 0, 1 + Int32Size(p.age)) + Later(p.vip, 0, 1 + 1) + WireSize(p.u)

\* The size of a person whose books have no lengths of their own.
PersonByteSizeFlat(p) ==
    Len(p.languages) + Total(p.languages, LAMBDA s : LengthDelimitedSize(Len(s)))
    + Len(p.books) + Total(p.books, BookByteSize) + SingularByteSize(p)
PersonByteSize(p) ==
    Len(p.languages) + Total(p.languages, LAMBDA s : LengthDelimitedSize(Len(s)))
    + Len(p.books) + Total(p.books, LAMBDA b : LengthDelimitedSize(BookByteSize(b))) + SingularByteSize(p)
PersonMergeFrom(p, from) ==
    [name |-> Later(from.name # <<>>, p.name, from.name), age |-> Later(from.age # 0, p.age, from.age),
     languages |-> p.languages \o from.languages,
     phone |-> Later(from.phone # {}, p.phone, {PhoneMergeFrom(PhoneOf(p), PhoneOf(from))}),
     books |-> p.books \o from.books, vip |-> p.vip \/ from.vip,
     address |-> Later(from.address # <<>>, p.address, from.address), u |-> p.u \o from.u]

-----------------------------------------------------------------------------
\* A person with the phone it owns, and the state after it has become v: a phone that it
\* did not have is a new object.
At(x) == [msg[x] EXCEPT !.phone = IF own[x] = 0 THEN {} ELSE {heap[own[x]]}]
Fresh(h) == Min(1 .. MaxPhones + 1 \ DOMAIN h)
Put(h, id, phone) == [i \in DOMAIN h \cup {id} |-> IF i = id THEN phone ELSE h[i]]
Without(h, ids) == [i \in DOMAIN h \ ids |-> h[i]]
Becomes(x, v, id, h) ==
    LET new == IF v.phone = {} \/ id # 0 THEN id ELSE Fresh(h)
    IN  /\ new <= MaxPhones
        /\ msg' = [msg EXCEPT ![x] = [v EXCEPT !.phone = {}]]
        /\ own' = [own EXCEPT ![x] = new]
        /\ heap' = IF v.phone = {} THEN h ELSE Put(h, new, PhoneOf(v))
        /\ UNCHANGED held

Init ==
    /\ msg = [x \in {"a", "b"} |-> NewPerson] /\ own = [x \in {"a", "b"} |-> 0]
    /\ heap = <<>> /\ held = {} /\ calls = 0

\* set_name, set_age and add_languages.
setters(x) ==
    LET p == At(x) IN
    \/ \E s \in Strings : \/ Becomes(x, [p EXCEPT !.name = s], own[x], heap)
                          \/ Becomes(x, [p EXCEPT !.languages = Append(@, s)], own[x], heap)
    \/ \E n \in Ints : Becomes(x, [p EXCEPT !.age = n], own[x], heap)
\* add_books with the setters of a book, set_vip and set_address.
add_books(x) ==
    LET p == At(x) IN
    \/ \E s \in Strings :
          \/ Becomes(x, [p EXCEPT !.books = Append(@, [NewBook EXCEPT !.name = s, !.price = 1])], own[x], heap)
          \/ Becomes(x, [p EXCEPT !.address = s], own[x], heap)
    \/ Becomes(x, [p EXCEPT !.vip = TRUE], own[x], heap)
mutable_phone(x) ==
    \E s \in Strings, n \in Ints :
        Becomes(x, [At(x) EXCEPT !.phone = {[PhoneOf(At(x)) EXCEPT !.number = s, !.phone_type = n]}], own[x], heap)

clear_phone(x) ==
    /\ heap' = Without(heap, {own[x]}) /\ own' = [own EXCEPT ![x] = 0]
    /\ UNCHANGED <<msg, held>>
release_phone(x) ==
    /\ held' = held \cup ({own[x]} \ {0}) /\ own' = [own EXCEPT ![x] = 0]
    /\ UNCHANGED <<msg, heap>>

\* set_allocated_phone that forgets the phone there was.
set_allocated_leaks(x) ==
    \E id \in held \cup {0} :
        /\ own' = [own EXCEPT ![x] = id] /\ held' = held \ {id}
        /\ UNCHANGED <<msg, heap>>
set_allocated_phone(x) ==
    \E id \in held \cup {0} :
        /\ heap' = Without(heap, {own[x]}) /\ own' = [own EXCEPT ![x] = id] /\ held' = held \ {id}
        /\ UNCHANGED msg

Clear(x) == Becomes(x, NewPerson, 0, Without(heap, {own[x]}))
MergeFrom(x, y) == Becomes(x, PersonMergeFrom(At(x), At(y)), own[x], heap)
CopyFrom(x, y) == Becomes(x, PersonMergeFrom(NewPerson, At(y)), 0, Without(heap, {own[x]}))
\* delete of one person, and the copy constructor.
CopyConstruct(x, y) == Becomes(x, At(y), 0, Without(heap, {own[x]}))
InternalSwap ==
    /\ msg' = [msg EXCEPT !["a"] = msg["b"], !["b"] = msg["a"]]
    /\ own' = [own EXCEPT !["a"] = own["b"], !["b"] = own["a"]]
    /\ UNCHANGED <<heap, held>>
\* MergeFromString, and ParseFromString, which clears first; a failure keeps what was read.
Parse(x) ==
    \E wire \in Wires :
        \/ Becomes(x, PersonParse(At(x), wire).v, own[x], heap)
        \/ Becomes(x, PersonParse(NewPerson, wire).v, 0, Without(heap, {own[x]}))

Call ==
    \/ \E x \in {"a", "b"} : \/ setters(x) \/ add_books(x) \/ mutable_phone(x)
                             \/ clear_phone(x) \/ release_phone(x) \/ set_allocated_phone(x) \/ Clear(x) \/ Parse(x)
                             \/ \E y \in {"a", "b"} \ {x} : MergeFrom(x, y) \/ CopyFrom(x, y) \/ CopyConstruct(x, y)
    \/ InternalSwap
Next == calls < MaxCalls /\ calls' = calls + 1 /\ Call
Spec == Init /\ [][Next]_personVars

-----------------------------------------------------------------------------
\* Every phone there is belongs to one person or to the caller, and those that belong to
\* somebody are there.
PhonesHaveOneOwner ==
    LET owned == {own[x] : x \in {"a", "b"}} \ {0}
    IN  /\ DOMAIN heap = owned \cup held /\ owned \cap held = {}
        /\ own["a"] = own["b"] => own["a"] = 0

Valid(p) ==
    /\ VerifyUTF8(p.name) /\ VerifyUTF8(p.address) /\ VerifyUTF8(PhoneOf(p).number)
    /\ \A i \in DOMAIN p.languages : VerifyUTF8(p.languages[i])
    /\ \A i \in DOMAIN p.books : VerifyUTF8(p.books[i].name)

\* A person is parsed as it was serialised, unknown fields included, its size is the
\* one of its bytes, and the bytes of two persons, one after the other, are those merged.
WireIsFaithful ==
    LET a == At("a") b == At("b") IN
    /\ PersonByteSize(a) = WireSize(PersonSerialize(a))
    /\ Valid(a) => PersonParse(NewPerson, PersonSerialize(a)) = Reading(a)
    /\ Valid(b) => PersonParse(a, PersonSerialize(b)) = Reading(PersonMergeFrom(a, b))
    /\ PersonMergeFrom(NewPerson, a) = a
=============================================================================
