------------------------------ MODULE CJSONTree ------------------------------
(***************************************************************************)
(* ProtoBuf/cjson_test/cJSON.c: items, their doubly linked child lists and *)
(* their strings in a heap whose allocations fail when it is full.  The    *)
(* history variable kids is the forest the calls promise, held are the     *)
(* items the client may use as it likes: those it made or detached and has *)
(* not attached since.  The client keeps the contract: it attaches what it *)
(* holds, makes no item its own descendant, through references neither,    *)
(* and frees or detaches nothing a reference still shows.                  *)
(***************************************************************************)
EXTENDS Integers, Sequences, SequencesExt, FiniteSets, FiniteSetsExt

CONSTANTS N,                  \* cells of the heap
          Keys, Asked,        \* names of added and of looked up members: 2n - 1 and 2n
                              \* differ in the case only
          Types,              \* of "scalar", "string", "array" and "object"
          MaxIndex, MaxCalls  \* bounds on the index arguments and on the calls

VARIABLES heap,               \* Addr -> a free cell, a string or an item
          kids,               \* history: item -> its children
          held,               \* history: the items of the client
          lost,               \* history: items nobody has a pointer to any more
          calls               \* history: their number

vars == <<heap, kids, held, lost, calls>>

Addr == 1 .. N
NULL == 0
Free == [kind |-> "free"]
Text(k) == [kind |-> "text", text |-> k]
\* A literal is not in the heap: its address is negative.
Literal(k) == -k
Letters(h, s) == IF s < 0 THEN -s ELSE h[s].text

IsItem(h, a) == a \in Addr /\ h[a].kind = "item"

-----------------------------------------------------------------------------
\* hooks->allocate: the first free cell, or NULL.
Alloc(h, cell) ==
    LET free == {a \in Addr : h[a] = Free}
    IN  IF free = {} THEN [heap |-> h, ptr |-> NULL]
        ELSE [heap |-> [h EXCEPT ![Min(free)] = cell], ptr |-> Min(free)]
Dealloc(h, a) == [h EXCEPT ![a] = Free]

cJSON_strdup(h, k) == Alloc(h, Text(k))

Blank(type) ==
    [kind |-> "item", type |-> type, ref |-> FALSE, const |-> FALSE, next |-> NULL,
     prev |-> NULL, child |-> NULL, string |-> NULL, valuestring |-> NULL]
cJSON_New_Item(h, type) == Alloc(h, Blank(type))

RECURSIVE DeleteOwn(_, _)                                    \* mutant of cJSON_Delete
DeleteOwn(h, item) ==
    IF item = NULL THEN h
    ELSE LET it == h[item]
             h1 == IF it.child # NULL THEN DeleteOwn(h, it.child) ELSE h
         IN  DeleteOwn(Dealloc(h1, item), it.next)

RECURSIVE cJSON_Delete(_, _)
cJSON_Delete(h, item) ==
    IF item = NULL THEN h
    ELSE LET it == h[item]
             h1 == IF ~it.ref /\ it.child # NULL THEN cJSON_Delete(h, it.child) ELSE h
             h2 == IF ~it.ref /\ it.valuestring # NULL THEN Dealloc(h1, it.valuestring) ELSE h1
             h3 == IF ~it.const /\ it.string # NULL THEN Dealloc(h2, it.string) ELSE h2
         IN  cJSON_Delete(Dealloc(h3, item), it.next)

\* The list from a pointer along next, and the item at an index or of a name.
RECURSIVE List(_, _)
List(h, a) == IF a = NULL THEN <<>> ELSE <<a>> \o List(h, h[a].next)

get_array_item(h, array, index) ==
    LET l == List(h, h[array].child)
    IN  IF index + 1 \in DOMAIN l THEN l[index + 1] ELSE NULL

SameLetters(k, l, case_sensitive) ==
    k = l \/ (~case_sensitive /\ (k + 1) \div 2 = (l + 1) \div 2)

\* With case_sensitive the search ends at a child without a name, and finds nothing.
get_object_item(h, object, k, case_sensitive) ==
    LET Matches(a) == h[a].string # NULL /\ SameLetters(k, Letters(h, h[a].string), case_sensitive)
        Stops(a) == Matches(a) \/ (case_sensitive /\ h[a].string = NULL)
        stop == SelectSeq(List(h, h[object].child), Stops)
    IN  IF stop # <<>> /\ h[stop[1]].string # NULL THEN stop[1] ELSE NULL

suffix_object(h, prev, item) == [h EXCEPT ![prev].next = item, ![item].prev = prev]

create_reference(h, item) == Alloc(h, [h[item] EXCEPT !.string = NULL, !.ref = TRUE,
                                                      !.next = NULL, !.prev = NULL])

add_item_to_array(h, array, item) ==
    IF h[array].child = NULL THEN [h EXCEPT ![array].child = item]
    ELSE suffix_object(h, Last(List(h, h[array].child)), item)

Named(h, item, string, const) ==
    LET it == h[item]
        h1 == IF ~it.const /\ it.string # NULL THEN Dealloc(h, it.string) ELSE h
    IN  [h1 EXCEPT ![item].string = string, ![item].const = const]

\* The new heap and whether the item was added.
add_item_to_object(h, object, k, item, constant_key) ==
    LET dup == cJSON_strdup(h, k)
        key == IF constant_key THEN [heap |-> h, ptr |-> Literal(k)] ELSE dup
    IN  IF item = NULL \/ key.ptr = NULL THEN [heap |-> h, ok |-> FALSE]
        ELSE [heap |-> add_item_to_array(Named(key.heap, item, key.ptr, constant_key), object, item),
              ok |-> TRUE]

DetachOneWay(h, parent, item) ==                             \* mutant of the next
    LET it == h[item]
        h1 == IF it.prev # NULL THEN [h EXCEPT ![it.prev].next = it.next] ELSE h
        h2 == IF h[parent].child = item THEN [h1 EXCEPT ![parent].child = it.next] ELSE h1
    IN  [h2 EXCEPT ![item].prev = NULL, ![item].next = NULL]
cJSON_DetachItemViaPointer(h, parent, item) ==
    LET it == h[item]
        h1 == IF it.prev # NULL THEN [h EXCEPT ![it.prev].next = it.next] ELSE h
        h2 == IF it.next # NULL THEN [h1 EXCEPT ![it.next].prev = it.prev] ELSE h1
        h3 == IF h[parent].child = item THEN [h2 EXCEPT ![parent].child = it.next] ELSE h2
    IN  [h3 EXCEPT ![item].prev = NULL, ![item].next = NULL]

InsertBefore(h, array, after_inserted, newitem) ==
    LET prev == h[after_inserted].prev
        h1 == [h EXCEPT ![newitem].next = after_inserted, ![newitem].prev = prev,
                        ![after_inserted].prev = newitem]
    IN  IF h[array].child = after_inserted THEN [h1 EXCEPT ![array].child = newitem]
        ELSE [h1 EXCEPT ![prev].next = newitem]

cJSON_ReplaceItemViaPointer(h, parent, item, replacement) ==
    LET it == h[item]
        h1 == [h EXCEPT ![replacement].next = it.next, ![replacement].prev = it.prev]
        h2 == IF it.next # NULL THEN [h1 EXCEPT ![it.next].prev = replacement] ELSE h1
        h3 == IF it.prev # NULL THEN [h2 EXCEPT ![it.prev].next = replacement] ELSE h2
        h4 == IF h[parent].child = item THEN [h3 EXCEPT ![parent].child = replacement] ELSE h3
    IN  cJSON_Delete([h4 EXCEPT ![item].next = NULL, ![item].prev = NULL], item)

\* An item of a type, a string with its text; NULL if an allocation fails.
Create(h, type) ==
    LET new == cJSON_New_Item(h, type)
        dup == cJSON_strdup(new.heap, 0)
    IN  IF type # "string" \/ new.ptr = NULL THEN new
        ELSE IF dup.ptr = NULL THEN [heap |-> cJSON_Delete(dup.heap, new.ptr), ptr |-> NULL]
        ELSE [new EXCEPT !.heap = [dup.heap EXCEPT ![new.ptr].valuestring = dup.ptr]]

\* cJSON_Create...Array: n items of a type; all or nothing.
RECURSIVE Fill(_, _, _, _)
Fill(h, a, type, n) ==
    LET new == Create(h, type)
    IN  IF n = 0 THEN [heap |-> h, ptr |-> a]
        ELSE IF new.ptr = NULL THEN [heap |-> cJSON_Delete(new.heap, a), ptr |-> NULL]
        ELSE Fill(add_item_to_array(new.heap, a, new.ptr), a, type, n - 1)
CreateArrayOf(h, type, n) ==
    LET a == Create(h, "array") IN IF a.ptr = NULL THEN a ELSE Fill(a.heap, a.ptr, type, n)

\* cJSON_Duplicate: the item, its strings (a constant name is shared), then the children.
RECURSIVE cJSON_Duplicate(_, _, _)
RECURSIVE DuplicateList(_, _, _)
cJSON_Duplicate(h, item, recurse) ==
    LET it == h[item]
        new == cJSON_New_Item(h, it.type)
        value == IF it.valuestring = NULL THEN [new EXCEPT !.ptr = NULL]
                 ELSE cJSON_strdup(new.heap, Letters(h, it.valuestring))
        name == IF it.string = NULL \/ it.const THEN [value EXCEPT !.ptr = it.string]
                ELSE cJSON_strdup(value.heap, Letters(h, it.string))
        h1 == [value.heap EXCEPT ![new.ptr].valuestring = value.ptr, ![new.ptr].const = it.const]
        h2 == [name.heap EXCEPT ![new.ptr] = h1[new.ptr], ![new.ptr].string = name.ptr]
        fail(g) == [heap |-> cJSON_Delete(g, new.ptr), ptr |-> NULL]
    IN  IF new.ptr = NULL THEN new
        ELSE IF it.valuestring # NULL /\ value.ptr = NULL THEN fail(h1)
        ELSE IF it.string # NULL /\ name.ptr = NULL THEN fail(h2)
        ELSE IF ~recurse THEN [heap |-> h2, ptr |-> new.ptr]
        ELSE DuplicateList(h2, List(h, it.child), new.ptr)
DuplicateList(h, list, newitem) ==
    LET new == cJSON_Duplicate(h, Head(list), TRUE)
    IN  IF list = <<>> THEN [heap |-> h, ptr |-> newitem]
        ELSE IF new.ptr = NULL THEN [heap |-> cJSON_Delete(new.heap, newitem), ptr |-> NULL]
        ELSE DuplicateList(add_item_to_array(new.heap, newitem, new.ptr), Tail(list), newitem)

-----------------------------------------------------------------------------
\* What the calls are allowed on: the items of a tree, what one shows through
\* references too, the containers of the client, and what it may free.
RECURSIVE Tree(_, _)
Tree(h, i) ==
    {i} \cup IF h[i].ref THEN {} ELSE UNION {Tree(h, c) : c \in Range(List(h, h[i].child))}
RECURSIVE Shown(_, _)
Shown(h, i) == Range(List(h, h[i].child)) \cup UNION {Shown(h, c) : c \in Range(List(h, h[i].child))}

Owned == UNION {Tree(heap, i) : i \in held}
Containers == {i \in Owned : heap[i].type \in {"array", "object"} /\ ~heap[i].ref}
Strings(i) == {heap[i].string} \cup IF heap[i].ref THEN {} ELSE {heap[i].valuestring}
MayFree(i) ==
    LET tree == Tree(heap, i)
        gone == (tree \cup UNION {Strings(j) : j \in tree}) \ {NULL}
    IN  \A r \in Addr \ tree :
            IsItem(heap, r) /\ heap[r].ref => heap[r].child \notin gone /\ heap[r].valuestring \notin gone
MayDetach(i) == \A r \in Addr : IsItem(heap, r) /\ heap[r].ref => heap[r].child # i
NoCycle(p, i) == i # p /\ ({p} \cup Range(kids[p])) \cap Shown(heap, i) = {}
MayAttach(p, i) == p \in Containers /\ i \in held /\ NoCycle(p, i)

\* The forest without the items that are no more.
Alive(h, forest) == [a \in Addr |-> IF IsItem(h, a) THEN forest[a] ELSE <<>>]

\* A call that makes an item, and its lists, for the client.
Gives(r) ==
    /\ heap' = r.heap
    /\ held' = held \cup ({r.ptr} \ {NULL})
    /\ kids' = [a \in Addr |-> IF IsItem(heap, a) \/ ~IsItem(r.heap, a) \/ r.heap[a].ref THEN kids[a]
                               ELSE List(r.heap, r.heap[a].child)]
    /\ UNCHANGED lost

\* A call after which p has the children s and the client has the items keep.
Leaves(h, p, s, keep) ==
    /\ heap' = h
    /\ kids' = Alive(h, [kids EXCEPT ![p] = s])
    /\ held' = keep
    /\ UNCHANGED lost

-----------------------------------------------------------------------------
Init ==
    /\ heap = [a \in Addr |-> Free]
    /\ kids = [a \in Addr |-> <<>>]
    /\ held = {} /\ lost = {} /\ calls = 0

CreateItem(type) == Gives(Create(heap, type))

cJSON_CreateStringReference ==
    Gives(Alloc(heap, [Blank("string") EXCEPT !.ref = TRUE, !.valuestring = Literal(1)]))

\* cJSON_CreateObjectReference and cJSON_CreateArrayReference
CreateChildReference(i) ==
    /\ i \in Containers
    /\ Gives(Alloc(heap, [Blank(heap[i].type) EXCEPT !.ref = TRUE, !.child = heap[i].child]))

CreateArrays(type, n) == Gives(CreateArrayOf(heap, type, n))

Duplicate(i, recurse) == i \in Owned /\ Gives(cJSON_Duplicate(heap, i, recurse))

Delete(i) ==
    /\ i \in held /\ MayFree(i)
    /\ Leaves(cJSON_Delete(heap, i), i, <<>>, held \ {i})

cJSON_AddItemToArray(p, i) ==
    /\ MayAttach(p, i)
    /\ Leaves(add_item_to_array(heap, p, i), p, Append(kids[p], i), held \ {i})

\* cJSON_AddItemToObject and cJSON_AddItemToObjectCS
AddItemToObject(p, k, i, const) ==
    LET r == add_item_to_object(heap, p, k, i, const)
    IN  /\ MayAttach(p, i)
        /\ IF r.ok THEN Leaves(r.heap, p, Append(kids[p], i), held \ {i}) ELSE UNCHANGED <<heap, kids, held, lost>>

cJSON_AddItemReferenceToArray(p, i) ==
    LET r == create_reference(heap, i)
    IN  /\ p \in Containers /\ i \in Owned /\ NoCycle(p, i)
        /\ IF r.ptr # NULL
           THEN Leaves(add_item_to_array(r.heap, p, r.ptr), p, Append(kids[p], r.ptr), held)
           ELSE UNCHANGED <<heap, kids, held, lost>>

\* A reference that gets no name is neither added nor deleted.
cJSON_AddItemReferenceToObject(p, k, i) ==
    LET r == create_reference(heap, i)
        added == add_item_to_object(r.heap, p, k, r.ptr, FALSE)
    IN  /\ p \in Containers /\ i \in Owned /\ NoCycle(p, i)
        /\ \/ added.ok /\ Leaves(added.heap, p, Append(kids[p], r.ptr), held)
           \/ ~added.ok /\ heap' = r.heap /\ lost' = lost \cup ({r.ptr} \ {NULL})
              /\ UNCHANGED <<kids, held>>

\* cJSON_AddNullToObject to cJSON_AddArrayToObject
AddNewToObject(p, k, type) ==
    LET r == Create(heap, type)
        added == add_item_to_object(r.heap, p, k, r.ptr, FALSE)
    IN  /\ p \in Containers
        /\ IF added.ok THEN Leaves(added.heap, p, Append(kids[p], r.ptr), held)
           ELSE Leaves(cJSON_Delete(r.heap, r.ptr), p, kids[p], held)

\* cJSON_DetachItemFromArray, cJSON_DetachItemFromObject and their Delete forms.
Detach(p, item) ==
    /\ p \in Containers /\ item # NULL /\ MayDetach(item)
    /\ Leaves(cJSON_DetachItemViaPointer(heap, p, item), p, Remove(kids[p], item), held \cup {item})
DetachAndDelete(p, item) ==
    /\ p \in Containers /\ item # NULL /\ MayFree(item)
    /\ Leaves(cJSON_Delete(cJSON_DetachItemViaPointer(heap, p, item), item), p,
              Remove(kids[p], item), held)

\* Behind the end, the item is appended.
cJSON_InsertItemInArray(p, which, i) ==
    LET after_inserted == get_array_item(heap, p, which)
    IN  /\ MayAttach(p, i)
        /\ Leaves(IF after_inserted = NULL THEN add_item_to_array(heap, p, i)
                  ELSE InsertBefore(heap, p, after_inserted, i),
                  p, InsertAt(kids[p], Min({which, Len(kids[p])}) + 1, i), held \ {i})

Replaced(s, old, new) == [j \in DOMAIN s |-> IF s[j] = old THEN new ELSE s[j]]

cJSON_ReplaceItemInArray(p, which, i) ==
    LET item == get_array_item(heap, p, which)
    IN  /\ MayAttach(p, i) /\ item # NULL /\ MayFree(item)
        /\ Leaves(cJSON_ReplaceItemViaPointer(heap, p, item, i), p, Replaced(kids[p], item, i), held \ {i})

\* replace_item_in_object: the replacement takes the name, or none if there is no
\* memory for it, before the member is looked up; without a member it stays outside.
ReplaceItemInObject(p, k, i, case_sensitive) ==
    LET it == heap[i]
        h1 == IF ~it.const /\ it.string # NULL THEN Dealloc(heap, it.string) ELSE heap
        dup == cJSON_strdup(h1, k)
        h2 == [dup.heap EXCEPT ![i].string = dup.ptr, ![i].const = FALSE]
        item == get_object_item(h2, p, k, case_sensitive)
    IN  /\ MayAttach(p, i)
        /\ \/ item = NULL /\ Leaves(h2, p, kids[p], held)
           \/ item # NULL /\ MayFree(item)
              /\ Leaves(cJSON_ReplaceItemViaPointer(h2, p, item, i), p,
                        Replaced(kids[p], item, i), held \ {i})

ByIndex(p) == {get_array_item(heap, p, which) : which \in 0 .. MaxIndex}
ByName(p) == {get_object_item(heap, p, k, cs) : k \in Asked, cs \in BOOLEAN}

Call ==
    \/ \E type \in Types : CreateItem(type)
    \/ \E type \in Types \ {"array", "object"}, n \in 0 .. MaxIndex : CreateArrays(type, n)
    \/ cJSON_CreateStringReference
    \/ \E i \in Owned : CreateChildReference(i) \/ Delete(i) \/ \E r \in BOOLEAN : Duplicate(i, r)
    \/ \E p \in Containers, i \in Owned :
          \/ cJSON_AddItemToArray(p, i) \/ cJSON_AddItemReferenceToArray(p, i)
          \/ \E which \in 0 .. MaxIndex :
                cJSON_InsertItemInArray(p, which, i) \/ cJSON_ReplaceItemInArray(p, which, i)
          \/ \E k \in Keys :
                \/ cJSON_AddItemReferenceToObject(p, k, i)
                \/ \E const \in BOOLEAN : AddItemToObject(p, k, i, const)
          \/ \E k \in Asked, cs \in BOOLEAN : ReplaceItemInObject(p, k, i, cs)
    \/ \E p \in Containers :
          \/ \E item \in ByIndex(p) \cup ByName(p) : Detach(p, item) \/ DetachAndDelete(p, item)
          \/ \E k \in Keys, type \in Types : AddNewToObject(p, k, type)

Next == calls < MaxCalls /\ calls' = calls + 1 /\ Call

Spec == Init /\ [][Next]_vars

-----------------------------------------------------------------------------
Items == {a \in Addr : IsItem(heap, a)}

\* next and prev are inverse, a list starts without a prev, and no pointer is stale.
Linked ==
    \A a \in Items :
        LET it == heap[a] IN
        /\ it.next # NULL => it.next \in Items /\ heap[it.next].prev = a
        /\ it.prev # NULL => it.prev \in Items /\ heap[it.prev].next = a
        /\ it.child # NULL => it.child \in Items /\ (~it.ref => heap[it.child].prev = NULL)
        /\ \A s \in {it.string, it.valuestring} : s > 0 => heap[s].kind = "text"

\* After any calls the child lists, walked either way, are what was appended,
\* inserted, replaced and detached, in that order, and no pointer dangles; a member
\* is found by its name if all children have one.
ListsAreKids ==
    /\ Linked
    /\ \A a \in Items : ~heap[a].ref => List(heap, heap[a].child) = kids[a]
    /\ \A a \in Items, k \in Asked, cs \in BOOLEAN :
          LET named == SelectSeq(kids[a], LAMBDA c : SameLetters(k, Letters(heap, heap[c].string), cs))
          IN  (~heap[a].ref /\ \A c \in Range(kids[a]) : heap[c].string # NULL) =>
                  get_object_item(heap, a, k, cs) = IF named = <<>> THEN NULL ELSE named[1]

Owners(a) ==
    Cardinality({i \in Items : heap[i].child = a /\ ~heap[i].ref})
    + Cardinality({i \in Items : heap[i].next = a})
    + Cardinality({i \in Items : heap[i].string = a /\ ~heap[i].const})
    + Cardinality({i \in Items : heap[i].valuestring = a /\ ~heap[i].ref})
    + Cardinality({i \in held \cup lost : i = a})

\* Every cell in use, item or string, has one owner that will free it: nothing is
\* freed twice, and only a reference for whose name there was no memory is lost.
OneOwner == \A a \in Addr : heap[a] # Free => Owners(a) = 1

RECURSIVE Shape(_, _)
Shape(h, i) ==
    LET text(s) == IF s = NULL THEN <<>> ELSE <<Letters(h, s)>>
        list == List(h, h[i].child)
    IN  <<h[i].type, text(h[i].string), text(h[i].valuestring), [j \in DOMAIN list |-> Shape(h, list[j])]>>

\* A duplicate has the type, the name, the value and the children of the original,
\* references in it resolved; one that fails half way leaves the heap as it was.
DuplicateIsEqual ==
    \A i \in Owned :
        LET d == cJSON_Duplicate(heap, i, TRUE)
        IN  IF d.ptr = NULL THEN d.heap = heap ELSE Shape(d.heap, d.ptr) = Shape(heap, i)
=============================================================================
