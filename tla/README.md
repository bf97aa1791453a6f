# Verification of High-performance-Component

TLA+ modules for the components of this repository, TLC configurations that check
them on small instances, and TLAPS proofs of the main results for every instance.

The repository is a collection of independent components in C and C++, each with a
small test or `main`. They share no state, so the project has one group of modules
per component; composition happens where a component is used by a program of the
repository (the callers of `test_LockedQueue.cpp`, `autoinc.cc` on top of the spin lock,
the example clients of the distributed lock, the event loops of the timers, the
hooked `malloc` inside `fopen`, the readers of jsoncpp behind its writers).

`PROJECT.json` lists the components, runs, mutants, the map from definitions to
source lines, the findings, the hazards and the theorems.

## 1. Inventory

| Part | Source | State | Operations | What is hard about it |
|---|---|---|---|---|
| Non-intrusive MPSC queue | `Queue_Design/MPSCQueue.h` | `_head`, `_tail`, nodes on the heap | Enqueue, Dequeue, destructor | broken list between exchange and link; deletion and address reuse |
| Intrusive MPSC queue | `Queue_Design/MPSCQueue.h` | links inside the objects, a dummy | Enqueue, Dequeue, destructor | dummy enqueued again by the consumer; objects reused at once |
| Message queue | `Queue_Design/msgqueue.c` | two linked lists, two mutexes, two condition variables, `nonblock` | create, put, get, swap, set_nonblock, set_block, destroy | swap in two halves around a wait; signals outside the mutex |
| Producer-consumer queue | `Queue_Design/ProducerConsumerQueue.h` | queue, one condition variable, `_shutdown` | Push, Pop, WaitAndPop, Cancel | lost notifications, release by Cancel |
| Locked queue | `Queue_Design/LockedQueue.h` | deque, mutex | add, next, next with a checker, peek, pop_front, readd, cancel | references and batches outside the lock |
| Spin lock, counters | `Atomic & Lock/spinlock.h`, `autoinc.cc` | lock word, plain counter | lock, trylock, unlock, increment | memory order |
| Memory-order programs | `Atomic & Lock/{relaxed,acquire_release,seq_cst}.cc` | two flags, a count | stores and loads | stale and differently ordered reads |
| Skip list | `Atomic & Lock/skiplist.h` | tower links, `prev_`, `max_height_` | Insert, Contains, iterator | readers without a lock during Insert |
| Distributed lock | `Distributed_Lock/redlock-cpp/redlock.cpp` | keys with expiry on the servers, client state | Lock, ContinueLock, Unlock | lost and late commands, clocks, retries |
| Deadlock detector | `Deadlock/deadlock.c` | table of locks, wait-for graph | hooks around lock and unlock, cycle search | table and mutex change in different steps |
| Timers | `Timers/timers.cc`, `timer_with_timerfd.cc` | ordered set of timers | AddTimer, DelTimer, HandleTimer, TimeToSleep, UpdateTimerfd | callbacks change the set; time passes between steps |
| Ring buffer | `Network_Buffer_Design/RingBuffer` | array, two wrapping counters | new, add, remove, delete, search, write_atomost | wrap of index and of counter |
| Fixed-block pool | `mempool/mempool_fixed_block.c` | page with a list in its free blocks | init, alloc, free | list inside memory the user writes |
| Unfixed pool | `mempool/mempool_unfixed.c` | list of nodes | init, alloc, dest | order of the node list |
| Leak detectors | `Memory_Leak/memleak.c`, `memleak_hook.c` | one file per block, flags | malloc, free | address reuse, global flags, descriptors |
| Dynamic strings | `Distributed_Lock/redlock-cpp/sds.c` | header with `len` and `free`, bytes | make room, cat, cpy, trim, range, incr, split, join, quote | three lengths that must agree; tokens and escapes |
| cJSON items | `ProtoBuf/cjson_test/cJSON.c` | doubly linked child lists, strings, references | create, add, detach, insert, replace, duplicate, delete | failing allocations in the middle; shared children |
| cJSON texts | `ProtoBuf/cjson_test/cJSON.c` | input offset, print buffer | parse, print, minify, compare | clean-up at every early return; buffers that grow |
| jsoncpp readers | `ProtoBuf/jsoncpp_test/json_reader.cpp` | tokens, stack of values, errors, pending comments | parse of `Reader` and `OurReader` | two copies of one parser; recovery; where a comment goes |
| jsoncpp values | `ProtoBuf/jsoncpp_test/json_value.cpp` | type, scalar, map | access, append, resize, remove, copy, compare, convert, Path | arrays with holes; limits of the integer types |
| jsoncpp writers | `ProtoBuf/jsoncpp_test/json_writer.cpp` | indentation, pending line, settings | four writers | line breaks around comments; quoting |
| Protocol buffer messages | `ProtoBuf/ProtoBuf_test/person.pb.{cc,h}` | fields, `phone_`, cached sizes | parse, serialise, size, merge, swap, release | unknown fields, default values, one owner of `phone_` |
| Chain buffer | `Network_Buffer_Design/ChainBuffer` | chained blocks | add, remove, search | not modelled, see section 8 |
| MySQL and spdlog programs, speed tests | | | | not modelled, see section 8 |

## 2. Modules

Components are modelled with one `pc` per thread and one step per atomic access or
per critical section. Locals that are dead are reset on return, so that states do
not differ in what no code reads. History variables (never read by a guard) hold
what the properties compare the state with. Small helpers that stand for one
expression of the code are separate operators.

### Queues

* `FifoQueue`: the abstract specification. `q` is the queue; Put, Get, and Drop for
  the queue that can be cancelled. Every queue below refines it.
* `MPSCQueueNonIntrusive`: nodes are addresses of a finite heap that `new` and
  `delete` move in and out of `allocated`, so an address is reused while another
  thread still holds it. `chain` records the order of the exchanges. Every atomic
  access of Enqueue and Dequeue is a step. The refinement maps `q` to the data of
  `chain` behind its first node: an Enqueue takes effect with its exchange.
* `MPSCQueueIntrusive`: the same for the links inside the objects. The dummy is
  enqueued by the consumer itself, which runs the three steps of Enqueue; an object
  may be enqueued again as soon as Dequeue has returned it.
* `MsgQueue`: cells with links, `get_head`, `put_head`, `put_tail`, `msg_cnt` and both
  condition variables as `pc` values. `get_mutex` is a variable; `put_mutex` is not,
  since its critical sections, ended by a wait or the unlock, are one step each.
  Waiters may wake spuriously. `msg_max - 1` wraps to `SizeMax` for a limit of 0, as
  `size_t` does.
* `ProducerConsumerQueue`: a critical section is a step; waiting consumers are woken
  by a notification, by Cancel or spuriously.
* `LockedQueue`: every method, with four kinds of consumers, one of which Init picks:
  checkers whose loops end at the first false, as in `test_LockedQueue.cpp` (`looping` are
  those that go on), checkers that call again ("pollers"), a consumer that peeks and
  pops, and one that takes batches and gives the rest back with `readd`.
* `MCMpsc` runs one of the two MPSC queues, `MCQueues` one of the last two.

### Locks and atomics

* `SpinLock` with the abstract `AtomicCounter`: the C11 build of the lock. The plain
  counter is a history of writes and each thread has a view of it; the lock word
  carries the view its last release published. A relaxed load transfers no view, an
  acquire exchange does. A thread that reads with an old view may read an old value:
  this is what a data race would do.
* `MemoryOrders`: `relaxed.cc`, `acquire_release.cc` and `seq_cst.cc` over a memory in
  which a location keeps all its values with the views published with them.
  `MCAtomics` runs one of these or `autoinc.cc`.
* `RedLock`: the clients step through their servers, one command a step,
  in real time `now`; keys on the servers carry an id and an expiry. A command may
  fail, which breaks the connection; the server may execute it at any later time or
  never (`late`). `Seconds` is `time(NULL)`.
* `DeadlockDetector`: application threads that take two mutexes each, with the hooks
  before and after each call, the table `locklist` and the graph `list`. The variable
  `prompt`, fixed by Init, says that no other thread runs between `lock_before` and
  the attempt to lock, or between the acquisition and `lock_after`. Each hook is one
  step. Memory `start_check` gets from `malloc` reads as zero.
  `search_for_cycle` and `DFS` are recursive operators, compared with the definition of
  a cycle. `MCDeadlock` has the routines that lock around a ring, and starts also from
  threads that are finished and have left any graph of four vertices behind, so that
  the search is checked on all of these.

### Skip list, timers

* `OrderedSet`: the abstract specification of the skip list for readers that run
  beside a writer: a query is answered from the set as it was at one moment of its
  run. Prev and SeekForPrev of the code are several searches; each search has such a
  moment.
* `SkipList`: one writer (the test says that writes are locked and reads are not),
  every load and store of a link a step, each reader with its iterator. `max_height_`
  is relaxed, so a reader may load any value it has held (`heights`). The links are
  release/acquire. Memory of a new node is `Junk` until it is stored. `Linked(l)` are the
  nodes some link of level `l` leads to; it is what the proofs reason about, since no
  induction along the list is available to them.
* `Timers`: both programs; the variable `timerfd`, fixed by Init, tells which. `clock`
  moves between any two steps. `TimeToSleep` reads the clock before `epoll_wait` does,
  and its `time_t` becomes an `int` that wraps at `IntMax`. The timerfd has its expiry
  counter and its epoll edge. Callbacks add and delete timers; one that deletes
  its own makes the erase after it undefined, and the model stops there ("undefined").
* `MCStructures` extends `SkipList` and runs it or the timers.

### Buffers, pools, leak detectors, strings

* `RingBuffer`: every function of `ringbuffer.c`, counters modulo `Modulus`; a byte
  outside the array equals no byte of the data. `ret` holds what the last call gave
  its caller.
* `FixedBlockPool`: the page is a map from offsets to stored links; users overwrite
  their blocks, which erases the links in them.
* `UnfixedPool`: nodes with their `free_ptr`, the list from `current`, and `first`. Blocks
  larger than a node are asked for, and `mp_alloc` goes on after `mp_dest`: the search may
  then meet a freed node, whose fields are unknown (`wild` records that memory of it was
  handed out), a node may get the address of the freed one, and the list may be a ring.
* `MemLeak`: `nMalloc` and `nFree` with heap and files as separate steps; `malloc` may
  return NULL, and NULL may be freed. `None` stands for the null pointer.
* `MemLeakHook`: the hooks with their two global flags, every access a step, the
  open descriptors, NULL from `malloc` and to `free`, and the nested `free` of a failed
  `fopen`. Init picks the threads that run (`users`) and the descriptors they have (`limit`).
* `Sds`: one string with its header and its bytes through any sequence of the functions
  that change it; `str` is the value a plain string would have. A write outside the
  allocation enlarges the domain of `buf`, which the invariant excludes.
* `SdsText`: `sdscatrepr`, `sdssplitargs`, `sdssplitlen` and the joins as operators over
  byte sequences; in `sdssplitlen` any one allocation may fail.
* `Memory` runs one of the first five, which is what the proofs are about; `MCMemory`
  extends it with the strings.

### Serialisation libraries

The code here is sequential. What it does with an input is an operator; Init picks the
input, and the properties compare the operators with each other or with a definition.
For cJSON texts and the readers the input comes with a step, the call, and the properties
are action properties, about every call.
Where a client makes a sequence of calls, each call is an action.

* `CJSONTree`: items and strings are cells of a heap, so addresses are reused and an
  allocation fails when the heap is full. `kids` is the forest the calls promise, `held`
  are the items the client owns, `lost` those it has no pointer to any more. The client
  keeps the contract of `cJSON.h`.
* `CJSONText`: parsing, printing, minifying and comparing. Allocations are counted and
  one of them fails; a print buffer is its text, its size, whether there is a block, and
  whether something was written behind its end.
* `JsonNodes`: bytes by name, the values a JSON text stands for, numbers, and the
  part of `Json::Value` the readers build with. `strtod` takes the longest number a text
  starts with, sign, point and exponent; a double is a number of hundredths with at most six
  digits before the point, a zero of either sign, or an infinity. A tree is a function
  from paths to nodes, so a `Value*` is a path and the stack `nodes_` the path of the
  current value.
* `JsonReader`: class `Reader`. An operator takes the reader and gives the reader
  afterwards, with what the method returned (`ok`) and whether it threw (`thrown`).
* `JsonOurReader`: class `OurReader`, which the file calls a copy of `Reader`: the methods
  that are the same are taken from `JsonReader`, the others are written out.
* `JsonWriter`: `FastWriter`, `StyledWriter`, `StyledStreamWriter` and what
  `StreamWriterBuilder` makes. The last three differ in a few conditions only and share
  operators; the kind is a field of the writer.
* `JsonReading`: the composition of both readers and all writers, and the properties.
* `JsonValue`: two values under any short sequence of calls, and the order, the
  conversions and `Path` on pairs of values. The map of an array holds only the elements
  that were accessed, as in the code. A failing `JSON_ASSERT` is a result.
* `PersonMessages`: two `Person` messages. Bytes on the wire are a sequence of fields;
  varints, UTF-8 and unknown fields are the protobuf library's and external. `Phone`
  objects live in a heap so that ownership can be followed through `release_phone`,
  `set_allocated_phone`, `Swap`, `MergeFrom` and the destructor.
* `MCSerial` runs one of the five parts.

A module that runs one of several components has a variable `running` (`part` in
`MCSerial`, `executed` in `MCAtomics`), chosen by its Init; the variables of the others
keep their initial values.

### Proofs

`MPSCQueueProofs` and `MsgQueueProofs` extend their queue; `LockProofs` extends
`MCQueues` and `MCAtomics`; `RedLockProofs` and `SkipListProofs` extend their
component; `StructuresProofs` extends `SkipListProofs` and `MCStructures`; `RingProofs`
and `MemoryProofs` extend `Memory`.

## 3. Runs

Deadlock is not checked: each of these programs may simply stop, with all calls made,
a bound reached, or threads in a queue that nobody feeds. What must not stop is stated
as a liveness property or, for sleepers, as part of an invariant.

| Run | Instance | Checked |
|---|---|---|
| `mpsc` | 3 producers; 2 objects and 4 addresses, or 3 objects with links | `Inv` (list shape, no use after free, no leak), MissIsHonest, RefinesFifo; LinksInOrder (the same of the intrusive queue: no touch after return, dummy once); AllDelivered |
| `msgqueue` | 2 putters, 2 getters, 1 controller, 3 messages, limit 1 | `Inv` (two lists, exclusion, ownership, no lost wakeup), HonestNull, RefinesFifo, EveryCallReturns |
| `queues` | 3 consumers, 3 objects; the adders and checkers of `test_LockedQueue.cpp` | `Inv` (no lost wakeup, Cancel releases), CancelHonoured, RefinesFifo; ItemsInOrder (locked queue); AllTaken |
| `atomics` | 3 threads with 2 increments, one of which only tries; the order programs | LockInv, RefinesCounter, AutoincEnds; OrdersSuffice |
| `redlock` | 2 clients, one of which continues its lock, 3 servers, 1 failing connection, ttl 4 | RedLockInv, MutualExclusion, ValidityIsHonest, NothingLeftBehind |
| `redlock_continue_example` | ttl and clock of the example `CLockExample.cpp` | ValidityIsHonest is violated (section 6) |
| `deadlock` | 3 threads around 3 mutexes; all graphs of 4 vertices | ReportsDeadlocks, SearchFindsCycles |
| `deadlock_missed` | the same | DeadlocksDetected is violated (section 6) |
| `structures` | 4 keys, 2 levels, 1 reader beside the writer; 3 timers, delays 0, 1, 2, both programs | StructuresAreSound (sorted nested levels, `prev_`, stored links only; a timer fires once or is deleted, no sleep past the first), FiresFirstAndNotEarly, RefinesOrderedSet, AllEnd |
| `memory` | arrays of at most 4 with counters modulo 8; page of 17 with five block sizes; nodes of 4; 3 addresses; short strings | RingKeepsBytes, PoolsAreDisjoint, FilesTellLeaks, StringsHold |
| `serial` | see section 4 | TreesAreSound, ParseIsSound, PrintIsParsed (cJSON); ReadsSoundly, KeepsComments, WritesReadBack, ValuesAreHonest (jsoncpp); MessagesAreFaithful (protobuf) |
| `json_resize` | the values of `serial` | ResizeNeverAsserts is violated (section 6) |

The passing runs take from a few seconds to about three minutes and reach between 5,000
and 3.7 million states. What each property says is in the comment above it. Some hold
under a condition, which the property states:

* EveryCallReturns says of the message queue that messages come out and putters are woken
  if the getters together keep calling `msgqueue_get` (`GettersKeepCalling`), which is the
  callers' part, and that in a mode that stays nonblocking every call returns.
* RedLockInv and the two properties that follow from it need the drift allowance to
  cover the rounding of the clock, as in the instance of `redlock`.
* ReportsDeadlocks relates the graph to deadlocks for `prompt` threads only, and for
  the routines of `main`, which lock around a ring: they never wait for the same
  mutex from two sides of a diamond.
* RingKeepsBytes says always that the array holds the right bytes. `buffer_remove` gives
  them to its caller when the buffer is full, or when they lie in one piece and are no more
  than the array has from the tail on; in all other cases its copy is split at the wrong
  place, also for bytes in one piece. `buffer_search` is asked about data in one piece that
  is no shorter than the pattern.
* PoolsAreDisjoint says of the fixed pool that the list ends in the page when there is room
  behind the last block, and of the other that a block no larger than a node stays in its
  node. That mp_alloc searches all nodes and no freed one it says until `mp_dest`.
* FilesTellLeaks says always, for `memleak_hook.c`, that no block in use is given back. Of
  one thread for which `fopen` has not failed (`Tracked`) it says that every block has its
  file, and that nothing else has one until `free(NULL)` is called.
* WritesReadBack excludes what a writer has no notation for (`Expressible`), and nothing
  is asked of what strict mode reads; section 6 lists these cases.
* ReadsSoundly asks for the offsets of values unless dropped null placeholders are
  allowed: such a null has no text. That `OurReader` does what `Reader` does it says of
  documents without signs, apostrophes, long names, special floats, and numbers whose
  exponent is incomplete or too large (`Common`).
* KeepsComments asks for every comment if the document would also be accepted with
  `rejectDupKeys` and `failIfExtra`, and else only that none is made up.
* ParseIsSound compares texts with numbers written as `print_number` writes them.
* ValuesAreHonest excepts from the conversions a double equal to the rounded maximum of a
  64-bit type, and from the promises of value.h array elements that were never accessed.
* MessagesAreFaithful asks for reading back only of messages whose strings are UTF-8.

Each property of each passing run has a mutant in `PROJECT.json`: a change of one
mapped definition, such as a dropped guard or a weaker memory order, that TLC finds
to violate it.

## 4. Bounds

* Three producers on an MPSC queue: one stopped between exchange and link, one
  linked behind the gap, one that starts after the consumer deleted a node. Four
  addresses are the first node, one per producer, and so reuse while one is held.
* A limit of one message makes putters block; three messages fill both lists at
  once. Two getters: one asleep in the swap with `get_mutex`, one behind it.
* Three consumers of the producer-consumer queue: a sleeper, a woken one, and one
  that overtakes it.
* Redlock: `Ttl = 4` and `SecLen = 3` give a drift of 2, the smallest that covers
  the rounding of the clock; three servers are the smallest number whose quorum is a
  proper subset. `MaxTime`, `MaxCalls` and `MaxBroken` bound the exploration only,
  and the theorems hold for all their values.
* Deadlock detector: three threads are the smallest ring that is not a pair, and the
  first of them runs twice, so that it meets entries and vertices of its first run.
* Skip list: four keys of two levels reach each case of the fast path of Insert and
  searches that come down into a part that changes.
* Timers: no timer expires after `MaxClock`, the clock goes on to twice that so that
  a late loop still sees time pass. With `IntMax = 1` a delay of 2 is more than an int can
  tell, as more than `INT_MAX` milliseconds (24 days) are.
* Ring buffer: counters modulo 8 over arrays of 2 and 4 wrap within a few calls;
  the code needs only that the array's size divides 2^32.
* `relaxed.cc` repeats its threads 100000 times; two rounds are kept.
* sds: strings of at most 4 bytes with `SDS_MAX_PREALLOC` 2, so that both rules of growth
  apply; separators that repeat themselves; two slots in `sdssplitlen`, so that the array
  of tokens grows.
* cJSON items: five cells and five calls; a string item takes two cells, so the heap runs
  full in the middle of a call. `MaxIndex` is one above the last child. Two spellings of
  one name reach both comparisons of names.
* JSON texts: all sequences of two lexemes, everything one token away from three seeds
  (an object, an array with nested containers, an array with comments), strings of up to
  three pieces with escapes and surrogates, numbers with leading zeros, fractions, and
  exponents that are incomplete or too large, two seeds with two comments at any places, and
  an object with a repeated name and two comments. Some line comments end in a blank.
  The limits are small so that they are reached: nesting 3, integers of 7, 31 and 63,
  numbers of 5 bytes in cJSON,
  names of 5 bytes, a right margin of 10, first print buffer of 6 bytes, `INT_MAX` 60.
  Each of the first seven allocations of cJSON fails once.
* jsoncpp values: three calls with indices up to 2 make every shape of a sparse array; the
  compared values lie on both sides of every integer limit, reals in hundredths. The
  integer types end at 7, 15, 127 and 255 and doubles have 5 significant bits, so that, as
  with 32, 64 and 53 bits, the limits of the larger types are no doubles and are rounded up.
* Messages: three calls on two persons, three phones; varints of 4 values a byte, integers
  modulo 16 and 256. The parsed inputs have an unknown field, text that is no UTF-8, a
  wrong wire type, an end group, and a nested message without its field.

## 5. Fairness

Weak fairness of a thread's steps means that the operating system schedules a thread
that can run. It is assumed of calls in progress, never of the decision to call,
except of consumers that poll or call in a loop, where a property says that objects come
through. The checkers of `test_LockedQueue.cpp` do not: they stop at the first false.

* MPSC: `WF` of finishing an Enqueue and of Dequeue.
* Message queue: `WF` of every step inside put, get and set_nonblock. That the getters
  *together* keep calling get is a premise of EveryCallReturns; a single getter may stay
  behind the others for ever.
* Producer-consumer queue: `WF` of a woken consumer getting the lock and of the
  consumers together calling WaitAndPop.
* Locked queue: `SF` of each call that locks, since the mutex is free again and again;
  this is a mutex that starves nobody.
* Spin lock: only `WF` of each thread. It is enough because the threads make finitely
  many increments; the lock itself is unfair.
* Skip list: `WF` of each reader. Timers: `WF` of the loop and of time.
* Serialisation libraries and strings: sequential calls, nothing is assumed.

## 6. Where the code and its texts disagree

Three disagreements are runs that TLC finds violated:

* `redlock_continue_example`: `redlock.cpp:149` counts the elapsed time in whole
  seconds, so with the ttl of the example the key can expire before the validity time
  given to the caller has passed.
* `deadlock_missed`: a thread that looks up a mutex between another one's acquisition
  and its `lock_after` (`deadlock.c:351`) waits without an edge, and the deadlock is
  never reported.
* `json_resize`: `Value::resize` to a smaller size asserts that the array then has that
  size (`json_value.cpp:933`), which fails when the last element was never accessed.

Others were met while modelling. They are kept in the models as the code has them,
and the properties state the conditions under which they do no harm:

* `ringbuffer.c:84` splits the copy of `buffer_remove` at the distance of the tail, so that
  with size 4, head 0 and tail 3 a remove of 3 bytes gives the first, the first again and
  the second;
  `:103` compares unsigned and may search behind the data; `:130`, in
  `buffer_write_atomost`, frees `buf` although it points into the buffer's own block.
* `mempool_fixed_block.c:32` stores the end of the list behind the page when the block
  size divides it. `mempool_unfixed.c:40` starts to free at the oldest node and leaks
  the others; `:52` starts the search at a `current` that `mp_dest` has left as it was, so
  that `mp_alloc` after it, as in `main` (`:108`), may hand out freed memory or search a
  ring for ever; `:74` cuts a block larger than a node from a new node without a check.
* `memleak_hook.c:38` has one flag for all threads; `:47` never closes its files, and
  the error paths leave the flags cleared. `:72` is such a path for `free(NULL)`: after it
  no free removes a file, and every block freed later is reported as a leak. A `malloc` that
  fails leaves a file named `(nil).mem`, in `memleak.c:23` as well, and with that file
  `free(NULL)` succeeds once; without it `nFree(NULL)` prints "double free".
* `deadlock.c:165` takes a vertex reached along two paths for a cycle; `:274` counts
  `lock_idx` up also for a slot used again; `:288` removes the edge to the present
  owner, and one to an earlier owner stays.
* `test_msgqueue.cpp:35` waits for a NULL that a blocking get does not return;
  `test_ProducerConsumerQueue.cpp:51` calls Pop a fixed number of times, which may
  find the queue empty, and expects every object. The loops of `test_LockedQueue.cpp:45` and
  `:53` end at the first false, which an empty queue and a refused item give as well: the
  test ends, maybe with items nobody took. ItemsInOrder holds of it, and AllTaken says that
  its threads return; that every item is done AllTaken says of the other consumers.
* `timers.cc:77` and the same line of `timer_with_timerfd.cc` erase an iterator that the
  callback has made invalid if it has deleted its own timer. `timers.cc:129` converts a
  `time_t` to an `int`: the loop may sleep without an end for a timer more than `INT_MAX`
  milliseconds away. StructuresAreSound and AllEnd allow these two and nothing else.
* cJSON: `cJSON_Minify` takes the quote after an escaped backslash for an escaped one;
  `cJSON_Compare` of objects with a repeated name looks each up by name; a number is what
  `strtod` takes, so that `01` is accepted, and one too large for a double becomes an
  infinity, which is printed as `null`;
  `cJSON_AddItemReferenceToObject` loses the reference if the name cannot be copied; a
  lookup with case ends at a child without a name.
* jsoncpp readers: strict mode accepts comments inside containers, and after a comment
  inside an object any token is taken for the separator; `{"":1,}` is accepted; `Reader`
  with numeric keys throws on one; `OurReader` takes `'/` for the begin of a comment when
  single quotes are allowed, and cuts a single-quoted string at a double quote; a block
  comment without its end is accepted if the last byte of the document is `/`; the second
  half of a surrogate pair is not checked. `OurReader` reads a double with `sscanf`
  (`json_reader.cpp:1622`) and `Reader` with a stream (`:606`): only `OurReader` accepts
  `1e999`, as an infinity, and `1e`, as 1 (glibc); CopyAgrees is about other numbers. When
  an object repeats a name, which the default settings accept, the second member takes the
  place of the first, and its comments that of the first member's: of
  `{"a":1/*x*/,"a":2/*y*/}` only `/*y*/` is kept. Comments after the value are not read
  where more text may follow it. KeepsComments asks for every comment in all other
  documents.
* jsoncpp writers: half a pair is written as U+FFFD; a built writer without indentation
  writes a line comment without the end of its line; two writers cut a name at a NUL; with
  `dropNullPlaceholders` a lone null leaves no trace. `StyledWriter::writeIndent`
  (`json_writer.cpp:586`) takes a blank at the end of what it wrote for indentation, also
  one at the end of a line comment: `[1 // c ` with its blank, a line end and `]` is read,
  and written with the bracket inside the comment. WritesReadBack excepts these, and NaN
  without `useSpecialFloats`.
* jsoncpp values: `asInt64` and its kin accept the double 2^63, which the type does not hold.
  `value.h:457` promises of `get` that "If the array contains at least index+1 elements,
  returns the element value"; for an element below `size()` that was never accessed the code
  returns the default (`json_value.cpp:1089`), and `removeIndex` returns false.
  ValuesAreHonest states what value.h promises for all other elements.
* Messages: a string that is no UTF-8 is serialised with a warning and refused when parsed.

## 7. Theorems

All theorems hold for every value of the constants that satisfies the named
assumption of the component's module. The type invariants and safety invariants are
proved as `Init => I`, `I /\ [Next]_vars => I'` (one lemma per action) and
`I => Inv` for the inductive invariant `I` named below.

* `MPSCQueueProofs`: `IInv == TypeOK /\ ListInv /\ NoLeak`. `ListInv` is needed for
  everything: `chain` lists the live nodes from `_tail` to `_head`, two neighbours are
  linked or a producer is between its exchange and its store with exactly this pair
  as its locals, and nobody else has that pair. So the node Dequeue deletes is no
  producer's `prevHead` (it has been linked), and a null link means the end of the
  chain or a producer in between. Proved: `Inv`, which adds that nobody touches a
  deleted node, MissIsHonest, and that the queue implements `FifoQueue`. Assumed: NULL
  is no node.
* `MsgQueueProofs`: `Inv == TypeOK /\ GetExclusion /\ ListInv /\ PutterOwns /\
  NoLostWakeup`. `ListInv` says which sequences the two lists are and that `put_tail`
  is the last link, including the state in which a getter sleeps in the middle of the
  swap and both heads are one. `NoLostWakeup` counts who is on the way to signal.
  It is inductive as it stands. Proved: `Inv`, HonestNull, and the refinement. Assumed:
  messages, list heads and NULL are distinct, `MsgMax` is a `size_t`.
* `LockProofs`, the producer-consumer queue: `Inv == TypeOK /\ NoLostWakeup /\
  CancelReleases`, inductive as it stands. NoLostWakeup gives every object a woken consumer
  of its own, as an injection that each step extends or restricts. Proved: `Inv`,
  CancelHonoured, and the refinement, for any consumers. Assumed: a miss is not an object.
* `LockProofs`, the locked queue: `ItemsInv` adds to `TypeOK` and ReferenceLives that only
  the batcher has a batch and only the peeker a reference, so `readd` never changes the front
  somebody refers to. The items in the order of the adds are the batch followed by the queue:
  `next` and `readd` move the border between the two. Proved: ItemsInOrder, for any adders,
  checkers, items and size of a batch. Assumed (`WorkAssumption`): what is added are items.
* `LockProofs`, the spin lock: `LockInv` (in `SpinLock`): a free lock publishes the newest write
  and nobody is inside; the holder has seen the newest write; a thread about to store
  holds the newest value. Proved: mutual exclusion, no data race, and that the plain
  counter under the lock implements `AtomicCounter`.
* `LockProofs`, the memory orders: `AcquireReleaseInv` follows the view: y is published with
  a view that holds the store to x, and the reader that has left its loop has this view, so
  its relaxed load of x cannot return the old value. `SeqCstInv` follows the newest values: a
  reader that has left its loop has seen a store the other one will see, through all passes
  of the loop in main. Proved: OrdersSuffice, without assumptions.
* `RedLockProofs`: `KeyInv` says of every client which servers may hold its keys while it
  locks, undoes and unlocks, and that a late command carries the ids of a client whose
  connection to that server is broken. It is inductive whatever the clock does, and gives
  NothingLeftBehind. `RedLockInv` adds that the servers a client has counted are still
  connected and hold its key until at least the time it believes: a late command cannot
  touch a key somebody counts on. This needs `DriftCoversRounding == Drift >= SecLen - 1`,
  the hypothesis that fails for the example of section 6. Proved under it: the invariant,
  ValidityIsHonest, and from the intersection of two quorums MutualExclusion.
* `SkipListProofs`: `SkipInv == TypeOK /\ ListInv /\ WriterInv /\ ReaderInv` of all readers.
  `ListInv`: on every level each linked node is followed by the next larger linked one,
  levels are nested, those from `max_height_` on are empty, and a link is stored only in a
  node linked at its level or about to be. `WriterInv`: which predecessors `prev_` holds
  at each point of an Insert. `ReaderInv`: a reader stands on a node linked at its level
  and before its target, and what it has rejected is not before it. Links are only added,
  so this survives every step of the writer. Proved: `Inv` of the skip list. Assumed: keys
  are positive (0 is the head) and `kMaxHeight_` is.
* `StructuresProofs`: from `SkipInv`, the refinement of `OrderedSet`: when a search returns,
  the link it has just loaded on level 0 decides the answer in the present set, and no
  step but the store at level 0 changes the set. For the timers `TInv`: ids are unique and
  each is pending, fired or deleted; `it` of HandleTimer is the first timer, also after a
  callback has added one (it cannot expire before the one that runs); and from the moment
  the loop has asked for its timeout, an end of the sleep is set, unless the time does not
  fit an `int`. Proved: StructuresAreSound, FiresFirstAndNotEarly, RefinesOrderedSet.
  Assumed: delays are numbers.
* `RingProofs`: `CountersOK /\ HoldsTheBytes` is inductive: the counters are apart by the
  number of bytes held, and byte `i` of the queue lies at `head + i` modulo the size. The
  modulus of the counters drops out because the size divides it, which is what is assumed
  (of 2^32 and powers of two it is true). RemoveGivesOldest and SearchFinds follow from it
  at the step that makes the call. Proved: RingKeepsBytes.
* `MemoryProofs`: the parts of FilesTellLeaks and PoolsAreDisjoint are inductive for each
  component. The free list of the fixed pool is a sequence that exists, without repetition,
  of exactly the blocks not in use; the proof takes its head off or puts one in front of it.
  Of the other pool, every block lies in a node that is allocated, so that one cut from a new
  node, also at a freed address, meets no other; and until `mp_dest` the nodes are closed
  under `next`, so that the search meets no freed one. Of the hooks `SingleThread` ties the
  flags to the place of the only thread. Proved: both. Assumed: sizes and limits are numbers,
  the smallest block and the number of nodes are positive, NULL is no address.

Only model-checked, and why:

* Every liveness property (AllDelivered, EveryCallReturns, AllTaken, AutoincEnds, AllEnd)
  and everything about `ENABLED`, which are out of the prover's reach.
* ReportsDeadlocks and SearchFindsCycles: the search is recursive, and tlapm loses its SMT
  backend in a module that reaches a RECURSIVE operator.
* StringsHold and the eight properties of `serial`: most of the operators are recursive, as
  the parsers are, and what a recursive definition computes for every input needs induction.
* LinksInOrder of the intrusive queue: its list is the one `MPSCQueueProofs` is about, with
  the links inside the objects and the dummy enqueued again by the consumer.

## 8. Not modelled

* The chain buffer: `buffer_new` leaves `last_with_data` NULL and the first
  `buffer_add` (`chainbuffer.c:139`) dereferences it, so no buffer with data exists.
* The failing paths of `msgqueue_create`, which return no value.
* The builds of the spin lock without C11 atomics; the operations of `atomic.h` no
  program of the repository uses.
* `EstimateCount` of the skip list, which promises an estimate.
* Interleavings inside the hooks of the deadlock detector.
* Clocks that drift apart between redlock clients and servers; `/dev/urandom` failing.
* Allocations of the C library inside `fopen` and `printf`, except for the `FILE`, which
  `fopen` may get no memory for and frees when it fails. Negative sizes of `mp_alloc`.
* sds: `sdscmp` and `sdsfromlonglong`, which compare and format; failing allocations except
  in `sdssplitlen`.
* cJSON: `valueint`, the rounded copy of a number; doubles finer than hundredths, which the
  readers and writers of both libraries pass through the C library; `cJSON_InitHooks`.
* jsoncpp: line and column and texts of error messages, `pushError`, `validate`, reading
  from a stream; iterators, accessors for C strings, the storage of strings; streams that
  fail. `lib_json` holds the same files once more.
* Messages: `TInt32` and `TString`, which repeat the pattern of `Person` with one field;
  arenas, reflection and the JSON conversion, which are the library's.
* The MPSC test, the speed tests (one fixed document in a loop; rapidjson is not here), and
  the MySQL and spdlog programs, which call libraries that are not here.

## 9. Plan

1. More of the model: interleavings inside the deadlock hooks (`add_vertex`,
   `add_edge` and `lock_after` as steps of two threads); several readers of the skip
   list; clocks with different rates for redlock; failing allocations in all of `sds.c`;
   iterators of `Json::Value` over a value that changes.
2. More proofs: the list shape of the intrusive MPSC queue (its ListShape is the candidate
   for the inductive invariant); the refinement of the locked queue; PhonesHaveOneOwner of
   the messages, after its operators are written without recursion.
