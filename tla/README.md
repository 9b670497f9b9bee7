# libstudy: models and proofs

libstudy is a C library of small independent parts. Two of them are systems: a
thread-safe queue, and the network side of a Bitmessage node (connections,
message framing, the protocol's messages). Around them stand encoders of
numbers, addresses and keys, a bit set, and a number of parts that are one
function each. This directory holds TLA+ modules that model those parts, TLC
configurations that check them on small instances, and proofs that TLAPS checks
for every value of the constants.

Everything is translated from the C code under `src/`; `PROJECT.json` gives the
lines behind every definition, the runs, a wrong variant ("slip") that each
property notices, the hazards of the code at the line where they bite, and the
theorems.

    tlc -config BmQueue.cfg MCBmQueue.tla           # one of the runs
    tlapm BmQueueProofs.tla                         # one of the proof modules

Contents: [1 Inventory](#1-inventory) · [2 Modules](#2-modules) ·
[3 Runs](#3-runs) · [4 Divergences found](#4-divergences-found) ·
[5 Proofs](#5-proofs) · [6 Limits](#6-limits) · [7 Plan](#7-plan)

## 1 Inventory

### 1.1 The parts that are modelled

| part | source | state | operations | what is hard | what makes it correct |
|---|---|---|---|---|---|
| queue | `bm_queue.c` | a linked list of heap nodes, `head`, `tail`, a flag `shutdown`, a mutex, a condition variable | `queue_init`, `queue_push`, `queue_pop`, `queue_destroy` | any number of threads; one `pthread_cond_signal` per push; spurious wake-ups; shutting down with items queued and consumers asleep; malloc reuses addresses | it is a FIFO queue; no node leaks, dangles or is freed twice; no signal is lost; closing releases everybody |
| connections | `bm_network.c`, `process_command`, `replyVarack`, `replyPong`, `postVersion` of `bm_protocol.c` | the descriptor table, the `struct fd_data` of each connection with its receive buffer, epoll's event pointers, the global `epfd` | `new_fd_data`, `free_fd_data`, `postVersion`, `process_command` | two threads; a descriptor number is reused as soon as it is closed; `process_command` may free the connection and does not tell its caller | one owner for every `fd_data`; no use after free; no close of another's number (but the second one of `epfd`); messages are served |
| messages | `bm_protocol.c`, `bm_network.c` | the bytes in a connection's receive buffer | `parse_message`, `process_command`, `create_version_payload`, `new_version_message`, `parseVersionMessage`, `parseAddrMessage`, `parseInventoryMessage`, the replies | TCP cuts messages anywhere; a buffer with little room; hand-computed sizes and offsets; byte order | what is said is heard, field by field, in order, answered once, and in the end |
| bitset | `bitset.c` | per set: an array of words, `wordsLength`, `wordsInUse`, `sizeIsSticky` | `bitset_new`, `bitset_new2`, `bitset_set`, `bitset_get`, `bitset_clone`, `bitset_free` | the array grows and is trimmed by cloning; what is allocated and what `wordsLength` says are two things | sets of indices, independent of each other; inside the array; the code's own assertions |
| string list | `string-list.c` | a linked list of nodes, each with a copy of a text, on the heap | `string_list_add`, `string_list_size`, both `foreach`, `string_list_element`, `string_list_free` | a node is linked before it has a text; freeing reads the next node out of the one it frees; other threads use the same heap | a sequence of texts; one owner for every block |
| packet parser | `epsp-parser.c` | a packet, a chain of packets, the line being parsed, on the heap | `epsp_packet_new`, `epsp_packet_parse`, `epsp_packet_free`, `validate_epsp_packet_line`, `parsePacket` | tokens are read out of a line that was freed; a `goto` passes over the initialisation of the result; failing frees the caller's packet; freeing is recursive | packets are freed once whatever happens; the result says whether there is one |
| Mersenne Twister | `random.c` | a table of 312 words and the index `mti` | `init_genrand64`, `init_by_array64`, `genrand64_int64` | the table is regenerated in place by three loops; seeding at any time, by two functions, or never | the endless recurrence, tempered |
| Java's random numbers | `java_random.c`, `minecraft.c` | the 48 bits of `drand48_r` | `nextIntWithBounds`, `nextInt`, `nextLong`, `nextDouble`, `nextFloat`, `lcgInverse`, `isSlimeChunk` | a rejection loop that is an overflow test; signed halves of a long; a branch for powers of two | results equally likely; the loop ends; draws can be undone |
| shuffle | `shuffle.c`, `xorshift.c` | one seed for all threads, without a lock; the caller's array | `shuffle`, `xorshift`, `getseedp` | other threads store the seed before, between and after the load and the store of a swap; a size without a sign | a permutation; what was drawn stays |
| splitting | `string-array.c` | an array of copies that grows and is trimmed | `string_array_split` | allocations that may fail, each with an exit of its own; counters kept by hand | a failed call leaves nothing behind; inside the array |
| variable-length integers | `bm_sonota.c`, `bm_protocol.c` | none; the loops over a list have an index and an offset | `get_varint_size`, `encodeVarint`, `decodeVarint`, strings and lists of them | three functions know the size of a number independently | sizes agree; what is written is what is read |
| addresses and keys as text | `bm_sonota.c`, `changebase.c` | `base58encode`'s copy of the bytes, its scratch array and three indices | `encodeAddress0` and its five callers, `encodeWIF`, `base58encode`, `divmod58` | a long division in place, filled from the end; leading zeros mean different things at three places | the scratch array suffices; no digit is lost; an address tells its version, stream and hash |
| numbers, bytes and texts | `printint.c`, `base64.c`, `changebase.c`, `strjoin.c` | a buffer, an index and what is left to write | `snprintUInt64`, `itoa`, `ltoa`, `reverse`, `base64encode`, `parseHex`, `strjoin` | three loops with different arithmetic; buffers that are too short; multiplication instead of division, in 32 bits; negative numbers in other radices | inside the buffer; the text reads back |
| counting zeros | `nlz.c`, `numsys.c` | a pointer or a word, and a count | `getNLZ`, `numberOfLeadingZeros`, `numberOfTrailingZeros` | steps of three different widths; ladders of shifts whose first limit differs | the count is that of the zeros (two of the three: off as the code is, see section 4) |

How they meet: the message functions of `bm_protocol.c` are called on the bytes
of a connection's buffer; a reply that cannot be written closes the connection
and frees its `fd_data`; payloads and addresses are made with the
variable-length integers; addresses end as base 58 text. The threads of
`bm_network.c` that would join the queue to the connections are stubs that
return at once, so the loops between the functions belong to the user of the
library: what is assumed of that user is said with each module. The other parts
call nothing of each other; what they share is the heap and, in `shuffle`'s
case, a static variable.

### 1.2 The parts that are not modelled

| part | why |
|---|---|
| keys of deterministic addresses (the rest of `bm_sonota.c`) | OpenSSL calls in a straight line, no state |
| `bm_api.c`, `xmlrpc.c` | one remote call per function to a server outside the repository; a fault ends the program, nothing is kept between calls |
| `bm_node_db.c` | not compiled; one SQL statement per call |
| `createVersionPayload`, `printVersionPayload`, the thread functions | called from nowhere, or empty |
| `genackpayload.c`, `crlffd.c`, `charset-convert.c` | results never written; iconv and one write |
| the rest of `string-array.c`, `xorshift.c`, `random.c`, `changebase.c` | empty bodies, stubs, the same formula with other numbers, and conversions of one number to floating point |
| digests, output, measurement, placeholders, translations | no behaviour over time, or nothing at all |

`PROJECT.json` lists them file by file.

## 2 Modules

    FifoQueue     <= BmQueue         <- MCBmQueue      BmQueueProofs
                     BmConnection    <- MCBmConnection BmConnectionProofs
    Numerals <- Varint                                 VarintProofs
                 <- BmPayload
                 <- BmWire           <- MCBmWire       BmWireProofs (and VarintProofs)
    BmConversation <= BmWire
    BitSets       <= Bitset          <- MCBitset       BitsetProofs

    Calls  <- VarintList, BmAddress (and Varint), TextBuffers, StringArray,
              ZeroCounts, JavaRandom, MersenneTwister, Shuffle (and Words)
                 <- LibraryCalls     <- MCLibraryCalls
                 <- LibraryCallsProofs (and VarintProofs) <- EncodingProofs
    TwisterStream <= MersenneTwister

    Heap   <- StringList, EpspParser
                 <- SharedHeap       <- MCSharedHeap   SharedHeapProofs
    ItemSequence  <= StringList

`<-` is EXTENDS; `A <= B` says that B implements A, by `INSTANCE A WITH ...`.
Every component module has the same parts: constants with their assumptions,
variables, "slips" (wrong forms of its decisions, which no action uses), the
decisions and helper functions under the names of the code, the actions, the
properties. `Numerals` says what digits stand for, for all the codecs; `Words` what
the operators of C do to words of bits.

### BmQueue: `bm_queue.c`

`head`, `tail`, `data`, `next`, `shutdown`, `mutex` are the fields of the C
structures; `new_node`, `temp`, `result`, `curr` the local variables that live
longer than a step; `pc` says where each thread is; `allocated` is the heap.
`chain` is auxiliary: the linked nodes in order, which no action reads.

| C | actions |
|---|---|
| `queue_push` 30-47 | `PushAlloc`, `PushLock`, `PushLink`, `PushSignal`, `PushUnlock` |
| `queue_pop` 50-78 | `PopCall`, `PopLock`, `PopWait`, `PopReacquire`, `SpuriousWake`, `PopRefuse`, `PopTake`, `PopFree`, `PopUnlock` |
| `queue_destroy` | `DestroyCall`, `DestroyLock`, `DestroyFree` (one node each), `DestroyEnd`, `DestroyUnlock` |
| the user | `Close` sets the flag (no function of the library does) and, if `CloserWakes`, broadcasts; `Stop` ends a producer |

A call is split wherever another thread may run: at the mutex, at the condition
variable, at malloc and free. `pthread_cond_wait` releases the mutex and joins
the wait set in one step; `pthread_cond_signal` wakes at most one waiter, any of
them; a waiter may wake without a signal. malloc may return any free node, the
one just freed too. What is assumed of the user: `queue_destroy` is called by
the thread that has joined the others, and consumers pop until refused.

`FifoQueue` is the promise: a sequence of data, a flag, the last result of each
consumer. `ImplementsFifo` maps its `items` to the data along `chain`.

### BmConnection: `bm_network.c` and the failing paths of `bm_protocol.c`

Two threads. The *connector* opens a descriptor (`Open`: a socket with or without
a peer, a timer) and calls `new_fd_data`, one action per step that can fail:
`NewFdData` and `NoRecord` (malloc), `GetSockName`, `GetPeerName`, `NewBuffer`;
the failing ones free the record and the caller closes the descriptor (`GiveUp`).
It greets (`PostVersion`), which on a failed write closes the socket and then
`epfd` (`CloseEpoll`), and hands the descriptor to epoll (`Watch`) or frees its
`fd_data` (`Discard`). The *network thread* takes an event (`Poll`), reads one
message and calls `process_command` (`Handle`); a reply that cannot be written
leaves it with `close` and `free_fd_data` to do (`CloseData`, `FreeData`, two
steps, because the descriptor number may be handed out between them). `net.data`
is the event pointer, `recs` the live structures, `watched` what epoll would
return. The loops of both threads are the user's, written the way the functions
require: one message per event, no pointer kept across events.

`epfd` is a descriptor number like the others, -1 (`NULL`) until the user creates
epoll (`CreateEpoll`). Nothing resets it: after a failed greeting has closed it
the number is free, the rest of the program may get it (`OtherOpens`, which keeps
what it has opened), and the next failed greeting closes it again. `lost` is
history and says that a greeting has failed since epoll was created. What was
registered stays in `watched` when epoll is gone; only `epollOpen` says that
events still come.

### Varint, BmPayload, BmWire

`Varint` holds the conversions: a byte is a digit to the base `B`, 256 in the
code, and the three markers are its three largest values. The widths 2, 4 and 8
are the code's. `B` is a constant so that TLC's 32-bit integers can hold eight
digits (8^8, 5^8); nothing in the code depends on 256 but the bit tests, which
become divisions.

`BmPayload` gives the payloads and headers byte by byte at the offsets of the
code: the 26 bytes of an address, the version payload, the 38 bytes of an `addr`
entry, the 32 of an inventory item, the 24 of a header. `parse_message` is the
set of the message at the front of a buffer, empty for NULL. A command is one
byte and eleven zeros, a checksum a function of length, first and last byte:
enough to notice a payload that is cut wrong or not written to its end. SHA-512
itself is external.

`BmWire` puts two nodes at the ends of a TCP connection: `postVersion` and
`SayOther` append the bytes of a message to the peer's `wire`, `Deliver` moves
some of them into its `buffer` (as much as has arrived, or fits, or one of
`Chunks`), `Process` is `parse_message` and `process_command` with the reply.
`said` and `heard` record the messages as records. `BmConversation` is the
promise: each node hears what the other said, in order, and answers a version
with a verack and a ping with a pong in the moment it hears it. It has its own
table of answers (`Answered`), apart from `BmWire`'s `Reply`.

The length field is sent as a `uint32_t` and read as an `int`: from half of `B^4` on
a message never becomes complete (`HasMessage`). Lengths of -24 to -1, for which the
sum of line 32 is small again, are in no message that a node sends and are left out.

### Bitset: `bitset.c`

A word is a set of bits. `alloc` is what was allocated, `wordsLength` what the
code believes; a word beyond `alloc` holds whatever the heap holds (`Garbage`).
`New`, `Set`, `Clone` and `Free` are whole calls, with `ensureCapacity`,
`expandTo` and `trimToSize` inside them. `BitSets` is the promise: a clone
starts equal to its original and is independent of it.

### LibraryCalls: the functions that keep no state between calls

A thread calls one function, chosen with its arguments in `Init`, and the call
runs to its end, one action per loop iteration. `Calls` holds what the component
modules share, `call` and `pc`; each adds its own local variables, which the
calls of the others leave idle. `LibraryCalls` puts them together: one run, one
fairness condition, one property that every call returns. Only `shuffle` meets
another thread in the middle (`Disturb`).

**VarintList** runs the three loops over a list of numbers: `Measure`, `Write`
and `Read` take one number each.

**BmAddress** (`encodeAddress0`, `encodeWIF`, `base58encode`): `Assemble` puts
the bytes together, copies them and counts the zeros in front; each `Divide` is
a call of `divmod58` and one character; `Trim`, `Lead` and `Finish` are the ends
of `base58encode`. Array indices are the code's. Bytes are digits to base `B`,
characters to base `D` (256 and 58). The two hashes of a checksum are an
arbitrary function.

**TextBuffers** (`snprintUInt64`, `itoa`, `ltoa`, `reverse`, `base64encode`,
`parseHex`, `strjoin`): `s` is the buffer with the code's indices, `pos` the index
that is written next, `num` what is left. Shifts and masks are multiplications,
`\div` and `%`; the 32-bit multiplication of the last loop of `snprintUInt64` is
taken modulo `Word`. `Word`, `Big` and `Small` are 2^32, 0x7FFFFFFF and 65536 in
the code. `Quotient` and `Remainder` are C's, towards zero: to a radix other than
ten the digits of a negative number are characters in front of '0', as in the
code. A character is its digit; the few that are none have negative numbers.

**ZeroCounts** (`getNLZ`, `numberOfLeadingZeros`, `numberOfTrailingZeros`): the
loops over longs, bytes and bits of the first, and the ladders of the others, a
rung per action. `LongSize` is 8, `Halves` the steps of a ladder.

**StringArray** (`string_array_split`): `blocks` is what is allocated, `slots`
the slots that the array was last allocated with, `count` and `capacity` the
code's counters. Every allocation may fail. `badWrite` and `badFree` note a write
behind the slots and a free of what is not allocated. Two exits look for a copy
where the array is no more: `FreeAgain` after `TrimToNothing` (the `realloc` to no
bytes, which frees) reads it out of the freed array, `DeliverFails` from behind
the trimmed one. What they find there is the copy or something else (`Stray`), and
the allocator may end the program.

**JavaRandom**: `Draw` is what `mrand48_r` gives of a state of `SeedBits` bits;
`Rejects` the overflow test, wrapped to `IntBits` bits as the compiler's code
does. `drand48_r` belongs to the C library and is external.

**MersenneTwister**: a word per action, in the order of the three loops of
`genrand64_int64`, with `row` the loop index; `CallInit` and `CallInitByArray`
may come at any time, or never. `TwisterStream` is the promise: the recurrence over the
last `NN` words. `ImplementsStream` maps its `window` to the table read from
`mti` on, a table half regenerated included.

**Shuffle**: a round of the loop is two steps, `LoadSeed` and `SwapNext`, because the
seed is static and has no lock: `Disturb` stores any word before, between and
after them, and what it stores between them `SwapNext` overwrites.

### SharedHeap: `string-list.c` and `epsp-parser.c`

Two threads with nothing in common but malloc. `Heap` is the set of allocated
blocks with their contents; malloc gives any free block, the one just freed too;
a freed block's content is gone. **StringList** takes each function step by
step: a node is allocated, linked, given its copy of the text; `foreach` goes
from node to node; `string_list_free` reads the next node and frees. **EpspParser**
does the same for packets; `ReadCode` and `ReadHop` convert tokens of a line that
`FreeLine` has given back, so that what they find is anything. `SkipTokens` is
the `goto` that leaves the result uninitialised. A block has no size: that
`validate_epsp_packet_line` writes one byte behind its copy (section 4) is not seen. `ItemSequence` is the promise of
the list. The user frees what it was given and does not use a packet that
failed to parse.

`nodes`, `kept` and `gone` are auxiliary: the nodes of the list, the packets of
the chain, and those that `epsp_packet_free` has still to free, in order. No
action reads them but for the bounds on their lengths; `ListLinked` and
`PacketsLinked`, conjuncts of `OneOwner`, say that the pointers in the blocks
lead from each to the next, at every step of every function. `callers` is the
stack of the recursive calls of `epsp_packet_free`.

## 3 Runs

| run | states | asks | shows |
|---|---|---|---|
| `bm_queue` | 80 772 | `TypeOK`, `ListInv`, `HeapInv`, `NoLostWakeup`, `ImplementsFifo`, `EveryItemDelivered`, `CloseReleasesAll` | between any two steps of any thread the pointers are one duplicate-free list; every allocated node has one holder; sleepers imply no more items than threads that will still see to them; it is a FIFO queue; what was queued before closing is delivered; every consumer leaves |
| `bm_connection_shared` | 182 567 | `TypeOK`, `NoUseAfterFree`, `NoForeignClose`, `OneOwner`, `MessagesServed` | replies and the steps of `new_fd_data` that fail harm nobody else; of the greetings the second that fails may close another's descriptor, though never a watched connection's |
| `bm_connection_buffers` | violation | `BuffersFreed` | section 4 |
| `wire_talk` | 7 849 | `TypeOK`, `NeverRefused`, `ImplementsConversation`, `AllHeard`, `VersionAcknowledged` | however the bytes are cut, messages arrive whole, in order, field by field, answered, and in the end |
| `wire_ipv4` | violation | `Ipv4Arrives` | section 4 |
| `wire_ula` | violation | `UsualAddressesShown` | section 4 |
| `bitset_sets` | 7 237 | `TypeOK`, `InBounds`, `AssertionsHold`, `ImplementsSets` | given enough words at first, arrays that grow, are trimmed and cloned are independent sets |
| `bitset_new` | violation | `AssertionsHold` | section 4 |
| `library_calls` | 118 449 | `TypeOK`, `EveryCallReturns` and the following | every variable has its type and each call stays in its own loops, which all end |
| | | `ListReadsBack` | measured, written and read sizes of a list agree, and it reads back |
| | | `BuffersInBounds`, `NothingLost` | scratch arrays and texts suffice, but for the byte in front of section 4; the array of tokens does until it grows, then one token at a time stands behind it; no division loses anything |
| | | `AddressTellsRipe`, `TextReadsBack` | an address reads back to version, stream and hash, every text to what was written |
| | | `ZerosCounted` | what the counters count, right or not (section 4) |
| | | `SplitFreesAll` | what is left allocated, whichever allocation fails; only two exits free what they should not |
| | | `BoundedFair`, `DrawsTold` | bounded numbers are equally likely and the first draw that is not rejected; every draw can be undone |
| | | `TableAlive`, `ImplementsStream` | the table never becomes one of zeros, nor one that will; in place it is the recurrence |
| | | `ShufflePermutes`, `SwapsKeep` | elements are kept while other threads store seeds; 0 is stored exactly when 0 was loaded |
| `texts_as_commented` | violation | `TextsAsCommented` | section 4 |
| `shared_heap` | 54 705 | `TypeOK`, `OneOwner`, `ParsedFields`, `ImplementsSequence` | no block leaks, is freed twice or is shared, although tokens are read out of freed lines; the list is a sequence |
| `epsp_count` | violation | `CountRefused` | section 4 |

### Bounds, and why they are enough

- **Queue.** One producer, two consumers, two nodes, two data. Two consumers are
  needed for one to take the item another was woken for, two pushes for a burst
  before the first woken consumer gets the mutex, two nodes for one to be freed
  and used again while the other is in the list. Two producers that race to
  the mutex are not in this run: the safety properties and the refinement are
  proved for any number of producers, consumers, nodes and data. Symmetry is not sound for liveness and is not used.
- **Connections.** Three descriptor numbers, one for epoll and one for each of two
  connections or for the rest of the program, and two records: one connection fails
  and its number and address are used again while the other lives. `MaxOpens = 3`
  lets the number of epoll be used by another part of the program between two
  greetings that fail, `MaxMessages = 2` lets two replies fail.
- **Messages.** Base 8, so that a version payload and an inventory with a
  three-byte count remain a few hundred bytes. Chunks of 23 and 60 bytes cut inside the
  header and inside the payload; delivering all that is there puts two messages
  into one buffer; 200 bytes of buffer are hardly more than the largest message.
  User agents have 0 bytes, the most a one-byte length tells, and one more.
  Every node says one message of its own accord and answers the other's.
- **Bitset.** Words of two bits and two words at first instead of 64 and 8,
  indices in the first word, the second, the third and the fifth; two sets.
- **Varint lists.** Lists of up to three of the numbers on both sides of every
  limit (`Mark(1)`, `B^2`, `B^4`) and the largest, to the base 8.
- **Addresses.** Base 8 and an alphabet of 3, hashes of three bytes from
  {0, 1, 7}, so that there are none, one, two and three zeros in front, a hash of
  the wrong length, streams of one, three and five bytes. `B <= D * D` is the
  assumption under which two characters a byte suffice, as with 256 and 58.
  `TextSize = 19` cuts where the 45 bytes of the code cut: an address with a
  stream of five bytes just fits.
- **Text.** Numbers next to every power of ten up to 10^9 and next to both
  limits, buffers of 1 to 12 bytes, `itoa` from -130 to 300 and at the ends of 16
  bits to the bases 2, 10 and 16, byte strings and hexadecimal texts of up to
  four characters, arrays of up to three texts with delimiters of none, one and
  two. `Big` and `Small` are 999000 and 20000, because TLC's integers end at
  2^31.
- **Zeros.** Longs of two bytes, hashes of one to seven, so that there are whole
  longs, a rest, and more zero bytes than the code counts one by one; words at
  both sides of each power of two.
- **Splitting.** Arrays of 4 that grow by 3, up to 10 tokens: none, one, full, grown
  once, grown twice.
- **Generators.** All 512 states of a generator of 9 bits with ints of 5, all
  bounds up to 15, negative ones too; tables of four words of three bits, up to
  nine draws and two seedings, so that a table is used up and regenerated twice;
  arrays of up to five elements, every seed of four bits at every step.
- **Shared heap.** Six blocks, which is two texts in a list, a packet and a line,
  or one text, its copy and three packets; a chain of three packets, so that
  freeing it calls itself twice. Addresses are symmetric: nothing compares
  them. The proofs hold for any number of blocks and any lengths.

### Fairness, and why the code justifies it

- `BmQueue`: a call that has started goes on (weak fairness of each thread's own
  steps), a consumer goes on popping, and a thread that wants the mutex gets it if
  it is free again and again (strong fairness of the lock steps: POSIX mutexes do
  not promise it, but every critical section is a few instructions long and the
  schedulers the library runs on are preemptive). Nobody is obliged to push, to
  stop, to close, or to wake without a signal. With `CloserWakes = FALSE`
  `CloseReleasesAll` fails: setting the flag alone leaves the sleepers asleep.
- `BmConnection`: the network thread goes on, and epoll serves every ready
  descriptor in turn (strong fairness of `Poll`, as epoll's ready list is a FIFO).
  The connector is obliged to nothing.
- `BmWire`: TCP delivers, and the reading loop goes on.
- `LibraryCalls`: a thread that is in a call goes on (weak fairness of its own
  steps). The threads that store seeds are obliged to nothing, and storing seeds
  for ever does not keep a shuffle from ending. That the rejection loop ends needs
  no luck: the generator has a period.
- `SharedHeap` states safety only.

Deadlock is checked for the queue and the bitset. The other cfgs turn it off:
the nodes and the network thread wait for input, a call ends, and the threads
of `SharedHeap` may both wait for a block where malloc would have another.

## 4 Divergences found

1. **The receive buffer is never freed** (`bm_network.c:65`, run
   `bm_connection_buffers`). `free_fd_data` frees `connectedBuffer` only if it is
   NULL; the test is inverted. Each connection leaks 128 kB.
2. **An IPv4 address is written four bytes too early** (`bm_protocol.c:114`, run
   `wire_ipv4`). The comment promises an IPv4-mapped IPv6 address; the offsets 14,
   15 and 16 count from byte 4, but the ip field begins at byte 8. The peer sees
   an IPv6 address.
3. **Unique local addresses are ignored** (`bm_protocol.c:591`, run `wire_ula`).
   The comment above names them as usual; the filter lets only 2000::/3 through.
4. **`bitset_new` allocates one word and records eight** (`bitset.c:58`, run
   `bitset_new`). After the first `bitset_set` the code's own assertion reads a
   word that was never allocated.
5. **A line of the wrong number of tokens may count as parsed**
   (`epsp-parser.c:68`, run `epsp_count`). The comments say it fails; the `goto`
   passes over the initialisation of the result, and with what gcc makes of it the
   caller keeps a packet of zeros.
6. **`itoa` of negative numbers to other bases than ten** (`printint.c:181`, run
   `texts_as_commented`). The comment (lines 170 and 171) says they are considered
   unsigned; the signed remainder gives characters in front of '0'.
7. **`strjoin` drops every delimiter** (`strjoin.c:10`, run `texts_as_commented`: TLC
   reports the first of the two, and this one when `Ints` is `{}` in the cfg). The
   comment (lines 8 and 9) wants NULL to be an empty text and line 27 the delimiter
   to be used; the test is the wrong way round, and only NULL is kept.

Found while translating, and modelled as the code does it; the properties state
what holds in spite of it:

- `numberOfLeadingZeros` (`numsys.c:6`) starts its ladder at 32 instead of 31: one
  too many for every word but 0. `getNLZ` (`nlz.c:13`) looks at longs but steps
  by bytes: more than eight zero bytes in front are taken for more than there are.
- `snprintUInt64` into one byte (`printint.c:82`) writes a digit in front of the
  buffer.
- `string_array_split` grows its array one token late: the first token too many is
  written behind the slots that were asked for (line 55), into what malloc has
  rounded up to or behind it; the model goes on as if nothing had been hit. Where
  growing fails the copies leak. For fewer than two tokens `realloc(str, 0)` (line
  69) frees the array; the exit then frees a pointer that it reads out of the freed
  array and frees the array once more, which glibc answers by ending the program.
  Without memory for the result the exit reads the last copy from behind the array
  that line 69 has trimmed. The result of the shrinking `realloc` is not stored:
  the model takes it to be the array it was.
- `postVersion` (`bm_network.c:128`) closes `epfd` for one failed greeting and never
  resets it: all connections lose their events, and the next failed greeting closes
  whatever has the number by then.
- `shuffle` of fewer than two elements (`shuffle.c:29`) divides by zero, and of
  more it stops one swap early: the last two are never swapped with each other.
- `validate_epsp_packet_line` does not look at the result of its match and
  `parsePacket` (`epsp-parser.c:280`) ends the program at a line of fewer than
  two tokens. The copy that the former takes of the line is terminated one byte
  behind its block (`epsp-parser.c:180`); this byte is not in the model.
- `string_list_add` of NULL (`string-list.c:26`) returns NULL, so that a caller who
  assigns the result loses its list. The model's caller has a text.
- A message larger than `connectedBuffer` (`bm_network.c:21`) never becomes
  complete.

## 5 Proofs

All theorems are for every value of the constants that meets the named
assumptions. TLC has checked every invariant, and the strengthened ones, first.

**BmQueueProofs** (any number of threads, nodes and data; assumes that
producers, consumers and the owner are different threads, of which there are
finitely many). `ListInv` is not inductive by itself: `PushLink` writes
`next[tail]`, and that keeps the list only if the new node is in no other hand
and still ends in NULL; `PopTake` reads `head`, and that is a node only if the
test a step earlier was made under the same lock. `IInv` therefore adds
`LockInv` (who is inside holds the mutex), `JoinInv` (`queue_destroy` runs
alone), `ResultInv` (what a consumer has, by where it is) and `DataInv` (nodes
carry data from the moment they are filled, unlinked ones end in NULL) to
`TypeOK`, `ListInv` and `HeapInv`. One lemma per conjunct, one step per action.
`TypeCorrect`, `ListCorrect` and `HeapCorrect` follow.

`NoLostWakeupCorrect` is a counting argument on top of it: a push adds one item
and one thread in `signal`; a signal turns the signaller into a woken consumer,
or there was no waiter; a consumer leaves `Attentive` either with an item or to
sleep, and it sleeps only when there is no item.

`Refinement`: `Spec => ImplementsFifo`. `PushLink`
is an enqueue, `PopTake` a dequeue, `PopRefuse` a refusal, `PopCall` the next
request, `DestroyFree` a discard; every other step stutters.

**BmConnectionProofs** (any descriptors, records and bounds). `OneOwner` needs
`NetInv` (until the thread has closed, epoll still holds the pointer it works on),
`CnrInv` (the connector's descriptor is open, its own and not yet epoll's; the
record it fills in names that descriptor) and `EpollInv` (until a greeting fails
`epfd` is the epoll descriptor, and it is never a watched number).
`OneOwnerCorrect`, `NoUseAfterFreeCorrect` and `NoForeignCloseCorrect` follow.
`TypeCorrect` adds the types of the queues of messages (`OtherTypes`) and
`BuffersInv`, which counts: a new `fd_data` comes with a new buffer, and none is
ever given back (section 4).

**BitsetProofs** (words of any size, any indices with a largest one; assumes
that `bitset_new2` was asked for at least the words `initWords` claims, and that
realloc succeeds: without the first, section 4; without the second the code
goes on as if the array had grown). `AssertionsHold` is not inductive: growing
`wordsInUse` brings words into use that nobody clears. `RestEmpty` says that all
words between `wordsInUse` and `wordsLength` are empty. With it `InBoundsCorrect`,
`AssertionsCorrect` and `Refinement` (`Spec => ImplementsSets`) follow. The last
rests on `IndexIsWordAndBit`: no two indices share both word and bit.

**VarintProofs** (any base above 3). What the codecs compute is recursive: the
value of bytes or digits is a function on 0 .. n that each element continues.
The library's induction theorems take an operator as a parameter, which the
provers cannot instantiate; but that `<` is well founded on `Nat`
(`NatLessThanWellFounded`) and that every set has a least element (`WFMin`) are
plain facts, so that induction is stated here about sets (`SetInduction`,
`IntervalInduction`), and `RecursionDefines` says that a function that satisfies
the equation of a recursive definition exists and is the one that CHOOSE picks.
From these the lemmas about `Continued` and `Numeral` follow. Powers are beyond
the provers as well: `PowersTo(b, k)`, that each power is b times the one before,
is a named assumption wherever it is needed, and TLC evaluates it for the
constants of the run.

- `EncodedSize`, `DecodedSize`, `StringSize`: the functions that measure, write and
  read a number or a string agree on its size.
- `BigEndianReadsBack`, `VarintReadsBack`: what is read is what was written, in
  each of the four widths and at any place of a buffer.

**BmWireProofs** (any base, buffers, pieces and messages; `SaysAssumption`: nodes
say what has the fields of a message and a payload whose length fits an `int`).
`Holds` says that a sequence is found in another from a place on; with it the
theorems about the codecs are carried into the middle of a payload and of a
message, field by field, also for lists of addresses, whose offsets are sums of
sizes. `VersionPayloadSize`: the sum made by hand in `get_version_payload_size` is
the length of what `create_version_payload` writes. `WireInvariant` is the
inductive invariant: per direction, the bytes of all messages that were said are
those of the messages heard, then the buffer, then the wire (`Flow`). A prefix of a
message, however long, can then only be that of the next message, and
`parse_message` finds in the header the length and the checksum that were put
there. That `Reply` gives the answers of `BmConversation` is part of the proof. `WireTyped` and `WireNeverRefuses` follow, and `WireConverses`: `Spec =>
ImplementsConversation`, under `OnlyIpv6`: hellos and addr messages give addresses
of AF_INET6 that are not IPv4-mapped, and `valid` says of each address what
`is_valid_bm_addr` decides. The runs `wire_ipv4` and `wire_ula` show that it is
not true without that (section 4); the constants of `wire_talk` satisfy it.

**LibraryCallsProofs.** The Mersenne Twister (any table size, distance `MM`, word
size and twist): the table is regenerated in place, so that the words at hand are
of two generations. `TwisterInv` says that below `row` the table holds what the
recurrence makes of the table as it was when the regeneration began, and from
`row` on that table itself. `TwisterCorrect` states it, and `TwisterRefines`
proves `Spec => ImplementsStream`: a draw is a step of the recurrence, everything
else stutters or exchanges the seed. `SplitCorrect`: for any number of tokens and
any growth `string_array_split` frees what it has allocated, whichever allocation
fails, with the exceptions of section 4; the invariant says which copies exist by
the place in the loop. `SlotsInv` counts the slots against the tokens.
Besides these:

- `TwisterStaysAlive`: `TableAlive`, for words of any size whose recurrence splits
  the upper bits from the lower ones, whose `MATRIX_A` has its top bit and whose
  `MM` is not 1 (`TwistAssumption`, `TwisterAssumption`; the code has 64 bits split
  at 31, 0xB5026F5AA96619E9 and 156 of 312). A table that is not all zeros is not
  enough: the lower bits of its first word are looked at by nobody, and with bits
  only there the next table would be zeros. `Alive` is what is kept, by seeding with
  a number (the word behind a word of 0 is 1), with a key (the top bit is put in at
  the end) and by regenerating, undone word by word from the last (`AliveInv`).
- `ShuffleCorrect`: elements are kept for arrays of any size. `SwapsCorrect`:
  `SwapsKeep`, whatever is stored between a load and its store. Both rest on facts about single bits: that xorshift of a word is a
  word (`XorshiftIsWord`), and that it is 0 only of 0 (`XorshiftZero`), as no
  word but 0 is equal to a shift of itself.
- `LcgInverse`: `lcgInverse` undoes `lcg`, for any modulus and any multiplier with an
  inverse. `DrawsCorrect`: `DrawsTold`; `DrawsInv` says at each place of each call
  how far the state is from the one it found, and so which draw is which.
- `RejectsTail` and `EachResultOncePerBlock`: the overflow test is true exactly for
  the draws behind the last whole block of `bound` draws, and each block gives each
  result once. `BoundsFair` puts them together for every positive bound that an int
  can have: a bijection between the blocks and the draws that give a result counts them. `BoundsCorrect`: `BoundedFair`; `FairInv` counts the draws that were
  rejected along the orbit of the state, and as a generator whose steps can be
  undone comes back to where it was (`WithinOneRound`), a draw that is taken is one of
  the first 2^SeedBits.
- `ZerosCorrect`: `ZerosCounted`, for hashes of any length, longs and words of any
  size that the steps of the ladder halve (`CountedAssumption`). `GetNLZInv` says
  what of the hash is known to be zero, `LeadingIs` and `TrailingIs` what a ladder
  has still to count.
- `PairIsRemainder`: the shifts and the subtraction of `snprintUInt64` give the
  remainder by 100. `TenthIsATenth`: below `Small` the multiplication by 52429 and
  the shift by 19 are a division by ten that does not overflow 32 bits.

**EncodingProofs** (any inputs; the bases are those of Varint and the alphabet's
`D`, with `B <= D * D`). One invariant per function, which says at each place of
its loops what has been written and what is left.

- `ListCorrect`: `Ends` says where each number of a list ends; the three loops
  keep `size` and `offset` at it.
- `DivisionExact`: `divmod58` over bytes of any length. With it `DivisionSafe`: the
  scratch array is never left, because the number that is left to divide and
  the characters that were written stand for the input together, and two
  characters pay for each byte that has become zero. `AddressCorrect`: what the
  characters stand for, and so the version, the stream and the hash, can be read
  back, whatever zeros were left out; that every address fits its buffer is
  `TextSizeAssumption` (256^30 <= 58^41 in the code).
- `TextsCorrect`: `snprintUInt64` (`AtPrint`: what is left to print, continued by
  what has been printed, is the number without the digits cut off), `itoa`
  (`AtItoa`: digits from the lowest up, then swapped one pair at a time),
  `base64encode`, `parseHex` and `strjoin` (not the negative numbers and the
  delimiters of section 4).
- `BuffersHold` and `DivisionsKeep` put these together, with the split of
  LibraryCallsProofs, to the run's `BuffersInBounds` and `NothingLost`, and
  `TypeCorrect` with the types of all the other variables (`RestAlways`) and the
  places of each call (`Where`) to `TypeOK`. `IntsAssumption` leaves out -2^31, whose negative `itoa` cannot
  form.

**SharedHeapProofs** (any blocks, texts and lines; lists and chains of any
length). Neither thread can be reasoned about alone, as malloc gives one what
the other has freed, and neither should need the other's code. So each has an
invariant about its own blocks (`ListInv`, `ParserInv`) and a contract: a step
writes and frees only blocks that are its own, and what it owns then was its own
or was free (`ListContract`, `ParserContract`). `ListFrame` and `ParserFrame` say
that an invariant survives any step that leaves the thread's blocks alone, so
that `HeapInv` (all that is allocated is owned by one of them) closes the circle:
`IInv` is inductive, with one lemma per action. `ListInv` adds to `ListLinked`
and `ListApart` where each function is (`ListPlaces`: which node is looked at,
what was counted or told so far, what the copy is a copy of); `ParserInv` adds
when there is a packet and a line (`ParserPlaces`) and what the packet holds
half-way (`ParserFields`). `TypeCorrect`, `OneOwnerCorrect` and
`ParsedFieldsCorrect` follow, and `ListIsASequence`: `Spec => ImplementsSequence`.
`AddString` appends, `WalkEnd` and `UseElement` tell, `CallFree` empties; linking
a node that has no text yet, walking, freeing node by node, and everything the
parser does are stutters.

## 6 Limits

*Only model-checked:* liveness (`EveryItemDelivered`, `CloseReleasesAll`,
`MessagesServed`, `AllHeard`, `VersionAcknowledged`, `EveryCallReturns`), which
the prover does not reach, and what the runs of section 4 show. Every other property
of a run is proved. The powers that a proof needs (`PowersTo`) and `TextSizeAssumption`
are assumptions that TLC evaluates for the constants of the run and that are
plain arithmetic for those of the code.

*Left out of the models:* writes that succeed in part, signals, and failing
malloc (but for `new_fd_data`, `string_array_split` and the modelled `realloc`);
damaged or hostile payloads, as the parsers are run on what a node writes;
messages larger than the receive buffer; the contents of hashes; output and
logging; `string_list_add` of NULL.

*Hazard without a property:* the failed `realloc` of `bitset.c:35`, after which
nothing the code does is defined.

*Assumed of the user of the library:* the loops around its functions, as described in
section 2. A loop that parses on in the same buffer after `process_command` has
failed to reply would use freed memory; the code cannot tell it so. The caller of
`epsp_packet_parse` has to know that a packet that failed is gone.

## 7 Plan

Done: the queue with its refinement and proofs; connections with proofs; the
message codec and the conversation, with the proof that it is one however the
bytes are cut; bitset with refinement and proofs; the encoders, converters,
counters, generators and the split as calls, each with the proofs of what it
returns; the string list and the packet parser on a shared heap, with proofs.

What is left:

1. Composition: a `BmNode` of `BmConnection` and `BmWire`, in which a reply that
   fails loses the rest of the buffer, to state which messages are then heard.
2. Proofs: `TextSizeAssumption` and `PowersTo` from the definition of a power, so
   that they need not be assumed.
