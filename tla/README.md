# Specifications of the contract development toolkit

TLA+ modules of this repository in its two halves: the library that runs inside
a smart contract (tables, maps, allocator, streams, arithmetic), and the
toolchain that turns the contract's source into an ABI and a dispatcher. They are
checked with TLC on small instances; the parts of the library that keep state,
the analysis of read-only actions, and the dispatcher are proved correct for every instance with
TLAPS.

Contents: [the system](#the-system), [the hard behaviours](#what-is-hard-here),
[modules](#modules), [runs](#runs), [fairness](#fairness),
[what TLC finds violated](#what-the-code-does-otherwise-than-it-says),
[proofs](#proofs), [limits](#what-is-not-modelled), [plan](#plan).

## The system

A compiler driver runs clang on every translation unit of a contract, with a
plugin that writes the handlers the dispatcher calls and one that describes the
contract's actions and tables; the descriptions are merged into one ABI, and a
dispatcher is generated. The contract that results is a single-threaded
WebAssembly program; a node (not part of the repository) calls `apply` in it,
runs one transaction, and either commits every database write or, when
`eosio::check` or an intrinsic fails, discards them all. Everything the
contract keeps between two calls is in the node's database; everything it keeps
within a call is in its linear memory.

Paths below are relative to `src/`; `CE` is `libraries/eosiolib/contracts/eosio`,
`EL` is `libraries/eosiolib`, `CO` is `EL/core/eosio`.

| component | state | operations | interacts with | what makes it correct |
|---|---|---|---|---|
| **kv table** `CE/kv.hpp`, `CE/kv_base.hpp` | in the node: one pair per row, and one pair per row and secondary index whose value is the row's key | `put`, `erase`, `get` and `operator[]` by any index | `kv_get`, `kv_set`, `kv_erase` one pair at a time; a failed check rolls back | indices mirror the rows after every call and every rollback; the table behaves as an atomic dictionary with unique keys |
| **kv table iterators** `CE/kv.hpp` | a handle of an iterator the node keeps, and the last status it reported | `begin`, `end`, `rbegin`, `rend`, `find`, bounds, `++`, `--`, `value`, comparison, move, destruction, `range` | `kv_it_*`; the table may change under an iterator | every handle has one owner; loops visit everything once; nothing stale is read |
| **kv map** `CE/map.hpp` | in the node: one pair per key; iterators as above, without sharing code with the table's | `set` through `operator[]` and `at`, `erase`, lookups, bounds, `ranged_slice`, iterators of both directions that convert into each other | `kv_*`, `kv_it_*` | reads are current; slices and bounds are exact |
| **multi_index** `CE/multi_index.hpp` | in the node: rows and index entries; in each instance: a cache of the rows it has loaded with their node iterators, and the next primary key | `emplace`, `modify`, `erase`, lookups and iteration by both indices, `available_primary_key` | `db_*_i64`, `db_idx*`; `modify` calls back into the contract; several instances may name one table | index, cache and rows agree; generated keys are free |
| **singleton** `CE/singleton.hpp` | a `multi_index` object of one row | `exists`, `get*`, `set`, `remove` | `multi_index` | it is a cell: what was set is what is read |
| **allocator** `EL/simple_malloc.cpp`, `EL/malloc/eosio/*.hpp` | end of the heap, page count, a free list for each small size, a table of freed big chunks, whether `free` is enabled | `malloc`, `calloc`, `posix_memalign`, `realloc`, `free`, enabling and disabling of `free` | `memory.grow`; every other component allocates through it | no memory is handed out twice; blocks hold what was asked for; freed memory is not lost |
| **datastream** `CO/datastream.hpp` | position in a buffer, or a count | `skip`, `seekp`, `read`, `write`, `get`, `put` | packs rows and action arguments | the position stays in the buffer; what was counted is what is written |
| **rope** `CO/rope.hpp` | nodes shared by the ropes they are part of | `append`, `+`, `at`, `c_str` | the allocator, never `free` | the text is what was appended |
| **binary extensions** `CO/binary_extension.hpp` | a flag, and the storage of a value | construction, copies, moves, `emplace`, `reset`, `value`, `value_or`, both stream operators | rows and action arguments that have grown a field | the flag says whether a value lives in the storage |
| **legacy allocator** `EL/malloc.cpp` | sixteen heaps, each a list of blocks with a size and a flag; the end of the memory | `malloc`, `calloc`, `realloc`, `free`, `sbrk` | the node's memory limit; built only where `simple_malloc.cpp` is not | every heap can be walked from header to header, and blocks hold what was asked for |
| **actions** `CE/action.hpp`, `CE/dispatcher.hpp`, `CE/transaction.hpp` | what the transaction has queued | `send`, `send_context_free`, deferring and cancelling, `require_recipient`, the two dispatchers | other contracts, through the node | a contract receives what was sent, in the types of its handler |
| **printing, authorities** `EL/eosiolib.cpp` | none beyond a call | `write_decimal`, `block_signing_authority_v0::is_valid` | the node | the text is the number; a valid authority can be satisfied |
| **public keys** `CO/crypto_utils.hpp`, `EL/crypto.cpp` | of the parser: a position and the last byte | base 64, taking an RSA key apart | the node checks signatures with the numbers | a key gives its numbers, and what is no key is refused |
| **names in the plugins** `plugins/eosio/utils.hpp` | none | from name to number and back, the check of names | both plugins | a name accepted can be read back from its number |
| **run-time arithmetic** `libraries/rt` | none | 128-bit integers, conversions, comparisons of long doubles | softfloat | what the language says of the operators |
| **tester** `EL/tester` | the head block's info, remembered; events not yet pulled | start, finish and skip blocks, make and push transactions, expectations, events | the native tester, not in the repository | transactions refer to the right block and run once |
| **code generator** `plugins/eosio/codegen.cpp` | what is known of functions: handlers, and whether they write | a walk over a unit's declarations, one over a function's statements | clang; the descriptions | every handler is in the dispatcher; read-only actions do not write |
| **ABI generator** `plugins/eosio/abigen.hpp`, `gen.hpp` | the definitions collected, the types evaluated | a walk over a unit's declarations and over their types | clang; the descriptions | the ABI says how the contract packs its data |
| **ABI merging** `tools/include/eosio/abimerge.hpp` | none | `merge` of two descriptions | `eosio-codegen` | conflicts are refused and nothing is lost |
| **eosio-codegen** `tools/src/eosio-codegen.cpp` | the descriptions, the ABI merged so far | compile, merge, write | files | the output is whole, or there is an error |
| **protobuf plugin** `tools/src/zpp-protoc-plugin.cpp` | the structs written so far and who depends on whom; the ranges of enumerations of all files so far | a walk over the messages of a file, and over their fields | protoc | a struct is complete where it is used; each field has its number and a type of its own |
| **tracing plugin** `plugins/eosio/tracegen.hpp` | the places to insert text at, with their order | a walk over the statements of each function | clang | the traced function does what it did |
| **ricardian texts** `plugins/eosio/gen.hpp`, `scripts/ricardeos` | files of contracts and clauses | parsing into the ABI, export to files, import from them | the ABI generator | each action has the text that was written for it |

`PROJECT.json` lists these components with their sources, and the ones that
are not modelled with the reason.

## What is hard here

There are no threads and no messages. What is hard is that calls made in a
legal order, each correct when looked at alone, meet in shared state:

* **Several writes for one change.** A `put` touches one pair per index and can
  fail after some of them. Only the rollback makes it atomic, and the
  argument depends on which of the branches store, keep or move an entry.
* **State read early and used late.** Iterators cache a status, `multi_index`
  caches rows and index iterators, `modify` remembers the old key, calls the
  contract, and compares afterwards; `test_chain` remembers the head block.
  Whatever runs in between, through the same instance, another instance or the
  node, may have made it stale.
* **Two objects for one thing.** An iterator without a handle and one walked past
  the last row, an item of the cache and its row, two instances of one table, a
  node of two ropes.
* **Boundaries.** Iterators wrap around in the node; keys are incremented as
  byte strings with signed bytes; sizes wrap in `size_t`, alignments in
  `uint8_t`; the next primary key shares its variable with two tags; the digits
  of a quotient are estimates that are corrected at most twice.
* **Long histories.** The shape of the heap is the result of every allocation and
  release so far.
* **Walks over graphs with a memory.** The compiler plugins walk types and
  functions that refer to each other, remember what they have seen, and come
  back to it in another order than they were written for; several units
  describe parts of one contract.

`PROJECT.json` lists each hazard at its line with the properties that cover it.

## Modules

| module | models | lines it stands for |
|---|---|---|
| `TableSpec` | what `eosio::kv::table` promises: an atomic dictionary with unique secondary keys | `kv.hpp` 721-758, 575-595 |
| `KvTable` | `put` and `erase` pair by pair, lookups, transactions | `kv.hpp` 75-176 |
| `KvIterator` | iterators of a table, the handles they own, the table changing under them | `kv.hpp` 178-292, 353-439, 505-716 |
| `TableKeys` | bytes of keys and their text, rows with the number of their alternative, names of index tables, least keys | `kv_base.hpp` 77-175, `key_utils.hpp`, `kv.hpp` 804-844, `multi_index.hpp` 185-292, 395-460 |
| `KvMap` | rows and iterators of a map over keys as byte sequences | `map.hpp` 57-66, 169-391, 436-588 |
| `MapElements` | values of a map: element wrappers, construction, the buffer values are packed in | `map.hpp` 133-154, 410-492, 597-661 |
| `MultiIndex` | instances of a table with one secondary index, cache and nested `modify` | `multi_index.hpp` 409-788, 914-941, 1194-1907 |
| `Cell`, `Singleton` | what a singleton promises, and the table object it is made of | `singleton.hpp` 51-128, parts of `multi_index.hpp` |
| `SimpleMalloc` | the allocator, with the merging loop turn by turn | `simple_malloc.cpp` 27-160, `small_memory_alloc.hpp`, `big_memory_alloc.hpp` |
| `MemoryManager` | the allocator of `malloc.cpp`: heaps tried one after another, merging turn by turn, growth in place, `sbrk` | `malloc.cpp` 18-545 |
| `Datastream` | a stream and the counting one side by side, in words that wrap | `datastream.hpp` 44-264 |
| `Rope` | ropes that share nodes, the loop of `c_str` turn by turn | `rope.hpp` 19-229 |
| `BinaryExtension` | two extensions, the storage under their flags, a stream | `binary_extension.hpp` 24-221 |
| `Actions` | sending, dispatching, deferring, notifying; the types of arguments | `action.hpp`, `dispatcher.hpp`, `transaction.hpp` |
| `Eosiolib` | `write_decimal` and `is_valid` | `eosiolib.cpp` 21-159 |
| `RsaKeys` | base 64 and the parser of public keys | `crypto_utils.hpp` |
| `NameCodes` | names and their numbers | `plugins/eosio/utils.hpp` |
| `Int128` | division by digits, products of halves, shifts, conversions, comparisons | `libraries/rt` |
| `TestChain` | a test driving a chain | `tester.cpp` 182-203, 263-389, 642-655 |
| `AbiTypes`, `AbiGen` | names of types, and the walk that collects definitions | `abigen.hpp`, `cdt_abi.hpp` |
| `CodegenVisitor` | handlers and the analysis of read-only actions | `codegen.cpp` |
| `AbiMerge` | merging of descriptions | `abimerge.hpp` |
| `Dispatcher` | extends `CodegenVisitor`: from the units' handlers through their descriptions to `apply` | `eosio-codegen.cpp` 26-92, 254-325, 341-487 |
| `Toolchain` | composes `AbiGen`, `Dispatcher` and `AbiMerge`: each step of the dispatcher with what it does about the ABI | `eosio-codegen.cpp` |
| `ProtocPlugin` | the order of structs in a generated header | `zpp-protoc-plugin.cpp` 158-479 |
| `ProtocFields` | names, types and numbers of fields, comparison operators, ranges of enumerations, file by file | `zpp-protoc-plugin.cpp` 19-60, 158-504 |
| `TraceGen` | the check points put into a function, and what the text written at them means where it stands | `tracegen.hpp` |
| `Ricardian` | the tokenizer, the texts in the ABI, export and import | `gen.hpp` 26-247, `ricardeos.py` |
| `Library` | composes `Singleton`, `Datastream`, `BinaryExtension`, `TestChain`, `TableKeys`, `MapElements`, `Actions`, `Rope` and `MemoryManager`: a behaviour is of one of them, and the others rest | |
| `MCLibrary`, `MCToolchain`, `MC...` | instances for TLC: symmetry, key sets, programs; `MCLibrary` adds to `Library` the parts nothing is proved about | |
| `KvTableProofs`, `KvIteratorProofs`, `KvMapProofs`, `MultiIndexProofs`, `SimpleMallocProofs`, `CodegenVisitorProofs`, `LibraryProofs`, `HeapProofs` | the theorems; `CodegenVisitorProofs` has those on `Dispatcher` too, `HeapProofs` has those on `MemoryManager`, `LibraryProofs` those on the other parts of `Library` | |

Conventions. An action has the name of the function it models and stands for
the whole call, except where something can happen in the middle: `put` and
`erase` of the table take a step per pair (a transaction may be stopped between
two, and the invariant of the loop is what the proofs need), `modify` stops
where the contract's updater runs, `realloc` where it has two blocks, and the
merging loop of the allocator, the walk of `c_str` and those of the compiler
plugins take a step per turn. Intrinsics of the node
(`kv_*`, `db_*`, `memmove`) are operators marked as external; they do what the
code around them relies on. A failed check of the library or the node is the
action's branch `Fail` (`Rollback` in `KvTable`, `Refuse` in `SimpleMalloc`): the
transaction is over. Definitions whose comment starts with "Mutant" are broken
versions of the one that follows them; nothing uses them: putting one in the
place of the original must make the property fail that `PROJECT.json` names
with it.

**KvTable.** `rows` are the pairs of the primary index and `entries` those of the
secondary ones; `op`, `arg`, `old`, `todo` are the locals of the running call and
`saved` is what a rollback restores. The loop over `secondary_indices` visits
them in any order, which covers every order of registration. `EraseBegin` gets
the stored row in `Next`, as in all examples and tests, and any value with the
row's key in `NextByKey`. `PutIndex` has the three successful branches of the
loop (new row, kept key, moved key) and `PutDuplicate` its two failing ones.

**KvIterator.** `host` holds the node's iterators by handle and `obj` the contract's
objects with the handle (`itr`, 0 for none) and the status they cache. `walk` is a
history variable: the keys an object has met since `begin` or `rbegin` and those
that were in the table all the time since. The index is a set of numbers: secondary and
primary index iterate alike.

**KvMap.** A key is the byte sequence after the common prefix. `increment_bytes`
is modelled as what it does in the contract's target, where `char` is signed:
`kt[i]+1` of a byte with the sign bit set is negative, as `uint16_t` above 255, and
carried on; of the byte `0xFF` it is 0, and is not. A carry out of the key
enters the prefix; the rows of the map are then all behind or all before the
bound, depending on the prefix. The model takes a prefix that ends in a zero
byte, as with the default index name, and puts the bound behind all rows.
An object's `life` is "new" from the public constructor (`construct`, status ok though the
node's iterator is at its end) to its first seek, "live" afterwards, and "moved" when another
object has taken its iterator: it keeps its status and the node refuses it. Seeks are modelled both as
functions of the map, which return a new object, and as members of an iterator (`seek_to_begin`, `seek_find`
and so on). An object assigned to itself is left out, here and in `KvIterator` (see below).

**MultiIndex.** A node iterator is a key with the count of stores under it, so that
an iterator to an erased row differs from one to a row stored later under the
same key. An item of an instance's cache has the value of the object (here its
secondary key) and the cached iterator of the secondary index, 0 if not yet
looked up. `jobs` is the stack of running `modify` calls; between `ModifyBegin`
and `ModifyFinish` the updater changes the object (`Update`) and calls anything
else of the table, other calls of `modify` included.

**Singleton.** The row, and the item the object's table has cached. Each call
finds the row in the cache first; an iterator is the count of stores, and the
node fails when it is used after the row is gone. `ImplementsCell` maps the row
to the cell's value.

**MapElements.** `rows` are the packed bytes of rows and who pays for them, by account,
index and key; `wrappers` are the objects `operator[]` and `at` return, kept in
variables. `meant` is history: what each key was last given, and by which call;
`current` of a wrapper whether its row was written otherwise since.

**TableKeys, ProtocFields, Eosiolib, RsaKeys, NameCodes.** One question is asked of the code, and
answered; the initial states are the questions. The parser of keys answers whether it has
read one (`ret`) and the numbers; on a failure after the modulus that number has been set already, and the property
looks at the numbers only when the answer is yes.

**BinaryExtension.** `data` is the storage and `has_value` the flag; `exists` whether
the object lives. `meant` is history: the value the contract last gave.

**MemoryManager.** The memory is the map from addresses to headers, `header`; a
block's size is where the next one starts. `job` is the call under way, with the locals
of its loops: it takes a step per heap tried (`TakeFromHeap`, `expand_memory`,
`NextHeap`), per block that `malloc_from_freed` looks at (`SkipAllocated`, `MeetFreed`) and per
block that `merge_contiguous` adds (`Merge`). Behaviours end where
`realloc_in_place` has taken memory its heap has not handed out (`status` "overrun",
see below): no header tells any more what follows; and where `calloc` clears
memory it did not get, from address 0 on.

**TraceGen.** A body is a tree of statements of the kinds the walk tells apart, with
the lambdas hidden in their expressions. The text inserted is a sequence of
opening and closing marks at places between statements; `Runs` is what the compiler makes of
the result, compared with what it made of the body.

**Actions.** `work` is what the node has yet to run, the item it is at first: an item is
an action with the accounts still to be notified, those it has met (the node
notifies nobody twice), and what was sent from it. `frame` is the contract that is
running and what it has read with `get_action`. An argument is a value with the
type of its expression and says whether that is an lvalue, which decides the
specialization that checks it. `sent` and `received` (`got` in the module) are
history; an action that was deferred leaves `sent` when it is cancelled or
replaced, since it is not going to run.

**Ricardian.** A file is a sequence of symbols, some of which are white space. `abi`
is what the plugin writes, `directory` the files `ricardeos` exports.

**SimpleMalloc.** Sizes and addresses are in units of 16 bytes, which is the size of
a block's header and the default alignment: no address or size in the code is
anything else once rounded. `Word` and `AlignWrap` are the numbers of values of `size_t` and of the
`uint8_t` that carries the alignment, and the arithmetic wraps there. `realloc(NULL, n)`
is `malloc(n)`; `free(NULL)` and a request of 0 do nothing.

**Datastream.** The stream over a buffer and the one of `size_t` get the same
calls, as `pack` does one after the other. Addresses are modulo `Word`; the upper
half of them is negative where the code casts (`write`). `honest` and `packing`
are history: whether all sizes were those of objects in memory, and whether
only calls `pack` makes were made.

**Rope.** Nodes are numbered as they are created; `said` is, for each rope, the
text it was given. `Turn` is one turn of the loop of `c_str`, which keeps its way
up in the nodes' `temp` and `temp_left`.

**Int128.** A word has `2 * Digit` bits. The loop of `udivmodti4` (`Digits`,
estimates and corrections), the partial products of `multi3`, the shifts in two
words and the float conversions are operators; a step makes one call. Floats are
their bits. Comparisons of long doubles go through softfloat (external).

**TestChain.** The chain is external: it makes a block every 500 ms, skips slots on
demand, and refuses a transaction that has expired or was executed before.
`recent` is history: what was executed since a block was finished.

**AbiTypes, AbiGen.** A C++ type is a tuple of its kind and arguments, and so is
the string that names it in the ABI. `add_type` and what it calls recurse over
types; the recursion is kept as a stack of what is still to be done, so that a
step is one call and its depth can be bounded by the compiler's stack.
`Described` reads the ABI as a client does, `Packed` the type as the contract's
`datastream` does. `Reserved` are the contract's names with `__` in them, which `validate_struct` drops
from the ABI; `Contracts` are the ricardian contracts of actions, which two units must agree on.

**CodegenVisitor.** A function body is the sequence of its top-level statements,
of the kinds the walk tells apart; `nested` is a call anywhere below. `frames` are
the recursive calls of `process_function`; `func_calls` and `indi_func_map` are what the code
calls so.

**Dispatcher.** `BeginUnit` and `WalkUnit` are the code generator at work on a unit,
`LeaveDescription` writes what it found, or that there is nothing; `SkipDescription`,
`AddHandlers` and `WriteDispatcher` are the turns of the loop in `main` and its end, `Fail`
any error. `apply` is the function that is generated, as an operator. The module says
nothing of types, so that it needs no recursion and can be proved about: it takes from the
ABI generator only that a description is left out of a unit that has nothing to
describe (`DescribesNothing`).

**Toolchain.** An action is one of the dispatcher's with the ABI's half of it:
`StartUnit` starts both plugins, `Codegen` and `Abigen` are their steps, `EndUnit` leaves the
description, `SkipEmpty`, `MergeDesc`, `RefuseMerge` and `Write` are `main`. `desc_abis` is what the
descriptions hold besides the handlers. That it does to the handlers what `Dispatcher` says
is checked (`ImplementsDispatcher`), and so is what `Dispatcher` takes from the ABI
generator (`NothingIsLost`). `Write` may also fail for reasons outside the model: a file that cannot be
opened, or an ABI that the last check, `json_to_bin`, refuses. Versions are in tenths: the descriptions
say 12 (see below), and the merged ABI begins with that of the tool's option, `AbiVersion`, 10 in the run, so that
`merge_version` has to take the other's. The gate on results and key-value tables is therefore always
open in the run.

**ProtocPlugin.** A file is a forest of messages with, for each, the messages its
fields are of. `dependencies` and `messages` are the generator's maps, `error` the
response's.

## Runs

Deadlock is checked unless the program can end: after a failed check
no action is enabled, after a build nothing is left to do, and the `.cfg` says so.
Only the toolchain has a liveness property: the library only does what the
contract calls, and the contract may stop calling at any time. What a loop of it
must reach is stated as safety instead ("whenever it is at the end, it has met
everything").

| run | states | what is asked | bounds, and why they are enough |
|---|---|---|---|
| `kv_table` | 33 k | indices mirror the rows between calls (`IndicesMirrorRows`), each index is wholly before or wholly after at every write (`WalkInvariant`), and the table implements `TableSpec` | two rows, two indices, three keys each: `put` can move an entry in one index and then fail in the other, and an update can take a key another row has just given up; symmetric in keys and indices |
| `kv_table_by_key` | violation | no entry of an erased row is left | as above, two secondary keys |
| `kv_iterator` | 443 k | handles are owned once (`HandlesAreOwned`), loops are complete (`WalksAreComplete`) and meet nothing twice (`NoKeyIsMetTwice`), `value` is current, `range` is exact, equal forward iterators step back alike | three keys, two objects: a key before, at and behind each position; an iterator to compare with, move to, or erase under |
| `kv_reverse_iterator` | violation | equal reverse iterators step back alike | the same |
| `simple_malloc` | 843 k | no memory is handed out twice (`NoOverlap`), all of it is inside the granted pages (`InMemory`), blocks hold what was asked for (`BlocksFit`), touching chunks are merged, a full table drops only its smallest piece | one small class, two slots in the table, twelve units of memory in two pages, requests of 1, 2 and 31 of 32, alignments 1 and 2: sizes that wrap, blocks that end at a page boundary, small blocks cut from chunks, three freed pieces that lie apart |
| `simple_malloc_realloc` | violation | reading behind the old block is harmless | pages of four units |
| `multi_index` | 901 k | index and rows agree (`IndexMirrorsRows`), the cache shows the rows (`CacheIsCurrent`), a generated key is free | one instance, four primary keys of which two are also tags, each stored twice at most (an iterator can be to an erased row and the key stored again), two secondary keys, `modify` within `modify` |
| `multi_index_two` | violation | index and rows agree | two instances, three keys |
| `library` | 1.9 M | one part of the library at a time, below | |
| `kv_map_upper_bound` | violation | `upper_bound` is the first larger key, always | as for the map in `library` |
| `kv_map_reverse` | violation | an iterator can be incremented past its last row | the same |
| `toolchain` | 246 k | the ABI describes the program, results of actions included (`AbiDescribesProgram`), a read-only action that writes in its statements is refused and nothing else is (`ReadOnlyIsSound`), calls and notifications reach their handlers (`CallsArrive`), the compiler's stack suffices (`StackSuffices`), every step is one of the dispatcher and every build ends (`BuildsRun`) | below |

`library` holds parts that have little or no state in common; a behaviour picks
one of them and the others rest (`MCLibrary`):

* the map (`ReadsAreCurrent`, `SliceIsExact`, `PlainUpperBoundIsNext`): bytes of four
  values, two of them with the sign bit; five keys that end in each, differ in
  the first byte, or extend another; two iterators;
* `NumbersAreExact` of `Int128` (`ArithmeticIsExact`): all pairs of 8-bit integers made of two words of two digits of
  two bits, so that both corrections of the division and all carries
  happen; floats with three bits of fraction and four of exponent; of `Eosiolib`
  (`HelpersAreExact`): all numbers of three digits of base 3 with up to four decimal
  places, ranges of every size at both ends of the address space; up to three
  keys of weights up to a largest value of 4, which sums exceed;
  of `NameCodes` (`NamesAreFaithful`): names of two full characters and the last, all
  numbers, and all texts with one character more, over characters from both ends of each
  range of codes, above `j`, and of none;
* `RowsAreKept` of `TableKeys` (`KeysAreFaithful`): all pairs of tables and indices with names of
  two bytes of three values; bytes at both ends of the digits of their text;
  types of up to three alternatives read as each other; index tables of names that leave
  the last digit free; all sets of entries, with both infinities; of `MapElements`
  (`ElementsAreStored`): two keys, two wrappers and four calls, with values on both
  sides of the size of the static buffer, and a longer one that makes the other grow;
* `TextsAreWhole` of `Rope`: two ropes of six nodes, two letters: a node below two
  parents, and twice below one;
* `FilesAreFaithful` of `Ricardian` (`TextsArrive`): all files of up to four pieces (tags
  with and without white space, broken ones, text), and two contracts with files of one or
  two texts each, of which one name is shared; of `RsaKeys` (`KeysAreParsed`): numbers of one to
  three bytes with and without the sign bit, every length in three forms, every byte a key can
  break off at, with and without the outermost length made to fit; of `ProtocPlugin`
  (`HeaderIsOrdered`): all files of four messages side by side, or two in a third,
  with fields of at most two message types each; of `ProtocFields` (`HeadersAreFaithful`): a field
  of every type, label and option, three fields that point to the message they are in or past
  it, two files with enumerations inside and outside of magic_enum's default range;
* `ImplementsCell`: three values, three stores; `StaysInBuffer`: all buffers up to three bytes and
  all sizes and positions in a memory of eight;
* `TransactionsAreTimely`: five blocks, skips of nothing, of less than a slot, of
  one slot and of two and a half;
* `ExtensionsHoldValues`: two extensions, two values, a stream of two;
* `HeapsAreTiled`: a first heap of six units, pages of eight, three pages and three
  heaps, five calls of at most four blocks, with requests that fill a heap exactly and that only several
  pages can serve;
* `TraceIsTransparent`: all bodies of one compound statement over plain, returning and
  macro statements and blocks of them, and those with small compound statements inside;
* `ActionsArriveAsSent`: three handlers of two contracts, one of which ignores an argument,
  two sends, arguments of each pair of convertible types.

A property of two parts is the conjunction of one of each, since a behaviour is of
one part only.

`toolchain` builds contracts of one unit whose action has a parameter of every type up to
two levels of nesting (vectors, optionals, pairs, maps, tuples, variants,
templates over builtins, records with bases and cycles, aliases and
enumerations, and records with a reserved name alone, inside others and as a base), with and without a type the unit declares for another reason; of
one unit with a read-only action and a helper of two statements each, of all
kinds; and all pairs of fifteen units that declare actions, tables and handlers
of the same and of different names. Deeper types repeat what the second level
shows: the walk treats a type by its kind and its arguments' names.

The type invariants also state the agreement other checks rely on: a cached
status says "end" exactly when the position is the end (`KvIterator`; `KvMap`, for an object
that was sought or assigned and not moved from),
rows sit under their own key (`KvTable`), `modify` works on items that exist
(`MultiIndex`), the block being moved is still held (`SimpleMalloc`).

Bounds that are not constants of the program: `MaxStores` and `MaxDepth` of
`MultiIndex` (how often a key is stored, how deep updaters nest), `MaxStores` of
`Singleton`, `MaxNodes` of `Rope`, `MaxBlocks` and `MaxEvents` of `TestChain`,
`MaxCalls` of `MapElements` and `MemoryManager` (`MaxAsks` and `MaxAllocs` in `Library`), `MaxHeld` of the latter, `MaxStream` of
`BinaryExtension`, `MaxSends` of `Actions`, `MaxFields` of `ProtocPlugin`,
`MaxStack` and `MaxFrames` of the plugins (the compiler's stack; larger than any
walk that ends needs), `MaxPages`, which in the code is the node's limit, and the
small `Word`, `Page`, `Byte`, `Digit`, `Full` in place of the real widths.

## Fairness

`MCToolchain` asks for `WF_vars(Next)`, and `BuildEnds`, in `BuildsRun`, is the only
property that needs it: `eosio-codegen` and the compiler processes it starts compute and
exit on their own; nothing of the model waits for anyone else (a process
that has a step to make makes one). What `BuildEnds` then shows is that the
loops make progress: the walks over types that contain themselves end by what
was evaluated, the analysis of functions that call each other by what is
known or by the stack, and a unit or description that fails ends the build.

## What the code does otherwise than it says

* **`kv::table::erase` with a key only** (`kv_table_by_key`, `kv.hpp:142`). The
  secondary entries it erases are those of its argument, not of the stored row.
  The how-to guide says to pass the primary key of the object; if the rest of the argument
  differs from the row, its entries stay behind.
* **`--` of a reverse end iterator** (`kv_reverse_iterator`, `kv.hpp:431`). One
  made by `rend()` lands on the second row, or fails in a table of one row; one
  walked there, which compares equal, lands on the first.
* **`realloc` reads behind the old block** (`simple_malloc_realloc`,
  `simple_malloc.cpp:149`). The comment calls it okay; at the end of the linear
  memory it is a trap.
* **Two instances of a `multi_index`** (`multi_index_two`, `multi_index.hpp:1687`).
  `modify` compares with its cached object; if another instance changed the row
  meanwhile, the new key may be written to the row and not to the index.
* **`kv::map::upper_bound`** (`kv_map_upper_bound`, `map.hpp:61`). It increments
  the key's last byte as a signed char. For `int` keys `upper_bound(128)` starts
  at 385 and `upper_bound(255)` at 0; for strings it skips every key that
  extends the given one.
* **`++` of a map's reverse iterator** (`kv_map_reverse`, `map.hpp:326`) fails at
  the step from the first row to `rend()`, which the loop condition needs.

Some properties hold only as far as their statement says, and the exception is
what the code does:

* `ReadOnlyIsSound`: the check of read-only actions sees calls that are
  statements of their own; one in a branch, a loop, an initializer or an
  argument is missed. Of the refusals, `RefusedForAReason` says: a clean read-only action is refused
  if it is called as a statement itself (`codegen.cpp:275` makes an entry for it).
* `StackSuffices`: the search for writes does not end for functions that call themselves. Nor
  does `get_root_name` (`abigen.hpp:1100-1106`) for a record based on an alias
  of itself, which is what `TypesEnd` of `AbiDescribesProgram` leaves out.
* `AbiDescribesProgram`, in its part `ResultsAreDescribed`: names of results are compared without their
  suffixes removed (`abigen.hpp:1150-1153`, `1193`), so a type only a result
  mentions inside a vector or optional is dropped; the type of a `kv_map` key is never
  added (`abigen.hpp:286`); the suffix of `std::array<T, N>` is not cut at its `]`.
* `CallsArrive`, in its part `NotificationsArrive`: `is_empty` of a description looks at no handlers, so that
  those of a unit that has nothing else to describe are lost. The property leaves a
  notification out only if such a unit has a handler for it.
* `FilesAreFaithful`, in its part `HeaderIsOrdered`, says exactly when the plugin's order is right (`Orderable`). A
  message moved forward for one user may come before what it uses itself: with
  `A{B,C} B{C} C` the header has B before C.
* `StaysInBuffer` assumes sizes of real objects and that a `seekp` that answered no is
  heeded; after one that was not, the check of `read` passes behind the end.
* `NumbersAreExact`, in its part `ArithmeticIsExact`, leaves out signed conversions from floats of 2^127 and more,
  where the shift overflows (`fixdfti.c`), and `long double` to 32 and 64 bits, which rounds
  to even where the other conversions truncate (`compiler_builtins.cpp:139-158`).
* `AvailableKeyIsFree`, `ImplementsCell` are about one object; a second one of the same table
  has a cache of its own and answers from it, as in `multi_index_two`.

* `RowsAreKept`: a map with an index name of its own reads rows it has not written.
  `self_t` drops the name (`map.hpp:416`), so iterators and the elements of a
  constructor take the prefix of the default name, and what the constructor
  stored is not found (`RowsAreAsWritten`); digits above 9 are read by `from_hex` in lower
  case only (`kv_base.hpp:148`).
* `ExtensionsHoldValues` takes an extension assigned to itself as empty, which it is: it is reset
  before it looks at the other. One that another was moved from by assignment loses its flag
  and not its value, which is never destroyed; `value_or()&&` of an empty one returns a
  reference to an object that is gone; `>>` at the end of a stream keeps the value from before.
* `FilesAreFaithful`, in its part `KeysAreParsed`: `get_next` (`crypto_utils.hpp:220`) stands still where a step would
  reach exactly the end, so a key without an exponent, or with one that has lost its last byte, is
  not always refused if the outermost length fits: bytes already read are read again.
* `NumbersAreExact`, in its part `NamesAreFaithful`: `name_to_string(0)` is thirteen dots
  (`utils.hpp:85`), which `validate_name` does not accept; it accepts the empty name.
* `HeapsAreTiled` ends where `realloc` has grown a block into memory its heap has not handed
  out (`malloc.cpp`): the next block of the heap is then made of memory that is in use.
* `FilesAreFaithful`, in its part `TextsArrive`: white space inside a word of a declaration is counted from the
  word's beginning (`gen.hpp:35`), so `<h x1` is read as `<h1`; an import takes the clauses of every
  contract in the directory, clauses of one name in one contract overwrite each other, and an action whose name
  begins like a file of a clause makes it keep the clauses it had, without a word; each
  printed text has gained a newline.

Seen while modelling, without a run:

* `m[a] = m[b]` on the wrappers `kv::map` returns selects the implicit assignment of
  `writable_wrapper`, not one of those that take a value (`map.hpp:429-450`): no row is written.
* `operator[]` with a payer bills a row it creates to the owner instead (`map.hpp:479`).
* `malloc.cpp` does not see that `sbrk` has failed when it extends a heap, and `calloc` clears
  the block without asking if it got one.
* `EOSIO_DISPATCH` expands to an assignment to `executed`, which is declared nowhere.
* The protobuf plugin includes `.pb.h` (line 454) and writes `.pb.hpp`; a map field becomes a
  vector of maps; a nested message with the name of a keyword is declared with an underscore
  and referred to without; `epilogue_strm` is never cleared, so each file of a request repeats the
  ranges of the enumerations before it; the comparison it writes for recursive fields has
  no `return` (`tests/gen-zpp-tests/unittest_proto3_lite.pb.hpp:159-162`).

* `docs/05_features/80_memory_management.md:19-21` says that freed chunks are
  used before the memory grows; the code grows the memory first
  (`FromTail` before `FromChunk`).
* `posix_memalign` passes the alignment as `uint8_t`: 256 becomes 0, and `align`
  then puts the end of the heap at address 0; and it is applied to the size and the
  end of the heap, not to the address returned. `calloc` multiplies without a check.
* `memcmp` in `table_base::put` (`kv.hpp:110`) compares as many bytes as the stored key has
  before the sizes are compared.
* `map::erase(iterator)` (`map.hpp:542`) does not compile when it is used: it
  reads a member `key` of the iterator, which has none, and increments a
  constant.
* `rope::append` of a literal counts its terminating zero.
* `variant_is_same` (`abimerge.hpp:95`) compares in one direction only, and `struct_is_same` fields
  in any order; definitions of one name that differ so are not produced by one program.
* A type with `__` in its name, a template over one, and the arguments of a method so named
  are dropped from the ABI (`abigen.hpp:885-887`, `1109`) while what refers to them stays; the properties expect
  them to be undefined.
* An iterator of a table or a map that is assigned to itself destroys the node's iterator it holds
  and then keeps the number (`kv.hpp:202-210`, `map.hpp:206-213`); one of a map that was moved from
  still reports `is_valid()`, and so does one just constructed, which is past the end.
* `generate_eosio_dispatch` reports a file it cannot open by `throw;` where there is no exception
  (`eosio-codegen.cpp:30-31`), which ends the process before its own handler is reached.
* The version 1.3 becomes 1.2 on its way through a float (`abigen.hpp:1450-1453`, `eosio-codegen.cpp:198`).
* `--warn-action-read-only` is documented and constantly false; `--abi-version` never
  reaches the plugin; the `.abi` file is opened before the check of its protobuf messages.
* The comparison operators the protobuf plugin writes dereference a null pointer when only
  one side of a recursive field is set.
* `__lshlti3` is a shift to the left (`compiler_builtins.cpp`).

## Proofs

All proofs are for any values of the constants, under the assumptions the
modules declare for them (TLC evaluates these in every run) and the hypotheses
named here.

**The table** (`KvTableProofs`).

* `TypeCorrect`: `Spec => []TypeOK`.
* `WalkCorrect`: `Spec => []WalkInvariant`. `IndicesMirrorRows` is not inductive,
  since it says nothing of a call under way. `WalkInvariant` says what each
  index holds at every step: the old rows if the loop has yet to visit it, the
  new ones afterwards. With that, `PutWritesEntry` and
  `EraseWritesEntry` show that one visit takes one index from old to new,
  `PutLeavesOthers` that it touches no other, and `WalkRollback` that a failed
  check restores indices that mirror the restored rows.
* `IndicesCorrect`: `Spec => []IndicesMirrorRows`, from `WalkInvariant`.
* `Refinement`: `Spec => ImplementsTableSpec`, the rows being the abstract table
  and the committed rows the abstract committed table. `DuplicateIsConflict` and
  `FinishedPutIsUnique` show that `put` fails exactly when another row has one
  of its keys, `LookupIsExact` that a lookup through an index finds the row; all
  other steps of `put` and `erase` stutter.

**Its iterators** (`KvIteratorProofs`), for any number of keys and any finite set of
objects: `TypeCorrect`, `HandlesCorrect`, `ReadsCorrect`, `WalksCorrect`,
`NoneMetTwice`, `StepsBackCorrect`, `RangeCorrect`. That a new handle is free needs that
there are more handles than objects (a pigeonhole on finite sets); that a read is current
needs to know where the node's iterators may stand (`HostSound`); and that a
loop at its end has met every key that stayed, that at each position
the keys due are met or ahead (`WalkSound`), whose step is that nothing lies
between a position and its successor. That `range` is exact is about the loop as a
whole: what it has after `n` turns is an initial part of the rows between the two
keys, by induction on `n`.

**The map** (`KvMapProofs`), for any width of a byte and any finite set of keys of
any lengths: `TypeCorrect`, `ReadsCorrect`, `UpperBoundCorrect`, `SliceCorrect`. What `TypeCorrect` says of
statuses depends on an object's life: a status agrees with the node's iterator once the object was sought or
assigned to and until it is moved from (`SeekSafe`, `MoveAssignSafe`); one just constructed says ok at the end,
and of one moved from nothing is claimed. The others rest on the
lexicographic order being one (`LessIrreflexive` and its neighbours), so
that every set of rows has a first and a last; for `upper_bound`, on nothing lying between a key
whose last byte can be incremented and its increment, but keys that extend it; for
`ranged_slice`, on the same induction as `range`, over keys that are sequences.

**multi_index** (`MultiIndexProofs`), for tables used through one object
(`OneInstance`; `multi_index_two` shows that two break it): `TypeCorrect`,
`IndexCorrect`, `CacheCorrect`, `AvailableCorrect`, for any width of keys, number of
secondary keys and depth of nested updaters. The invariant ties the three copies of
a row together; a cached object differs from its row only while an updater is
at work on it, and only the innermost job's object can be the one that changes.

**Keys and rows** (`LibraryProofs`): `RowsKept`, for any widths of names and of the static
buffer, any keys and values, any number of wrappers and calls.

* Of `TableKeys` it proves what is computed: names of tables and indices are read back
  from the bytes of a prefix (`n = d * (n \div d) + (n % d)`), text of keys reads back, rows keep
  their alternative, lookups find what they should among any entries.
* Of `MapElements` the invariant is `Kept == Typed /\ AsWritten /\ Current`: every row has what it was
  last given and by whom, and a wrapper that nobody wrote behind has the row's value. The
  list a map is constructed from may name a key twice; that its last value is what is
  stored is an induction over the list.

**The analysis of read-only actions** (`CodegenVisitorProofs`): `ReadOnlyCorrect`, for any unit that
compiles (functions are declared before they are called) and any depth of the
compiler's stack. `ReadOnlyIsSound` is about the end of the walk; the invariant, `IInv`, says what is
known on the way: host functions are known from their declaration on
(`HostsEntered`), whatever is known is known correctly (`KnownAreClassed`), the calls a function that is being
walked has passed were harmless or it is known to write (`FramesPassed`), frames wait at
calls of the frames above them (`FramesLinked`), what has been visited is classed
(`VisitedAreClassed`), read-only actions are remembered (`ActionsRemembered`) and refused when
they offend (`OffAtEnd`), and everything in the map and every refusal has a reason
(`ReasonsKept`, `RefusedForAReason`). What a function leads to through calls is a least set closed
under them.

**The dispatcher** (also `CodegenVisitorProofs`), for any contract of any number of units.

* `StackAlwaysSuffices`, for any depth of the stack: the code generator only runs out of it in functions that
  call themselves, or where there are more functions than frames. Each frame calls the one above it
  (`FramesLinked`), so that a function that is on the stack twice leads to itself; without such a
  function the stack is an injection into the functions of the unit, and no longer than they are many.
* `CallsAlwaysArrive`, of `DispatcherSpec`: whatever any units declare, in any order, `apply` calls the method of the
  action's name and the handler of the notification's. The invariant, `DispatcherInv`, follows each
  handler on its way: what the walk over a unit has passed is in its sets (`Collected`),
  a description has all of its unit's or the unit describes nothing (`DescribedInFull`), what has been
  read is in the dispatcher's (`ReadInFull`), and the descriptions still to be read are those of the last units in
  their order (`UnitsInOrder`). Nothing else gets in on the way, and since of two handlers of
  one name the first stays, `DistinctNames` makes it the one that was meant. The theorem is about
  `Dispatcher`; that the toolchain as a whole takes its steps, TLC checks.

**The parts of `Library`** (`LibraryProofs`). A behaviour of `PartsSpec` is of one part, and the
invariants are of the form "of this part, this holds".

* `SingletonIsCell`, the refinement of `Cell`, from the cache being the row.
* `BufferKept`, from honest sizes and a heeded `seekp`, for any width of a word.
* `ExtensionsCorrect`, for any number of extensions and any length of the stream, if raw
  storage is no value (`PayloadAssumption`). `ExtensionsHoldValues` says nothing of an extension that does not
  exist; the invariant adds that its flag is clear, or the default constructor would bring
  back what was there.
* `TransactionsTimely`, for any skips, expirations and number of blocks. The invariant, `ChainInv`, is that the
  remembered head is the head, that the pending block is the slot after it (blocks that
  are skipped are finished first), and that what was executed with a reference to the
  head is among the recent transactions, so that the tester only meets a duplicate that is one.
* `ActionsArrive`, for any handlers, arguments, permissions and number of sends, if a contract
  has one handler for a name and the contract that uses `dispatch` takes the actions of
  its own (`HandlersAssumption`). `ActionsArriveAsSent` compares the end with the beginning; what holds at each step
  is a balance (`Balanced`): an action was sent as often as it has run, waits in the work
  and is deferred, together. It needs that the action's own contract is
  the first of those it is for and none of the others (`HeadSound`), or a notification would count as
  a run; that work, transaction and what was read are actions contracts may send; and that what ran
  did so with the action's data cut in two (`Whole`). Counts are cardinalities of sets of
  positions; that they add up when sequences are joined, cut or lose an element is
  proved once (`CountJoined`, `CountRemoved`).
* `TextsWhole`, for any ropes, texts and number of nodes. Each node stands for a text, which depends
  only on nodes that are older than it (`T[n]`, a function that exists by the well-founded order of
  the nodes); a rope is the text of its root. What `c_str` keeps is a way back:
  the nodes from the one it is at to the root, each found through `temp` of the one before it,
  each with the place its text begins at. A node is older than those that lead to it,
  so that it is on the way once at most, and what a shared node kept of an earlier visit is overwritten
  before it is read. What lies behind the walk in the buffer is the end of the rope's text, and
  when the way is used up nothing lies before it.

**The legacy allocator** (`HeapProofs`): `HeapsTiled`, for any memory, number of heaps,
requests and calls; assumed is that the first heap lies in the first page and not at address 0
(`HeapAssumption`). Like `HeapsAreTiled` it is about behaviours up to an overrun. What
`HeapsAreTiled` says of a state is found by walking from header to header, which no step preserves as it
stands: a step writes headers, and the walk would have to be taken anew. `HeapInv` says instead that
there are sets of blocks, `f[i]` for heap `i`, of which each step changes one by one element or one run:

* the blocks of a heap follow one another and fill what it has handed out (`Tiling`); there is a
  lemma for each way they change, which is that one is added at the end or grows there, and that a
  run of free blocks becomes one block, or one and a remainder;
* those in use are the contract's, each long enough (`HeldSound`), and the
  heaps lie apart, below `brk` (`HeapsApart`);
* heaps before the active one are full, and freed blocks are only looked for when all heaps
  are (`CursorSound`): this is the assertion of `malloc_from_freed`;
* while a call searches, no run of free blocks it has gone past is large enough, in
  the heaps it has been through (`Searched`) and up to the block it is at (`Small`), so that what is refused
  is refused rightly (`RefusalSound`); what it is merging is a run of free blocks (`RunFrom`).

In the end the walk finds just these sets: the recursive function that follows the headers
exists by the well-founded order of addresses, and by least counterexample it holds
for the elements of `f[i]` and for nothing else. That a search which has come round has seen every heap
is arithmetic on `cursor.free` and the heap it began at (`Passed`).

**The allocator** (`SimpleMallocProofs`), for any memory, page
size, list of small sizes, table size and set of requests, under `AlignmentsFit` (no
alignment in use is truncated to 0):

* `TypeCorrect`, `NeverOverlaps`, `StaysInHeap`. `NoOverlap` alone is not inductive:
  memory handed out from the end of the heap is apart from everything only if
  everything lies before the end, and a block freed to a list only if it has the
  list's size. The invariant is therefore
  `IInv == Typed /\ SmallShape /\ NoOverlap /\ EverythingInHeap /\ MovingHeld`. There
  is a lemma per place memory comes from or goes to; a block cut from a chunk and a chunk merged with its
  neighbour use that what is apart from two adjoining pieces is apart from their
  union (`ApartFromBoth`). An empty piece owns no memory, which a request whose size
  wraps to 0 needs.
* `BlocksAlwaysFit`; `StaysInMemory` when the alignments also divide a page
  (`PagesAligned`): the number of pages is computed from the size and one crossing.
* `ChunksAlwaysMerged`: one pass over the table is enough. The invariant adds that
  no chunk starts inside another chunk, a big block or the piece that is being
  merged, and that slots already passed do not touch the piece: it only grows by
  chunks that did not touch them either.
* `SmallestDropped`, the action property `OnlyTheSmallestIsDropped`: every step but the last of the merging loop keeps
  each unit of memory in some list, chunk, block or the piece being merged (the four
  `...LosesNothing`), and at the last the slot found is the smallest of all (`LoopInv`), which
  relies on the slot the loop remembers not being one it empties later.

Induction. The library's induction theorems take an operator as a parameter, which the
provers here cannot instantiate. Where a loop over a sequence or a recursive function
had to be proved about (`range`, `ranged_slice`, the list a map is constructed from,
digits), the proofs take a least counterexample instead: a set of numbers that is not
empty has a least element, and the step before it gives the contradiction. That a recursive
function exists at all is proved the same way.

Only model-checked: `NumbersAreExact`, `FilesAreFaithful`, `TraceIsTransparent`, and of the toolchain `AbiDescribesProgram`: their modules are built from
recursive operators over trees, types and texts, and the provers lose their arithmetic in a
module that declares one. Of `BuildsRun`, `BuildEnds` is a liveness property, and
`ImplementsDispatcher` is about a module that extends `AbiGen`, which is one of those.

## What is not modelled

* Values of rows, payers and RAM billing in `KvTable`, `KvIterator` and `MultiIndex`: no
  branch depends on them. In `KvTable` a row has a payload that no index looks at. Those of maps are
  in `MapElements`, and the alternatives of rows in `TableKeys`.
* Conversion of keys to bytes (`to_key`, external): `KvTable`, `KvIterator` and
  `MultiIndex` take keys as abstract or ordered values; `KvMap` has bytes,
  because `upper_bound` works on them, and `TableKeys` has those of names and single bytes,
  which prefixes are made of.
* Further secondary indices of `multi_index` are kept like the first; left out are an emplace
  whose constructor calls the table, and an updater that modifies or erases its
  own object.
* The operators that hand values to `to_bin` and `from_bin`, and the types of names, assets and
  keys, are in a submodule whose sources are not in the repository.
* `CE/key_value.hpp` is the former `kv.hpp` under another name, line by line: a comparison of the
  two shows qualifiers, a table name that is a member instead of a parameter, and a database
  name nobody reads.
* About two thirds of the lines: most of them declare intrinsics, hand arguments to them,
  write text, or are tables of operators with one line each. The map covers what has a
  state, a branch, a loop or an encoding.
* The text that is generated (JSON, handlers, headers) beyond what the
  properties are about, and file names and options.
* The native parts of the tester, softfloat, clang, protoc and the node: external.
* The remaining components, each with its reason in `PROJECT.json`: stateless
  wrappers of intrinsics, declarations of the C API, compile-time reflection,
  build and packaging files.

## Plan

Done in this order: the table with its abstract specification, its iterators,
the allocator, `multi_index`, the map; then the toolchain, the singleton, the
stream, ropes, arithmetic, the tester, the protobuf plugin; then the proofs; then
binary extensions, the legacy allocator, actions, tracing, ricardian texts, the fields
of protobuf messages, keys, elements of maps, public keys and names. What is left:

1. **MultiIndex**: an updater that modifies or erases its own object, and a
   constructor that calls the table; two secondary indices; an abstract table
   that a single instance implements, as `TableSpec` is for `KvTable`.
2. **Proofs** of what `merge` keeps of two descriptions.
