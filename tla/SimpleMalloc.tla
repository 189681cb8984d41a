---------------------------- MODULE SimpleMalloc ----------------------------
(***************************************************************************)
(* The allocator linked into every contract: simple_malloc.cpp with its    *)
(* free lists (small_memory_alloc.hpp) and its table of big chunks         *)
(* (big_memory_alloc.hpp).                                                 *)
(*                                                                         *)
(* Addresses and sizes count units of 16 bytes, the size of a header and   *)
(* the default alignment.  The address 0 is the null pointer.  An action   *)
(* is a call of the contract, except that the loop of add_to_bigchunk      *)
(* takes a step per slot and realloc one for the block it obtains and one  *)
(* for the copy and the release of the old block.                          *)
(***************************************************************************)
EXTENDS Integers, Sequences, FiniteSets

CONSTANTS
  HeapBase,   \* where the heap begins
  Page,       \* the size of a page
  InitPages,  \* the pages the contract starts with
  MaxPages,   \* the pages the node lets it grow to
  Classes,    \* the sizes of small blocks, increasing
  MaxChunks,  \* the slots of the table of big chunks
  Word,       \* the number of values of size_t
  AlignWrap,  \* the number of values of the alignment's uint8_t
  Request,    \* the sizes the contract asks for
  Alignment   \* the alignments it asks for

Header == 1
Class == 1..Len(Classes)
Slot == 1..MaxChunks

ASSUME SizesAssumption ==
  /\ HeapBase \in Nat \ {0} /\ Page \in Nat \ {0}
  /\ InitPages \in Nat /\ MaxPages \in Nat /\ InitPages <= MaxPages
  /\ HeapBase <= InitPages * Page
  /\ MaxChunks \in Nat \ {0}
  /\ Word \in Nat /\ MaxPages * Page < Word /\ AlignWrap \in Nat \ {0}
ASSUME ClassesAssumption ==
  /\ Classes \in Seq(Nat \ {0}) /\ Len(Classes) > 0
  /\ \A c, d \in Class : c < d => Classes[c] < Classes[d]
ASSUME RequestAssumption ==
  Request \subseteq 1..(Word - 1) /\ Alignment \subseteq Nat \ {0}

VARIABLES
  last_ptr,      \* the end of the memory handed out so far
  next_page,     \* the size of the linear memory, in pages
  free_lists,    \* for each class, its freed blocks, the latest first
  bigchunks,     \* the table of freed big blocks
  blocks,        \* the blocks the contract holds, with their headers
  free_enabled,  \* whether free releases memory
  merging,       \* the state of the loop of add_to_bigchunk
  moving,        \* the realloc under way: at most one
  aborted        \* "check" or "trap" once the transaction has failed

vars == <<last_ptr, next_page, free_lists, bigchunks, blocks, free_enabled,
          merging, moving, aborted>>

NoChunk == [ptr |-> 0, capacity |-> 0]
NoMerge == [on |-> FALSE, i |-> 1, ptr |-> 0, cap |-> 0, idx |-> 1, least |-> 0]

(* A block starts at ptr with its header; id 0 marks the big ones.  req is *)
(* what the contract asked for.                                            *)
Block(ptr, sz, id, req) == [ptr |-> ptr, sz |-> sz, id |-> id, req |-> req]

Idle == moving = {} /\ ~merging.on /\ aborted = "no"

Init ==
  /\ last_ptr = HeapBase
  /\ next_page = InitPages
  /\ free_lists = [c \in Class |-> <<>>]
  /\ bigchunks = [i \in Slot |-> NoChunk]
  /\ blocks = {}
  /\ free_enabled = FALSE
  /\ merging = NoMerge
  /\ moving = {}
  /\ aborted = "no"

-----------------------------------------------------------------------------
(* Sizes.                                                                  *)

(* align, for amounts that are powers of two, and for the 0 that larger    *)
(* alignments are truncated to.                                            *)
align(x, amount) ==
  IF amount = 0 THEN 0 ELSE (x + amount - 1) - ((x + amount - 1) % amount)

Amount(a) == a % AlignWrap

(* Mutant: no room for the header.                                         *)
RoundedForgetsHeader(size, a) == align(size % Word, Amount(a)) % Word

(* The size with its header, aligned, in the arithmetic of size_t.         *)
Rounded(size, a) == align((size + Header) % Word, Amount(a)) % Word

(* find_small_mem_size finds class c, or none.                             *)
Small(c, sz) == sz <= Classes[c] /\ \A d \in 1..(c - 1) : Classes[d] < sz
Big(sz) == \A c \in Class : Classes[c] < sz

NewEnd(sz, a) == align(last_ptr + sz, Amount(a))

(* Mutant: the page the end of the block lies on is not counted.           *)
PagesForWhole(sz, a) == sz \div Page

PagesFor(sz, a) ==
  IF (next_page + sz \div Page) * Page <= NewEnd(sz, a)
  THEN sz \div Page + 1 ELSE sz \div Page

(* The node refuses to grow the memory beyond MaxPages.                    *)
Grows(sz, a) == next_page + PagesFor(sz, a) <= MaxPages

(* Mutant: any used slot will do.                                          *)
ChunkAnyCapacity(i, sz) == bigchunks[i].ptr # 0

ChunkHolds(i, sz) == bigchunks[i].ptr # 0 /\ bigchunks[i].capacity >= sz

-----------------------------------------------------------------------------
(* dsmalloc::operator(): where the block of size sz and class c (0 if big) *)
(* comes from.                                                             *)

Hand(ptr, sz, c, size) == blocks' = blocks \cup {Block(ptr, sz, c, size)}

FromList(c, sz, size) ==
  /\ c # 0 /\ free_lists[c] # <<>>
  /\ Hand(Head(free_lists[c]), sz, c, size)
  /\ free_lists' = [free_lists EXCEPT ![c] = Tail(@)]
  /\ UNCHANGED <<last_ptr, next_page, bigchunks, aborted>>

ListEmpty(c) == c # 0 => free_lists[c] = <<>>

FromTail(c, sz, size, a) ==
  /\ ListEmpty(c) /\ Grows(sz, a)
  /\ Hand(last_ptr, sz, c, size)
  /\ last_ptr' = NewEnd(sz, a)
  /\ next_page' = next_page + PagesFor(sz, a)
  /\ UNCHANGED <<free_lists, bigchunks, aborted>>

(* Mutant: the chunk shrinks at its end, the block is taken at its start.  *)
CutKeepsStart(i, sz) ==
  bigchunks' = [bigchunks EXCEPT ![i].capacity = @ - sz]

Cut(i, sz) ==
  bigchunks' = [bigchunks EXCEPT ![i] =
                  [ptr |-> @.ptr + sz, capacity |-> @.capacity - sz]]

(* alloc_from_bigchunk takes the first chunk that is large enough.         *)
FromChunk(c, sz, size, a) ==
  /\ ListEmpty(c) /\ ~Grows(sz, a)
  /\ \E i \in Slot :
       /\ ChunkHolds(i, sz) /\ \A j \in 1..(i - 1) : ~ChunkHolds(j, sz)
       /\ Hand(bigchunks[i].ptr, sz, c, size)
       /\ Cut(i, sz)
  /\ UNCHANGED <<last_ptr, next_page, free_lists, aborted>>

(* "failed to allocate pages"                                              *)
Refuse(c, sz, a) ==
  /\ ListEmpty(c) /\ ~Grows(sz, a)
  /\ \A i \in Slot : ~ChunkHolds(i, sz)
  /\ aborted' = "check"
  /\ UNCHANGED <<last_ptr, next_page, free_lists, bigchunks, blocks>>

Serve(c, sz, size, a) ==
  \/ FromList(c, sz, size) \/ FromTail(c, sz, size, a)
  \/ FromChunk(c, sz, size, a) \/ Refuse(c, sz, a)

Obtain(size, a) ==
  \/ \E c \in Class :
       Small(c, Rounded(size, a)) /\ Serve(c, Classes[c], size, a)
  \/ Big(Rounded(size, a)) /\ Serve(0, Rounded(size, a), size, a)

(* malloc, calloc and, with its alignment, posix_memalign.                 *)
malloc(size, a) ==
  /\ Idle
  /\ Obtain(size, a)
  /\ UNCHANGED <<free_enabled, merging, moving>>

-----------------------------------------------------------------------------
(* Releasing a block.                                                      *)

(* The call of add_to_bigchunk, up to its loop.                            *)
MergeBegin(ptr, capacity) ==
  merging' = [on |-> TRUE, i |-> 1, ptr |-> ptr, cap |-> capacity,
              idx |-> 1, least |-> bigchunks[1].capacity]

Release(b) ==
  /\ blocks' = blocks \ {b}
  /\ IF free_enabled /\ b.id # 0
     THEN free_lists' = [free_lists EXCEPT ![b.id] = <<b.ptr>> \o @]
     ELSE UNCHANGED free_lists
  /\ IF free_enabled /\ b.id = 0
     THEN MergeBegin(b.ptr, b.sz)
     ELSE UNCHANGED merging

(* free; a block given up while free is disabled is lost.                  *)
free(b) ==
  /\ Idle
  /\ Release(b)
  /\ UNCHANGED <<last_ptr, next_page, bigchunks, free_enabled, moving, aborted>>

(* Chunk i ends where the freed memory begins, or begins where it ends.    *)
TouchesRight(i) ==
  /\ bigchunks[i].ptr # 0
  /\ bigchunks[i].ptr + bigchunks[i].capacity = merging.ptr
TouchesLeft(i) ==
  /\ bigchunks[i].ptr # 0
  /\ merging.ptr + merging.cap = bigchunks[i].ptr

(* Mutant: chunks that follow the freed memory are not merged.             *)
TouchesOnOneSide(i) == TouchesRight(i)

Touches(i) == TouchesRight(i) \/ TouchesLeft(i)

(* One turn of the loop of add_to_bigchunk.                                *)
MergeStep ==
  LET i == merging.i
      remains == IF Touches(i) THEN 0 ELSE bigchunks[i].capacity
  IN
  /\ merging.on /\ i <= MaxChunks
  /\ bigchunks' = IF Touches(i) THEN [bigchunks EXCEPT ![i] = NoChunk]
                                ELSE bigchunks
  /\ merging' = [on |-> TRUE, i |-> i + 1,
       ptr |-> IF TouchesRight(i) THEN bigchunks[i].ptr ELSE merging.ptr,
       cap |-> merging.cap + bigchunks[i].capacity - remains,
       idx |-> IF remains < merging.least THEN i ELSE merging.idx,
       least |-> IF remains < merging.least THEN remains ELSE merging.least]
  /\ UNCHANGED <<last_ptr, next_page, free_lists, blocks, free_enabled, moving,
                 aborted>>

(* Mutant: the first slot is replaced, whatever the loop found.            *)
MergeReplacesFirst ==
  /\ merging.on /\ merging.i > MaxChunks
  /\ bigchunks' = IF merging.cap > merging.least
       THEN [bigchunks EXCEPT ![1] =
               [ptr |-> merging.ptr, capacity |-> merging.cap]]
       ELSE bigchunks
  /\ merging' = NoMerge
  /\ UNCHANGED <<last_ptr, next_page, free_lists, blocks, free_enabled, moving,
                 aborted>>

(* The end of add_to_bigchunk: the smallest slot is replaced.              *)
MergeFinish ==
  /\ merging.on /\ merging.i > MaxChunks
  /\ bigchunks' = IF merging.cap > merging.least
       THEN [bigchunks EXCEPT ![merging.idx] =
               [ptr |-> merging.ptr, capacity |-> merging.cap]]
       ELSE bigchunks
  /\ merging' = NoMerge
  /\ UNCHANGED <<last_ptr, next_page, free_lists, blocks, free_enabled, moving,
                 aborted>>

-----------------------------------------------------------------------------
(* realloc.                                                                *)

Roomy(b, size) == b.sz - Header >= size

ReallocInPlace(b, size) ==
  /\ Idle /\ Roomy(b, size)
  /\ blocks' = (blocks \ {b}) \cup {Block(b.ptr, b.sz, b.id, size)}
  /\ UNCHANGED <<last_ptr, next_page, free_lists, bigchunks, free_enabled,
                 merging, moving, aborted>>

ReallocObtain(b, size) ==
  /\ Idle /\ ~Roomy(b, size)
  /\ Obtain(size, 1)
  /\ moving' = IF aborted' = "no" THEN {[old |-> b, size |-> size]} ELSE {}
  /\ UNCHANGED <<free_enabled, merging>>

(* memmove, external, reads size units behind the old header; the read is  *)
(* a trap where the linear memory ends.                                    *)
InMemoryRead(m) == m.old.ptr + Header + m.size <= next_page * Page

ReallocCopy(m) ==
  /\ InMemoryRead(m)
  /\ Release(m.old)
  /\ moving' = {}
  /\ UNCHANGED <<last_ptr, next_page, bigchunks, free_enabled, aborted>>

ReallocTrap(m) ==
  /\ ~InMemoryRead(m)
  /\ aborted' = "trap"
  /\ moving' = {}
  /\ UNCHANGED <<last_ptr, next_page, free_lists, bigchunks, blocks,
                 free_enabled, merging>>

-----------------------------------------------------------------------------
eosio_malloc_enable_free ==
  /\ Idle
  /\ free_enabled' = TRUE
  /\ UNCHANGED <<last_ptr, next_page, free_lists, bigchunks, blocks, merging,
                 moving, aborted>>

eosio_malloc_disable_free ==
  /\ Idle
  /\ free_enabled' = FALSE
  /\ UNCHANGED <<last_ptr, next_page, free_lists, bigchunks, blocks, merging,
                 moving, aborted>>

Next ==
  \/ \E size \in Request, a \in Alignment : malloc(size, a)
  \/ \E b \in blocks : free(b)
  \/ \E b \in blocks, size \in Request :
       ReallocInPlace(b, size) \/ ReallocObtain(b, size)
  \/ \E m \in moving : ReallocCopy(m) \/ ReallocTrap(m)
  \/ MergeStep \/ MergeFinish
  \/ eosio_malloc_enable_free \/ eosio_malloc_disable_free

Spec == Init /\ [][Next]_vars

-----------------------------------------------------------------------------
(* Properties.                                                             *)

(* Type invariant.  A slot of the table is empty or holds heap memory, and *)
(* the loop of add_to_bigchunk never leaves the table                      *)
(* (big_memory_alloc.hpp:23-49).                                           *)
TypeOK ==
  /\ last_ptr \in Nat /\ next_page \in Nat
  /\ free_lists \in [Class -> Seq(Nat)]
  /\ bigchunks \in [Slot -> [ptr : Nat, capacity : Nat]]
  /\ \A b \in blocks :
       b \in [ptr : Nat, sz : Nat, id : Class \cup {0}, req : Nat]
  /\ free_enabled \in BOOLEAN
  /\ merging \in [on : BOOLEAN, i : 1..(MaxChunks + 1), ptr : Nat, cap : Nat,
                  idx : Slot, least : Nat]
  /\ \A m \in moving : m.old \in blocks /\ m.size \in Request
  /\ aborted \in {"no", "check", "trap"}

(* Two pieces of memory share no unit; an empty piece has none.            *)
Apart(p, sz, q, sz2) == sz = 0 \/ sz2 = 0 \/ p + sz <= q \/ q + sz2 <= p

BlocksApart ==
  \A b, d \in blocks : b # d => Apart(b.ptr, b.sz, d.ptr, d.sz)
FreedApart ==
  \A c, d \in Class : \A m \in DOMAIN free_lists[c], n \in DOMAIN free_lists[d] :
    c # d \/ m # n =>
      Apart(free_lists[c][m], Classes[c], free_lists[d][n], Classes[d])
ChunksApart ==
  \A i, j \in Slot :
    i # j /\ bigchunks[i].ptr # 0 /\ bigchunks[j].ptr # 0 =>
      Apart(bigchunks[i].ptr, bigchunks[i].capacity,
            bigchunks[j].ptr, bigchunks[j].capacity)
BlocksApartFromFreed ==
  \A b \in blocks : \A c \in Class : \A n \in DOMAIN free_lists[c] :
    Apart(b.ptr, b.sz, free_lists[c][n], Classes[c])
BlocksApartFromChunks ==
  \A b \in blocks, i \in Slot : bigchunks[i].ptr # 0 =>
    Apart(b.ptr, b.sz, bigchunks[i].ptr, bigchunks[i].capacity)
FreedApartFromChunks ==
  \A c \in Class, i \in Slot : \A n \in DOMAIN free_lists[c] :
    bigchunks[i].ptr # 0 =>
      Apart(free_lists[c][n], Classes[c],
            bigchunks[i].ptr, bigchunks[i].capacity)
HeldApart ==
  merging.on =>
    /\ \A b \in blocks : Apart(b.ptr, b.sz, merging.ptr, merging.cap)
    /\ \A c \in Class : \A n \in DOMAIN free_lists[c] :
         Apart(free_lists[c][n], Classes[c], merging.ptr, merging.cap)
    /\ \A i \in Slot : bigchunks[i].ptr # 0 =>
         Apart(bigchunks[i].ptr, bigchunks[i].capacity, merging.ptr, merging.cap)

(* Memory is never handed out twice: the blocks of the contract, the freed *)
(* blocks of every list, the chunks of the table and the memory being put  *)
(* into it do not overlap (simple_malloc.cpp:62-99).                       *)
NoOverlap ==
  /\ BlocksApart /\ FreedApart /\ ChunksApart
  /\ BlocksApartFromFreed /\ BlocksApartFromChunks /\ FreedApartFromChunks
  /\ HeldApart

InHeap(ptr, sz) == HeapBase <= ptr /\ ptr + sz <= last_ptr

(* All of it lies between the base of the heap and the end of what was     *)
(* handed out, and that within the pages the node granted                  *)
(* (simple_malloc.cpp:74-94).                                              *)
EverythingInHeap ==
  /\ HeapBase <= last_ptr
  /\ \A b \in blocks : InHeap(b.ptr, b.sz)
  /\ \A c \in Class : \A n \in DOMAIN free_lists[c] :
       InHeap(free_lists[c][n], Classes[c])
  /\ \A i \in Slot : bigchunks[i].ptr # 0 =>
       InHeap(bigchunks[i].ptr, bigchunks[i].capacity)
  /\ merging.on => InHeap(merging.ptr, merging.cap)
HeapInMemory == last_ptr <= next_page * Page /\ next_page <= MaxPages
InMemory == EverythingInHeap /\ HeapInMemory

(* A block holds its header and what was asked for, unless the request was *)
(* so large that adding the header and rounding wrapped around, wherever   *)
(* the block came from and through however many reallocs.  A small block   *)
(* has the size of its class, which the list it is freed to relies on, and *)
(* a big one is larger than all classes (simple_malloc.cpp:66-72, 139-154).*)
BlocksFit ==
  \A b \in blocks :
    /\ b.req + Header + AlignWrap <= Word => b.req + Header <= b.sz
    /\ IF b.id = 0 THEN Big(b.sz) ELSE b.sz = Classes[b.id]

(* Freed big blocks that touch are one chunk, so that the table can serve  *)
(* a request as large as the memory that is free in one piece, whatever    *)
(* the order of the frees and allocations (big_memory_alloc.hpp:26-39).    *)
ChunksAreMerged ==
  \A i, j \in Slot :
    i # j /\ bigchunks[i].ptr # 0 /\ bigchunks[j].ptr # 0 =>
      bigchunks[i].ptr + bigchunks[i].capacity # bigchunks[j].ptr

Units(ptr, sz) == ptr..(ptr + sz - 1)
Owned ==
  UNION ({Units(b.ptr, b.sz) : b \in blocks}
    \cup (UNION {{Units(free_lists[c][n], Classes[c]) :
                    n \in DOMAIN free_lists[c]} : c \in Class})
    \cup {Units(bigchunks[i].ptr, bigchunks[i].capacity) : i \in Slot}
    \cup {Units(merging.ptr, merging.cap)})

(* While free is enabled memory is given up only when the table of chunks  *)
(* is full, and then no more of it than the smallest piece: every chunk    *)
(* kept is at least as long (big_memory_alloc.hpp:40-48).                  *)
OnlyTheSmallestIsDropped ==
  [][LET lost == Owned \ Owned' IN
     free_enabled /\ lost # {} =>
       \A i \in Slot : Cardinality(lost) <= bigchunks'[i].capacity]_vars

(* The comment in realloc says reading behind the old block is harmless.   *)
ReallocReadsAreHarmless == aborted # "trap"
=============================================================================
