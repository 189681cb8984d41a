---------------------------- MODULE MemoryManager ----------------------------
(***************************************************************************)
(* eosio::memory_manager (malloc.cpp), the allocator that simple_malloc    *)
(* replaced and that no target builds any more: heaps filled from the      *)
(* front, with a header in front of every block, whose freed blocks are    *)
(* merged and handed out again once no memory can be had from sbrk.        *)
(*                                                                         *)
(* Addresses and sizes count units of four bytes, the size of a header; a  *)
(* block with its header takes a multiple of two.  A call of malloc or     *)
(* realloc takes a step per heap, per block looked at and per block        *)
(* merged.  Sizes that do not fit 31 bits are left out.                    *)
(***************************************************************************)
EXTENDS Integers, FiniteSets

CONSTANTS
  InitialHeap,  \* the address of _initial_heap, not 0 and in the first page
  InitialSize,  \* its size
  Page,         \* the size of a page
  Reserve,      \* the 1024 bytes that the end of a page should have left
  MaxPages,     \* the pages that the node lets the memory have
  MaxHeaps,     \* _heaps_size, the slots of _available_heaps
  Request,      \* the sizes the contract asks for
  SbrkSize,     \* the amounts by which it calls sbrk itself
  MaxHeld,      \* bound: the blocks the contract holds
  MaxCalls      \* bound: the calls that change the heaps

VARIABLES
  heaps,    \* _available_heaps: start, size and offset of each
  header,   \* the headers written, by their addresses; memory is 0 elsewhere
  cursor,   \* _heaps_actual_size, _active_heap and _active_free_heap
  brk,      \* sbrk_bytes
  wide,     \* whether a pointer of -1 is -1 as an int64_t too
  held,     \* the blocks of the contract, <<pointer, size>>
  job,      \* the call under way
  refused,  \* the size of the last request refused, or 0
  status,   \* "ok", or why the transaction is over
  calls

vars == <<heaps, header, cursor, brk, wide, held, job, refused, status, calls>>

Slot == 0..(MaxHeaps - 1)
Null == 0

(* The request, and the block it replaces; the locals current,             *)
(* possible_size and end_free_heap.                                        *)
Idle ==
  [stage |-> "idle", size |-> 0, request |-> 0, clear |-> FALSE, given |-> {},
   current |-> Null, possible |-> 0, last |-> 0]

Init ==
  /\ heaps = [i \in Slot |-> [start |-> 0, size |-> 0, offset |-> 0]]
  /\ header = <<>>
  /\ cursor = [actual |-> 0, active |-> 0, free |-> 0]
  /\ brk = Page
  /\ wide \in BOOLEAN
  /\ held = {} /\ job = Idle /\ refused = 0 /\ status = "ok" /\ calls = 0

(* The transaction is over.                                                *)
Stop(why) ==
  /\ status' = why
  /\ UNCHANGED <<heaps, header, cursor, brk, wide, held, job, refused, calls>>

-----------------------------------------------------------------------------
(* buffer_ptr: the block at ptr, whose header is just before it.           *)

Header(ptr) ==
  IF ptr - 1 \in DOMAIN header THEN header[ptr - 1] ELSE [size |-> 0, alloc |-> FALSE]

End(ptr) == ptr + Header(ptr).size

WithHeader(h, ptr, size, alloc) ==
  [a \in DOMAIN h \cup {ptr - 1} |->
     IF a = ptr - 1 THEN [size |-> size, alloc |-> alloc] ELSE h[a]]

Freed(h, blocks) ==
  [a \in DOMAIN h |->
     IF \E block \in blocks : block[1] - 1 = a THEN [h[a] EXCEPT !.alloc = FALSE] ELSE h[a]]

(* Mutant: the remainder keeps the room that its header takes.             *)
RemainderWithHeader(possible, needed) == possible - needed

Remainder(possible, needed) == possible - needed - 1

(* What the loop of merge_contiguous found is made one block, and one more *)
(* of what is too much.                                                    *)
Combined(ptr, possible, needed) ==
  IF possible < needed THEN WithHeader(header, ptr, possible, FALSE)
  ELSE LET sized == WithHeader(header, ptr, needed, TRUE)
       IN IF possible = needed THEN sized
          ELSE WithHeader(sized, ptr + needed + 1, Remainder(possible, needed), FALSE)

-----------------------------------------------------------------------------
(* memory: one heap.                                                       *)

EndOf(i) == heaps[i].start + heaps[i].size
Frontier(i) == heaps[i].start + heaps[i].offset
is_init(i) == heaps[i].start # 0
is_in_heap(i, ptr) == ptr > heaps[i].start /\ ptr < EndOf(i)
HeapOf(ptr) == CHOOSE i \in Slot : is_in_heap(i, ptr)

(* What is left of a heap is given up as a free block.                     *)
Completed(i) == [heaps EXCEPT ![i].offset = heaps[i].size]
cleanup_remaining(i) ==
  IF heaps[i].offset = heaps[i].size THEN header
  ELSE WithHeader(header, Frontier(i) + 1, heaps[i].size - heaps[i].offset - 1, FALSE)

-----------------------------------------------------------------------------
(* sbrk: to the end of the page, or of the next if little is left of it:   *)
(* it is the end of this one after all where the page has an odd number.   *)
heap_adj ==
  IF brk % Page <= Page - Reserve THEN Page - (brk % Page)
  ELSE 2 * Page - (brk % (2 * Page))

RoundUp(n) == 2 * ((n + 1) \div 2)
CanGrow(bytes) == brk + bytes <= MaxPages * Page

-----------------------------------------------------------------------------
(* memory_manager::malloc: heap by heap, until one has room.               *)

adjust_to_mem_block(size) == IF (size + 1) % 2 = 0 THEN size ELSE size + 1

(* The first call starts the first heap.                                   *)
Enter(size, request, clear, given) ==
  LET actual == IF cursor.actual = 0 THEN MaxHeaps ELSE cursor.actual
  IN /\ cursor' = [cursor EXCEPT !.actual = actual]
     /\ heaps' = IF cursor.active = 0 /\ ~is_init(0)
                 THEN [heaps EXCEPT ![0].start = InitialHeap, ![0].size = InitialSize]
                 ELSE heaps
     /\ job' = [Idle EXCEPT
                  !.stage = IF cursor.active < actual THEN "heaps" ELSE "search",
                  !.size = adjust_to_mem_block(size), !.request = request,
                  !.clear = clear, !.given = given, !.last = cursor.free]
     /\ UNCHANGED <<header, brk, wide, held, status>>

(* The pointer is returned; realloc has copied, and frees its block.       *)
Return(ptr, h) ==
  /\ header' = Freed(h, job.given)
  /\ held' = (held \ job.given) \cup {<<ptr, job.request>>}
  /\ job' = Idle
  /\ UNCHANGED <<wide, refused, calls>>

HasRoom(i) == heaps[i].offset + job.size + 1 <= heaps[i].size

TakeFromHeap ==
  LET i == cursor.active
  IN /\ job.stage = "heaps" /\ HasRoom(i)
     /\ Return(Frontier(i) + 1, WithHeader(header, Frontier(i) + 1, job.size, TRUE))
     /\ heaps' = [heaps EXCEPT ![i].offset = @ + job.size + 1]
     /\ UNCHANGED <<cursor, brk, status>>

(* next_active_heap.  A failure that is not noticed makes the next write   *)
(* trap, and a heap too many is written over the members behind the table. *)
NoMemory ==
  LET i == cursor.active
  IN /\ job.stage = "heaps" /\ ~HasRoom(i) /\ ~CanGrow(heap_adj)
     /\ IF ~wide THEN Stop("trap")
        ELSE /\ heaps' = Completed(i) /\ header' = cleanup_remaining(i)
             /\ cursor' = [cursor EXCEPT !.active = i + 1, !.actual = i + 1]
             /\ job' = [job EXCEPT !.stage = "search"]
             /\ UNCHANGED <<brk, wide, held, refused, status, calls>>

expand_memory ==
  LET i == cursor.active
  IN /\ job.stage = "heaps" /\ ~HasRoom(i) /\ CanGrow(heap_adj) /\ EndOf(i) = brk
     /\ heaps' = [heaps EXCEPT ![i].size = @ + heap_adj]
     /\ brk' = brk + heap_adj
     /\ UNCHANGED <<header, cursor, wide, held, job, refused, status, calls>>

NextHeap ==
  LET i == cursor.active
  IN /\ job.stage = "heaps" /\ ~HasRoom(i) /\ CanGrow(heap_adj) /\ EndOf(i) # brk
     /\ IF i + 1 = MaxHeaps THEN Stop("trap")
        ELSE /\ heaps' = [Completed(i) EXCEPT ![i + 1].start = brk, ![i + 1].size = heap_adj]
             /\ header' = cleanup_remaining(i)
             /\ cursor' = [cursor EXCEPT !.active = i + 1]
             /\ brk' = brk + heap_adj
             /\ UNCHANGED <<wide, held, job, refused, status, calls>>

-----------------------------------------------------------------------------
(* malloc_from_freed, of one heap after another.                           *)

SearchHeap ==
  LET i == cursor.free
  IN /\ job.stage = "search"
     /\ IF heaps[i].offset # heaps[i].size THEN Stop("check")
        ELSE /\ job' = [job EXCEPT !.stage = "freed", !.current = heaps[i].start + 1]
             /\ UNCHANGED <<heaps, header, cursor, brk, wide, held, refused, status, calls>>

(* To the block at next, or to the next heap.  calloc clears the memory    *)
(* even if there is none, then that at 0: behaviours end there too.        *)
GoOn(next) ==
  LET moved == IF cursor.free + 1 = cursor.actual THEN 0 ELSE cursor.free + 1
  IN IF next < EndOf(cursor.free)
     THEN /\ job' = [job EXCEPT !.stage = "freed", !.current = next]
          /\ UNCHANGED <<cursor, refused, status>>
     ELSE /\ cursor' = [cursor EXCEPT !.free = moved]
          /\ IF moved # job.last
             THEN job' = [job EXCEPT !.stage = "search"] /\ UNCHANGED <<refused, status>>
             ELSE /\ job' = Idle /\ refused' = job.size
                  /\ status' = IF job.clear THEN "cleared" ELSE "ok"

SkipAllocated ==
  /\ job.stage = "freed" /\ Header(job.current).alloc
  /\ GoOn(End(job.current) + 1)
  /\ UNCHANGED <<heaps, header, brk, wide, held, calls>>

MeetFreed ==
  /\ job.stage = "freed" /\ ~Header(job.current).alloc
  /\ job' = [job EXCEPT !.stage = "merge", !.possible = Header(job.current).size]
  /\ UNCHANGED <<heaps, header, cursor, brk, wide, held, refused, status, calls>>

-----------------------------------------------------------------------------
(* merge_contiguous: one free block after another behind job.current.      *)

Merging == job.stage \in {"merge", "resize"}
Reach == job.current + job.possible
JobHeap == IF job.stage = "merge" THEN cursor.free ELSE HeapOf(job.current)

MoreToMerge ==
  job.possible < job.size /\ Reach < EndOf(JobHeap) /\ ~Header(Reach + 1).alloc

Merge ==
  /\ Merging /\ MoreToMerge
  /\ job' = [job EXCEPT !.possible = @ + Header(Reach + 1).size + 1]
  /\ UNCHANGED <<heaps, header, cursor, brk, wide, held, refused, status, calls>>

MergeEnds(stage) == job.stage = stage /\ ~MoreToMerge

TakeFreed ==
  /\ MergeEnds("merge") /\ job.possible >= job.size
  /\ Return(job.current, Combined(job.current, job.possible, job.size))
  /\ UNCHANGED <<heaps, cursor, brk, status>>

TooSmall ==
  /\ MergeEnds("merge") /\ job.possible < job.size
  /\ header' = Combined(job.current, job.possible, job.size)
  /\ GoOn(Reach + 1)
  /\ UNCHANGED <<heaps, brk, wide, held, calls>>

(* Behaviours end where a block grew beyond what its heap has handed out,  *)
(* over headers that were never written: the next block of the heap will   *)
(* overlap it.                                                             *)
Resized ==
  /\ MergeEnds("resize") /\ job.possible >= job.size
  /\ header' = Combined(job.current, job.possible, job.size)
  /\ held' = (held \ job.given) \cup {<<job.current, job.request>>}
  /\ status' = IF job.current + job.size > Frontier(JobHeap) THEN "overrun" ELSE "ok"
  /\ job' = Idle
  /\ UNCHANGED <<heaps, cursor, brk, wide, refused, calls>>

(* All or nothing: realloc goes on with malloc.                            *)
NotResized ==
  /\ MergeEnds("resize") /\ job.possible < job.size
  /\ Enter(job.size, job.request, FALSE, job.given)
  /\ UNCHANGED <<refused, calls>>

-----------------------------------------------------------------------------
(* The calls.                                                              *)

Call == job = Idle /\ calls < MaxCalls /\ calls' = calls + 1 /\ refused' = 0

malloc(size, clear) ==
  /\ Call
  /\ IF size # 0 THEN Enter(size, size, clear, {})
     ELSE UNCHANGED <<heaps, header, cursor, brk, wide, held, job, status>>

free(block) ==
  /\ Call /\ block \in held
  /\ header' = Freed(header, {block})
  /\ held' = held \ {block}
  /\ UNCHANGED <<heaps, cursor, brk, wide, job, status>>

(* A block that shrinks keeps its size, and a header for the excess is     *)
(* written inside it; the last block of the heap grows at its end; another *)
(* one grows over the free blocks behind it, or not at all.                *)
realloc(block, size) ==
  LET ptr == block[1]
      i == HeapOf(ptr)
      needed == adjust_to_mem_block(size)
      orig == Header(ptr).size
  IN /\ Call /\ block \in held /\ size # 0
     /\ IF End(ptr) > EndOf(i) \/ ptr > EndOf(i) - needed THEN Enter(size, size, FALSE, {block})
        ELSE IF orig < needed /\ End(ptr) # Frontier(i)
        THEN /\ job' = [Idle EXCEPT !.stage = "resize", !.size = needed, !.request = size,
                          !.given = {block}, !.current = ptr, !.possible = orig]
             /\ UNCHANGED <<heaps, header, cursor, brk, wide, held, status>>
        ELSE /\ header' = IF orig > needed
                          THEN WithHeader(header, ptr + needed + 1, orig - needed, FALSE)
                          ELSE WithHeader(header, ptr, needed, TRUE)
             /\ heaps' = IF orig > needed THEN heaps
                         ELSE [heaps EXCEPT ![i].offset = @ + needed - orig]
             /\ held' = (held \ {block}) \cup {<<ptr, size>>}
             /\ UNCHANGED <<cursor, brk, wide, job, status>>

sbrk(n) ==
  /\ job = Idle /\ calls < MaxCalls /\ calls' = calls + 1
  /\ CanGrow(RoundUp(n)) /\ brk' = brk + RoundUp(n)
  /\ UNCHANGED <<heaps, header, cursor, wide, held, job, refused, status>>

Turn ==
  \/ TakeFromHeap \/ NoMemory \/ expand_memory \/ NextHeap
  \/ SearchHeap \/ SkipAllocated \/ MeetFreed
  \/ Merge \/ TakeFreed \/ TooSmall \/ Resized \/ NotResized

Next ==
  /\ status = "ok"
  /\ \/ Turn
     \/ \E size \in Request, clear \in BOOLEAN :
          Cardinality(held) < MaxHeld /\ malloc(size, clear)
     \/ \E block \in held : free(block) \/ \E size \in Request : realloc(block, size)
     \/ \E n \in SbrkSize : sbrk(n)

Spec == Init /\ [][Next]_vars

-----------------------------------------------------------------------------
(* The blocks of a heap, as its headers lead through it.                   *)
Blocks(i) ==
  LET begins[ptr \in 0..Frontier(i)] ==
        \/ ptr = heaps[i].start + 1
        \/ \E before \in (heaps[i].start + 1)..(ptr - 1) :
             End(before) + 1 = ptr /\ begins[before]
  IN {ptr \in (heaps[i].start + 1)..Frontier(i) : begins[ptr]}

(* The headers lead from the start of a heap exactly to what it has handed *)
(* out: its blocks fill it, and none overlap.                              *)
HeapIsFilled(i) ==
  LET blocks == Blocks(i) IN
  /\ heaps[i].offset <= heaps[i].size
  /\ heaps[i].offset # 0 => \E ptr \in blocks : End(ptr) = Frontier(i)
  /\ \A ptr \in blocks : End(ptr) <= Frontier(i)
  /\ \A ptr, other \in blocks : ptr < other => End(ptr) < other

(* The blocks in use are those of the contract, each as large as it asked  *)
(* for.                                                                    *)
HeldAreInUse ==
  /\ {ptr \in UNION {Blocks(i) : i \in Slot} : Header(ptr).alloc} = {block[1] : block \in held}
  /\ \A block \in held : block[2] <= Header(block[1]).size
  /\ \A block, other \in held : block[1] = other[1] => block = other

(* Memory is refused only if no free blocks side by side are large enough. *)
RefusedForAReason ==
  refused # 0 =>
    \A i \in Slot :
      LET blocks == Blocks(i) IN
      \A ptr, last \in blocks :
        \/ last < ptr \/ End(last) - ptr < refused
        \/ \E other \in blocks : ptr <= other /\ other <= last /\ Header(other).alloc

(* Through mallocs, frees, reallocs in place and elsewhere, heaps that     *)
(* grow or begin anew beyond memory that somebody else took from sbrk, and *)
(* the reuse of freed blocks: heaps can be walked from header to header,   *)
(* no blocks overlap and none is lost, the assertion of malloc_from_freed  *)
(* holds, and memory is refused for a reason (malloc.cpp:50-520).          *)
HeapsAreTiled ==
  /\ status # "check"
  /\ status = "ok" =>
       (\A i \in Slot : HeapIsFilled(i)) /\ HeldAreInUse /\ RefusedForAReason
=============================================================================
