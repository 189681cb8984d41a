-------------------------- MODULE SimpleMallocProofs --------------------------
(***************************************************************************)
(* Proofs that the allocator never hands out memory twice, for every heap, *)
(* page size, set of classes, size of the table and set of requests; that  *)
(* blocks are as large as was asked, that the heap stays within the pages  *)
(* that were granted, that the table holds no two chunks that touch, and   *)
(* that no memory is given up but the smallest piece when it is full.      *)
(***************************************************************************)
EXTENDS SimpleMalloc, FiniteSetTheorems, TLAPS

(* No alignment is a multiple of what its uint8_t holds, so that none is   *)
(* truncated to 0.                                                         *)
AlignmentsFit == AlignWrap > 1 /\ \A a \in Alignment : Amount(a) # 0

-----------------------------------------------------------------------------
(* The arithmetic of sizes.                                                *)

(* align rounds up.                                                        *)
LEMMA AlignUp ==
  ASSUME NEW x \in Nat, NEW amount \in Nat \ {0}
  PROVE  align(x, amount) \in Nat /\ x <= align(x, amount)
BY DEF align

(* The size of a block is a natural number.                                *)
LEMMA RoundedNat ==
  ASSUME NEW size \in Nat, NEW a \in Nat, Amount(a) # 0
  PROVE  Amount(a) \in Nat \ {0} /\ Rounded(size, a) \in Nat
<1>1. Amount(a) \in Nat \ {0}
  BY SizesAssumption DEF Amount
<1>2. Word \in Nat \ {0}
  BY SizesAssumption
<1>3. (size + Header) % Word \in Nat
  BY <1>2 DEF Header
<1>4. align((size + Header) % Word, Amount(a)) \in Nat
  BY <1>1, <1>3, AlignUp
<1> QED
  BY <1>1, <1>2, <1>4 DEF Rounded

(* A block cut from the end of the heap lies before its new end.           *)
LEMMA NewEndBeyond ==
  ASSUME last_ptr \in Nat, next_page \in Nat, NEW sz \in Nat, NEW a \in Nat,
         Amount(a) \in Nat \ {0}
  PROVE  NewEnd(sz, a) \in Nat /\ last_ptr + sz <= NewEnd(sz, a)
BY AlignUp DEF NewEnd

LEMMA PagesForNat ==
  ASSUME NEW sz \in Nat, NEW a \in Nat
  PROVE  PagesFor(sz, a) \in Nat
<1>1. sz \div Page \in Nat
  BY SizesAssumption
<1> QED
  BY <1>1 DEF PagesFor

-----------------------------------------------------------------------------
(* The free lists.                                                         *)

LEMMA Pop ==
  ASSUME NEW s \in Seq(Nat), s # <<>>
  PROVE  /\ Head(s) \in Nat /\ Tail(s) \in Seq(Nat)
         /\ 1 \in DOMAIN s /\ Head(s) = s[1]
         /\ \A n \in DOMAIN Tail(s) :
              n \in Nat /\ n + 1 \in DOMAIN s /\ n + 1 # 1 /\ Tail(s)[n] = s[n + 1]
OBVIOUS

LEMMA Push ==
  ASSUME NEW s \in Seq(Nat), NEW p \in Nat
  PROVE  /\ <<p>> \o s \in Seq(Nat)
         /\ \A n \in DOMAIN (<<p>> \o s) :
              \/ n = 1 /\ (<<p>> \o s)[n] = p
              \/ n \in Nat /\ n # 1 /\ n - 1 \in DOMAIN s /\ (<<p>> \o s)[n] = s[n - 1]
OBVIOUS

-----------------------------------------------------------------------------
(* The inductive invariant.                                                *)

Typed ==
  /\ last_ptr \in Nat /\ next_page \in Nat
  /\ free_lists \in [Class -> Seq(Nat)]
  /\ bigchunks \in [Slot -> [ptr : Nat, capacity : Nat]]
  /\ \A b \in blocks :
       b \in [ptr : Nat, sz : Nat, id : Class \cup {0}, req : Nat]
  /\ free_enabled \in BOOLEAN
  /\ merging \in [on : BOOLEAN, i : 1..(MaxChunks + 1), ptr : Nat, cap : Nat,
                  idx : Slot, least : Nat]
  /\ aborted \in {"no", "check", "trap"}

MovingHeld == \A m \in moving : m.old \in blocks /\ m.size \in Request

(* A freed block goes to the list of its own size.                         *)
SmallShape == \A b \in blocks : b.id # 0 => b.sz = Classes[b.id]

Safe == Typed /\ SmallShape /\ NoOverlap /\ EverythingInHeap
IInv == Safe /\ MovingHeld

LEMMA ClassSizes == \A c \in Class : Classes[c] \in Nat \ {0}
BY ClassesAssumption DEF Class

LEMMA InitSafe == Init => IInv
<1> SUFFICES ASSUME Init PROVE IInv
  OBVIOUS
<1> USE DEF Init
<1>1. Typed
  <2>1. free_lists \in [Class -> Seq(Nat)]
    <3>1. <<>> \in Seq(Nat)
      OBVIOUS
    <3> QED
      BY <3>1
  <2>2. bigchunks \in [Slot -> [ptr : Nat, capacity : Nat]]
    BY DEF NoChunk
  <2>3. merging \in [on : BOOLEAN, i : 1..(MaxChunks + 1), ptr : Nat, cap : Nat,
                     idx : Slot, least : Nat]
    BY SizesAssumption DEF NoMerge, Slot
  <2> QED
    BY <2>1, <2>2, <2>3, SizesAssumption DEF Typed
<1>2. SmallShape /\ MovingHeld
  BY DEF SmallShape, MovingHeld
<1>3. \A c \in Class : DOMAIN free_lists[c] = {}
  OBVIOUS
<1>4. \A i \in Slot : bigchunks[i].ptr = 0
  BY DEF NoChunk
<1>5. NoOverlap
  BY <1>3, <1>4 DEF NoOverlap, BlocksApart, FreedApart, ChunksApart,
     BlocksApartFromFreed, BlocksApartFromChunks, FreedApartFromChunks,
     HeldApart, NoMerge
<1>6. EverythingInHeap
  BY <1>3, <1>4, SizesAssumption DEF EverythingInHeap, NoMerge
<1> QED
  BY <1>1, <1>2, <1>5, <1>6 DEF IInv, Safe

-----------------------------------------------------------------------------
(* Handing out a block.                                                    *)

(* The head of a list was freed with the size of its class and is apart    *)
(* from the rest.                                                          *)
LEMMA FromListSafe ==
  ASSUME Safe, ~merging.on, NEW c \in Class, NEW size \in Nat,
         FromList(c, Classes[c], size), UNCHANGED <<free_enabled, merging>>
  PROVE  Safe'
<1> DEFINE p == Head(free_lists[c])
<1> DEFINE old(d, n) == IF d = c THEN n + 1 ELSE n
<1>1. /\ last_ptr' = last_ptr /\ bigchunks' = bigchunks
      /\ next_page' = next_page /\ aborted' = aborted
      /\ blocks' = blocks \cup {Block(p, Classes[c], c, size)}
      /\ free_lists' = [free_lists EXCEPT ![c] = Tail(free_lists[c])]
      /\ free_lists[c] # <<>> /\ free_lists[c] \in Seq(Nat)
  BY DEF FromList, Hand, Safe, Typed
<1>2. p \in Nat /\ 1 \in DOMAIN free_lists[c] /\ p = free_lists[c][1]
  BY <1>1, Pop
<1>3. \A d \in Class : \A n \in DOMAIN free_lists'[d] :
        /\ n \in Nat /\ old(d, n) \in DOMAIN free_lists[d]
        /\ free_lists'[d][n] = free_lists[d][old(d, n)]
        /\ d = c => old(d, n) # 1
  <2> TAKE d \in Class
  <2> TAKE n \in DOMAIN free_lists'[d]
  <2>1. CASE d = c
    <3>1. free_lists'[d] = Tail(free_lists[c])
      BY <1>1, <2>1 DEF Safe, Typed
    <3> QED
      BY <1>1, <2>1, <3>1, Pop
  <2>2. CASE d # c
    <3>1. free_lists'[d] = free_lists[d] /\ free_lists[d] \in Seq(Nat)
      BY <1>1, <2>2 DEF Safe, Typed
    <3> QED
      BY <2>2, <3>1
  <2> QED
    BY <2>1, <2>2
<1>4. Classes[c] \in Nat
  BY ClassSizes
<1>5. Typed'
  <2>1. free_lists' \in [Class -> Seq(Nat)]
    BY <1>1, Pop DEF Safe, Typed
  <2>2. \A b \in blocks' :
          b \in [ptr : Nat, sz : Nat, id : Class \cup {0}, req : Nat]
    BY <1>1, <1>2, <1>4 DEF Safe, Typed, Block
  <2> QED
    BY <1>1, <2>1, <2>2 DEF Safe, Typed
<1>6. SmallShape'
  BY <1>1 DEF Safe, SmallShape, Block
<1>7. BlocksApart'
  BY <1>1, <1>2 DEF Safe, NoOverlap, BlocksApart, BlocksApartFromFreed, Apart, Block
<1>8. FreedApart'
  <2> SUFFICES ASSUME NEW d \in Class, NEW e \in Class,
                      NEW m \in DOMAIN free_lists'[d],
                      NEW n \in DOMAIN free_lists'[e], d # e \/ m # n
               PROVE  Apart(free_lists'[d][m], Classes[d],
                            free_lists'[e][n], Classes[e])
    BY DEF FreedApart
  <2>1. d # e \/ old(d, m) # old(e, n)
    BY <1>3
  <2>2. Apart(free_lists[d][old(d, m)], Classes[d],
              free_lists[e][old(e, n)], Classes[e])
    BY <1>3, <2>1 DEF Safe, NoOverlap, FreedApart
  <2> QED
    BY <1>3, <2>2
<1>9. BlocksApartFromFreed'
  <2> SUFFICES ASSUME NEW b \in blocks', NEW d \in Class,
                      NEW n \in DOMAIN free_lists'[d]
               PROVE  Apart(b.ptr, b.sz, free_lists'[d][n], Classes[d])
    BY DEF BlocksApartFromFreed
  <2>1. CASE b \in blocks
    BY <1>3, <2>1 DEF Safe, NoOverlap, BlocksApartFromFreed
  <2>2. CASE b = Block(p, Classes[c], c, size)
    <3>1. Apart(free_lists[c][1], Classes[c], free_lists[d][old(d, n)], Classes[d])
      BY <1>2, <1>3 DEF Safe, NoOverlap, FreedApart
    <3> QED
      BY <1>2, <1>3, <2>2, <3>1 DEF Block
  <2> QED
    BY <1>1, <2>1, <2>2
<1>10. BlocksApartFromChunks'
  BY <1>1, <1>2 DEF Safe, NoOverlap, BlocksApartFromChunks, FreedApartFromChunks, Block
<1>11. FreedApartFromChunks'
  BY <1>1, <1>3 DEF Safe, NoOverlap, FreedApartFromChunks
<1>12. ChunksApart' /\ HeldApart'
  BY <1>1 DEF Safe, NoOverlap, ChunksApart, HeldApart
<1>13. EverythingInHeap'
  <2>1. \A b \in blocks' : InHeap(b.ptr, b.sz)'
    BY <1>1, <1>2 DEF Safe, EverythingInHeap, InHeap, Block
  <2>2. \A d \in Class : \A n \in DOMAIN free_lists'[d] :
          InHeap(free_lists[d][n], Classes[d])'
    BY <1>1, <1>3 DEF Safe, EverythingInHeap, InHeap
  <2> QED
    BY <1>1, <2>1, <2>2 DEF Safe, EverythingInHeap, InHeap
<1> QED
  BY <1>5, <1>6, <1>7, <1>8, <1>9, <1>10, <1>11, <1>12, <1>13 DEF Safe, NoOverlap


(* The end of the heap is behind everything.                               *)
LEMMA FromTailSafe ==
  ASSUME Safe, ~merging.on, NEW c \in Class \cup {0}, NEW sz \in Nat,
         c # 0 => sz = Classes[c], NEW size \in Nat, NEW a \in Nat,
         Amount(a) \in Nat \ {0},
         FromTail(c, sz, size, a), UNCHANGED <<free_enabled, merging>>
  PROVE  Safe'
<1>1. /\ free_lists' = free_lists /\ bigchunks' = bigchunks
      /\ aborted' = aborted
      /\ next_page' = next_page + PagesFor(sz, a)
      /\ last_ptr' = NewEnd(sz, a)
      /\ blocks' = blocks \cup {Block(last_ptr, sz, c, size)}
  BY DEF FromTail, Hand
<1>2. last_ptr \in Nat /\ last_ptr' \in Nat /\ last_ptr + sz <= last_ptr'
  BY <1>1, NewEndBeyond DEF Safe, Typed
<1>3. Typed'
  <2>1. next_page' \in Nat
    <3>1. PagesFor(sz, a) \in Nat /\ next_page \in Nat
      BY PagesForNat DEF Safe, Typed
    <3> QED
      BY <1>1, <3>1
  <2>2. \A b \in blocks' :
          b \in [ptr : Nat, sz : Nat, id : Class \cup {0}, req : Nat]
    BY <1>1, <1>2 DEF Safe, Typed, Block
  <2> QED
    BY <1>1, <1>2, <2>1, <2>2 DEF Safe, Typed
<1>4. SmallShape'
  BY <1>1 DEF Safe, SmallShape, Block
<1>5. BlocksApart'
  <2>1. \A b \in blocks : b.ptr \in Nat /\ b.sz \in Nat /\ b.ptr + b.sz <= last_ptr
    BY DEF Safe, Typed, EverythingInHeap, InHeap
  <2> QED
    BY <1>1, <1>2, <2>1 DEF Safe, NoOverlap, BlocksApart, Apart, Block
<1>6. BlocksApartFromFreed'
  <2>1. \A d \in Class : \A n \in DOMAIN free_lists[d] :
          free_lists[d][n] + Classes[d] <= last_ptr
    BY DEF Safe, EverythingInHeap, InHeap
  <2> QED
    BY <1>1, <2>1 DEF Safe, NoOverlap, BlocksApartFromFreed, Apart, Block
<1>7. BlocksApartFromChunks'
  <2>1. \A i \in Slot : bigchunks[i].ptr # 0 =>
          bigchunks[i].ptr + bigchunks[i].capacity <= last_ptr
    BY DEF Safe, EverythingInHeap, InHeap
  <2> QED
    BY <1>1, <2>1 DEF Safe, NoOverlap, BlocksApartFromChunks, Apart, Block
<1>8. FreedApart' /\ ChunksApart' /\ FreedApartFromChunks' /\ HeldApart'
  BY <1>1 DEF Safe, NoOverlap, FreedApart, ChunksApart, FreedApartFromChunks, HeldApart
<1>9. EverythingInHeap'
  <2> DEFINE Below(q, n) == HeapBase <= q /\ q + n <= last_ptr
  <2>1. \A q, n \in Nat : Below(q, n) => InHeap(q, n)'
    BY <1>2, SizesAssumption DEF InHeap
  <2>2. \A b \in blocks' : InHeap(b.ptr, b.sz)'
    <3> TAKE b \in blocks'
    <3>1. CASE b \in blocks
      <4>1. b.ptr \in Nat /\ b.sz \in Nat /\ InHeap(b.ptr, b.sz)
        BY <3>1 DEF Safe, Typed, EverythingInHeap
      <4> QED
        BY <2>1, <4>1 DEF InHeap
    <3>2. CASE b = Block(last_ptr, sz, c, size)
      <4>1. HeapBase <= last_ptr
        BY DEF Safe, EverythingInHeap
      <4> QED
        BY <1>2, <3>2, <4>1 DEF InHeap, Block
    <3> QED
      BY <1>1, <3>1, <3>2
  <2>3. \A d \in Class : \A n \in DOMAIN free_lists'[d] :
          InHeap(free_lists[d][n], Classes[d])'
    <3> TAKE d \in Class
    <3> TAKE n \in DOMAIN free_lists'[d]
    <3>1. free_lists[d][n] \in Nat /\ Classes[d] \in Nat
      BY <1>1, ClassSizes DEF Safe, Typed
    <3> QED
      BY <1>1, <2>1, <3>1 DEF Safe, EverythingInHeap, InHeap
  <2>4. \A i \in Slot : bigchunks'[i].ptr # 0 =>
          InHeap(bigchunks[i].ptr, bigchunks[i].capacity)'
    BY <1>1, <2>1 DEF Safe, Typed, EverythingInHeap, InHeap
  <2> QED
    BY <1>2, <2>2, <2>3, <2>4, SizesAssumption DEF Safe, EverythingInHeap
<1> QED
  BY <1>3, <1>4, <1>5, <1>6, <1>7, <1>8, <1>9 DEF Safe, NoOverlap

(* The front of a chunk becomes the block, the chunk keeps the rest.       *)
LEMMA FromChunkSafe ==
  ASSUME Safe, ~merging.on, NEW c \in Class \cup {0}, NEW sz \in Nat,
         c # 0 => sz = Classes[c], NEW size \in Nat, NEW a \in Nat,
         FromChunk(c, sz, size, a), UNCHANGED <<free_enabled, merging>>
  PROVE  Safe'
<1>1. PICK i \in Slot : /\ bigchunks[i].ptr # 0 /\ bigchunks[i].capacity >= sz
                        /\ blocks' = blocks \cup {Block(bigchunks[i].ptr, sz, c, size)}
                        /\ Cut(i, sz)
  BY DEF FromChunk, ChunkHolds, Hand
<1>2. /\ free_lists' = free_lists /\ last_ptr' = last_ptr
      /\ next_page' = next_page /\ aborted' = aborted
  BY DEF FromChunk
<1> DEFINE p == bigchunks[i].ptr
<1>3. p \in Nat /\ bigchunks[i].capacity \in Nat
  BY DEF Safe, Typed
<1>4. \A j \in Slot : bigchunks'[j] =
        IF j = i THEN [ptr |-> p + sz, capacity |-> bigchunks[i].capacity - sz]
        ELSE bigchunks[j]
  BY <1>1 DEF Safe, Typed, Cut
<1>5. Typed'
  <2>1. bigchunks' \in [Slot -> [ptr : Nat, capacity : Nat]]
    BY <1>1, <1>3 DEF Safe, Typed, Cut
  <2>2. \A b \in blocks' :
          b \in [ptr : Nat, sz : Nat, id : Class \cup {0}, req : Nat]
    BY <1>1, <1>3 DEF Safe, Typed, Block
  <2> QED
    BY <1>2, <2>1, <2>2 DEF Safe, Typed
<1>6. SmallShape'
  BY <1>1 DEF Safe, SmallShape, Block
<1>7. BlocksApart'
  <2>1. \A b \in blocks : Apart(b.ptr, b.sz, p, sz) /\ b.ptr \in Nat /\ b.sz \in Nat
    <3> TAKE b \in blocks
    <3>1. b.ptr \in Nat /\ b.sz \in Nat
      BY DEF Safe, Typed
    <3>2. Apart(b.ptr, b.sz, p, bigchunks[i].capacity)
      BY <1>1 DEF Safe, NoOverlap, BlocksApartFromChunks
    <3> QED
      BY <1>1, <1>3, <3>1, <3>2 DEF Apart
  <2> QED
    BY <1>1, <1>3, <2>1 DEF Safe, NoOverlap, BlocksApart, Apart, Block
<1>8. BlocksApartFromFreed'
  <2>1. \A d \in Class : \A n \in DOMAIN free_lists[d] :
          Apart(free_lists[d][n], Classes[d], p, bigchunks[i].capacity)
    BY <1>1 DEF Safe, NoOverlap, FreedApartFromChunks
  <2>2. \A d \in Class : \A n \in DOMAIN free_lists[d] :
          free_lists[d][n] \in Nat /\ Classes[d] \in Nat
    BY ClassSizes DEF Safe, Typed
  <2>3. \A d \in Class : \A n \in DOMAIN free_lists[d] :
          Apart(p, sz, free_lists[d][n], Classes[d])
    BY <1>1, <1>3, <2>1, <2>2 DEF Apart
  <2> QED
    BY <1>1, <1>2, <2>3 DEF Safe, NoOverlap, BlocksApartFromFreed, Block
<1>9. ChunksApart'
  <2> SUFFICES ASSUME NEW j \in Slot, NEW k \in Slot, j # k,
                      bigchunks'[j].ptr # 0, bigchunks'[k].ptr # 0
               PROVE  Apart(bigchunks'[j].ptr, bigchunks'[j].capacity,
                            bigchunks'[k].ptr, bigchunks'[k].capacity)
    BY DEF ChunksApart
  <2>1. /\ bigchunks[j].ptr \in Nat /\ bigchunks[j].capacity \in Nat
        /\ bigchunks[k].ptr \in Nat /\ bigchunks[k].capacity \in Nat
    BY DEF Safe, Typed
  <2>2. Apart(bigchunks[j].ptr, bigchunks[j].capacity,
              bigchunks[k].ptr, bigchunks[k].capacity)
    BY <1>1, <1>4 DEF Safe, NoOverlap, ChunksApart
  <2>3. CASE j # i /\ k # i
    BY <1>4, <2>2, <2>3
  <2>4. CASE j = i
    <3>1. bigchunks'[k] = bigchunks[k]
      BY <1>4, <2>4
    <3>2. /\ bigchunks'[j].ptr = p + sz
          /\ bigchunks'[j].capacity = bigchunks[i].capacity - sz
      BY <1>4, <2>4
    <3> HIDE DEF p
    <3>3. Apart(p, bigchunks[i].capacity, bigchunks[k].ptr, bigchunks[k].capacity)
      BY <2>2, <2>4 DEF p
    <3> QED
      BY <1>1, <1>3, <2>1, <3>1, <3>2, <3>3 DEF Apart
  <2>5. CASE k = i
    <3>1. bigchunks'[j] = bigchunks[j]
      BY <1>4, <2>5
    <3>2. /\ bigchunks'[k].ptr = p + sz
          /\ bigchunks'[k].capacity = bigchunks[i].capacity - sz
      BY <1>4, <2>5
    <3> HIDE DEF p
    <3>3. Apart(bigchunks[j].ptr, bigchunks[j].capacity, p, bigchunks[i].capacity)
      BY <2>2, <2>5 DEF p
    <3> QED
      BY <1>1, <1>3, <2>1, <3>1, <3>2, <3>3 DEF Apart
  <2> QED
    BY <2>3, <2>4, <2>5
<1>10. BlocksApartFromChunks'
  <2> SUFFICES ASSUME NEW b \in blocks', NEW j \in Slot, bigchunks'[j].ptr # 0
               PROVE  Apart(b.ptr, b.sz, bigchunks'[j].ptr, bigchunks'[j].capacity)
    BY DEF BlocksApartFromChunks
  <2>1. CASE b \in blocks
    <3>1. Apart(b.ptr, b.sz, p, bigchunks[i].capacity)
      BY <1>1, <2>1 DEF Safe, NoOverlap, BlocksApartFromChunks
    <3>2. j # i => Apart(b.ptr, b.sz, bigchunks[j].ptr, bigchunks[j].capacity)
      BY <1>4, <2>1 DEF Safe, NoOverlap, BlocksApartFromChunks
    <3>3. b.ptr \in Nat /\ b.sz \in Nat
      BY <2>1 DEF Safe, Typed
    <3> QED
      BY <1>1, <1>3, <1>4, <3>1, <3>2, <3>3 DEF Apart
  <2>2. CASE b = Block(p, sz, c, size)
    <3>1. j # i => Apart(p, bigchunks[i].capacity,
                         bigchunks[j].ptr, bigchunks[j].capacity)
      BY <1>1, <1>4 DEF Safe, NoOverlap, ChunksApart
    <3>2. bigchunks[j].ptr \in Nat /\ bigchunks[j].capacity \in Nat
      BY DEF Safe, Typed
    <3> QED
      BY <1>1, <1>3, <1>4, <2>2, <3>1, <3>2 DEF Apart, Block
  <2> QED
    BY <1>1, <2>1, <2>2
<1>11. FreedApartFromChunks'
  <2> SUFFICES ASSUME NEW d \in Class, NEW j \in Slot, NEW n \in DOMAIN free_lists[d],
                      bigchunks'[j].ptr # 0
               PROVE  Apart(free_lists[d][n], Classes[d],
                            bigchunks'[j].ptr, bigchunks'[j].capacity)
    BY <1>2 DEF FreedApartFromChunks
  <2>1. Apart(free_lists[d][n], Classes[d], p, bigchunks[i].capacity)
    BY <1>1 DEF Safe, NoOverlap, FreedApartFromChunks
  <2>2. j # i => Apart(free_lists[d][n], Classes[d],
                       bigchunks[j].ptr, bigchunks[j].capacity)
    BY <1>4 DEF Safe, NoOverlap, FreedApartFromChunks
  <2>3. free_lists[d][n] \in Nat /\ Classes[d] \in Nat
    BY ClassSizes DEF Safe, Typed
  <2> QED
    BY <1>1, <1>3, <1>4, <2>1, <2>2, <2>3 DEF Apart
<1>12. FreedApart' /\ HeldApart'
  BY <1>2 DEF Safe, NoOverlap, FreedApart, HeldApart
<1>13. EverythingInHeap'
  <2>1. last_ptr \in Nat /\ HeapBase \in Nat /\ InHeap(p, bigchunks[i].capacity)
    BY <1>1, SizesAssumption DEF Safe, Typed, EverythingInHeap
  <2>2. \A b \in blocks' : InHeap(b.ptr, b.sz)'
    BY <1>1, <1>2, <1>3, <2>1 DEF Safe, EverythingInHeap, InHeap, Block
  <2>3. \A j \in Slot : bigchunks'[j].ptr # 0 =>
          InHeap(bigchunks[j].ptr, bigchunks[j].capacity)'
    BY <1>1, <1>2, <1>3, <1>4, <2>1 DEF Safe, EverythingInHeap, InHeap
  <2> QED
    BY <1>2, <2>2, <2>3 DEF Safe, EverythingInHeap, InHeap
<1> QED
  BY <1>5, <1>6, <1>7, <1>8, <1>9, <1>10, <1>11, <1>12, <1>13 DEF Safe, NoOverlap


(* Wherever the block of a request comes from.                             *)
LEMMA ObtainSafe ==
  ASSUME Safe, ~merging.on, NEW size \in Nat, NEW a \in Nat, Amount(a) # 0,
         Obtain(size, a), UNCHANGED <<free_enabled, merging>>
  PROVE  Safe' /\ blocks \subseteq blocks'
<1>1. Amount(a) \in Nat \ {0} /\ Rounded(size, a) \in Nat
  BY RoundedNat
<1>2. PICK c \in Class \cup {0}, sz \in Nat :
        Serve(c, sz, size, a) /\ (c # 0 => sz = Classes[c])
  BY <1>1, ClassSizes DEF Obtain, Class
<1>3. CASE FromList(c, sz, size)
  <2>1. c \in Class /\ FromList(c, Classes[c], size)
    BY <1>2, <1>3 DEF FromList
  <2> QED
    BY <1>3, <2>1, FromListSafe DEF FromList, Hand
<1>4. CASE FromTail(c, sz, size, a)
  BY <1>1, <1>2, <1>4, FromTailSafe DEF FromTail, Hand
<1>5. CASE FromChunk(c, sz, size, a)
  BY <1>2, <1>5, FromChunkSafe DEF FromChunk, Hand
<1>6. CASE Refuse(c, sz, a)
  BY <1>6 DEF Refuse, Safe, Typed, SmallShape, NoOverlap, EverythingInHeap,
     BlocksApart, FreedApart, ChunksApart, BlocksApartFromFreed,
     BlocksApartFromChunks, FreedApartFromChunks, HeldApart, InHeap
<1> QED
  BY <1>2, <1>3, <1>4, <1>5, <1>6 DEF Serve

-----------------------------------------------------------------------------
(* Taking a block back.                                                    *)

LEMMA ReleaseSafe ==
  ASSUME Safe, NEW b \in blocks, Release(b),
         UNCHANGED <<last_ptr, next_page, bigchunks, free_enabled, aborted>>
  PROVE  Safe'
<1>1. /\ b.ptr \in Nat /\ b.sz \in Nat /\ b.id \in Class \cup {0}
      /\ InHeap(b.ptr, b.sz)
      /\ b.id # 0 => b.sz = Classes[b.id]
  BY DEF Safe, Typed, SmallShape, EverythingInHeap
<1>2. blocks' = blocks \ {b}
  BY DEF Release
<1>3. SmallShape' /\ BlocksApart' /\ ChunksApart' /\ BlocksApartFromChunks'
  BY <1>2 DEF Safe, NoOverlap, SmallShape, BlocksApart, ChunksApart,
     BlocksApartFromChunks
<1>4. /\ \A d \in blocks' : InHeap(d.ptr, d.sz)'
      /\ \A i \in Slot : bigchunks'[i].ptr # 0 =>
           InHeap(bigchunks[i].ptr, bigchunks[i].capacity)'
  BY <1>2 DEF Safe, EverythingInHeap, InHeap
<1>5. CASE ~free_enabled
  BY <1>2, <1>3, <1>4, <1>5 DEF Release, Safe, Typed, NoOverlap, FreedApart,
     BlocksApartFromFreed, FreedApartFromChunks, HeldApart, EverythingInHeap,
     InHeap
<1>6. CASE free_enabled /\ b.id # 0
  <2> DEFINE c == b.id
  <2>1. /\ c \in Class /\ merging' = merging
        /\ free_lists' = [free_lists EXCEPT ![c] = <<b.ptr>> \o free_lists[c]]
        /\ free_lists[c] \in Seq(Nat)
    BY <1>1, <1>6 DEF Release, Safe, Typed
  <2>2. \A d \in Class : \A n \in DOMAIN free_lists'[d] :
          \/ d = c /\ n = 1 /\ free_lists'[d][n] = b.ptr
          \/ /\ d = c /\ n # 1 /\ n \in Nat /\ n - 1 \in DOMAIN free_lists[d]
             /\ free_lists'[d][n] = free_lists[d][n - 1]
          \/ /\ d # c /\ n \in DOMAIN free_lists[d]
             /\ free_lists'[d][n] = free_lists[d][n]
    <3> TAKE d \in Class
    <3> TAKE n \in DOMAIN free_lists'[d]
    <3>1. CASE d = c
      <4>1. free_lists'[d] = <<b.ptr>> \o free_lists[c]
        BY <2>1, <3>1 DEF Safe, Typed
      <4> QED
        BY <1>1, <2>1, <3>1, <4>1, Push
    <3>2. CASE d # c
      BY <2>1, <3>2 DEF Safe, Typed
    <3> QED
      BY <3>1, <3>2
  <2>3. Typed'
    <3>1. free_lists' \in [Class -> Seq(Nat)]
      BY <1>1, <2>1, Push DEF Safe, Typed
    <3> QED
      BY <1>2, <2>1, <3>1 DEF Safe, Typed
  <2>4. \A d \in Class : \A n \in DOMAIN free_lists'[d] : \E m :
          \/ d = c /\ free_lists'[d][n] = b.ptr
          \/ m \in DOMAIN free_lists[d] /\ free_lists'[d][n] = free_lists[d][m]
    BY <2>2
  <2>5. b.sz = Classes[c]
    BY <1>1, <1>6
  <2>6. FreedApart'
    <3> SUFFICES ASSUME NEW d \in Class, NEW e \in Class,
                        NEW m \in DOMAIN free_lists'[d],
                        NEW n \in DOMAIN free_lists'[e], d # e \/ m # n
                 PROVE  Apart(free_lists'[d][m], Classes[d],
                              free_lists'[e][n], Classes[e])
      BY DEF FreedApart
    <3> DEFINE new(f, k) == f = c /\ k = 1
               old(f, k) == IF f = c THEN k - 1 ELSE k
    <3>1. /\ ~new(d, m) => /\ old(d, m) \in DOMAIN free_lists[d]
                           /\ free_lists'[d][m] = free_lists[d][old(d, m)]
          /\ ~new(e, n) => /\ old(e, n) \in DOMAIN free_lists[e]
                           /\ free_lists'[e][n] = free_lists[e][old(e, n)]
          /\ new(d, m) => free_lists'[d][m] = b.ptr
          /\ new(e, n) => free_lists'[e][n] = b.ptr
          /\ ~(new(d, m) /\ new(e, n))
          /\ ~new(d, m) /\ ~new(e, n) => d # e \/ old(d, m) # old(e, n)
      BY <2>2
    <3>2. CASE new(d, m)
      <4>1. Apart(b.ptr, b.sz, free_lists[e][old(e, n)], Classes[e])
        BY <3>1, <3>2 DEF Safe, NoOverlap, BlocksApartFromFreed
      <4> QED
        BY <2>5, <3>1, <3>2, <4>1
    <3>3. CASE new(e, n)
      <4>1. Apart(b.ptr, b.sz, free_lists[d][old(d, m)], Classes[d])
        BY <3>1, <3>3 DEF Safe, NoOverlap, BlocksApartFromFreed
      <4> QED
        BY <2>5, <3>1, <3>3, <4>1 DEF Apart
    <3>4. CASE ~new(d, m) /\ ~new(e, n)
      <4>1. Apart(free_lists[d][old(d, m)], Classes[d],
                  free_lists[e][old(e, n)], Classes[e])
        BY <3>1, <3>4 DEF Safe, NoOverlap, FreedApart
      <4> QED
        BY <3>1, <3>4, <4>1
    <3> QED
      BY <3>2, <3>3, <3>4
  <2>7. BlocksApartFromFreed'
    BY <1>2, <2>4, <2>5 DEF Safe, NoOverlap, BlocksApartFromFreed, BlocksApart
  <2>8. FreedApartFromChunks'
    BY <2>4, <2>5 DEF Safe, NoOverlap, FreedApartFromChunks, BlocksApartFromChunks
  <2>9. HeldApart'
    BY <1>2, <2>1, <2>4, <2>5 DEF Safe, NoOverlap, HeldApart
  <2>10. EverythingInHeap'
    BY <1>1, <1>4, <2>1, <2>4, <2>5 DEF Safe, EverythingInHeap, InHeap
  <2> QED
    BY <1>3, <2>3, <2>6, <2>7, <2>8, <2>9, <2>10 DEF Safe, NoOverlap
<1>7. CASE free_enabled /\ b.id = 0
  <2>1. /\ free_lists' = free_lists
        /\ merging' = [on |-> TRUE, i |-> 1, ptr |-> b.ptr, cap |-> b.sz,
                       idx |-> 1, least |-> bigchunks[1].capacity]
    BY <1>7 DEF Release, MergeBegin
  <2>2. Typed'
    <3>1. 1 \in Slot /\ bigchunks[1].capacity \in Nat
      BY SizesAssumption DEF Safe, Typed, Slot
    <3> QED
      BY <1>1, <1>2, <2>1, <3>1, SizesAssumption DEF Safe, Typed
  <2>3. HeldApart'
    <3>1. \A d \in blocks' : Apart(d.ptr, d.sz, b.ptr, b.sz)
      BY <1>2 DEF Safe, NoOverlap, BlocksApart
    <3>2. \A c \in Class : \A n \in DOMAIN free_lists[c] :
            Apart(free_lists[c][n], Classes[c], b.ptr, b.sz)
      BY DEF Safe, NoOverlap, BlocksApartFromFreed, Apart
    <3>3. \A i \in Slot : bigchunks[i].ptr # 0 =>
            Apart(bigchunks[i].ptr, bigchunks[i].capacity, b.ptr, b.sz)
      BY DEF Safe, NoOverlap, BlocksApartFromChunks, Apart
    <3> QED
      BY <2>1, <3>1, <3>2, <3>3 DEF HeldApart
  <2>4. FreedApart' /\ BlocksApartFromFreed' /\ FreedApartFromChunks'
    BY <1>2, <2>1 DEF Safe, NoOverlap, FreedApart, BlocksApartFromFreed,
       FreedApartFromChunks
  <2>5. EverythingInHeap'
    BY <1>1, <1>4, <2>1 DEF Safe, EverythingInHeap, InHeap
  <2> QED
    BY <1>3, <2>2, <2>3, <2>4, <2>5 DEF Safe, NoOverlap
<1> QED
  BY <1>5, <1>6, <1>7


-----------------------------------------------------------------------------
(* Putting a chunk into the table.                                         *)

(* What is apart from two adjacent pieces is apart from both together.     *)
LEMMA ApartFromBoth ==
  ASSUME NEW x \in Nat, NEW n \in Nat, NEW p \in Nat, NEW s \in Nat, NEW t \in Nat,
         Apart(x, n, p, s), Apart(x, n, p + s, t)
  PROVE  Apart(x, n, p, s + t)
BY DEF Apart

LEMMA MergeStepSafe == Safe /\ MergeStep => Safe'
<1> SUFFICES ASSUME Safe, MergeStep PROVE Safe'
  OBVIOUS
<1> DEFINE i == merging.i
           chunk == bigchunks[i]
<1>1. /\ merging.on /\ i \in Slot
      /\ merging.ptr \in Nat /\ merging.cap \in Nat /\ merging.least \in Nat
      /\ merging.idx \in Slot
      /\ chunk.ptr \in Nat /\ chunk.capacity \in Nat
  <2>1. merging.on /\ i \in Slot
    BY DEF MergeStep, Safe, Typed, Slot
  <2> QED
    BY <2>1 DEF Safe, Typed
<1>2. /\ last_ptr' = last_ptr /\ next_page' = next_page
      /\ free_lists' = free_lists /\ blocks' = blocks
      /\ free_enabled' = free_enabled /\ aborted' = aborted
  BY DEF MergeStep
<1>3. /\ bigchunks' = IF Touches(i) THEN [bigchunks EXCEPT ![i] = NoChunk]
                                    ELSE bigchunks
      /\ merging'.on
      /\ merging'.ptr = IF TouchesRight(i) THEN chunk.ptr ELSE merging.ptr
      /\ merging'.cap = IF Touches(i) THEN merging.cap + chunk.capacity
                                      ELSE merging.cap
  BY <1>1 DEF MergeStep
<1>4. \A j \in Slot : bigchunks'[j].ptr # 0 =>
        bigchunks'[j] = bigchunks[j] /\ (Touches(i) => j # i)
  BY <1>1, <1>3 DEF Safe, Typed, NoChunk
<1>5. Typed'
  <2>1. bigchunks' \in [Slot -> [ptr : Nat, capacity : Nat]]
    BY <1>1, <1>3 DEF Safe, Typed, NoChunk
  <2>2. merging' \in [on : BOOLEAN, i : 1..(MaxChunks + 1), ptr : Nat, cap : Nat,
                      idx : Slot, least : Nat]
    <3>1. i + 1 \in 1..(MaxChunks + 1)
      BY <1>1, SizesAssumption DEF Slot
    <3> QED
      BY <1>1, <3>1 DEF MergeStep
  <2> QED
    BY <1>2, <2>1, <2>2 DEF Safe, Typed
<1>6. SmallShape' /\ BlocksApart' /\ FreedApart' /\ BlocksApartFromFreed'
  BY <1>2 DEF Safe, NoOverlap, SmallShape, BlocksApart, FreedApart,
     BlocksApartFromFreed
<1>7. ChunksApart' /\ BlocksApartFromChunks' /\ FreedApartFromChunks'
  BY <1>2, <1>4 DEF Safe, NoOverlap, ChunksApart, BlocksApartFromChunks,
     FreedApartFromChunks
<1>8. \A x, n \in Nat :
        /\ Apart(x, n, merging.ptr, merging.cap)
        /\ chunk.ptr # 0 => Apart(x, n, chunk.ptr, chunk.capacity)
        => Apart(x, n, merging'.ptr, merging'.cap)
  <2> SUFFICES ASSUME NEW x \in Nat, NEW n \in Nat,
                      Apart(x, n, merging.ptr, merging.cap),
                      chunk.ptr # 0 => Apart(x, n, chunk.ptr, chunk.capacity)
               PROVE  Apart(x, n, merging'.ptr, merging'.cap)
    OBVIOUS
  <2>1. CASE TouchesRight(i)
    <3>1. chunk.ptr # 0 /\ chunk.ptr + chunk.capacity = merging.ptr
      BY <2>1 DEF TouchesRight
    <3>2. Apart(x, n, chunk.ptr, chunk.capacity + merging.cap)
      BY <1>1, <3>1, ApartFromBoth
    <3> QED
      BY <1>1, <1>3, <2>1, <3>2 DEF Touches
  <2>2. CASE ~TouchesRight(i) /\ TouchesLeft(i)
    <3>1. chunk.ptr # 0 /\ merging.ptr + merging.cap = chunk.ptr
      BY <2>2 DEF TouchesLeft
    <3>2. Apart(x, n, merging.ptr, merging.cap + chunk.capacity)
      BY <1>1, <3>1, ApartFromBoth
    <3> QED
      BY <1>3, <2>2, <3>2 DEF Touches
  <2>3. CASE ~Touches(i)
    BY <1>3, <2>3 DEF Touches
  <2> QED
    BY <2>1, <2>2, <2>3 DEF Touches
<1>9. HeldApart'
  <2>1. \A b \in blocks : Apart(b.ptr, b.sz, merging'.ptr, merging'.cap)
    <3> TAKE b \in blocks
    <3>1. /\ b.ptr \in Nat /\ b.sz \in Nat
          /\ Apart(b.ptr, b.sz, merging.ptr, merging.cap)
          /\ chunk.ptr # 0 => Apart(b.ptr, b.sz, chunk.ptr, chunk.capacity)
      BY <1>1 DEF Safe, Typed, NoOverlap, HeldApart, BlocksApartFromChunks
    <3> QED
      BY <1>8, <3>1
  <2>2. \A c \in Class : \A n \in DOMAIN free_lists[c] :
          Apart(free_lists[c][n], Classes[c], merging'.ptr, merging'.cap)
    <3> TAKE c \in Class
    <3> TAKE n \in DOMAIN free_lists[c]
    <3>1. free_lists[c][n] \in Nat /\ Classes[c] \in Nat
      BY ClassSizes DEF Safe, Typed
    <3>2. /\ Apart(free_lists[c][n], Classes[c], merging.ptr, merging.cap)
          /\ chunk.ptr # 0 =>
               Apart(free_lists[c][n], Classes[c], chunk.ptr, chunk.capacity)
      BY <1>1 DEF Safe, NoOverlap, HeldApart, FreedApartFromChunks
    <3> QED
      BY <1>8, <3>1, <3>2
  <2>3. \A j \in Slot : bigchunks'[j].ptr # 0 =>
          Apart(bigchunks'[j].ptr, bigchunks'[j].capacity, merging'.ptr, merging'.cap)
    <3> SUFFICES ASSUME NEW j \in Slot, bigchunks'[j].ptr # 0
                 PROVE  Apart(bigchunks[j].ptr, bigchunks[j].capacity,
                              merging'.ptr, merging'.cap)
      BY <1>4
    <3>1. bigchunks[j].ptr \in Nat /\ bigchunks[j].capacity \in Nat
      BY DEF Safe, Typed
    <3>2. Apart(bigchunks[j].ptr, bigchunks[j].capacity, merging.ptr, merging.cap)
      BY <1>1, <1>4 DEF Safe, NoOverlap, HeldApart
    <3>3. CASE Touches(i)
      <4>1. chunk.ptr # 0 => Apart(bigchunks[j].ptr, bigchunks[j].capacity,
                                   chunk.ptr, chunk.capacity)
        BY <1>1, <1>4, <3>3 DEF Safe, NoOverlap, ChunksApart
      <4> QED
        BY <1>8, <3>1, <3>2, <4>1
    <3>4. CASE ~Touches(i)
      BY <1>3, <3>2, <3>4 DEF Touches
    <3> QED
      BY <3>3, <3>4
  <2> QED
    BY <1>2, <2>1, <2>2, <2>3 DEF HeldApart
<1>10. EverythingInHeap'
  <2>1. /\ InHeap(merging.ptr, merging.cap)
        /\ chunk.ptr # 0 => InHeap(chunk.ptr, chunk.capacity)
        /\ last_ptr \in Nat /\ HeapBase \in Nat
    BY <1>1, SizesAssumption DEF Safe, Typed, EverythingInHeap
  <2>2. InHeap(merging.ptr, merging.cap)'
    BY <1>1, <1>2, <1>3, <2>1 DEF InHeap, Touches, TouchesRight, TouchesLeft
  <2> QED
    BY <1>2, <1>4, <2>2 DEF Safe, EverythingInHeap, InHeap
<1> QED
  BY <1>5, <1>6, <1>7, <1>9, <1>10 DEF Safe, NoOverlap

LEMMA MergeFinishSafe == Safe /\ MergeFinish => Safe'
<1> SUFFICES ASSUME Safe, MergeFinish PROVE Safe'
  OBVIOUS
<1> DEFINE held == [ptr |-> merging.ptr, capacity |-> merging.cap]
<1>1. /\ merging.on /\ merging.idx \in Slot
      /\ merging.ptr \in Nat /\ merging.cap \in Nat
      /\ merging' = NoMerge
      /\ last_ptr' = last_ptr /\ next_page' = next_page
      /\ free_lists' = free_lists /\ blocks' = blocks
      /\ free_enabled' = free_enabled /\ aborted' = aborted
  BY DEF MergeFinish, Safe, Typed
<1>2. \/ bigchunks' = bigchunks
      \/ bigchunks' = [bigchunks EXCEPT ![merging.idx] = held]
  BY DEF MergeFinish
<1>3. \A j \in Slot :
        \/ bigchunks'[j] = bigchunks[j]
        \/ j = merging.idx /\ bigchunks'[j] = held
  BY <1>1, <1>2 DEF Safe, Typed
<1>4. Typed'
  <2>1. bigchunks' \in [Slot -> [ptr : Nat, capacity : Nat]]
    <3>1. held \in [ptr : Nat, capacity : Nat]
      BY <1>1
    <3>2. bigchunks \in [Slot -> [ptr : Nat, capacity : Nat]]
      BY DEF Safe, Typed
    <3> HIDE DEF held
    <3> QED
      BY <1>2, <3>1, <3>2
  <2>2. merging' \in [on : BOOLEAN, i : 1..(MaxChunks + 1), ptr : Nat, cap : Nat,
                      idx : Slot, least : Nat]
    BY <1>1, SizesAssumption DEF NoMerge, Slot
  <2> QED
    BY <1>1, <2>1, <2>2 DEF Safe, Typed
<1>5. SmallShape' /\ BlocksApart' /\ FreedApart' /\ BlocksApartFromFreed'
  BY <1>1 DEF Safe, NoOverlap, SmallShape, BlocksApart, FreedApart,
     BlocksApartFromFreed
<1>6. BlocksApartFromChunks' /\ FreedApartFromChunks'
  BY <1>1, <1>3 DEF Safe, NoOverlap, BlocksApartFromChunks, FreedApartFromChunks,
     HeldApart
<1>7. ChunksApart'
  BY <1>1, <1>3 DEF Safe, NoOverlap, ChunksApart, HeldApart, Apart
<1>8. HeldApart'
  BY <1>1 DEF HeldApart, NoMerge
<1>9. EverythingInHeap'
  BY <1>1, <1>3 DEF Safe, EverythingInHeap, InHeap, NoMerge
<1> QED
  BY <1>4, <1>5, <1>6, <1>7, <1>8, <1>9 DEF Safe, NoOverlap

-----------------------------------------------------------------------------
(* The calls of the contract.                                              *)

(* What the blocks of a Safe state may become without a release: other     *)
(* sizes were asked for, or nothing changed.                               *)
LEMMA InPlaceSafe ==
  ASSUME Safe, NEW b \in blocks, NEW size \in Nat, ReallocInPlace(b, size)
  PROVE  Safe'
<1> DEFINE r == Block(b.ptr, b.sz, b.id, size)
<1>1. /\ blocks' = (blocks \ {b}) \cup {r}
      /\ UNCHANGED <<last_ptr, next_page, free_lists, bigchunks, free_enabled,
                     merging, aborted>>
  BY DEF ReallocInPlace
<1>2. \A d \in blocks' : \E e \in blocks :
        /\ e.ptr = d.ptr /\ e.sz = d.sz /\ e.id = d.id
        /\ (d # b /\ e = d) \/ (d = r /\ e = b)
  BY <1>1 DEF Block
<1>3. Typed'
  <2>1. \A d \in blocks' :
          d \in [ptr : Nat, sz : Nat, id : Class \cup {0}, req : Nat]
    BY <1>1 DEF Safe, Typed, Block
  <2> QED
    BY <1>1, <2>1 DEF Safe, Typed
<1>4. SmallShape' /\ BlocksApart' /\ BlocksApartFromFreed' /\ BlocksApartFromChunks'
  BY <1>1, <1>2 DEF Safe, NoOverlap, SmallShape, BlocksApart,
     BlocksApartFromFreed, BlocksApartFromChunks
<1>5. FreedApart' /\ ChunksApart' /\ FreedApartFromChunks' /\ HeldApart'
  BY <1>1, <1>2 DEF Safe, NoOverlap, FreedApart, ChunksApart,
     FreedApartFromChunks, HeldApart
<1>6. EverythingInHeap'
  BY <1>1, <1>2 DEF Safe, EverythingInHeap, InHeap
<1> QED
  BY <1>3, <1>4, <1>5, <1>6 DEF Safe, NoOverlap


LEMMA StutterSafe ==
  ASSUME Safe, UNCHANGED <<last_ptr, next_page, free_lists, bigchunks, blocks,
                           merging>>,
         free_enabled' \in BOOLEAN, aborted' \in {"no", "check", "trap"}
  PROVE  Safe'
BY DEF Safe, Typed, SmallShape, NoOverlap, EverythingInHeap,
   BlocksApart, FreedApart, ChunksApart, BlocksApartFromFreed,
   BlocksApartFromChunks, FreedApartFromChunks, HeldApart, InHeap

LEMMA NextSafe == AlignmentsFit /\ IInv /\ [Next]_vars => IInv'
<1> SUFFICES ASSUME AlignmentsFit, IInv, [Next]_vars PROVE IInv'
  OBVIOUS
<1> USE DEF IInv
<1>1. /\ \A size \in Request : size \in Nat
      /\ \A a \in Alignment : a \in Nat /\ Amount(a) # 0
      /\ Amount(1) # 0
  <2>1. AlignWrap \in Nat /\ AlignWrap > 1
    BY SizesAssumption DEF AlignmentsFit
  <2>2. 1 % AlignWrap = 1
    BY <2>1
  <2> QED
    BY <2>2, RequestAssumption, SizesAssumption DEF AlignmentsFit, Amount
<1>2. ASSUME NEW size \in Request, NEW a \in Alignment, malloc(size, a)
      PROVE  IInv'
  <2>1. Safe' /\ blocks \subseteq blocks'
    BY <1>1, <1>2, ObtainSafe DEF malloc, Idle
  <2>2. moving' = {}
    BY <1>2 DEF malloc, Idle
  <2> QED
    BY <2>1, <2>2 DEF MovingHeld
<1>3. ASSUME NEW b \in blocks, free(b) PROVE IInv'
  <2>1. Safe'
    BY <1>3, ReleaseSafe DEF free
  <2>2. moving' = {}
    BY <1>3 DEF free, Idle
  <2> QED
    BY <2>1, <2>2 DEF MovingHeld
<1>4. ASSUME NEW b \in blocks, NEW size \in Request, ReallocInPlace(b, size)
      PROVE  IInv'
  <2>1. Safe'
    BY <1>1, <1>4, InPlaceSafe
  <2>2. moving' = {}
    BY <1>4 DEF ReallocInPlace, Idle
  <2> QED
    BY <2>1, <2>2 DEF MovingHeld
<1>5. ASSUME NEW b \in blocks, NEW size \in Request, ReallocObtain(b, size)
      PROVE  IInv'
  <2>1. Safe' /\ blocks \subseteq blocks'
    BY <1>1, <1>5, ObtainSafe DEF ReallocObtain, Idle
  <2>2. moving' = {} \/ moving' = {[old |-> b, size |-> size]}
    BY <1>5 DEF ReallocObtain
  <2> QED
    BY <2>1, <2>2 DEF MovingHeld
<1>6. ASSUME NEW m \in moving, ReallocCopy(m) PROVE IInv'
  <2>1. Safe'
    BY <1>6, ReleaseSafe DEF ReallocCopy, MovingHeld
  <2> QED
    BY <1>6, <2>1 DEF ReallocCopy, MovingHeld
<1>7. ASSUME NEW m \in moving, ReallocTrap(m) PROVE IInv'
  <2>1. Safe'
    BY <1>7, StutterSafe DEF ReallocTrap, Safe, Typed
  <2> QED
    BY <1>7, <2>1 DEF ReallocTrap, MovingHeld
<1>8. CASE MergeStep
  BY <1>8, MergeStepSafe DEF MergeStep, MovingHeld
<1>9. CASE MergeFinish
  BY <1>9, MergeFinishSafe DEF MergeFinish, MovingHeld
<1>10. CASE eosio_malloc_enable_free \/ eosio_malloc_disable_free
  <2>1. Safe'
    BY <1>10, StutterSafe
       DEF eosio_malloc_enable_free, eosio_malloc_disable_free, Safe, Typed
  <2> QED
    BY <1>10, <2>1
       DEF eosio_malloc_enable_free, eosio_malloc_disable_free, MovingHeld
<1>11. CASE UNCHANGED vars
  <2>1. Safe'
    BY <1>11, StutterSafe DEF vars, Safe, Typed
  <2> QED
    BY <1>11, <2>1 DEF vars, MovingHeld
<1> QED
  BY <1>2, <1>3, <1>4, <1>5, <1>6, <1>7, <1>8, <1>9, <1>10, <1>11 DEF Next

LEMMA AlwaysIInv == AlignmentsFit => (Spec => []IInv)
<1> SUFFICES ASSUME AlignmentsFit PROVE Spec => []IInv
  OBVIOUS
<1>1. IInv /\ [Next]_vars => IInv'
  BY NextSafe
<1> QED
  BY <1>1, InitSafe, PTL DEF Spec

(* Type correctness: the table's slots, the loop that fills it and the     *)
(* block being moved by realloc stay well-formed (big_memory_alloc.hpp).   *)
THEOREM TypeCorrect == AlignmentsFit => (Spec => []TypeOK)
<1> SUFFICES ASSUME AlignmentsFit PROVE Spec => []TypeOK
  OBVIOUS
<1>1. IInv => TypeOK
  BY DEF IInv, Safe, Typed, MovingHeld, TypeOK
<1>2. Spec => []IInv
  BY AlwaysIInv
<1> QED
  BY <1>1, <1>2, PTL

(* Memory is never handed out twice, whatever is allocated, reallocated    *)
(* and freed (simple_malloc.cpp:62-99).                                    *)
THEOREM NeverOverlaps == AlignmentsFit => (Spec => []NoOverlap)
<1> SUFFICES ASSUME AlignmentsFit PROVE Spec => []NoOverlap
  OBVIOUS
<1>1. IInv => NoOverlap
  BY DEF IInv, Safe
<1>2. Spec => []IInv
  BY AlwaysIInv
<1> QED
  BY <1>1, <1>2, PTL

(* Everything the allocator owns or hands out stays within the part of the *)
(* heap it has claimed (simple_malloc.cpp:74-80).                          *)
THEOREM StaysInHeap == AlignmentsFit => (Spec => []EverythingInHeap)
<1> SUFFICES ASSUME AlignmentsFit PROVE Spec => []EverythingInHeap
  OBVIOUS
<1>1. IInv => EverythingInHeap
  BY DEF IInv, Safe
<1>2. Spec => []IInv
  BY AlwaysIInv
<1> QED
  BY <1>1, <1>2, PTL

-----------------------------------------------------------------------------
(* The alignments divide a page.                                           *)
PagesAligned == \A a \in Alignment : Page % Amount(a) = 0

-----------------------------------------------------------------------------
(* What a block is served with.                                            *)

LEMMA AlignUnder ==
  ASSUME NEW x \in Nat, NEW m \in Nat \ {0}
  PROVE  align(x, m) < x + m
<1>1. (x + m - 1) \in Nat /\ (x + m - 1) % m \in Nat
  OBVIOUS
<1> QED
  BY <1>1 DEF align

(* A request that does not wrap around gets what it asked for.             *)
LEMMA RoundedFits ==
  ASSUME NEW size \in Nat, NEW a \in Nat, Amount(a) # 0,
         size + Header + AlignWrap <= Word
  PROVE  size + Header <= Rounded(size, a)
<1> DEFINE x == size + Header
           m == Amount(a)
<1>1. m \in Nat \ {0} /\ m < AlignWrap /\ AlignWrap \in Nat /\ Word \in Nat \ {0}
  BY SizesAssumption DEF Amount
<1>2. x \in Nat /\ x < Word /\ x + m < Word
  BY <1>1 DEF Header
<1>3. x % Word = x
  BY <1>1, <1>2
<1> HIDE DEF x, m
<1>4. align(x, m) \in Nat /\ x <= align(x, m) /\ align(x, m) < x + m
  BY <1>1, <1>2, AlignUp, AlignUnder
<1>5. align(x, m) < Word
  BY <1>1, <1>2, <1>4
<1>6. align(x, m) % Word = align(x, m)
  BY <1>1, <1>4, <1>5
<1>7. Rounded(size, a) = align(x % Word, m) % Word
  BY DEF Rounded, x, m
<1>8. x <= Rounded(size, a)
  BY <1>3, <1>4, <1>6, <1>7
<1> QED
  BY <1>8 DEF x

(* The shape of a block of class c and size sz.                            *)
Shape(c, sz) == IF c = 0 THEN Big(sz) ELSE sz = Classes[c]

LEMMA Served ==
  ASSUME NEW size \in Nat, NEW a \in Nat, Amount(a) # 0, Obtain(size, a)
  PROVE  \E c \in Class \cup {0}, sz \in Nat \ {0} :
           Serve(c, sz, size, a) /\ Rounded(size, a) <= sz /\ Shape(c, sz)
<1>1. Rounded(size, a) \in Nat
  BY RoundedNat
<1>2. CASE \E c \in Class :
             Small(c, Rounded(size, a)) /\ Serve(c, Classes[c], size, a)
  <2>1. PICK c \in Class :
          Small(c, Rounded(size, a)) /\ Serve(c, Classes[c], size, a)
    BY <1>2
  <2>2. Classes[c] \in Nat \ {0} /\ c # 0
    BY ClassSizes DEF Class
  <2>3. Rounded(size, a) <= Classes[c]
    BY <2>1 DEF Small
  <2>4. Shape(c, Classes[c])
    BY <2>2 DEF Shape
  <2> QED
    BY <2>1, <2>2, <2>3, <2>4
<1>3. CASE Big(Rounded(size, a)) /\ Serve(0, Rounded(size, a), size, a)
  <2>1. 1 \in Class /\ Classes[1] \in Nat \ {0}
    BY ClassesAssumption, ClassSizes DEF Class
  <2>2. Classes[1] < Rounded(size, a)
    BY <1>3, <2>1 DEF Big
  <2>3. Rounded(size, a) \in Nat \ {0} /\ Rounded(size, a) <= Rounded(size, a)
    BY <1>1, <2>1, <2>2
  <2>4. Shape(0, Rounded(size, a))
    BY <1>3 DEF Shape
  <2> QED
    BY <1>3, <2>3, <2>4
<1> QED
  BY <1>2, <1>3 DEF Obtain

LEMMA RequestsFit ==
  ASSUME AlignmentsFit
  PROVE  /\ \A size \in Request : size \in Nat
         /\ \A a \in Alignment : a \in Nat /\ Amount(a) # 0
         /\ Amount(1) = 1
<1>1. AlignWrap \in Nat /\ AlignWrap > 1
  BY SizesAssumption DEF AlignmentsFit
<1>2. 1 % AlignWrap = 1
  BY <1>1
<1> QED
  BY <1>2, RequestAssumption, SizesAssumption DEF AlignmentsFit, Amount

-----------------------------------------------------------------------------
(* Blocks are as large as was asked.                                       *)

LEMMA ServeFits ==
  ASSUME Typed, BlocksFit, NEW size \in Nat, NEW a \in Nat, Amount(a) # 0,
         Obtain(size, a)
  PROVE  BlocksFit'
<1>1. PICK c \in Class \cup {0}, sz \in Nat \ {0} :
        Serve(c, sz, size, a) /\ Rounded(size, a) <= sz /\ Shape(c, sz)
  BY Served
<1>2. \/ blocks' = blocks
      \/ \E p : blocks' = blocks \cup {Block(p, sz, c, size)}
  BY <1>1 DEF Serve, FromList, FromTail, FromChunk, Refuse, Hand
<1>3. size + Header + AlignWrap <= Word => size + Header <= sz
  <2> SUFFICES ASSUME size + Header + AlignWrap <= Word PROVE size + Header <= sz
    OBVIOUS
  <2>1. size + Header <= Rounded(size, a) /\ Rounded(size, a) \in Nat
    BY RoundedFits, RoundedNat
  <2> QED
    BY <1>1, <2>1 DEF Header
<1>4. CASE blocks' = blocks
  BY <1>4 DEF BlocksFit
<1>5. CASE \E p : blocks' = blocks \cup {Block(p, sz, c, size)}
  <2>1. PICK p : blocks' = blocks \cup {Block(p, sz, c, size)}
    BY <1>5
  <2> SUFFICES ASSUME NEW b \in blocks'
               PROVE  /\ b.req + Header + AlignWrap <= Word => b.req + Header <= b.sz
                      /\ IF b.id = 0 THEN Big(b.sz) ELSE b.sz = Classes[b.id]
    BY DEF BlocksFit
  <2>2. CASE b \in blocks
    BY <2>2 DEF BlocksFit
  <2>3. CASE b = Block(p, sz, c, size)
    <3>1. b.req = size /\ b.sz = sz /\ b.id = c
      BY <2>3 DEF Block
    <3> QED
      BY <1>1, <1>3, <3>1 DEF Shape
  <2> QED
    BY <2>1, <2>2, <2>3
<1> QED
  BY <1>2, <1>4, <1>5

LEMMA FitKept ==
  ASSUME AlignmentsFit, IInv, BlocksFit, [Next]_vars
  PROVE  BlocksFit'
<1>1. Typed
  BY DEF IInv, Safe
<1>2. ASSUME blocks' \subseteq blocks PROVE BlocksFit'
  BY <1>2 DEF BlocksFit
<1>3. ASSUME NEW size \in Request, NEW a \in Alignment, malloc(size, a)
      PROVE  BlocksFit'
  BY <1>1, <1>3, RequestsFit, ServeFits DEF malloc
<1>4. ASSUME NEW b \in blocks, NEW size \in Request, ReallocInPlace(b, size)
      PROVE  BlocksFit'
  <2> DEFINE r == Block(b.ptr, b.sz, b.id, size)
  <2>1. blocks' = (blocks \ {b}) \cup {r} /\ b.sz - Header >= size
    BY <1>4 DEF ReallocInPlace, Roomy
  <2>2. r.req = size /\ r.sz = b.sz /\ r.id = b.id
    BY DEF Block
  <2>3. b.sz \in Nat /\ size \in Nat
    BY <1>1, RequestsFit DEF Typed
  <2>4. r.req + Header <= r.sz
    BY <2>1, <2>2, <2>3 DEF Header
  <2>5. IF r.id = 0 THEN Big(r.sz) ELSE r.sz = Classes[r.id]
    BY <2>2 DEF BlocksFit
  <2> HIDE DEF r
  <2> QED
    BY <2>1, <2>4, <2>5 DEF BlocksFit
<1>5. ASSUME NEW b \in blocks, NEW size \in Request, ReallocObtain(b, size)
      PROVE  BlocksFit'
  <2>1. 1 \in Nat /\ Amount(1) # 0
    BY RequestsFit
  <2> QED
    BY <1>1, <1>5, <2>1, RequestsFit, ServeFits DEF ReallocObtain
<1>6. CASE \/ \E b \in blocks : free(b)
           \/ \E m \in moving : ReallocCopy(m) \/ ReallocTrap(m)
           \/ MergeStep \/ MergeFinish
           \/ eosio_malloc_enable_free \/ eosio_malloc_disable_free
           \/ UNCHANGED vars
  BY <1>2, <1>6 DEF free, ReallocCopy, ReallocTrap, Release, MergeStep, MergeFinish,
     eosio_malloc_enable_free, eosio_malloc_disable_free, vars
<1> QED
  BY <1>3, <1>4, <1>5, <1>6 DEF Next

(* Every block holds its header and what was asked for, through however    *)
(* many reallocs, and a small one has the size of the list it will be      *)
(* freed to (simple_malloc.cpp:66-72, 139-154).                            *)
THEOREM BlocksAlwaysFit == AlignmentsFit => (Spec => []BlocksFit)
<1> SUFFICES ASSUME AlignmentsFit PROVE Spec => []BlocksFit
  OBVIOUS
<1>1. Init => BlocksFit
  BY DEF Init, BlocksFit
<1>2. IInv /\ BlocksFit /\ [Next]_vars => BlocksFit'
  BY FitKept
<1>3. Spec => []IInv
  BY AlwaysIInv
<1> QED
  BY <1>1, <1>2, <1>3, PTL DEF Spec

-----------------------------------------------------------------------------
(* The heap stays within the pages that were granted.                      *)

(* Rounding up does not pass a multiple.                                   *)
LEMMA AlignBelow ==
  ASSUME NEW x \in Nat, NEW m \in Nat \ {0}, NEW k \in Nat, x <= k * m
  PROVE  align(x, m) <= k * m
<1> DEFINE z == x + m - 1
           q == z \div m
<1>1. z \in Nat /\ z % m \in 0..(m - 1) /\ q \in Nat /\ k * m \in Nat
  OBVIOUS
<1>2. z = m * q + (z % m)
  OBVIOUS
<1>3. align(x, m) = m * q
  <2>1. align(x, m) = z - (z % m)
    BY DEF align
  <2>2. m * q \in Nat
    BY <1>1
  <2> QED
    BY <1>1, <1>2, <2>1, <2>2
<1>4. z < k * m + m
  BY <1>1
<1> HIDE DEF z, q
<1>5. q <= k
  <2> SUFFICES ASSUME q >= k + 1 PROVE FALSE
    BY <1>1
  <2> DEFINE d == q - (k + 1)
  <2>1. d \in Nat /\ q = k + 1 + d
    BY <1>1
  <2>2. m * d \in Nat /\ m * q = k * m + m + m * d
    BY <2>1
  <2> HIDE DEF d
  <2>3. m * q <= z /\ m * q \in Nat
    BY <1>1, <1>2
  <2> QED
    BY <1>1, <1>4, <2>2, <2>3
<1>6. m * q <= k * m
  <2> DEFINE d == k - q
  <2>1. d \in Nat /\ k = q + d
    BY <1>1, <1>5
  <2>2. m * d \in Nat /\ k * m = m * q + m * d /\ m * q \in Nat
    BY <1>1, <2>1
  <2> HIDE DEF d
  <2> QED
    BY <2>2
<1> QED
  BY <1>3, <1>6

LEMMA EndWithinPages ==
  ASSUME last_ptr \in Nat, next_page \in Nat, last_ptr <= next_page * Page,
         NEW sz \in Nat, NEW a \in Nat,
         Amount(a) \in Nat \ {0}, Page % Amount(a) = 0
  PROVE  NewEnd(sz, a) <= (next_page + PagesFor(sz, a)) * Page
<1> DEFINE m == Amount(a)
           q == sz \div Page
           d == Page \div m
<1>1. Page \in Nat \ {0} /\ q \in Nat /\ d \in Nat
  BY SizesAssumption
<1>2. sz < q * Page + Page
  <2>1. sz = Page * q + (sz % Page) /\ sz % Page \in 0..(Page - 1)
    BY <1>1
  <2>2. Page * q = q * Page /\ q * Page \in Nat
    BY <1>1
  <2> HIDE DEF q
  <2> QED
    BY <1>1, <2>1, <2>2
<1>3. Page = d * m
  <2>1. Page = m * d + (Page % m)
    BY <1>1
  <2> QED
    BY <1>1, <2>1
<1> HIDE DEF q, d
<1>4. NewEnd(sz, a) \in Nat
  BY NewEndBeyond
<1>5. CASE (next_page + q) * Page <= NewEnd(sz, a)
  <2> DEFINE n == next_page + q + 1
  <2>1. PagesFor(sz, a) = q + 1
    BY <1>5 DEF PagesFor, q
  <2>2. n * Page = next_page * Page + q * Page + Page
    BY <1>1
  <2>3. next_page * Page \in Nat /\ q * Page \in Nat
    BY <1>1
  <2>4. last_ptr + sz \in Nat /\ last_ptr + sz <= n * Page
    BY <1>1, <1>2, <2>2, <2>3
  <2>5. n * Page = (n * d) * m /\ n * d \in Nat
    BY <1>1, <1>3
  <2>6. align(last_ptr + sz, m) <= (n * d) * m
    <3> HIDE DEF n, m
    <3>1. m \in Nat \ {0}
      BY DEF m
    <3> QED
      BY <2>4, <2>5, <3>1, AlignBelow
  <2>7. next_page + PagesFor(sz, a) = n
    BY <1>1, <2>1
  <2> QED
    BY <2>5, <2>6, <2>7 DEF NewEnd
<1>6. CASE ~((next_page + q) * Page <= NewEnd(sz, a))
  <2>1. PagesFor(sz, a) = q
    BY <1>6 DEF PagesFor, q
  <2>2. (next_page + q) * Page \in Nat
    BY <1>1
  <2> QED
    BY <1>4, <1>6, <2>1, <2>2
<1> QED
  BY <1>5, <1>6

LEMMA MemoryKept ==
  ASSUME AlignmentsFit, PagesAligned, IInv, HeapInMemory, [Next]_vars
  PROVE  HeapInMemory'
<1>1. last_ptr \in Nat /\ next_page \in Nat
  BY DEF IInv, Safe, Typed
<1>2. ASSUME UNCHANGED <<last_ptr, next_page>> PROVE HeapInMemory'
  BY <1>2 DEF HeapInMemory
<1>3. ASSUME NEW size \in Nat, NEW a \in Nat, Amount(a) # 0,
             Page % Amount(a) = 0, Obtain(size, a)
      PROVE  HeapInMemory'
  <2>1. PICK c \in Class \cup {0}, sz \in Nat \ {0} : Serve(c, sz, size, a)
    BY <1>3, Served
  <2>2. CASE FromTail(c, sz, size, a)
    <3>1. /\ last_ptr' = NewEnd(sz, a)
          /\ next_page' = next_page + PagesFor(sz, a)
          /\ next_page + PagesFor(sz, a) <= MaxPages
      BY <2>2 DEF FromTail, Grows
    <3>2. Amount(a) \in Nat \ {0} /\ last_ptr <= next_page * Page
      BY <1>3, RoundedNat DEF HeapInMemory
    <3>3. NewEnd(sz, a) <= (next_page + PagesFor(sz, a)) * Page
      BY <1>1, <1>3, <3>2, EndWithinPages
    <3> QED
      BY <3>1, <3>3 DEF HeapInMemory
  <2>3. CASE ~FromTail(c, sz, size, a)
    BY <1>2, <2>1, <2>3 DEF Serve, FromList, FromChunk, Refuse
  <2> QED
    BY <2>2, <2>3
<1>4. ASSUME NEW size \in Request, NEW a \in Alignment, malloc(size, a)
      PROVE  HeapInMemory'
  BY <1>3, <1>4, RequestsFit DEF malloc, PagesAligned
<1>5. ASSUME NEW b \in blocks, NEW size \in Request, ReallocObtain(b, size)
      PROVE  HeapInMemory'
  <2>1. 1 \in Nat /\ Amount(1) # 0 /\ Page % Amount(1) = 0
    BY RequestsFit, SizesAssumption
  <2> QED
    BY <1>3, <1>5, <2>1, RequestsFit DEF ReallocObtain
<1>6. CASE \/ \E b \in blocks : free(b)
           \/ \E b \in blocks, size \in Request : ReallocInPlace(b, size)
           \/ \E m \in moving : ReallocCopy(m) \/ ReallocTrap(m)
           \/ MergeStep \/ MergeFinish
           \/ eosio_malloc_enable_free \/ eosio_malloc_disable_free
           \/ UNCHANGED vars
  BY <1>2, <1>6 DEF free, ReallocInPlace, ReallocCopy, ReallocTrap, MergeStep,
     MergeFinish, eosio_malloc_enable_free, eosio_malloc_disable_free, vars
<1> QED
  BY <1>4, <1>5, <1>6 DEF Next

(* Everything the allocator owns or hands out lies in pages the node has   *)
(* granted (simple_malloc.cpp:74-94).                                      *)
THEOREM StaysInMemory ==
  AlignmentsFit /\ PagesAligned => (Spec => []InMemory)
<1> SUFFICES ASSUME AlignmentsFit, PagesAligned PROVE Spec => []InMemory
  OBVIOUS
<1>1. Init => HeapInMemory
  BY SizesAssumption DEF Init, HeapInMemory
<1>2. IInv /\ HeapInMemory /\ [Next]_vars => HeapInMemory'
  BY MemoryKept
<1>3. Spec => []IInv
  BY AlwaysIInv
<1>4. IInv /\ HeapInMemory => InMemory
  BY DEF IInv, Safe, InMemory
<1> QED
  BY <1>1, <1>2, <1>3, <1>4, PTL DEF Spec

-----------------------------------------------------------------------------
(* No two chunks of the table touch.                                       *)

(* No chunk starts in the middle of the piece of memory.  An empty chunk   *)
(* is apart from everything, but it could end up inside a larger chunk,    *)
(* and a cut could then stop exactly at it.                                *)
Clear(ptr, sz) ==
  \A j \in Slot : bigchunks[j].ptr # 0 =>
    ~(ptr < bigchunks[j].ptr /\ bigchunks[j].ptr < ptr + sz)

ChunksClear ==
  \A i \in Slot : bigchunks[i].ptr # 0 =>
    Clear(bigchunks[i].ptr, bigchunks[i].capacity)
BlocksClear == \A b \in blocks : b.id = 0 => Clear(b.ptr, b.sz)

(* The slots the loop has passed do not touch what it has gathered.        *)
PieceClear ==
  merging.on =>
    /\ merging.cap > 0
    /\ Clear(merging.ptr, merging.cap)
    /\ \A j \in Slot : j < merging.i => ~Touches(j)
    /\ moving = {}

TableInv ==
  IInv /\ BlocksFit /\ ChunksAreMerged /\ ChunksClear /\ BlocksClear /\ PieceClear

LEMMA ChunkNats ==
  ASSUME Typed, NEW i \in Slot
  PROVE  bigchunks[i].ptr \in Nat /\ bigchunks[i].capacity \in Nat
BY DEF Typed

LEMMA BlockNats ==
  ASSUME Typed, BlocksFit, NEW b \in blocks
  PROVE  /\ b.ptr \in Nat /\ b.sz \in Nat
         /\ b.id = 0 => b.sz > 0
<1>1. b.ptr \in Nat /\ b.sz \in Nat
  BY DEF Typed
<1>2. 1 \in Class /\ Classes[1] \in Nat \ {0}
  BY ClassesAssumption, ClassSizes DEF Class
<1>3. b.id = 0 => Classes[1] < b.sz
  BY <1>2 DEF BlocksFit, Big
<1> QED
  BY <1>1, <1>2, <1>3

(* What the steps leave to show when the table does not change.            *)
LEMMA SameTable ==
  ASSUME TableInv, bigchunks' = bigchunks, merging' = merging, ~merging.on,
         \A b \in blocks' : b.id = 0 => Clear(b.ptr, b.sz)
  PROVE  ChunksAreMerged' /\ ChunksClear' /\ BlocksClear' /\ PieceClear'
<1>1. \A p, n : Clear(p, n)' <=> Clear(p, n)
  BY DEF Clear
<1>2. ChunksAreMerged'
  BY DEF TableInv, ChunksAreMerged
<1>3. ChunksClear'
  BY DEF TableInv, ChunksClear, Clear
<1>4. BlocksClear'
  BY DEF BlocksClear, Clear
<1>5. PieceClear'
  BY DEF PieceClear
<1> QED
  BY <1>2, <1>3, <1>4, <1>5

(* The block at the end of the heap has every chunk before it.             *)
LEMMA TailTable ==
  ASSUME TableInv, ~merging.on, NEW c \in Class \cup {0}, NEW sz \in Nat \ {0},
         NEW size \in Nat, NEW a \in Nat, FromTail(c, sz, size, a),
         merging' = merging
  PROVE  ChunksAreMerged' /\ ChunksClear' /\ BlocksClear' /\ PieceClear'
<1>1. blocks' = blocks \cup {Block(last_ptr, sz, c, size)} /\ bigchunks' = bigchunks
  BY DEF FromTail, Hand
<1>2. Clear(last_ptr, sz)
  <2> SUFFICES ASSUME NEW j \in Slot, bigchunks[j].ptr # 0
               PROVE  ~(last_ptr < bigchunks[j].ptr)
    BY DEF Clear
  <2>1. bigchunks[j].ptr \in Nat /\ bigchunks[j].capacity \in Nat /\ last_ptr \in Nat
    BY DEF TableInv, IInv, Safe, Typed
  <2>2. bigchunks[j].ptr + bigchunks[j].capacity <= last_ptr
    BY DEF TableInv, IInv, Safe, EverythingInHeap, InHeap
  <2> QED
    BY <2>1, <2>2
<1>3. \A b \in blocks' : b.id = 0 => Clear(b.ptr, b.sz)
  BY <1>1, <1>2 DEF TableInv, BlocksClear, Block
<1> QED
  BY <1>1, <1>3, SameTable

(* Cutting a chunk moves its start to a place where nothing ended.         *)
LEMMA ChunkTable ==
  ASSUME TableInv, ~merging.on, NEW c \in Class \cup {0}, NEW sz \in Nat \ {0},
         NEW size \in Nat, NEW a \in Nat, FromChunk(c, sz, size, a),
         merging' = merging
  PROVE  ChunksAreMerged' /\ ChunksClear' /\ BlocksClear' /\ PieceClear'
<1>0. Typed /\ BlocksFit /\ NoOverlap /\ ChunksAreMerged /\ ChunksClear /\ BlocksClear
  BY DEF TableInv, IInv, Safe
<1>1. PICK i \in Slot : /\ bigchunks[i].ptr # 0 /\ bigchunks[i].capacity >= sz
                        /\ blocks' = blocks \cup {Block(bigchunks[i].ptr, sz, c, size)}
                        /\ Cut(i, sz)
  BY DEF FromChunk, ChunkHolds, Hand
<1> DEFINE p == bigchunks[i].ptr
           n == bigchunks[i].capacity
<1>2. p \in Nat /\ n \in Nat /\ sz <= n /\ sz > 0 /\ sz \in Nat /\ p # 0
  BY <1>0, <1>1, ChunkNats
<1>3. /\ bigchunks'[i].ptr = p + sz /\ bigchunks'[i].capacity = n - sz
      /\ \A j \in Slot : j # i => bigchunks'[j] = bigchunks[j]
  BY <1>0, <1>1 DEF Typed, Cut
<1>4. ASSUME NEW j \in Slot, j # i, bigchunks[j].ptr # 0
      PROVE  /\ bigchunks[j].ptr <= p \/ p + n < bigchunks[j].ptr
             /\ bigchunks[j].ptr + bigchunks[j].capacity < p
                \/ p + n < bigchunks[j].ptr
  <2> DEFINE q == bigchunks[j].ptr
             m == bigchunks[j].capacity
  <2>1. q \in Nat /\ m \in Nat
    BY <1>0, ChunkNats
  <2>2. n = 0 \/ m = 0 \/ p + n <= q \/ q + m <= p
    BY <1>0, <1>1, <1>4 DEF NoOverlap, ChunksApart, Apart
  <2>3. q + m # p /\ p + n # q
    BY <1>0, <1>1, <1>4 DEF ChunksAreMerged
  <2>4. ~(p < q /\ q < p + n)
    BY <1>0, <1>1, <1>4 DEF ChunksClear, Clear
  <2> HIDE DEF p, n, q, m
  <2>5. /\ q <= p \/ p + n < q
        /\ q + m < p \/ p + n < q
    BY <1>2, <2>1, <2>2, <2>3, <2>4
  <2> QED
    BY <2>5 DEF p, n, q, m
<1>5. ASSUME NEW x \in Nat, NEW l \in Nat, Clear(x, l),
             ~(x < p + sz /\ p + sz < x + l)
      PROVE  Clear(x, l)'
  <2> SUFFICES ASSUME NEW j \in Slot, bigchunks'[j].ptr # 0
               PROVE  ~(x < bigchunks'[j].ptr /\ bigchunks'[j].ptr < x + l)
    BY DEF Clear
  <2>1. CASE j = i
    BY <1>3, <1>5, <2>1
  <2>2. CASE j # i
    BY <1>3, <1>5, <2>2 DEF Clear
  <2> QED
    BY <2>1, <2>2
<1>6. ChunksAreMerged'
  <2> SUFFICES ASSUME NEW j \in Slot, NEW k \in Slot, j # k,
                      bigchunks'[j].ptr # 0, bigchunks'[k].ptr # 0
               PROVE  bigchunks'[j].ptr + bigchunks'[j].capacity # bigchunks'[k].ptr
    BY DEF ChunksAreMerged
  <2>1. CASE j # i /\ k # i
    BY <1>0, <1>3, <2>1 DEF ChunksAreMerged
  <2>2. CASE j = i /\ k # i
    <3>1. bigchunks'[k] = bigchunks[k] /\ p + n # bigchunks[k].ptr
      BY <1>0, <1>1, <1>3, <2>2 DEF ChunksAreMerged
    <3>2. bigchunks'[j].ptr + bigchunks'[j].capacity = p + n
      <4> HIDE DEF p, n
      <4> QED
        BY <1>2, <1>3, <2>2
    <3> QED
      BY <3>1, <3>2
  <2>3. CASE k = i /\ j # i
    <3>1. bigchunks'[j] = bigchunks[j] /\ bigchunks'[k].ptr = p + sz
          /\ bigchunks[j].ptr # 0
      BY <1>3, <2>3
    <3>2. bigchunks[j].ptr \in Nat /\ bigchunks[j].capacity \in Nat
      BY <1>0, ChunkNats
    <3>3. bigchunks[j].ptr + bigchunks[j].capacity < p \/ p + n < bigchunks[j].ptr
      BY <1>4, <2>3, <3>1
    <3> HIDE DEF p, n
    <3> QED
      BY <1>2, <3>1, <3>2, <3>3
  <2> QED
    BY <2>1, <2>2, <2>3
<1>7. ChunksClear'
  <2> SUFFICES ASSUME NEW j \in Slot, bigchunks'[j].ptr # 0
               PROVE  Clear(bigchunks[j].ptr, bigchunks[j].capacity)'
    BY DEF ChunksClear
  <2>1. CASE j # i
    <3>1. bigchunks'[j] = bigchunks[j] /\ bigchunks[j].ptr # 0
      BY <1>3, <2>1
    <3>2. Clear(bigchunks[j].ptr, bigchunks[j].capacity)
      BY <1>0, <3>1 DEF ChunksClear
    <3>3. bigchunks[j].ptr \in Nat /\ bigchunks[j].capacity \in Nat
      BY <1>0, ChunkNats
    <3>4. n = 0 \/ bigchunks[j].capacity = 0 \/ p + n <= bigchunks[j].ptr
          \/ bigchunks[j].ptr + bigchunks[j].capacity <= p
      BY <1>0, <1>1, <2>1, <3>1 DEF NoOverlap, ChunksApart, Apart
    <3>5. ~(bigchunks[j].ptr < p + sz
            /\ p + sz < bigchunks[j].ptr + bigchunks[j].capacity)
      <4> HIDE DEF p, n
      <4> QED
        BY <1>2, <3>3, <3>4
    <3>6. \A x, l \in Nat : Clear(x, l) /\ ~(x < p + sz /\ p + sz < x + l) =>
            \A k \in Slot : bigchunks'[k].ptr # 0 =>
              ~(x < bigchunks'[k].ptr /\ bigchunks'[k].ptr < x + l)
      BY <1>5 DEF Clear
    <3> QED
      BY <3>1, <3>2, <3>3, <3>5, <3>6 DEF Clear
  <2>2. CASE j = i
    <3> SUFFICES ASSUME NEW k \in Slot, bigchunks'[k].ptr # 0
                 PROVE  ~(/\ bigchunks'[i].ptr < bigchunks'[k].ptr
                          /\ bigchunks'[k].ptr <
                               bigchunks'[i].ptr + bigchunks'[i].capacity)
      BY <2>2 DEF Clear
    <3>1. CASE k = i
      BY <1>2, <1>3, <3>1
    <3>2. CASE k # i
      <4>1. bigchunks'[k] = bigchunks[k] /\ bigchunks[k].ptr # 0
        BY <1>3, <3>2
      <4>2. bigchunks[k].ptr \in Nat
        BY <1>0, ChunkNats
      <4>3. bigchunks[k].ptr <= p \/ p + n < bigchunks[k].ptr
        BY <1>4, <3>2, <4>1
      <4> HIDE DEF p, n
      <4> QED
        BY <1>2, <1>3, <4>1, <4>2, <4>3
    <3> QED
      BY <3>1, <3>2
  <2> QED
    BY <2>1, <2>2
<1>8. BlocksClear'
  <2> SUFFICES ASSUME NEW b \in blocks', b.id = 0
               PROVE  \A k \in Slot : bigchunks'[k].ptr # 0 =>
                        ~(b.ptr < bigchunks'[k].ptr /\ bigchunks'[k].ptr < b.ptr + b.sz)
    BY DEF BlocksClear, Clear
  <2> TAKE k \in Slot
  <2> SUFFICES ASSUME bigchunks'[k].ptr # 0
               PROVE  ~(b.ptr < bigchunks'[k].ptr /\ bigchunks'[k].ptr < b.ptr + b.sz)
    OBVIOUS
  <2>1. CASE b \in blocks /\ k # i
    <3>1. Clear(b.ptr, b.sz) /\ bigchunks'[k] = bigchunks[k]
      BY <1>0, <1>3, <2>1 DEF BlocksClear
    <3> QED
      BY <3>1 DEF Clear
  <2>2. CASE b \in blocks /\ k = i
    <3>1. b.ptr \in Nat /\ b.sz \in Nat
      BY <1>0, <2>2, BlockNats
    <3>2. b.sz = 0 \/ n = 0 \/ b.ptr + b.sz <= p \/ p + n <= b.ptr
      BY <1>0, <1>1, <2>2 DEF NoOverlap, BlocksApartFromChunks, Apart
    <3> HIDE DEF p, n
    <3> QED
      BY <1>2, <1>3, <2>2, <3>1, <3>2
  <2>3. CASE b = Block(p, sz, c, size)
    <3>1. b.ptr = p /\ b.sz = sz
      BY <2>3 DEF Block
    <3>2. CASE k = i
      BY <1>2, <1>3, <3>1, <3>2
    <3>3. CASE k # i
      <4>1. bigchunks'[k] = bigchunks[k] /\ bigchunks[k].ptr # 0
        BY <1>3, <3>3
      <4>2. bigchunks[k].ptr \in Nat
        BY <1>0, ChunkNats
      <4>3. bigchunks[k].ptr <= p \/ p + n < bigchunks[k].ptr
        BY <1>4, <3>3, <4>1
      <4> HIDE DEF p, n
      <4> QED
        BY <1>2, <3>1, <4>1, <4>2, <4>3
    <3> QED
      BY <3>2, <3>3
  <2> QED
    BY <1>1, <2>1, <2>2, <2>3
<1>9. PieceClear'
  BY DEF PieceClear
<1> QED
  BY <1>6, <1>7, <1>8, <1>9

LEMMA ObtainTable ==
  ASSUME TableInv, ~merging.on, NEW size \in Nat, NEW a \in Nat, Amount(a) # 0,
         Obtain(size, a), merging' = merging
  PROVE  ChunksAreMerged' /\ ChunksClear' /\ BlocksClear' /\ PieceClear'
<1>1. PICK c \in Class \cup {0}, sz \in Nat \ {0} :
        Serve(c, sz, size, a) /\ Shape(c, sz)
  BY Served
<1>2. CASE FromList(c, sz, size)
  <2>1. c # 0 /\ bigchunks' = bigchunks
        /\ blocks' = blocks \cup {Block(Head(free_lists[c]), sz, c, size)}
    BY <1>2 DEF FromList, Hand
  <2>2. \A b \in blocks' : b.id = 0 => Clear(b.ptr, b.sz)
    BY <2>1 DEF TableInv, BlocksClear, Block
  <2> QED
    BY <2>1, <2>2, SameTable
<1>3. CASE FromTail(c, sz, size, a)
  BY <1>3, TailTable
<1>4. CASE FromChunk(c, sz, size, a)
  BY <1>4, ChunkTable
<1>5. CASE Refuse(c, sz, a)
  <2>1. blocks' = blocks /\ bigchunks' = bigchunks
    BY <1>5 DEF Refuse
  <2>2. \A b \in blocks' : b.id = 0 => Clear(b.ptr, b.sz)
    BY <2>1 DEF TableInv, BlocksClear
  <2> QED
    BY <2>1, <2>2, SameTable
<1> QED
  BY <1>1, <1>2, <1>3, <1>4, <1>5 DEF Serve

(* A released big block starts the loop as a piece no chunk starts in.     *)
LEMMA ReleaseTable ==
  ASSUME TableInv, ~merging.on, NEW b \in blocks, Release(b),
         bigchunks' = bigchunks, moving' = {}
  PROVE  ChunksAreMerged' /\ ChunksClear' /\ BlocksClear' /\ PieceClear'
<1>1. blocks' = blocks \ {b}
  BY DEF Release
<1>2. \A d \in blocks' : d.id = 0 => Clear(d.ptr, d.sz)
  BY <1>1 DEF TableInv, BlocksClear
<1>3. CASE ~(free_enabled /\ b.id = 0)
  <2>1. merging' = merging
    BY <1>3 DEF Release
  <2> QED
    BY <1>2, <2>1, SameTable
<1>4. CASE free_enabled /\ b.id = 0
  <2>1. merging'.ptr = b.ptr /\ merging'.cap = b.sz /\ merging'.i = 1
    BY <1>4 DEF Release, MergeBegin
  <2>2. ChunksAreMerged' /\ ChunksClear' /\ BlocksClear'
    BY <1>2 DEF TableInv, ChunksAreMerged, ChunksClear, BlocksClear, Clear
  <2>3. Clear(b.ptr, b.sz) /\ b.sz > 0
    BY <1>4, BlockNats DEF TableInv, BlocksClear, IInv, Safe
  <2>4. Clear(merging.ptr, merging.cap)'
    BY <2>1, <2>3 DEF Clear
  <2>5. \A j \in Slot : ~(j < 1)
    BY DEF Slot
  <2> QED
    BY <2>1, <2>2, <2>3, <2>4, <2>5 DEF PieceClear
<1> QED
  BY <1>3, <1>4


(* A turn of the loop: what touches the piece is joined to it, and no      *)
(* earlier slot touches what was joined.                                   *)
LEMMA MergeStepTable ==
  ASSUME TableInv, MergeStep
  PROVE  ChunksAreMerged' /\ ChunksClear' /\ BlocksClear' /\ PieceClear'
<1> DEFINE i == merging.i
           p == merging.ptr
           n == merging.cap
           q == bigchunks[i].ptr
           m == bigchunks[i].capacity
<1>0. Typed /\ BlocksFit /\ NoOverlap /\ ChunksAreMerged /\ ChunksClear /\ BlocksClear
  BY DEF TableInv, IInv, Safe
<1>1. /\ merging.on /\ i \in Slot /\ p \in Nat /\ n \in Nat /\ n > 0
      /\ q \in Nat /\ m \in Nat /\ moving = {}
      /\ Clear(p, n) /\ \A j \in Slot : j < i => ~Touches(j)
  <2>1. merging.on /\ i \in Slot
    BY <1>0 DEF MergeStep, Typed, Slot
  <2>2. p \in Nat /\ n \in Nat /\ q \in Nat /\ m \in Nat
    BY <1>0, <2>1 DEF Typed
  <2> QED
    BY <2>1, <2>2 DEF TableInv, PieceClear
<1>2. /\ bigchunks' = IF Touches(i) THEN [bigchunks EXCEPT ![i] = NoChunk]
                                    ELSE bigchunks
      /\ merging'.on /\ merging'.i = i + 1
      /\ merging'.ptr = IF TouchesRight(i) THEN q ELSE p
      /\ merging'.cap = IF Touches(i) THEN n + m ELSE n
      /\ blocks' = blocks /\ moving' = moving
  BY <1>1 DEF MergeStep
<1>3. \A j \in Slot : bigchunks'[j].ptr # 0 =>
        bigchunks'[j] = bigchunks[j] /\ (Touches(i) => j # i)
  BY <1>0, <1>1, <1>2 DEF Typed, NoChunk
<1>4. ChunksAreMerged'
  BY <1>0, <1>3 DEF ChunksAreMerged
<1>5. ChunksClear'
  BY <1>0, <1>3 DEF ChunksClear, Clear
<1>6. BlocksClear'
  BY <1>0, <1>2, <1>3 DEF BlocksClear, Clear
<1>7. ASSUME NEW j \in Slot, bigchunks'[j].ptr # 0
      PROVE  /\ ~(merging'.ptr < bigchunks'[j].ptr
                  /\ bigchunks'[j].ptr < merging'.ptr + merging'.cap)
             /\ j < i + 1 =>
                  /\ bigchunks'[j].ptr + bigchunks'[j].capacity # merging'.ptr
                  /\ merging'.ptr + merging'.cap # bigchunks'[j].ptr
  <2> DEFINE x == bigchunks[j].ptr
             l == bigchunks[j].capacity
  <2>1. /\ bigchunks'[j] = bigchunks[j] /\ x \in Nat /\ l \in Nat /\ x # 0
        /\ j \in Nat /\ i \in Nat
    BY <1>0, <1>1, <1>3, <1>7, ChunkNats DEF Slot
  <2>2. ~(p < x /\ x < p + n)
    BY <1>1, <2>1 DEF Clear
  <2>3. j < i => x + l # p /\ p + n # x
    BY <1>1, <2>1 DEF Touches, TouchesRight, TouchesLeft
  <2>4. CASE ~Touches(i)
    <3>1. merging'.ptr = p /\ merging'.cap = n
      BY <1>2, <2>4 DEF Touches
    <3>2. j = i => x + l # p /\ p + n # x
      BY <2>1, <2>4 DEF Touches, TouchesRight, TouchesLeft
    <3>3. j < i + 1 => j < i \/ j = i
      BY <2>1
    <3> QED
      BY <2>1, <2>2, <2>3, <3>1, <3>2, <3>3
  <2>5. CASE Touches(i)
    <3>1. j # i /\ q # 0
      BY <1>3, <1>7, <2>5 DEF Touches, TouchesRight, TouchesLeft
    <3>2. x + l # q /\ q + m # x
      BY <1>0, <1>1, <2>1, <3>1 DEF ChunksAreMerged
    <3>3. ~(q < x /\ x < q + m)
      BY <1>0, <1>1, <2>1, <3>1 DEF ChunksClear, Clear
    <3>4. l = 0 \/ m = 0 \/ x + l <= q \/ q + m <= x
      BY <1>0, <1>1, <2>1, <3>1 DEF NoOverlap, ChunksApart, Apart
    <3>5. j < i + 1 => j < i
      BY <2>1, <3>1
    <3>6. CASE TouchesRight(i)
      <4>1. q + m = p /\ merging'.ptr = q /\ merging'.cap = n + m
        BY <1>2, <2>5, <3>6 DEF TouchesRight
      <4>2. p + n = q + (n + m)
        BY <1>1, <4>1
      <4>3. ~(q < x /\ x < q + (n + m))
        BY <1>1, <2>1, <2>2, <3>2, <3>3, <4>1, <4>2
      <4> QED
        BY <2>1, <2>3, <3>2, <3>5, <4>1, <4>2, <4>3
    <3>7. CASE ~TouchesRight(i)
      <4>1. p + n = q /\ merging'.ptr = p /\ merging'.cap = n + m
        BY <1>2, <2>5, <3>7 DEF Touches, TouchesLeft
      <4>2. q + m = p + (n + m)
        BY <1>1, <4>1
      <4>3. x # q
        BY <1>1, <2>1, <3>2, <3>4
      <4>4. ~(p < x /\ x < p + (n + m))
        BY <1>1, <2>1, <2>2, <3>3, <4>1, <4>2, <4>3
      <4> QED
        BY <2>1, <2>3, <3>2, <3>5, <4>1, <4>2, <4>4
    <3> QED
      BY <3>6, <3>7
  <2> QED
    BY <2>4, <2>5
<1>8. PieceClear'
  <2>1. merging'.cap > 0 /\ moving' = {}
    BY <1>1, <1>2
  <2>2. Clear(merging.ptr, merging.cap)'
    BY <1>7 DEF Clear
  <2>3. \A j \in Slot : j < merging'.i => ~Touches(j)'
    BY <1>2, <1>7 DEF Touches, TouchesRight, TouchesLeft
  <2> QED
    BY <2>1, <2>2, <2>3 DEF PieceClear
<1> QED
  BY <1>4, <1>5, <1>6, <1>8

(* At its end the loop has passed every slot.                              *)
LEMMA MergeFinishTable ==
  ASSUME TableInv, MergeFinish
  PROVE  ChunksAreMerged' /\ ChunksClear' /\ BlocksClear' /\ PieceClear'
<1> DEFINE p == merging.ptr
           n == merging.cap
           e == merging.idx
           held == [ptr |-> p, capacity |-> n]
<1>0. Typed /\ BlocksFit /\ NoOverlap /\ ChunksAreMerged /\ ChunksClear /\ BlocksClear
  BY DEF TableInv, IInv, Safe
<1>1. /\ merging.on /\ e \in Slot /\ p \in Nat /\ n \in Nat /\ n > 0
      /\ Clear(p, n) /\ \A j \in Slot : ~Touches(j)
  <2>1. merging.on /\ e \in Slot /\ p \in Nat /\ n \in Nat
    BY <1>0 DEF MergeFinish, Typed
  <2>2. \A j \in Slot : j < merging.i
    BY <1>0, SizesAssumption DEF MergeFinish, Typed, Slot
  <2> QED
    BY <2>1, <2>2 DEF TableInv, PieceClear
<1>2. merging' = NoMerge /\ blocks' = blocks
  BY DEF MergeFinish
<1>3. \/ bigchunks' = bigchunks
      \/ bigchunks' = [bigchunks EXCEPT ![e] = held]
  BY DEF MergeFinish
<1>4. PieceClear'
  BY <1>2 DEF PieceClear, NoMerge
<1>5. CASE bigchunks' = bigchunks
  BY <1>0, <1>2, <1>4, <1>5
  DEF ChunksAreMerged, ChunksClear, BlocksClear, Clear
<1>6. CASE bigchunks' = [bigchunks EXCEPT ![e] = held]
  <2>1. /\ bigchunks'[e].ptr = p /\ bigchunks'[e].capacity = n
        /\ \A j \in Slot : j # e => bigchunks'[j] = bigchunks[j]
    BY <1>0, <1>1, <1>6 DEF Typed
  <2>2. ASSUME NEW j \in Slot, bigchunks[j].ptr # 0
        PROVE  /\ bigchunks[j].ptr \in Nat /\ bigchunks[j].capacity \in Nat
               /\ bigchunks[j].ptr + bigchunks[j].capacity # p
               /\ p + n # bigchunks[j].ptr
               /\ ~(p < bigchunks[j].ptr /\ bigchunks[j].ptr < p + n)
               /\ ~(bigchunks[j].ptr < p
                    /\ p < bigchunks[j].ptr + bigchunks[j].capacity)
    <3> DEFINE x == bigchunks[j].ptr
               l == bigchunks[j].capacity
    <3>1. x \in Nat /\ l \in Nat
      BY <1>0, ChunkNats
    <3>2. x + l # p /\ p + n # x
      BY <1>1, <2>2 DEF Touches, TouchesRight, TouchesLeft
    <3>3. ~(p < x /\ x < p + n)
      BY <1>1, <2>2 DEF Clear
    <3>4. l = 0 \/ n = 0 \/ x + l <= p \/ p + n <= x
      BY <1>0, <1>1, <2>2 DEF NoOverlap, HeldApart, Apart
    <3>5. ~(x < p /\ p < x + l)
      BY <1>1, <3>1, <3>4
    <3> QED
      BY <3>1, <3>2, <3>3, <3>5
  <2>3. ChunksAreMerged'
    <3> SUFFICES ASSUME NEW j \in Slot, NEW k \in Slot, j # k,
                        bigchunks'[j].ptr # 0, bigchunks'[k].ptr # 0
                 PROVE  bigchunks'[j].ptr + bigchunks'[j].capacity # bigchunks'[k].ptr
      BY DEF ChunksAreMerged
    <3>1. CASE j # e /\ k # e
      BY <1>0, <2>1, <3>1 DEF ChunksAreMerged
    <3>2. CASE j = e /\ k # e
      BY <2>1, <2>2, <3>2
    <3>3. CASE j # e /\ k = e
      BY <2>1, <2>2, <3>3
    <3> QED
      BY <3>1, <3>2, <3>3
  <2>4. ChunksClear'
    <3> SUFFICES ASSUME NEW j \in Slot, NEW k \in Slot,
                        bigchunks'[j].ptr # 0, bigchunks'[k].ptr # 0
                 PROVE  ~(bigchunks'[j].ptr < bigchunks'[k].ptr
                          /\ bigchunks'[k].ptr <
                               bigchunks'[j].ptr + bigchunks'[j].capacity)
      BY DEF ChunksClear, Clear
    <3>1. CASE j # e /\ k # e
      BY <1>0, <2>1, <3>1 DEF ChunksClear, Clear
    <3>2. CASE j = e /\ k # e
      BY <2>1, <2>2, <3>2
    <3>3. CASE j # e /\ k = e
      BY <2>1, <2>2, <3>3
    <3>4. CASE j = e /\ k = e
      BY <1>1, <2>1, <3>4
    <3> QED
      BY <3>1, <3>2, <3>3, <3>4
  <2>5. BlocksClear'
    <3> SUFFICES ASSUME NEW b \in blocks, b.id = 0, NEW k \in Slot,
                        bigchunks'[k].ptr # 0
                 PROVE  ~(b.ptr < bigchunks'[k].ptr
                          /\ bigchunks'[k].ptr < b.ptr + b.sz)
      BY <1>2 DEF BlocksClear, Clear
    <3>1. CASE k # e
      BY <1>0, <2>1, <3>1 DEF BlocksClear, Clear
    <3>2. CASE k = e
      <4>1. b.ptr \in Nat /\ b.sz \in Nat
        BY <1>0, BlockNats
      <4>2. b.sz = 0 \/ n = 0 \/ b.ptr + b.sz <= p \/ p + n <= b.ptr
        BY <1>0, <1>1 DEF NoOverlap, HeldApart, Apart
      <4>3. ~(b.ptr < p /\ p < b.ptr + b.sz)
        BY <1>1, <4>1, <4>2
      <4> QED
        BY <2>1, <3>2, <4>3
    <3> QED
      BY <3>1, <3>2
  <2> QED
    BY <1>4, <2>3, <2>4, <2>5
<1> QED
  BY <1>3, <1>5, <1>6

LEMMA InitTable == Init => TableInv
<1> SUFFICES ASSUME Init PROVE TableInv
  OBVIOUS
<1>1. blocks = {} /\ ~merging.on /\ \A i \in Slot : bigchunks[i].ptr = 0
  BY DEF Init, NoChunk, NoMerge
<1>2. IInv
  BY InitSafe
<1> QED
  BY <1>1, <1>2
  DEF TableInv, BlocksFit, ChunksAreMerged, ChunksClear, BlocksClear, PieceClear, Clear

LEMMA TableKept ==
  ASSUME AlignmentsFit, TableInv, [Next]_vars
  PROVE  TableInv'
<1> DEFINE Kept == ChunksAreMerged' /\ ChunksClear' /\ BlocksClear' /\ PieceClear'
<1>1. IInv /\ BlocksFit
  BY DEF TableInv
<1>2. IInv' /\ BlocksFit'
  BY <1>1, NextSafe, FitKept
<1>3. \A b \in blocks : b.id = 0 => Clear(b.ptr, b.sz)
  BY DEF TableInv, BlocksClear
<1>4. ASSUME NEW size \in Request, NEW a \in Alignment, malloc(size, a)
      PROVE  Kept
  BY <1>4, RequestsFit, ObtainTable DEF malloc, Idle
<1>5. ASSUME NEW b \in blocks, free(b) PROVE Kept
  BY <1>5, ReleaseTable DEF free, Idle
<1>6. ASSUME NEW b \in blocks, NEW size \in Request, ReallocInPlace(b, size)
      PROVE  Kept
  <2>1. /\ ~merging.on /\ bigchunks' = bigchunks /\ merging' = merging
        /\ blocks' = (blocks \ {b}) \cup {Block(b.ptr, b.sz, b.id, size)}
    BY <1>6 DEF ReallocInPlace, Idle
  <2>2. \A d \in blocks' : d.id = 0 => Clear(d.ptr, d.sz)
    BY <1>3, <2>1 DEF Block
  <2> QED
    BY <2>1, <2>2, SameTable
<1>7. ASSUME NEW b \in blocks, NEW size \in Request, ReallocObtain(b, size)
      PROVE  Kept
  <2>1. 1 \in Nat /\ Amount(1) # 0
    BY RequestsFit
  <2> QED
    BY <1>7, <2>1, RequestsFit, ObtainTable DEF ReallocObtain, Idle
<1>8. ASSUME NEW r \in moving, ReallocCopy(r) PROVE Kept
  <2>1. r.old \in blocks /\ ~merging.on
    BY DEF TableInv, IInv, MovingHeld, PieceClear
  <2> QED
    BY <1>8, <2>1, ReleaseTable DEF ReallocCopy
<1>9. ASSUME NEW r \in moving, ReallocTrap(r) PROVE Kept
  <2>1. ~merging.on /\ bigchunks' = bigchunks /\ merging' = merging /\ blocks' = blocks
    BY <1>9 DEF TableInv, PieceClear, ReallocTrap
  <2> QED
    BY <1>3, <2>1, SameTable
<1>10. ASSUME MergeStep PROVE Kept
  BY <1>10, MergeStepTable
<1>11. ASSUME MergeFinish PROVE Kept
  BY <1>11, MergeFinishTable
<1>12. ASSUME eosio_malloc_enable_free \/ eosio_malloc_disable_free PROVE Kept
  <2>1. ~merging.on /\ bigchunks' = bigchunks /\ merging' = merging /\ blocks' = blocks
    BY <1>12 DEF eosio_malloc_enable_free, eosio_malloc_disable_free, Idle
  <2> QED
    BY <1>3, <2>1, SameTable
<1>13. ASSUME UNCHANGED vars PROVE Kept
  <2>1. UNCHANGED <<bigchunks, merging, blocks, moving>>
    BY <1>13 DEF vars
  <2> QED
    BY <2>1 DEF TableInv, ChunksAreMerged, ChunksClear, BlocksClear, PieceClear,
       Clear, Touches, TouchesRight, TouchesLeft
<1>14. Kept
  BY <1>4, <1>5, <1>6, <1>7, <1>8, <1>9, <1>10, <1>11, <1>12, <1>13 DEF Next
<1> QED
  BY <1>2, <1>14 DEF TableInv

(* Freed big blocks that touch are one chunk, in whatever order they are   *)
(* freed and allocated again (big_memory_alloc.hpp:26-39).                 *)
THEOREM ChunksAlwaysMerged == AlignmentsFit => (Spec => []ChunksAreMerged)
<1> SUFFICES ASSUME AlignmentsFit PROVE Spec => []ChunksAreMerged
  OBVIOUS
<1>1. TableInv /\ [Next]_vars => TableInv'
  BY TableKept
<1>2. TableInv => ChunksAreMerged
  BY DEF TableInv
<1> QED
  BY <1>1, <1>2, InitTable, PTL DEF Spec

-----------------------------------------------------------------------------
(* What is given up.                                                       *)

(* The unit x belongs to something.                                        *)
Has(x) ==
  \/ \E b \in blocks : x \in Units(b.ptr, b.sz)
  \/ \E c \in Class : \E n \in DOMAIN free_lists[c] : x \in Units(free_lists[c][n], Classes[c])
  \/ \E i \in Slot : x \in Units(bigchunks[i].ptr, bigchunks[i].capacity)
  \/ x \in Units(merging.ptr, merging.cap)
OwnedHas == \A x : x \in Owned <=> Has(x)

LEMMA OwnedIs == OwnedHas
<1> SUFFICES ASSUME NEW x PROVE x \in Owned <=> Has(x)
  BY DEF OwnedHas
<1> DEFINE A == {Units(b.ptr, b.sz) : b \in blocks}
           F(c) == {Units(free_lists[c][n], Classes[c]) : n \in DOMAIN free_lists[c]}
           B == UNION {F(c) : c \in Class}
           C == {Units(bigchunks[i].ptr, bigchunks[i].capacity) : i \in Slot}
           D == {Units(merging.ptr, merging.cap)}
<1>1. Owned = UNION (A \cup B \cup C \cup D)
  BY DEF Owned
<1>2. (\E u \in A : x \in u) <=> \E b \in blocks : x \in Units(b.ptr, b.sz)
  OBVIOUS
<1>3. (\E u \in B : x \in u) <=>
        \E c \in Class : \E n \in DOMAIN free_lists[c] :
          x \in Units(free_lists[c][n], Classes[c])
  OBVIOUS
<1>4. (\E u \in C : x \in u) <=>
        \E i \in Slot : x \in Units(bigchunks[i].ptr, bigchunks[i].capacity)
  OBVIOUS
<1>5. (\E u \in D : x \in u) <=> x \in Units(merging.ptr, merging.cap)
  OBVIOUS
<1> HIDE DEF A, B, C, D
<1>6. x \in Owned <=>
        \/ (\E u \in A : x \in u) \/ (\E u \in B : x \in u)
        \/ (\E u \in C : x \in u) \/ (\E u \in D : x \in u)
  BY <1>1
<1> QED
  BY <1>2, <1>3, <1>4, <1>5, <1>6 DEF Has

(* Nothing is given up if each piece stays, whole or in parts.             *)
LEMMA NothingLost ==
  ASSUME \A x : Has(x) => Has(x)'
  PROVE  Owned \ Owned' = {}
<1>1. OwnedHas /\ OwnedHas'
  BY OwnedIs, PTL
<1> QED
  BY <1>1 DEF OwnedHas

(* The loop has found the smallest of the slots it has passed, and nothing *)
(* moves while it runs.                                                    *)
LoopInv ==
  IF merging.on
  THEN /\ moving = {}
       /\ merging.idx < merging.i \/ (merging.idx = 1 /\ merging.i = 1)
       /\ merging.least = bigchunks[merging.idx].capacity
       /\ \A j \in Slot : j < merging.i => merging.least <= bigchunks[j].capacity
  ELSE merging = NoMerge

(* What is behind the head of a list is in the tail, and the elements of a *)
(* list are behind what is put before them.                                *)
LEMMA TailHas ==
  ASSUME NEW s \in Seq(Nat), NEW n \in DOMAIN s, n # 1
  PROVE  n - 1 \in DOMAIN Tail(s) /\ Tail(s)[n - 1] = s[n]
OBVIOUS

LEMMA PushHas ==
  ASSUME NEW s \in Seq(Nat), NEW p \in Nat
  PROVE  /\ 1 \in DOMAIN (<<p>> \o s) /\ (<<p>> \o s)[1] = p
         /\ \A n \in DOMAIN s : n + 1 \in DOMAIN (<<p>> \o s) /\ (<<p>> \o s)[n + 1] = s[n]
OBVIOUS

(* While nothing is merged, no memory is held for it.                      *)
LEMMA NoneHeld ==
  ASSUME LoopInv, ~merging.on
  PROVE  \A x : x \notin Units(merging.ptr, merging.cap)
BY DEF LoopInv, NoMerge, Units

(* What is handed out was in a list, behind the end, or in a chunk.        *)
LEMMA ObtainLosesNothing ==
  ASSUME IInv, LoopInv, ~merging.on, NEW size \in Nat, NEW a \in Nat, Amount(a) # 0,
         Obtain(size, a), merging' = merging
  PROVE  Owned \ Owned' = {}
<1> SUFFICES ASSUME NEW x, Has(x) PROVE Has(x)'
  BY NothingLost
<1>1. PICK c \in Class \cup {0}, sz \in Nat :
        Serve(c, sz, size, a) /\ (c # 0 => sz = Classes[c])
  BY ClassSizes, RoundedNat DEF Obtain
<1>2. x \notin Units(merging.ptr, merging.cap)
  BY NoneHeld
<1>3. CASE FromList(c, sz, size)
  <2>1. /\ c \in Class /\ sz = Classes[c] /\ free_lists[c] \in Seq(Nat) /\ free_lists[c] # <<>>
        /\ free_lists' = [free_lists EXCEPT ![c] = Tail(@)] /\ bigchunks' = bigchunks
        /\ blocks' = blocks \cup {Block(Head(free_lists[c]), sz, c, size)}
    BY <1>1, <1>3 DEF FromList, Hand, IInv, Safe, Typed
  <2>2. CASE \E b \in blocks : x \in Units(b.ptr, b.sz)
    BY <2>1, <2>2 DEF Has
  <2>3. ASSUME NEW d \in Class, NEW n \in DOMAIN free_lists[d],
               x \in Units(free_lists[d][n], Classes[d])
        PROVE  Has(x)'
    <3>1. CASE d # c
      <4>1. free_lists'[d] = free_lists[d]
        BY <2>1, <3>1 DEF IInv, Safe, Typed
      <4> QED
        BY <2>3, <4>1 DEF Has
    <3>2. CASE d = c /\ n = 1
      <4> DEFINE b == Block(Head(free_lists[c]), sz, c, size)
      <4>1. b \in blocks' /\ b.ptr = free_lists[d][n] /\ b.sz = Classes[d]
        BY <2>1, <3>2 DEF Block
      <4> QED
        BY <2>3, <4>1 DEF Has
    <3>3. CASE d = c /\ n # 1
      <4>1. /\ n - 1 \in DOMAIN Tail(free_lists[c])
            /\ Tail(free_lists[c])[n - 1] = free_lists[c][n]
        BY <2>1, <3>3, TailHas
      <4>2. free_lists'[c] = Tail(free_lists[c])
        BY <2>1 DEF IInv, Safe, Typed
      <4> QED
        BY <2>1, <2>3, <3>3, <4>1, <4>2 DEF Has
    <3> QED
      BY <3>1, <3>2, <3>3
  <2>4. CASE \E i \in Slot : x \in Units(bigchunks[i].ptr, bigchunks[i].capacity)
    BY <2>1, <2>4 DEF Has
  <2> QED
    BY <1>2, <2>2, <2>3, <2>4 DEF Has
<1>4. CASE FromTail(c, sz, size, a) \/ Refuse(c, sz, a)
  <2>1. blocks \subseteq blocks' /\ UNCHANGED <<free_lists, bigchunks, merging>>
    BY <1>4 DEF FromTail, Refuse, Hand
  <2> QED
    BY <2>1 DEF Has
<1>5. CASE FromChunk(c, sz, size, a)
  <2>1. PICK i \in Slot :
          /\ ChunkHolds(i, sz) /\ free_lists' = free_lists
          /\ blocks' = blocks \cup {Block(bigchunks[i].ptr, sz, c, size)}
          /\ bigchunks' = [bigchunks EXCEPT ![i] =
                             [ptr |-> @.ptr + sz, capacity |-> @.capacity - sz]]
    BY <1>5 DEF FromChunk, Hand, Cut
  <2>2. /\ bigchunks[i].ptr \in Nat /\ bigchunks[i].capacity \in Nat
        /\ bigchunks[i].capacity >= sz
        /\ bigchunks'[i].ptr = bigchunks[i].ptr + sz
        /\ bigchunks'[i].capacity = bigchunks[i].capacity - sz
        /\ \A j \in Slot : j # i => bigchunks'[j] = bigchunks[j]
    BY <2>1, ChunkNats DEF ChunkHolds, IInv, Safe, Typed
  <2>3. ASSUME NEW j \in Slot, x \in Units(bigchunks[j].ptr, bigchunks[j].capacity)
        PROVE  Has(x)'
    <3>1. CASE j # i
      BY <2>2, <2>3, <3>1 DEF Has
    <3>2. CASE j = i
      <4> DEFINE b == Block(bigchunks[i].ptr, sz, c, size)
      <4>1. b \in blocks' /\ b.ptr = bigchunks[i].ptr /\ b.sz = sz
        BY <2>1 DEF Block
      <4>2. x \in Units(b.ptr, b.sz) \/ x \in Units(bigchunks'[i].ptr, bigchunks'[i].capacity)
        BY <2>2, <2>3, <3>2, <4>1 DEF Units
      <4> HIDE DEF b
      <4> QED
        BY <4>1, <4>2 DEF Has
    <3> QED
      BY <3>1, <3>2
  <2>4. CASE \E b \in blocks : x \in Units(b.ptr, b.sz)
    BY <2>1, <2>4 DEF Has
  <2>5. CASE \E d \in Class : \E n \in DOMAIN free_lists[d] :
               x \in Units(free_lists[d][n], Classes[d])
    BY <2>1, <2>5 DEF Has
  <2> QED
    BY <1>2, <2>3, <2>4, <2>5 DEF Has
<1> QED
  BY <1>1, <1>3, <1>4, <1>5 DEF Serve

(* What is released goes to its list, or is held to be merged.             *)
LEMMA ReleaseLosesNothing ==
  ASSUME IInv, LoopInv, ~merging.on, free_enabled, NEW b \in blocks, Release(b),
         bigchunks' = bigchunks
  PROVE  Owned \ Owned' = {}
<1> SUFFICES ASSUME NEW x, Has(x) PROVE Has(x)'
  BY NothingLost
<1>1. blocks' = blocks \ {b} /\ b.id \in Class \cup {0} /\ b.ptr \in Nat /\ 0 \notin Class
  BY DEF Release, IInv, Safe, Typed, Class
<1>2. x \notin Units(merging.ptr, merging.cap)
  BY NoneHeld
<1>3. CASE \E i \in Slot : x \in Units(bigchunks[i].ptr, bigchunks[i].capacity)
  BY <1>3 DEF Has
<1>4. CASE b.id = 0
  <2>1. merging'.ptr = b.ptr /\ merging'.cap = b.sz /\ free_lists' = free_lists
    BY <1>4 DEF Release, MergeBegin
  <2>2. CASE \E d \in blocks : x \in Units(d.ptr, d.sz)
    BY <1>1, <2>1, <2>2 DEF Has
  <2>3. CASE \E d \in Class : \E n \in DOMAIN free_lists[d] :
               x \in Units(free_lists[d][n], Classes[d])
    BY <2>1, <2>3 DEF Has
  <2> QED
    BY <1>2, <1>3, <2>2, <2>3 DEF Has
<1>5. CASE b.id # 0
  <2>1. /\ b.id \in Class /\ merging' = merging /\ b.sz = Classes[b.id]
        /\ free_lists' = [free_lists EXCEPT ![b.id] = <<b.ptr>> \o @]
        /\ free_lists[b.id] \in Seq(Nat)
    BY <1>1, <1>5 DEF Release, IInv, Safe, SmallShape, Typed
  <2> DEFINE q == free_lists[b.id]
  <2>2. /\ free_lists'[b.id] = <<b.ptr>> \o q
        /\ \A d \in Class : d # b.id => free_lists'[d] = free_lists[d]
    BY <2>1 DEF IInv, Safe, Typed
  <2>3. /\ 1 \in DOMAIN (<<b.ptr>> \o q) /\ (<<b.ptr>> \o q)[1] = b.ptr
        /\ \A n \in DOMAIN q :
             n + 1 \in DOMAIN (<<b.ptr>> \o q) /\ (<<b.ptr>> \o q)[n + 1] = q[n]
    BY <1>1, <2>1, PushHas
  <2>4. ASSUME NEW d \in blocks, x \in Units(d.ptr, d.sz) PROVE Has(x)'
    <3>1. CASE d = b
      <4>1. /\ 1 \in DOMAIN free_lists'[b.id] /\ free_lists'[b.id][1] = b.ptr
            /\ x \in Units(b.ptr, Classes[b.id])
        BY <2>1, <2>2, <2>3, <2>4, <3>1
      <4> QED
        BY <2>1, <4>1 DEF Has
    <3>2. CASE d # b
      BY <1>1, <2>4, <3>2 DEF Has
    <3> QED
      BY <3>1, <3>2
  <2>5. ASSUME NEW d \in Class, NEW n \in DOMAIN free_lists[d],
               x \in Units(free_lists[d][n], Classes[d])
        PROVE  Has(x)'
    <3>1. CASE d = b.id
      <4>1. n + 1 \in DOMAIN free_lists'[d] /\ free_lists'[d][n + 1] = free_lists[d][n]
        BY <2>2, <2>3, <2>5, <3>1
      <4> QED
        BY <2>5, <4>1 DEF Has
    <3>2. CASE d # b.id
      BY <2>2, <2>5, <3>2 DEF Has
    <3> QED
      BY <3>1, <3>2
  <2> QED
    BY <1>2, <1>3, <2>4, <2>5 DEF Has
<1> QED
  BY <1>4, <1>5

(* A chunk that is merged is part of the piece, at one of its ends.        *)
LEMMA MergeLosesNothing ==
  ASSUME IInv, MergeStep
  PROVE  Owned \ Owned' = {}
<1> SUFFICES ASSUME NEW x, Has(x) PROVE Has(x)'
  BY NothingLost
<1> DEFINE i == merging.i ch == bigchunks[i]
<1>1. /\ i \in Slot /\ merging.ptr \in Nat /\ merging.cap \in Nat
      /\ ch.ptr \in Nat /\ ch.capacity \in Nat
      /\ UNCHANGED <<blocks, free_lists>>
  BY SizesAssumption DEF MergeStep, IInv, Safe, Typed, Slot
<1>2. CASE ~Touches(i)
  <2>1. bigchunks' = bigchunks /\ merging'.cap = merging.cap /\ merging'.ptr = merging.ptr
    BY <1>1, <1>2 DEF MergeStep, Touches
  <2> QED
    BY <1>1, <2>1 DEF Has
<1>3. CASE Touches(i)
  <2>1. /\ bigchunks' = [bigchunks EXCEPT ![i] = NoChunk]
        /\ merging'.cap = merging.cap + ch.capacity
        /\ merging'.ptr = IF TouchesRight(i) THEN ch.ptr ELSE merging.ptr
    BY <1>1, <1>3 DEF MergeStep
  <2>2. x \in Units(ch.ptr, ch.capacity) \/ x \in Units(merging.ptr, merging.cap)
          => x \in Units(merging'.ptr, merging'.cap)
    <3>1. CASE TouchesRight(i)
      BY <1>1, <2>1, <3>1 DEF TouchesRight, Units
    <3>2. CASE TouchesLeft(i) /\ ~TouchesRight(i)
      BY <1>1, <2>1, <3>2 DEF TouchesLeft, Units
    <3> QED
      BY <1>3, <3>1, <3>2 DEF Touches
  <2>3. \A j \in Slot : j # i => bigchunks'[j] = bigchunks[j]
    BY <1>1, <2>1 DEF IInv, Safe, Typed
  <2> QED
    BY <1>1, <2>2, <2>3 DEF Has
<1> QED
  BY <1>2, <1>3

(* What is in a set of units is no more than the units.                    *)
LEMMA NoMoreThan ==
  ASSUME NEW p \in Nat, NEW n \in Nat, NEW S, S \subseteq Units(p, n)
  PROVE  Cardinality(S) \in Nat /\ Cardinality(S) <= n
<1>1. /\ IsFiniteSet(p..(p + n - 1))
      /\ Cardinality(p..(p + n - 1)) = IF p > p + n - 1 THEN 0 ELSE (p + n - 1) - p + 1
  BY FS_Interval
<1>2. Cardinality(p..(p + n - 1)) = n
  BY <1>1
<1>3. IsFiniteSet(S) /\ Cardinality(S) <= Cardinality(p..(p + n - 1))
  BY <1>1, FS_Subset DEF Units
<1> QED
  BY <1>2, <1>3, FS_CardinalityType

(* At the end of the loop it is the chunk that is replaced or the piece    *)
(* that is not put in, whichever is shorter.                               *)
LEMMA SmallestIsLost ==
  ASSUME IInv, LoopInv, MergeFinish, NEW k \in Slot
  PROVE  Cardinality(Owned \ Owned') <= bigchunks'[k].capacity
<1> DEFINE i == merging.idx ch == bigchunks[i] lost == Owned \ Owned'
<1>1. /\ i \in Slot /\ merging.ptr \in Nat /\ merging.cap \in Nat
      /\ \A j \in Slot : bigchunks[j].ptr \in Nat /\ bigchunks[j].capacity \in Nat
      /\ merging.least = ch.capacity /\ merging.least \in Nat
      /\ \A j \in Slot : merging.least <= bigchunks[j].capacity
      /\ UNCHANGED <<blocks, free_lists>>
  BY SizesAssumption DEF MergeFinish, IInv, Safe, Typed, LoopInv, Slot
<1>2. OwnedHas /\ OwnedHas'
  BY OwnedIs, PTL
<1>3. CASE merging.cap > merging.least
  <2>1. bigchunks' = [bigchunks EXCEPT ![i] = [ptr |-> merging.ptr, capacity |-> merging.cap]]
    BY <1>3 DEF MergeFinish
  <2>2. /\ bigchunks'[i].ptr = merging.ptr /\ bigchunks'[i].capacity = merging.cap
        /\ \A j \in Slot : j # i => bigchunks'[j] = bigchunks[j]
    BY <1>1, <2>1 DEF IInv, Safe, Typed
  <2>3. ASSUME NEW x \in lost PROVE x \in Units(ch.ptr, ch.capacity)
    <3>1. Has(x) /\ ~Has(x)'
      BY <1>2 DEF OwnedHas
    <3> QED
      BY <1>1, <2>2, <3>1 DEF Has
  <2>4. Cardinality(lost) \in Nat /\ Cardinality(lost) <= ch.capacity
    BY <1>1, <2>3, NoMoreThan
  <2>5. CASE k = i
    BY <1>1, <1>3, <2>2, <2>4, <2>5
  <2>6. CASE k # i
    BY <1>1, <2>2, <2>4, <2>6
  <2> QED
    BY <2>5, <2>6
<1>4. CASE ~(merging.cap > merging.least)
  <2>1. bigchunks' = bigchunks
    BY <1>4 DEF MergeFinish
  <2>2. ASSUME NEW x \in lost PROVE x \in Units(merging.ptr, merging.cap)
    <3>1. Has(x) /\ ~Has(x)'
      BY <1>2 DEF OwnedHas
    <3> QED
      BY <1>1, <2>1, <3>1 DEF Has
  <2>3. Cardinality(lost) \in Nat /\ Cardinality(lost) <= merging.cap
    BY <1>1, <2>2, NoMoreThan
  <2> QED
    BY <1>1, <1>4, <2>1, <2>3
<1> QED
  BY <1>3, <1>4

(* Every turn of the loop keeps the smallest slot so far.                  *)
LEMMA LoopKept ==
  ASSUME IInv, LoopInv, [Next]_vars
  PROVE  LoopInv'
<1>1. ASSUME ~merging.on, merging' = merging PROVE LoopInv'
  BY <1>1 DEF LoopInv
<1>2. ASSUME ~merging.on, NEW b \in blocks, Release(b), moving' = {}, bigchunks' = bigchunks
      PROVE  LoopInv'
  <2>1. CASE merging' = merging
    BY <1>1, <1>2, <2>1
  <2>2. CASE MergeBegin(b.ptr, b.sz)
    BY <1>2, <2>2, SizesAssumption DEF LoopInv, MergeBegin, Slot
  <2> QED
    BY <1>2, <2>1, <2>2 DEF Release
<1>3. CASE \E size \in Request, a \in Alignment : malloc(size, a)
  BY <1>1, <1>3 DEF malloc, Idle
<1>4. CASE \E b \in blocks : free(b)
  BY <1>2, <1>4 DEF free, Idle
<1>5. CASE \E b \in blocks, size \in Request : ReallocInPlace(b, size) \/ ReallocObtain(b, size)
  BY <1>1, <1>5 DEF ReallocInPlace, ReallocObtain, Idle
<1>6. CASE \E m \in moving : ReallocCopy(m) \/ ReallocTrap(m)
  <2>1. ~merging.on
    BY <1>6 DEF LoopInv
  <2>2. ASSUME NEW m \in moving, ReallocCopy(m) PROVE LoopInv'
    BY <1>2, <2>1, <2>2 DEF ReallocCopy, IInv, MovingHeld
  <2>3. ASSUME NEW m \in moving, ReallocTrap(m) PROVE LoopInv'
    BY <1>1, <2>1, <2>3 DEF ReallocTrap
  <2> QED
    BY <1>6, <2>2, <2>3
<1>7. CASE MergeStep
  <2> DEFINE i == merging.i ch == bigchunks[i] l == merging.least d == merging.idx
             r == IF Touches(i) THEN 0 ELSE ch.capacity
  <2>1. /\ merging.on /\ i \in Slot /\ i \in Nat /\ d \in Slot /\ d \in Nat /\ l \in Nat
        /\ bigchunks \in [Slot -> [ptr : Nat, capacity : Nat]] /\ moving = {} /\ moving' = {}
        /\ d < i \/ (d = 1 /\ i = 1)
        /\ l = bigchunks[d].capacity
        /\ \A j \in Slot : j < i => l <= bigchunks[j].capacity
    BY <1>7, SizesAssumption DEF MergeStep, IInv, Safe, Typed, LoopInv, Slot
  <2>2. /\ merging'.on /\ merging'.i = i + 1
        /\ merging'.idx = IF r < l THEN i ELSE d
        /\ merging'.least = IF r < l THEN r ELSE l
        /\ bigchunks' = IF Touches(i) THEN [bigchunks EXCEPT ![i] = NoChunk] ELSE bigchunks
    BY <1>7 DEF MergeStep
  <2>3. /\ bigchunks'[i].capacity = r /\ r \in Nat
        /\ \A j \in Slot : j # i => bigchunks'[j] = bigchunks[j]
    BY <2>1, <2>2 DEF NoChunk
  <2> HIDE DEF r
  <2>4. \A j \in Slot : bigchunks[j].capacity \in Nat /\ j \in Nat
    BY <2>1 DEF Slot
  <2>5. merging'.least = bigchunks'[merging'.idx].capacity
    <3>1. CASE r < l
      BY <2>2, <2>3, <3>1
    <3>2. CASE ~(r < l) /\ d # i
      BY <2>1, <2>2, <2>3, <3>2
    <3>3. CASE ~(r < l) /\ d = i
      <4>1. r <= l
        BY <2>1, <3>3 DEF r
      <4> QED
        BY <2>1, <2>2, <2>3, <3>3, <4>1
    <3> QED
      BY <3>1, <3>2, <3>3
  <2>6. ASSUME NEW j \in Slot, j < i + 1 PROVE merging'.least <= bigchunks'[j].capacity
    <3>1. CASE j = i
      BY <2>1, <2>2, <2>3, <3>1
    <3>2. CASE j # i
      <4>1. j < i /\ bigchunks'[j] = bigchunks[j] /\ l <= bigchunks[j].capacity
        BY <2>1, <2>3, <2>4, <2>6, <3>2
      <4> QED
        BY <2>1, <2>2, <2>3, <2>4, <4>1
    <3> QED
      BY <3>1, <3>2
  <2>7. merging'.idx < merging'.i
    BY <2>1, <2>2
  <2> QED
    BY <2>1, <2>2, <2>5, <2>6, <2>7 DEF LoopInv
<1>8. CASE MergeFinish
  BY <1>8 DEF MergeFinish, LoopInv, NoMerge
<1>9. CASE eosio_malloc_enable_free \/ eosio_malloc_disable_free
  BY <1>1, <1>9 DEF eosio_malloc_enable_free, eosio_malloc_disable_free, Idle
<1>10. CASE UNCHANGED vars
  BY <1>10 DEF vars, LoopInv
<1> QED
  BY <1>3, <1>4, <1>5, <1>6, <1>7, <1>8, <1>9, <1>10 DEF Next

(* A step gives up the smallest piece, if any.                             *)
Dropped ==
  LET lost == Owned \ Owned' IN
  free_enabled /\ lost # {} => \A i \in Slot : Cardinality(lost) <= bigchunks'[i].capacity

(* No other step gives anything up.                                        *)
LEMMA StepDrops ==
  ASSUME AlignmentsFit, IInv, LoopInv, Next
  PROVE  Dropped
<1> SUFFICES ASSUME free_enabled
             PROVE  \/ Owned \ Owned' = {}
                    \/ \A i \in Slot : Cardinality(Owned \ Owned') <= bigchunks'[i].capacity
  BY DEF Dropped
<1>1. ASSUME UNCHANGED <<free_lists, bigchunks, merging>>,
             \A b \in blocks : \E d \in blocks' : d.ptr = b.ptr /\ d.sz = b.sz
      PROVE  Owned \ Owned' = {}
  <2> SUFFICES ASSUME NEW x, Has(x) PROVE Has(x)'
    BY NothingLost
  <2> QED
    BY <1>1 DEF Has
<1>2. CASE \E size \in Request, a \in Alignment : malloc(size, a)
  BY <1>2, RequestsFit, ObtainLosesNothing DEF malloc, Idle
<1>3. CASE \E b \in blocks : free(b)
  BY <1>3, ReleaseLosesNothing DEF free, Idle
<1>4. ASSUME NEW b \in blocks, NEW size \in Request, ReallocInPlace(b, size)
      PROVE  Owned \ Owned' = {}
  <2>1. /\ UNCHANGED <<free_lists, bigchunks, merging>>
        /\ blocks' = (blocks \ {b}) \cup {Block(b.ptr, b.sz, b.id, size)}
    BY <1>4 DEF ReallocInPlace
  <2>2. Block(b.ptr, b.sz, b.id, size).ptr = b.ptr /\ Block(b.ptr, b.sz, b.id, size).sz = b.sz
    BY DEF Block
  <2> QED
    BY <1>1, <2>1, <2>2
<1>5. CASE \E b \in blocks, size \in Request : ReallocObtain(b, size)
  <2>1. 1 \in Nat /\ Amount(1) # 0
    BY RequestsFit
  <2> QED
    BY <1>5, <2>1, RequestsFit, ObtainLosesNothing DEF ReallocObtain, Idle
<1>6. CASE \E m \in moving : ReallocCopy(m)
  <2>1. ~merging.on
    BY <1>6 DEF LoopInv
  <2> QED
    BY <1>6, <2>1, ReleaseLosesNothing DEF ReallocCopy, IInv, MovingHeld
<1>7. CASE \E m \in moving : ReallocTrap(m)
  BY <1>1, <1>7 DEF ReallocTrap
<1>8. CASE MergeStep
  BY <1>8, MergeLosesNothing
<1>9. CASE MergeFinish
  BY <1>9, SmallestIsLost
<1>10. CASE eosio_malloc_enable_free \/ eosio_malloc_disable_free
  BY <1>1, <1>10 DEF eosio_malloc_enable_free, eosio_malloc_disable_free
<1> QED
  BY <1>2, <1>3, <1>4, <1>5, <1>6, <1>7, <1>8, <1>9, <1>10 DEF Next

(* While free is enabled memory is given up only for want of a slot, and   *)
(* then the smallest piece there is (big_memory_alloc.hpp:40-48).          *)
THEOREM SmallestDropped == AlignmentsFit => (Spec => OnlyTheSmallestIsDropped)
<1> SUFFICES ASSUME AlignmentsFit PROVE Spec => OnlyTheSmallestIsDropped
  OBVIOUS
<1>1. Init => LoopInv
  BY DEF Init, LoopInv, NoMerge
<1>2. IInv /\ LoopInv /\ [Next]_vars => LoopInv'
  BY LoopKept
<1>3. IInv /\ LoopInv /\ [Next]_vars => [Dropped]_vars
  BY StepDrops
<1>4. Spec => []IInv
  BY AlwaysIInv
<1>5. [][Dropped]_vars => OnlyTheSmallestIsDropped
  BY PTL DEF OnlyTheSmallestIsDropped, Dropped
<1> QED
  BY <1>1, <1>2, <1>3, <1>4, <1>5, PTL DEF Spec
=============================================================================
