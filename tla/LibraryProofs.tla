---------------------------- MODULE LibraryProofs ----------------------------
(***************************************************************************)
(* A singleton is a cell: what the proof needs of the cache is that a      *)
(* cached row is the row of the table, stored when the iterator was taken. *)
(* An extension holds the value it should, for any number of extensions,   *)
(* any values and a stream of any length.  What a test transacts is timely *)
(* for any expiration, any skips and any number of blocks.  A stream stays *)
(* in its buffer for every width of size_t and every buffer.  Actions      *)
(* arrive as they were sent, and as often, for any contracts.  A rope is   *)
(* the text it was built from, for any texts and any sharing of its nodes. *)
(* Keys and rows of tables and maps are kept as they were written, for     *)
(* names of any width, any keys, types of rows and values, buffers of any  *)
(* size, any number of wrappers and initializer lists of any length: of    *)
(* maps it is inductive that each row is what was last written to its key, *)
(* that each wrapper said to be current has what its row would be unpacked *)
(* as, and that the static buffer keeps its size.                          *)
(***************************************************************************)
EXTENDS Library, SequenceTheorems, FiniteSetTheorems, WellFoundedInduction, TLAPS

(* The cache holds nothing or the row with a valid iterator to it.         *)
CacheIsRow ==
  /\ item = [val |-> item.val, itr |-> item.itr]
  /\ item.val # NoValue => item.val = row /\ item.itr = stores

(* Find gives the row and an iterator that is valid, or nothing if there   *)
(* is no row: the cache can be asked in place of the table.                *)
LEMMA FindIsRow ==
  ASSUME CacheIsRow
  PROVE  /\ Singleton!Find.val = row
         /\ Singleton!Found <=> row # NoValue
         /\ row # NoValue => Singleton!Find.itr = stores
         /\ Singleton!Find = [val |-> Singleton!Find.val, itr |-> Singleton!Find.itr]
  BY DEF CacheIsRow, Singleton!Find, Singleton!Found, Singleton!Item

(* Nothing is cached at first.                                             *)
LEMMA InitCache == Singleton!Init => CacheIsRow
  BY DEF Singleton!Init, CacheIsRow, Singleton!NoItem, Singleton!Item

(* Every call leaves the cache with the row: what was removed or stored    *)
(* again is not answered from it.                                          *)
LEMMA NextCache == CacheIsRow /\ [Singleton!Next]_(Singleton!vars) => CacheIsRow'
<1> SUFFICES ASSUME CacheIsRow, [Singleton!Next]_(Singleton!vars) PROVE CacheIsRow'
  OBVIOUS
<1> USE FindIsRow
<1>1. CASE Singleton!singleton
  BY <1>1 DEF Singleton!singleton, CacheIsRow, Singleton!NoItem, Singleton!Item
<1>2. ASSUME NEW x, Singleton!Reads(x) PROVE CacheIsRow'
  BY <1>2 DEF Singleton!Reads, CacheIsRow
<1>3. CASE Singleton!Fail
  BY <1>3 DEF Singleton!Fail, CacheIsRow
<1>4. ASSUME NEW x, Singleton!emplace(x) PROVE CacheIsRow'
  BY <1>3, <1>4 DEF Singleton!emplace, CacheIsRow, Singleton!Item
<1>5. ASSUME NEW x, Singleton!Found, Singleton!modify(x) PROVE CacheIsRow'
  BY <1>3, <1>5 DEF Singleton!modify, CacheIsRow, Singleton!Item
<1>6. CASE Singleton!erase
  BY <1>3, <1>6 DEF Singleton!erase, CacheIsRow, Singleton!NoItem, Singleton!Item
<1>7. CASE Singleton!exists
  BY <1>2, <1>7 DEF Singleton!exists
<1>8. CASE Singleton!get
  BY <1>2, <1>3, <1>8 DEF Singleton!get
<1>9. CASE Singleton!remove
  BY <1>6, <1>9 DEF Singleton!remove, CacheIsRow
<1>10. ASSUME NEW x \in Setting,
              \/ Singleton!get_or_default(x) \/ Singleton!get_or_create(x) \/ Singleton!set(x)
       PROVE  CacheIsRow'
  BY <1>2, <1>4, <1>5, <1>10 DEF
     Singleton!get_or_default, Singleton!get_or_create, Singleton!set
<1>11. CASE UNCHANGED Singleton!vars
  BY <1>11 DEF Singleton!vars, CacheIsRow
<1> QED
  BY <1>1, <1>7, <1>8, <1>9, <1>10, <1>11 DEF Singleton!Next

(* A step of the singleton is the call of the cell of the same name, or    *)
(* one that answers nothing.                                               *)
LEMMA StepImplements ==
  ASSUME CacheIsRow, [Singleton!Next]_(Singleton!vars)
  PROVE  [Singleton!C!Next]_(Singleton!C!vars)
<1> USE FindIsRow, SettingAssumption
<1>1. CASE Singleton!singleton
  BY <1>1 DEF Singleton!singleton, Singleton!C!Next, Singleton!C!Quiet, Singleton!C!Returns
<1>2. CASE Singleton!exists
  <2>1. row' = row /\ ~failed /\ failed' = failed /\ last' = Singleton!Found
    BY <1>2 DEF Singleton!exists, Singleton!Reads
  <2>2. Singleton!Found = (row # NoValue)
    BY Zenon DEF Singleton!Found
  <2>3. Singleton!C!exists
    BY <2>1, <2>2, Zenon DEF Singleton!C!exists, Singleton!C!Returns
  <2> QED
    BY <2>3 DEF Singleton!C!Next
<1>3. CASE Singleton!get
  BY <1>3 DEF Singleton!get, Singleton!Reads, Singleton!Fail, Singleton!C!Next,
     Singleton!C!get, Singleton!C!Returns
<1>4. CASE Singleton!remove
  <2>1. CASE Singleton!Found
    BY <1>4, <2>1 DEF Singleton!remove, Singleton!erase, Singleton!Valid, Singleton!C!Next,
       Singleton!C!remove, Singleton!C!Returns
  <2>2. CASE ~Singleton!Found
    BY <1>4, <2>2 DEF Singleton!remove, Singleton!C!Next, Singleton!C!Quiet,
       Singleton!C!Returns
  <2> QED
    BY <2>1, <2>2
<1>5. ASSUME NEW x \in Setting, Singleton!get_or_default(x) PROVE Singleton!C!Next
  BY <1>5 DEF Singleton!get_or_default, Singleton!Reads, Singleton!C!Next,
     Singleton!C!get_or_default, Singleton!C!Returns
<1>6. ASSUME NEW x \in Setting, Singleton!get_or_create(x) PROVE Singleton!C!Next
  BY <1>6 DEF Singleton!get_or_create, Singleton!Reads, Singleton!emplace, Singleton!C!Next,
     Singleton!C!get_or_create, Singleton!C!Returns
<1>7. ASSUME NEW x \in Setting, Singleton!set(x) PROVE Singleton!C!Next
  BY <1>7 DEF Singleton!set, Singleton!modify, Singleton!Valid, Singleton!emplace,
     Singleton!C!Next, Singleton!C!set, Singleton!C!Returns
<1>8. CASE UNCHANGED Singleton!vars
  BY <1>8 DEF Singleton!vars, Singleton!C!vars
<1> QED
  BY <1>1, <1>2, <1>3, <1>4, <1>5, <1>6, <1>7, <1>8 DEF Singleton!Next

LEMMA PartIsSingleton ==
  ASSUME [PartsNext]_partsVars
  PROVE  [Singleton!Next]_(Singleton!vars)
  BY DEF PartsNext, partsVars, singletonVars, Singleton!vars

(* singleton behaves as the cell it promises, whatever is in its cache     *)
(* (singleton.hpp:57-128).                                                 *)
THEOREM SingletonIsCell == PartsSpec => ImplementsCell
<1>1. PartsInit => Singleton!Init
  BY DEF PartsInit
<1>2. Singleton!Init => CacheIsRow /\ Singleton!C!Init
  BY InitCache DEF Singleton!Init, Singleton!C!Init
<1>3. CacheIsRow /\ [PartsNext]_partsVars => CacheIsRow' /\ [Singleton!C!Next]_(Singleton!C!vars)
  BY PartIsSingleton, NextCache, StepImplements
<1> QED
  BY <1>1, <1>2, <1>3, PTL DEF PartsSpec, ImplementsCell, Singleton!ImplementsCell,
     Singleton!C!Spec

-----------------------------------------------------------------------------
Typed ==
  /\ exists \subseteq Extension
  /\ has_value \in [Extension -> BOOLEAN]
  /\ DOMAIN data = Extension /\ data = [e \in Extension |-> data[e]]
  /\ DOMAIN meant = Extension /\ meant = [e \in Extension |-> meant[e]]
  /\ stream \in Seq(Payload)

(* What one extension has, and whether its storage was left behind.        *)
Sound(flag, object, should, left) ==
  /\ IF flag THEN object = should ELSE should = RawPayload
  /\ flag => object \in Payload
  /\ ~flag /\ object # RawPayload => left

(* ExtensionsHoldValues says nothing of extensions that do not exist:      *)
(* their flag must be clear, or constructing an empty one would leave it.  *)
ExtensionInv ==
  /\ Typed
  /\ \A e \in Extension : Sound(has_value[e], data[e], meant[e], e \in emptied)
  /\ \A e \in Extension : has_value[e] => e \in exists
  /\ reading[1] = reading[2]
  /\ stream = written

-----------------------------------------------------------------------------
LEMMA InitSound == ASSUME Ext!Init PROVE ExtensionInv
  BY PayloadAssumption DEF Ext!Init, ExtensionInv, Typed, Sound

LEMMA ConstructSound ==
  ASSUME ExtensionInv, NEW e \in Extension, Ext!Construct(e)
  PROVE  ExtensionInv'
  BY PayloadAssumption DEF ExtensionInv, Typed, Sound,
         Ext!Construct, Ext!Appears, Ext!StreamStays, Ext!Become, Ext!Members, Ext!Means

LEMMA ConstructFromSound ==
  ASSUME ExtensionInv, NEW e \in Extension, NEW v \in Payload, Ext!ConstructFrom(e, v)
  PROVE  ExtensionInv'
  BY PayloadAssumption DEF ExtensionInv, Typed, Sound, Ext!ConstructFrom, Ext!Appears,
     Ext!StreamStays, Ext!Become, Ext!Members, Ext!Means, Ext!Holds

LEMMA CopyConstructSound ==
  ASSUME ExtensionInv, NEW e \in Extension, NEW o \in Extension, Ext!CopyConstruct(e, o)
  PROVE  ExtensionInv'
  BY PayloadAssumption DEF ExtensionInv, Typed, Sound, Ext!CopyConstruct, Ext!Appears,
     Ext!StreamStays, Ext!Become, Ext!Members, Ext!Means, Ext!Holds

LEMMA MoveConstructSound ==
  ASSUME ExtensionInv, NEW e \in Extension, NEW o \in Extension, Ext!MoveConstruct(e, o)
  PROVE  ExtensionInv'
  BY PayloadAssumption DEF ExtensionInv, Typed, Sound, Ext!MoveConstruct, Ext!Appears,
     Ext!StreamStays, Ext!Become, Ext!Members, Ext!Means, Ext!Holds, Ext!MovedFrom

LEMMA DestroySound ==
  ASSUME ExtensionInv, NEW e \in Extension, Ext!Destroy(e)
  PROVE  ExtensionInv'
  BY PayloadAssumption DEF ExtensionInv, Typed, Sound,
         Ext!Destroy, Ext!StreamStays, Ext!Become, Ext!Members, Ext!Holds, Ext!reset

LEMMA CopyAssignSound ==
  ASSUME ExtensionInv, NEW e \in Extension, NEW o \in Extension, Ext!CopyAssign(e, o)
  PROVE  ExtensionInv'
  BY PayloadAssumption DEF ExtensionInv, Typed, Sound, Ext!CopyAssign, Ext!Stays,
     Ext!StreamStays, Ext!Become, Ext!Members, Ext!Means, Ext!Holds, Ext!reset,
     Ext!CopyAssigned

LEMMA MoveAssignSound ==
  ASSUME ExtensionInv, NEW e \in Extension, NEW o \in Extension, Ext!MoveAssign(e, o)
  PROVE  ExtensionInv'
  BY PayloadAssumption DEF ExtensionInv, Typed, Sound, Ext!MoveAssign, Ext!Stays,
     Ext!StreamStays, Ext!Become, Ext!Members, Ext!Means, Ext!Holds, Ext!reset,
     Ext!MoveAssigned

LEMMA EmplaceSound ==
  ASSUME ExtensionInv, NEW e \in Extension, NEW v \in Payload, Ext!Emplace(e, v)
  PROVE  ExtensionInv'
  BY PayloadAssumption DEF ExtensionInv, Typed, Sound, Ext!Emplace, Ext!Stays,
     Ext!StreamStays, Ext!Become, Ext!Members, Ext!Means, Ext!Holds, Ext!reset,
     Ext!emplace

LEMMA ResetSound ==
  ASSUME ExtensionInv, NEW e \in Extension, Ext!Reset(e)
  PROVE  ExtensionInv'
  BY PayloadAssumption DEF ExtensionInv, Typed, Sound, Ext!Reset, Ext!Stays,
     Ext!StreamStays, Ext!Become, Ext!Members, Ext!Means, Ext!Holds, Ext!reset

LEMMA ReadSound ==
  ASSUME ExtensionInv, NEW e \in Extension, Ext!Read(e)
  PROVE  ExtensionInv'
  BY PayloadAssumption DEF ExtensionInv, Typed, Sound,
         Ext!Read, Ext!Answers, Ext!value

LEMMA ReadOrSound ==
  ASSUME ExtensionInv, NEW e \in Extension, NEW v \in Payload, Ext!ReadOr(e, v)
  PROVE  ExtensionInv'
  BY PayloadAssumption DEF ExtensionInv, Typed, Sound,
         Ext!ReadOr, Ext!Answers, Ext!value_or, Ext!MeantOr

LEMMA TakeSound ==
  ASSUME ExtensionInv, NEW e \in Extension, Ext!Take(e)
  PROVE  ExtensionInv'
<1>1. CASE has_value[e]
  <2>1. /\ has_value' = [has_value EXCEPT ![e] = FALSE]
        /\ data' = [data EXCEPT ![e] = MovedPayload]
        /\ emptied' = emptied \cup {e} /\ reading' = <<data[e], meant[e]>>
    BY <1>1 DEF Ext!Take, Ext!Become, Ext!Members,
       Ext!Holds
  <2>2. UNCHANGED <<exists, stream, written>> /\ meant' = [meant EXCEPT ![e] = RawPayload]
    BY DEF Ext!Take, Ext!Stays, Ext!StreamStays
  <2> QED
    BY <1>1, <2>1, <2>2 DEF ExtensionInv, Typed, Sound
<1>2. CASE ~has_value[e]
  <2>1. meant' = meant
    BY <1>2 DEF ExtensionInv, Typed, Sound, Ext!Take
  <2>2. PICK v \in Payload : reading' = <<v, v>>
    BY <1>2 DEF Ext!Take
  <2>3. UNCHANGED <<exists, has_value, data, stream, written, emptied>>
    BY <1>2 DEF Ext!Take, Ext!Stays, Ext!StreamStays,
       Ext!Become, Ext!Members
  <2> QED
    BY <2>1, <2>2, <2>3 DEF ExtensionInv, Typed, Sound
<1> QED
  BY <1>1, <1>2

LEMMA WriteSound ==
  ASSUME ExtensionInv, NEW e \in Extension, Ext!Write(e)
  PROVE  ExtensionInv'
  BY PayloadAssumption DEF ExtensionInv, Typed, Sound,
         Ext!Write, Ext!Stays, Ext!value_or, Ext!MeantOr

LEMMA UnpackSound ==
  ASSUME ExtensionInv, NEW e \in Extension, Ext!Unpack(e)
  PROVE  ExtensionInv'
<1>1. CASE stream # <<>>
  <2> DEFINE v == Head(stream)
  <2>1. v \in Payload /\ Head(written) = v /\ Tail(stream) \in Seq(Payload)
    BY <1>1 DEF ExtensionInv, Typed
  <2>2. stream' = Tail(stream) /\ written' = Tail(written)
    BY <1>1 DEF Ext!Unpack
  <2>3. stream' = written' /\ stream' \in Seq(Payload)
    BY <2>1, <2>2 DEF ExtensionInv
  <2>4. Ext!Become(Ext!emplace(Ext!Members, e, v)) /\ Ext!Means(e, v, {}) /\ Ext!Stays({e})
    BY <1>1, <2>1 DEF Ext!Unpack, Ext!Unpacked
  <2> HIDE DEF v
  <2> QED
    BY <2>1, <2>3, <2>4, PayloadAssumption DEF ExtensionInv, Typed, Sound,
       Ext!Stays, Ext!Become, Ext!Members, Ext!Means, Ext!Holds, Ext!reset, Ext!emplace
<1>2. CASE stream = <<>>
  BY <1>2, PayloadAssumption DEF ExtensionInv, Typed, Sound,
     Ext!Unpack, Ext!Stays, Ext!StreamStays, Ext!Become, Ext!Members, Ext!Means
<1> QED
  BY <1>1, <1>2

LEMMA StepSound == ASSUME ExtensionInv, [Ext!Next]_(Ext!vars) PROVE ExtensionInv'
<1>1. CASE UNCHANGED Ext!vars
  BY <1>1 DEF Ext!vars, ExtensionInv, Typed, Sound
<1>2. CASE Ext!Next
  BY <1>2, ConstructSound, ConstructFromSound, CopyConstructSound, MoveConstructSound,
     DestroySound, CopyAssignSound, MoveAssignSound, EmplaceSound, ResetSound, ReadSound,
     ReadOrSound, TakeSound, WriteSound, UnpackSound DEF Ext!Next
<1> QED
  BY <1>1, <1>2

(* Through any sequence of the operations of any number of extensions each *)
(* holds the value it should, a live object whenever its flag is set       *)
(* (binary_extension.hpp:24-221).                                          *)
THEOREM ExtensionsCorrect == PartsSpec => []ExtensionsHoldValues
<1> DEFINE Inv == part = "BinaryExtension" => ExtensionInv
<1>1. PartsInit => Inv
  BY InitSound DEF PartsInit
<1>2. Inv /\ [PartsNext]_partsVars => Inv'
  <2> SUFFICES ASSUME Inv, [PartsNext]_partsVars, part' = "BinaryExtension" PROVE ExtensionInv'
    OBVIOUS
  <2>1. part = "BinaryExtension" /\ [Ext!Next]_(Ext!vars)
    BY DEF PartsNext, partsVars, binaryExtensionVars, Ext!vars
  <2> QED
    BY <2>1, StepSound
<1>3. Inv => ExtensionsHoldValues
  BY DEF ExtensionInv, Sound, ExtensionsHoldValues, Ext!ExtensionsHoldValues
<1> QED
  BY <1>1, <1>2, <1>3, PTL DEF PartsSpec

-----------------------------------------------------------------------------
(***************************************************************************)
(* The tester.  The pending block is always the slot after the head, the   *)
(* remembered head is the head, and a transaction that refers to the head  *)
(* was executed only if its actions are among the recent ones.             *)
(***************************************************************************)

ChainTyped(c) ==
  /\ c = Tester!Chain(c.head, c.pending, c.executed)
  /\ c.head = [block_num |-> c.head.block_num, slot |-> c.head.slot]
  /\ c.head.block_num \in Nat /\ c.head.slot \in Nat
  /\ c.pending \in Nat \cup {Tester!None}

(* No slot is left out between the head and the pending block.             *)
Prompt(c) == c.pending \in {Tester!None, c.head.slot + 1}

(* The transactions executed, seen from a head and what is recent there.   *)
Remembered(c, acts) ==
  \A t \in c.executed :
    /\ t.ref_block_num \in Nat /\ t.ref_block_num <= c.head.block_num
    /\ t.ref_block_num = c.head.block_num => t.actions \in acts

TraceOK ==
  /\ trace.status # "expired"
  /\ trace.status = "duplicate" => trace.actions \in recent

InfoOK == head_block_info \in {<<>>, <<chain.head>>}

Events(done, queue) ==
  /\ done \in Seq(Nat) /\ queue \in Seq(Nat)
  /\ \A n \in DOMAIN (done \o queue) : (done \o queue)[n] = n

ChainInv ==
  /\ ChainTyped(chain) /\ Prompt(chain) /\ Remembered(chain, recent)
  /\ TraceOK /\ InfoOK /\ Events(pulled, event_queue)

LEMMA ChainInit == Tester!Init => ChainInv
  BY DEF Tester!Init, Tester!Chain, Tester!None, Tester!NoTrace, ChainInv,
     ChainTyped, Prompt, Remembered, TraceOK, InfoOK, Events

(* What a call leaves of the chain c: d, with the same head or a later one.*)
MovesOn(c, d) ==
  /\ ChainTyped(d) /\ d.executed = c.executed
  /\ d.head = c.head \/ d.head.block_num > c.head.block_num

(* A block is finished at the slot pending, and the head moves on.         *)
LEMMA FinishMoves ==
  ASSUME NEW c, ChainTyped(c)
  PROVE  MovesOn(c, Tester!Finish(c)) /\ Prompt(Tester!Finish(c))
  BY DEF ChainTyped, MovesOn, Prompt, Tester!Finish, Tester!Chain, Tester!Pending,
         Tester!Begin, Tester!None, Tester!Interval

(* A block that skips less than a slot starts in the next one.             *)
LEMMA BeginMoves ==
  ASSUME NEW c, ChainTyped(c), NEW skip \in Nat
  PROVE  /\ MovesOn(c, Tester!Begin(c, skip))
         /\ skip < Tester!Interval => Prompt(Tester!Begin(c, skip))
  BY DEF ChainTyped, MovesOn, Prompt, Tester!Chain, Tester!Begin, Tester!None,
         Tester!Interval

LEMMA PendingMoves ==
  ASSUME NEW c, ChainTyped(c), Prompt(c)
  PROVE  /\ MovesOn(c, Tester!Pending(c)) /\ Tester!Pending(c).head = c.head
         /\ Tester!Pending(c).pending = c.head.slot + 1
  BY DEF ChainTyped, MovesOn, Prompt, Tester!Chain, Tester!Begin, Tester!Pending,
         Tester!None, Tester!Interval

LEMMA MovesOnTwice ==
  ASSUME NEW c, NEW d, NEW e, ChainTyped(c), MovesOn(c, d), MovesOn(d, e)
  PROVE  MovesOn(c, e)
  BY DEF MovesOn, ChainTyped

LEMMA StartMoves ==
  ASSUME NEW c, ChainTyped(c), NEW skip \in Nat
  PROVE  /\ MovesOn(c, Tester!Start(c, skip))
         /\ skip < Tester!Interval => Prompt(Tester!Start(c, skip))
<1>1. CASE c.pending = Tester!None
  BY <1>1, BeginMoves DEF Tester!Start
<1>2. CASE c.pending # Tester!None
  <2> DEFINE d == Tester!Finish(c)
  <2>1. MovesOn(c, d) /\ ChainTyped(d)
    BY FinishMoves DEF MovesOn
  <2>2. Tester!Start(c, skip) = Tester!Begin(d, skip)
    BY <1>2 DEF Tester!Start
  <2> HIDE DEF d
  <2> QED
    BY <2>1, <2>2, BeginMoves, MovesOnTwice
<1> QED
  BY <1>1, <1>2

(* However much is skipped, the last block to be started is prompt.        *)
LEMMA StartedMoves ==
  ASSUME ChainTyped(chain), NEW skip \in Nat
  PROVE  MovesOn(chain, Tester!Started(skip)) /\ Prompt(Tester!Started(skip))
<1>1. CASE skip >= Tester!Interval
  <2> DEFINE d == Tester!Start(chain, skip - Tester!Interval)
  <2>1. skip - Tester!Interval \in Nat /\ 0 < Tester!Interval
    BY <1>1 DEF Tester!Interval
  <2>2. MovesOn(chain, d) /\ ChainTyped(d)
    BY <2>1, StartMoves DEF MovesOn
  <2>3. Tester!Started(skip) = Tester!Start(d, 0)
    BY <1>1 DEF Tester!Started
  <2> HIDE DEF d
  <2> QED
    BY <2>1, <2>2, <2>3, StartMoves, MovesOnTwice
<1>2. CASE skip < Tester!Interval
  <2>1. Tester!Started(skip) = Tester!Start(chain, skip)
    BY <1>2 DEF Tester!Started, Tester!Interval
  <2> QED
    BY <1>2, <2>1, StartMoves
<1> QED
  BY <1>1, <1>2 DEF Tester!Interval

(* A transaction made now refers to the head; it has not expired, and one  *)
(* that was executed already was executed since the head.                  *)
LEMMA MadeTimely ==
  ASSUME ChainInv, NEW actions
  PROVE  /\ Tester!HeadBlockInfo = chain.head
         /\ Tester!fill_tapos(actions).ref_block_num = chain.head.block_num
         /\ Tester!fill_tapos(actions).actions = actions
         /\ Tester!Verdict(chain, Tester!fill_tapos(actions)) \in {"executed", "duplicate"}
         /\ Tester!Verdict(chain, Tester!fill_tapos(actions)) = "duplicate" => actions \in recent
<1> DEFINE t == Tester!fill_tapos(actions)
<1>1. Tester!HeadBlockInfo = chain.head
  BY DEF ChainInv, InfoOK, Tester!HeadBlockInfo
<1>2. /\ t.ref_block_num = chain.head.block_num /\ t.actions = actions
      /\ t.expiration = (500 * chain.head.slot) \div 1000 + Expire
  BY <1>1 DEF Tester!fill_tapos, Tester!Interval
<1>3. Tester!Pending(chain).pending = chain.head.slot + 1
  BY PendingMoves DEF ChainInv
<1>4. ~(1000 * t.expiration < 500 * (chain.head.slot + 1))
  <2>1. \A s, x \in Nat : x # 0 => 1000 * ((500 * s) \div 1000 + x) >= 500 * (s + 1)
    OBVIOUS
  <2> QED
    BY <1>2, <2>1, TesterAssumption DEF ChainInv, ChainTyped
<1>5. t \in chain.executed => actions \in recent
  BY <1>2 DEF ChainInv, Remembered
<1> QED
  BY <1>1, <1>2, <1>3, <1>4, <1>5 DEF Tester!Verdict, Tester!Interval

LEMMA BlocksSound ==
  ASSUME ChainInv, NEW d, MovesOn(chain, d), Prompt(d), Tester!Blocks(d)
  PROVE  ChainInv'
<1>1. /\ chain' = d /\ head_block_info' = <<>> /\ trace' = Tester!NoTrace
      /\ recent' = IF d.head = chain.head THEN recent ELSE {}
      /\ event_queue' = event_queue /\ pulled' = pulled
  BY DEF Tester!Blocks
<1>2. Remembered(d, recent')
  BY <1>1 DEF ChainInv, ChainTyped, MovesOn, Remembered
<1> QED
  BY <1>1, <1>2 DEF ChainInv, MovesOn, TraceOK, InfoOK, Tester!NoTrace

LEMMA TransactSound ==
  ASSUME ChainInv, NEW actions, NEW fails \in BOOLEAN, Tester!transact(actions, fails)
  PROVE  ChainInv'
<1> DEFINE t == Tester!fill_tapos(actions)
           verdict == Tester!Verdict(chain, t)
           result == IF verdict = "executed" /\ fails THEN "hard_fail" ELSE verdict
           done == result = "executed"
<1>1. /\ Tester!HeadBlockInfo = chain.head
      /\ t.ref_block_num = chain.head.block_num /\ t.actions = actions
      /\ verdict \in {"executed", "duplicate"} /\ (verdict = "duplicate" => actions \in recent)
  BY MadeTimely
<1>2. /\ chain' = Tester!Chain(chain.head, Tester!Pending(chain).pending,
                    IF done THEN chain.executed \cup {t} ELSE chain.executed)
      /\ head_block_info' = <<chain.head>>
      /\ trace' = [status |-> result, actions |-> actions]
      /\ recent' = IF done THEN recent \cup {actions} ELSE recent
      /\ event_queue' = event_queue /\ pulled' = pulled
  BY <1>1 DEF Tester!transact
<1>3. Tester!Pending(chain).pending = chain.head.slot + 1
  BY PendingMoves DEF ChainInv
<1> HIDE DEF t, verdict
<1>4. /\ chain'.head = chain.head /\ chain'.pending = chain.head.slot + 1
      /\ chain'.executed = IF done THEN chain.executed \cup {t} ELSE chain.executed
      /\ ChainTyped(chain') /\ Prompt(chain')
  BY <1>2, <1>3 DEF ChainInv, ChainTyped, Prompt, Tester!Chain
<1>5. Remembered(chain', recent')
  BY <1>1, <1>2, <1>4 DEF ChainInv, ChainTyped, Remembered
<1>6. TraceOK'
  BY <1>1, <1>2 DEF TraceOK
<1>7. InfoOK'
  BY <1>2, <1>4 DEF InfoOK
<1> QED
  BY <1>2, <1>4, <1>5, <1>6, <1>7 DEF ChainInv

(* An event is appended with the next number, and pulling moves the queue. *)
LEMMA EventAppended ==
  ASSUME NEW done, NEW queue, Events(done, queue)
  PROVE  Events(done, Append(queue, Len(done) + Len(queue) + 1))
<1> DEFINE m == Len(done) + Len(queue) + 1
           q == Append(queue, m)
<1>1. /\ Len(done) \in Nat /\ Len(queue) \in Nat /\ m \in Nat
      /\ q \in Seq(Nat) /\ Len(q) = Len(queue) + 1
  BY DEF Events
<1>2. /\ Append(done \o queue, m) = (done \o queue) \o <<m>>
      /\ q = queue \o <<m>> /\ done \o q = (done \o queue) \o <<m>>
  <2>1. done \o queue \in Seq(Nat) /\ <<m>> \in Seq(Nat)
    BY <1>1, ConcatProperties DEF Events
  <2> QED
    BY <1>1, <2>1, AppendIsConcat, ConcatAssociative DEF Events
<1>3. \A n \in DOMAIN Append(done \o queue, m) : Append(done \o queue, m)[n] = n
  BY <1>1 DEF Events
<1> QED
  BY <1>1, <1>2, <1>3 DEF Events

LEMMA EventsPulled ==
  ASSUME NEW done, NEW queue, Events(done, queue)
  PROVE  Events(done \o queue, <<>>)
  BY DEF Events

LEMMA ChainStep == ASSUME ChainInv, [Tester!Next]_(Tester!vars) PROVE ChainInv'
<1>1. ASSUME NEW skip \in Skip, Tester!start_block(skip) PROVE ChainInv'
  <2>1. skip \in Nat
    BY TesterAssumption
  <2> QED
    BY <1>1, <2>1, StartedMoves, BlocksSound DEF ChainInv, Tester!start_block
<1>2. CASE Tester!finish_block
  BY <1>2, FinishMoves, BlocksSound DEF ChainInv, Tester!finish_block
<1>3. CASE Tester!get_head_block_info
  BY <1>3 DEF Tester!get_head_block_info, Tester!HeadBlockInfo, ChainInv, InfoOK,
     TraceOK
<1>4. ASSUME NEW actions \in Actions, NEW fails \in BOOLEAN, Tester!transact(actions, fails)
      PROVE  ChainInv'
  BY <1>4, TransactSound
<1>5. ASSUME NEW expected \in BOOLEAN, Tester!expect(expected) PROVE ChainInv'
  BY <1>5 DEF Tester!expect, Tester!NoTrace, ChainInv, InfoOK, TraceOK
<1>6. CASE Tester!exec_deferred
  <2>1. /\ MovesOn(chain, chain') /\ chain'.head = chain.head
        /\ chain'.pending = chain.head.slot + 1
    BY <1>6, PendingMoves DEF ChainInv, Tester!exec_deferred
  <2>2. UNCHANGED <<head_block_info, event_queue, trace, recent, pulled>>
    BY <1>6 DEF Tester!exec_deferred
  <2> QED
    BY <2>1, <2>2 DEF MovesOn, ChainInv, Prompt, Remembered, InfoOK, TraceOK
<1>7. CASE Tester!PushEvent
  BY <1>7, EventAppended DEF Tester!PushEvent, ChainInv, InfoOK, TraceOK
<1>8. CASE Tester!pull_events
  BY <1>8, EventsPulled DEF Tester!pull_events, ChainInv, InfoOK, TraceOK
<1>9. CASE UNCHANGED Tester!vars
  BY <1>9 DEF Tester!vars, ChainInv, InfoOK, TraceOK
<1> QED
  BY <1>1, <1>2, <1>3, <1>4, <1>5, <1>6, <1>7, <1>8, <1>9 DEF Tester!Next

(* For every way to start, finish and skip blocks and any expiration, what *)
(* a test transacts has not expired when it is pushed and is refused as a  *)
(* duplicate only if it is one, the remembered head is the head, and the   *)
(* events are pulled once and in order (tester.cpp:263-389).               *)
THEOREM TransactionsTimely == PartsSpec => []TransactionsAreTimely
<1> DEFINE Inv == part = "TestChain" => ChainInv
<1>1. PartsInit => Inv
  BY ChainInit DEF PartsInit
<1>2. Inv /\ [PartsNext]_partsVars => Inv'
  <2> SUFFICES ASSUME Inv, [PartsNext]_partsVars, part' = "TestChain" PROVE ChainInv'
    OBVIOUS
  <2>1. part = "TestChain" /\ [Tester!Next]_(Tester!vars)
    BY DEF PartsNext, partsVars, testChainVars, Tester!vars
  <2> QED
    BY <2>1, ChainStep
<1>3. Inv => TransactionsAreTimely
  BY DEF ChainInv, TraceOK, InfoOK, Events, TransactionsAreTimely,
     Tester!TransactionsAreTimely
<1> QED
  BY <1>1, <1>2, <1>3, PTL DEF PartsSpec

-----------------------------------------------------------------------------
(***************************************************************************)
(* The stream.  Inductive is that the position lies in the buffer while    *)
(* the calls were honest, and that the stream which counts is then as far  *)
(* from 0 as the other one from its start.                                 *)
(***************************************************************************)

(* The buffer, and values that fit their types.                            *)
BufferOK ==
  /\ start \in Nat /\ limit \in Nat
  /\ start <= limit /\ limit < Word - 1 /\ limit - start < Stream!Half
  /\ pos \in Stream!Address /\ size \in Stream!Address
  /\ touched \in [first : Stream!Address, count : Stream!Address]
  /\ at_end \in BOOLEAN /\ honest \in BOOLEAN
  /\ packing \in BOOLEAN /\ overrun \in BOOLEAN

InBuffer == honest /\ at_end => start <= pos /\ pos <= limit

TouchedInBuffer ==
  honest /\ touched.count > 0 =>
    start <= touched.first /\ touched.first + touched.count <= limit

Counted ==
  /\ packing => at_end
  /\ honest /\ packing => IF overrun THEN size > limit - start ELSE size = pos - start

StreamInv == BufferOK /\ InBuffer /\ TouchedInBuffer /\ Counted

LEMMA HalfOfWord == Stream!Half \in Nat /\ Stream!Half <= Word
  BY WordAssumption DEF Stream!Half

LEMMA InitSafe == Stream!Init => StreamInv
<1> SUFFICES ASSUME Stream!Init PROVE StreamInv
  OBVIOUS
<1>1. start \in 0..(Word - 1) /\ limit \in Nat /\ limit < Word - 1
      /\ limit - start < Stream!Half /\ start <= limit
  BY WordAssumption DEF Stream!Init, Stream!Address
<1>2. touched = [first |-> 0, count |-> 0] /\ 0 \in Stream!Address
  BY <1>1, WordAssumption DEF Stream!Init, Stream!Nothing, Stream!Address
<1>3. BufferOK
  <2>1. start \in Nat /\ start \in Stream!Address /\ 0 \in Stream!Address
    BY <1>1, WordAssumption DEF Stream!Address
  <2>2. pos = start /\ size = 0 /\ at_end = TRUE /\ honest = TRUE /\ packing = TRUE
        /\ overrun = FALSE
    BY DEF Stream!Init
  <2>3. touched \in [first : Stream!Address, count : Stream!Address]
    BY <1>2
  <2> QED
    BY <1>1, <2>1, <2>2, <2>3 DEF BufferOK
<1> QED
  BY <1>1, <1>2, <1>3, WordAssumption DEF
     Stream!Init, StreamInv, InBuffer, TouchedInBuffer, Counted

(* Sums and differences stay words.                                        *)
LEMMA WordArithmetic ==
  ASSUME NEW x \in Stream!Address, NEW y \in Stream!Address
  PROVE  /\ Stream!Plus(x, y) \in Stream!Address /\ Stream!Minus(x, y) \in Stream!Address
         /\ x + y < Word => Stream!Plus(x, y) = x + y
         /\ x >= y => Stream!Minus(x, y) = x - y
  BY WordAssumption DEF Stream!Address, Stream!Plus, Stream!Minus

(* What a call does that takes s bytes from the position if they are left, *)
(* and touches the first of them.                                          *)
Taken(s, count) ==
  /\ at_end /\ ~overrun
  /\ start' = start /\ limit' = limit /\ at_end' = at_end
  /\ honest' \in BOOLEAN /\ overrun' \in BOOLEAN
  /\ honest' => honest /\ s < Stream!Half /\ limit + s < Word
  /\ honest' => (overrun' <=> s > limit - pos)
  /\ pos' = IF overrun' THEN pos ELSE Stream!Plus(pos, s)
  /\ touched' = IF overrun' THEN Stream!Nothing ELSE [first |-> pos, count |-> count]

(* An honest size does not make the position wrap.                         *)
LEMMA TakenSafe ==
  ASSUME StreamInv, NEW s \in Stream!Address, NEW count \in {0, s}, Taken(s, count)
  PROVE  /\ pos' \in Stream!Address /\ touched' \in [first : Stream!Address, count : Stream!Address]
         /\ InBuffer' /\ TouchedInBuffer'
         /\ honest' => /\ overrun' <=> pos + s > limit
                       /\ ~overrun' => pos' = pos + s
<1>1. /\ start \in Nat /\ limit \in Nat /\ start <= limit /\ limit < Word
      /\ pos \in Nat /\ pos < Word /\ s \in Nat /\ s < Word /\ Word \in Nat
  BY WordAssumption DEF StreamInv, BufferOK, Stream!Address
<1>2. pos' \in Stream!Address
  BY WordArithmetic DEF Taken, StreamInv, BufferOK
<1>3. touched' \in [first : Stream!Address, count : Stream!Address]
  <2>1. 0 \in Stream!Address /\ count \in Stream!Address /\ pos \in Stream!Address
    BY <1>1 DEF Stream!Address
  <2> QED
    BY <2>1 DEF Taken, Stream!Nothing
<1>4. ASSUME honest'
      PROVE  /\ start <= pos /\ pos <= limit
             /\ overrun' <=> pos + s > limit
             /\ ~overrun' => pos' = pos + s
  <2>1. /\ honest /\ at_end /\ limit + s < Word
        /\ overrun' <=> s > limit - pos
        /\ ~overrun' => pos' = Stream!Plus(pos, s)
    BY <1>4 DEF Taken
  <2>2. start <= pos /\ pos <= limit
    BY <2>1 DEF StreamInv, InBuffer
  <2>3. Stream!Plus(pos, s) = pos + s
    BY <1>1, <2>1, <2>2 DEF Stream!Plus
  <2> QED
    BY <1>1, <2>1, <2>2, <2>3
<1>5. InBuffer'
  <2> SUFFICES ASSUME honest', at_end' PROVE start' <= pos' /\ pos' <= limit'
    BY DEF InBuffer
  <2>1. start' = start /\ limit' = limit /\ (overrun' => pos' = pos)
    BY DEF Taken
  <2>2. CASE overrun'
    BY <1>4, <2>1, <2>2
  <2>3. CASE ~overrun'
    BY <1>1, <1>4, <2>1, <2>3
  <2> QED
    BY <2>2, <2>3
<1>6. TouchedInBuffer'
  <2> SUFFICES ASSUME honest', touched'.count > 0
               PROVE  /\ start' <= touched'.first
                      /\ touched'.first + touched'.count <= limit'
    BY DEF TouchedInBuffer
  <2>1. start' = start /\ limit' = limit
    BY DEF Taken
  <2>2. CASE overrun'
    BY <2>2 DEF Taken, Stream!Nothing
  <2>3. CASE ~overrun'
    <3>1. touched'.first = pos /\ touched'.count = count
      BY <2>3 DEF Taken
    <3>2. start <= pos /\ pos <= limit /\ ~(pos + s > limit)
      BY <1>4, <2>3
    <3> QED
      BY <1>1, <2>1, <3>1, <3>2
  <2> QED
    BY <2>2, <2>3
<1> QED
  BY <1>2, <1>3, <1>4, <1>5, <1>6

(* A call that reads is not one of pack's.                                 *)
LEMMA ReadingSafe ==
  ASSUME StreamInv, NEW s \in Stream!Address, NEW count \in {0, s}, Taken(s, count), Stream!Reading
  PROVE  StreamInv'
<1>1. packing' = FALSE /\ size' = size
  BY DEF Stream!Reading
<1>2. BufferOK'
  BY <1>1, TakenSafe DEF StreamInv, BufferOK, Stream!Half, Taken
<1> QED
  BY <1>1, <1>2, TakenSafe DEF StreamInv, Counted

(* A call that writes counts as far as it moves.                           *)
LEMMA CountSafe ==
  ASSUME StreamInv, NEW s \in Stream!Address, NEW count \in {0, s}, Taken(s, count), Stream!Count(s)
  PROVE  StreamInv'
<1>1. packing' = packing /\ size' = Stream!Plus(size, s) /\ size' \in Stream!Address
  BY WordArithmetic DEF Stream!Count, StreamInv, BufferOK
<1>2. BufferOK'
  BY <1>1, TakenSafe DEF StreamInv, BufferOK, Stream!Half, Taken
<1>3. ASSUME honest', packing'
      PROVE  IF overrun' THEN size' > limit' - start' ELSE size' = pos' - start'
  <2>1. /\ honest /\ at_end /\ packing /\ ~overrun /\ limit + s < Word
        /\ start' = start /\ limit' = limit
    BY <1>1, <1>3 DEF Taken
  <2>2. (overrun' <=> pos + s > limit) /\ (~overrun' => pos' = pos + s)
    BY <1>3, TakenSafe
  <2>3. size = pos - start /\ start <= pos /\ pos <= limit
    BY <2>1 DEF StreamInv, Counted, InBuffer
  <2>4. /\ start \in Nat /\ limit \in Nat /\ pos \in Nat /\ s \in Nat
        /\ start <= limit /\ Word \in Nat /\ size \in Nat
    BY WordAssumption DEF StreamInv, BufferOK, Stream!Address
  <2>5. size' = size + s
    BY <1>1, <2>1, <2>3, <2>4 DEF Stream!Plus
  <2> QED
    BY <2>1, <2>2, <2>3, <2>4, <2>5
<1>4. packing' => at_end'
  BY <1>1 DEF Taken
<1> QED
  BY <1>2, <1>3, <1>4, TakenSafe DEF StreamInv, Counted

LEMMA NextSafe == StreamInv /\ [Stream!Next]_(Stream!vars) => StreamInv'
<1> SUFFICES ASSUME StreamInv, [Stream!Next]_(Stream!vars) PROVE StreamInv'
  OBVIOUS
<1>1. /\ start \in Nat /\ limit \in Nat /\ pos \in Nat /\ start <= limit /\ limit < Word - 1
      /\ pos < Word /\ Word \in Nat /\ Stream!Half \in Nat
  BY HalfOfWord, WordAssumption DEF StreamInv, BufferOK, Stream!Address
<1>2. 0 \in Stream!Address /\ 1 \in Stream!Address
  BY <1>1 DEF Stream!Address
<1>3. ASSUME NEW s \in Stream!Address, honest, at_end, Stream!Honest(s)
      PROVE  /\ s < Stream!Half /\ limit + s < Word /\ s \in Nat
             /\ start <= pos /\ pos <= limit /\ limit - pos \in Nat
             /\ Stream!remaining = limit - pos
             /\ Stream!AsSigned(Stream!Minus(limit, pos)) = limit - pos
             /\ Stream!AsSigned(s) = s /\ Stream!Plus(pos, s) = pos + s
  <2>1. s < Stream!Half /\ limit + s < Word /\ s \in Nat /\ start <= pos /\ pos <= limit
    BY <1>3 DEF Stream!Honest, Stream!Address, StreamInv, InBuffer
  <2>2. Stream!Minus(limit, pos) = limit - pos /\ limit - pos \in Nat /\ limit - pos < Stream!Half
    BY <1>1, <2>1 DEF Stream!Minus, StreamInv, BufferOK
  <2> QED
    BY <1>1, <2>1, <2>2 DEF Stream!AsSigned, Stream!remaining, Stream!Plus
<1>4. ASSUME NEW s \in Stream!Address, Stream!read(s) PROVE StreamInv'
  <2>1. /\ at_end /\ ~overrun /\ start' = start /\ limit' = limit /\ at_end' = at_end
        /\ honest' \in BOOLEAN /\ overrun' \in BOOLEAN
        /\ honest' => honest /\ Stream!Honest(s)
        /\ overrun' <=> ~(Stream!remaining >= s)
        /\ pos' = IF overrun' THEN pos ELSE Stream!Plus(pos, s)
        /\ touched' = IF overrun' THEN Stream!Nothing ELSE [first |-> pos, count |-> s]
    BY <1>4 DEF Stream!read, Stream!Take, Stream!Running
  <2>2. ASSUME honest'
        PROVE  honest /\ s < Stream!Half /\ limit + s < Word /\ (overrun' <=> s > limit - pos)
    <3>1. honest /\ at_end /\ Stream!Honest(s)
      BY <2>1, <2>2
    <3> QED
      BY <1>1, <1>2, <1>3, <2>1, <3>1
  <2>3. Taken(s, s)
    BY <2>1, <2>2 DEF Taken
  <2> QED
    BY <1>4, <2>3, ReadingSafe DEF Stream!read
<1>5. ASSUME NEW s \in Stream!Address, Stream!read_reuse_storage(s) PROVE StreamInv'
  <2>1. /\ at_end /\ ~overrun /\ start' = start /\ limit' = limit /\ at_end' = at_end
        /\ honest' \in BOOLEAN /\ overrun' \in BOOLEAN
        /\ honest' => honest /\ Stream!Honest(s)
        /\ overrun' <=> ~(s <= Stream!remaining)
        /\ pos' = IF overrun' THEN pos ELSE Stream!Plus(pos, s)
        /\ touched' = IF overrun' THEN Stream!Nothing ELSE [first |-> pos, count |-> s]
    BY <1>5 DEF Stream!read_reuse_storage, Stream!Take, Stream!Running
  <2>2. ASSUME honest'
        PROVE  honest /\ s < Stream!Half /\ limit + s < Word /\ (overrun' <=> s > limit - pos)
    <3>1. honest /\ at_end /\ Stream!Honest(s)
      BY <2>1, <2>2
    <3> QED
      BY <1>1, <1>2, <1>3, <2>1, <3>1
  <2>3. Taken(s, s)
    BY <2>1, <2>2 DEF Taken
  <2> QED
    BY <1>5, <2>3, ReadingSafe DEF Stream!read_reuse_storage
<1>6. ASSUME NEW s \in Stream!Address, Stream!write(s) PROVE StreamInv'
  <2>1. /\ at_end /\ ~overrun /\ start' = start /\ limit' = limit /\ at_end' = at_end
        /\ honest' \in BOOLEAN /\ overrun' \in BOOLEAN
        /\ honest' => honest /\ Stream!Honest(s)
        /\ overrun' <=> ~(Stream!AsSigned(Stream!Minus(limit, pos)) >= Stream!AsSigned(s))
        /\ pos' = IF overrun' THEN pos ELSE Stream!Plus(pos, s)
        /\ touched' = IF overrun' THEN Stream!Nothing ELSE [first |-> pos, count |-> s]
    BY <1>6 DEF Stream!write, Stream!Take, Stream!Running
  <2>2. ASSUME honest'
        PROVE  honest /\ s < Stream!Half /\ limit + s < Word /\ (overrun' <=> s > limit - pos)
    <3>1. honest /\ at_end /\ Stream!Honest(s)
      BY <2>1, <2>2
    <3> QED
      BY <1>1, <1>2, <1>3, <2>1, <3>1
  <2>3. Taken(s, s)
    BY <2>1, <2>2 DEF Taken
  <2> QED
    BY <1>6, <2>3, CountSafe DEF Stream!write
<1>7. ASSUME NEW s \in Stream!Address, Stream!skip(s) PROVE StreamInv'
  <2>1. /\ at_end /\ ~overrun /\ start' = start /\ limit' = limit /\ at_end' = at_end
        /\ honest' \in BOOLEAN /\ overrun' \in BOOLEAN
        /\ honest' => honest /\ Stream!Honest(s)
        /\ overrun' <=> ~(Stream!Plus(pos, s) <= limit)
        /\ pos' = IF overrun' THEN pos ELSE Stream!Plus(pos, s)
        /\ touched' = IF overrun' THEN Stream!Nothing ELSE [first |-> pos, count |-> 0]
    BY <1>7 DEF Stream!skip, Stream!Take, Stream!Running
  <2>2. ASSUME honest'
        PROVE  honest /\ s < Stream!Half /\ limit + s < Word /\ (overrun' <=> s > limit - pos)
    <3>1. honest /\ at_end /\ Stream!Honest(s)
      BY <2>1, <2>2
    <3> QED
      BY <1>1, <1>2, <1>3, <2>1, <3>1
  <2>3. Taken(s, 0)
    BY <2>1, <2>2 DEF Taken
  <2> QED
    BY <1>7, <2>3, CountSafe DEF Stream!skip
<1>8. CASE Stream!get
  <2>1. /\ at_end /\ ~overrun /\ start' = start /\ limit' = limit /\ at_end' = at_end
        /\ honest' \in BOOLEAN /\ overrun' \in BOOLEAN
        /\ honest' => honest /\ Stream!Honest(1)
        /\ overrun' <=> ~(pos < limit)
        /\ pos' = IF overrun' THEN pos ELSE Stream!Plus(pos, 1)
        /\ touched' = IF overrun' THEN Stream!Nothing ELSE [first |-> pos, count |-> 1]
    BY <1>8 DEF Stream!get, Stream!Take, Stream!Running
  <2>2. ASSUME honest'
        PROVE  honest /\ 1 < Stream!Half /\ limit + 1 < Word /\ (overrun' <=> 1 > limit - pos)
    <3>1. honest /\ at_end /\ Stream!Honest(1)
      BY <2>1, <2>2
    <3> QED
      BY <1>1, <1>2, <1>3, <2>1, <3>1
  <2>3. Taken(1, 1)
    BY <2>1, <2>2 DEF Taken
  <2> QED
    BY <1>2, <1>8, <2>3, ReadingSafe DEF Stream!get
<1>9. CASE Stream!put
  <2>1. /\ at_end /\ ~overrun /\ start' = start /\ limit' = limit /\ at_end' = at_end
        /\ honest' \in BOOLEAN /\ overrun' \in BOOLEAN
        /\ honest' => honest /\ Stream!Honest(1)
        /\ overrun' <=> ~(pos < limit)
        /\ pos' = IF overrun' THEN pos ELSE Stream!Plus(pos, 1)
        /\ touched' = IF overrun' THEN Stream!Nothing ELSE [first |-> pos, count |-> 1]
    BY <1>9 DEF Stream!put, Stream!Take, Stream!Running
  <2>2. ASSUME honest'
        PROVE  honest /\ 1 < Stream!Half /\ limit + 1 < Word /\ (overrun' <=> 1 > limit - pos)
    <3>1. honest /\ at_end /\ Stream!Honest(1)
      BY <2>1, <2>2
    <3> QED
      BY <1>1, <1>2, <1>3, <2>1, <3>1
  <2>3. Taken(1, 1)
    BY <2>1, <2>2 DEF Taken
  <2> QED
    BY <1>2, <1>9, <2>3, CountSafe DEF Stream!put
(* The check of check_available is not about the bytes it takes: none.     *)
<1>10. ASSUME NEW s \in Stream!Address, Stream!check_available(s) PROVE StreamInv'
  <2>1. /\ at_end /\ ~overrun /\ pos' \in {Stream!Plus(pos, 0), pos} /\ overrun' \in BOOLEAN
        /\ honest' \in BOOLEAN /\ (honest' => honest) /\ packing' = FALSE /\ size' = size
        /\ touched' \in {[first |-> pos, count |-> 0], [first |-> 0, count |-> 0]}
        /\ start' = start /\ limit' = limit /\ at_end' = at_end
    BY <1>10 DEF Stream!check_available, Stream!Take, Stream!Running,
       Stream!Reading, Stream!Nothing
  <2>2. pos' = pos
    BY <1>1, <2>1 DEF Stream!Plus
  <2>3. touched' \in [first : Stream!Address, count : Stream!Address] /\ touched'.count = 0
    BY <1>2, <2>1 DEF StreamInv, BufferOK
  <2>4. BufferOK'
    BY <2>1, <2>2, <2>3 DEF StreamInv, BufferOK, Stream!Half
  <2>5. InBuffer'
    BY <2>1, <2>2 DEF StreamInv, InBuffer
  <2>6. TouchedInBuffer' /\ Counted'
    BY <2>1, <2>3 DEF TouchedInBuffer, Counted
  <2> QED
    BY <2>4, <2>5, <2>6 DEF StreamInv
<1>11. ASSUME NEW p \in Stream!Address, Stream!seekp(p) PROVE StreamInv'
  <2>1. /\ pos' = Stream!Plus(start, p) /\ (at_end' <=> Stream!Plus(start, p) <= limit) /\ size' = p
        /\ at_end' \in BOOLEAN /\ honest' \in BOOLEAN /\ packing' = FALSE
        /\ honest' => limit + p < Word
        /\ touched' = [first |-> 0, count |-> 0]
        /\ start' = start /\ limit' = limit /\ overrun' = overrun
    <3>1. honest' = (honest /\ Stream!Honest(p)) /\ at_end' = (Stream!Plus(start, p) <= limit)
      BY <1>11 DEF Stream!seekp
    <3>2. honest' \in BOOLEAN /\ (honest' => limit + p < Word)
      BY <3>1 DEF Stream!Honest
    <3>3. at_end' \in BOOLEAN
      <4>1. (Stream!Plus(start, p) <= limit) \in BOOLEAN
        OBVIOUS
      <4> QED
        BY <3>1, <4>1, Zenon
    <3>4. at_end' <=> Stream!Plus(start, p) <= limit
      BY <3>1, Zenon
    <3> QED
      BY <1>11, <3>2, <3>3, <3>4 DEF Stream!seekp, Stream!Nothing
  <2>2. start \in Stream!Address /\ p \in Nat
    BY <1>1 DEF Stream!Address
  <2>3. Stream!Plus(start, p) \in Stream!Address
    BY <2>2, WordArithmetic
  <2>4. touched' \in [first : Stream!Address, count : Stream!Address] /\ touched'.count = 0
    BY <1>2, <2>1
  <2>5. BufferOK'
    BY <2>1, <2>3, <2>4 DEF StreamInv, BufferOK, Stream!Half
  <2>6. InBuffer'
    <3> SUFFICES ASSUME honest', at_end' PROVE start <= pos' /\ pos' <= limit
      BY <2>1 DEF InBuffer
    <3>1. Stream!Plus(start, p) = start + p
      BY <1>1, <2>1, <2>2 DEF Stream!Plus
    <3> QED
      BY <1>1, <2>1, <2>2, <3>1
  <2>7. TouchedInBuffer' /\ Counted'
    BY <2>1, <2>4 DEF TouchedInBuffer, Counted
  <2> QED
    BY <2>5, <2>6, <2>7 DEF StreamInv
<1>12. CASE UNCHANGED Stream!vars
  BY <1>12 DEF Stream!vars, StreamInv, BufferOK, InBuffer, TouchedInBuffer, Counted
<1> QED
  BY <1>4, <1>5, <1>6, <1>7, <1>8, <1>9, <1>10, <1>11, <1>12 DEF Stream!Next


LEMMA KeptInBuffer == StreamInv => Stream!StaysInBuffer
<1> SUFFICES ASSUME StreamInv, honest PROVE Stream!StaysInBuffer
  BY DEF Stream!StaysInBuffer
<1>1. start \in Nat /\ limit \in Nat /\ pos \in Nat
  BY WordAssumption DEF StreamInv, BufferOK, Stream!Address
<1>2. touched.count > 0 => touched.first >= start /\ touched.first + touched.count <= limit
  BY WordAssumption DEF StreamInv, TouchedInBuffer, BufferOK, Stream!Address
<1>3. ASSUME at_end
      PROVE  /\ pos \in start..limit /\ Stream!tellp + Stream!remaining = limit - start
             /\ Stream!tellp = pos - start
  BY <1>1, <1>3 DEF StreamInv, InBuffer, Stream!tellp, Stream!remaining,
     Stream!Minus
<1>4. packing => IF overrun THEN size > limit - start ELSE size = Stream!tellp
  BY <1>3 DEF StreamInv, Counted
<1> QED
  BY <1>2, <1>3, <1>4 DEF Stream!StaysInBuffer

(* Honest calls of a stream that heed a no of seekp touch no byte outside  *)
(* of its buffer, whatever its width, and what is packed into as many      *)
(* bytes as were counted fits exactly (datastream.hpp:51-176, 202-264).    *)
THEOREM BufferKept == PartsSpec => []StaysInBuffer
<1> DEFINE Inv == part = "Datastream" => StreamInv
<1>1. PartsInit => Inv
  BY InitSafe DEF PartsInit
<1>2. Inv /\ [PartsNext]_partsVars => Inv'
  <2> SUFFICES ASSUME Inv, [PartsNext]_partsVars, part' = "Datastream" PROVE StreamInv'
    OBVIOUS
  <2>1. part = "Datastream" /\ [Stream!Next]_(Stream!vars)
    BY DEF PartsNext, partsVars, datastreamVars, Stream!vars
  <2> QED
    BY <2>1, NextSafe
<1>3. Inv => StaysInBuffer
  BY KeptInBuffer DEF StaysInBuffer
<1> QED
  BY <1>1, <1>2, <1>3, PTL DEF PartsSpec

-----------------------------------------------------------------------------
(***************************************************************************)
(* Actions.  As long as the transaction has not failed, an action was sent *)
(* as often as it has run, waits to be run, and is deferred.               *)
(***************************************************************************)

(* How often the action a is in a sequence.                                *)
Count(q, a) == Cardinality({n \in DOMAIN q : q[n].action = a})
One(x, a) == IF x.action = a THEN 1 ELSE 0

(* How often is a number, above zero if the action is there at all.        *)
LEMMA CountType ==
  ASSUME NEW S, NEW q \in Seq(S), NEW a
  PROVE  /\ IsFiniteSet({n \in DOMAIN q : q[n].action = a}) /\ Count(q, a) \in Nat
         /\ Count(q, a) > 0 <=> \E n \in DOMAIN q : q[n].action = a
<1> DEFINE C == {n \in DOMAIN q : q[n].action = a}
<1>1. IsFiniteSet(C)
  <2>1. Len(q) \in Nat /\ DOMAIN q = 1..Len(q)
    BY LenProperties
  <2>2. IsFiniteSet(1..Len(q))
    BY <2>1, FS_Interval
  <2> QED
    BY <2>1, <2>2, FS_Subset
<1>2. Cardinality(C) \in Nat /\ (Cardinality(C) = 0 <=> C = {})
  BY <1>1, FS_CardinalityType, FS_EmptySet
<1> QED
  BY <1>1, <1>2 DEF Count

(* An action is in two sequences together as often as in each.             *)
LEMMA CountJoined ==
  ASSUME NEW S, NEW q \in Seq(S), NEW r \in Seq(S), NEW a
  PROVE  Count(q \o r, a) = Count(q, a) + Count(r, a)
<1> DEFINE l == Len(q)
           A == {n \in DOMAIN q : q[n].action = a}
           B == {n \in DOMAIN r : r[n].action = a}
           C == {n \in DOMAIN (q \o r) : (q \o r)[n].action = a}
           D == {n \in C : n > l}
           f == [n \in B |-> n + l]
<1>1. /\ l \in Nat /\ DOMAIN q = 1..l /\ DOMAIN r = 1..Len(r) /\ Len(r) \in Nat
      /\ DOMAIN (q \o r) = 1..(l + Len(r))
      /\ \A i \in 1..(l + Len(r)) : (q \o r)[i] = IF i <= l THEN q[i] ELSE r[i - l]
  <2>1. q \o r \in Seq(S) /\ Len(q \o r) = Len(q) + Len(r)
    BY ConcatProperties
  <2> QED
    BY <2>1, LenProperties, ConcatProperties
<1>2. A = {n \in C : n <= l}
  BY <1>1
<1>3. \A n \in B : n + l \in D
  BY <1>1
<1>4. \A n \in D : n - l \in B /\ (n - l) + l = n
  BY <1>1
<1>5. f \in [B -> D]
  BY <1>3
<1>6. \A m, n \in B : f[m] = f[n] => m = n
  BY <1>1
<1>7. \A n \in D : \E m \in B : f[m] = n
  BY <1>4
<1> HIDE DEF A, B, C, D, f
<1>8. f \in Bijection(B, D)
  BY <1>5, <1>6, <1>7 DEF Bijection, Injection, Surjection, IsInjective
<1>9. IsFiniteSet(A) /\ IsFiniteSet(B)
  BY CountType DEF A, B
<1>10. IsFiniteSet(D) /\ Cardinality(D) = Cardinality(B)
  BY <1>8, <1>9, FS_Bijection DEF ExistsBijection
<1>11. C = A \cup D /\ A \cap D = {}
  BY <1>1, <1>2 DEF C, D
<1>12. Cardinality(C) = Cardinality(A) + Cardinality(D) - Cardinality({})
  BY <1>9, <1>10, <1>11, FS_Union
<1>13. Cardinality(A) \in Nat /\ Cardinality(D) \in Nat /\ Cardinality({}) = 0
  BY <1>9, <1>10, FS_CardinalityType, FS_EmptySet
<1> QED
  <2>1. Count(q \o r, a) = Cardinality(C) /\ Count(q, a) = Cardinality(A)
        /\ Count(r, a) = Cardinality(B)
    BY Zenon DEF Count, A, B, C
  <2> QED
    BY <1>10, <1>12, <1>13, <2>1

(* An action is once in a sequence of it alone.                            *)
LEMMA CountOne ==
  ASSUME NEW x, NEW a
  PROVE  Count(<<x>>, a) = One(x, a)
<1>1. DOMAIN <<x>> = {1} /\ <<x>>[1] = x
  OBVIOUS
<1>2. {n \in DOMAIN <<x>> : <<x>>[n].action = a} = IF x.action = a THEN {1} ELSE {}
  BY <1>1
<1> QED
  BY <1>2, FS_Singleton, FS_EmptySet DEF Count, One

(* No action is in the empty sequence.                                     *)
LEMMA CountNone == ASSUME NEW a PROVE Count(<<>>, a) = 0
<1>1. {n \in DOMAIN <<>> : <<>>[n].action = a} = {}
  OBVIOUS
<1> QED
  BY <1>1, FS_EmptySet DEF Count

(* One more is one more of that action.                                    *)
LEMMA CountAppend ==
  ASSUME NEW S, NEW q \in Seq(S), NEW x \in S, NEW a
  PROVE  Count(Append(q, x), a) = Count(q, a) + One(x, a)
<1>1. <<x>> \in Seq(S) /\ Append(q, x) = q \o <<x>>
  BY AppendIsConcat
<1>2. Count(q \o <<x>>, a) = Count(q, a) + Count(<<x>>, a)
  BY <1>1, CountJoined, Zenon
<1> QED
  BY <1>1, <1>2, CountOne, Zenon

(* The first is counted, and then the others.                              *)
LEMMA CountHead ==
  ASSUME NEW S, NEW q \in Seq(S), q # <<>>, NEW a
  PROVE  Count(q, a) = One(Head(q), a) + Count(Tail(q), a)
<1>1. /\ <<Head(q)>> \in Seq(S) /\ Tail(q) \in Seq(S) /\ q = <<Head(q)>> \o Tail(q)
  BY HeadTailProperties
<1>2. Count(<<Head(q)>> \o Tail(q), a) = Count(<<Head(q)>>, a) + Count(Tail(q), a)
  BY <1>1, CountJoined, Zenon
<1> QED
  BY <1>1, <1>2, CountOne, Zenon

(* One removed is one less of that action, and of no other.                *)
LEMMA CountRemoved ==
  ASSUME NEW S, NEW q \in Seq(S), NEW i \in DOMAIN q, NEW a
  PROVE  /\ Sending!RemoveAt(q, i) \in Seq(S)
         /\ Count(q, a) = Count(Sending!RemoveAt(q, i), a) + One(q[i], a)
<1> DEFINE b == SubSeq(q, 1, i - 1) c == SubSeq(q, i + 1, Len(q))
<1>1. /\ DOMAIN q = 1..Len(q) /\ Len(q) \in Nat /\ i \in 1..Len(q)
      /\ \A n \in 1..Len(q) : q[n] \in S
  BY LenProperties
<1>2. b \in Seq(S) /\ c \in Seq(S) /\ <<q[i]>> \in Seq(S)
  <2>1. \A n \in 1..(i - 1) : q[n] \in S
    BY <1>1
  <2>2. \A n \in (i + 1)..Len(q) : q[n] \in S
    BY <1>1
  <2> QED
    BY <1>1, <2>1, <2>2, SubSeqProperties
<1>3. SubSeq(q, 1, i) = b \o <<q[i]>>
  <2>1. 1 \in 1..Len(q)
    BY <1>1
  <2> QED
    BY <1>1, <2>1, SubSeqRecursiveSecond, Zenon
<1>4. q = SubSeq(q, 1, i) \o c
  <2>1. 1 \in 1..(Len(q) + 1) /\ i \in (1 - 1)..Len(q) /\ Len(q) \in i..Len(q)
    BY <1>1
  <2>2. SubSeq(q, 1, i) \o SubSeq(q, i + 1, Len(q)) = SubSeq(q, 1, Len(q))
    BY <2>1, ConcatAdjacentSubSeq, Zenon
  <2>3. SubSeq(q, 1, Len(q)) = q
    BY SubSeqFull, Zenon
  <2> QED
    BY <2>2, <2>3
<1>5. Sending!RemoveAt(q, i) = b \o c
  BY DEF Sending!RemoveAt
<1>6. b \o c \in Seq(S) /\ b \o <<q[i]>> \in Seq(S)
  BY <1>2, ConcatProperties
<1> HIDE DEF b, c
<1>7. Count(b \o c, a) = Count(b, a) + Count(c, a)
  BY <1>2, CountJoined
<1>8. Count(q, a) = Count(b, a) + One(q[i], a) + Count(c, a)
  <2>1. Count(q, a) = Count(b \o <<q[i]>>, a) + Count(c, a)
    <3>1. Count((b \o <<q[i]>>) \o c, a) = Count(b \o <<q[i]>>, a) + Count(c, a)
      BY <1>2, <1>6, CountJoined, Zenon
    <3> QED
      BY <1>3, <1>4, <3>1, Zenon
  <2>2. Count(b \o <<q[i]>>, a) = Count(b, a) + One(q[i], a)
    <3>1. Count(b \o <<q[i]>>, a) = Count(b, a) + Count(<<q[i]>>, a)
      BY <1>2, CountJoined, Zenon
    <3> QED
      BY <3>1, CountOne, Zenon
  <2> QED
    BY <2>1, <2>2
<1>9. Count(b, a) \in Nat /\ Count(c, a) \in Nat /\ One(q[i], a) \in Nat
  BY <1>2, CountType DEF One
<1> QED
  BY <1>5, <1>6, <1>7, <1>8, <1>9

(* What contracts may call, and what comes of it.                          *)
Callings == {t \in Handlers \X Users \X Arguments : Sending!type_check(t[1], t[3])}
Called(t) == Sending!to_action(t[1], t[2], t[3])
Possible == {Called(t) : t \in Callings}
Sendable == {[handler |-> t[1], args |-> t[3], action |-> Called(t)] : t \in Callings}
Account == {h.account : h \in Handlers} \cup {Codeless, Legacy.account}
Running(h) == {h, Sending!Handler(h.account, h.name, h.params, 0)}
Got ==
  [receiver : Account, action : Possible, handler : UNION {Running(h) : h \in Handlers},
   args : Seq(Int), rest : Seq(Int)]

(* Actions that are to be run, and the one that is.                        *)
Lawful(a, cf) == cf => a.authorization = <<>>
News == {Sending!New(p[1], p[2]) : p \in {p \in Possible \X BOOLEAN : Lawful(p[1], p[2])}}
IsItem(c) ==
  /\ c = Sending!Item(c.action, c.cf, c.receivers, c.met, c.inline, c.free)
  /\ c.action \in Possible /\ Lawful(c.action, c.cf)
  /\ c.receivers \in Seq(Account) /\ c.inline \in Seq(News) /\ c.free \in Seq(News)

(* How often the contract an action is for has run it, among the runs r;   *)
(* how often it waits, in the work w while the frame f is running; and     *)
(* whether it is deferred, as d.                                           *)
Ran(r, a) == Cardinality({n \in DOMAIN r : r[n].action = a /\ r[n].receiver = a.account})
Pending(c, f, a) == IF f = <<>> /\ c.met = {} THEN One(c, a) ELSE 0
Queued(c, a) == Count(c.free, a) + Count(c.inline, a)
Waits(w, f, a) ==
  IF w = <<>> THEN 0
  ELSE Pending(Head(w), f, a) + Queued(Head(w), a) + Count(Tail(w), a)
Begun(w, f, r, a) == Ran(r, a) + Waits(w, f, a)
Later(d, a) == IF d # <<>> /\ d[1].actions[1] = a THEN 1 ELSE 0

(* The action's own contract comes first, and is not run again.            *)
HeadSound(c, f, r) ==
  /\ \A n \in 1..Len(c.receivers) :
       c.receivers[n] = c.action.account <=> n = 1 /\ c.met = {}
  /\ c.met = {} \/ f # <<>> => c.receivers # <<>>
  /\ c.met # {} => c.action.account \in c.met
  /\ c.met # {} \/ f # <<>> => Ran(r, c.action) > 0
WorkSound(w, f, r) ==
  /\ w # <<>> =>
       /\ w = <<Head(w)>> \o Tail(w)
       /\ IsItem(Head(w)) /\ Tail(w) \in Seq(News) /\ HeadSound(Head(w), f, r)
  /\ f # <<>> => w # <<>>

Transaction(a) == [context_free_actions |-> <<>>, actions |-> <<a>>]
FrameSound(w, f, r) ==
  f # <<>> /\ f[1].read # <<>> =>
    \E a \in Possible : f[1].read = <<a>> /\ Begun(w, f, r, a) > 0
TrxSound(t, w, f, r) == \E a \in Possible : t = Transaction(a) /\ Begun(w, f, r, a) > 0
DeferredSound(d) == d = <<>> \/ \E a \in Possible : d = <<Transaction(a)>>
Balanced(s, d, w, f, r) ==
  \A a \in Possible : Count(s, a) = Begun(w, f, r, a) + Later(d, a)

(* What ran did so with the action's data.                                 *)
Whole(g) ==
  /\ g.args \o g.rest = g.action.data /\ Len(g.rest) = g.handler.ignored
  /\ g.receiver # Legacy.account => g.receiver = g.action.account
RunsSound(r) == \A n \in 1..Len(r) : Whole(r[n]) /\ Ran(r, r[n].action) > 0

SendInv ==
  /\ sent \in Seq(Sendable) /\ received \in Seq(Got) /\ RunsSound(received)
  /\ \A a \in Possible : Ran(received, a) <= Count(sent, a)
  /\ WorkSound(work, frame, received)
  /\ ended = "no" =>
       /\ FrameSound(work, frame, received) /\ TrxSound(trx, work, frame, received)
       /\ DeferredSound(deferred) /\ Balanced(sent, deferred, work, frame, received)
  /\ ended # "no" => work = <<>> /\ frame = <<>>

(* What is known of an action.                                             *)
LEMMA DataOfAction ==
  ASSUME NEW t \in Callings
  PROVE  /\ t[1] \in Handlers /\ t[2] \in Users /\ t[3] \in Arguments
         /\ Called(t).account = t[1].account /\ Called(t).name = t[1].name
         /\ Called(t).data = [n \in 1..Len(t[3]) |->
                               Sending!Converted(t[3][n].value, t[1].params[n])]
         /\ Called(t).data \in Seq(Int) /\ Len(Called(t).data) = Len(t[3])
         /\ Len(t[3]) \in Nat /\ DOMAIN t[3] = 1..Len(t[3]) /\ Len(t[3]) = Len(t[1].params)
<1>1. t[1] \in Handlers /\ t[2] \in Users /\ t[3] \in Arguments
  BY DEF Callings
<1>2. Sending!type_check(t[1], t[3])
  BY DEF Callings
<1>3. Len(t[3]) = Len(t[1].params)
  BY <1>2 DEF Sending!type_check
<1>4. Len(t[3]) \in Nat /\ DOMAIN t[3] = 1..Len(t[3])
  BY <1>1, ArgumentsAssumption, LenProperties DEF IsSequence
<1> DEFINE d == [n \in 1..Len(t[3]) |-> Sending!Converted(t[3][n].value, t[1].params[n])]
<1>5. \A n \in 1..Len(t[3]) : t[3][n].value \in Int
  BY <1>1, <1>4, ArgumentsAssumption
<1>6. \A u : \A v \in Int : Sending!Converted(v, u) \in Int
  BY ArgumentsAssumption DEF Sending!Converted
<1>7. d \in Seq(Int) /\ Len(d) = Len(t[3])
  <2>1. d \in [1..Len(t[3]) -> Int]
    BY <1>5, <1>6
  <2> HIDE DEF d
  <2> QED
    BY <1>4, <2>1
<1>8. /\ Called(t).account = t[1].account /\ Called(t).name = t[1].name
      /\ Called(t).data = d
  BY <1>4, Zenon DEF Called, Sending!to_action, Sending!Action, Sending!deduced
<1> QED
  BY <1>1, <1>3, <1>4, <1>7, <1>8

(* Its contract has code; its data is as long as the handler's parameters. *)
LEMMA PossibleAction ==
  ASSUME NEW a \in Possible
  PROVE  /\ a.account \in Account /\ a.account # Codeless
         /\ a.account = Legacy.account => <<a.account, a.name>> \in Legacy.takes
         /\ a.data \in Seq(Int)
         /\ \A h \in Handlers : h.account = a.account /\ h.name = a.name =>
              Len(a.data) = Len(h.params)
<1>1. PICK t \in Callings : a = Called(t)
  BY DEF Possible
<1>2. /\ t[1] \in Handlers /\ a.account = t[1].account /\ a.name = t[1].name
      /\ a.data \in Seq(Int) /\ Len(a.data) = Len(t[1].params)
  BY <1>1, DataOfAction
<1> QED
  BY <1>2, HandlersAssumption DEF Account

(* Numbers of runs, of what waits, and of what is sent.                    *)
LEMMA RanType ==
  ASSUME NEW r \in Seq(Got), NEW a
  PROVE  /\ IsFiniteSet({n \in DOMAIN r : r[n].action = a /\ r[n].receiver = a.account})
         /\ Ran(r, a) \in Nat
<1>1. Len(r) \in Nat /\ DOMAIN r = 1..Len(r)
  BY LenProperties
<1>2. IsFiniteSet(1..Len(r))
  BY <1>1, FS_Interval
<1>3. IsFiniteSet({n \in DOMAIN r : r[n].action = a /\ r[n].receiver = a.account})
  BY <1>1, <1>2, FS_Subset
<1> QED
  BY <1>3, FS_CardinalityType DEF Ran

(* One more run is one more of that action if its own contract ran it.     *)
LEMMA RanAppend ==
  ASSUME NEW r \in Seq(Got), NEW g \in Got, NEW a
  PROVE  Ran(Append(r, g), a) =
           Ran(r, a) + IF g.action = a /\ g.receiver = a.account THEN 1 ELSE 0
<1> DEFINE q == Append(r, g)
           A == {n \in DOMAIN r : r[n].action = a /\ r[n].receiver = a.account}
           B == {n \in DOMAIN q : q[n].action = a /\ q[n].receiver = a.account}
<1>1. /\ Len(r) \in Nat /\ DOMAIN r = 1..Len(r) /\ DOMAIN q = 1..(Len(r) + 1)
      /\ \A n \in 1..Len(r) : q[n] = r[n]
      /\ q[Len(r) + 1] = g
  <2>1. q \in Seq(Got) /\ Len(q) = Len(r) + 1
    BY AppendProperties
  <2> QED
    BY <2>1, LenProperties, AppendProperties
<1>2. B = IF g.action = a /\ g.receiver = a.account THEN A \cup {Len(r) + 1} ELSE A
  BY <1>1
<1>3. Len(r) + 1 \notin A
  BY <1>1
<1>4. IsFiniteSet(A) /\ Cardinality(A) \in Nat
  BY RanType, FS_CardinalityType
<1> HIDE DEF q, A, B
<1>5. Cardinality(B) =
        Cardinality(A) + IF g.action = a /\ g.receiver = a.account THEN 1 ELSE 0
  <2>1. Cardinality(A \cup {Len(r) + 1}) = Cardinality(A) + 1
    BY <1>3, <1>4, FS_AddElement
  <2>2. CASE g.action = a /\ g.receiver = a.account
    BY <1>2, <2>1, <2>2
  <2>3. CASE ~(g.action = a /\ g.receiver = a.account)
    BY <1>2, <1>4, <2>3
  <2> QED
    BY <2>2, <2>3
<1> QED
  BY <1>5, Zenon DEF Ran, A, B, q

(* An action that is new has only its own contract to run it.              *)
LEMMA NewItem ==
  ASSUME NEW c \in News
  PROVE  /\ IsItem(c) /\ c.met = {} /\ c.receivers = <<c.action.account>>
         /\ c.inline = <<>> /\ c.free = <<>>
<1>1. PICK p \in Possible \X BOOLEAN : c = Sending!New(p[1], p[2]) /\ Lawful(p[1], p[2])
  BY DEF News
<1>2. p[1] \in Possible /\ p[1].account \in Account
  BY PossibleAction
<1> QED
  BY <1>1, <1>2 DEF IsItem, Sending!New, Sending!Item

(* An action that may be called makes a lawful item.                       *)
LEMMA IsNew ==
  ASSUME NEW a \in Possible, NEW cf \in BOOLEAN, Lawful(a, cf)
  PROVE  Sending!New(a, cf) \in News /\ Sending!New(a, cf).action = a
<1>1. Sending!New(a, cf).action = a
  BY DEF Sending!New, Sending!Item
<1>2. <<a, cf>> \in {p \in Possible \X BOOLEAN : Lawful(p[1], p[2])}
  OBVIOUS
<1> QED
  BY <1>1, <1>2 DEF News

(* What one item holds is a number.                                        *)
LEMMA QueuedType ==
  ASSUME NEW c, IsItem(c), NEW q \in Seq(News), NEW a
  PROVE  Queued(c, a) \in Nat /\ Count(q, a) \in Nat
<1>1. c.free \in Seq(News) /\ c.inline \in Seq(News)
  BY DEF IsItem
<1>2. Count(c.free, a) \in Nat
  BY <1>1, CountType, Zenon
<1>3. Count(c.inline, a) \in Nat
  BY <1>1, CountType, Zenon
<1>4. Count(q, a) \in Nat
  BY CountType, Zenon
<1> QED
  BY <1>2, <1>3, <1>4 DEF Queued

(* So is what waits and what has begun.                                    *)
LEMMA WaitsType ==
  ASSUME NEW w, NEW f, NEW r \in Seq(Got), WorkSound(w, f, r), NEW a
  PROVE  Waits(w, f, a) \in Nat /\ Ran(r, a) \in Nat /\ Begun(w, f, r, a) \in Nat
<1>1. Ran(r, a) \in Nat
  BY RanType
<1>2. CASE w = <<>>
  BY <1>1, <1>2 DEF Waits, Begun
<1>3. CASE w # <<>>
  <2>1. IsItem(Head(w)) /\ Tail(w) \in Seq(News)
    BY <1>3 DEF WorkSound
  <2>2. Queued(Head(w), a) \in Nat /\ Count(Tail(w), a) \in Nat
    BY <2>1, QueuedType
  <2>3. Pending(Head(w), f, a) \in Nat
    BY DEF Pending, One
  <2> QED
    BY <1>1, <1>3, <2>2, <2>3 DEF Waits, Begun
<1> QED
  BY <1>2, <1>3

(* A sequence of one and others.                                           *)
LEMMA Consed ==
  ASSUME NEW S, NEW q \in Seq(S), NEW x
  PROVE  /\ <<x>> \o q # <<>> /\ Head(<<x>> \o q) = x /\ Tail(<<x>> \o q) = q
<1> DEFINE T == S \cup {x}
<1>1. <<x>> \in Seq(T) /\ q \in Seq(T)
  <2>1. S \subseteq T /\ x \in T
    OBVIOUS
  <2> HIDE DEF T
  <2> QED
    BY <2>1, SeqMonotonic
<1> HIDE DEF T
<1> QED
  BY <1>1

-----------------------------------------------------------------------------
(* A transaction that fails leaves nothing to be run.                      *)
LEMMA AbortKeeps ==
  ASSUME SendInv, NEW why, why # "no", Sending!Abort(why)
  PROVE  SendInv'
  BY DEF SendInv, Sending!Abort, WorkSound

(* What is left of the invariant for a step that sends and defers nothing, *)
(* after which every action has begun as often as before.                  *)
LEMMA Steady ==
  ASSUME SendInv, ended = "no", UNCHANGED <<sent, deferred, trx, ended>>,
         received' \in Seq(Got), RunsSound(received'),
         WorkSound(work', frame', received'),
         \A a \in Possible :
           Begun(work', frame', received', a) = Begun(work, frame, received, a),
         frame' # <<>> /\ frame'[1].read # <<>> =>
           \/ frame # <<>> /\ frame'[1].read = frame[1].read
           \/ \E n \in 1..Len(trx.actions) : frame'[1].read = <<trx.actions[n]>>
  PROVE  SendInv'
<1>1. Balanced(sent', deferred', work', frame', received')
  BY DEF Balanced, SendInv
<1>2. \A a \in Possible : Ran(received', a) <= Count(sent', a)
  <2> TAKE a \in Possible
  <2>1. Count(sent', a) = Begun(work', frame', received', a) + Later(deferred', a)
    BY <1>1 DEF Balanced
  <2>2. Ran(received', a) \in Nat /\ Waits(work', frame', a) \in Nat
    BY WaitsType
  <2> QED
    BY <2>1, <2>2 DEF Begun, Later
<1>3. PICK a \in Possible : trx = Transaction(a) /\ Begun(work, frame, received, a) > 0
  BY DEF SendInv, TrxSound
<1>4. trx.actions = <<a>>
  BY <1>3 DEF Transaction
<1>5. TrxSound(trx', work', frame', received')
  BY <1>3 DEF TrxSound
<1>6. FrameSound(work', frame', received')
  BY <1>3, <1>4 DEF FrameSound, SendInv
<1> QED
  BY <1>1, <1>2, <1>5, <1>6 DEF SendInv

(* The contract runs the action; its own contract does so once.            *)
LEMMA RunKeeps ==
  ASSUME SendInv, Sending!Due, NEW h, NEW args \in Seq(Int), NEW rest \in Seq(Int),
         h \in UNION {Running(k) : k \in Handlers},
         args \o rest = Sending!Current.action.data, Len(rest) = h.ignored,
         Sending!Receiver # Legacy.account => Sending!Receiver = Sending!Current.action.account,
         Sending!Run(Sending!Receiver, h, args, rest)
  PROVE  SendInv'
<1> DEFINE c == Head(work) rec == Head(c.receivers)
           g == [receiver |-> rec, action |-> c.action, handler |-> h, args |-> args, rest |-> rest]
<1>1. /\ ended = "no" /\ frame = <<>> /\ work # <<>> /\ c.receivers # <<>>
      /\ frame' = <<[receiver |-> rec, read |-> <<>>]>> /\ received' = Append(received, g)
      /\ UNCHANGED <<work, trx, deferred, sent, ended>>
  BY DEF Sending!Due, Sending!Run, Sending!Current, Sending!Receiver
<1>2. /\ IsItem(c) /\ Tail(work) \in Seq(News) /\ HeadSound(c, frame, received)
      /\ received \in Seq(Got)
  BY <1>1 DEF SendInv, WorkSound
<1>3. /\ c.receivers \in Seq(Account) /\ rec \in Account /\ c.action \in Possible
      /\ Len(c.receivers) \in Nat /\ Len(c.receivers) > 0 /\ rec = c.receivers[1]
  BY <1>1, <1>2, HeadTailProperties DEF IsItem
<1>4. rec = c.action.account <=> c.met = {}
  <2>1. 1 \in 1..Len(c.receivers)
    BY <1>3
  <2>2. c.receivers[1] = c.action.account <=> c.met = {}
    BY <1>2, <2>1 DEF HeadSound
  <2> QED
    BY <1>3, <2>2
<1>5. g \in Got
  BY <1>3 DEF Got
<1> HIDE DEF g
<1>6. \A a \in Possible :
        Ran(received', a) = Ran(received, a) + IF c.action = a /\ c.met = {} THEN 1 ELSE 0
  <2> TAKE a \in Possible
  <2>1. Ran(received', a) =
          Ran(received, a) + IF g.action = a /\ g.receiver = a.account THEN 1 ELSE 0
    BY <1>1, <1>2, <1>5, RanAppend
  <2>2. g.action = a /\ g.receiver = a.account <=> c.action = a /\ c.met = {}
    BY <1>4 DEF g
  <2> QED
    BY <2>1, <2>2
<1>7. \A a \in Possible : Ran(received, a) \in Nat
  BY <1>2, RanType
<1>8. Ran(received', c.action) > 0
  <2>1. c.action \in Possible /\ Ran(received, c.action) \in Nat
    BY <1>3, <1>7
  <2>2. CASE c.met = {}
    BY <1>6, <2>1, <2>2
  <2>3. CASE c.met # {}
    <3>1. Ran(received, c.action) > 0
      BY <1>2, <2>3 DEF HeadSound
    <3> QED
      BY <1>6, <2>1, <2>3, <3>1
  <2> QED
    BY <2>2, <2>3
<1>9. received' \in Seq(Got)
  BY <1>1, <1>2, <1>5, AppendProperties
<1>10. RunsSound(received')
  <2>1. /\ Len(received') = Len(received) + 1 /\ Len(received) \in Nat
        /\ received'[Len(received) + 1] = g
        /\ \A n \in 1..Len(received) : received'[n] = received[n] /\ received[n] \in Got
    BY <1>1, <1>2, <1>5, AppendProperties, LenProperties
  <2>2. Whole(g) /\ g.action = c.action
    BY DEF Whole, g, Sending!Current, Sending!Receiver
  <2>3. \A n \in 1..Len(received) : Whole(received[n]) /\ Ran(received', received[n].action) > 0
    <3> TAKE n \in 1..Len(received)
    <3>1. Whole(received[n]) /\ Ran(received, received[n].action) > 0
      BY DEF SendInv, RunsSound
    <3>2. received[n].action \in Possible
      BY <2>1 DEF Got
    <3>3. PICK a \in Possible : a = received[n].action
      BY <3>2
    <3>4. Ran(received, a) \in Nat /\ Ran(received, a) > 0
      BY <1>7, <3>1, <3>3
    <3>5. Ran(received', a) = Ran(received, a) \/ Ran(received', a) = Ran(received, a) + 1
      BY <1>6, <3>4
    <3>6. Ran(received', a) > 0
      BY <3>4, <3>5
    <3> QED
      BY <3>1, <3>3, <3>6
  <2>4. ASSUME NEW n \in 1..Len(received')
        PROVE  Whole(received'[n]) /\ Ran(received', received'[n].action) > 0
    <3>1. CASE n \in 1..Len(received)
      <4>1. received'[n] = received[n]
        BY <2>1, <3>1
      <4>2. Whole(received[n]) /\ Ran(received', received[n].action) > 0
        BY <2>3, <3>1
      <4> QED
        BY <4>1, <4>2
    <3>2. CASE n = Len(received) + 1
      BY <1>8, <2>1, <2>2, <3>2
    <3>3. n \in 1..Len(received) \/ n = Len(received) + 1
      BY <2>1, <2>4
    <3> QED
      BY <3>1, <3>2, <3>3
  <2> QED
    BY <2>4 DEF RunsSound
<1>11. WorkSound(work', frame', received')
  <2>1. HeadSound(c, frame', received')
    BY <1>1, <1>2, <1>8 DEF HeadSound
  <2> QED
    BY <1>1, <1>2, <2>1 DEF WorkSound
<1>12. \A a \in Possible :
         Begun(work', frame', received', a) = Begun(work, frame, received, a)
  <2> TAKE a \in Possible
  <2>1. /\ Waits(work, frame, a) = Pending(c, frame, a) + Queued(c, a) + Count(Tail(work), a)
        /\ Waits(work', frame', a) = Pending(c, frame', a) + Queued(c, a) + Count(Tail(work), a)
    BY <1>1 DEF Waits
  <2>2. /\ Pending(c, frame, a) = IF c.action = a /\ c.met = {} THEN 1 ELSE 0
        /\ Pending(c, frame', a) = 0
    BY <1>1 DEF Pending, One
  <2>3. Queued(c, a) \in Nat /\ Count(Tail(work), a) \in Nat
    BY <1>2, QueuedType
  <2>4. Ran(received, a) \in Nat
    BY <1>7
  <2>5. CASE c.action = a /\ c.met = {}
    BY <1>6, <2>1, <2>2, <2>3, <2>4, <2>5 DEF Begun
  <2>6. CASE ~(c.action = a /\ c.met = {})
    BY <1>6, <2>1, <2>2, <2>3, <2>4, <2>6 DEF Begun
  <2> QED
    BY <2>5, <2>6
<1>13. frame'[1].read = <<>>
  BY <1>1
<1> QED
  BY <1>1, <1>9, <1>10, <1>11, <1>12, <1>13, Steady

(* EOSIO_ACTIONS splits the data into what is read and what is left.       *)
LEMMA ApplyKeeps ==
  ASSUME SendInv, Sending!eosio_apply
  PROVE  SendInv'
<1> DEFINE c == Head(work) bytes == c.action.data
<1>1. /\ work # <<>> /\ c.action \in Possible /\ c = Sending!Current
  BY DEF SendInv, WorkSound, IsItem, Sending!eosio_apply, Sending!Due, Sending!Current
<1>2. bytes \in Seq(Int) /\ Len(bytes) \in Nat
  BY <1>1, PossibleAction, LenProperties
<1>3. CASE \E why : why # "no" /\ Sending!Abort(why)
  BY <1>3, AbortKeeps
<1>4. ASSUME NEW h \in Sending!Matching, Sending!ForThisCode,
             ~(Len(bytes) < Sending!Reads(h)),
             Sending!Run(Sending!Receiver, h, SubSeq(bytes, 1, Sending!Reads(h)),
                         SubSeq(bytes, Sending!Reads(h) + 1, Len(bytes)))
      PROVE  SendInv'
  <2>1. /\ h \in Handlers /\ h.account = c.action.account /\ h.name = c.action.name
        /\ Sending!Receiver = c.action.account
    BY <1>1, <1>4 DEF Sending!Matching, Sending!ForThisCode
  <2>2. Len(bytes) = Len(h.params) /\ h.ignored \in 0..Len(h.params)
    BY <1>1, <2>1, PossibleAction, HandlersAssumption
  <2> DEFINE m == Sending!Reads(h)
             args == SubSeq(bytes, 1, m) rest == SubSeq(bytes, m + 1, Len(bytes))
  <2>3. m \in 0..Len(bytes) /\ Len(bytes) - m = h.ignored
    BY <1>2, <2>2 DEF Sending!Reads
  <2>4. /\ args \in Seq(Int) /\ rest \in Seq(Int) /\ Len(rest) = h.ignored
    <3>1. \A n \in 1..Len(bytes) : bytes[n] \in Int
      BY <1>2, LenProperties
    <3>2. (\A n \in 1..m : bytes[n] \in Int) /\ (\A n \in (m + 1)..Len(bytes) : bytes[n] \in Int)
      BY <1>2, <2>3, <3>1
    <3>3. m \in Int /\ 1 \in Int /\ m + 1 \in Int /\ Len(bytes) \in Int
      BY <1>2, <2>3
    <3> HIDE DEF m, bytes
    <3>4. args \in Seq(Int)
      BY <3>2, <3>3, SubSeqProperties
    <3>5. /\ rest \in Seq(Int)
          /\ Len(rest) = IF m + 1 <= Len(bytes) THEN Len(bytes) - (m + 1) + 1 ELSE 0
      BY <3>2, <3>3, SubSeqProperties
    <3> QED
      BY <1>2, <2>3, <3>4, <3>5
  <2>5. args \o rest = bytes
    <3>1. 1 \in 1..(Len(bytes) + 1) /\ m \in (1 - 1)..Len(bytes) /\ Len(bytes) \in m..Len(bytes)
      BY <1>2, <2>3
    <3> HIDE DEF m, bytes
    <3>2. args \o rest = SubSeq(bytes, 1, Len(bytes))
      BY <1>2, <3>1, ConcatAdjacentSubSeq, Zenon
    <3> QED
      BY <1>2, <3>2, SubSeqFull, Zenon
  <2>6. h \in UNION {Running(k) : k \in Handlers}
    BY <2>1 DEF Running
  <2>7. Sending!Due
    BY DEF Sending!eosio_apply
  <2>8. Sending!Run(Sending!Receiver, h, args, rest)
    BY <1>4
  <2> HIDE DEF m, args, rest
  <2> QED
    BY <1>1, <2>1, <2>4, <2>5, <2>6, <2>7, <2>8, RunKeeps
<1> QED
  BY <1>1, <1>3, <1>4 DEF Sending!eosio_apply

(* dispatch reads all of it.                                               *)
LEMMA DispatchKeeps ==
  ASSUME SendInv, Sending!dispatch
  PROVE  SendInv'
<1> DEFINE c == Head(work) bytes == c.action.data
<1>1. /\ work # <<>> /\ c.action \in Possible /\ c = Sending!Current /\ Sending!Due
      /\ Sending!Receiver = Legacy.account
  BY DEF SendInv, WorkSound, IsItem, Sending!dispatch, Sending!Due, Sending!Current
<1>2. bytes \in Seq(Int)
  BY <1>1, PossibleAction
<1>3. CASE Sending!Abort("read")
  BY <1>3, AbortKeeps
<1>4. ASSUME NEW h \in Handlers,
             Sending!Run(Sending!Receiver, Sending!Handler(h.account, h.name, h.params, 0),
                         bytes, <<>>)
      PROVE  SendInv'
  <2> DEFINE k == Sending!Handler(h.account, h.name, h.params, 0)
  <2>1. k \in UNION {Running(x) : x \in Handlers} /\ k.ignored = 0
    BY DEF Running, Sending!Handler
  <2>2. <<>> \in Seq(Int) /\ Len(<<>>) = 0 /\ bytes \o <<>> = bytes
    BY <1>2, EmptySeq, ConcatEmptySeq
  <2> HIDE DEF k
  <2>3. Sending!Run(Sending!Receiver, k, bytes, <<>>)
    BY <1>4 DEF k
  <2>4. /\ bytes \o <<>> = Sending!Current.action.data
        /\ Sending!Receiver # Legacy.account => Sending!Receiver = Sending!Current.action.account
    BY <1>1, <2>2
  <2> QED
    BY <1>1, <1>2, <2>1, <2>2, <2>3, <2>4, RunKeeps
<1> QED
  BY <1>1, <1>3, <1>4 DEF Sending!dispatch

(* The next receiver's turn; the contract of the action has had its own.   *)
LEMMA PassKeeps ==
  ASSUME SendInv, ended = "no", work # <<>>, Head(work).receivers # <<>>,
         frame # <<>> \/ Sending!Receiver # Head(work).action.account,
         work' = <<Sending!Received>> \o Tail(work), frame' = <<>>,
         UNCHANGED <<trx, deferred, sent, received, ended>>
  PROVE  SendInv'
<1> DEFINE c == Head(work) d == Sending!Received rec == Head(c.receivers)
<1>1. /\ IsItem(c) /\ Tail(work) \in Seq(News) /\ HeadSound(c, frame, received)
      /\ received \in Seq(Got)
  BY DEF SendInv, WorkSound
<1>2. /\ d.action = c.action /\ d.cf = c.cf /\ d.receivers = Tail(c.receivers)
      /\ d.met = c.met \cup {rec} /\ d.inline = c.inline /\ d.free = c.free
      /\ d = Sending!Item(d.action, d.cf, d.receivers, d.met, d.inline, d.free)
  BY DEF Sending!Received, Sending!Item, Sending!Current, Sending!Receiver
<1>3. /\ c.receivers \in Seq(Account) /\ Len(c.receivers) \in Nat /\ rec = c.receivers[1]
      /\ Tail(c.receivers) \in Seq(Account) /\ Len(Tail(c.receivers)) = Len(c.receivers) - 1
      /\ \A n \in 1..(Len(c.receivers) - 1) : Tail(c.receivers)[n] = c.receivers[n + 1]
      /\ 1 \in 1..Len(c.receivers)
  <2>1. c.receivers \in Seq(Account)
    BY <1>1 DEF IsItem
  <2> QED
    BY <2>1, HeadTailProperties, LenProperties
<1>4. rec = c.action.account <=> c.met = {}
  BY <1>1, <1>3 DEF HeadSound
<1>5. frame # <<>> \/ c.met # {}
  BY <1>4 DEF Sending!Receiver, Sending!Current
<1>6. IsItem(d)
  BY <1>1, <1>2, <1>3 DEF IsItem
<1>7. HeadSound(d, <<>>, received)
  <2>1. \A n \in 1..Len(d.receivers) : d.receivers[n] # c.action.account
    BY <1>1, <1>2, <1>3 DEF HeadSound
  <2>2. d.met # {} /\ c.action.account \in d.met
    BY <1>1, <1>2, <1>4 DEF HeadSound
  <2>3. Ran(received, c.action) > 0
    BY <1>1, <1>5 DEF HeadSound
  <2> HIDE DEF d
  <2> QED
    BY <1>2, <2>1, <2>2, <2>3 DEF HeadSound
<1> HIDE DEF d
<1>8. work' # <<>> /\ Head(work') = d /\ Tail(work') = Tail(work)
  BY <1>1, Consed DEF d
<1>11. work' = <<Head(work')>> \o Tail(work')
  BY <1>8, Zenon DEF d
<1>9. WorkSound(work', frame', received')
  BY <1>1, <1>6, <1>7, <1>8, <1>11 DEF WorkSound
<1>10. \A a \in Possible :
         Begun(work', frame', received', a) = Begun(work, frame, received, a)
  <2> TAKE a \in Possible
  <2>1. Pending(c, frame, a) = 0 /\ Pending(d, frame', a) = 0
    BY <1>2, <1>5 DEF Pending
  <2>2. Queued(d, a) = Queued(c, a)
    BY <1>2 DEF Queued
  <2> QED
    BY <1>8, <2>1, <2>2 DEF Begun, Waits
<1> QED
  BY <1>1, <1>9, <1>10, Steady DEF SendInv

(* A contract that returns has run the action.                             *)
LEMMA ReturnKeeps ==
  ASSUME SendInv, Sending!Return
  PROVE  SendInv'
<1>1. /\ ended = "no" /\ frame # <<>> /\ work # <<>> /\ Head(work).receivers # <<>>
  BY DEF Sending!Return, Sending!Running, SendInv, WorkSound, HeadSound
<1> QED
  BY <1>1, PassKeeps DEF Sending!Return

(* Who does not run it is not its own contract.                            *)
LEMMA NotDispatchedKeeps ==
  ASSUME SendInv, Sending!NotDispatched
  PROVE  SendInv'
<1> DEFINE c == Head(work)
<1>1. /\ ended = "no" /\ frame = <<>> /\ work # <<>> /\ c.receivers # <<>>
      /\ c.action \in Possible /\ c = Sending!Current
  BY DEF Sending!NotDispatched, Sending!Due, Sending!Current, SendInv, WorkSound, IsItem
<1>2. Sending!Receiver # c.action.account
  BY <1>1, PossibleAction DEF Sending!NotDispatched
<1>3. UNCHANGED <<trx, deferred, sent, received, ended>> /\ frame' = <<>>
  BY <1>1 DEF Sending!NotDispatched
<1> QED
  BY <1>1, <1>2, <1>3, PassKeeps DEF Sending!NotDispatched

(* Work that is new, each part of which waits.                             *)
LEMMA NewWork ==
  ASSUME NEW w \in Seq(News), NEW r
  PROVE  /\ WorkSound(w, <<>>, r)
         /\ \A a \in Possible : Waits(w, <<>>, a) = Count(w, a)
<1>1. CASE w = <<>>
  BY <1>1, CountNone DEF WorkSound, Waits
<1>2. CASE w # <<>>
  <2> DEFINE c == Head(w)
  <2>1. c \in News /\ Tail(w) \in Seq(News)
    BY <1>2, HeadTailProperties
  <2>2. /\ IsItem(c) /\ c.met = {} /\ c.receivers = <<c.action.account>>
        /\ c.inline = <<>> /\ c.free = <<>>
    BY <2>1, NewItem
  <2> HIDE DEF c
  <2>3. HeadSound(c, <<>>, r)
    BY <2>2 DEF HeadSound
  <2>4. WorkSound(w, <<>>, r)
    BY <2>1, <2>2, <2>3 DEF WorkSound, c
  <2>5. ASSUME NEW a \in Possible PROVE Waits(w, <<>>, a) = Count(w, a)
    <3>1. Pending(c, <<>>, a) = One(c, a) /\ Queued(c, a) = 0
      BY <2>2, CountNone DEF Pending, Queued
    <3>2. Count(w, a) = One(c, a) + Count(Tail(w), a)
      BY <1>2, CountHead DEF c
    <3>3. One(c, a) \in Nat
      BY DEF One
    <3> QED
      BY <1>2, <3>1, <3>2, <3>3 DEF Waits, c
  <2> QED
    BY <2>4, <2>5
<1> QED
  BY <1>1, <1>2

(* What was sent is run next, and all of it.                               *)
LEMMA DescendKeeps ==
  ASSUME SendInv, Sending!Descend
  PROVE  SendInv'
<1> DEFINE c == Head(work)
<1>1. /\ ended = "no" /\ frame = <<>> /\ work # <<>> /\ c.receivers = <<>>
      /\ work' = c.free \o c.inline \o Tail(work)
      /\ UNCHANGED <<frame, trx, deferred, sent, received, ended>>
  BY DEF Sending!Descend, Sending!Current
<1>2. /\ IsItem(c) /\ Tail(work) \in Seq(News) /\ HeadSound(c, frame, received)
      /\ received \in Seq(Got) /\ RunsSound(received)
  BY <1>1 DEF SendInv, WorkSound
<1>3. c.free \in Seq(News) /\ c.inline \in Seq(News) /\ c.met # {}
  BY <1>1, <1>2 DEF IsItem, HeadSound
<1>4. c.free \o c.inline \in Seq(News) /\ work' \in Seq(News)
  BY <1>1, <1>2, <1>3, ConcatProperties
<1>5. WorkSound(work', frame', received')
  BY <1>1, <1>4, NewWork
<1>6. \A a \in Possible :
        Begun(work', frame', received', a) = Begun(work, frame, received, a)
  <2> TAKE a \in Possible
  <2>1. Waits(work', frame', a) = Count(work', a)
    BY <1>1, <1>4, NewWork
  <2>2. Count((c.free \o c.inline) \o Tail(work), a) =
          Count(c.free \o c.inline, a) + Count(Tail(work), a)
    BY <1>2, <1>4, CountJoined, Zenon
  <2>3. Count(c.free \o c.inline, a) = Queued(c, a)
    BY <1>3, CountJoined DEF Queued
  <2>4. Waits(work, frame, a) = 0 + Queued(c, a) + Count(Tail(work), a)
    BY <1>1, <1>3 DEF Waits, Pending
  <2>5. Queued(c, a) \in Nat /\ Count(Tail(work), a) \in Nat
    BY <1>2, QueuedType
  <2> QED
    BY <1>1, <2>1, <2>2, <2>3, <2>4, <2>5 DEF Begun
<1> QED
  BY <1>1, <1>2, <1>5, <1>6, Steady

(* What was deferred waits no longer there, but in the work.               *)
LEMMA StartKeeps ==
  ASSUME SendInv, Sending!StartDeferred
  PROVE  SendInv'
<1>1. PICK b \in Possible : deferred = <<Transaction(b)>>
  BY DEF SendInv, DeferredSound, Sending!StartDeferred
<1>2. deferred[1].actions = <<b>>
  BY <1>1 DEF Transaction
<1> DEFINE e == Sending!New(b, FALSE)
<1>3. /\ ended = "no" /\ work = <<>> /\ frame = <<>> /\ trx' = Transaction(b)
      /\ deferred' = <<>> /\ work' = <<e>> /\ UNCHANGED <<frame, sent, received, ended>>
  <2>1. /\ ended = "no" /\ work = <<>> /\ trx' = deferred[1] /\ deferred' = <<>>
        /\ work' = [n \in DOMAIN <<b>> |-> Sending!New(<<b>>[n], FALSE)]
        /\ UNCHANGED <<frame, sent, received, ended>>
    BY <1>2, Zenon DEF Sending!StartDeferred
  <2>2. [n \in DOMAIN <<b>> |-> Sending!New(<<b>>[n], FALSE)] = <<e>>
    <3>1. DOMAIN <<b>> = 1..1 /\ <<b>>[1] = b
      OBVIOUS
    <3>4. \A n \in 1..1 : <<b>>[n] = b
      BY <3>1
    <3>5. \A n \in 1..1 : Sending!New(<<b>>[n], FALSE) = e
      BY <3>4
    <3>2. [n \in DOMAIN <<b>> |-> Sending!New(<<b>>[n], FALSE)] = [n \in 1..1 |-> e]
      BY <3>1, <3>5, Zenon
    <3> HIDE DEF e
    <3>3. <<e>> = [n \in 1..1 |-> e]
      BY SMT
    <3> QED
      BY <3>2, <3>3
  <2>3. frame = <<>>
    BY <2>1 DEF SendInv, WorkSound
  <2> QED
    BY <1>1, <2>1, <2>2, <2>3
<1>4. e \in News /\ e.action = b
  BY IsNew DEF Lawful
<1> HIDE DEF e
<1>5. work' \in Seq(News) /\ received \in Seq(Got)
  BY <1>3, <1>4 DEF SendInv
<1>6. WorkSound(work', frame', received')
  BY <1>3, <1>5, NewWork
<1>7. ASSUME NEW a \in Possible
      PROVE  /\ Begun(work', frame', received', a) =
                  Begun(work, frame, received, a) + Later(deferred, a)
             /\ Begun(work', frame', received', a) \in Nat
             /\ Begun(work, frame, received, a) \in Nat /\ Later(deferred, a) \in Nat
             /\ Later(deferred', a) = 0 /\ (a = b => Later(deferred, a) = 1)
  <2>1. Waits(work', frame', a) = One(e, a)
    BY <1>3, <1>5, NewWork, CountOne
  <2>2. Waits(work, frame, a) = 0
    BY <1>3 DEF Waits
  <2>3. Later(deferred, a) = One(e, a) /\ Later(deferred', a) = 0 /\ One(e, a) \in Nat
    BY <1>1, <1>2, <1>3, <1>4 DEF Later, One
  <2>4. Ran(received, a) \in Nat
    BY <1>5, RanType
  <2> QED
    BY <1>3, <1>4, <2>1, <2>2, <2>3, <2>4 DEF Begun, One
<1>8. Balanced(sent', deferred', work', frame', received')
  <2> SUFFICES ASSUME NEW a \in Possible
               PROVE  Count(sent', a) = Begun(work', frame', received', a) + Later(deferred', a)
    BY DEF Balanced
  <2>1. Count(sent, a) = Begun(work, frame, received, a) + Later(deferred, a)
    BY <1>3 DEF SendInv, Balanced
  <2> QED
    BY <1>3, <1>7, <2>1
<1>9. TrxSound(trx', work', frame', received')
  BY <1>3, <1>7 DEF TrxSound
<1>10. FrameSound(work', frame', received') /\ DeferredSound(deferred')
  BY <1>3 DEF FrameSound, DeferredSound
<1> QED
  BY <1>3, <1>6, <1>8, <1>9, <1>10 DEF SendInv

(* A contract sends an action, which waits behind those it sent before.    *)
LEMMA SentKeeps ==
  ASSUME SendInv, ended = "no", frame # <<>>, NEW t \in Callings, NEW x \in News,
         x.action = Called(t), NEW inline \in Seq(News), NEW free \in Seq(News),
         Sending!WithCurrent(Head(work).receivers, inline, free),
         \A a : Count(free, a) + Count(inline, a) = Queued(Head(work), a) + One(x, a),
         sent' = Append(sent, [handler |-> t[1], args |-> t[3], action |-> Called(t)]),
         UNCHANGED <<frame, trx, deferred, received, ended>>
  PROVE  SendInv'
<1> DEFINE c == Head(work)
           e == Sending!Item(c.action, c.cf, c.receivers, c.met, inline, free)
           y == [handler |-> t[1], args |-> t[3], action |-> Called(t)]
<1>1. /\ work # <<>> /\ IsItem(c) /\ Tail(work) \in Seq(News)
      /\ HeadSound(c, frame, received) /\ received \in Seq(Got)
  BY DEF SendInv, WorkSound
<1>2. work' = <<e>> \o Tail(work)
  BY DEF Sending!WithCurrent, Sending!Current
<1>3. /\ e.action = c.action /\ e.cf = c.cf /\ e.receivers = c.receivers /\ e.met = c.met
      /\ e.inline = inline /\ e.free = free
      /\ e = Sending!Item(e.action, e.cf, e.receivers, e.met, e.inline, e.free)
  BY DEF Sending!Item
<1>4. y \in Sendable /\ y.action = x.action /\ x.action \in Possible
  BY DEF Sendable, Possible
<1> HIDE DEF e, y
<1>5. IsItem(e) /\ HeadSound(e, frame, received)
  BY <1>1, <1>3 DEF IsItem, HeadSound
<1>6. work' # <<>> /\ Head(work') = e /\ Tail(work') = Tail(work)
  BY <1>1, <1>2, Consed
<1>14. work' = <<Head(work')>> \o Tail(work')
  BY <1>2, <1>6, Zenon
<1>7. WorkSound(work', frame', received')
  BY <1>1, <1>5, <1>6, <1>14 DEF WorkSound
<1>8. ASSUME NEW a \in Possible
      PROVE  /\ Begun(work', frame', received', a) = Begun(work, frame, received, a) + One(x, a)
             /\ Begun(work, frame, received, a) \in Nat /\ Ran(received, a) \in Nat
             /\ Waits(work', frame', a) \in Nat
  <2>1. Pending(e, frame, a) = Pending(c, frame, a) /\ Pending(c, frame, a) \in Nat
    BY <1>3 DEF Pending, One
  <2>2. Queued(e, a) = Queued(c, a) + One(x, a)
    BY <1>3 DEF Queued
  <2>3. Queued(c, a) \in Nat /\ Count(Tail(work), a) \in Nat /\ One(x, a) \in Nat
    BY <1>1, QueuedType DEF One
  <2>4. Ran(received, a) \in Nat
    BY <1>1, RanType
  <2>5. /\ Waits(work, frame, a) = Pending(c, frame, a) + Queued(c, a) + Count(Tail(work), a)
        /\ Waits(work', frame', a) = Pending(e, frame, a) + Queued(e, a) + Count(Tail(work), a)
    BY <1>1, <1>6 DEF Waits
  <2> QED
    BY <2>1, <2>2, <2>3, <2>4, <2>5 DEF Begun
<1>9. sent' \in Seq(Sendable) /\ \A a : Count(sent', a) = Count(sent, a) + One(x, a)
  <2>1. sent \in Seq(Sendable) /\ sent' = Append(sent, y)
    BY DEF SendInv, y
  <2>2. \A a : One(y, a) = One(x, a)
    BY <1>4 DEF One
  <2> QED
    BY <1>4, <2>1, <2>2, AppendProperties, CountAppend
<1>10. Balanced(sent', deferred', work', frame', received')
  <2> SUFFICES ASSUME NEW a \in Possible
               PROVE  Count(sent', a) = Begun(work', frame', received', a) + Later(deferred', a)
    BY DEF Balanced
  <2>1. Count(sent, a) = Begun(work, frame, received, a) + Later(deferred, a)
    BY DEF SendInv, Balanced
  <2>2. Later(deferred, a) \in Nat /\ One(x, a) \in Nat
    BY DEF Later, One
  <2> QED
    BY <1>8, <1>9, <2>1, <2>2
<1>11. \A a \in Possible : Ran(received', a) <= Count(sent', a)
  <2> TAKE a \in Possible
  <2>1. Count(sent', a) = Begun(work', frame', received', a) + Later(deferred', a)
    BY <1>10 DEF Balanced
  <2> QED
    BY <1>8, <2>1 DEF Begun, Later
<1>12. TrxSound(trx', work', frame', received')
  <2>1. PICK a \in Possible : trx = Transaction(a) /\ Begun(work, frame, received, a) > 0
    BY DEF SendInv, TrxSound
  <2> QED
    BY <1>8, <2>1 DEF TrxSound, One
<1>13. FrameSound(work', frame', received')
  <2> SUFFICES ASSUME frame[1].read # <<>>
               PROVE  \E a \in Possible :
                        frame[1].read = <<a>> /\ Begun(work', frame', received', a) > 0
    BY DEF FrameSound
  <2>1. PICK a \in Possible : frame[1].read = <<a>> /\ Begun(work, frame, received, a) > 0
    BY DEF SendInv, FrameSound
  <2> QED
    BY <1>8, <2>1 DEF One
<1> QED
  BY <1>7, <1>9, <1>10, <1>11, <1>12, <1>13 DEF SendInv

(* Actions are sent inline or, if they are lawful, context free.           *)
LEMMA SendKeeps ==
  ASSUME SendInv, NEW h \in Handlers, NEW u \in Users, NEW args \in Arguments,
         Sending!send(h, u, args) \/ Sending!send_context_free(h, u, args)
  PROVE  SendInv'
<1> DEFINE c == Head(work) t == <<h, u, args>> b == Called(t)
<1>1. t \in Callings /\ b = Sending!to_action(h, u, args) /\ b \in Possible
      /\ ended = "no" /\ frame # <<>> /\ c = Sending!Current
      /\ t[1] = h /\ t[3] = args
  BY DEF Sending!send, Sending!send_context_free, Sending!Sends, Sending!Running, Callings,
         Called, Possible, Sending!Current
<1>2. c.free \in Seq(News) /\ c.inline \in Seq(News)
  BY <1>1 DEF SendInv, WorkSound, IsItem
<1>3. CASE Sending!send(h, u, args)
  <2> DEFINE x == Sending!New(b, FALSE)
  <2>1. x \in News /\ x.action = b
    BY <1>1, IsNew DEF Lawful
  <2> HIDE DEF x
  <2>2. Append(c.inline, x) \in Seq(News)
    BY <1>2, <2>1, AppendProperties
  <2>3. \A a : Count(c.free, a) + Count(Append(c.inline, x), a) = Queued(c, a) + One(x, a)
    <3> TAKE a
    <3>1. Count(Append(c.inline, x), a) = Count(c.inline, a) + One(x, a)
      BY <1>2, <2>1, CountAppend
    <3>2. Count(c.free, a) \in Nat /\ Count(c.inline, a) \in Nat /\ One(x, a) \in Nat
      BY <1>2, CountType DEF One
    <3> QED
      BY <3>1, <3>2 DEF Queued
  <2>4. /\ Sending!WithCurrent(c.receivers, Append(c.inline, x), c.free)
        /\ sent' = Append(sent, [handler |-> t[1], args |-> t[3], action |-> b])
        /\ UNCHANGED <<frame, trx, deferred, received, ended>>
    BY <1>1, <1>3 DEF Sending!send, Sending!Sent, x
  <2> HIDE DEF c, t, b
  <2> QED
    BY <1>1, <1>2, <2>1, <2>2, <2>3, <2>4, SentKeeps DEF b, c
<1>4. CASE Sending!send_context_free(h, u, args)
  <2>1. CASE Sending!Abort("context free actions cannot have authorizations")
    BY <2>1, AbortKeeps
  <2>2. CASE ~Sending!Abort("context free actions cannot have authorizations")
    <3> DEFINE x == Sending!New(b, TRUE)
    <3>1. Lawful(b, TRUE)
      BY <1>1, <1>4, <2>2 DEF Lawful, Sending!send_context_free, Sending!ContextFree
    <3>2. x \in News /\ x.action = b
      BY <1>1, <3>1, IsNew
    <3> HIDE DEF x
    <3>3. Append(c.free, x) \in Seq(News)
      BY <1>2, <3>2, AppendProperties
    <3>4. \A a : Count(Append(c.free, x), a) + Count(c.inline, a) = Queued(c, a) + One(x, a)
      <4> TAKE a
      <4>1. Count(Append(c.free, x), a) = Count(c.free, a) + One(x, a)
        BY <1>2, <3>2, CountAppend
      <4>2. Count(c.free, a) \in Nat /\ Count(c.inline, a) \in Nat /\ One(x, a) \in Nat
        BY <1>2, CountType DEF One
      <4> QED
        BY <4>1, <4>2 DEF Queued
    <3>5. /\ Sending!WithCurrent(c.receivers, c.inline, Append(c.free, x))
          /\ sent' = Append(sent, [handler |-> t[1], args |-> t[3], action |-> b])
          /\ UNCHANGED <<frame, trx, deferred, received, ended>>
      BY <1>1, <1>4, <2>2 DEF Sending!send_context_free, Sending!Sent, x
    <3> HIDE DEF c, t, b
    <3> QED
      BY <1>1, <1>2, <3>2, <3>3, <3>4, <3>5, SentKeeps DEF b, c
  <2> QED
    BY <2>1, <2>2
<1> QED
  BY <1>3, <1>4

(* Accounts that are notified: the action's own is none of the new ones.   *)
InTurn(q, own, met) ==
  /\ q \in Seq(Account) /\ q # <<>>
  /\ \A n \in 1..Len(q) : q[n] = own <=> n = 1 /\ met = {}

(* Notifying another leaves the action's own contract in its place.        *)
LEMMA NotifiedIs ==
  ASSUME NEW q, NEW x \in Account, NEW own, InTurn(q, own, Head(work).met),
         Head(work).met = {} \/ own \in Head(work).met
  PROVE  InTurn(Sending!Notified(q, x), own, Head(work).met)
<1> DEFINE met == Head(work).met
<1>0. /\ q \in Seq(Account) /\ q # <<>>
      /\ \A n \in 1..Len(q) : q[n] = own <=> n = 1 /\ met = {}
  BY DEF InTurn
<1>1. CASE x \in Sending!Range(q) \cup met
  BY <1>0, <1>1 DEF InTurn, Sending!Notified, Sending!Current
<1>2. CASE x \notin Sending!Range(q) \cup met
  <2>1. Sending!Notified(q, x) = Append(q, x)
    BY <1>2 DEF Sending!Notified, Sending!Current
  <2>2. Len(q) \in Nat /\ Len(q) > 0 /\ DOMAIN q = 1..Len(q)
    BY <1>0, LenProperties, EmptySeq
  <2>3. x # own
    <3>1. CASE met = {}
      <4>1. q[1] = own /\ 1 \in DOMAIN q
        BY <1>0, <2>2, <3>1
      <4> QED
        BY <1>2, <4>1 DEF Sending!Range
    <3>2. CASE own \in met
      BY <1>2, <3>2
    <3> QED
      BY <3>1, <3>2
  <2>4. /\ Append(q, x) \in Seq(Account) /\ Append(q, x) # <<>>
        /\ Len(Append(q, x)) = Len(q) + 1 /\ Append(q, x)[Len(q) + 1] = x
        /\ \A n \in 1..Len(q) : Append(q, x)[n] = q[n]
    BY <1>0, AppendProperties
  <2>5. ASSUME NEW n \in 1..Len(Append(q, x))
        PROVE  Append(q, x)[n] = own <=> n = 1 /\ met = {}
    <3>1. CASE n \in 1..Len(q)
      BY <1>0, <2>4, <3>1
    <3>2. CASE n = Len(q) + 1
      BY <2>2, <2>3, <2>4, <3>2
    <3> QED
      BY <2>2, <2>4, <3>1, <3>2
  <2> QED
    BY <2>1, <2>4, <2>5 DEF InTurn
<1> QED
  BY <1>1, <1>2

(* Others are notified; nothing has begun by that.                         *)
LEMMA RequireKeeps ==
  ASSUME SendInv, NEW x \in Account, NEW y \in Account, Sending!require_recipient(x, y)
  PROVE  SendInv'
<1> DEFINE c == Head(work)
           q == Sending!Notified(c.receivers, x)
           p == Sending!Notified(q, y)
           e == Sending!Item(c.action, c.cf, p, c.met, c.inline, c.free)
<1>1. /\ ended = "no" /\ frame # <<>> /\ work # <<>> /\ work' = <<e>> \o Tail(work)
      /\ UNCHANGED <<frame, trx, deferred, sent, received, ended>>
  BY DEF Sending!require_recipient, Sending!Running, Sending!WithCurrent, Sending!Current,
         SendInv, WorkSound
<1>2. /\ IsItem(c) /\ Tail(work) \in Seq(News) /\ HeadSound(c, frame, received)
      /\ received \in Seq(Got) /\ RunsSound(received)
  BY <1>1 DEF SendInv, WorkSound
<1>3. InTurn(c.receivers, c.action.account, c.met) /\ (c.met = {} \/ c.action.account \in c.met)
  BY <1>1, <1>2 DEF IsItem, HeadSound, InTurn
<1>4. InTurn(q, c.action.account, c.met)
  BY <1>3, NotifiedIs
<1>5. InTurn(p, c.action.account, c.met)
  BY <1>3, <1>4, NotifiedIs
<1> HIDE DEF q, p
<1>6. /\ e.action = c.action /\ e.cf = c.cf /\ e.receivers = p /\ e.met = c.met
      /\ e.inline = c.inline /\ e.free = c.free
      /\ e = Sending!Item(e.action, e.cf, e.receivers, e.met, e.inline, e.free)
  BY DEF Sending!Item
<1> HIDE DEF e
<1>7. IsItem(e) /\ HeadSound(e, frame, received)
  BY <1>2, <1>5, <1>6 DEF IsItem, HeadSound, InTurn
<1>8. work' # <<>> /\ Head(work') = e /\ Tail(work') = Tail(work)
  BY <1>1, <1>2, Consed
<1>9. WorkSound(work', frame', received')
  BY <1>1, <1>2, <1>7, <1>8 DEF WorkSound
<1>10. \A a \in Possible :
         Begun(work', frame', received', a) = Begun(work, frame, received, a)
  <2> TAKE a \in Possible
  <2>1. Pending(e, frame, a) = Pending(c, frame, a) /\ Queued(e, a) = Queued(c, a)
    BY <1>6 DEF Pending, Queued, One
  <2> QED
    BY <1>1, <1>8, <2>1 DEF Begun, Waits
<1> QED
  BY <1>1, <1>2, <1>9, <1>10, Steady

(* What get_action reads is the transaction's one action.                  *)
LEMMA GetActionKeeps ==
  ASSUME SendInv, NEW type \in {0, 1}, NEW index \in {0, 1}, Sending!get_action(type, index)
  PROVE  SendInv'
<1>1. CASE Sending!Abort("get_action size failed")
  BY <1>1, AbortKeeps
<1>2. CASE ~Sending!Abort("get_action size failed")
  <2> DEFINE q == IF type = 0 THEN trx.context_free_actions ELSE trx.actions
  <2>1. /\ ended = "no" /\ frame # <<>> /\ index + 1 \in DOMAIN q
        /\ frame' = <<[receiver |-> frame[1].receiver, read |-> <<q[index + 1]>>]>>
        /\ UNCHANGED <<work, trx, deferred, sent, received, ended>>
    BY <1>2 DEF Sending!get_action, Sending!Running
  <2>2. PICK a \in Possible : trx = Transaction(a)
    BY <2>1 DEF SendInv, TrxSound
  <2>3. trx.context_free_actions = <<>> /\ trx.actions = <<a>>
    BY <2>2 DEF Transaction
  <2>4. index + 1 = 1 /\ q = <<a>>
    BY <2>1, <2>3
  <2>5. frame'[1].read = <<trx.actions[1]>> /\ 1 \in 1..Len(trx.actions)
    BY <2>1, <2>3, <2>4
  <2>6. frame' # <<>>
    BY <2>1
  <2> HIDE DEF q
  <2>7. /\ received' \in Seq(Got) /\ RunsSound(received')
        /\ WorkSound(work', frame', received')
    BY <2>1, <2>6 DEF SendInv, WorkSound, HeadSound
  <2>8. ASSUME NEW b \in Possible
        PROVE  Begun(work', frame', received', b) = Begun(work, frame, received, b)
    <3>1. Pending(Head(work), frame', b) = Pending(Head(work), frame, b)
      BY <2>1, <2>6 DEF Pending
    <3> QED
      BY <2>1, <3>1 DEF Begun, Waits
  <2> QED
    BY <2>1, <2>5, <2>7, <2>8, Steady
<1> QED
  BY <1>1, <1>2

(* What remains when another action is deferred, or none.                  *)
LEMMA Resent ==
  ASSUME SendInv, ended = "no", UNCHANGED <<work, frame, trx, received, ended>>,
         sent' \in Seq(Sendable), DeferredSound(deferred'),
         Balanced(sent', deferred', work, frame, received)
  PROVE  SendInv'
<1>1. \A a \in Possible : Ran(received', a) <= Count(sent', a)
  <2> TAKE a \in Possible
  <2>1. Count(sent', a) = Begun(work, frame, received, a) + Later(deferred', a)
    BY DEF Balanced
  <2>2. Ran(received, a) \in Nat /\ Waits(work, frame, a) \in Nat
    BY WaitsType DEF SendInv
  <2> QED
    BY <2>1, <2>2 DEF Begun, Later
<1> QED
  BY <1>1 DEF SendInv

(* What was deferred is one of those sent, and forgotten with it.          *)
LEMMA ForgottenIs ==
  ASSUME SendInv, ended = "no"
  PROVE  /\ Sending!Forgotten \in Seq(Sendable)
         /\ \A a \in Possible :
              Count(sent, a) = Count(Sending!Forgotten, a) + Later(deferred, a)
<1>1. sent \in Seq(Sendable)
  BY DEF SendInv
<1>2. \A a : Count(sent, a) \in Nat
  BY <1>1, CountType
<1>3. CASE deferred = <<>>
  BY <1>1, <1>2, <1>3 DEF Sending!Forgotten, Later
<1>4. CASE deferred # <<>>
  <2>1. PICK b \in Possible : deferred = <<Transaction(b)>>
    BY <1>4 DEF SendInv, DeferredSound
  <2>2. deferred[1].actions[1] = b
    BY <2>1 DEF Transaction
  <2>3. Count(sent, b) > 0
    <3>1. Count(sent, b) = Begun(work, frame, received, b) + Later(deferred, b)
      BY DEF SendInv, Balanced
    <3>2. Begun(work, frame, received, b) \in Nat
      BY WaitsType DEF SendInv
    <3> QED
      BY <1>4, <2>2, <3>1, <3>2 DEF Later
  <2>4. \E n \in DOMAIN sent : sent[n].action = b
    BY <1>1, <2>3, CountType
  <2> DEFINE i == CHOOSE n \in DOMAIN sent : sent[n].action = deferred[1].actions[1]
  <2>5. i \in DOMAIN sent /\ sent[i].action = b
    BY <2>2, <2>4
  <2>6. Sending!Forgotten = Sending!RemoveAt(sent, i)
    BY <1>4 DEF Sending!Forgotten
  <2> HIDE DEF i
  <2>7. /\ Sending!Forgotten \in Seq(Sendable)
        /\ \A a : Count(sent, a) = Count(Sending!Forgotten, a) + One(sent[i], a)
    BY <1>1, <2>5, <2>6, CountRemoved
  <2>8. \A a : Later(deferred, a) = One(sent[i], a)
    BY <1>4, <2>2, <2>5 DEF Later, One
  <2> QED
    BY <2>7, <2>8
<1> QED
  BY <1>3, <1>4

(* Deferring replaces what was deferred.                                   *)
LEMMA DeferKeeps ==
  ASSUME SendInv, NEW h \in Handlers, NEW u \in Users, NEW args \in Arguments,
         NEW replace, Sending!send_deferred(h, u, args, replace)
  PROVE  SendInv'
<1>1. CASE Sending!Abort("in flight")
  BY <1>1, AbortKeeps
<1>2. CASE ~Sending!Abort("in flight")
  <2> DEFINE t == <<h, u, args>> b == Called(t)
             y == [handler |-> h, args |-> args, action |-> b]
             f == Sending!Forgotten
  <2>1. /\ t \in Callings /\ b \in Possible /\ ended = "no" /\ sent' = Append(f, y)
        /\ deferred' = <<Transaction(b)>> /\ UNCHANGED <<work, frame, trx, received, ended>>
    BY <1>2 DEF Sending!send_deferred, Sending!Sends, Sending!Running, Callings, Called,
           Possible, Transaction
  <2>2. y \in Sendable /\ y.action = b
    BY <2>1 DEF Sendable
  <2>3. /\ f \in Seq(Sendable)
        /\ \A a \in Possible : Count(sent, a) = Count(f, a) + Later(deferred, a)
    BY <2>1, ForgottenIs
  <2> HIDE DEF y, f
  <2>4. /\ sent' \in Seq(Sendable) /\ \A a : Count(sent', a) = Count(f, a) + One(y, a)
    BY <2>1, <2>2, <2>3, AppendProperties, CountAppend
  <2>5. deferred'[1].actions[1] = b
    BY <2>1 DEF Transaction
  <2>6. ASSUME NEW a \in Possible
        PROVE  Count(sent', a) = Begun(work, frame, received, a) + Later(deferred', a)
    <3>1. Count(sent, a) = Begun(work, frame, received, a) + Later(deferred, a)
      BY <2>1 DEF SendInv, Balanced
    <3>2. One(y, a) = Later(deferred', a)
      BY <2>1, <2>2, <2>5 DEF One, Later
    <3>3. Begun(work, frame, received, a) \in Nat /\ Later(deferred, a) \in Nat
      BY WaitsType DEF Later, SendInv
    <3>4. Count(f, a) \in Nat /\ One(y, a) \in Nat
      BY <2>3, CountType DEF One
    <3> QED
      BY <2>3, <2>4, <3>1, <3>2, <3>3, <3>4
  <2> QED
    BY <2>1, <2>4, <2>6, Resent DEF Balanced, DeferredSound
<1> QED
  BY <1>1, <1>2

(* Cancelling forgets it.                                                  *)
LEMMA CancelKeeps ==
  ASSUME SendInv, Sending!cancel_deferred
  PROVE  SendInv'
<1>1. /\ ended = "no" /\ deferred' = <<>> /\ sent' = Sending!Forgotten
      /\ UNCHANGED <<work, frame, trx, received, ended>>
  BY DEF Sending!cancel_deferred, Sending!Running
<1> DEFINE f == Sending!Forgotten
<1>2. /\ f \in Seq(Sendable)
      /\ \A a \in Possible : Count(sent, a) = Count(f, a) + Later(deferred, a)
  BY <1>1, ForgottenIs
<1> HIDE DEF f
<1>3. ASSUME NEW a \in Possible
      PROVE  Count(f, a) = Begun(work, frame, received, a) + Later(deferred', a)
  <2>1. Count(sent, a) = Begun(work, frame, received, a) + Later(deferred, a)
    BY <1>1 DEF SendInv, Balanced
  <2>2. Begun(work, frame, received, a) \in Nat /\ Later(deferred, a) \in Nat
    BY WaitsType DEF Later, SendInv
  <2>3. Count(f, a) \in Nat /\ Later(deferred', a) = 0
    BY <1>1, <1>2, CountType DEF Later
  <2> QED
    BY <1>2, <2>1, <2>2, <2>3
<1> QED
  BY <1>1, <1>2, <1>3, Resent DEF Balanced, DeferredSound, f

(* The first action waits and nothing has run.                             *)
LEMMA SendInit == Sending!Init => SendInv
<1> SUFFICES ASSUME Sending!Init PROVE SendInv
  OBVIOUS
<1>1. PICK h \in Handlers, u \in Users, args \in Arguments :
        LET b == Sending!to_action(h, u, args) IN
        /\ Sending!type_check(h, args)
        /\ trx = Transaction(b) /\ work = <<Sending!New(b, FALSE)>>
        /\ sent = <<[handler |-> h, args |-> args, action |-> b]>>
  BY DEF Sending!Init, Transaction
<1> DEFINE t == <<h, u, args>> b == Called(t)
           x == Sending!New(b, FALSE) y == [handler |-> h, args |-> args, action |-> b]
<1>2. /\ t \in Callings /\ b \in Possible /\ trx = Transaction(b) /\ work = <<x>>
      /\ sent = <<y>> /\ frame = <<>> /\ deferred = <<>> /\ received = <<>> /\ ended = "no"
  BY <1>1 DEF Sending!Init, Callings, Called, Possible
<1>3. x \in News /\ x.action = b
  BY <1>2, IsNew DEF Lawful
<1>4. y \in Sendable /\ y.action = b
  BY <1>2 DEF Sendable
<1> HIDE DEF x, y, b, t
<1>5. work \in Seq(News) /\ sent \in Seq(Sendable) /\ received \in Seq(Got)
  BY <1>2, <1>3, <1>4
<1>6. WorkSound(work, frame, received)
  BY <1>2, <1>5, NewWork
<1>7. ASSUME NEW a \in Possible
      PROVE  /\ Ran(received, a) = 0 /\ Count(sent, a) = One(x, a) /\ One(x, a) \in Nat
             /\ Begun(work, frame, received, a) = One(x, a) /\ Later(deferred, a) = 0
  <2>1. {n \in DOMAIN received : received[n].action = a /\ received[n].receiver = a.account} = {}
    BY <1>2
  <2>2. Ran(received, a) = 0
    BY <2>1, FS_EmptySet DEF Ran
  <2>3. Waits(work, frame, a) = One(x, a)
    BY <1>2, <1>5, NewWork, CountOne
  <2>4. Count(sent, a) = One(x, a)
    BY <1>2, <1>3, <1>4, CountOne DEF One
  <2> QED
    BY <1>2, <2>2, <2>3, <2>4 DEF Begun, Later, One
<1>8. TrxSound(trx, work, frame, received)
  <2>1. One(x, b) = 1
    BY <1>3 DEF One
  <2>2. Begun(work, frame, received, b) = 1
    BY <1>2, <1>7, <2>1
  <2> QED
    BY <1>2, <2>2 DEF TrxSound
<1>9. \A a \in Possible : Ran(received, a) <= Count(sent, a)
  BY <1>7
<1>10. Balanced(sent, deferred, work, frame, received)
  BY <1>7 DEF Balanced
<1>11. FrameSound(work, frame, received) /\ DeferredSound(deferred)
  BY <1>2 DEF FrameSound, DeferredSound
<1>12. RunsSound(received)
  <2>1. Len(received) = 0
    BY <1>2
  <2> QED
    BY <2>1 DEF RunsSound
<1> QED
  BY <1>2, <1>5, <1>6, <1>8, <1>9, <1>10, <1>11, <1>12 DEF SendInv

(* Every step keeps the balance.                                           *)
LEMMA SendStep == ASSUME SendInv, [Sending!Next]_(Sending!vars) PROVE SendInv'
<1>1. CASE Sending!eosio_apply
  BY <1>1, ApplyKeeps
<1>2. CASE Sending!dispatch
  BY <1>2, DispatchKeeps
<1>3. CASE Sending!NotDispatched
  BY <1>3, NotDispatchedKeeps
<1>4. CASE Sending!Return
  BY <1>4, ReturnKeeps
<1>5. CASE Sending!Descend
  BY <1>5, DescendKeeps
<1>6. CASE Sending!StartDeferred
  BY <1>6, StartKeeps
<1>7. CASE Sending!cancel_deferred
  BY <1>7, CancelKeeps
<1>8. CASE \E type \in {0, 1}, index \in {0, 1} : Sending!get_action(type, index)
  BY <1>8, GetActionKeeps
<1>9. CASE \E a \in {Codeless, Legacy.account}, b \in {h.account : h \in Handlers} :
             Sending!require_recipient(a, b)
  BY <1>9, RequireKeeps DEF Account
<1>10. CASE \E h \in Handlers, user \in Users, args \in Arguments :
              Sending!send(h, user, args) \/ Sending!send_context_free(h, user, args)
  BY <1>10, SendKeeps
<1>11. CASE \E h \in Handlers, user \in Users, args \in Arguments, replace \in BOOLEAN :
              Sending!send_deferred(h, user, args, replace)
  BY <1>11, DeferKeeps
<1>12. CASE UNCHANGED Sending!vars
  BY <1>12 DEF Sending!vars, SendInv
<1> QED
  BY <1>1, <1>2, <1>3, <1>4, <1>5, <1>6, <1>7, <1>8, <1>9, <1>10, <1>11, <1>12
     DEF Sending!Next

(* What is left without the remainder is divided evenly.                   *)
LEMMA Remainder ==
  ASSUME NEW w \in Nat \ {0}
  PROVE  /\ \A n \in Int : n - (n % w) = (n \div w) * w /\ n \div w \in Int
         /\ \A k \in Int : (k * w) % w = 0
<1>1. ASSUME NEW n \in Int PROVE n - (n % w) = (n \div w) * w /\ n \div w \in Int
  OBVIOUS
<1>2. ASSUME NEW k \in Int PROVE (k * w) % w = 0
  OBVIOUS
<1> QED
  BY <1>1, <1>2

(* A parameter stands for the argument it was converted from.              *)
LEMMA ConvertedStands ==
  ASSUME NEW arg, arg.value \in Int, NEW u, Sending!is_same(arg, u)
  PROVE  Sending!StandsFor(Sending!Converted(arg.value, u), arg, u)
<1> DEFINE x == arg.value
<1>1. CASE u = "bool"
  <2>1. arg.type \in Sending!Integral
    BY <1>1 DEF Sending!is_same
  <2>2. Sending!Converted(x, u) = IF x = 0 THEN 0 ELSE 1
    BY <1>1 DEF Sending!Converted
  <2> QED
    BY <1>1, <2>1, <2>2 DEF Sending!StandsFor
<1>2. CASE u = "uint8"
  <2>1. arg.type \in Sending!Integral
    BY <1>2 DEF Sending!is_same, Sending!Convertible, Sending!Integral
  <2>2. Sending!Converted(x, u) = x % Width
    BY <1>2 DEF Sending!Converted
  <2>3. (x - (x % Width)) % Width = 0
    <3>1. Width \in Nat \ {0}
      BY ArgumentsAssumption
    <3>2. x - (x % Width) = (x \div Width) * Width /\ x \div Width \in Int
      BY <3>1, Remainder
    <3> QED
      BY <3>1, <3>2, Remainder
  <2> QED
    BY <1>2, <2>1, <2>2, <2>3 DEF Sending!StandsFor
<1>3. CASE u \notin {"bool", "uint8"}
  <2>1. Sending!Converted(x, u) = x
    BY <1>3 DEF Sending!Converted
  <2> QED
    BY <1>3, <2>1 DEF Sending!StandsFor
<1> QED
  BY <1>1, <1>2, <1>3

(* What ran was sent, and ran with what its arguments were converted to.   *)
LEMMA RunWasSent ==
  ASSUME SendInv, NEW n \in DOMAIN received
  PROVE  \E m \in DOMAIN sent :
           LET g == received[n]  s == sent[m]  values == g.args \o g.rest IN
           /\ g.action = s.action
           /\ Len(values) = Len(s.args) /\ Len(g.rest) = g.handler.ignored
           /\ \A i \in DOMAIN values :
                Sending!StandsFor(values[i], s.args[i], s.handler.params[i])
           /\ g.receiver # Legacy.account => g.receiver = g.action.account
<1> DEFINE g == received[n] values == g.args \o g.rest
<1>1. /\ n \in 1..Len(received) /\ g \in Got /\ sent \in Seq(Sendable)
      /\ received \in Seq(Got)
  BY LenProperties DEF SendInv
<1>2. Whole(g) /\ Ran(received, g.action) > 0 /\ g.action \in Possible
  BY <1>1 DEF SendInv, RunsSound, Got
<1>3. Count(sent, g.action) > 0
  <2>1. Ran(received, g.action) <= Count(sent, g.action)
    BY <1>2 DEF SendInv
  <2>2. Ran(received, g.action) \in Nat /\ Count(sent, g.action) \in Nat
    BY <1>1, RanType, CountType
  <2> QED
    BY <1>2, <2>1, <2>2
<1>4. PICK m \in DOMAIN sent : sent[m].action = g.action
  BY <1>1, <1>3, CountType
<1>5. PICK t \in Callings : sent[m] = [handler |-> t[1], args |-> t[3], action |-> Called(t)]
  <2>1. sent[m] \in Sendable
    BY <1>1, ElementOfSeq, LenProperties
  <2> QED
    BY <2>1 DEF Sendable
<1>6. /\ sent[m].handler = t[1] /\ sent[m].args = t[3] /\ sent[m].action = Called(t)
  BY <1>5
<1>7. values = Called(t).data
  BY <1>2, <1>4, <1>6 DEF Whole
<1>8. /\ Len(values) = Len(t[3]) /\ DOMAIN values = 1..Len(t[3]) /\ t[3] \in Arguments
      /\ DOMAIN t[3] = 1..Len(t[3])
      /\ \A i \in 1..Len(t[3]) : values[i] = Sending!Converted(t[3][i].value, t[1].params[i])
  <2>1. /\ Called(t).data = [i \in 1..Len(t[3]) |->
                               Sending!Converted(t[3][i].value, t[1].params[i])]
        /\ Len(Called(t).data) = Len(t[3]) /\ t[3] \in Arguments /\ DOMAIN t[3] = 1..Len(t[3])
    BY DataOfAction, Zenon
  <2> HIDE DEF values
  <2> QED
    BY <1>7, <2>1
<1>9. ASSUME NEW i \in DOMAIN values
      PROVE  Sending!StandsFor(values[i], t[3][i], t[1].params[i])
  <2>1. Sending!is_same(t[3][i], t[1].params[i])
    BY <1>8, <1>9 DEF Callings, Sending!type_check
  <2>2. t[3][i].value \in Int
    BY <1>8, <1>9, ArgumentsAssumption
  <2> QED
    BY <1>8, <1>9, <2>1, <2>2, ConvertedStands
<1>10. /\ Len(g.rest) = g.handler.ignored
       /\ g.receiver # Legacy.account => g.receiver = g.action.account
  BY <1>2 DEF Whole
<1> HIDE DEF g, values
<1> QED
  BY <1>4, <1>6, <1>8, <1>9, <1>10 DEF g, values

(* The work that is context free is lawful, that which waits too.          *)
LEMMA WorkIsLawful ==
  ASSUME SendInv, NEW n \in DOMAIN work, work[n].cf
  PROVE  work[n].action.authorization = <<>>
<1>1. work # <<>>
  OBVIOUS
<1>2. /\ work = <<Head(work)>> \o Tail(work) /\ IsItem(Head(work)) /\ Tail(work) \in Seq(News)
  BY <1>1 DEF SendInv, WorkSound
<1> DEFINE x == Head(work) q == Tail(work)
<1>3. /\ work[1] = x /\ Len(q) \in Nat /\ n \in 1..(Len(q) + 1)
      /\ \A i \in 1..Len(q) : work[i + 1] = q[i] /\ q[i] \in News
  <2> HIDE DEF x, q
  <2> SUFFICES ASSUME work = <<x>> \o q, q \in Seq(News)
               PROVE  /\ work[1] = x /\ Len(q) \in Nat /\ n \in 1..(Len(q) + 1)
                      /\ \A i \in 1..Len(q) : work[i + 1] = q[i] /\ q[i] \in News
    BY <1>2 DEF x, q
  <2>1. Len(q) \in Nat /\ \A i \in 1..Len(q) : q[i] \in News
    BY LenProperties
  <2>2. DOMAIN (<<x>> \o q) = 1..(Len(q) + 1)
    BY <2>1
  <2> QED
    BY <2>1, <2>2
<1>4. CASE n = 1
  BY <1>2, <1>3, <1>4 DEF IsItem, Lawful
<1>5. CASE n # 1
  <2>1. work[n] = q[n - 1] /\ q[n - 1] \in News
    BY <1>3, <1>5
  <2>2. IsItem(work[n])
    BY <2>1, NewItem
  <2> QED
    BY <2>2 DEF IsItem, Lawful
<1> QED
  BY <1>4, <1>5

(* The balance and what ran say that actions arrive as sent.               *)
LEMMA SentIsSound == SendInv => Sending!ActionsArriveAsSent
<1> SUFFICES ASSUME SendInv PROVE Sending!ActionsArriveAsSent
  OBVIOUS
<1>1. \A n \in DOMAIN sent : sent[n].action \in Possible
  <2> TAKE n \in DOMAIN sent
  <2>1. sent[n] \in Sendable
    BY ElementOfSeq, LenProperties DEF SendInv
  <2> QED
    BY <2>1 DEF Sendable, Possible
<1>2. ASSUME NEW a \in Possible
      PROVE  /\ Sending!Runs(a, a.account) <= Sending!Sendings(a)
             /\ work = <<>> /\ frame = <<>> /\ deferred = <<>> /\ ended = "no" =>
                  Sending!Runs(a, a.account) = Sending!Sendings(a)
  <2>1. Sending!Runs(a, a.account) = Ran(received, a) /\ Sending!Sendings(a) = Count(sent, a)
    BY Zenon DEF Sending!Runs, Sending!Sendings, Ran, Count, Cardinality, Sending!Cardinality,
       IsFiniteSet, Sending!IsFiniteSet
  <2>2. Ran(received, a) <= Count(sent, a)
    BY DEF SendInv
  <2>3. ASSUME work = <<>>, deferred = <<>>, ended = "no" PROVE Ran(received, a) = Count(sent, a)
    <3>1. Count(sent, a) = Begun(work, frame, received, a) + Later(deferred, a)
      BY <2>3 DEF SendInv, Balanced
    <3>2. Ran(received, a) \in Nat
      BY RanType DEF SendInv
    <3> QED
      BY <2>3, <3>1, <3>2 DEF Begun, Waits, Later
  <2> QED
    BY <2>1, <2>2, <2>3
<1>3. ASSUME frame # <<>>, frame[1].read # <<>>
      PROVE  \E n \in DOMAIN sent : sent[n].action = frame[1].read[1]
  <2>1. ended = "no"
    BY <1>3 DEF SendInv
  <2>2. PICK a \in Possible : frame[1].read = <<a>> /\ Begun(work, frame, received, a) > 0
    BY <1>3, <2>1 DEF SendInv, FrameSound
  <2>3. Count(sent, a) = Begun(work, frame, received, a) + Later(deferred, a)
    BY <2>1 DEF SendInv, Balanced
  <2>4. Begun(work, frame, received, a) \in Nat /\ Later(deferred, a) \in Nat
    BY WaitsType DEF Later, SendInv
  <2>5. Count(sent, a) > 0
    BY <2>2, <2>3, <2>4
  <2>6. \E n \in DOMAIN sent : sent[n].action = a
    BY <2>5, CountType DEF SendInv
  <2> QED
    BY <2>2, <2>6
<1> QED
  BY <1>1, <1>2, <1>3, RunWasSent, WorkIsLawful DEF Sending!ActionsArriveAsSent

(* Whatever contracts send, defer, cancel and notify, for any handlers,    *)
(* arguments and permissions, their actions arrive as they were sent, and  *)
(* as often (action.hpp:85-93, 306-527; dispatcher.hpp:33-143, 188-202;    *)
(* transaction.hpp:177-187).                                               *)
THEOREM ActionsArrive == PartsSpec => []ActionsArriveAsSent
<1> DEFINE Inv == part = "Actions" => SendInv
<1>1. PartsInit => Inv
  BY SendInit DEF PartsInit
<1>2. Inv /\ [PartsNext]_partsVars => Inv'
  <2> SUFFICES ASSUME Inv, [PartsNext]_partsVars, part' = "Actions" PROVE SendInv'
    OBVIOUS
  <2>1. part = "Actions" /\ [Sending!Next]_(Sending!vars)
    BY DEF PartsNext, partsVars, actionsVars, Sending!vars
  <2> QED
    BY <2>1, SendStep
<1>3. Inv => ActionsArriveAsSent
  BY SentIsSound DEF ActionsArriveAsSent
<1> QED
  BY <1>1, <1>2, <1>3, PTL DEF PartsSpec
-----------------------------------------------------------------------------
(* Rope: a text T[n] for every node, that of each rope being what was said *)
(* for it; at adds up sizes of pieces, and c_str has a way P back through  *)
(* the nodes, each at its place before[n] in the text, that no sharing of  *)
(* nodes disturbs, since all nodes on the way are younger than the one the *)
(* walk is at.                                                             *)

(* What texts are made of, and nodes of.                                   *)
Character == (UNION {{t[n] : n \in DOMAIN t} : t \in RopeText}) \cup {Nul}
String == Seq(Character)
NodeType == [text : String, concat : BOOLEAN, left : Nat, right : Nat,
             temp : Nat, temp_left : BOOLEAN]
NodeIds == 1..Len(nodes)

(* Nodes are built from older ones.                                        *)
RopeTyped ==
  /\ nodes \in Seq(NodeType)
  /\ \A n \in NodeIds :
       nodes[n].left \in 0..(n - 1) /\ nodes[n].right \in 0..(n - 1)
  /\ ropes \in [Variable -> [root : NodeIds, size : Nat]]
  /\ said \in [Variable -> String]

(* T[n] is the text of node n, the right part of which comes first.        *)
Spells(T) ==
  /\ T \in [0..Len(nodes) -> String] /\ T[0] = <<>>
  /\ \A n \in NodeIds :
       T[n] = IF nodes[n].concat THEN T[nodes[n].right] \o T[nodes[n].left] ELSE nodes[n].text
RopesSpelled(T) ==
  \A v \in Variable : T[ropes[v].root] = said[v] /\ ropes[v].size = Len(said[v])

(* The place of node n in a text, and what comes before a part of node r.  *)
Fits(T, t, n, b) ==
  b + Len(T[n]) <= Len(t) /\ \A i \in 1..Len(T[n]) : t[b + i] = T[n][i]
PlaceOf(L, T, r, before, flag, b) ==
  /\ flag => b = before[r] + Len(T[L[r].right])
  /\ ~flag => b = before[r]

(* P are the nodes of L on the way from the root to r, where the walk is,  *)
(* and before[n] is how much of the text t comes before that of node n.    *)
OnTheWay(L, T, t, r, P, before) ==
  /\ P \in SUBSET (1..Len(L)) /\ before \in [P -> Nat]
  /\ r # 0 => r \in P
  /\ r = 0 => P = {}
  /\ \A n \in P : r <= n
  /\ \A n \in P : Fits(T, t, n, before[n])
  /\ \A n, m \in P : m > n => L[n].temp # 0 /\ m >= L[n].temp
  /\ \A n \in P : L[n].temp = 0 => before[n] = 0
  /\ \A n \in P : L[n].temp # 0 =>
       /\ L[n].temp \in P /\ L[n].temp > n /\ L[L[n].temp].concat
       /\ PlaceOf(L, T, L[n].temp, before, L[L[n].temp].temp_left, before[n])

(* How much is still to be written.                                        *)
LeftToWrite(L, T, r, down, before) ==
  IF r = 0 THEN 0
  ELSE IF down THEN before[r] + Len(T[r])
  ELSE IF L[r].temp_left THEN before[r] + Len(T[L[r].right]) ELSE before[r]

WalkTyped ==
  /\ walk = [on |-> walk.on, rope |-> walk.rope, r |-> walk.r, down |-> walk.down,
             off |-> walk.off, buffer |-> walk.buffer]
  /\ walk.rope \in Variable
  /\ walk.r \in 0..Len(nodes) /\ walk.down \in BOOLEAN /\ walk.off \in Nat
  /\ walk.r # 0 /\ ~walk.down => nodes[walk.r].concat
  /\ walk.r = 0 => ~walk.down
  /\ walk.buffer \in Seq(Character) /\ Len(walk.buffer) = Len(said[walk.rope])

(* What has been written is the end of the text.                           *)
WalkSound(T) ==
  walk.on =>
    /\ WalkTyped
    /\ \A i \in (walk.off + 1)..Len(said[walk.rope]) : walk.buffer[i] = said[walk.rope][i]
    /\ \E P, before : /\ OnTheWay(nodes, T, said[walk.rope], walk.r, P, before)
                       /\ walk.off = LeftToWrite(nodes, T, walk.r, walk.down, before)

GotSound ==
  got.on => /\ got.rope \in Variable /\ got.from \in Nat
            /\ \/ got.from = 0 /\ got.text = said[got.rope]
               \/ got.from < Len(said[got.rope]) /\ got.text = <<said[got.rope][got.from + 1]>>

RopeInv ==
  /\ RopeTyped /\ walk.on \in BOOLEAN /\ got.on \in BOOLEAN /\ GotSound
  /\ ~walk.on => walk.off = 0
  /\ \E T : Spells(T) /\ RopesSpelled(T) /\ WalkSound(T)

(* The texts of the contract are texts.                                    *)
LEMMA TextIsString ==
  /\ <<>> \in String /\ Nul \in Character
  /\ \A text \in RopeText : text \in String /\ text \o <<Nul>> \in String
<1>1. <<>> \in String /\ Nul \in Character
  BY DEF String, Character
<1>2. ASSUME NEW text \in RopeText PROVE text \in String
  <2>1. text \in Seq({text[n] : n \in DOMAIN text})
    BY TextAssumption DEF IsSequence
  <2>2. {text[n] : n \in DOMAIN text} \subseteq Character
    BY DEF Character
  <2>3. QED BY <2>1, <2>2 DEF String
<1>3. ASSUME NEW text \in String PROVE text \o <<Nul>> \in String
  BY <1>1, <1>3 DEF String
<1> QED BY <1>1, <1>2, <1>3

LEMMA RopeInit == Ropes!Init => RopeInv
<1> SUFFICES ASSUME Ropes!Init PROVE RopeInv OBVIOUS
<1> USE DEF Ropes!Init
<1> DEFINE E == Ropes!Str(<<>>)
           C == Ropes!Concat(1, 0)
           T == [n \in 0..2 |-> <<>>]
<1>1. E \in NodeType /\ C \in NodeType /\ E.left = 0 /\ E.right = 0 /\ ~E.concat /\ E.text = <<>>
      /\ C.concat /\ C.left = 1 /\ C.right = 0
  BY TextIsString DEF Ropes!Str, Ropes!Concat, Ropes!nullptr, NodeType
<1>2. nodes = <<E, C>>
  BY DEF Ropes!nullptr
<1>3. Len(nodes) = 2 /\ nodes[1] = E /\ nodes[2] = C /\ nodes \in Seq(NodeType)
  <2> HIDE DEF E, C
  <2> QED BY <1>1, <1>2
<1> HIDE DEF E, C
<1>4. RopeTyped
  BY <1>1, <1>3, TextIsString DEF RopeTyped, NodeIds
<1>5. Spells(T)
  <2>1. <<>> \o <<>> = <<>> OBVIOUS
  <2>2. Len(nodes) = 2 /\ NodeIds = 1..2 /\ \A n \in 1..2 : n = 1 \/ n = 2
    BY <1>3 DEF NodeIds
  <2>3. T \in [0..2 -> String] /\ T[0] = <<>> /\ T[1] = <<>> /\ T[2] = <<>>
    BY TextIsString
  <2> HIDE DEF T
  <2>4. \A n \in NodeIds : T[n] = IF nodes[n].concat THEN T[nodes[n].right] \o T[nodes[n].left]
                                  ELSE nodes[n].text
    <3>1. ~nodes[1].concat /\ T[1] = nodes[1].text
      BY <1>1, <1>3, <2>3
    <3>2. nodes[2].concat /\ T[nodes[2].right] \o T[nodes[2].left] = <<>>
      BY <1>1, <1>3, <2>1, <2>3
    <3> QED BY <2>2, <2>3, <3>1, <3>2
  <2> QED BY <2>2, <2>3, <2>4 DEF Spells
<1>6. RopesSpelled(T)
  BY DEF RopesSpelled
<1>7. ~walk.on /\ walk.off = 0 /\ walk.on \in BOOLEAN
  BY DEF Ropes!Idle
<1>8. got.on = FALSE
  BY DEF Ropes!Nothing
<1> QED BY <1>4, <1>5, <1>6, <1>7, <1>8 DEF RopeInv, WalkSound, GotSound

(* A node of text, and one of two others.                                  *)
LEMMA NewNodes ==
  ASSUME NEW text \in String, NEW left \in Nat, NEW right \in Nat
  PROVE  LET S == Ropes!Str(text)
             C == Ropes!Concat(left, right)
         IN /\ S \in NodeType /\ S.left = 0 /\ S.right = 0 /\ ~S.concat /\ S.text = text
            /\ C \in NodeType /\ C.concat /\ C.left = left /\ C.right = right
<1>1. /\ Ropes!Str(text) \in NodeType /\ Ropes!Str(text).left = 0 /\ Ropes!Str(text).right = 0
      /\ ~Ropes!Str(text).concat /\ Ropes!Str(text).text = text
  BY TextIsString DEF Ropes!Str, Ropes!nullptr, NodeType
<1> DEFINE E == Ropes!Str(<<>>)
             C == Ropes!Concat(left, right)
<1>3. E \in NodeType
  BY TextIsString DEF Ropes!Str, Ropes!nullptr, NodeType
<1>4. C = [E EXCEPT !.concat = TRUE, !.left = left, !.right = right]
  BY DEF Ropes!Concat
<1> HIDE DEF E, C
<1>5. C \in NodeType /\ C.concat /\ C.left = left /\ C.right = right
  BY <1>3, <1>4 DEF NodeType
<1> QED BY <1>1, <1>5 DEF C

(* New nodes leave the texts of the others.                                *)
LEMMA Grown ==
  ASSUME RopeTyped, NEW T, Spells(T), NEW node \in NodeType,
         node.left \in 0..Len(nodes), node.right \in 0..Len(nodes), nodes' = Append(nodes, node)
  PROVE  /\ Len(nodes') = Len(nodes) + 1 /\ nodes' \in Seq(NodeType)
         /\ \A n \in NodeIds : nodes'[n] = nodes[n]
         /\ nodes'[Len(nodes) + 1] = node
         /\ \E U : /\ Spells(U)' /\ \A n \in 0..Len(nodes) : U[n] = T[n]
                   /\ U[Len(nodes) + 1] =
                        IF node.concat THEN T[node.right] \o T[node.left] ELSE node.text
<1> PICK U : U = [n \in 0..(Len(nodes) + 1) |->
                     IF n <= Len(nodes) THEN T[n]
                     ELSE IF node.concat THEN T[node.right] \o T[node.left] ELSE node.text]
  OBVIOUS
<1>1. /\ Len(nodes') = Len(nodes) + 1 /\ nodes' \in Seq(NodeType)
      /\ \A n \in NodeIds : nodes'[n] = nodes[n]
      /\ nodes'[Len(nodes) + 1] = node /\ Len(nodes) \in Nat
  BY DEF RopeTyped, NodeIds
<1>2. T \in [0..Len(nodes) -> String]
  BY DEF Spells
<1>3. (IF node.concat THEN T[node.right] \o T[node.left] ELSE node.text) \in String
  BY <1>2 DEF String, NodeType
<1>4. U \in [0..Len(nodes') -> String] /\ U[0] = <<>>
  BY <1>1, <1>2, <1>3 DEF Spells
<1>5. ASSUME NEW n \in 1..Len(nodes')
      PROVE  U[n] = IF nodes'[n].concat THEN U[nodes'[n].right] \o U[nodes'[n].left]
                    ELSE nodes'[n].text
  <2>1. CASE n = Len(nodes) + 1
    BY <1>1, <2>1
  <2>2. CASE n # Len(nodes) + 1
    <3>1. n \in NodeIds /\ nodes'[n] = nodes[n]
      BY <1>1, <2>2 DEF NodeIds
    <3>2. nodes[n].left \in 0..(n - 1) /\ nodes[n].right \in 0..(n - 1)
      BY <3>1 DEF RopeTyped
    <3>3. U[n] = T[n] /\ U[nodes[n].left] = T[nodes[n].left] /\ U[nodes[n].right] = T[nodes[n].right]
      BY <1>1, <3>1, <3>2 DEF NodeIds
    <3> QED BY <3>1, <3>3 DEF Spells
  <2> QED BY <2>1, <2>2
<1>6. Spells(U)'
  BY <1>4, <1>5 DEF Spells, NodeIds
<1>7. \A n \in 0..Len(nodes) : U[n] = T[n]
  BY <1>1
<1> QED BY <1>1, <1>6, <1>7

(* A node of text and one that joins it to the end of a rope.              *)
LEMMA GrownText ==
  ASSUME RopeTyped, NEW T, Spells(T), NEW text \in String, NEW right \in 0..Len(nodes),
         nodes' = Ropes!WithText(text, right)
  PROVE  /\ Len(nodes') = Len(nodes) + 2 /\ nodes' \in Seq(NodeType)
         /\ \A n \in NodeIds' :
              nodes'[n].left \in 0..(n - 1) /\ nodes'[n].right \in 0..(n - 1)
         /\ \E U : /\ Spells(U)' /\ \A n \in 0..Len(nodes) : U[n] = T[n]
                   /\ U[Len(nodes) + 2] = T[right] \o text
<1> DEFINE L == Len(nodes)
           S == Ropes!Str(text)
           C == Ropes!Concat(L + 1, right)
<1>0. nodes \in Seq(NodeType) /\ L \in Nat
  BY DEF RopeTyped
<1>1. /\ S \in NodeType /\ C \in NodeType /\ S.left = 0 /\ S.right = 0 /\ ~S.concat /\ S.text = text
      /\ C.concat /\ C.left = L + 1 /\ C.right = right
  <2>1. L + 1 \in Nat /\ right \in Nat BY <1>0
  <2> HIDE DEF L
  <2> QED BY <2>1, NewNodes
<1>2. nodes' = nodes \o <<S, C>> /\ L \in Nat
  BY <1>0 DEF Ropes!WithText
<1> HIDE DEF S, C
<1>3. /\ Len(nodes') = L + 2 /\ nodes' \in Seq(NodeType)
      /\ \A n \in NodeIds : nodes'[n] = nodes[n]
      /\ nodes'[L + 1] = S /\ nodes'[L + 2] = C
  BY <1>0, <1>1, <1>2 DEF NodeIds
<1>4. ASSUME NEW n \in NodeIds'
      PROVE  nodes'[n].left \in 0..(n - 1) /\ nodes'[n].right \in 0..(n - 1)
  <2>1. CASE n = L + 1
    BY <1>1, <1>2, <1>3, <2>1
  <2>2. CASE n = L + 2
    BY <1>1, <1>2, <1>3, <2>2
  <2>3. CASE n \in NodeIds
    BY <1>3, <2>3 DEF RopeTyped
  <2> QED BY <1>2, <1>3, <2>1, <2>2, <2>3 DEF NodeIds
<1> PICK U : U = [n \in 0..(L + 2) |-> IF n <= L THEN T[n] ELSE IF n = L + 1 THEN text
                                       ELSE T[right] \o text]
  OBVIOUS
<1>5. T \in [0..L -> String] /\ T[0] = <<>>
  BY DEF Spells
<1>6. T[right] \o text \in String
  <2>1. T[right] \in Seq(Character) /\ text \in Seq(Character)
    BY <1>0, <1>2, <1>5 DEF String
  <2> QED BY <2>1 DEF String
<1>7. U \in [0..Len(nodes') -> String] /\ U[0] = <<>>
  BY <1>3, <1>5, <1>6
<1>8. ASSUME NEW n \in NodeIds'
      PROVE  U[n] = IF nodes'[n].concat THEN U[nodes'[n].right] \o U[nodes'[n].left]
                    ELSE nodes'[n].text
  <2>1. CASE n = L + 1
    BY <1>1, <1>3, <2>1
  <2>2. CASE n = L + 2
    BY <1>1, <1>3, <2>2
  <2>3. CASE n \in NodeIds
    <3>1. nodes[n].left \in 0..(n - 1) /\ nodes[n].right \in 0..(n - 1)
      BY <2>3 DEF RopeTyped
    <3>2. U[n] = T[n] /\ U[nodes[n].left] = T[nodes[n].left] /\ U[nodes[n].right] = T[nodes[n].right]
      BY <1>2, <2>3, <3>1 DEF NodeIds
    <3> QED BY <1>3, <2>3, <3>2 DEF Spells
  <2> QED BY <1>2, <1>3, <2>1, <2>2, <2>3 DEF NodeIds
<1>9. Spells(U)'
  BY <1>7, <1>8 DEF Spells, NodeIds
<1>10. (\A n \in 0..L : U[n] = T[n]) /\ U[L + 2] = T[right] \o text
  BY <1>2
<1> QED BY <1>3, <1>4, <1>9, <1>10

(* Between calls of c_str nothing is known of a walk.                      *)
LEMMA Rested ==
  ASSUME ~walk.on, UNCHANGED walk, walk.off = 0, walk.on \in BOOLEAN, RopeTyped', got'.on = FALSE,
         \E T : Spells(T)' /\ RopesSpelled(T)'
  PROVE  RopeInv'
BY DEF RopeInv, WalkSound, GotSound

LEMMA RopeMade ==
  ASSUME RopeInv, NEW v \in Variable, NEW text \in String, NEW right \in 0..Len(nodes),
         NEW s \in String, ~walk.on, UNCHANGED walk,
         nodes' = Ropes!WithText(text, right),
         \A T : Spells(T) /\ RopesSpelled(T) => s = T[right] \o text,
         ropes' = [ropes EXCEPT ![v] = [root |-> Len(nodes) + 2, size |-> Len(s)]],
         said' = [said EXCEPT ![v] = s],
         got' = Ropes!Nothing
  PROVE  RopeInv'
<1>1. PICK T : Spells(T) /\ RopesSpelled(T) BY DEF RopeInv
<1>2. RopeTyped /\ Len(nodes) \in Nat /\ Len(s) \in Nat
  BY DEF RopeInv, RopeTyped, String
<1>3. /\ Len(nodes') = Len(nodes) + 2 /\ nodes' \in Seq(NodeType)
      /\ \A n \in NodeIds' :
           nodes'[n].left \in 0..(n - 1) /\ nodes'[n].right \in 0..(n - 1)
  BY <1>1, <1>2, GrownText
<1>4. PICK U : /\ Spells(U)' /\ \A n \in 0..Len(nodes) : U[n] = T[n]
               /\ U[Len(nodes) + 2] = T[right] \o text
  BY <1>1, <1>2, GrownText
<1>5. NodeIds \subseteq NodeIds' /\ Len(nodes) + 2 \in NodeIds'
  BY <1>2, <1>3 DEF NodeIds
<1>6. ropes \in [Variable -> [root : NodeIds, size : Nat]] /\ said \in [Variable -> String]
  BY <1>2 DEF RopeTyped
<1>7. RopeTyped'
  BY <1>2, <1>3, <1>5, <1>6 DEF RopeTyped
<1>8. RopesSpelled(U)'
  <2>1. ASSUME NEW w \in Variable
        PROVE  U[ropes'[w].root] = said'[w] /\ ropes'[w].size = Len(said'[w])
    <3>1. CASE w = v
      BY <1>1, <1>4, <1>6, <3>1
    <3>2. CASE w # v
      <4>1. ropes'[w] = ropes[w] /\ said'[w] = said[w] /\ ropes[w].root \in 0..Len(nodes)
        BY <1>6, <3>2 DEF NodeIds
      <4> QED BY <1>1, <1>4, <4>1 DEF RopesSpelled
    <3> QED BY <3>1, <3>2
  <2> QED BY <2>1 DEF RopesSpelled
<1>9. got'.on = FALSE /\ walk.off = 0 /\ walk.on \in BOOLEAN
  BY DEF Ropes!Nothing, RopeInv
<1> QED BY <1>4, <1>7, <1>8, <1>9, Rested

LEMMA RopeKeeps ==
  ASSUME RopeInv, NEW v \in Variable, NEW text \in RopeText, Ropes!rope(v, text)
  PROVE  RopeInv'
<1>1. \A T : Spells(T) => text = T[0] \o text
  BY TextIsString DEF Spells, String
<1>2. 0 \in 0..Len(nodes)
  BY DEF RopeInv, RopeTyped
<1> QED BY <1>1, <1>2, TextIsString, RopeMade DEF Ropes!rope, Ropes!nullptr

LEMMA AppendKeeps ==
  ASSUME RopeInv, NEW v \in Variable, NEW text \in String, Ropes!append(v, text)
  PROVE  RopeInv'
<1>1. RopeTyped /\ ropes[v].root \in 0..Len(nodes) /\ said[v] \in String
  BY DEF RopeInv, RopeTyped, NodeIds
<1>2. \A T : Spells(T) /\ RopesSpelled(T) => said[v] \o text = T[ropes[v].root] \o text
  BY DEF RopesSpelled
<1>3. said[v] \o text \in String /\ Len(said[v] \o text) = ropes[v].size + Len(text)
  <2>1. PICK T : Spells(T) /\ RopesSpelled(T) BY DEF RopeInv
  <2>2. ropes[v].size = Len(said[v])
    BY <2>1 DEF RopesSpelled
  <2> QED BY <1>1, <2>2 DEF String
<1>4. ropes' = [ropes EXCEPT ![v] = [root |-> Len(nodes) + 2, size |-> Len(said[v] \o text)]]
  BY <1>1, <1>3 DEF RopeTyped, Ropes!append
<1>5. said' = [said EXCEPT ![v] = said[v] \o text]
  BY <1>1 DEF RopeTyped, Ropes!append
<1> QED BY <1>1, <1>2, <1>3, <1>4, <1>5, RopeMade DEF Ropes!append

LEMMA AppendRopeKeeps ==
  ASSUME RopeInv, NEW v \in Variable, NEW w \in Variable, Ropes!AppendRope(v, w)
  PROVE  RopeInv'
<1> DEFINE C == Ropes!Concat(ropes[w].root, ropes[v].root)
<1>1. PICK T : Spells(T) /\ RopesSpelled(T) BY DEF RopeInv
<1>2. /\ RopeTyped /\ Len(nodes) \in Nat /\ nodes \in Seq(NodeType)
      /\ ropes \in [Variable -> [root : NodeIds, size : Nat]] /\ said \in [Variable -> String]
      /\ ropes[v].root \in 1..Len(nodes) /\ ropes[w].root \in 1..Len(nodes)
  BY DEF RopeInv, RopeTyped, NodeIds
<1>3. C \in NodeType /\ C.concat /\ C.left = ropes[w].root /\ C.right = ropes[v].root
  <2>1. ropes[w].root \in Nat /\ ropes[v].root \in Nat BY <1>2
  <2> QED BY <2>1, NewNodes, TextIsString
<1>4. nodes' = Append(nodes, C)
  BY DEF Ropes!AppendRope
<1> HIDE DEF C
<1>5. C.left \in 0..Len(nodes) /\ C.right \in 0..Len(nodes)
  BY <1>2, <1>3
<1>6. /\ Len(nodes') = Len(nodes) + 1 /\ nodes' \in Seq(NodeType)
      /\ \A n \in NodeIds : nodes'[n] = nodes[n]
      /\ nodes'[Len(nodes) + 1] = C
  BY <1>1, <1>2, <1>3, <1>4, <1>5, Grown
<1>7. PICK U : /\ Spells(U)' /\ \A n \in 0..Len(nodes) : U[n] = T[n]
               /\ U[Len(nodes) + 1] = T[ropes[v].root] \o T[ropes[w].root]
  <2>1. C.concat BY <1>3
  <2>2. PICK U : /\ Spells(U)' /\ \A n \in 0..Len(nodes) : U[n] = T[n]
                 /\ U[Len(nodes) + 1] = IF C.concat THEN T[C.right] \o T[C.left] ELSE C.text
    BY <1>1, <1>2, <1>3, <1>4, <1>5, Grown
  <2> QED BY <1>3, <2>2
<1>8. NodeIds \subseteq NodeIds' /\ Len(nodes) + 1 \in NodeIds'
  BY <1>2, <1>6 DEF NodeIds
<1>9. ASSUME NEW n \in NodeIds'
      PROVE  nodes'[n].left \in 0..(n - 1) /\ nodes'[n].right \in 0..(n - 1)
  <2>1. CASE n = Len(nodes) + 1
    BY <1>2, <1>3, <1>6, <2>1
  <2>2. CASE n \in NodeIds
    BY <1>2, <1>6, <2>2 DEF RopeTyped
  <2> QED BY <1>2, <1>6, <2>1, <2>2 DEF NodeIds
<1>10. /\ T[ropes[v].root] = said[v] /\ ropes[v].size = Len(said[v])
       /\ T[ropes[w].root] = said[w] /\ ropes[w].size = Len(said[w])
  BY <1>1 DEF RopesSpelled
<1>11. said[v] \o said[w] \in String /\ Len(said[v] \o said[w]) = ropes[v].size + ropes[w].size
  BY <1>2, <1>10 DEF String
<1>12. /\ ropes' = [ropes EXCEPT ![v] = [root |-> Len(nodes) + 1, size |-> Len(said[v] \o said[w])]]
       /\ said' = [said EXCEPT ![v] = said[v] \o said[w]]
  BY <1>2, <1>11 DEF Ropes!AppendRope
<1>13. RopeTyped'
  <2>1. Len(said[v] \o said[w]) \in Nat
    BY <1>2, <1>11
  <2> QED BY <1>2, <1>6, <1>8, <1>9, <1>11, <1>12, <2>1 DEF RopeTyped
<1>14. RopesSpelled(U)'
  <2>1. ASSUME NEW x \in Variable
        PROVE  U[ropes'[x].root] = said'[x] /\ ropes'[x].size = Len(said'[x])
    <3>1. CASE x = v
      BY <1>2, <1>7, <1>10, <1>12, <3>1
    <3>2. CASE x # v
      <4>1. ropes'[x] = ropes[x] /\ said'[x] = said[x] /\ ropes[x].root \in 0..Len(nodes)
        BY <1>2, <1>12, <3>2 DEF NodeIds
      <4> QED BY <1>1, <1>7, <4>1 DEF RopesSpelled
    <3> QED BY <3>1, <3>2
  <2> QED BY <2>1 DEF RopesSpelled
<1>15. got'.on = FALSE /\ walk.off = 0 /\ walk.on \in BOOLEAN /\ ~walk.on /\ UNCHANGED walk
  BY DEF Ropes!Nothing, RopeInv, Ropes!AppendRope
<1> QED BY <1>7, <1>13, <1>14, <1>15, Rested

LEMMA CopyKeeps ==
  ASSUME RopeInv, NEW v \in Variable, NEW w \in Variable, Ropes!Copy(v, w)
  PROVE  RopeInv'
<1>1. PICK T : Spells(T) /\ RopesSpelled(T) BY DEF RopeInv
<1>2. /\ RopeTyped /\ ropes \in [Variable -> [root : NodeIds, size : Nat]]
      /\ said \in [Variable -> String] /\ UNCHANGED nodes
      /\ ropes' = [ropes EXCEPT ![v] = ropes[w]] /\ said' = [said EXCEPT ![v] = said[w]]
  BY DEF RopeInv, RopeTyped, Ropes!Copy
<1>3. RopeTyped'
  BY <1>2 DEF RopeTyped, NodeIds
<1>4. Spells(T)' /\ RopesSpelled(T)'
  BY <1>1, <1>2 DEF Spells, RopesSpelled, NodeIds
<1>5. got'.on = FALSE /\ walk.off = 0 /\ walk.on \in BOOLEAN /\ ~walk.on /\ UNCHANGED walk
  BY DEF Ropes!Nothing, RopeInv, Ropes!Copy
<1> QED BY <1>3, <1>4, <1>5, Rested

(* A set of numbers that is not empty has a least element.                 *)
LEMMA LeastNumber ==
  ASSUME NEW S \in SUBSET Nat, S # {}
  PROVE  \E n \in S : \A m \in S : n <= m
<1>1. PICK n \in S : \A o \in S : ~(<<o, n>> \in OpToRel(<, Nat))
  BY NatLessThanWellFounded, WFMin
<1>2. \A o \in S : ~(o < n)
  BY <1>1 DEF OpToRel
<1> QED BY <1>2

(* q are the pieces of t from its end, c[i] is where the i-th begins.      *)
Cut(q, t, c) ==
  /\ c \in [0..Len(q) -> 0..Len(t)]
  /\ c[0] = Len(t) /\ c[Len(q)] = 0
  /\ \A i \in 1..Len(q) :
       /\ c[i] = c[i - 1] - Len(q[i])
       /\ \A j \in 1..Len(q[i]) : t[c[i] + j] = q[i][j]
Pieced(q, t) == q \in Seq(String) /\ \E c : Cut(q, t, c)

LEMMA PiecesJoined ==
  ASSUME NEW q, NEW p, NEW t \in String, NEW u \in String, Pieced(q, t), Pieced(p, u)
  PROVE  Pieced(q \o p, u \o t)
<1>1. /\ q \in Seq(String) /\ p \in Seq(String) /\ q \o p \in Seq(String)
      /\ Len(q) \in Nat /\ Len(p) \in Nat /\ Len(q \o p) = Len(q) + Len(p)
      /\ \A i \in 1..Len(q) : (q \o p)[i] = q[i]
      /\ \A i \in 1..Len(p) : (q \o p)[Len(q) + i] = p[i]
  BY DEF Pieced
<1>2. /\ Len(t) \in Nat /\ Len(u) \in Nat /\ Len(u \o t) = Len(u) + Len(t)
      /\ \A i \in 1..Len(u) : (u \o t)[i] = u[i]
      /\ \A i \in 1..Len(t) : (u \o t)[Len(u) + i] = t[i]
  BY DEF String
<1>3. PICK c : Cut(q, t, c)
  BY DEF Pieced
<1>4. PICK d : Cut(p, u, d)
  BY DEF Pieced
<1> DEFINE r == q \o p
           w == u \o t
<1>5. PICK e : e = [i \in 0..(Len(q) + Len(p)) |->
                      IF i <= Len(q) THEN Len(u) + c[i] ELSE d[i - Len(q)]]
  OBVIOUS
<1>6. /\ \A i \in 0..Len(q) : e[i] = Len(u) + c[i] /\ c[i] \in 0..Len(t)
      /\ \A i \in 0..Len(p) : e[Len(q) + i] = d[i] /\ d[i] \in 0..Len(u)
      /\ DOMAIN e = 0..(Len(q) + Len(p))
  <2>1. ASSUME NEW i \in 0..Len(q) PROVE e[i] = Len(u) + c[i] /\ c[i] \in 0..Len(t)
    BY <1>1, <1>3, <1>5 DEF Cut
  <2>2. ASSUME NEW i \in 0..Len(p) PROVE e[Len(q) + i] = d[i] /\ d[i] \in 0..Len(u)
    <3>1. CASE i = 0
      <4>1. Len(q) + i = Len(q) /\ Len(q) \in 0..Len(q) /\ 0 \in 0..Len(p)
        BY <1>1, <3>1
      <4>2. e[Len(q)] = Len(u) + c[Len(q)] /\ c[Len(q)] = 0
        BY <1>3, <2>1, <4>1 DEF Cut
      <4>3. d[0] = Len(u) /\ d[0] \in 0..Len(u)
        BY <1>4, <4>1 DEF Cut
      <4> QED BY <1>2, <3>1, <4>1, <4>2, <4>3
    <3>2. CASE i # 0
      <4> DEFINE k == Len(q) + i
      <4>1. k \in 0..(Len(q) + Len(p)) /\ ~(k <= Len(q)) /\ k - Len(q) = i
        BY <1>1, <3>2
      <4>2. e[k] = d[i]
        <5> HIDE DEF k
        <5> QED BY <1>5, <4>1
      <4> QED BY <1>4, <4>2 DEF Cut
    <3> QED BY <3>1, <3>2
  <2> QED BY <1>5, <2>1, <2>2
<1>7. e \in [0..Len(r) -> 0..Len(w)]
  <2>1. ASSUME NEW i \in 0..Len(r) PROVE e[i] \in 0..Len(w)
    <3>1. CASE i \in 0..Len(q)
      BY <1>1, <1>2, <1>6, <3>1
    <3>2. CASE i \notin 0..Len(q)
      <4> DEFINE k == i - Len(q)
      <4>1. k \in 0..Len(p) /\ Len(q) + k = i
        BY <1>1, <3>2
      <4>2. e[i] \in 0..Len(u)
        BY <1>6, <4>1
      <4> QED BY <1>2, <4>2
    <3> QED BY <3>1, <3>2
  <2> QED BY <1>1, <1>5, <2>1
<1>8. e[0] = Len(w) /\ e[Len(r)] = 0
  <2>1. e[0] = Len(u) + c[0] /\ e[Len(q) + Len(p)] = d[Len(p)]
    BY <1>1, <1>6
  <2> QED BY <1>1, <1>2, <1>3, <1>4, <2>1 DEF Cut
<1>9. ASSUME NEW i \in 1..Len(r)
      PROVE  e[i] = e[i - 1] - Len(r[i]) /\ \A j \in 1..Len(r[i]) : w[e[i] + j] = r[i][j]
  <2>1. CASE i <= Len(q)
    <3>1. i \in 1..Len(q) /\ i \in 0..Len(q) /\ i - 1 \in 0..Len(q) /\ r[i] = q[i]
      BY <1>1, <2>1
    <3>2. /\ e[i] = Len(u) + c[i] /\ e[i - 1] = Len(u) + c[i - 1]
          /\ c[i] \in 0..Len(t) /\ c[i - 1] \in 0..Len(t)
      BY <1>6, <3>1
    <3>3. q[i] \in String /\ Len(q[i]) \in Nat
      BY <1>1, <3>1 DEF String
    <3>4. c[i] = c[i - 1] - Len(q[i]) /\ \A j \in 1..Len(q[i]) : t[c[i] + j] = q[i][j]
      BY <1>3, <3>1 DEF Cut
    <3>5. ASSUME NEW j \in 1..Len(q[i]) PROVE w[e[i] + j] = q[i][j]
      <4>0. PICK x, y, k, l, m :
              x = c[i] /\ y = c[i - 1] /\ k = Len(t) /\ l = Len(q[i]) /\ m = Len(u)
        OBVIOUS
      <4>1. c[i] + j \in 1..Len(t) /\ e[i] + j = Len(u) + (c[i] + j)
        <5>1. /\ k \in Nat /\ l \in Nat /\ m \in Nat /\ x \in 0..k /\ y \in 0..k /\ x = y - l
              /\ j \in 1..l /\ e[i] = m + x
          BY <1>2, <3>2, <3>3, <3>4, <4>0
        <5>2. x + j \in 1..k /\ e[i] + j = m + (x + j)
          BY ONLY <5>1
        <5> QED BY <4>0, <5>2
      <4> QED BY <1>2, <3>4, <4>1
    <3>6. e[i] = e[i - 1] - Len(q[i])
      BY <1>2, <3>2, <3>3, <3>4
    <3> HIDE DEF r, w
    <3> QED BY <3>1, <3>5, <3>6
  <2>2. CASE i > Len(q)
    <3> DEFINE k == i - Len(q)
    <3>1. /\ k \in 1..Len(p) /\ k \in 0..Len(p) /\ k - 1 \in 0..Len(p)
          /\ i = Len(q) + k /\ i - 1 = Len(q) + (k - 1)
      BY <1>1, <2>2
    <3> HIDE DEF k
    <3>2. /\ e[i] = d[k] /\ e[i - 1] = d[k - 1] /\ r[i] = p[k]
          /\ d[k] \in 0..Len(u) /\ d[k - 1] \in 0..Len(u)
      BY <1>1, <1>6, <3>1
    <3>3. p[k] \in String /\ Len(p[k]) \in Nat
      BY <1>1, <3>1 DEF String
    <3>4. d[k] = d[k - 1] - Len(p[k]) /\ \A j \in 1..Len(p[k]) : u[d[k] + j] = p[k][j]
      BY <1>4, <3>1 DEF Cut
    <3>5. ASSUME NEW j \in 1..Len(p[k]) PROVE w[e[i] + j] = p[k][j]
      <4>1. d[k] + j \in 1..Len(u)
        BY <1>2, <3>2, <3>3, <3>4
      <4> QED BY <1>2, <3>2, <3>4, <4>1
    <3>6. e[i] = e[i - 1] - Len(p[k])
      BY <3>2, <3>4
    <3> HIDE DEF r, w
    <3> QED BY <3>2, <3>5, <3>6
  <2>3. i <= Len(q) \/ i > Len(q)
    BY <1>1
  <2> HIDE DEF r, w
  <2> QED BY <2>1, <2>2, <2>3
<1>10. r \in Seq(String) /\ Cut(r, w, e)
  <2> HIDE DEF r, w
  <2> QED BY <1>1, <1>7, <1>8, <1>9 DEF Cut, r
<1> QED BY <1>10 DEF Pieced

(* A text is the only piece of itself.                                     *)
LEMMA OnePiece == ASSUME NEW t \in String PROVE Pieced(<<t>>, t)
<1>1. PICK c : c = [i \in 0..1 |-> IF i = 0 THEN Len(t) ELSE 0]
  OBVIOUS
<1>2. Len(t) \in Nat BY DEF String
<1>3. Cut(<<t>>, t, c)
  BY <1>1, <1>2 DEF Cut
<1> QED BY <1>3 DEF Pieced

LEMMA NoPieces == Pieced(<<>>, <<>>)
<1>1. PICK c : c = [i \in 0..0 |-> 0]
  OBVIOUS
<1>2. Cut(<<>>, <<>>, c)
  BY <1>1 DEF Cut
<1> QED BY <1>2 DEF Pieced

(* The pieces of a node are those of its parts.                            *)
PieceOf(f, n) ==
  IF n = 0 THEN <<>>
  ELSE IF nodes[n].concat THEN f[nodes[n].left] \o f[nodes[n].right] ELSE <<nodes[n].text>>

LEMMA PiecesAre ==
  ASSUME RopeTyped
  PROVE  Ropes!Pieces = [n \in 0..Len(nodes) |-> PieceOf(Ropes!Pieces, n)]
<1> DEFINE Upto(f, k) == f = [n \in 0..k |-> PieceOf(f, n)]
           Bad == {k \in 0..Len(nodes) : \A f : ~Upto(f, k)}
<1>1. Len(nodes) \in Nat BY DEF RopeTyped
<1>2. SUFFICES ASSUME Bad # {} PROVE FALSE
  <2>1. \E f : Upto(f, Len(nodes))
    BY <1>1, <1>2
  <2>2. \E f : f = [n \in 0..Len(nodes) |->
               IF n = 0 THEN <<>>
               ELSE IF nodes[n].concat THEN f[nodes[n].left] \o f[nodes[n].right]
               ELSE <<nodes[n].text>>]
    BY <2>1 DEF PieceOf
  <2> QED BY <2>2 DEF Ropes!Pieces, Ropes!nullptr, PieceOf
<1>3. PICK k \in Bad : \A m \in Bad : k <= m
  <2>1. Bad \in SUBSET Nat BY <1>1
  <2> HIDE DEF Bad
  <2> QED BY <1>2, <2>1, LeastNumber
<1>4. k \in 0..Len(nodes) /\ \A f : ~Upto(f, k)
  BY <1>3
<1>5. CASE k = 0
  <2>1. PICK f : f = [n \in 0..0 |-> <<>>] OBVIOUS
  <2>2. Upto(f, 0) BY <2>1 DEF PieceOf
  <2> QED BY <1>4, <1>5, <2>2
<1>6. CASE k # 0
  <2>1. k - 1 \in 0..Len(nodes) /\ k - 1 \notin Bad
    BY <1>1, <1>3, <1>4, <1>6
  <2>2. PICK f : Upto(f, k - 1) BY <2>1
  <2>3. PICK g : g = [n \in 0..k |-> IF n = k THEN PieceOf(f, k) ELSE f[n]]
    OBVIOUS
  <2>4. ASSUME NEW n \in 0..k PROVE g[n] = PieceOf(g, n)
    <3>1. n # 0 => nodes[n].left \in 0..(n - 1) /\ nodes[n].right \in 0..(n - 1)
      BY <1>1, <1>4 DEF RopeTyped, NodeIds
    <3>2. \A m \in 0..(n - 1) : g[m] = f[m]
      BY <1>1, <1>4, <2>3
    <3>3. PieceOf(g, n) = PieceOf(f, n)
      BY <3>1, <3>2 DEF PieceOf
    <3>4. g[n] = PieceOf(f, n)
      <4>1. CASE n = k
        BY <2>3, <4>1
      <4>2. CASE n # k
        <5>1. n \in 0..(k - 1) BY <1>4, <4>2
        <5>2. f[n] = PieceOf(f, n)
          <6> HIDE DEF PieceOf
          <6> QED BY <2>2, <5>1
        <5> QED BY <2>3, <4>2, <5>2
      <4> QED BY <4>1, <4>2
    <3> QED BY <3>3, <3>4
  <2>5. Upto(g, k)
    BY <2>3, <2>4
  <2> QED BY <1>4, <2>5
<1> QED BY <1>5, <1>6

(* They are pieces of its text.                                            *)
LEMMA PiecesSpell ==
  ASSUME RopeTyped, NEW T, Spells(T), NEW n \in 0..Len(nodes)
  PROVE  Pieced(Ropes!Pieces[n], T[n])
<1> DEFINE Q == Ropes!Pieces
           Bad == {k \in 0..Len(nodes) : ~Pieced(Q[k], T[k])}
<1>1. Len(nodes) \in Nat /\ \A k \in 0..Len(nodes) : Q[k] = PieceOf(Q, k)
  BY PiecesAre DEF RopeTyped
<1> HIDE DEF Q
<1>2. SUFFICES ASSUME Bad # {} PROVE FALSE
  BY <1>2 DEF Q
<1>3. PICK k \in Bad : \A m \in Bad : k <= m
  <2>1. Bad \in SUBSET Nat BY <1>1
  <2> HIDE DEF Bad
  <2> QED BY <1>2, <2>1, LeastNumber
<1>4. k \in 0..Len(nodes) /\ ~Pieced(Q[k], T[k]) /\ Q[k] = PieceOf(Q, k)
  BY <1>1, <1>3
<1>5. CASE k = 0
  BY <1>4, <1>5, NoPieces DEF PieceOf, Spells
<1>6. CASE k # 0
  <2>1. k \in NodeIds /\ nodes[k].left \in 0..(k - 1) /\ nodes[k].right \in 0..(k - 1)
    BY <1>1, <1>4, <1>6 DEF RopeTyped, NodeIds
  <2>2. /\ nodes[k].left \in 0..Len(nodes) /\ nodes[k].right \in 0..Len(nodes)
        /\ nodes[k].left \notin Bad /\ nodes[k].right \notin Bad
    BY <1>1, <1>3, <1>4, <2>1
  <2>3. /\ Pieced(Q[nodes[k].left], T[nodes[k].left]) /\ T[nodes[k].left] \in String
        /\ Pieced(Q[nodes[k].right], T[nodes[k].right]) /\ T[nodes[k].right] \in String
    BY <2>2 DEF Spells
  <2>4. CASE nodes[k].concat
    BY <1>4, <1>6, <2>1, <2>3, <2>4, PiecesJoined DEF PieceOf, Spells
  <2>5. CASE ~nodes[k].concat
    <3>1. T[k] = nodes[k].text /\ T[k] \in String
      BY <1>4, <2>1, <2>5 DEF Spells
    <3> QED BY <1>4, <1>6, <2>5, <3>1, OnePiece DEF PieceOf
  <2> QED BY <2>4, <2>5
<1> QED BY <1>5, <1>6

(* at finds the character of the piece that the index is in.               *)
LEMMA AtIsRight ==
  ASSUME RopeTyped, NEW T, Spells(T), RopesSpelled(T), NEW v \in Variable,
         NEW index \in Nat, index < ropes[v].size
  PROVE  Ropes!at(v, index) = <<said[v][index + 1]>> /\ index < Len(said[v])
<1> DEFINE q == Ropes!Pieces[ropes[v].root]
           t == said[v]
           Sizes(f) == f = [n \in 0..Len(q) |->
                              IF n = 0 THEN ropes[v].size ELSE f[n - 1] - Len(q[n])]
<1>1. ropes[v].root \in 0..Len(nodes) /\ t \in String /\ T[ropes[v].root] = t
      /\ ropes[v].size = Len(t)
  BY DEF RopeTyped, NodeIds, RopesSpelled
<1>2. q \in Seq(String) /\ \E c : Cut(q, t, c)
  BY <1>1, PiecesSpell DEF Pieced
<1> HIDE DEF q
<1>3. PICK c : Cut(q, t, c) BY <1>2
<1>4. Len(q) \in Nat /\ Len(t) \in Nat
  BY <1>1, <1>2 DEF String
<1>5. Sizes(c)
  BY <1>1, <1>3, <1>4 DEF Cut
<1>6. PICK f : Sizes(f) /\ f = CHOOSE g : Sizes(g)
  BY <1>5
<1>7. \A n \in 0..Len(q) : f[n] = c[n]
  <2> DEFINE Bad == {n \in 0..Len(q) : f[n] # c[n]}
  <2>1. SUFFICES ASSUME Bad # {} PROVE FALSE OBVIOUS
  <2>2. PICK k \in Bad : \A m \in Bad : k <= m
    <3>1. Bad \in SUBSET Nat BY <1>4
    <3> HIDE DEF Bad
    <3> QED BY <2>1, <3>1, LeastNumber
  <2>3. k \in 0..Len(q) /\ f[k] # c[k]
    BY <2>2
  <2>4. CASE k = 0
    BY <1>4, <1>5, <1>6, <2>3, <2>4
  <2>5. CASE k # 0
    <3>1. k - 1 \in 0..Len(q) /\ k - 1 \notin Bad
      BY <1>4, <2>2, <2>3, <2>5
    <3>2. f[k - 1] = c[k - 1]
      BY <3>1
    <3>3. f[k] = f[k - 1] - Len(q[k]) /\ c[k] = c[k - 1] - Len(q[k])
      BY <1>5, <1>6, <2>3, <2>5
    <3> QED BY <2>3, <3>2, <3>3
  <2> QED BY <2>4, <2>5
<1>8. \E n \in 1..Len(q) : f[n] <= index /\ index < f[n - 1]
  <2> DEFINE S == {n \in 0..Len(q) : c[n] <= index}
  <2>1. Len(q) \in S
    BY <1>3, <1>4 DEF Cut
  <2>2. PICK n \in S : \A m \in S : n <= m
    <3>1. S \in SUBSET Nat BY <1>4
    <3> HIDE DEF S
    <3> QED BY <2>1, <3>1, LeastNumber
  <2>3. n # 0
    BY <1>1, <1>3, <2>2 DEF Cut
  <2>4. n \in 1..Len(q) /\ n - 1 \in 0..Len(q) /\ n - 1 \notin S
    BY <1>4, <2>2, <2>3
  <2>5. c[n - 1] \in Nat
    <3>1. \A m \in 0..Len(q) : c[m] \in 0..Len(t)
      BY <1>3 DEF Cut
    <3>2. c[n - 1] \in 0..Len(t)
      BY <2>4, <3>1
    <3> QED BY <1>4, <3>2
  <2>6. c[n] <= index /\ index < c[n - 1]
    BY <1>4, <2>2, <2>4, <2>5
  <2>7. f[n] = c[n] /\ f[n - 1] = c[n - 1]
    BY <1>7, <2>2, <2>4
  <2> QED BY <2>4, <2>6, <2>7
<1>9. PICK n : /\ n = CHOOSE m \in DOMAIN q : f[m] <= index /\ index < f[m - 1]
               /\ n \in DOMAIN q /\ f[n] <= index /\ index < f[n - 1]
  <2>1. DOMAIN q = 1..Len(q) BY <1>2
  <2> QED BY <1>8, <2>1
<1>10. Ropes!at(v, index) = <<q[n][index - f[n] + 1]>>
  BY <1>6, <1>9 DEF Ropes!at, q
<1>11. n \in 1..Len(q) /\ n \in 0..Len(q) /\ n - 1 \in 0..Len(q)
  BY <1>2, <1>4, <1>9
<1>12. f[n] = c[n] /\ f[n - 1] = c[n - 1] /\ c[n] \in 0..Len(t) /\ c[n - 1] \in 0..Len(t)
  BY <1>3, <1>7, <1>11 DEF Cut
<1>13. c[n] = c[n - 1] - Len(q[n]) /\ Len(q[n]) \in Nat
  BY <1>2, <1>3, <1>11 DEF Cut, String
<1>14. index - c[n] + 1 \in 1..Len(q[n]) /\ c[n] + (index - c[n] + 1) = index + 1
  <2>1. c[n] <= index /\ index < c[n - 1]
    BY <1>9, <1>12
  <2> QED BY <1>12, <1>13, <2>1
<1>15. q[n][index - c[n] + 1] = t[index + 1]
  BY <1>3, <1>11, <1>14 DEF Cut
<1> QED BY <1>1, <1>10, <1>12, <1>15

LEMMA AtKeeps ==
  ASSUME RopeInv, NEW v \in Variable, NEW index \in 0..(ropes[v].size - 1), Ropes!At(v, index)
  PROVE  RopeInv'
<1>1. PICK T : Spells(T) /\ RopesSpelled(T) BY DEF RopeInv
<1>2. RopeTyped /\ ropes[v].size \in Nat /\ index \in Nat /\ index < ropes[v].size
  BY DEF RopeInv, RopeTyped
<1>3. Ropes!at(v, index) = <<said[v][index + 1]>> /\ index < Len(said[v])
  BY <1>1, <1>2, AtIsRight
<1>4. /\ got' = [on |-> TRUE, rope |-> v, from |-> index, text |-> <<said[v][index + 1]>>]
      /\ UNCHANGED <<nodes, ropes, said, walk>> /\ ~walk.on
  BY <1>3 DEF Ropes!At
<1>5. GotSound' /\ got'.on \in BOOLEAN
  BY <1>2, <1>3, <1>4 DEF GotSound
<1>6. Spells(T)' /\ RopesSpelled(T)' /\ RopeTyped'
  BY <1>1, <1>2, <1>4 DEF Spells, RopesSpelled, RopeTyped, NodeIds
<1> QED BY <1>4, <1>5, <1>6 DEF RopeInv, WalkSound

(* The way back is no part of a text.                                      *)
SameNodes ==
  /\ nodes' \in Seq(NodeType) /\ Len(nodes') = Len(nodes)
  /\ \A n \in NodeIds :
       /\ nodes'[n].text = nodes[n].text /\ nodes'[n].concat = nodes[n].concat
       /\ nodes'[n].left = nodes[n].left /\ nodes'[n].right = nodes[n].right

(* A member of a node is set.                                              *)
WithTemp(L, i, x) == [L EXCEPT ![i].temp = x]
WithTempLeft(L, i, x) == [L EXCEPT ![i].temp_left = x]
LEMMA SetTemp ==
  ASSUME NEW L \in Seq(NodeType), NEW i \in 1..Len(L), NEW x \in Nat,
         NEW M, M = WithTemp(L, i, x)
  PROVE  /\ M \in Seq(NodeType) /\ Len(M) = Len(L) /\ \A n \in 1..Len(L) : n # i => M[n] = L[n]
         /\ M[i].temp = x /\ M[i].temp_left = L[i].temp_left /\ M[i].text = L[i].text
         /\ M[i].concat = L[i].concat /\ M[i].left = L[i].left /\ M[i].right = L[i].right
<1> DEFINE e == [L[i] EXCEPT !.temp = x]
<1>0. PICK d : d = L[i] /\ d \in NodeType OBVIOUS
<1>1. /\ e \in NodeType /\ e.temp = x /\ e.temp_left = L[i].temp_left /\ e.text = L[i].text
      /\ e.concat = L[i].concat /\ e.left = L[i].left /\ e.right = L[i].right
  BY <1>0 DEF NodeType
<1>2. M = [L EXCEPT ![i] = e]
  BY DEF WithTemp
<1> HIDE DEF e
<1>3. M \in Seq(NodeType) /\ Len(M) = Len(L) /\ M[i] = e /\ \A n \in 1..Len(L) : n # i => M[n] = L[n]
  BY <1>1, <1>2
<1> QED BY <1>1, <1>3

Flag == BOOLEAN

LEMMA SetTempLeft ==
  ASSUME NEW L, L \in Seq(NodeType), NEW i, i \in 1..Len(L), NEW x, x \in Flag,
         NEW M, M = WithTempLeft(L, i, x)
  PROVE  /\ M \in Seq(NodeType) /\ Len(M) = Len(L) /\ \A n \in 1..Len(L) : n # i => M[n] = L[n]
         /\ M[i].temp_left = x /\ M[i].temp = L[i].temp /\ M[i].text = L[i].text
         /\ M[i].concat = L[i].concat /\ M[i].left = L[i].left /\ M[i].right = L[i].right
<1> DEFINE e == [L[i] EXCEPT !.temp_left = x]
<1>0. PICK d : d = L[i] /\ d \in NodeType OBVIOUS
<1>1. /\ e \in NodeType /\ e.temp_left = x /\ e.temp = L[i].temp /\ e.text = L[i].text
      /\ e.concat = L[i].concat /\ e.left = L[i].left /\ e.right = L[i].right
  BY <1>0 DEF NodeType, Flag
<1>2. M = [L EXCEPT ![i] = e]
  BY DEF WithTempLeft
<1> HIDE DEF e
<1>3. M \in Seq(NodeType) /\ Len(M) = Len(L) /\ M[i] = e /\ \A n \in 1..Len(L) : n # i => M[n] = L[n]
  BY <1>1, <1>2
<1> QED BY <1>1, <1>3

LEMMA SameTexts ==
  ASSUME RopeTyped, SameNodes, UNCHANGED <<ropes, said>>,
         NEW T, Spells(T), RopesSpelled(T)
  PROVE  RopeTyped' /\ Spells(T)' /\ RopesSpelled(T)'
<1>1. RopeTyped'
  BY DEF RopeTyped, SameNodes, NodeIds
<1>2. Spells(T)'
  BY DEF Spells, SameNodes, NodeIds
<1> QED BY <1>1, <1>2 DEF RopesSpelled

(* A walk starts at the root with everything to be written.                *)
LEMMA CStrKeeps ==
  ASSUME RopeInv, NEW v \in Variable, Ropes!CStr(v)
  PROVE  RopeInv'
<1> DEFINE root == ropes[v].root
<1>1. PICK T : Spells(T) /\ RopesSpelled(T) BY DEF RopeInv
<1>2. /\ RopeTyped /\ nodes \in Seq(NodeType) /\ root \in NodeIds /\ said[v] \in String
      /\ T[root] = said[v] /\ ropes[v].size = Len(said[v]) /\ Len(said[v]) \in Nat
      /\ Len(nodes) \in Nat
  BY <1>1 DEF RopeInv, RopeTyped, RopesSpelled, String
<1>3. /\ nodes' = [nodes EXCEPT ![root].temp = 0] /\ UNCHANGED <<ropes, said>>
      /\ walk' = [on |-> TRUE, rope |-> v, r |-> root, down |-> TRUE,
                  off |-> ropes[v].size, buffer |-> [i \in 1..ropes[v].size |-> Nul]]
      /\ got' = Ropes!Nothing
  BY DEF Ropes!CStr, Ropes!nullptr
<1> HIDE DEF root
<1>4. SameNodes /\ nodes'[root].temp = 0
  <2>1. root \in 1..Len(nodes) /\ 0 \in Nat
    BY <1>2 DEF NodeIds
  <2>2. /\ nodes' \in Seq(NodeType) /\ Len(nodes') = Len(nodes)
        /\ \A n \in 1..Len(nodes) : n # root => nodes'[n] = nodes[n]
        /\ nodes'[root].temp = 0 /\ nodes'[root].text = nodes[root].text
        /\ nodes'[root].concat = nodes[root].concat /\ nodes'[root].left = nodes[root].left
        /\ nodes'[root].right = nodes[root].right
    <3>1. PICK M : M = nodes' /\ M = WithTemp(nodes, root, 0)
      BY <1>3 DEF WithTemp
    <3>2. nodes \in Seq(NodeType) BY <1>2
    <3>3. /\ M \in Seq(NodeType) /\ Len(M) = Len(nodes)
          /\ \A n \in 1..Len(nodes) : n # root => M[n] = nodes[n]
          /\ M[root].temp = 0 /\ M[root].text = nodes[root].text
          /\ M[root].concat = nodes[root].concat /\ M[root].left = nodes[root].left
          /\ M[root].right = nodes[root].right
      BY ONLY <2>1, <3>1, <3>2, SetTemp
    <3> QED BY <3>1, <3>3
  <2>3. \A n \in 1..Len(nodes) :
          /\ nodes'[n].text = nodes[n].text /\ nodes'[n].concat = nodes[n].concat
          /\ nodes'[n].left = nodes[n].left /\ nodes'[n].right = nodes[n].right
    BY <2>2
  <2> QED BY <2>2, <2>3 DEF SameNodes, NodeIds
<1>5. RopeTyped' /\ Spells(T)' /\ RopesSpelled(T)'
  BY <1>1, <1>2, <1>3, <1>4, SameTexts
<1>6. NodeIds' = NodeIds
  BY <1>4 DEF NodeIds, SameNodes
<1>7. WalkTyped'
  BY <1>2, <1>3, <1>4, TextIsString DEF WalkTyped, NodeIds, SameNodes
<1>8. PICK P, before, M : P = {root} /\ before = [n \in {root} |-> 0] /\ M = nodes'
  OBVIOUS
<1>9. OnTheWay(M, T, said[v], root, P, before)
  <2>1. root \in 1..Len(M) /\ root # 0 /\ M[root].temp = 0
    BY <1>2, <1>4, <1>8 DEF SameNodes, NodeIds
  <2>2. Fits(T, said[v], root, before[root])
    BY <1>2, <1>8 DEF Fits
  <2> QED BY <1>2, <1>8, <2>1, <2>2 DEF OnTheWay
<1>10. walk'.off = LeftToWrite(M, T, root, TRUE, before)
  <2>1. root # 0 BY <1>2 DEF NodeIds
  <2>2. walk'.off = ropes[v].size BY <1>3
  <2> QED BY <1>2, <1>8, <2>1, <2>2 DEF LeftToWrite
<1>11. WalkSound(T)'
  <2>2. \A i \in (walk'.off + 1)..Len(said'[walk'.rope]) :
          walk'.buffer[i] = said'[walk'.rope][i]
    BY <1>2, <1>3
  <2>3. walk'.r = root /\ walk'.down = TRUE /\ said'[walk'.rope] = said[v]
    BY <1>3
  <2>4. OnTheWay(nodes', T, said'[walk'.rope], walk'.r, P, before)
    BY <1>8, <1>9, <2>3
  <2>5. walk'.off = LeftToWrite(nodes', T, walk'.r, walk'.down, before)
    BY <1>8, <1>10, <2>3
  <2> QED BY <1>7, <2>2, <2>4, <2>5 DEF WalkSound
<1>12. got'.on = FALSE /\ walk'.on = TRUE
  BY <1>3 DEF Ropes!Nothing
<1> QED BY <1>5, <1>11, <1>12 DEF RopeInv, GotSound

(* What a step down leaves of the way.                                     *)
SameOnTheWay(L, M, r, P) ==
  \A n \in P : /\ M[n].temp = L[n].temp /\ M[n].concat = L[n].concat
               /\ M[n].right = L[n].right
               /\ n # r => M[n].temp_left = L[n].temp_left
EndsAt(T, n, b, off) == off = b + Len(T[n])
WrittenFrom(buffer, off, t) == \A i \in (off + 1)..Len(t) : buffer[i] = t[i]
WentUp(w, off, r, buffer) == [w EXCEPT !.off = off, !.down = FALSE, !.r = r, !.buffer = buffer]
WentDown(w, r) == [w EXCEPT !.r = r, !.down = TRUE]
WayTo(L, T, t, n, b) ==
  \E Q, back : n \in Q /\ back[n] = b /\ OnTheWay(L, T, t, n, Q, back)

(* Down to a part of the node the walk is at.                              *)
LEMMA WayDown ==
  ASSUME NEW L, NEW M, Len(L) \in Nat, Len(M) = Len(L),
         NEW T, NEW t, NEW r \in 1..Len(L), NEW child \in 1..(r - 1), NEW P, NEW before, NEW b \in Nat,
         OnTheWay(L, T, t, r, P, before), L[r].concat, M[child].temp = r,
         SameOnTheWay(L, M, r, P), PlaceOf(M, T, r, before, M[r].temp_left, b), Fits(T, t, child, b)
  PROVE  WayTo(M, T, t, child, b)
<1> USE DEF SameOnTheWay
<1>1. /\ P \in SUBSET (1..Len(L)) /\ before \in [P -> Nat] /\ r \in P
      /\ \A n \in P : r <= n
  BY DEF OnTheWay
<1>2. child \notin P /\ child # r /\ child \in 1..Len(L) /\ child # 0 /\ r # 0
  BY <1>1
<1>3. PICK Q, back : /\ Q = P \cup {child}
                     /\ back = [n \in P \cup {child} |-> IF n = child THEN b ELSE before[n]]
  OBVIOUS
<1>4. /\ Q \in SUBSET (1..Len(M)) /\ back \in [Q -> Nat] /\ back[child] = b /\ child \in Q
      /\ \A n \in P : back[n] = before[n] /\ n \in Q
  BY <1>1, <1>2, <1>3
<1>5. \A n \in Q : child <= n
  BY <1>1, <1>2, <1>3
<1>6. ASSUME NEW n \in Q
      PROVE  Fits(T, t, n, back[n])
  <2>1. CASE n = child
    BY <1>4, <2>1
  <2>2. CASE n # child
    <3>1. n \in P /\ back[n] = before[n]
      BY <1>3, <1>4, <1>6, <2>2
    <3> QED BY <3>1 DEF OnTheWay
  <2> QED BY <2>1, <2>2
<1>7. ASSUME NEW n \in Q, NEW m \in Q, m > n
      PROVE  M[n].temp # 0 /\ m >= M[n].temp
  <2>1. CASE n = child
    <3>1. m \in P
      BY <1>2, <1>3, <1>7, <2>1
    <3> QED BY <1>1, <1>2, <2>1, <3>1
  <2>2. CASE n # child
    <3>1. n \in P /\ r <= n
      BY <1>1, <1>3, <1>7, <2>2
    <3>2. m # child
      BY <1>1, <1>2, <1>7, <3>1
    <3>3. m \in P
      BY <1>3, <1>7, <3>2
    <3>4. L[n].temp # 0 /\ m >= L[n].temp
      BY <1>7, <3>1, <3>3 DEF OnTheWay
    <3> QED BY <3>1, <3>4
  <2> QED BY <2>1, <2>2
<1>8. ASSUME NEW n \in Q, M[n].temp = 0 PROVE back[n] = 0
  <2>1. n # child
    BY <1>2, <1>8
  <2>2. n \in P /\ L[n].temp = 0 /\ back[n] = before[n]
    BY <1>3, <1>4, <1>8, <2>1
  <2> QED BY <2>2 DEF OnTheWay
<1>9. ASSUME NEW n \in Q, M[n].temp # 0
      PROVE  /\ M[n].temp \in Q /\ M[n].temp > n /\ M[M[n].temp].concat
             /\ PlaceOf(M, T, M[n].temp, back, M[M[n].temp].temp_left, back[n])
  <2>1. CASE n = child
    <3>1. M[n].temp = r /\ back[r] = before[r] /\ r \in Q /\ back[n] = b
      BY <1>1, <1>4, <2>1
    <3>2. M[r].concat /\ r > n
      BY <1>1, <2>1
    <3> QED BY <3>1, <3>2 DEF PlaceOf
  <2>2. CASE n # child
    <3>1. n \in P
      BY <1>3, <1>9, <2>2
    <3>2. PICK u : u = L[n].temp /\ u = M[n].temp
      BY <3>1
    <3>3. /\ u \in P /\ u > n /\ L[u].concat
          /\ PlaceOf(L, T, u, before, L[u].temp_left, before[n])
      BY <1>9, <3>1, <3>2 DEF OnTheWay
    <3>4. u # r
      BY <1>1, <3>1, <3>3
    <3>5. /\ back[n] = before[n] /\ back[u] = before[u] /\ u \in Q
          /\ M[u].concat = L[u].concat /\ M[u].right = L[u].right
          /\ M[u].temp_left = L[u].temp_left
      BY <1>4, <3>1, <3>3, <3>4
    <3> QED BY <3>2, <3>3, <3>5 DEF PlaceOf
  <2> QED BY <2>1, <2>2
<1>10. OnTheWay(M, T, t, child, Q, back)
  BY <1>2, <1>4, <1>5, <1>6, <1>7, <1>8, <1>9 DEF OnTheWay
<1> QED BY <1>4, <1>10 DEF WayTo

UpAt(L, u) == u \in 0..Len(L) /\ (u # 0 => L[u].concat)
BackTo(Q, before) == [n \in Q |-> before[n]]

(* Back up to the node the walk came from.                                 *)
LEMMA WayUp ==
  ASSUME NEW L, NEW T, NEW t, NEW r, r # 0, NEW P, NEW before, Len(L) \in Nat,
         OnTheWay(L, T, t, r, P, before), NEW u, u = L[r].temp,
         NEW Q, Q = P \ {r}, NEW back, back = BackTo(Q, before), NEW down, ~down
  PROVE  /\ OnTheWay(L, T, t, u, Q, back)
         /\ before[r] = LeftToWrite(L, T, u, down, back)
         /\ UpAt(L, u)
<1>1. /\ P \in SUBSET (1..Len(L)) /\ before \in [P -> Nat] /\ r \in P
      /\ \A n \in P : r <= n
  BY DEF OnTheWay
<1>3. /\ Q \in SUBSET (1..Len(L)) /\ back \in [Q -> Nat]
      /\ \A n \in Q : n \in P /\ back[n] = before[n] /\ n > r
  BY <1>1 DEF BackTo
<1>4. u # 0 => u \in Q /\ L[u].concat
  <2>1. u # 0 => u \in P /\ u > r /\ L[u].concat
    BY <1>1 DEF OnTheWay
  <2> QED BY <1>1, <2>1
<1>5. \A n \in Q : u # 0 /\ u <= n
  BY <1>1, <1>3 DEF OnTheWay
<1>6. ASSUME NEW n \in Q, L[n].temp # 0
      PROVE  /\ L[n].temp \in Q /\ L[n].temp > n /\ L[L[n].temp].concat
             /\ PlaceOf(L, T, L[n].temp, back, L[L[n].temp].temp_left, back[n])
  <2>1. PICK w : w = L[n].temp OBVIOUS
  <2>2. /\ w \in P /\ w > n /\ L[w].concat
        /\ PlaceOf(L, T, w, before, L[w].temp_left, before[n])
    BY <1>3, <1>6, <2>1 DEF OnTheWay
  <2>3. w \in Q
    BY <1>1, <1>3, <2>2
  <2>4. back[n] = before[n] /\ back[w] = before[w]
    BY <1>3, <2>3
  <2> QED BY <2>1, <2>2, <2>3, <2>4 DEF PlaceOf
<1>7. OnTheWay(L, T, t, u, Q, back)
  <2>1. u = 0 => Q = {}
    BY <1>5
  <2>2. ASSUME NEW n \in Q
        PROVE  Fits(T, t, n, back[n])
    <3>1. n \in P /\ back[n] = before[n]
      BY <1>3
    <3> QED BY <3>1 DEF OnTheWay
  <2>3. \A n, m \in Q : m > n => L[n].temp # 0 /\ m >= L[n].temp
    BY <1>3 DEF OnTheWay
  <2>4. \A n \in Q : L[n].temp = 0 => back[n] = 0
    BY <1>3 DEF OnTheWay
  <2> QED BY <1>3, <1>4, <1>5, <1>6, <2>1, <2>2, <2>3, <2>4 DEF OnTheWay
<1>8. before[r] = LeftToWrite(L, T, u, down, back)
  <2>1. CASE u = 0
    BY <1>1, <2>1 DEF OnTheWay, LeftToWrite
  <2>2. CASE u # 0
    <3>1. PlaceOf(L, T, u, before, L[u].temp_left, before[r])
      BY <1>1, <2>2 DEF OnTheWay
    <3> QED BY <1>3, <1>4, <2>2, <3>1 DEF LeftToWrite, PlaceOf
  <2> QED BY <2>1, <2>2
<1>9. UpAt(L, u)
  BY <1>3, <1>4 DEF UpAt
<1> QED BY <1>4, <1>7, <1>8, <1>9

(* What Descend does to the nodes.                                         *)
LEMMA Descended ==
  ASSUME NEW L, L \in Seq(NodeType), NEW r, r \in 1..Len(L), NEW child, child \in 1..Len(L),
         child # r, NEW flag, flag \in Flag, NEW M, M = WithTemp(WithTempLeft(L, r, flag), child, r)
  PROVE  /\ M \in Seq(NodeType) /\ Len(M) = Len(L)
         /\ \A n \in 1..Len(L) :
              /\ M[n].text = L[n].text /\ M[n].concat = L[n].concat
              /\ M[n].left = L[n].left /\ M[n].right = L[n].right
              /\ n # child => M[n].temp = L[n].temp
              /\ n # r => M[n].temp_left = L[n].temp_left
         /\ M[child].temp = r /\ M[r].temp_left = flag
<1>1. PICK K : K = WithTempLeft(L, r, flag)
  OBVIOUS
<1>2. /\ K \in Seq(NodeType) /\ Len(K) = Len(L)
      /\ \A n \in 1..Len(L) : n # r => K[n] = L[n]
      /\ K[r].temp_left = flag /\ K[r].temp = L[r].temp /\ K[r].text = L[r].text
      /\ K[r].concat = L[r].concat /\ K[r].left = L[r].left /\ K[r].right = L[r].right
  <2>1. L \in Seq(NodeType) /\ r \in 1..Len(L) /\ flag \in Flag
    OBVIOUS
  <2> QED BY ONLY <1>1, <2>1, SetTempLeft
<1>3. child \in 1..Len(K) /\ r \in Nat /\ M = WithTemp(K, child, r)
  BY <1>1, <1>2
<1>4. /\ M \in Seq(NodeType) /\ Len(M) = Len(K)
      /\ \A n \in 1..Len(K) : n # child => M[n] = K[n]
      /\ M[child].temp = r /\ M[child].temp_left = K[child].temp_left
      /\ M[child].text = K[child].text /\ M[child].concat = K[child].concat
      /\ M[child].left = K[child].left /\ M[child].right = K[child].right
  BY <1>2, <1>3, SetTemp
<1>5. K[child] = L[child]
  BY <1>2
<1>6. ASSUME NEW n \in 1..Len(L)
      PROVE  /\ M[n].text = L[n].text /\ M[n].concat = L[n].concat
             /\ M[n].left = L[n].left /\ M[n].right = L[n].right
             /\ n # child => M[n].temp = L[n].temp
             /\ n # r => M[n].temp_left = L[n].temp_left
  <2>1. CASE n = child
    BY <1>4, <1>5, <2>1
  <2>2. CASE n = r
    <3>1. M[n] = K[n] /\ n # child
      BY <1>2, <1>4, <2>2
    <3> QED BY <1>2, <2>2, <3>1
  <2>3. CASE n # child /\ n # r
    <3>1. M[n] = L[n]
      BY <1>2, <1>4, <2>3
    <3> QED BY <3>1
  <2> QED BY <2>1, <2>2, <2>3
<1>7. M[r].temp_left = flag
  <2>1. M[r] = K[r]
    BY <1>2, <1>4
  <2> QED BY <1>2, <2>1
<1> QED BY <1>2, <1>4, <1>6, <1>7

LEMMA JoinedTexts ==
  ASSUME NEW C, NEW a \in Seq(C), NEW c \in Seq(C)
  PROVE  /\ Len(a) \in Nat /\ Len(c) \in Nat /\ a \o c \in Seq(C)
         /\ Len(a \o c) = Len(a) + Len(c)
         /\ \A i \in 1..Len(a) : (a \o c)[i] = a[i]
         /\ \A i \in 1..Len(c) : (a \o c)[Len(a) + i] = c[i]
OBVIOUS

Joins(x, a, c) ==
  /\ Len(a) \in Nat /\ Len(c) \in Nat /\ Len(x) = Len(a) + Len(c)
  /\ \A i \in 1..Len(a) : x[i] = a[i]
  /\ \A i \in 1..Len(c) : x[Len(a) + i] = c[i]

(* The text of a concatenation.                                            *)
LEMMA TextJoined ==
  ASSUME RopeTyped, NEW T, Spells(T), NEW r \in NodeIds, nodes[r].concat,
         NEW a, a = T[nodes[r].right], NEW c, c = T[nodes[r].left]
  PROVE  /\ T[r] \in String
         /\ nodes[r].left \in 0..(r - 1) /\ nodes[r].right \in 0..(r - 1)
         /\ nodes[r].left = 0 => Len(c) = 0
         /\ nodes[r].right = 0 => Len(a) = 0
         /\ Joins(T[r], a, c)
<1>1. r \in 1..Len(nodes) /\ Len(nodes) \in Nat
  BY DEF RopeTyped, NodeIds
<1>2. nodes[r].left \in 0..(r - 1) /\ nodes[r].right \in 0..(r - 1)
  BY <1>1 DEF RopeTyped
<1>3. nodes[r].left \in 0..Len(nodes) /\ nodes[r].right \in 0..Len(nodes)
  BY <1>1, <1>2
<1>4. T[r] = a \o c /\ a \in String /\ c \in String /\ T[0] = <<>>
  BY <1>1, <1>3 DEF Spells
<1>5. a \in Seq(Character) /\ c \in Seq(Character)
  BY <1>4 DEF String
<1>6. /\ Len(a) \in Nat /\ Len(c) \in Nat /\ a \o c \in Seq(Character)
      /\ Len(a \o c) = Len(a) + Len(c)
      /\ \A i \in 1..Len(a) : (a \o c)[i] = a[i]
      /\ \A i \in 1..Len(c) : (a \o c)[Len(a) + i] = c[i]
  BY ONLY <1>5, JoinedTexts
<1>7. T[r] \in String
  BY <1>4, <1>6 DEF String
<1>8. /\ nodes[r].left = 0 => Len(c) = 0
      /\ nodes[r].right = 0 => Len(a) = 0
  BY <1>4
<1> QED BY <1>2, <1>4, <1>6, <1>7, <1>8 DEF Joins

(* What a walk that is on knows.                                           *)
LEMMA WalkKnows ==
  ASSUME RopeInv, walk.on, walk.r # 0
  PROVE  \E T, P, before :
           /\ Spells(T) /\ RopesSpelled(T) /\ WalkSound(T)
           /\ OnTheWay(nodes, T, said[walk.rope], walk.r, P, before)
           /\ walk.off = LeftToWrite(nodes, T, walk.r, walk.down, before)
           /\ P \in SUBSET NodeIds /\ before \in [P -> Nat] /\ walk.r \in P
<1>1. PICK T : Spells(T) /\ RopesSpelled(T) /\ WalkSound(T)
  BY DEF RopeInv
<1>2. PICK P, before :
        /\ OnTheWay(nodes, T, said[walk.rope], walk.r, P, before)
        /\ walk.off = LeftToWrite(nodes, T, walk.r, walk.down, before)
  BY <1>1 DEF WalkSound
<1>3. P \in SUBSET NodeIds /\ before \in [P -> Nat] /\ walk.r \in P
  BY <1>2 DEF OnTheWay, NodeIds
<1> QED BY <1>1, <1>2, <1>3

(* The loop goes down to a part of the node, which is older than all nodes *)
(* on the way.                                                             *)
LEMMA GoesDown ==
  ASSUME RopeInv, walk.on, NEW r, r = walk.r, r # 0, nodes[r].concat, NEW child \in 1..(r - 1),
         NEW flag, flag \in Flag, nodes' = WithTemp(WithTempLeft(nodes, r, flag), child, r),
         walk' = WentDown(walk, child), UNCHANGED <<ropes, said, got>>,
         NEW T, Spells(T), RopesSpelled(T), WalkSound(T), NEW t, t = said[walk.rope],
         NEW P, NEW before, OnTheWay(nodes, T, t, r, P, before),
         NEW b \in Nat, PlaceOf(nodes, T, r, before, flag, b), Fits(T, t, child, b),
         EndsAt(T, child, b, walk.off)
  PROVE  RopeInv'
<1> USE DEF EndsAt, WentDown
<1>1. /\ RopeTyped /\ WalkTyped /\ nodes \in Seq(NodeType) /\ Len(nodes) \in Nat
      /\ r \in 1..Len(nodes) /\ child \in 1..Len(nodes) /\ child # r /\ child # 0
  BY DEF RopeInv, RopeTyped, WalkSound, WalkTyped
<1>2. PICK L, M : L = nodes /\ M = nodes'
  OBVIOUS
<1>3. /\ M \in Seq(NodeType) /\ Len(M) = Len(L)
      /\ \A n \in 1..Len(L) :
           /\ M[n].text = L[n].text /\ M[n].concat = L[n].concat
           /\ M[n].left = L[n].left /\ M[n].right = L[n].right
           /\ n # child => M[n].temp = L[n].temp
           /\ n # r => M[n].temp_left = L[n].temp_left
      /\ M[child].temp = r /\ M[r].temp_left = flag
  <2>1. L \in Seq(NodeType) /\ r \in 1..Len(L) /\ child \in 1..Len(L) /\ child # r
        /\ M = WithTemp(WithTempLeft(L, r, flag), child, r)
    BY <1>1, <1>2
  <2>2. flag \in Flag OBVIOUS
  <2> QED BY ONLY <2>1, <2>2, Descended
<1>4. SameNodes
  BY <1>2, <1>3 DEF SameNodes, NodeIds
<1>5. RopeTyped' /\ Spells(T)' /\ RopesSpelled(T)' /\ NodeIds' = NodeIds
  BY <1>1, <1>4, SameTexts DEF SameNodes, NodeIds
<1>6. /\ walk'.r = child /\ walk'.rope = walk.rope /\ walk'.on = walk.on /\ walk'.down = TRUE
      /\ walk'.off = walk.off /\ walk'.buffer = walk.buffer
      /\ walk' = [on |-> walk'.on, rope |-> walk'.rope, r |-> walk'.r, down |-> walk'.down,
                  off |-> walk'.off, buffer |-> walk'.buffer]
  BY <1>1 DEF WalkTyped
<1>7. WalkTyped'
  <2>1. Len(nodes') = Len(nodes)
    BY <1>4 DEF SameNodes
  <2>2. walk'.r \in 0..Len(nodes') /\ walk'.r # 0
    BY <1>1, <1>6, <2>1
  <2> QED BY <1>1, <1>6, <2>2 DEF WalkTyped
<1>8. PICK Q, back : child \in Q /\ back[child] = b /\ OnTheWay(M, T, t, child, Q, back)
  <2>1. P \in SUBSET (1..Len(L)) /\ child \notin P
    BY <1>1, <1>2 DEF OnTheWay
  <2>2. SameOnTheWay(L, M, r, P)
    BY <1>3, <2>1 DEF SameOnTheWay
  <2>3. PlaceOf(M, T, r, before, M[r].temp_left, b)
    BY <1>1, <1>2, <1>3 DEF PlaceOf
  <2>4. OnTheWay(L, T, t, r, P, before) /\ L[r].concat /\ Len(L) \in Nat /\ r \in 1..Len(L)
    BY <1>1, <1>2
  <2>5. b \in Nat /\ child \in 1..(r - 1) /\ Fits(T, t, child, b)
    OBVIOUS
  <2>6. Len(M) = Len(L) /\ M[child].temp = r
    BY <1>3
  <2>7. WayTo(M, T, t, child, b)
    BY ONLY <2>2, <2>3, <2>4, <2>5, <2>6, WayDown
  <2> QED BY <2>7 DEF WayTo
<1>9. WalkSound(T)'
  <2>1. t = said'[walk'.rope]
    BY <1>6
  <2>2. \A i \in (walk'.off + 1)..Len(t) : walk'.buffer[i] = t[i]
    BY <1>6 DEF WalkSound
  <2>3. walk'.off = LeftToWrite(M, T, child, TRUE, back)
    BY <1>1, <1>6, <1>8 DEF LeftToWrite
  <2>4. OnTheWay(nodes', T, t, walk'.r, Q, back)
        /\ walk'.off = LeftToWrite(nodes', T, walk'.r, walk'.down, back)
    BY <1>2, <1>6, <1>8, <2>3
  <2> QED BY <1>7, <2>1, <2>2, <2>4 DEF WalkSound
<1> QED BY <1>5, <1>6, <1>9 DEF RopeInv, GotSound

(* The parts of a node have their places in the place of the node.         *)
LEMMA PartsFit ==
  ASSUME RopeTyped, NEW T, Spells(T), NEW r \in NodeIds, nodes[r].concat,
         NEW t \in String, NEW k \in Nat, Fits(T, t, r, k)
  PROVE  /\ Fits(T, t, nodes[r].right, k)
         /\ Fits(T, t, nodes[r].left, k + Len(T[nodes[r].right]))
         /\ Joins(T[r], T[nodes[r].right], T[nodes[r].left])
<1>1. PICK a, c, right, left :
        right = nodes[r].right /\ left = nodes[r].left /\ a = T[right] /\ c = T[left]
  OBVIOUS
<1>2. /\ Joins(T[r], a, c)
      /\ Len(a) \in Nat /\ Len(c) \in Nat /\ Len(T[r]) = Len(a) + Len(c)
      /\ \A i \in 1..Len(a) : T[r][i] = a[i]
      /\ \A i \in 1..Len(c) : T[r][Len(a) + i] = c[i]
  <2>1. a = T[nodes[r].right] /\ c = T[nodes[r].left]
    BY <1>1
  <2>2. RopeTyped /\ Spells(T) /\ r \in NodeIds /\ nodes[r].concat
    OBVIOUS
  <2>3. Joins(T[r], a, c)
    BY ONLY <2>1, <2>2, TextJoined
  <2> QED BY <2>3 DEF Joins
<1>3. Len(t) \in Nat BY DEF String
<1>4. k + Len(T[r]) <= Len(t) /\ \A i \in 1..Len(T[r]) : t[k + i] = T[r][i]
  BY DEF Fits
<1>5. Fits(T, t, right, k)
  <2>1. \A i \in 1..Len(a) : i \in 1..Len(T[r])
    BY <1>2
  <2>2. k + Len(a) <= Len(t)
    BY <1>2, <1>3, <1>4
  <2> QED BY <1>1, <1>2, <1>4, <2>1, <2>2 DEF Fits
<1>6. Fits(T, t, left, k + Len(a))
  <2>1. ASSUME NEW i \in 1..Len(c) PROVE t[(k + Len(a)) + i] = c[i]
    <3>1. Len(a) + i \in 1..Len(T[r]) /\ k + (Len(a) + i) = (k + Len(a)) + i
      BY <1>2
    <3>2. t[k + (Len(a) + i)] = T[r][Len(a) + i]
      BY <1>4, <3>1
    <3> QED BY <1>2, <3>1, <3>2
  <2>2. (k + Len(a)) + Len(c) <= Len(t)
    BY <1>2, <1>3, <1>4
  <2> QED BY <1>1, <2>1, <2>2 DEF Fits
<1> QED BY <1>1, <1>2, <1>5, <1>6

LEMMA DownLeft ==
  ASSUME RopeInv, walk.on, walk.r # 0, nodes[walk.r].concat, walk.down,
         nodes[walk.r].left # 0, Ropes!Descend(nodes[walk.r].left, TRUE),
         UNCHANGED <<ropes, said, got>>
  PROVE  RopeInv'
<1>1. PICK T, P, before :
        /\ Spells(T) /\ RopesSpelled(T) /\ WalkSound(T)
        /\ OnTheWay(nodes, T, said[walk.rope], walk.r, P, before)
        /\ walk.off = LeftToWrite(nodes, T, walk.r, walk.down, before)
        /\ P \in SUBSET NodeIds /\ before \in [P -> Nat] /\ walk.r \in P
  BY WalkKnows
<1>2. PICK r, child, t, b :
        /\ r = walk.r /\ child = nodes[r].left /\ t = said[walk.rope]
        /\ b = before[r] + Len(T[nodes[r].right])
  OBVIOUS
<1>3. /\ RopeTyped /\ r \in NodeIds /\ t \in String /\ before[r] \in Nat /\ nodes[r].concat
      /\ child \in 0..(r - 1) /\ r \in Nat
  BY <1>1, <1>2 DEF RopeInv, RopeTyped, WalkSound, WalkTyped, NodeIds
<1>4. Fits(T, t, r, before[r])
  BY <1>1, <1>2 DEF OnTheWay
<1>5. /\ Fits(T, t, child, b)
      /\ Joins(T[r], T[nodes[r].right], T[child])
  BY <1>1, <1>2, <1>3, <1>4, PartsFit
<1>6. walk.off = before[r] + Len(T[r])
  BY <1>1, <1>2 DEF LeftToWrite
<1>7. walk.off = b + Len(T[child]) /\ b \in Nat /\ child \in 1..(r - 1)
  <2>1. child \in 1..(r - 1)
    BY <1>2, <1>3
  <2>2. PICK x, y, z : x = before[r] /\ y = Len(T[nodes[r].right]) /\ z = Len(T[child])
    OBVIOUS
  <2>3. x \in Nat /\ y \in Nat /\ z \in Nat /\ walk.off = x + (y + z) /\ b = x + y
    BY <1>2, <1>3, <1>5, <1>6, <2>2 DEF Joins
  <2>4. b \in Nat /\ walk.off = b + z
    BY <2>3
  <2> QED BY <2>1, <2>2, <2>4, Zenon
<1>8. /\ nodes' = WithTemp(WithTempLeft(nodes, r, TRUE), child, r)
      /\ walk' = WentDown(walk, child)
  BY <1>2 DEF Ropes!Descend, WithTemp, WithTempLeft, WentDown
<1>9. TRUE \in Flag BY DEF Flag
<1>10. PlaceOf(nodes, T, r, before, TRUE, b) /\ EndsAt(T, child, b, walk.off)
  BY <1>2, <1>7 DEF PlaceOf, EndsAt
<1>11. /\ RopeInv /\ walk.on /\ r # 0 /\ nodes[r].concat /\ UNCHANGED <<ropes, said, got>>
       /\ OnTheWay(nodes, T, t, r, P, before)
  BY <1>1, <1>2
<1> QED BY ONLY <1>1, <1>2, <1>5, <1>7, <1>8, <1>9, <1>10, <1>11, GoesDown

LEMMA DownRight ==
  ASSUME RopeInv, walk.on, walk.r # 0, nodes[walk.r].concat, nodes[walk.r].right # 0,
         \/ walk.down /\ nodes[walk.r].left = 0
         \/ ~walk.down /\ nodes[walk.r].temp_left,
         Ropes!Descend(nodes[walk.r].right, FALSE), UNCHANGED <<ropes, said, got>>
  PROVE  RopeInv'
<1>1. PICK T, P, before :
        /\ Spells(T) /\ RopesSpelled(T) /\ WalkSound(T)
        /\ OnTheWay(nodes, T, said[walk.rope], walk.r, P, before)
        /\ walk.off = LeftToWrite(nodes, T, walk.r, walk.down, before)
        /\ P \in SUBSET NodeIds /\ before \in [P -> Nat] /\ walk.r \in P
  BY WalkKnows
<1>2. PICK r, child, t, b :
        r = walk.r /\ child = nodes[r].right /\ t = said[walk.rope] /\ b = before[r]
  OBVIOUS
<1>3. /\ RopeTyped /\ r \in NodeIds /\ t \in String /\ b \in Nat /\ nodes[r].concat
      /\ child \in 0..(r - 1) /\ r \in Nat
  BY <1>1, <1>2 DEF RopeInv, RopeTyped, WalkSound, WalkTyped, NodeIds
<1>4. Fits(T, t, r, b)
  BY <1>1, <1>2 DEF OnTheWay
<1>5. /\ Fits(T, t, child, b) /\ Joins(T[r], T[child], T[nodes[r].left])
  BY <1>1, <1>2, <1>3, <1>4, PartsFit
<1>6. walk.off = b + Len(T[child])
  <2>1. CASE walk.down /\ nodes[r].left = 0
    <3>1. Len(T[nodes[r].left]) = 0
      BY <1>1, <1>3, <2>1, TextJoined
    <3>2. walk.off = b + Len(T[r])
      BY <1>1, <1>2, <2>1 DEF LeftToWrite
    <3>3. PICK x, z : z = Len(T[child]) /\ x = Len(T[r]) OBVIOUS
    <3>4. z \in Nat /\ x = z + 0
      BY <1>5, <3>1, <3>3 DEF Joins
    <3>5. walk.off = b + x
      BY <3>2, <3>3, Zenon
    <3>6. walk.off = b + z
      BY <3>4, <3>5
    <3> QED BY <3>3, <3>6, Zenon
  <2>2. CASE ~walk.down /\ nodes[r].temp_left
    BY <1>1, <1>2, <2>2 DEF LeftToWrite
  <2> QED BY <1>2, <2>1, <2>2
<1>7. child \in 1..(r - 1)
  BY <1>2, <1>3
<1>8. /\ nodes' = WithTemp(WithTempLeft(nodes, r, FALSE), child, r)
      /\ walk' = WentDown(walk, child)
  BY <1>2 DEF Ropes!Descend, WithTemp, WithTempLeft, WentDown
<1>9. FALSE \in Flag BY DEF Flag
<1>10. PlaceOf(nodes, T, r, before, FALSE, b) /\ EndsAt(T, child, b, walk.off)
  BY <1>2, <1>6 DEF PlaceOf, EndsAt
<1>11. /\ RopeInv /\ walk.on /\ r # 0 /\ nodes[r].concat /\ UNCHANGED <<ropes, said, got>>
       /\ OnTheWay(nodes, T, t, r, P, before) /\ b \in Nat
  BY <1>1, <1>2, <1>3
<1> QED BY ONLY <1>1, <1>2, <1>5, <1>7, <1>8, <1>9, <1>10, <1>11, GoesDown

(* What is below the node is written, and the walk goes back up.           *)
LEMMA GoesUp ==
  ASSUME RopeInv, walk.on, NEW r, r = walk.r, r # 0, UNCHANGED <<nodes, ropes, said, got>>,
         NEW T, Spells(T), RopesSpelled(T), WalkSound(T), NEW t, t = said[walk.rope],
         NEW P, NEW before, OnTheWay(nodes, T, t, r, P, before),
         NEW buffer \in Seq(Character), Len(buffer) = Len(t),
         WrittenFrom(buffer, before[r], t), walk' = WentUp(walk, before[r], nodes[r].temp, buffer)
  PROVE  RopeInv'
<1> USE DEF WrittenFrom, WentUp
<1>1. RopeTyped /\ WalkTyped /\ Len(nodes) \in Nat
  BY DEF RopeInv, RopeTyped, WalkSound
<1>2. /\ P \in SUBSET NodeIds /\ before \in [P -> Nat] /\ r \in P
  BY DEF OnTheWay, NodeIds
<1>3. PICK u : u = nodes[r].temp OBVIOUS
<1>4. PICK Q, back : Q = P \ {r} /\ back = BackTo(Q, before)
  OBVIOUS
<1>5. /\ OnTheWay(nodes, T, t, u, Q, back) /\ before[r] = LeftToWrite(nodes, T, u, FALSE, back)
      /\ u \in 0..Len(nodes) /\ (u # 0 => nodes[u].concat)
  <2>1. PICK L : L = nodes OBVIOUS
  <2>2. r # 0 /\ OnTheWay(L, T, t, r, P, before) /\ Len(L) \in Nat /\ u = L[r].temp
    BY <1>1, <1>3, <2>1
  <2>3. PICK down : down = FALSE OBVIOUS
  <2>4. ~down BY <2>3
  <2>5. /\ OnTheWay(L, T, t, u, Q, back) /\ before[r] = LeftToWrite(L, T, u, down, back)
        /\ UpAt(L, u)
    BY ONLY <1>4, <2>2, <2>4, WayUp
  <2> QED BY <2>1, <2>3, <2>5 DEF UpAt
<1>6. /\ walk'.r = u /\ walk'.rope = walk.rope /\ walk'.on = walk.on /\ walk'.down = FALSE
      /\ walk'.off = before[r] /\ walk'.buffer = buffer
      /\ walk' = [on |-> walk'.on, rope |-> walk'.rope, r |-> walk'.r, down |-> walk'.down,
                  off |-> walk'.off, buffer |-> walk'.buffer]
  BY <1>1, <1>3 DEF WalkTyped
<1>7. RopeTyped' /\ Spells(T)' /\ RopesSpelled(T)'
  BY <1>1 DEF RopeTyped, Spells, RopesSpelled, NodeIds
<1>8. WalkTyped'
  BY <1>1, <1>2, <1>5, <1>6 DEF WalkTyped
<1>9. WalkSound(T)'
  <2>1. said'[walk'.rope] = t /\ nodes' = nodes
    BY <1>6
  <2>2. \A i \in (walk'.off + 1)..Len(said'[walk'.rope]) :
          walk'.buffer[i] = said'[walk'.rope][i]
    BY <1>6, <2>1
  <2>3. OnTheWay(nodes', T, said'[walk'.rope], walk'.r, Q, back)
        /\ walk'.off = LeftToWrite(nodes', T, walk'.r, walk'.down, back)
    BY <1>5, <1>6, <2>1
  <2> QED BY <1>8, <2>2, <2>3 DEF WalkSound
<1> QED BY <1>6, <1>7, <1>9 DEF RopeInv, GotSound

(* The text of a leaf is written into its place.                           *)
LEMMA LeafKeeps ==
  ASSUME RopeInv, walk.on, walk.r # 0, Ropes!Leaf(nodes[walk.r]), UNCHANGED <<ropes, said, got>>
  PROVE  RopeInv'
<1>1. PICK T, P, before :
        /\ Spells(T) /\ RopesSpelled(T) /\ WalkSound(T)
        /\ OnTheWay(nodes, T, said[walk.rope], walk.r, P, before)
        /\ walk.off = LeftToWrite(nodes, T, walk.r, walk.down, before)
        /\ P \in SUBSET NodeIds /\ before \in [P -> Nat] /\ walk.r \in P
  BY WalkKnows
<1>2. PICK r, t, text, k, buffer :
        /\ r = walk.r /\ t = said[walk.rope] /\ text = nodes[r].text /\ k = before[r]
        /\ buffer = Ropes!Place(walk.buffer, k, text)
  OBVIOUS
<1>3. /\ walk.down /\ ~nodes[r].concat /\ nodes' = nodes
      /\ walk' = [walk EXCEPT !.off = walk.off - Len(text), !.down = FALSE, !.r = nodes[r].temp,
                              !.buffer = Ropes!Place(walk.buffer, walk.off - Len(text), text)]
  BY <1>1, <1>2 DEF Ropes!Leaf, WalkSound, WalkTyped
<1>4. /\ T[r] = text /\ text \in Seq(Character) /\ t \in Seq(Character) /\ k \in Nat
      /\ Len(text) \in Nat /\ Len(t) \in Nat
      /\ walk.buffer \in Seq(Character) /\ Len(walk.buffer) = Len(t)
  <2>0. r \in NodeIds /\ Len(nodes) \in Nat
    BY <1>1, <1>2 DEF RopeInv, RopeTyped
  <2>1. r \in NodeIds /\ r \in 0..Len(nodes)
    BY <2>0 DEF NodeIds
  <2>2. T[r] = text /\ T[r] \in String
    BY <1>1, <1>2, <1>3, <2>1 DEF Spells
  <2>3. t \in String /\ walk.buffer \in Seq(Character) /\ Len(walk.buffer) = Len(t)
    BY <1>1, <1>2 DEF RopeInv, RopeTyped, WalkSound, WalkTyped
  <2>4. k \in Nat BY <1>1, <1>2
  <2> QED BY <2>2, <2>3, <2>4 DEF String
<1>5. walk.off = k + Len(text) /\ walk.off - Len(text) = k
  <2>1. walk.off = k + Len(text)
    BY <1>1, <1>2, <1>3, <1>4 DEF LeftToWrite
  <2> QED BY <1>4, <2>1
<1>6. Fits(T, t, r, k)
  BY <1>1, <1>2 DEF OnTheWay
<1>7. k + Len(text) <= Len(t) /\ \A i \in 1..Len(text) : t[k + i] = text[i]
  BY <1>4, <1>6 DEF Fits
<1>8. buffer = [i \in 1..Len(t) |-> IF i - k \in 1..Len(text) THEN text[i - k] ELSE walk.buffer[i]]
  <2>1. DOMAIN walk.buffer = 1..Len(t) /\ DOMAIN text = 1..Len(text)
    BY <1>4
  <2> QED BY <1>2, <2>1 DEF Ropes!Place
<1>9. buffer \in Seq(Character) /\ Len(buffer) = Len(t)
  <2>1. \A i \in 1..Len(text) : text[i] \in Character
    BY <1>4
  <2>2. \A i \in 1..Len(t) : walk.buffer[i] \in Character
    BY <1>4
  <2>3. buffer \in [1..Len(t) -> Character]
    BY <1>8, <2>1, <2>2
  <2> QED BY <1>4, <2>3
<1>10. ASSUME NEW i \in (k + 1)..Len(t) PROVE buffer[i] = t[i]
  <2>1. i \in 1..Len(t) /\ i \in Nat
    BY <1>4
  <2>2. CASE i - k \in 1..Len(text)
    <3>1. t[k + (i - k)] = text[i - k] /\ k + (i - k) = i
      BY <1>4, <1>7, <2>1, <2>2
    <3> QED BY <1>8, <2>1, <2>2, <3>1
  <2>3. CASE i - k \notin 1..Len(text)
    <3>1. i \in (walk.off + 1)..Len(t)
      BY <1>4, <1>5, <1>10, <2>1, <2>3
    <3>2. walk.buffer[i] = t[i]
      BY <1>1, <1>2, <3>1 DEF WalkSound
    <3> QED BY <1>8, <2>1, <2>3, <3>2
  <2> QED BY <2>2, <2>3
<1>11. walk' = WentUp(walk, before[r], nodes[r].temp, buffer)
  BY <1>2, <1>3, <1>5 DEF WentUp
<1>12. /\ RopeInv /\ walk.on /\ r # 0 /\ UNCHANGED <<nodes, ropes, said, got>>
       /\ OnTheWay(nodes, T, t, r, P, before) /\ WrittenFrom(buffer, before[r], t)
  BY <1>1, <1>2, <1>3, <1>10 DEF WrittenFrom
<1> QED BY ONLY <1>1, <1>2, <1>9, <1>11, <1>12, GoesUp

LEMMA AscendKeeps ==
  ASSUME RopeInv, walk.on, walk.r # 0, ~walk.down,
         ~(nodes[walk.r].temp_left /\ nodes[walk.r].right # 0),
         Ropes!Ascend, UNCHANGED <<ropes, said, got>>
  PROVE  RopeInv'
<1>1. PICK T, P, before :
        /\ Spells(T) /\ RopesSpelled(T) /\ WalkSound(T)
        /\ OnTheWay(nodes, T, said[walk.rope], walk.r, P, before)
        /\ walk.off = LeftToWrite(nodes, T, walk.r, walk.down, before)
        /\ P \in SUBSET NodeIds /\ before \in [P -> Nat] /\ walk.r \in P
  BY WalkKnows
<1>2. PICK r, t, buffer : r = walk.r /\ t = said[walk.rope] /\ buffer = walk.buffer
  OBVIOUS
<1>3. WalkTyped /\ RopeTyped /\ r \in NodeIds /\ nodes[r].concat /\ before[r] \in Nat
      /\ buffer \in Seq(Character) /\ Len(buffer) = Len(t)
  BY <1>1, <1>2 DEF RopeInv, WalkSound, WalkTyped
<1>4. walk.off = before[r]
  <2>1. CASE nodes[r].temp_left
    <3>1. Len(T[nodes[r].right]) = 0
      BY <1>1, <1>2, <1>3, <2>1, TextJoined
    <3> QED BY <1>1, <1>2, <1>3, <2>1, <3>1 DEF LeftToWrite
  <2>2. CASE ~nodes[r].temp_left
    BY <1>1, <1>2, <2>2 DEF LeftToWrite
  <2> QED BY <2>1, <2>2
<1>5. \A i \in (before[r] + 1)..Len(t) : buffer[i] = t[i]
  BY <1>1, <1>2, <1>4 DEF WalkSound
<1>6. walk' = WentUp(walk, before[r], nodes[r].temp, buffer)
  BY <1>2, <1>3, <1>4 DEF Ropes!Ascend, WalkTyped, WentUp
<1>7. /\ RopeInv /\ walk.on /\ r # 0 /\ UNCHANGED <<nodes, ropes, said, got>>
      /\ OnTheWay(nodes, T, t, r, P, before) /\ WrittenFrom(buffer, before[r], t)
  BY <1>1, <1>2, <1>5 DEF Ropes!Ascend, WrittenFrom
<1> QED BY ONLY <1>1, <1>2, <1>3, <1>6, <1>7, GoesUp

LEMMA TurnKeeps ==
  ASSUME RopeInv, Ropes!Turn
  PROVE  RopeInv'
<1>1. walk.on /\ walk.r # 0 /\ UNCHANGED <<ropes, said, got>>
  BY DEF Ropes!Turn, Ropes!nullptr
<1>2. CASE Ropes!Down(nodes[walk.r])
  BY <1>1, <1>2, DownLeft, DownRight DEF Ropes!Down, Ropes!nullptr
<1>3. CASE Ropes!Leaf(nodes[walk.r])
  BY <1>1, <1>3, LeafKeeps
<1>4. CASE Ropes!Up(nodes[walk.r])
  <2>1. nodes[walk.r].concat
    BY <1>1, <1>4 DEF Ropes!Up, RopeInv, WalkSound, WalkTyped
  <2> QED BY <1>1, <1>4, <2>1, DownRight, AscendKeeps DEF Ropes!Up, Ropes!nullptr
<1> QED BY <1>2, <1>3, <1>4 DEF Ropes!Turn

LEMMA CStrReturns ==
  ASSUME RopeInv, Ropes!Return
  PROVE  RopeInv'
<1>1. PICK T : Spells(T) /\ RopesSpelled(T) /\ WalkSound(T) BY DEF RopeInv
<1>2. /\ walk.on /\ walk.r = 0 /\ UNCHANGED <<nodes, ropes, said>>
      /\ got' = [on |-> TRUE, rope |-> walk.rope, from |-> 0, text |-> walk.buffer]
      /\ walk' = Ropes!Idle
  BY DEF Ropes!Return, Ropes!nullptr
<1>3. PICK t : t = said[walk.rope] OBVIOUS
<1>4. /\ walk.off = 0 /\ walk.rope \in Variable /\ t \in Seq(Character)
      /\ walk.buffer \in Seq(Character) /\ Len(walk.buffer) = Len(t)
      /\ \A i \in (walk.off + 1)..Len(t) : walk.buffer[i] = t[i]
  BY <1>1, <1>2, <1>3 DEF WalkSound, WalkTyped, LeftToWrite, RopeInv, RopeTyped, String
<1>5. walk.buffer = t
  BY <1>4
<1>6. GotSound' /\ got'.on = TRUE
  BY <1>2, <1>3, <1>4, <1>5 DEF GotSound
<1>7. walk'.on = FALSE /\ walk'.off = 0
  BY <1>2 DEF Ropes!Idle
<1>8. RopeTyped' /\ Spells(T)' /\ RopesSpelled(T)'
  BY <1>1, <1>2 DEF RopeInv, RopeTyped, Spells, RopesSpelled, NodeIds
<1> QED BY <1>6, <1>7, <1>8 DEF RopeInv, WalkSound

LEMMA RopeStep ==
  ASSUME RopeInv, Ropes!Next
  PROVE  RopeInv'
<1>1. \A text \in RopeText : text \in String /\ text \o <<Nul>> \in String
  BY TextIsString
<1>2. ASSUME NEW v \in Variable, NEW text \in RopeText, Ropes!rope(v, text) PROVE RopeInv'
  BY <1>1, <1>2, RopeKeeps
<1>3. ASSUME NEW v \in Variable, NEW text \in RopeText, Ropes!append(v, text) PROVE RopeInv'
  BY <1>1, <1>3, AppendKeeps
<1>4. ASSUME NEW v \in Variable, NEW text \in RopeText, Ropes!AppendArray(v, text) PROVE RopeInv'
  BY <1>1, <1>4, AppendKeeps DEF Ropes!AppendArray
<1>5. ASSUME NEW v \in Variable, NEW w \in Variable, Ropes!AppendRope(v, w) PROVE RopeInv'
  BY <1>5, AppendRopeKeeps
<1>6. ASSUME NEW v \in Variable, NEW w \in Variable, Ropes!Copy(v, w) PROVE RopeInv'
  BY <1>6, CopyKeeps
<1>7. ASSUME NEW v \in Variable, NEW index \in 0..(ropes[v].size - 1), Ropes!At(v, index)
      PROVE RopeInv'
  BY <1>7, AtKeeps
<1>8. ASSUME NEW v \in Variable, Ropes!CStr(v) PROVE RopeInv'
  BY <1>8, CStrKeeps
<1> QED BY <1>2, <1>3, <1>4, <1>5, <1>6, <1>7, <1>8, TurnKeeps, CStrReturns DEF Ropes!Next

LEMMA RopeStutters ==
  ASSUME RopeInv, UNCHANGED ropeVars
  PROVE  RopeInv'
<1>1. PICK T : Spells(T) /\ RopesSpelled(T) /\ WalkSound(T) BY DEF RopeInv
<1>2. UNCHANGED <<nodes, ropes, said, walk, got>>
  BY DEF ropeVars
<1>3. RopeTyped' /\ Spells(T)' /\ RopesSpelled(T)' /\ GotSound' /\ WalkSound(T)'
  BY <1>1, <1>2 DEF RopeInv, RopeTyped, Spells, RopesSpelled, NodeIds, GotSound, WalkSound, WalkTyped
<1> QED BY <1>2, <1>3 DEF RopeInv

LEMMA OneElement ==
  ASSUME NEW C, NEW s \in Seq(C), NEW p \in 1..Len(s)
  PROVE  SubSeq(s, p, p) = <<s[p]>>
<1>1. SubSeq(s, p, p) \in Seq(C) OBVIOUS
<1>2. Len(SubSeq(s, p, p)) = 1 OBVIOUS
<1>3. SubSeq(s, p, p)[1] = s[p] OBVIOUS
<1>4. <<s[p]>> \in Seq(C) /\ Len(<<s[p]>>) = 1 /\ <<s[p]>>[1] = s[p]
  OBVIOUS
<1>5. PICK one, other : one = SubSeq(s, p, p) /\ other = <<s[p]>>
  OBVIOUS
<1>6. one \in Seq(C) /\ Len(one) = 1 /\ one[1] = s[p]
  BY <1>1, <1>2, <1>3, <1>5
<1>7. other \in Seq(C) /\ Len(other) = 1 /\ other[1] = s[p]
  BY <1>4, <1>5
<1>8. one = other
  BY <1>6, <1>7, SeqEqual
<1> QED BY <1>5, <1>8

LEMMA OneCharacter ==
  ASSUME NEW C, NEW s \in Seq(C), NEW n \in Nat, n < Len(s)
  PROVE  SubSeq(s, n + 1, n + 1) = <<s[n + 1]>>
<1>1. n + 1 \in 1..Len(s)
  OBVIOUS
<1> QED BY <1>1, OneElement

LEMMA RopeWhole ==
  ASSUME RopeInv
  PROVE  Ropes!TextIsWhole
<1>1. PICK T : Spells(T) /\ RopesSpelled(T) /\ WalkSound(T) BY DEF RopeInv
<1>2. \A v \in Variable : ropes[v].size = Len(said[v]) /\ said[v] \in Seq(Character)
  BY <1>1 DEF RopesSpelled, RopeInv, RopeTyped, String
<1>3. walk.off \in Nat /\ (walk.on /\ walk.r = 0 => walk.off = 0)
  BY <1>1 DEF RopeInv, WalkSound, WalkTyped, LeftToWrite
<1>4. ASSUME got.on
      PROVE  /\ got.text = SubSeq(said[got.rope], got.from + 1, got.from + Len(got.text))
             /\ got.from + Len(got.text) <= Len(said[got.rope])
             /\ got.from = 0 => Len(got.text) \in {1, Len(said[got.rope])}
  <2>1. PICK t, k : t = said[got.rope] /\ k = got.from OBVIOUS
  <2>2. t \in Seq(Character) /\ k \in Nat /\ Len(t) \in Nat
    BY <1>2, <1>4, <2>1 DEF RopeInv, GotSound
  <2>3. CASE k = 0 /\ got.text = t
    <3>1. t = SubSeq(t, 1, Len(t))
      BY <2>2
    <3> QED BY <2>1, <2>2, <2>3, <3>1
  <2>4. CASE k < Len(t) /\ got.text = <<t[k + 1]>>
    <3>1. <<t[k + 1]>> = SubSeq(t, k + 1, k + 1)
      BY <2>2, <2>4, OneCharacter
    <3>2. Len(got.text) = 1
      BY <2>4
    <3>3. k + 1 <= Len(t) /\ got.from + Len(got.text) = k + 1 /\ got.from + 1 = k + 1
      BY <2>1, <2>2, <2>4, <3>2
    <3> QED BY <2>1, <2>4, <3>1, <3>2, <3>3
  <2> QED BY <1>4, <2>1, <2>3, <2>4 DEF RopeInv, GotSound
<1> QED BY <1>2, <1>3, <1>4 DEF Ropes!TextIsWhole, Ropes!nullptr

(* Whatever is appended, copied and shared among any ropes, of any texts,  *)
(* at and c_str give the text that the rope was built from (rope.hpp:41-   *)
(* 135, 195-214).                                                          *)
THEOREM TextsWhole == PartsSpec => []TextsAreWhole
<1> DEFINE Inv == part = "Rope" => RopeInv
<1>1. PartsInit => Inv
  BY RopeInit DEF PartsInit
<1>2. Inv /\ [PartsNext]_partsVars => Inv'
  <2> SUFFICES ASSUME Inv, [PartsNext]_partsVars, part' = "Rope" PROVE RopeInv'
    OBVIOUS
  <2>1. part = "Rope" /\ (Ropes!Next \/ UNCHANGED ropeVars)
    BY DEF PartsNext, partsVars, ropeVars
  <2> QED
    BY <2>1, RopeStep, RopeStutters
<1>3. Inv => TextsAreWhole
  BY RopeWhole DEF TextsAreWhole
<1> QED
  BY <1>1, <1>2, <1>3, PTL DEF PartsSpec

-----------------------------------------------------------------------------
(* Keys and rows of tables.                                                *)

(* A number is what its quotient and its remainder say.                    *)
LEMMA DivMod ==
  ASSUME NEW n \in Nat, NEW d \in Nat, d > 0
  PROVE  n = d * (n \div d) + (n % d)
  OBVIOUS

(* A name is what its two bytes say.                                       *)
LEMMA NamesByBytes ==
  ASSUME NEW m \in Tables!Name, NEW n \in Tables!Name,
         m \div NameByte = n \div NameByte, m % NameByte = n % NameByte
  PROVE  m = n
<1>1. NameByte \in Nat /\ NameByte > 0 /\ m \in Nat /\ n \in Nat
  BY NumberAssumption DEF Tables!Name
<1>2. /\ m = NameByte * (m \div NameByte) + (m % NameByte)
      /\ n = NameByte * (n \div NameByte) + (n % NameByte)
  BY <1>1
<1> QED
  BY <1>1, <1>2

(* The elements of two sequences, one after the other.                     *)
LEMMA Joined ==
  ASSUME NEW s \in Seq(Int), NEW t \in Seq(Int), NEW m \in Nat, NEW n \in Nat,
         Len(s) = m, Len(t) = n
  PROVE  /\ s \o t \in Seq(Int) /\ Len(s \o t) = m + n
         /\ \A i \in 1..(m + n) : (s \o t)[i] = IF i <= m THEN s[i] ELSE t[i - m]
<1>1. /\ s \o t \in Seq(Int) /\ Len(s \o t) = Len(s) + Len(t)
      /\ \A i \in 1..(Len(s) + Len(t)) : (s \o t)[i] = IF i <= Len(s) THEN s[i] ELSE t[i - Len(s)]
  BY ConcatProperties, Zenon
<1> QED
  BY <1>1, Zenon

(* The prefix of a table has five bytes: the one before, and two of each   *)
(* name; that of a map is the same, as turning the bytes of a number       *)
(* around twice leaves them as they are.                                   *)
LEMMA PrefixBytes ==
  ASSUME NEW t \in Tables!TableAndIndex
  PROVE  /\ Tables!make_prefix(t) \in Seq(Int) /\ Len(Tables!make_prefix(t)) = 5
         /\ Tables!make_prefix(t)[2] = t.table \div NameByte
         /\ Tables!make_prefix(t)[3] = t.table % NameByte
         /\ Tables!make_prefix(t)[4] = t.index \div NameByte
         /\ Tables!make_prefix(t)[5] = t.index % NameByte
         /\ Tables!const_pack(t) = Tables!make_prefix(t)
<1> DEFINE a == t.table \div NameByte b == t.table % NameByte
           c == t.index \div NameByte d == t.index % NameByte
<1>1. a \in Int /\ b \in Int /\ c \in Int /\ d \in Int
  BY NumberAssumption DEF Tables!TableAndIndex, Tables!Name
<1>2. Tables!BigEndian(t.table) = <<a, b>> /\ Tables!BigEndian(t.index) = <<c, d>>
  BY DEF Tables!BigEndian
<1> HIDE DEF a, b, c, d
<1>3. Tables!Native(t.table) = <<b, a>> /\ Tables!Native(t.index) = <<d, c>>
  BY <1>1, <1>2 DEF Tables!Native, Tables!Reverse
<1>4. Tables!Reverse(<<b, a>>) = <<a, b>> /\ Tables!Reverse(<<d, c>>) = <<c, d>>
  BY <1>1 DEF Tables!Reverse
<1>5. <<1>> \in Seq(Int) /\ <<a, b>> \in Seq(Int) /\ <<c, d>> \in Seq(Int)
      /\ Len(<<1>>) = 1 /\ Len(<<a, b>>) = 2 /\ Len(<<c, d>>) = 2
      /\ <<a, b>>[1] = a /\ <<a, b>>[2] = b /\ <<c, d>>[1] = c /\ <<c, d>>[2] = d
  BY <1>1
<1> DEFINE first == <<1>> \o <<a, b>> p == first \o <<c, d>>
<1>6. first \in Seq(Int) /\ Len(first) = 3
      /\ \A i \in 1..3 : first[i] = IF i <= 1 THEN <<1>>[i] ELSE <<a, b>>[i - 1]
  BY <1>5, ConcatProperties
<1>7. first[2] = a /\ first[3] = b
  BY <1>5, <1>6
<1> HIDE DEF first
<1>8. p \in Seq(Int) /\ Len(p) = 5
      /\ \A i \in 1..5 : p[i] = IF i <= 3 THEN first[i] ELSE <<c, d>>[i - 3]
  <2> DEFINE u == <<c, d>>
  <2>1. u \in Seq(Int) /\ Len(u) = 2 /\ first \in Seq(Int) /\ Len(first) = 3
    BY <1>5, <1>6
  <2> HIDE DEF u
  <2>2. /\ first \o u \in Seq(Int) /\ Len(first \o u) = 3 + 2
        /\ \A i \in 1..(3 + 2) : (first \o u)[i] = IF i <= 3 THEN first[i] ELSE u[i - 3]
    <3>1. 3 \in Nat /\ 2 \in Nat
      OBVIOUS
    <3> QED
      BY <2>1, <3>1, Joined, Zenon
  <2>3. 3 + 2 = 5
    OBVIOUS
  <2> QED
    BY <2>2, <2>3 DEF u
<1>9. p[2] = a /\ p[3] = b /\ p[4] = c /\ p[5] = d
  BY <1>5, <1>7, <1>8
<1>10. Tables!make_prefix(t) = p /\ Tables!const_pack(t) = p
  BY <1>2, <1>3, <1>4 DEF Tables!make_prefix, Tables!const_pack, first
<1> HIDE DEF p
<1> QED
  BY <1>8, <1>9, <1>10 DEF a, b, c, d

(* Two characters for each byte are read as that byte.                     *)
LEMMA HexIsRead ==
  ASSUME NEW key \in Seq(0..255)
  PROVE  Tables!from_hex(Tables!to_hex(key)) = key
<1> DEFINE text == Tables!to_hex(key)
<1>1. Len(key) \in Nat /\ \A n \in 1..Len(key) : key[n] \in 0..255
  BY LenProperties, ElementOfSeq
<1>2. text = [n \in 1..(2 * Len(key)) |->
                Tables!Character(IF n % 2 = 1 THEN key[(n + 1) \div 2] \div 16
                                 ELSE key[(n + 1) \div 2] % 16)]
  BY DEF Tables!to_hex
<1>3. ASSUME NEW x \in 0..15 PROVE Tables!Nibble(Tables!Character(x)) = x
                                   /\ Tables!Character(x) \in Int
  BY DEF Tables!Nibble, Tables!Character
<1>4. text \in Seq(Int) /\ Len(text) = 2 * Len(key)
  <2>1. \A n \in 1..(2 * Len(key)) : (n + 1) \div 2 \in 1..Len(key)
    BY <1>1
  <2>2. \A b \in 0..255 : b \div 16 \in 0..15 /\ b % 16 \in 0..15
    OBVIOUS
  <2>3. \A n \in 1..(2 * Len(key)) : text[n] \in Int
    BY <1>1, <1>2, <1>3, <2>1, <2>2
  <2> HIDE DEF text
  <2>4. text = [n \in 1..(2 * Len(key)) |-> text[n]]
    BY <1>2
  <2> QED
    BY <1>1, <2>3, <2>4
<1>5. ASSUME NEW n \in 1..Len(key)
      PROVE  16 * Tables!Nibble(text[2 * n - 1]) + Tables!Nibble(text[2 * n]) = key[n]
  <2>1. /\ 2 * n - 1 \in 1..(2 * Len(key)) /\ 2 * n \in 1..(2 * Len(key))
        /\ (2 * n - 1) % 2 = 1 /\ (2 * n) % 2 = 0
        /\ (2 * n - 1 + 1) \div 2 = n /\ (2 * n + 1) \div 2 = n
    BY <1>1
  <2>2. text[2 * n - 1] = Tables!Character(key[n] \div 16)
        /\ text[2 * n] = Tables!Character(key[n] % 16)
    BY <1>2, <2>1
  <2>3. key[n] \in 0..255
    BY <1>1
  <2>4. key[n] \div 16 \in 0..15 /\ key[n] % 16 \in 0..15
        /\ 16 * (key[n] \div 16) + (key[n] % 16) = key[n]
    <3>1. \A b \in 0..255 : /\ b \div 16 \in 0..15 /\ b % 16 \in 0..15
                            /\ 16 * (b \div 16) + (b % 16) = b
      OBVIOUS
    <3> QED
      BY <2>3, <3>1
  <2> HIDE DEF text
  <2> QED
    BY <1>3, <2>2, <2>4
<1> HIDE DEF text
<1>6. Len(text) \div 2 = Len(key)
  BY <1>1, <1>4
<1>7. Tables!from_hex(text) = [n \in 1..Len(key) |-> key[n]]
  BY <1>5, <1>6 DEF Tables!from_hex
<1> QED
  BY <1>1, <1>7 DEF text

(* A key of one index starts with the prefix of no other.                  *)
LEMMA KeysApart ==
  ASSUME NEW t \in Tables!TableAndIndex, NEW u \in Tables!TableAndIndex, NEW key \in Seq(Int),
         Tables!IsPrefix(Tables!make_prefix(u), Tables!full_key(Tables!make_prefix(t), key))
  PROVE  t = u
<1> DEFINE p == Tables!make_prefix(t) q == Tables!make_prefix(u) s == p \o key
<1>1. /\ p \in Seq(Int) /\ Len(p) = 5 /\ p[2] = t.table \div NameByte /\ p[3] = t.table % NameByte
      /\ p[4] = t.index \div NameByte /\ p[5] = t.index % NameByte
      /\ q \in Seq(Int) /\ Len(q) = 5 /\ q[2] = u.table \div NameByte /\ q[3] = u.table % NameByte
      /\ q[4] = u.index \div NameByte /\ q[5] = u.index % NameByte
  BY PrefixBytes
<1> HIDE DEF p, q
<1>2. s \in Seq(Int) /\ Len(s) = 5 + Len(key) /\ \A n \in 1..5 : s[n] = p[n]
  <2>1. Len(key) \in Nat
    BY LenProperties
  <2>2. /\ s \in Seq(Int) /\ Len(s) = 5 + Len(key)
        /\ \A i \in 1..(5 + Len(key)) : s[i] = IF i <= 5 THEN p[i] ELSE key[i - 5]
    <3>1. 5 \in Nat /\ key \in Seq(Int) /\ Len(key) = Len(key)
      OBVIOUS
    <3>2. p \in Seq(Int) /\ Len(p) = 5
      BY <1>1
    <3> QED
      BY <2>1, <3>1, <3>2, Joined, Zenon
  <2> QED
    BY <2>1, <2>2
<1>3. SubSeq(q, 1, 5) = SubSeq(s, 1, 5)
  BY <1>1 DEF p, q, Tables!IsPrefix, Tables!full_key
<1> HIDE DEF s
<1>4. \A n \in 1..5 : SubSeq(q, 1, 5)[n] = q[n] /\ SubSeq(s, 1, 5)[n] = s[n]
  BY <1>1, <1>2
<1>5. \A n \in 1..5 : p[n] = q[n]
  BY <1>2, <1>3, <1>4
<1>6. p[2] = q[2] /\ p[3] = q[3] /\ p[4] = q[4] /\ p[5] = q[5]
  BY <1>5
<1>7. t.table = u.table /\ t.index = u.index
  BY <1>1, <1>6, NamesByBytes DEF Tables!TableAndIndex
<1> QED
  BY <1>7 DEF Tables!TableAndIndex

(* Sequences of bytes are sequences of numbers.                            *)
LEMMA BytesAreInts ==
  ASSUME NEW s \in Seq(0..255)
  PROVE  s \in Seq(Int)
<1> DEFINE Byte == 0..255
<1>1. Byte \subseteq Int
  OBVIOUS
<1> HIDE DEF Byte
<1>2. Len(s) \in Nat /\ s \in [1..Len(s) -> Byte]
  BY LenProperties DEF Byte
<1>3. s \in [1..Len(s) -> Int]
  BY <1>1, <1>2
<1> QED
  BY <1>2, <1>3

(* A sequence has the elements of its prefixes.                            *)
LEMMA PrefixAgrees ==
  ASSUME NEW S, NEW s \in Seq(S), NEW t \in Seq(S), Tables!IsPrefix(s, t), NEW n \in DOMAIN s
  PROVE  n \in DOMAIN t /\ t[n] = s[n]
<1>1. Len(s) \in Nat /\ Len(t) \in Nat /\ DOMAIN s = 1..Len(s) /\ DOMAIN t = 1..Len(t)
  BY LenProperties
<1>2. Len(s) <= Len(t) /\ SubSeq(s, 1, Len(s)) = SubSeq(t, 1, Len(s))
  BY DEF Tables!IsPrefix
<1>3. SubSeq(s, 1, Len(s))[n] = s[n] /\ SubSeq(t, 1, Len(s))[n] = t[n]
  BY <1>1, <1>2
<1> QED
  BY <1>1, <1>2, <1>3

(* A row is read as it was written by a type with the same alternatives    *)
(* first.                                                                  *)
LEMMA RowsRead ==
  ASSUME NEW type \in RowType, NEW as \in RowType, NEW v,
         v \in [alternative : DOMAIN type, bytes : RowBytes]
  PROVE  /\ Len(Tables!serialize(v)) = Tables!get_size(v)
         /\ Tables!IsPrefix(type, as) =>
              Tables!deserialize(as, Tables!serialize(v)) =
                <<[type |-> type[v.alternative], bytes |-> v.bytes]>>
<1> DEFINE stored == Tables!serialize(v)
<1>0. type \in Seq(STRING) /\ as \in Seq(STRING) /\ v.bytes \in Seq(0..255)
      /\ v.alternative \in DOMAIN type
  BY TablesAssumption
<1>1. v.bytes \in Seq(Int) /\ v.alternative \in Int
  BY <1>0, BytesAreInts, LenProperties
<1>2. <<v.alternative - 1>> \in Seq(Int) /\ Len(<<v.alternative - 1>>) = 1
  BY <1>1
<1>3. Len(v.bytes) \in Nat
  BY <1>1
<1>4. /\ stored \in Seq(Int) /\ Len(stored) = 1 + Len(v.bytes)
      /\ \A i \in 1..(1 + Len(v.bytes)) :
           stored[i] = IF i <= 1 THEN <<v.alternative - 1>>[i] ELSE v.bytes[i - 1]
  <2> DEFINE first == <<v.alternative - 1>>
  <2>1. stored = first \o v.bytes /\ first \in Seq(Int) /\ Len(first) = 1 /\ v.bytes \in Seq(Int)
    BY <1>1, <1>2 DEF Tables!serialize
  <2>2. 1 \in Nat
    OBVIOUS
  <2> HIDE DEF first, stored
  <2>3. /\ first \o v.bytes \in Seq(Int) /\ Len(first \o v.bytes) = 1 + Len(v.bytes)
        /\ \A i \in 1..(1 + Len(v.bytes)) :
             (first \o v.bytes)[i] = IF i <= 1 THEN first[i] ELSE v.bytes[i - 1]
    BY <1>3, <2>1, <2>2, Joined, ZenonT(40)
  <2> QED
    BY <2>1, <2>3, Zenon DEF first
<1>5. stored[1] + 1 = v.alternative
  BY <1>1, <1>3, <1>4
<1>6. Tail(stored) = v.bytes
  <2>1. Tail(stored) \in Seq(Int) /\ Len(Tail(stored)) = Len(v.bytes)
    BY <1>3, <1>4
  <2>2. \A i \in 1..Len(v.bytes) : Tail(stored)[i] = v.bytes[i]
    BY <1>3, <1>4
  <2> QED
    BY <1>1, <2>1, <2>2, SeqEqual
<1>7. Len(stored) = Tables!get_size(v)
  BY <1>4 DEF Tables!get_size, Tables!pack_size
<1>8. ASSUME Tables!IsPrefix(type, as)
      PROVE  /\ v.alternative \in DOMAIN as /\ as[v.alternative] = type[v.alternative]
  <2> DEFINE Type == STRING
  <2>1. type \in Seq(Type) /\ as \in Seq(Type) /\ v.alternative \in DOMAIN type
    BY <1>0
  <2> HIDE DEF Type
  <2>2. ASSUME NEW n \in DOMAIN type PROVE n \in DOMAIN as /\ as[n] = type[n]
    BY <1>8, <2>1, PrefixAgrees
  <2> QED
    BY <2>1, <2>2
<1> HIDE DEF stored
<1>9. Tables!IsPrefix(type, as) =>
        Tables!deserialize(as, stored) = <<[type |-> type[v.alternative], bytes |-> v.bytes]>>
  BY <1>5, <1>6, <1>8 DEF Tables!deserialize
<1> QED
  BY <1>7, <1>9 DEF stored

(* The index number takes the place of the last digit of the table's name. *)
LEMMA IndexTablesApart ==
  ASSUME NEW t \in Tables!IndexTable, NEW u \in Tables!IndexTable,
         Tables!index_table_name(t) = Tables!index_table_name(u)
  PROVE  t = u
<1>1. Indices \in Nat /\ Indices > 0
  BY NumberAssumption
<1>2. ASSUME NEW x \in Tables!IndexTable
      PROVE  /\ x.table \in Nat /\ x.number \in Nat /\ x.number < Indices
             /\ Tables!index_table_name(x) = x.table + x.number
             /\ x.table = Indices * (x.table \div Indices)
  <2>1. x.table \in Nat /\ x.table % Indices = 0 /\ x.number \in 0..(Indices - 1)
    BY NumberAssumption DEF Tables!IndexTable, Tables!Name, Tables!validate_table_name
  <2>2. x.table = Indices * (x.table \div Indices) + (x.table % Indices)
    BY <1>1, <2>1, DivMod
  <2>3. x.number % Indices = x.number
    BY <1>1, <2>1
  <2>4. x.table \div Indices \in Int
    BY <1>1, <2>1
  <2>5. Indices * (x.table \div Indices) = (x.table \div Indices) * Indices
    BY <1>1, <2>4
  <2> QED
    <3> DEFINE a == x.table n == x.number q == x.table \div Indices
    <3>1. a \in Nat /\ n \in Nat /\ n < Indices /\ n % Indices = n /\ q \in Int
      BY <1>1, <2>1, <2>3, <2>4
    <3>2. Tables!index_table_name(x) = q * Indices + (n % Indices)
      BY DEF Tables!index_table_name
    <3>3. a = Indices * q + 0 /\ Indices * q = q * Indices
      BY <2>1, <2>2, <2>5
    <3> HIDE DEF a, n, q
    <3>4. Tables!index_table_name(x) = a + n /\ a = Indices * q
      BY <1>1, <3>1, <3>2, <3>3
    <3> QED
      BY <3>1, <3>4 DEF a, n, q
<1> DEFINE p == t.table \div Indices q == u.table \div Indices
<1>3. p \in Int /\ q \in Int
  BY <1>1, <1>2
<1>4. Indices * p + t.number = Indices * q + u.number
  BY <1>2
<1>5. t.number \in Nat /\ u.number \in Nat /\ t.number < Indices /\ u.number < Indices
  BY <1>2
<1>6. p = q
  <2> HIDE DEF p, q
  <2>1. ASSUME NEW a \in Int, NEW b \in Int, a < b PROVE Indices * a + Indices <= Indices * b
    <3>1. Indices * (b - a - 1) >= 0
      BY <1>1, <2>1
    <3> QED
      BY <1>1, <3>1
  <2> QED
    BY <1>1, <1>3, <1>4, <1>5, <2>1
<1>7. t.table = u.table /\ t.number = u.number
  BY <1>2, <1>3, <1>4, <1>5, <1>6
<1> QED
  BY <1>7 DEF Tables!IndexTable

Kind == {"uint64_t", "double", "fixed_bytes"}

(* The place of a key among those of its type.                             *)
Place(k, x) == IF k = "fixed_bytes" THEN 2 * x[1] + x[2] ELSE x[1] + Tables!Infinity

(* The order of keys is that of their places.                              *)
LEMMA PlacesAreOrdered ==
  ASSUME NEW k \in Kind, NEW x \in Tables!Keys[k], NEW y \in Tables!Keys[k]
  PROVE  /\ Place(k, x) \in Nat
         /\ Tables!Below(x, y) <=> Place(k, x) < Place(k, y)
         /\ Place(k, x) = Place(k, y) => x = y
         /\ Place(k, Tables!true_lowest[k]) <= Place(k, x)
         /\ Tables!true_lowest[k] \in Tables!Keys[k]
<1>1. CASE k = "uint64_t"
  <2>1. Tables!Keys[k] = {<<n>> : n \in 0..3} /\ Tables!true_lowest[k] = <<0>>
    BY <1>1 DEF Tables!Keys, Tables!true_lowest
  <2>2. PICK m \in 0..3, n \in 0..3 : x = <<m>> /\ y = <<n>>
    BY <2>1
  <2>3. Tables!Below(x, y) <=> m < n
    <3>1. DOMAIN x = {1} /\ x[1] = m /\ y[1] = n /\ 1..(1 - 1) = {}
      BY <2>2
    <3> QED
      BY <3>1 DEF Tables!Below
  <2> QED
    BY <1>1, <2>1, <2>2, <2>3 DEF Place, Tables!Infinity
<1>2. CASE k = "double"
  <2>1. Tables!Keys[k] = {<<n>> : n \in -3..3} /\ Tables!true_lowest[k] = <<-3>>
    BY <1>2 DEF Tables!Keys, Tables!true_lowest, Tables!Infinity
  <2>2. PICK m \in -3..3, n \in -3..3 : x = <<m>> /\ y = <<n>>
    BY <2>1
  <2>3. Tables!Below(x, y) <=> m < n
    <3>1. DOMAIN x = {1} /\ x[1] = m /\ y[1] = n /\ 1..(1 - 1) = {}
      BY <2>2
    <3> QED
      BY <3>1 DEF Tables!Below
  <2> QED
    BY <1>2, <2>1, <2>2, <2>3 DEF Place, Tables!Infinity
<1>3. CASE k = "fixed_bytes"
  <2>1. Tables!Keys[k] = (0..1) \X (0..1) /\ Tables!true_lowest[k] = <<0, 0>>
    BY <1>3 DEF Tables!Keys, Tables!true_lowest
  <2>2. PICK a \in 0..1, b \in 0..1, c \in 0..1, d \in 0..1 : x = <<a, b>> /\ y = <<c, d>>
    BY <2>1
  <2>3. Tables!Below(x, y) <=> a < c \/ (a = c /\ b < d)
    <3>1. DOMAIN x = {1, 2} /\ x[1] = a /\ x[2] = b /\ y[1] = c /\ y[2] = d
      BY <2>2
    <3>2. 1..(1 - 1) = {} /\ 1..(2 - 1) = {1}
      OBVIOUS
    <3> QED
      BY <3>1, <3>2 DEF Tables!Below
  <2>4. Place(k, x) = 2 * a + b /\ Place(k, y) = 2 * c + d
    BY <1>3, <2>2 DEF Place
  <2>5. Place(k, Tables!true_lowest[k]) = 0
    BY <1>3, <2>1 DEF Place
  <2>6. (a = c /\ b = d) \/ 2 * a + b # 2 * c + d
    BY <2>2
  <2>7. (a < c \/ (a = c /\ b < d)) <=> 2 * a + b < 2 * c + d
    BY <2>2
  <2> QED
    BY <2>1, <2>2, <2>3, <2>4, <2>5, <2>6, <2>7
<1> QED
  BY <1>1, <1>2, <1>3 DEF Kind

(* Of entries that are there one has the lowest key.                       *)
LEMMA LeastKey ==
  ASSUME NEW k \in Kind, NEW S \in SUBSET Tables!Keys[k], S # {}
  PROVE  \E e \in S : \A d \in S : ~Tables!Below(d, e)
<1> DEFINE T == {Place(k, e) : e \in S}
<1>1. T \subseteq Nat /\ T # {}
  BY PlacesAreOrdered
<1>2. PICK n \in T : \A o \in T : ~(<<o, n>> \in OpToRel(<, Nat))
  BY <1>1, NatLessThanWellFounded, WFMin
<1>3. \A o \in T : ~(o < n)
  BY <1>1, <1>2 DEF OpToRel
<1>4. PICK e \in S : n = Place(k, e)
  OBVIOUS
<1> QED
  BY <1>3, <1>4, PlacesAreOrdered

(* A lookup is the first entry at or after a key.                          *)
LEMMA EntriesFound ==
  ASSUME NEW k \in Kind, NEW r, r.kind = k, r.entries \in SUBSET Tables!Keys[k],
         r.key \in Tables!Keys[k], NEW o,
         o.begin = Tables!db_idx_lowerbound(r, Tables!true_lowest[k]),
         o.lower = Tables!db_idx_lowerbound(r, r.key),
         o.upper = Tables!db_idx_upperbound(r, r.key)
  PROVE  Tables!EntriesAreFound(r, o)
<1> DEFINE E == r.entries
           From(x) == {e \in E : ~Tables!Below(e, x)}
           After(x) == {e \in From(x) : e # x}
           least(S) == {e \in S : \A d \in S : ~Tables!Below(d, e)}
<1>1. ASSUME NEW x PROVE /\ Tables!db_idx_lowerbound(r, x) = least(From(x))
                         /\ Tables!db_idx_upperbound(r, x) = least(After(x))
  BY DEF Tables!db_idx_lowerbound, Tables!db_idx_upperbound, Tables!Lookup
<1>2. o.begin = least(From(Tables!true_lowest[k])) /\ o.lower = least(From(r.key))
      /\ o.upper = least(After(r.key))
  BY <1>1
<1>3. From(Tables!true_lowest[k]) = E
  BY PlacesAreOrdered
<1>4. E # {} => o.begin # {}
  BY <1>2, <1>3, LeastKey
<1>5. \A x \in o.begin, e \in E : ~Tables!Below(e, x)
  BY <1>2, <1>3
<1>6. r.key \in E => o.lower = {r.key}
  <2> SUFFICES ASSUME r.key \in E PROVE \A e : e \in o.lower <=> e = r.key
    BY Zenon
  <2>1. r.key \in From(r.key) /\ \A e \in From(r.key) : ~Tables!Below(e, r.key)
    BY PlacesAreOrdered
  <2>2. r.key \in o.lower
    BY <1>2, <2>1
  <2>3. ASSUME NEW e \in o.lower PROVE e = r.key
    <3>1. e \in E /\ ~Tables!Below(e, r.key) /\ ~Tables!Below(r.key, e)
      BY <1>2, <2>1, <2>3
    <3> QED
      BY <3>1, PlacesAreOrdered
  <2> QED
    BY <2>2, <2>3
<1>7. \A x \in After(r.key) : x \in E /\ Tables!Below(r.key, x)
  BY PlacesAreOrdered
<1>8. \A x \in o.upper : Tables!Below(r.key, x)
  BY <1>2, <1>7
<1>9. ASSUME NEW e \in E, Tables!Below(r.key, e)
      PROVE  o.upper # {} /\ \A x \in o.upper : ~Tables!Below(e, x)
  <2>1. e \in After(r.key)
    BY <1>9, PlacesAreOrdered
  <2>2. least(After(r.key)) # {}
    <3> HIDE DEF From
    <3>1. After(r.key) \in SUBSET Tables!Keys[k]
      BY <1>7
    <3> HIDE DEF After
    <3> QED
      BY <2>1, <3>1, LeastKey
  <2> QED
    BY <1>2, <2>1, <2>2
<1> QED
  BY <1>4, <1>5, <1>6, <1>8, <1>9 DEF Tables!EntriesAreFound

(* Every answer is what the property says of it.                           *)
LEMMA AnswersFaithful ==
  ASSUME asked \in Tables!Requests, found = <<Tables!Answer(asked)>>
  PROVE  Tables!KeysAreFaithful
<1> DEFINE o == Tables!Answer(asked)
<1>1. found[1] = o
  OBVIOUS
<1>2. CASE asked \in [f : {"keys"}, t : Tables!TableAndIndex, u : Tables!TableAndIndex,
                     key : TableKey]
  <2>1. asked.f = "keys" /\ asked.t \in Tables!TableAndIndex /\ asked.u \in Tables!TableAndIndex
        /\ asked.key \in Seq(0..255)
    BY <1>2, TablesAssumption
  <2>2. o = [table |-> Tables!full_key(Tables!make_prefix(asked.t), asked.key),
             map |-> Tables!full_key(Tables!const_pack(asked.t), asked.key),
             other |-> Tables!make_prefix(asked.u),
             read |-> Tables!from_hex(Tables!to_hex(asked.key))]
    BY <2>1 DEF Tables!Answer
  <2>3. asked.key \in Seq(Int)
    BY <2>1, BytesAreInts
  <2> HIDE DEF o
  <2>4. Tables!KeysStayApart(asked, o)
    BY <2>1, <2>2, <2>3, KeysApart, PrefixBytes, HexIsRead DEF Tables!KeysStayApart
  <2> QED
    BY <1>1, <2>1, <2>4 DEF Tables!KeysAreFaithful
<1>3. ASSUME NEW w \in RowType,
             asked \in [f : {"row"}, type : {w}, as : RowType,
                        v : [alternative : DOMAIN w, bytes : RowBytes]]
      PROVE  Tables!KeysAreFaithful
  <2>1. asked.f = "row" /\ asked.type = w /\ asked.as \in RowType
        /\ asked.v \in [alternative : DOMAIN w, bytes : RowBytes]
    BY <1>3
  <2>2. o = [row |-> Tables!serialize(asked.v), size |-> Tables!get_size(asked.v),
             read |-> Tables!deserialize(asked.as, Tables!serialize(asked.v))]
    BY <2>1 DEF Tables!Answer
  <2> HIDE DEF o
  <2>3. Tables!RowsAreKept(asked, o)
    BY <2>1, <2>2, RowsRead DEF Tables!RowsAreKept
  <2> QED
    BY <1>1, <2>1, <2>3 DEF Tables!KeysAreFaithful
<1>4. CASE asked \in [f : {"names"}, t : Tables!IndexTable, u : Tables!IndexTable]
  <2>1. asked.f = "names" /\ asked.t \in Tables!IndexTable /\ asked.u \in Tables!IndexTable
    BY <1>4
  <2>2. o = [t |-> Tables!index_table_name(asked.t), u |-> Tables!index_table_name(asked.u)]
    BY <2>1 DEF Tables!Answer
  <2> HIDE DEF o
  <2>3. o.t = o.u => asked.t = asked.u
    BY <2>1, <2>2, IndexTablesApart
  <2> QED
    BY <1>1, <2>1, <2>3 DEF Tables!KeysAreFaithful
<1>5. ASSUME NEW k \in DOMAIN Tables!Keys,
             asked \in [f : {"lookup"}, kind : {k}, entries : SUBSET Tables!Keys[k],
                        key : Tables!Keys[k]]
      PROVE  Tables!KeysAreFaithful
  <2>1. asked.f = "lookup" /\ asked.kind = k /\ asked.entries \in SUBSET Tables!Keys[k]
        /\ asked.key \in Tables!Keys[k]
    BY <1>5
  <2>2. o = [begin |-> Tables!db_idx_lowerbound(asked, Tables!true_lowest[asked.kind]),
             lower |-> Tables!db_idx_lowerbound(asked, asked.key),
             upper |-> Tables!db_idx_upperbound(asked, asked.key)]
    BY <2>1 DEF Tables!Answer
  <2>3. k \in Kind
    BY DEF Tables!Keys, Kind
  <2> HIDE DEF o
  <2>4. /\ o.begin = Tables!db_idx_lowerbound(asked, Tables!true_lowest[k])
        /\ o.lower = Tables!db_idx_lowerbound(asked, asked.key)
        /\ o.upper = Tables!db_idx_upperbound(asked, asked.key)
    BY <2>1, <2>2
  <2>5. Tables!EntriesAreFound(asked, o)
    BY <2>1, <2>3, <2>4, EntriesFound, Zenon
  <2> QED
    BY <1>1, <2>1, <2>5 DEF Tables!KeysAreFaithful
<1> DEFINE OfKeys == [f : {"keys"}, t : Tables!TableAndIndex, u : Tables!TableAndIndex,
                      key : TableKey]
           OfRow(w) == [f : {"row"}, type : {w}, as : RowType,
                        v : [alternative : DOMAIN w, bytes : RowBytes]]
           OfNames == [f : {"names"}, t : Tables!IndexTable, u : Tables!IndexTable]
           OfLookup(k) == [f : {"lookup"}, kind : {k}, entries : SUBSET Tables!Keys[k],
                           key : Tables!Keys[k]]
<1>6. asked \in OfKeys \cup (UNION {OfRow(w) : w \in RowType}) \cup OfNames
               \cup (UNION {OfLookup(k) : k \in DOMAIN Tables!Keys})
  BY DEF Tables!Requests
<1>7. /\ asked \in OfKeys => Tables!KeysAreFaithful
      /\ \A w \in RowType : asked \in OfRow(w) => Tables!KeysAreFaithful
      /\ asked \in OfNames => Tables!KeysAreFaithful
      /\ \A k \in DOMAIN Tables!Keys : asked \in OfLookup(k) => Tables!KeysAreFaithful
  BY <1>2, <1>3, <1>4, <1>5
<1> HIDE DEF OfKeys, OfRow, OfNames, OfLookup
<1>8. CASE asked \in OfKeys
  BY <1>7, <1>8
<1>9. CASE asked \in UNION {OfRow(w) : w \in RowType}
  <2>1. PICK w \in RowType : asked \in OfRow(w)
    BY <1>9
  <2> QED
    BY <1>7, <2>1
<1>10. CASE asked \in OfNames
  BY <1>7, <1>10
<1>11. CASE asked \in UNION {OfLookup(k) : k \in DOMAIN Tables!Keys}
  <2>1. PICK k \in DOMAIN Tables!Keys : asked \in OfLookup(k)
    BY <1>11
  <2> QED
    BY <1>7, <2>1
<1> QED
  BY <1>6, <1>8, <1>9, <1>10, <1>11

(* Nothing is answered but what was asked.                                 *)
TablesInv == asked \in Tables!Requests /\ found \in {<<>>, <<Tables!Answer(asked)>>}

(* Nothing is answered at first.                                           *)
LEMMA TablesInit == Tables!Init => TablesInv
  BY DEF Tables!Init, TablesInv

(* The answer is the one to the request.                                   *)
LEMMA TablesNext ==
  TablesInv /\ [Tables!Return]_tableKeysVars => TablesInv'
<1> SUFFICES ASSUME TablesInv, [Tables!Return]_tableKeysVars PROVE TablesInv'
  OBVIOUS
<1>1. asked' = asked
  BY DEF Tables!Return, tableKeysVars
<1>2. found' \in {<<>>, <<Tables!Answer(asked)>>}
  BY DEF TablesInv, Tables!Return, tableKeysVars
<1> QED
  BY <1>1, <1>2 DEF TablesInv

(* The property holds before and after the answer.                         *)
LEMMA TablesFaithful == TablesInv => Tables!KeysAreFaithful
  BY AnswersFaithful DEF TablesInv, Tables!KeysAreFaithful

-----------------------------------------------------------------------------
(* Rows of maps.                                                           *)

(* Sequences of words, and the two buffers of a map.                       *)
Bytes == Seq(Nat)
Buffer == [static : {s \in Bytes : Len(s) = MaxStatic}, dynamic : Bytes]

(* A written value is at the start of the buffer, whose length stays.      *)
LEMMA OverBytes ==
  ASSUME NEW buffer \in Bytes, NEW bytes \in Bytes, Len(bytes) <= Len(buffer)
  PROVE  /\ Maps!Over(buffer, bytes) \in Bytes
         /\ Len(Maps!Over(buffer, bytes)) = Len(buffer)
         /\ SubSeq(Maps!Over(buffer, bytes), 1, Len(bytes)) = bytes
<1> DEFINE over == Maps!Over(buffer, bytes)
<1>1. over = [n \in 1..Len(buffer) |-> IF n \in 1..Len(bytes) THEN bytes[n] ELSE buffer[n]]
  BY DEF Maps!Over, Bytes
<1>2. over \in Bytes /\ Len(over) = Len(buffer)
  BY <1>1 DEF Bytes
<1>3. Len(SubSeq(over, 1, Len(bytes))) = Len(bytes)
      /\ SubSeq(over, 1, Len(bytes)) \in Seq(Nat)
  BY <1>2 DEF Bytes
<1>4. \A n \in 1..Len(bytes) : SubSeq(over, 1, Len(bytes))[n] = bytes[n]
  BY <1>1, <1>2 DEF Bytes
<1>5. SubSeq(over, 1, Len(bytes)) = bytes
  BY <1>3, <1>4, SeqEqual DEF Bytes
<1> QED
  BY <1>2, <1>5

(* What is packed is what is found in the view, and nothing else, however  *)
(* long the buffers have become.                                           *)
LEMMA PackedIsRead ==
  ASSUME NEW b \in Buffer, NEW bytes \in Bytes, MaxStatic \in Nat
  PROVE  LET view == Maps!get_tmp_buffer(b, Len(bytes))
         IN /\ Maps!Written(view, bytes) \in Buffer
            /\ Maps!Contents(view, Maps!Written(view, bytes)) = bytes
<1> DEFINE view == Maps!get_tmp_buffer(b, Len(bytes))
<1>1. CASE Len(bytes) <= MaxStatic
  <2>1. view = Maps!View("static", Len(bytes), b)
    BY <1>1 DEF Maps!get_tmp_buffer, Bytes
  <2>2. Maps!Written(view, bytes) = Maps!Buffers(Maps!Over(b.static, bytes), b.dynamic)
    BY <2>1 DEF Maps!Written, Maps!View
  <2>3. b.static \in Bytes /\ Len(b.static) = MaxStatic /\ b.dynamic \in Bytes
    BY DEF Buffer
  <2>4. /\ Maps!Over(b.static, bytes) \in Bytes
        /\ Len(Maps!Over(b.static, bytes)) = MaxStatic
        /\ SubSeq(Maps!Over(b.static, bytes), 1, Len(bytes)) = bytes
    BY <1>1, <2>3, OverBytes
  <2> QED
    BY <2>1, <2>2, <2>3, <2>4 DEF Maps!Contents, Maps!View, Maps!Buffers, Buffer
<1>2. CASE ~(Len(bytes) <= MaxStatic)
  <2> DEFINE resized == Maps!Resized(b, Len(bytes))
  <2>1. view = Maps!View("dynamic", Len(bytes), resized)
    BY <1>2 DEF Maps!get_tmp_buffer, Bytes
  <2>2. b.static \in Bytes /\ Len(b.static) = MaxStatic /\ b.dynamic \in Bytes
    BY DEF Buffer
  <2>3. resized.static = b.static /\ resized.dynamic \in Bytes
        /\ Len(bytes) <= Len(resized.dynamic)
    <3>1. CASE Len(bytes) <= Len(b.dynamic)
      BY <2>2, <3>1 DEF Maps!Resized
    <3>2. CASE ~(Len(bytes) <= Len(b.dynamic))
      <4> DEFINE more == [n \in 1..(Len(bytes) - Len(b.dynamic)) |-> 0]
      <4>1. more \in Seq(Nat) /\ Len(more) = Len(bytes) - Len(b.dynamic)
        BY <2>2, <3>2 DEF Bytes
      <4>2. resized = Maps!Buffers(b.static, b.dynamic \o more)
        BY <3>2 DEF Maps!Resized
      <4> HIDE DEF more
      <4>3. b.dynamic \o more \in Seq(Nat) /\ Len(b.dynamic \o more) = Len(bytes)
        BY <2>2, <4>1, ConcatProperties DEF Bytes
      <4> QED
        BY <4>2, <4>3 DEF Maps!Buffers, Bytes
    <3> QED
      BY <3>1, <3>2
  <2> HIDE DEF resized
  <2>4. Maps!Written(view, bytes) = Maps!Buffers(b.static, Maps!Over(resized.dynamic, bytes))
    BY <2>1, <2>3 DEF Maps!Written, Maps!View
  <2>5. /\ Maps!Over(resized.dynamic, bytes) \in Bytes
        /\ SubSeq(Maps!Over(resized.dynamic, bytes), 1, Len(bytes)) = bytes
    BY <2>3, OverBytes
  <2> QED
    BY <2>1, <2>2, <2>4, <2>5 DEF Maps!Contents, Maps!View, Maps!Buffers, Buffer
<1> QED
  BY <1>1, <1>2

(* A packed value is unpacked as it was.                                   *)
LEMMA UnpackPacked ==
  ASSUME NEW v \in Bytes
  PROVE  /\ Maps!pack(v) \in Bytes
         /\ Maps!Unpackable(Maps!pack(v))
         /\ Maps!unpack(Maps!pack(v)) = v
<1> DEFINE p == Maps!pack(v)
<1>1. p = <<Len(v)>> \o v /\ <<Len(v)>> \in Seq(Nat)
  BY DEF Maps!pack, Bytes
<1>2. p \in Bytes /\ Len(p) = 1 + Len(v) /\ p[1] = Len(v)
      /\ \A n \in 1..Len(v) : p[n + 1] = v[n]
  BY <1>1 DEF Bytes
<1>3. Head(p) = Len(v) /\ p # <<>>
  BY <1>2 DEF Bytes
<1> HIDE DEF p
<1>4. Len(SubSeq(p, 2, 1 + Len(v))) = Len(v) /\ SubSeq(p, 2, 1 + Len(v)) \in Seq(Nat)
  BY <1>2, SubSeqProperties DEF Bytes
<1>5. \A n \in 1..Len(v) : SubSeq(p, 2, 1 + Len(v))[n] = v[n]
  BY <1>2 DEF Bytes
<1>6. SubSeq(p, 2, 1 + Len(v)) = v
  BY <1>4, <1>5, SeqEqual DEF Bytes
<1> QED
  BY <1>2, <1>3, <1>6 DEF p, Maps!Unpackable, Maps!unpack, Bytes

(* What rows, wrappers and notes of what was meant are made of.            *)
How == {"nobody", "constructor", "operator[]", "wrapper", "raw_write", "erase"}
RowAccount == {Self, Other, Maps!Nobody} \cup Payer
OwnKey == {index_name} \X RowKey
Held ==
  [owner : Maps!Owner, key : OwnKey, value : Bytes, payer : RowAccount, current : BOOLEAN]

RowsTyped(s) ==
  /\ s.rows \in [Maps!Owner -> [Maps!FullKey -> [bytes : Bytes, payer : RowAccount]]]
  /\ s.buffers \in Buffer
  /\ s.wrappers \in [Wrapper -> {Maps!None} \cup Held]
  /\ s.meant \in [RowKey -> [by : How, bytes : Bytes, payer : RowAccount]]

(* Every row is what was last written to its key, but for elements that    *)
(* the constructor put under another index.                                *)
AsWritten(s) ==
  \A k \in RowKey :
    index_name = Maps!DefaultIndex \/ s.meant[k].by # "constructor" =>
      s.rows[Self][Maps!full_key(k)] = Maps!Row(s.meant[k].bytes, s.meant[k].payer)

(* A wrapper has the value that its row would be unpacked as.              *)
Shows(h, rs) ==
  h.current =>
    /\ Maps!Unpackable(rs[h.owner][h.key].bytes)
    /\ Maps!unpack(rs[h.owner][h.key].bytes) = h.value

Current(s) == \A w \in Wrapper : s.wrappers[w] # Maps!None => Shows(s.wrappers[w], s.rows)

(* What is kept of rows, buffers, wrappers and notes together.             *)
Kept(s) == RowsTyped(s) /\ AsWritten(s) /\ Current(s)

State == Maps!All(rows, buffers, wrappers, intended)
MapInv == index_name \in {Maps!DefaultIndex, "own"} /\ Kept(State)

(* The keys of the own index; those of elements are the same, or none of   *)
(* them.                                                                   *)
LEMMA FullKeys ==
  ASSUME index_name \in {Maps!DefaultIndex, "own"}, NEW k \in RowKey
  PROVE  /\ Maps!full_key(k) \in Maps!FullKey /\ Maps!full_key(k) \in OwnKey
         /\ Maps!element_key(k) \in Maps!FullKey
         /\ Maps!element_key(k) = Maps!full_key(k) \/ Maps!element_key(k) \notin OwnKey
         /\ index_name = Maps!DefaultIndex => Maps!element_key(k) = Maps!full_key(k)
         /\ Maps!full_key(k)[2] = k
         /\ \A l \in RowKey : Maps!full_key(k) = Maps!full_key(l) => k = l
  BY DEF Maps!full_key, Maps!element_key, Maps!FullKey, OwnKey

(* A row written under the own index, or under the default one by the      *)
(* constructor.                                                            *)
LEMMA WriteKeeps ==
  ASSUME index_name \in {Maps!DefaultIndex, "own"}, NEW s, Kept(s), NEW k \in RowKey,
         NEW f, f = Maps!full_key(k) \/ f = Maps!element_key(k),
         NEW by \in How, f = Maps!full_key(k) \/ by = "constructor",
         NEW bytes \in Bytes, NEW payer \in RowAccount, NEW b \in Buffer
  PROVE  Kept(Maps!All([s.rows EXCEPT ![Self][f] = Maps!Row(bytes, payer)], b,
                       Maps!Outdated(s.wrappers, Self, f),
                       [s.meant EXCEPT ![k] = Maps!Note(by, bytes, payer)]))
<1> DEFINE rs == [s.rows EXCEPT ![Self][f] = Maps!Row(bytes, payer)]
           ws == Maps!Outdated(s.wrappers, Self, f)
           m == [s.meant EXCEPT ![k] = Maps!Note(by, bytes, payer)]
<1>1. /\ s.rows \in [Maps!Owner -> [Maps!FullKey -> [bytes : Bytes, payer : RowAccount]]]
      /\ s.wrappers \in [Wrapper -> {Maps!None} \cup Held]
      /\ s.meant \in [RowKey -> [by : How, bytes : Bytes, payer : RowAccount]]
      /\ Self \in Maps!Owner /\ f \in Maps!FullKey
  BY FullKeys DEF Kept, RowsTyped, Maps!Owner
<1>2. Maps!Row(bytes, payer) \in [bytes : Bytes, payer : RowAccount]
      /\ Maps!Note(by, bytes, payer) \in [by : How, bytes : Bytes, payer : RowAccount]
  BY DEF Maps!Row, Maps!Note
<1>3. rs \in [Maps!Owner -> [Maps!FullKey -> [bytes : Bytes, payer : RowAccount]]]
      /\ rs[Self][f] = Maps!Row(bytes, payer)
      /\ \A o \in Maps!Owner, g \in Maps!FullKey : o # Self \/ g # f => rs[o][g] = s.rows[o][g]
  BY <1>1, <1>2
<1>4. m \in [RowKey -> [by : How, bytes : Bytes, payer : RowAccount]]
      /\ m[k] = Maps!Note(by, bytes, payer)
      /\ \A l \in RowKey : l # k => m[l] = s.meant[l]
  BY <1>1, <1>2
<1>5. /\ ws \in [Wrapper -> {Maps!None} \cup Held]
      /\ \A w \in Wrapper : ws[w] # Maps!None /\ ws[w].current =>
           ws[w] = s.wrappers[w] /\ ~(ws[w].owner = Self /\ ws[w].key = f)
  <2>1. ws = [w \in Wrapper |->
               IF s.wrappers[w] # Maps!None /\ s.wrappers[w].owner = Self
                  /\ s.wrappers[w].key = f
               THEN Maps!Wrapped(Self, f, s.wrappers[w].value, s.wrappers[w].payer, FALSE)
               ELSE s.wrappers[w]]
    BY DEF Maps!Outdated
  <2>2. ASSUME NEW w \in Wrapper, s.wrappers[w] # Maps!None, s.wrappers[w].owner = Self,
               s.wrappers[w].key = f
        PROVE  /\ ws[w] \in Held /\ ~ws[w].current
    <3>1. s.wrappers[w] \in Held
      BY <1>1, <2>2
    <3>2. ws[w] = Maps!Wrapped(Self, f, s.wrappers[w].value, s.wrappers[w].payer, FALSE)
      BY <2>1, <2>2
    <3> HIDE DEF ws
    <3> QED
      BY <2>2, <3>1, <3>2 DEF Held, Maps!Wrapped
  <2>3. ASSUME NEW w \in Wrapper, ~(s.wrappers[w] # Maps!None /\ s.wrappers[w].owner = Self
               /\ s.wrappers[w].key = f)
        PROVE  ws[w] = s.wrappers[w]
    BY <2>1, <2>3
  <2>4. DOMAIN ws = Wrapper /\ ws = [w \in Wrapper |-> ws[w]]
    BY <2>1
  <2> HIDE DEF ws
  <2>5. ASSUME NEW w \in Wrapper
        PROVE  /\ ws[w] \in {Maps!None} \cup Held
               /\ ws[w] # Maps!None /\ ws[w].current =>
                    ws[w] = s.wrappers[w] /\ ~(ws[w].owner = Self /\ ws[w].key = f)
    BY <1>1, <2>2, <2>3
  <2> QED
    BY <2>4, <2>5
<1> HIDE DEF rs, ws, m
<1> DEFINE t == Maps!All(rs, b, ws, m)
<1>6. t.rows = rs /\ t.buffers = b /\ t.wrappers = ws /\ t.meant = m
  BY DEF Maps!All
<1> HIDE DEF t
<1>7. RowsTyped(t)
  BY <1>3, <1>4, <1>5, <1>6 DEF RowsTyped
<1>8. AsWritten(t)
  <2> SUFFICES ASSUME NEW l \in RowKey,
                      index_name = Maps!DefaultIndex \/ m[l].by # "constructor"
               PROVE  rs[Self][Maps!full_key(l)] = Maps!Row(m[l].bytes, m[l].payer)
    BY <1>6 DEF AsWritten
  <2>1. CASE l = k
    <3>1. f = Maps!full_key(k)
      BY <1>4, <2>1, FullKeys DEF Maps!Note
    <3> QED
      BY <1>3, <1>4, <2>1, <3>1 DEF Maps!Note
  <2>2. CASE l # k
    <3>1. m[l] = s.meant[l]
      BY <1>4, <2>2
    <3>2. s.rows[Self][Maps!full_key(l)] = Maps!Row(m[l].bytes, m[l].payer)
      BY <3>1 DEF Kept, AsWritten
    <3>3. Maps!full_key(l) # f /\ Maps!full_key(l) \in Maps!FullKey
      BY <2>2, FullKeys
    <3> QED
      BY <1>1, <1>3, <3>2, <3>3
  <2> QED
    BY <2>1, <2>2
<1>9. Current(t)
  <2> SUFFICES ASSUME NEW w \in Wrapper, ws[w] # Maps!None, ws[w].current
               PROVE  Shows(ws[w], rs)
    BY <1>6 DEF Current, Shows
  <2>1. ws[w] = s.wrappers[w] /\ ~(ws[w].owner = Self /\ ws[w].key = f)
    BY <1>5
  <2>2. Shows(ws[w], s.rows)
    BY <2>1 DEF Kept, Current
  <2>3. ws[w].owner \in Maps!Owner /\ ws[w].key \in Maps!FullKey
    BY <1>5 DEF Held, OwnKey, Maps!FullKey
  <2>4. rs[ws[w].owner][ws[w].key] = s.rows[ws[w].owner][ws[w].key]
    BY <1>3, <2>1, <2>3
  <2> QED
    BY <2>2, <2>4 DEF Shows
<1> QED
  BY <1>7, <1>8, <1>9 DEF Kept, t, rs, ws, m

(* A wrapper that is put in a variable shows its row.                      *)
LEMMA WrapKeeps ==
  ASSUME NEW s, Kept(s), NEW w \in Wrapper, NEW h \in Held \cup {Maps!None}, NEW b \in Buffer,
         h # Maps!None => Shows(h, s.rows)
  PROVE  Kept(Maps!All(s.rows, b, [s.wrappers EXCEPT ![w] = h], s.meant))
<1> DEFINE ws == [s.wrappers EXCEPT ![w] = h]
           t == Maps!All(s.rows, b, ws, s.meant)
<1>1. s.wrappers \in [Wrapper -> {Maps!None} \cup Held]
  BY DEF Kept, RowsTyped
<1>2. /\ ws \in [Wrapper -> {Maps!None} \cup Held]
      /\ ws[w] = h /\ \A x \in Wrapper : x # w => ws[x] = s.wrappers[x]
  BY <1>1
<1> HIDE DEF ws
<1>3. t.rows = s.rows /\ t.buffers = b /\ t.wrappers = ws /\ t.meant = s.meant
  BY DEF Maps!All
<1> HIDE DEF t
<1>4. RowsTyped(t)
  BY <1>2, <1>3 DEF Kept, RowsTyped
<1>5. AsWritten(t)
  BY <1>3 DEF Kept, AsWritten
<1>6. Current(t)
  BY <1>2, <1>3 DEF Kept, Current
<1> QED
  BY <1>4, <1>5, <1>6 DEF Kept, t, ws

(* set writes exactly the packed value, whatever is in the buffers.        *)
LEMMA SetWrites ==
  ASSUME NEW rs, NEW b \in Buffer, NEW f, NEW v \in Bytes, NEW payer, MaxStatic \in Nat,
         NEW s, s.rows = rs, s.buffers = b
  PROVE  /\ Maps!set(s, f, v, payer).rows =
              [rs EXCEPT ![Self][f] = Maps!Row(Maps!pack(v), payer)]
         /\ Maps!set(s, f, v, payer).buffers \in Buffer
<1> DEFINE view == Maps!get_tmp_buffer(b, Len(Maps!pack(v)))
           packed == Maps!Written(view, Maps!pack(v))
<1>1. packed \in Buffer /\ Maps!Contents(view, packed) = Maps!pack(v)
  BY PackedIsRead, UnpackPacked
<1>2. Maps!set(s, f, v, payer) =
        [rows |-> [rs EXCEPT ![Self][f] = Maps!Row(Maps!Contents(view, packed), payer)],
         buffers |-> packed]
  BY DEF Maps!set
<1> HIDE DEF packed, view
<1> QED
  BY <1>1, <1>2

(* An element of an initializer list is kept like any other row.           *)
LEMMA AddKeeps ==
  ASSUME index_name \in {Maps!DefaultIndex, "own"}, NEW s, Kept(s),
         NEW e \in [key : RowKey, value : RowValue, payer : Payer]
  PROVE  Kept(Maps!Added(s, e))
<1> DEFINE f == Maps!element_key(e.key)
           after == Maps!set(s, f, e.value, e.payer)
<1>1. e.value \in Bytes /\ e.key \in RowKey /\ e.payer \in RowAccount
  BY BytesAssumption DEF Bytes, RowAccount
<1>2. s.buffers \in Buffer
  BY DEF Kept, RowsTyped
<1>3. /\ after.rows = [s.rows EXCEPT ![Self][f] = Maps!Row(Maps!pack(e.value), e.payer)]
      /\ after.buffers \in Buffer
  BY <1>1, <1>2, SetWrites, BytesAssumption
<1>4. Maps!pack(e.value) \in Bytes
  BY <1>1, UnpackPacked
<1>5. Maps!Added(s, e) = Maps!All(after.rows, after.buffers, Maps!Outdated(s.wrappers, Self, f),
        [s.meant EXCEPT ![e.key] = Maps!Note("constructor", Maps!pack(e.value), e.payer)])
  BY DEF Maps!Added
<1> HIDE DEF after
<1>6. f = Maps!element_key(e.key)
  OBVIOUS
<1> HIDE DEF f
<1>7. "constructor" \in How
  BY DEF How
<1>8. Kept(Maps!All([s.rows EXCEPT ![Self][f] = Maps!Row(Maps!pack(e.value), e.payer)],
        after.buffers, Maps!Outdated(s.wrappers, Self, f),
        [s.meant EXCEPT ![e.key] = Maps!Note("constructor", Maps!pack(e.value), e.payer)]))
  BY <1>1, <1>3, <1>4, <1>6, <1>7, WriteKeeps
<1> QED
  BY <1>3, <1>5, <1>8

(* Induction over the natural numbers, for a set.                          *)
LEMMA Induction ==
  ASSUME NEW S, 0 \in S, \A n \in Nat : n \in S => n + 1 \in S
  PROVE  Nat \subseteq S
<1> SUFFICES ASSUME Nat \ S # {} PROVE FALSE
  OBVIOUS
<1>1. PICK n \in Nat \ S : \A o \in Nat \ S : ~(<<o, n>> \in OpToRel(<, Nat))
  BY NatLessThanWellFounded, WFMin
<1>2. \A o \in Nat \ S : ~(o < n)
  BY <1>1 DEF OpToRel
<1>3. n \in Nat /\ n # 0
  OBVIOUS
<1>4. n - 1 \in Nat /\ n - 1 < n /\ (n - 1) + 1 = n
  BY <1>3
<1> QED
  BY <1>2, <1>4

(* What has become of everything after the first elements.                 *)
Step(after, elements, n) ==
  IF n = 0 THEN State ELSE Maps!Added(after[n - 1], elements[n])

(* The elements of a list can be added one after the other: the recursive  *)
(* function of the constructor exists.                                     *)
LEMMA StepsExist ==
  ASSUME NEW elements, NEW m \in Nat
  PROVE  \E after : after = [n \in 0..m |-> Step(after, elements, n)]
<1> DEFINE S == {k \in Nat : \E after : after = [n \in 0..k |-> Step(after, elements, n)]}
<1>1. 0 \in S
  <2> DEFINE after == [n \in 0..0 |-> State]
  <2>1. after = [n \in 0..0 |-> Step(after, elements, n)]
    BY DEF Step
  <2> QED
    BY <2>1
<1>2. ASSUME NEW k \in Nat, k \in S PROVE k + 1 \in S
  <2>1. PICK f : f = [n \in 0..k |-> Step(f, elements, n)]
    BY <1>2
  <2> DEFINE after == [n \in 0..(k + 1) |-> IF n <= k THEN f[n] ELSE Step(f, elements, n)]
  <2>2. \A n \in 0..k : f[n] = Step(f, elements, n) /\ after[n] = f[n]
    BY <2>1
  <2>3. \A n \in 0..(k + 1) : after[n] = Step(f, elements, n)
    <3> SUFFICES ASSUME NEW n \in 0..(k + 1) PROVE after[n] = Step(f, elements, n)
      OBVIOUS
    <3>1. CASE n <= k
      <4>1. n \in 0..k
        BY <3>1
      <4> QED
        BY <2>2, <4>1
    <3>2. CASE ~(n <= k)
      BY <3>2
    <3> QED
      BY <3>1, <3>2
  <2>4. \A n \in 0..(k + 1) : n # 0 => n - 1 \in 0..k
    OBVIOUS
  <2>5. \A n \in 0..(k + 1) : Step(f, elements, n) = Step(after, elements, n)
    BY <2>2, <2>4 DEF Step
  <2>6. after = [n \in 0..(k + 1) |-> Step(after, elements, n)]
    <3>1. after = [n \in 0..(k + 1) |-> after[n]]
      OBVIOUS
    <3> HIDE DEF after
    <3> QED
      BY <2>3, <2>5, <3>1
  <2> HIDE DEF after
  <2> QED
    BY <2>6
<1> HIDE DEF S
<1>3. m \in S
  BY <1>1, <1>2, Induction
<1> QED
  BY <1>3 DEF S

(* Every element of an initializer list is kept.                           *)
LEMMA ConstructKeeps ==
  ASSUME MapInv, NEW elements \in RowLists
  PROVE  Kept(Maps!AfterElements(elements))
<1> DEFINE Element == [key : RowKey, value : RowValue, payer : Payer]
<1>0. elements \in Seq(Element)
  BY BytesAssumption
<1> HIDE DEF Element
<1>1. Len(elements) \in Nat /\ \A n \in 1..Len(elements) : elements[n] \in Element
  BY <1>0
<1> DEFINE after == CHOOSE after :
             after = [n \in 0..Len(elements) |-> Step(after, elements, n)]
<1>2. after = [n \in 0..Len(elements) |-> Step(after, elements, n)]
  BY <1>1, StepsExist
<1>3. Maps!AfterElements(elements) = after[Len(elements)]
  BY DEF Maps!AfterElements, Step, State
<1> HIDE DEF after
<1> DEFINE S == {n \in Nat : n <= Len(elements) => Kept(after[n])}
<1>4. 0 \in S
  <2>1. after[0] = State
    BY <1>1, <1>2 DEF Step
  <2> QED
    BY <2>1 DEF MapInv
<1>5. ASSUME NEW n \in Nat, n \in S PROVE n + 1 \in S
  <2> SUFFICES ASSUME n + 1 <= Len(elements) PROVE Kept(after[n + 1])
    OBVIOUS
  <2>1. n + 1 \in 0..Len(elements) /\ n <= Len(elements) /\ n + 1 # 0 /\ (n + 1) - 1 = n
        /\ n + 1 \in 1..Len(elements)
    BY <1>1
  <2>2. after[n + 1] = Maps!Added(after[n], elements[n + 1])
    BY <1>2, <2>1 DEF Step
  <2>3. elements[n + 1] \in [key : RowKey, value : RowValue, payer : Payer]
    BY <1>1, <2>1 DEF Element
  <2>4. Kept(after[n])
    BY <1>5, <2>1
  <2> QED
    BY <2>2, <2>3, <2>4, AddKeeps DEF MapInv
<1> HIDE DEF S
<1>6. Len(elements) \in S
  BY <1>1, <1>4, <1>5, Induction
<1> QED
  BY <1>1, <1>3, <1>6 DEF S

(* A map starts with rows that nobody wrote and no wrapper.                *)
LEMMA InitKept == Maps!Init => MapInv
<1> SUFFICES ASSUME Maps!Init PROVE MapInv
  OBVIOUS
<1>1. index_name \in {Maps!DefaultIndex, "own"}
  BY DEF Maps!Init
<1>2. PICK k \in RowKey :
        rows = [o \in Maps!Owner |-> [f \in Maps!FullKey |->
                  IF o = Other /\ f = Maps!full_key(k) THEN Maps!Row(OtherBytes, Other)
                  ELSE Maps!Nothing]]
  BY DEF Maps!Init
<1>3. /\ wrappers = [w \in Wrapper |-> Maps!None]
      /\ intended = [l \in RowKey |-> Maps!Note("nobody", <<>>, Maps!Nobody)]
  BY DEF Maps!Init
<1>4. /\ State.rows = rows /\ State.buffers = buffers
      /\ State.wrappers = wrappers /\ State.meant = intended
  BY DEF State, Maps!All
<1>5. <<>> \in Bytes /\ OtherBytes \in Bytes
  BY BytesAssumption DEF Bytes
<1>6. buffers \in Buffer
  <2> DEFINE zeros == [n \in 1..MaxStatic |-> 0]
  <2>1. zeros \in Seq(Nat) /\ Len(zeros) = MaxStatic
    BY BytesAssumption
  <2>2. <<0>> \in Seq(Nat)
    OBVIOUS
  <2>3. buffers = Maps!Buffers(zeros, <<0>>)
    BY DEF Maps!Init
  <2> HIDE DEF zeros
  <2> QED
    BY <2>1, <2>2, <2>3 DEF Maps!Buffers, Buffer, Bytes
<1>7. /\ Maps!Row(OtherBytes, Other) \in [bytes : Bytes, payer : RowAccount]
      /\ Maps!Nothing \in [bytes : Bytes, payer : RowAccount]
      /\ Maps!Note("nobody", <<>>, Maps!Nobody) \in [by : How, bytes : Bytes, payer : RowAccount]
  BY <1>5 DEF Maps!Row, Maps!Nothing, Maps!Note, RowAccount, How
<1>8. RowsTyped(State)
  <2>1. rows \in [Maps!Owner -> [Maps!FullKey -> [bytes : Bytes, payer : RowAccount]]]
    BY <1>2, <1>7
  <2>2. wrappers \in [Wrapper -> {Maps!None} \cup Held]
    BY <1>3
  <2>3. intended \in [RowKey -> [by : How, bytes : Bytes, payer : RowAccount]]
    BY <1>3, <1>7
  <2> QED
    BY <1>4, <1>6, <2>1, <2>2, <2>3 DEF RowsTyped
<1>9. AsWritten(State)
  <2> SUFFICES ASSUME NEW l \in RowKey
               PROVE  rows[Self][Maps!full_key(l)] =
                        Maps!Row(intended[l].bytes, intended[l].payer)
    BY <1>4 DEF AsWritten
  <2>1. rows[Self][Maps!full_key(l)] = Maps!Nothing
    BY <1>1, <1>2, FullKeys, AccountAssumption DEF Maps!Owner
  <2>2. intended[l] = Maps!Note("nobody", <<>>, Maps!Nobody)
    BY <1>3
  <2> QED
    BY <2>1, <2>2 DEF Maps!Nothing, Maps!Note
<1>10. Current(State)
  BY <1>3, <1>4 DEF Current
<1> QED
  BY <1>1, <1>8, <1>9, <1>10 DEF MapInv, Kept

(* Only the four fields count.                                             *)
LEMMA KeptFields ==
  ASSUME NEW s, Kept(s)
  PROVE  Kept(Maps!All(s.rows, s.buffers, s.wrappers, s.meant))
  BY DEF Kept, RowsTyped, AsWritten, Current, Maps!All

(* A row that is there is read through the buffer.                         *)
LEMMA GetKeeps ==
  ASSUME MapInv, NEW o \in Maps!Owner, NEW f \in Maps!FullKey
  PROVE  Maps!get(o, f) \in Buffer
<1>1. buffers \in Buffer /\ rows[o][f].bytes \in Bytes
  BY DEF MapInv, Kept, RowsTyped, State, Maps!All
<1> QED
  BY <1>1, PackedIsRead, BytesAssumption DEF Maps!get

(* What can be unpacked is a value.                                        *)
LEMMA UnpackTyped ==
  ASSUME NEW b \in Bytes, Maps!Unpackable(b)
  PROVE  Maps!unpack(b) \in Bytes
<1>1. b \in Seq(Nat) /\ b # <<>> /\ Head(b) \in Nat /\ Head(b) < Len(b)
  BY DEF Bytes, Maps!Unpackable
<1>2. \A n \in 2..(1 + Head(b)) : b[n] \in Nat
  BY <1>1
<1>3. 1 + Head(b) \in Int /\ 2 \in Int
  BY <1>1
<1> QED
  BY <1>2, <1>3, SubSeqProperties DEF Maps!unpack, Bytes

(* Every call keeps the rows, the buffers and the wrappers.                *)
LEMMA NextKept == MapInv /\ [Maps!Next]_(Maps!vars) => MapInv'
<1> SUFFICES ASSUME MapInv, [Maps!Next]_(Maps!vars) PROVE MapInv'
  OBVIOUS
<1> DEFINE Onward == Maps!All(rows', buffers', wrappers', intended')
<1>1. /\ index_name \in {Maps!DefaultIndex, "own"} /\ Kept(State)
      /\ State.rows = rows /\ State.buffers = buffers
      /\ State.wrappers = wrappers /\ State.meant = intended
  BY DEF MapInv, State, Maps!All
<1>2. /\ rows \in [Maps!Owner -> [Maps!FullKey -> [bytes : Bytes, payer : RowAccount]]]
      /\ buffers \in Buffer /\ wrappers \in [Wrapper -> {Maps!None} \cup Held]
  BY <1>1 DEF Kept, RowsTyped
<1>3. index_name' = index_name
  BY DEF Maps!Next, Maps!vars, Maps!Called, Maps!Construct, Maps!Refer, Maps!Insert, Maps!at,
         Maps!Assign, Maps!Rebind, Maps!raw_write, Maps!erase
<1>4. SUFFICES Kept(Onward)
  BY <1>1, <1>3 DEF MapInv, State, Kept, RowsTyped, AsWritten, Current, Shows, Held, OwnKey,
     Maps!full_key, Maps!FullKey, Maps!Owner
<1>5. Self \in Maps!Owner /\ {Self, Maps!Nobody} \cup Payer \subseteq RowAccount
  BY DEF Maps!Owner, RowAccount
<1>6. CASE rows' = rows /\ buffers' = buffers /\ wrappers' = wrappers /\ intended' = intended
  BY <1>1, <1>6 DEF State
<1>7. Maps!Abort => Kept(Onward)
  BY <1>6 DEF Maps!Abort
<1>8. ASSUME NEW o \in Maps!Owner, NEW elements \in RowLists, Maps!Construct(o, elements)
      PROVE  Kept(Onward)
  BY <1>7, <1>8, ConstructKeeps, KeptFields DEF Maps!Construct
<1>9. ASSUME NEW w \in Wrapper, NEW o \in Maps!Owner, NEW k \in RowKey, NEW p \in Payer,
             Maps!Refer(w, o, k, p)
      PROVE  Kept(Onward)
  <2> DEFINE f == Maps!full_key(k)
             h == Maps!Wrap(o, f, Maps!unpack(rows[o][f].bytes), p)
  <2>1. f \in OwnKey /\ f \in Maps!FullKey
    BY <1>1, FullKeys
  <2>2. CASE ~Maps!Unpackable(rows[o][f].bytes)
    BY <1>7, <1>9, <2>2 DEF Maps!Refer
  <2>3. CASE Maps!Unpackable(rows[o][f].bytes)
    <3>1. /\ rows' = rows /\ intended' = intended /\ buffers' = Maps!get(o, f)
          /\ wrappers' = [wrappers EXCEPT ![w] = h]
      BY <1>9, <2>3 DEF Maps!Refer
    <3>2. Maps!get(o, f) \in Buffer
      BY <2>1, GetKeeps
    <3>3. rows[o][f].bytes \in Bytes
      BY <1>2, <2>1
    <3>4. Maps!unpack(rows[o][f].bytes) \in Bytes /\ p \in RowAccount
      BY <1>5, <2>3, <3>3, UnpackTyped
    <3> HIDE DEF f
    <3>5. h \in Held /\ Shows(h, rows)
      BY <2>1, <2>3, <3>4 DEF Held, Shows, Maps!Wrap, Maps!Wrapped
    <3> HIDE DEF h
    <3> QED
      BY <1>1, <3>1, <3>2, <3>5, WrapKeeps
  <2> QED
    BY <2>2, <2>3
<1>10. ASSUME NEW k \in RowKey, NEW by \in How, NEW bytes \in Bytes, NEW payer \in RowAccount,
              NEW b \in Buffer
       PROVE  Kept(Maps!All([rows EXCEPT ![Self][Maps!full_key(k)] = Maps!Row(bytes, payer)], b,
                     Maps!Outdated(wrappers, Self, Maps!full_key(k)),
                     [intended EXCEPT ![k] = Maps!Note(by, bytes, payer)]))
  BY <1>1, WriteKeeps
(* The row of a wrapper that is put in a variable as it was written.       *)
<1>11. ASSUME NEW k \in RowKey, NEW by \in How, NEW v \in Bytes, NEW payer \in RowAccount,
              NEW b \in Buffer, NEW w \in Wrapper, NEW p \in RowAccount
       PROVE  LET f == Maps!full_key(k)
              IN Kept(Maps!All([rows EXCEPT ![Self][f] = Maps!Row(Maps!pack(v), payer)], b,
                     [Maps!Outdated(wrappers, Self, f) EXCEPT ![w] = Maps!Wrap(Self, f, v, p)],
                     [intended EXCEPT ![k] = Maps!Note(by, Maps!pack(v), payer)]))
  <2> DEFINE f == Maps!full_key(k)
             h == Maps!Wrap(Self, f, v, p)
             s == Maps!All([rows EXCEPT ![Self][f] = Maps!Row(Maps!pack(v), payer)], b,
                     Maps!Outdated(wrappers, Self, f),
                     [intended EXCEPT ![k] = Maps!Note(by, Maps!pack(v), payer)])
  <2>1. f \in OwnKey /\ f \in Maps!FullKey
    BY <1>1, FullKeys
  <2>2. Maps!pack(v) \in Bytes /\ Maps!Unpackable(Maps!pack(v)) /\ Maps!unpack(Maps!pack(v)) = v
    BY UnpackPacked
  <2>3. Kept(s)
    BY <1>10, <2>2
  <2> HIDE DEF f
  <2>4. s.rows[Self][f] = Maps!Row(Maps!pack(v), payer)
    BY <1>2, <1>5, <2>1 DEF Maps!All
  <2>5. h \in Held /\ h.owner = Self /\ h.key = f /\ h.value = v
    BY <1>5, <2>1 DEF Held, Maps!Wrap, Maps!Wrapped
  <2> HIDE DEF h
  <2>6. Shows(h, s.rows)
    BY <2>2, <2>4, <2>5 DEF Shows, Maps!Row
  <2>7. Kept(Maps!All(s.rows, b, [s.wrappers EXCEPT ![w] = h], s.meant))
    <3> HIDE DEF s
    <3> QED
      BY <2>3, <2>5, <2>6, WrapKeeps
  <2> QED
    BY <2>7 DEF Maps!All, f, h
<1>12. ASSUME NEW w \in Wrapper, NEW o \in Maps!Owner, NEW k \in RowKey, NEW p \in Payer,
              Maps!Insert(w, o, k, p)
       PROVE  Kept(Onward)
  <2> DEFINE f == Maps!full_key(k)
             after == Maps!set([rows |-> rows, buffers |-> buffers], f, <<>>, Self)
  <2>1. CASE o # Self
    BY <1>7, <1>12, <2>1 DEF Maps!Insert
  <2>2. CASE o = Self
    <3>1. /\ rows' = after.rows /\ buffers' = after.buffers
          /\ wrappers' = [Maps!Outdated(wrappers, Self, f) EXCEPT
                          ![w] = Maps!Wrap(Self, f, <<>>, p)]
          /\ intended' = [intended EXCEPT ![k] = Maps!Note("operator[]", Maps!pack(<<>>), Self)]
      BY <1>12, <2>2 DEF Maps!Insert
    <3>2. <<>> \in Bytes /\ "operator[]" \in How
      BY DEF Bytes, How
    <3>3. /\ after.rows = [rows EXCEPT ![Self][f] = Maps!Row(Maps!pack(<<>>), Self)]
          /\ after.buffers \in Buffer
      BY <1>2, <3>2, SetWrites, BytesAssumption
    <3> HIDE DEF after
    <3> QED
      BY <1>5, <1>11, <3>1, <3>2, <3>3
  <2> QED
    BY <2>1, <2>2
<1>13. ASSUME NEW o \in Maps!Owner, NEW k \in RowKey, Maps!at(o, k) PROVE Kept(Onward)
  BY <1>7, <1>13 DEF Maps!at
<1>14. ASSUME NEW w \in Wrapper, NEW v \in RowValue, Maps!Assign(w, v) PROVE Kept(Onward)
  <2> DEFINE f == wrappers[w].key
             p == wrappers[w].payer
             after == Maps!set([rows |-> rows, buffers |-> buffers], f, v, p)
  <2>1. CASE wrappers[w].owner # Self
    BY <1>7, <1>14, <2>1 DEF Maps!Assign
  <2>2. CASE wrappers[w].owner = Self
    <3>1. /\ rows' = after.rows /\ buffers' = after.buffers
          /\ wrappers' = [Maps!Outdated(wrappers, Self, f) EXCEPT ![w] = Maps!Wrap(Self, f, v, p)]
          /\ intended' = [intended EXCEPT ![f[2]] = Maps!Note("wrapper", Maps!pack(v), p)]
      BY <1>14, <2>2 DEF Maps!Assign
    <3>2. wrappers[w] \in Held
      BY <1>2, <1>14 DEF Maps!Assign
    <3>3. f \in OwnKey /\ p \in RowAccount
      BY <3>2 DEF Held
    <3>4. f[2] \in RowKey /\ f = Maps!full_key(f[2])
      BY <3>3 DEF OwnKey, Maps!full_key
    <3>5. v \in Bytes /\ "wrapper" \in How
      BY BytesAssumption DEF Bytes, How
    <3>6. /\ after.rows = [rows EXCEPT ![Self][f] = Maps!Row(Maps!pack(v), p)]
          /\ after.buffers \in Buffer
      BY <1>2, <3>5, SetWrites, BytesAssumption
    <3> HIDE DEF after, f, p
    <3> QED
      BY <1>11, <3>1, <3>3, <3>4, <3>5, <3>6
  <2> QED
    BY <2>1, <2>2
<1>15. ASSUME NEW w \in Wrapper, NEW x \in Wrapper, Maps!Rebind(w, x) PROVE Kept(Onward)
  <2>1. /\ rows' = rows /\ buffers' = buffers /\ intended' = intended
        /\ wrappers' = [wrappers EXCEPT ![w] = wrappers[x]] /\ wrappers[x] # Maps!None
    BY <1>15 DEF Maps!Rebind
  <2>2. wrappers[x] \in Held /\ Shows(wrappers[x], rows)
    BY <1>1, <1>2, <2>1 DEF Kept, Current
  <2> QED
    BY <1>1, <1>2, <2>1, <2>2, WrapKeeps
<1>16. ASSUME NEW o \in Maps!Owner, NEW k \in RowKey, NEW b \in RawBytes, NEW p \in Payer,
              Maps!raw_write(o, k, b, p)
       PROVE  Kept(Onward)
  <2>1. b \in Bytes /\ "raw_write" \in How
    BY BytesAssumption DEF Bytes, How
  <2> QED
    BY <1>2, <1>5, <1>7, <1>10, <1>16, <2>1 DEF Maps!raw_write
<1>17. ASSUME NEW o \in Maps!Owner, NEW k \in RowKey, Maps!erase(o, k) PROVE Kept(Onward)
  <2>1. <<>> \in Bytes /\ "erase" \in How
    BY DEF Bytes, How
  <2> QED
    BY <1>2, <1>5, <1>7, <1>10, <1>17, <2>1 DEF Maps!erase, Maps!Nothing
<1>18. CASE UNCHANGED Maps!vars
  BY <1>6, <1>18 DEF Maps!vars
<1> QED
  BY <1>8, <1>9, <1>12, <1>13, <1>14, <1>15, <1>16, <1>17, <1>18 DEF Maps!Next

(* What is kept is what the property asks.                                 *)
LEMMA KeptIsStored == MapInv => Maps!ElementsAreStored
  BY DEF MapInv, Kept, AsWritten, Current, Shows, State, Maps!All, Maps!ElementsAreStored,
         Maps!RowsAreAsWritten, Maps!WrappersAreCurrent

-----------------------------------------------------------------------------
(* For names of any width, any keys, types of rows, values and sizes of    *)
(* the static buffer: keys of two tables or indices stay apart and are     *)
(* read as they were written, rows are read as they were written, lookups  *)
(* find the first entry, and the rows of a map are what was last written   *)
(* through any wrapper or call (map.hpp:405-665, kv.hpp:798-846,           *)
(* kv_base.hpp:85-175, multi_index.hpp:197-459).                           *)
THEOREM RowsKept == PartsSpec => []RowsAreKept
<1> DEFINE Inv == /\ part = "TableKeys" => TablesInv
                  /\ part = "MapElements" => MapInv
<1>1. PartsInit => Inv
  BY TablesInit, InitKept DEF PartsInit
<1>2. Inv /\ [PartsNext]_partsVars => Inv'
  <2> SUFFICES ASSUME Inv, [PartsNext]_partsVars PROVE Inv'
    OBVIOUS
  <2>1. part' = part
    BY DEF PartsNext, partsVars
  <2>2. ASSUME part = "TableKeys" PROVE TablesInv'
    <3>1. [Tables!Return]_tableKeysVars
      BY <2>2 DEF PartsNext, partsVars, tableKeysVars
    <3> QED
      BY <2>2, <3>1, TablesNext
  <2>3. ASSUME part = "MapElements" PROVE MapInv'
    <3>1. [Maps!Next]_(Maps!vars)
      BY <2>3 DEF PartsNext, partsVars, mapElementsVars, Maps!vars
    <3> QED
      BY <2>3, <3>1, NextKept
  <2> QED
    BY <2>1, <2>2, <2>3
<1>3. Inv => RowsAreKept
  BY TablesFaithful, KeptIsStored DEF RowsAreKept
<1> QED
  BY <1>1, <1>2, <1>3, PTL DEF PartsSpec
=============================================================================
