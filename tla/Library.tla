------------------------------- MODULE Library -------------------------------
(***************************************************************************)
(* The parts of the library that are proved correct besides the tables,    *)
(* maps and allocators, next to each other: a behaviour is one of the part *)
(* chosen at its start, while the others rest.                             *)
(***************************************************************************)
EXTENDS Integers, Sequences

CONSTANTS
  Setting, NoValue, MaxStores,          \* of singletons
  Word, MaxBuffer,                      \* of streams
  Extension, Payload, DefaultPayload,   \* of extensions; values, T(), one moved
  MovedPayload, RawPayload, MaxStream,  \* from, raw storage, values in a stream
  Actions, Skip, Expire, MaxBlocks, MaxEvents, \* of the tester
  NameByte, Indices, TableKey, RowType, RowBytes, \* of keys and rows of tables
  RowKey, RowValue, RawBytes, Payer, Self,     \* of rows of maps, and of
  Other, OtherBytes, RowLists, Wrapper,        \* wrappers of their elements
  MaxStatic, MaxAsks,
  Handlers, Legacy, Codeless, Arguments,       \* of contracts that send actions
  Users, Width, MaxSends,
  Variable, RopeText, Nul, MaxNodes,           \* of ropes
  InitialHeap, InitialSize, Page, Reserve,     \* of the heaps of malloc.cpp
  MaxPages, MaxHeaps, HeapRequest, SbrkSize, MaxHeld, MaxAllocs

ASSUME SettingAssumption == NoValue \notin Setting
ASSUME WordAssumption == Word \in Nat /\ MaxBuffer \in Nat
ASSUME PayloadAssumption == DefaultPayload \in Payload /\ RawPayload \notin Payload
ASSUME TesterAssumption == Skip \subseteq Nat /\ Expire \in Nat \ {0}
ASSUME NumberAssumption == NameByte \in Nat \ {0} /\ Indices \in Nat \ {0}
ASSUME TablesAssumption ==
  TableKey \subseteq Seq(0..255) /\ RowType \subseteq Seq(STRING) /\ RowBytes \subseteq Seq(0..255)
ASSUME AccountAssumption == Self # Other
ASSUME BytesAssumption ==
  /\ RowValue \subseteq Seq(Nat) /\ RawBytes \subseteq Seq(Nat) /\ OtherBytes \in Seq(Nat)
  /\ RowLists \subseteq Seq([key : RowKey, value : RowValue, payer : Payer])
  /\ MaxStatic \in Nat

(* Texts and arguments are sequences; a contract has one handler for a name, and     *)
(* takes the actions of its own.                                           *)
IsSequence(q) == q \in Seq({q[n] : n \in DOMAIN q})
ASSUME HandlersAssumption ==
  \A h \in Handlers :
    /\ IsSequence(h.params) /\ h.ignored \in 0..Len(h.params) /\ h.account # Codeless
    /\ h.account = Legacy.account => <<h.account, h.name>> \in Legacy.takes
    /\ \A g \in Handlers : g.account = h.account /\ g.name = h.name => g = h
ASSUME ArgumentsAssumption ==
  /\ Width \in Nat \ {0}
  /\ \A args \in Arguments :
       IsSequence(args) /\ \A n \in DOMAIN args : args[n].value \in Int

ASSUME TextAssumption == \A text \in RopeText : IsSequence(text)

(* The first heap is memory of the first page, before what sbrk hands out. *)
ASSUME HeapAssumption ==
  /\ InitialHeap \in Nat \ {0} /\ InitialSize \in Nat \ {0} /\ InitialHeap + InitialSize <= Page
  /\ Page \in Nat /\ Reserve \in 0..Page /\ MaxPages \in Nat /\ MaxHeaps \in Nat \ {0}
  /\ HeapRequest \subseteq Nat /\ SbrkSize \subseteq Nat

VARIABLES
  part,
  row, stores, item, last, failed,
  start, pos, limit, size, touched, at_end, honest, packing, overrun,
  exists, has_value, data, stream, reading, meant, written, emptied,
  chain, head_block_info, event_queue, trace, recent, pulled,
  asked, found,
  index_name, rows, buffers, wrappers, intended, refuted, asks,
  work, frame, trx, deferred, sent, received, ended,
  nodes, ropes, said, walk, got,
  heaps, header, cursor, brk, wide, held, job, refused, status, calls

Singleton == INSTANCE Singleton WITH
  Value <- Setting, None <- NoValue, answer <- last, aborted <- failed
Stream == INSTANCE Datastream WITH aborted <- overrun
Ext == INSTANCE BinaryExtension WITH
  Value <- Payload, Default <- DefaultPayload, Moved <- MovedPayload, Raw <- RawPayload,
  answer <- reading, sent <- written
Tester == INSTANCE TestChain
Tables == INSTANCE TableKeys WITH Key <- TableKey, request <- asked, outcome <- found
Maps == INSTANCE MapElements WITH
  MapKey <- RowKey, Value <- RowValue, Elements <- RowLists, MaxCalls <- MaxAsks,
  meant <- intended, aborted <- refuted, calls <- asks
Sending == INSTANCE Actions WITH Plain <- Codeless, got <- received, aborted <- ended
Ropes == INSTANCE Rope WITH Text <- RopeText
Heaps == INSTANCE MemoryManager WITH Request <- HeapRequest, MaxCalls <- MaxAllocs

singletonVars == <<row, stores, item, last, failed>>
datastreamVars == <<start, pos, limit, size, touched, at_end, honest, packing, overrun>>
binaryExtensionVars == <<exists, has_value, data, stream, reading, meant, written, emptied>>
testChainVars == <<chain, head_block_info, event_queue, trace, recent, pulled>>
tableKeysVars == <<asked, found>>
mapElementsVars == <<index_name, rows, buffers, wrappers, intended, refuted, asks>>
actionsVars == <<work, frame, trx, deferred, sent, received, ended>>
ropeVars == <<nodes, ropes, said, walk, got>>
memoryManagerVars == <<heaps, header, cursor, brk, wide, held, job, refused, status, calls>>

partsVars ==
  <<part, singletonVars, datastreamVars, binaryExtensionVars, testChainVars, tableKeysVars,
    mapElementsVars, actionsVars, ropeVars, memoryManagerVars>>

(* The states of parts at rest; the singleton, whose property is not asked *)
(* of the chosen part only, rests in one of its initial states.            *)
PartsInit ==
  /\ IF part = "Singleton" THEN Singleton!Init ELSE Singleton!Init /\ row = NoValue
  /\ IF part = "Datastream" THEN Stream!Init
     ELSE /\ start = 0 /\ pos = 0 /\ limit = 0 /\ size = 0 /\ touched = 0
          /\ at_end = 0 /\ honest = 0 /\ packing = 0 /\ overrun = 0
  /\ IF part = "BinaryExtension" THEN Ext!Init
     ELSE /\ exists = 0 /\ has_value = 0 /\ data = 0 /\ stream = 0
          /\ reading = 0 /\ meant = 0 /\ written = 0 /\ emptied = 0
  /\ IF part = "TestChain" THEN Tester!Init
     ELSE /\ chain = 0 /\ head_block_info = 0 /\ event_queue = 0
          /\ trace = 0 /\ recent = 0 /\ pulled = 0
  /\ IF part = "TableKeys" THEN Tables!Init ELSE asked = 0 /\ found = 0
  /\ IF part = "MapElements" THEN Maps!Init
     ELSE /\ index_name = 0 /\ rows = 0 /\ buffers = 0 /\ wrappers = 0
          /\ intended = 0 /\ refuted = 0 /\ asks = 0
  /\ IF part = "Actions" THEN Sending!Init
     ELSE /\ work = 0 /\ frame = 0 /\ trx = 0 /\ deferred = 0
          /\ sent = 0 /\ received = 0 /\ ended = 0
  /\ IF part = "Rope" THEN Ropes!Init
     ELSE nodes = 0 /\ ropes = 0 /\ said = 0 /\ walk = 0 /\ got = 0
  /\ IF part = "MemoryManager" THEN Heaps!Init
     ELSE /\ heaps = 0 /\ header = 0 /\ cursor = 0 /\ brk = 0 /\ wide = 0 /\ held = 0
          /\ job = 0 /\ refused = 0 /\ status = 0 /\ calls = 0

PartsNext ==
  /\ UNCHANGED part
  /\ IF part = "Singleton" THEN Singleton!Next ELSE UNCHANGED singletonVars
  /\ IF part = "Datastream" THEN Stream!Next ELSE UNCHANGED datastreamVars
  /\ IF part = "BinaryExtension" THEN Ext!Next ELSE UNCHANGED binaryExtensionVars
  /\ IF part = "TestChain" THEN Tester!Next ELSE UNCHANGED testChainVars
  /\ IF part = "TableKeys" THEN Tables!Return ELSE UNCHANGED tableKeysVars
  /\ IF part = "MapElements" THEN Maps!Next ELSE UNCHANGED mapElementsVars
  /\ IF part = "Actions" THEN Sending!Next ELSE UNCHANGED actionsVars
  /\ IF part = "Rope" THEN Ropes!Next ELSE UNCHANGED ropeVars
  /\ IF part = "MemoryManager" THEN Heaps!Next ELSE UNCHANGED memoryManagerVars

PartsSpec == PartsInit /\ [][PartsNext]_partsVars

-----------------------------------------------------------------------------
(* A singleton implements a cell, whatever is in its cache                 *)
(* (singleton.hpp:57-128).                                                 *)
ImplementsCell == Singleton!ImplementsCell

(* A stream stays in its buffer (datastream.hpp:51-176, 202-264).          *)
StaysInBuffer == part = "Datastream" => Stream!StaysInBuffer

(* An extension holds the value it should (binary_extension.hpp:24-221).   *)
ExtensionsHoldValues == part = "BinaryExtension" => Ext!ExtensionsHoldValues

(* A test's transactions refer to the head block, have not expired, and    *)
(* are refused as duplicates only if they are (tester.cpp:263-389).        *)
TransactionsAreTimely == part = "TestChain" => Tester!TransactionsAreTimely

(* What tables and maps are given to keep is what they keep: keys and rows *)
(* are put together so that they stay apart and can be read, and elements  *)
(* of maps are stored as they were assigned (map.hpp:405-665, kv.hpp,      *)
(* multi_index.hpp).                                                       *)
RowsAreKept ==
  /\ part = "TableKeys" => Tables!KeysAreFaithful
  /\ part = "MapElements" => Maps!ElementsAreStored

(* Actions that contracts send arrive, as often and as they were sent      *)
(* (action.hpp, dispatcher.hpp, transaction.hpp).                          *)
ActionsArriveAsSent == part = "Actions" => Sending!ActionsArriveAsSent

(* A rope is the text it was built from, whoever shares its nodes          *)
(* (rope.hpp:41-135, 195-214).                                             *)
TextsAreWhole == part = "Rope" => Ropes!TextIsWhole

(* Heaps can be walked from header to header, blocks in use are those of   *)
(* the contract, and memory is refused for a reason (malloc.cpp:50-520).   *)
HeapsAreTiled == part = "MemoryManager" => Heaps!HeapsAreTiled
=============================================================================
