----------------------------- MODULE TestChain -----------------------------
(***************************************************************************)
(* eosio::test_chain (tester/tester.cpp), with which a test drives a       *)
(* chain: it starts and finishes blocks, makes transactions that refer to  *)
(* the head block and pushes them, and collects the events that the chain  *)
(* delivers through a callback.  The chain itself, a part of the node, is  *)
(* external: it makes a block every Interval and skips slots on demand.    *)
(***************************************************************************)
EXTENDS Integers, Sequences

CONSTANTS
  Actions,   \* what a transaction may consist of
  Skip,      \* milliseconds that start_block skips
  Expire,    \* expire_sec, 1 by default
  MaxBlocks, \* bound: blocks of the chain
  MaxEvents  \* bound: events delivered

VARIABLES
  chain,           \* the chain: its head, the pending block's slot or None, and
                   \* the transactions it has executed
  head_block_info, \* <<>>, or the head as it was asked for
  event_queue,     \* the events not pulled yet
  trace,           \* of the last transaction pushed
  recent,          \* what was executed since a block was finished
  pulled           \* the events pulled, in order

vars == <<chain, head_block_info, event_queue, trace, recent, pulled>>

Interval == 500
None == -1
NoTrace == [status |-> "none", actions |-> {}]

(* The head, the pending block's slot, and the transactions executed.      *)
Chain(head, pending, executed) ==
  [head |-> head, pending |-> pending, executed |-> executed]

Init ==
  /\ chain = Chain([block_num |-> 1, slot |-> 0], None, {})
  /\ head_block_info = <<>>
  /\ event_queue = <<>>
  /\ trace = NoTrace
  /\ recent = {}
  /\ pulled = <<>>

-----------------------------------------------------------------------------
(* The chain.                                                              *)

Begin(c, skip) == Chain(c.head, c.head.slot + 1 + skip \div Interval, c.executed)

(* A transaction, and a block to finish, need a pending block.             *)
Pending(c) == IF c.pending = None THEN Begin(c, 0) ELSE c

Finish(c) ==
  Chain([block_num |-> c.head.block_num + 1, slot |-> Pending(c).pending], None, c.executed)

Start(c, skip) == Begin(IF c.pending = None THEN c ELSE Finish(c), skip)

(* The verdict on a transaction, apart from what its actions do.           *)
Verdict(c, t) ==
  IF 1000 * t.expiration < Interval * Pending(c).pending THEN "expired"
  ELSE IF t \in c.executed THEN "duplicate"
  ELSE "executed"

-----------------------------------------------------------------------------
Room(c) == c.head.block_num <= MaxBlocks

(* Mutant: the time is skipped at once.                                    *)
StartedOnce(skip) == Start(chain, skip)

(* A recent block for fill_tapos to use is made by a second start.         *)
Started(skip) ==
  IF skip >= Interval THEN Start(Start(chain, skip - Interval), 0)
  ELSE Start(chain, skip)

(* What a call leaves behind that changes blocks.                          *)
Blocks(c) ==
  /\ Room(c)
  /\ chain' = c
  /\ head_block_info' = <<>>
  /\ recent' = IF c.head = chain.head THEN recent ELSE {}
  /\ trace' = NoTrace
  /\ UNCHANGED <<event_queue, pulled>>

start_block(skip) == Blocks(Started(skip))
finish_block == Blocks(Finish(chain))

HeadBlockInfo == IF head_block_info = <<>> THEN chain.head ELSE head_block_info[1]

get_head_block_info ==
  /\ head_block_info' = <<HeadBlockInfo>>
  /\ UNCHANGED <<chain, event_queue, trace, recent, pulled>>

(* make_transaction: time_point_sec drops the fraction of the second.      *)
fill_tapos(actions) ==
  [actions |-> actions,
   expiration |-> (Interval * HeadBlockInfo.slot) \div 1000 + Expire,
   ref_block_num |-> HeadBlockInfo.block_num]

(* transact makes a transaction and pushes it; its actions may fail.       *)
transact(actions, fails) ==
  LET t == fill_tapos(actions)
      verdict == Verdict(chain, t)
      status == IF verdict = "executed" /\ fails THEN "hard_fail" ELSE verdict
      done == status = "executed"
  IN
  /\ head_block_info' = <<HeadBlockInfo>>
  /\ chain' = Chain(chain.head, Pending(chain).pending,
                    IF done THEN chain.executed \cup {t} ELSE chain.executed)
  /\ trace' = [status |-> status, actions |-> actions]
  /\ recent' = IF done THEN recent \cup {actions} ELSE recent
  /\ UNCHANGED <<event_queue, pulled>>

(* expect: the test goes on if the trace is as expected.                   *)
expect(expected) ==
  /\ trace # NoTrace
  /\ (trace.status = "executed") # expected
  /\ trace' = NoTrace
  /\ UNCHANGED <<chain, head_block_info, event_queue, recent, pulled>>

exec_deferred ==
  /\ chain' = Pending(chain)
  /\ UNCHANGED <<head_block_info, event_queue, trace, recent, pulled>>

(* The chain calls back with the event of a transaction it executes.       *)
PushEvent ==
  /\ trace.status = "executed" /\ Len(pulled) + Len(event_queue) < MaxEvents
  /\ event_queue' = Append(event_queue, Len(pulled) + Len(event_queue) + 1)
  /\ UNCHANGED <<chain, head_block_info, trace, recent, pulled>>

pull_events ==
  /\ pulled' = pulled \o event_queue
  /\ event_queue' = <<>>
  /\ UNCHANGED <<chain, head_block_info, trace, recent>>

Next ==
  \/ \E skip \in Skip : start_block(skip)
  \/ finish_block \/ get_head_block_info
  \/ \E actions \in Actions, fails \in BOOLEAN : transact(actions, fails)
  \/ \E expected \in BOOLEAN : expect(expected)
  \/ exec_deferred \/ PushEvent \/ pull_events

Spec == Init /\ [][Next]_vars

-----------------------------------------------------------------------------
(* However blocks were started, finished and skipped, what transact makes  *)
(* has not expired when it is pushed (with expire_sec of 1 the block it    *)
(* refers to may be one slot old), and the same actions are refused as a   *)
(* duplicate only if they were executed since a block was finished: the    *)
(* remembered head is never one that the chain has left behind             *)
(* (tester.cpp:303-338).  Events are pulled once, in their order.          *)
TransactionsAreTimely ==
  /\ trace.status # "expired"
  /\ trace.status = "duplicate" => trace.actions \in recent
  /\ head_block_info \in {<<>>, <<chain.head>>}
  /\ LET events == pulled \o event_queue IN \A n \in DOMAIN events : events[n] = n
=============================================================================
