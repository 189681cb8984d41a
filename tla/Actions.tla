------------------------------- MODULE Actions -------------------------------
(***************************************************************************)
(* How contracts send each other actions and receive them: the action and  *)
(* its wrappers (action.hpp), the dispatchers written by hand              *)
(* (dispatcher.hpp: execute_action under EOSIO_ACTIONS, and dispatch), the *)
(* transaction that is deferred or looked into (transaction.hpp).          *)
(*                                                                         *)
(* Serialized data is the sequence of its values, each as wide as its      *)
(* type.  The node is external: it runs the actions of a transaction one   *)
(* by one, each for its contract first, then for those it notifies, and    *)
(* then what these sent, before the next.                                  *)
(***************************************************************************)
EXTENDS Integers, Sequences, SequencesExt, FiniteSets

CONSTANTS
  Handlers,  \* account and name of a handler, its parameters' types and
             \* how many of them, the last, are of type ignore<T>; one for a
             \* name
  Legacy,    \* the contract that uses dispatch, and <<code, name>> it takes,
             \* those of its own handlers among them
  Plain,     \* an account without a contract
  Arguments, \* the sequences of arguments contracts write
  Users,     \* the permissions given to a wrapper
  Width,     \* the number of values of a uint8_t
  MaxSends   \* bound: the actions sent in a transaction

VARIABLES
  work,      \* the node's: the actions to run, with whom to run them for
  frame,     \* <<>>, or the contract that is running and what it has read
  trx,       \* the transaction: its two sequences of actions
  deferred,  \* the node's: <<>>, or the transaction deferred
  sent,      \* history: the actions sent, as their senders meant them
  got,       \* history: what contracts were run with
  aborted    \* why the transaction failed, or "no"

vars == <<work, frame, trx, deferred, sent, got, aborted>>

-----------------------------------------------------------------------------
(* Types.  An argument has the type of the expression, a value, and says   *)
(* whether the expression is an lvalue: T is a reference then, and the     *)
(* specializations for bool are not for references.                        *)

Integral == {"bool", "int", "uint8"}

Convertible(t, u) ==
  \/ t \in Integral /\ u \in Integral
  \/ t = "chars" /\ u \in {"string", "bool"}

(* convert turns const char* into std::string, which is no bool; for two   *)
(* bools the specializations are ambiguous, and the call does not compile. *)
is_same(arg, u) ==
  IF u = "bool" THEN arg.type \in Integral \ {"bool"} /\ ~arg.lvalue
  ELSE IF arg.type = "bool" /\ ~arg.lvalue THEN u \in Integral
  ELSE Convertible(arg.type, u)

type_check(handler, args) ==
  /\ Len(args) = Len(handler.params)
  /\ \A n \in DOMAIN args : is_same(args[n], handler.params[n])

(* std::tuple's constructor converts, however much it narrows.             *)
Converted(v, u) ==
  CASE u = "bool" -> IF v = 0 THEN 0 ELSE 1
    [] u = "uint8" -> v % Width
    [] OTHER -> v

deduced(handler, args) ==
  [n \in DOMAIN args |-> Converted(args[n].value, handler.params[n])]

-----------------------------------------------------------------------------
(* Actions.                                                                *)

Action(account, name, auth, data) ==
  [account |-> account, name |-> name, authorization |-> auth, data |-> data]

(* action_wrapper and its constructors: a user's active permission, a      *)
(* permission, or several of them.                                         *)
permissions(user) ==
  CASE user.by = "name" -> <<<<user.of, "active">>>>
    [] user.by = "level" -> <<user.of>>
    [] user.by = "levels" -> user.of

to_action(handler, user, args) ==
  Action(handler.account, handler.name, permissions(user), deduced(handler, args))

Item(action, cf, receivers, met, inline, free) ==
  [action |-> action, cf |-> cf, receivers |-> receivers, met |-> met,
   inline |-> inline, free |-> free]
New(action, cf) == Item(action, cf, <<action.account>>, {}, <<>>, <<>>)

Init ==
  /\ \E h \in Handlers, u \in Users, args \in Arguments :
       /\ type_check(h, args)
       /\ trx = [context_free_actions |-> <<>>, actions |-> <<to_action(h, u, args)>>]
       /\ work = <<New(to_action(h, u, args), FALSE)>>
       /\ sent = <<[handler |-> h, args |-> args, action |-> to_action(h, u, args)]>>
  /\ frame = <<>> /\ deferred = <<>> /\ got = <<>> /\ aborted = "no"

Abort(why) ==
  /\ aborted' = why /\ work' = <<>> /\ frame' = <<>>
  /\ UNCHANGED <<trx, deferred, sent, got>>

-----------------------------------------------------------------------------
(* Receiving.                                                              *)

Current == Head(work)

(* Mutant: all the parameters are read, the ignored ones too.              *)
ReadsIgnored(handler) == Len(handler.params)

(* The parameters that are read; what ignore<T> stands for is left in the  *)
(* stream the contract is constructed with.                                *)
Reads(handler) == Len(handler.params) - handler.ignored

Run(receiver, handler, args, rest) ==
  /\ frame' = <<[receiver |-> receiver, read |-> <<>>]>>
  /\ got' = Append(got, [receiver |-> receiver, action |-> Current.action,
                         handler |-> handler, args |-> args, rest |-> rest])
  /\ UNCHANGED <<work, trx, deferred, sent, aborted>>

Receiver == Head(Current.receivers)
Due == aborted = "no" /\ frame = <<>> /\ work # <<>> /\ Current.receivers # <<>>

Matching == {h \in Handlers : h.account = Receiver /\ h.name = Current.action.name}

ForThisCode == Current.action.account = Receiver

(* eosio_apply and execute_action.                                         *)
eosio_apply ==
  /\ Due /\ Receiver \notin {Plain, Legacy.account}
  /\ IF ~ForThisCode THEN Abort("notifications not supported by dispatcher")
     ELSE IF Matching = {} THEN Abort("unkown action")
     ELSE \E h \in Matching :
            LET data == Current.action.data IN
            IF Len(data) < Reads(h) THEN Abort("read")
            ELSE Run(Receiver, h, SubSeq(data, 1, Reads(h)), SubSeq(data, Reads(h) + 1, Len(data)))

Handler(account, name, params, ignored) ==
  [account |-> account, name |-> name, params |-> params, ignored |-> ignored]

(* dispatch: the action of an account, whoever is notified of it; the      *)
(* first that matches, and nothing for the others.                         *)
dispatch ==
  /\ Due /\ Receiver = Legacy.account
  /\ <<Current.action.account, Current.action.name>> \in Legacy.takes
  /\ \E h \in Handlers :
       /\ h.account = Current.action.account /\ h.name = Current.action.name
       /\ IF Len(Current.action.data) < Len(h.params) THEN Abort("read")
          ELSE Run(Receiver, Handler(h.account, h.name, h.params, 0), Current.action.data, <<>>)

Received ==
  Item(Current.action, Current.cf, Tail(Current.receivers), Current.met \cup {Receiver},
       Current.inline, Current.free)

NotDispatched ==
  /\ Due
  /\ \/ Receiver = Plain
     \/ /\ Receiver = Legacy.account
        /\ <<Current.action.account, Current.action.name>> \notin Legacy.takes
  /\ work' = <<Received>> \o Tail(work)
  /\ UNCHANGED <<frame, trx, deferred, sent, got, aborted>>

-----------------------------------------------------------------------------
(* What a contract may do while it runs.                                   *)

Running == aborted = "no" /\ frame # <<>>
Sends(h, args) == Running /\ Len(sent) < MaxSends /\ type_check(h, args)

Sent(h, args, action) ==
  sent' = Append(sent, [handler |-> h, args |-> args, action |-> action])

WithCurrent(receivers, inline, free) ==
  work' = <<Item(Current.action, Current.cf, receivers, Current.met, inline, free)>> \o Tail(work)

send(h, user, args) ==
  LET action == to_action(h, user, args) IN
  /\ Sends(h, args) /\ Sent(h, args, action)
  /\ WithCurrent(Current.receivers, Append(Current.inline, New(action, FALSE)), Current.free)
  /\ UNCHANGED <<frame, trx, deferred, got, aborted>>

ContextFree(action) == action.authorization = <<>>

send_context_free(h, user, args) ==
  LET action == to_action(h, user, args) IN
  /\ Sends(h, args)
  /\ IF ~ContextFree(action)
     THEN Abort("context free actions cannot have authorizations")
     ELSE /\ Sent(h, args, action)
          /\ WithCurrent(Current.receivers, Current.inline, Append(Current.free, New(action, TRUE)))
          /\ UNCHANGED <<frame, trx, deferred, got, aborted>>

(* The node forgets the accounts it has met.                               *)
Notified(receivers, account) ==
  IF account \in Range(receivers) \cup Current.met THEN receivers
  ELSE Append(receivers, account)

(* require_recipient, of two accounts: of one, then of the rest.           *)
require_recipient(first, rest) ==
  /\ Running
  /\ WithCurrent(Notified(Notified(Current.receivers, first), rest),
                 Current.inline, Current.free)
  /\ work' # work
  /\ UNCHANGED <<frame, trx, deferred, sent, got, aborted>>

(* get_action asks for the size first, then for the action.                *)
get_action(type, index) ==
  LET q == IF type = 0 THEN trx.context_free_actions ELSE trx.actions IN
  /\ Running
  /\ IF index + 1 \in DOMAIN q
     THEN /\ frame' = <<[receiver |-> frame[1].receiver, read |-> <<q[index + 1]>>]>>
          /\ frame' # frame
          /\ UNCHANGED <<work, trx, deferred, sent, got, aborted>>
     ELSE Abort("get_action size failed")

(* What was deferred will not be run after all.                            *)
Forgotten ==
  IF deferred = <<>> THEN sent
  ELSE RemoveAt(sent, CHOOSE n \in DOMAIN sent : sent[n].action = deferred[1].actions[1])

(* transaction::send, of a transaction with one action.                    *)
send_deferred(h, user, args, replace) ==
  LET action == to_action(h, user, args) IN
  /\ Sends(h, args)
  /\ IF deferred # <<>> /\ ~replace THEN Abort("in flight")
     ELSE /\ sent' = Append(Forgotten, [handler |-> h, args |-> args, action |-> action])
          /\ deferred' = <<[context_free_actions |-> <<>>, actions |-> <<action>>]>>
          /\ UNCHANGED <<work, frame, trx, got, aborted>>

cancel_deferred ==
  /\ Running /\ deferred # <<>> /\ deferred' = <<>>
  /\ sent' = Forgotten
  /\ UNCHANGED <<work, frame, trx, got, aborted>>

(* The contract returns: the node goes on with the next receiver.          *)
Return ==
  /\ Running /\ frame' = <<>>
  /\ work' = <<Received>> \o Tail(work)
  /\ UNCHANGED <<trx, deferred, sent, got, aborted>>

(* All have received the action: what was sent comes next.                 *)
Descend ==
  /\ aborted = "no" /\ frame = <<>> /\ work # <<>> /\ Current.receivers = <<>>
  /\ work' = Current.free \o Current.inline \o Tail(work)
  /\ UNCHANGED <<frame, trx, deferred, sent, got, aborted>>

(* The node runs the deferred transaction.                                 *)
StartDeferred ==
  /\ aborted = "no" /\ work = <<>> /\ deferred # <<>>
  /\ trx' = deferred[1] /\ deferred' = <<>>
  /\ work' = [n \in DOMAIN deferred[1].actions |-> New(deferred[1].actions[n], FALSE)]
  /\ UNCHANGED <<frame, sent, got, aborted>>

Next ==
  \/ eosio_apply \/ dispatch \/ NotDispatched \/ Return \/ Descend
  \/ StartDeferred \/ cancel_deferred
  \/ \E type \in {0, 1}, index \in {0, 1} : get_action(type, index)
  \/ \E a \in {Plain, Legacy.account}, b \in {h.account : h \in Handlers} :
       require_recipient(a, b)
  \/ \E h \in Handlers, user \in Users, args \in Arguments :
       \/ send(h, user, args) \/ send_context_free(h, user, args)
       \/ \E replace \in BOOLEAN : send_deferred(h, user, args, replace)

Spec == Init /\ [][Next]_vars
-----------------------------------------------------------------------------
(* A parameter stands for an argument: numbers keep their value up to the  *)
(* parameter's width, and only numbers are true or false.                  *)
StandsFor(v, arg, u) ==
  CASE u = "bool" -> arg.type \in Integral /\ (v = 1 <=> arg.value # 0)
    [] u = "uint8" -> arg.type \in Integral /\ (arg.value - v) % Width = 0
    [] OTHER -> v = arg.value

Runs(action, account) ==
  Cardinality({n \in DOMAIN got : got[n].action = action /\ got[n].receiver = account})
Sendings(action) == Cardinality({n \in DOMAIN sent : sent[n].action = action})

(* However actions are sent, deferred and notified, a contract runs only   *)
(* for an action somebody sent, with parameters that stand for the         *)
(* sender's arguments and with exactly the ignored ones left in its        *)
(* stream; EOSIO_ACTIONS runs no notification; an action runs at most as   *)
(* often as it was sent, and exactly as often once a transaction that did  *)
(* not fail is over; a context free action carries no authorization; and   *)
(* get_action returns an action as it was sent (action.hpp:85-93, 306-346, *)
(* 363-527; dispatcher.hpp:33-143, 188-202; transaction.hpp:177-187).      *)
ActionsArriveAsSent ==
  /\ \A n \in DOMAIN got : \E m \in DOMAIN sent :
       LET g == got[n]  s == sent[m]  values == g.args \o g.rest IN
       /\ g.action = s.action
       /\ Len(values) = Len(s.args) /\ Len(g.rest) = g.handler.ignored
       /\ \A i \in DOMAIN values : StandsFor(values[i], s.args[i], s.handler.params[i])
       /\ g.receiver # Legacy.account => g.receiver = g.action.account
  /\ \A n \in DOMAIN sent :
       LET action == sent[n].action IN
       /\ Runs(action, action.account) <= Sendings(action)
       /\ work = <<>> /\ frame = <<>> /\ deferred = <<>> /\ aborted = "no" =>
            Runs(action, action.account) = Sendings(action)
  /\ \A n \in DOMAIN work : work[n].cf => work[n].action.authorization = <<>>
  /\ frame # <<>> /\ frame[1].read # <<>> =>
       \E n \in DOMAIN sent : sent[n].action = frame[1].read[1]
=============================================================================
