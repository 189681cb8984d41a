----------------------------- MODULE Dispatcher -----------------------------
(***************************************************************************)
(* From the handlers of a contract's units to the function "apply"         *)
(* (tools/src/eosio-codegen.cpp): every unit is compiled on its own and    *)
(* leaves a description with its handlers, or an empty one; the            *)
(* descriptions are then read one after another, and the function that     *)
(* calls the handlers is written.  What a description says of the ABI is   *)
(* added by Toolchain.                                                     *)
(***************************************************************************)
EXTENDS CodegenVisitor

VARIABLES
  input_files,    \* the units of the contract
  compiled,       \* how many of them have been compiled
  desc_files,     \* the handlers in the descriptions still to be read
  all_actions,    \* the actions of the dispatcher
  all_notifies,   \* the notifications of the dispatcher
  phase           \* "compile", "merge", "done", "failed"

dispatcherVars == <<input_files, compiled, desc_files, all_actions, all_notifies, phase>>

Empty == [empty |-> TRUE]

DispatcherInit(units) ==
  /\ input_files = units
  /\ compiled = 0
  /\ desc_files = <<>>
  /\ all_actions = {} /\ all_notifies = {}
  /\ phase = "compile"
  /\ Quiet

-----------------------------------------------------------------------------
(* gen_actions: one unit after another, as long as none fails.             *)

BeginUnit ==
  /\ phase = "compile" /\ codegen = "idle"
  /\ Begin(input_files[compiled + 1])
  /\ UNCHANGED dispatcherVars

WalkUnit ==
  /\ phase = "compile" /\ VisitorStep
  /\ UNCHANGED dispatcherVars

(* An error ends the tool, in the compiler or in main.                     *)
Fail ==
  /\ phase \in {"compile", "merge"}
  /\ phase' = "failed"
  /\ UNCHANGED <<visitorVars, input_files, compiled, desc_files, all_actions, all_notifies>>

(* to_json_debug, if there is anything to describe.                        *)
Description == [wasm_actions |-> wasm_actions, wasm_notifies |-> wasm_notifies]

LeaveDescription(empty) ==
  /\ phase = "compile" /\ codegen = "off"
  /\ desc_files' = Append(desc_files, IF empty THEN Empty ELSE Description)
  /\ compiled' = compiled + 1
  /\ phase' = IF compiled + 1 = Len(input_files) THEN "merge" ELSE "compile"
  /\ codegen' = "idle"
  /\ UNCHANGED <<code, next, frames, func_calls, indi_func_map, handlers, wasm_actions,
                 wasm_notifies, read_only_actions, input_files, all_actions, all_notifies>>

-----------------------------------------------------------------------------
(* main: one description after another, from the front of desc_files; an   *)
(* empty one is skipped.                                                   *)

SkipDescription ==
  /\ phase = "merge" /\ desc_files # <<>> /\ Head(desc_files) = Empty
  /\ desc_files' = Tail(desc_files)
  /\ UNCHANGED <<visitorVars, input_files, compiled, all_actions, all_notifies, phase>>

(* Sets: of two handlers of an action the first stays.                     *)
AddActions(W) == {w \in W : \A a \in all_actions : a.name # w.name}

(* Mutant: notifications are told apart by their action alone.             *)
AddNotifiesByName(W) == {w \in W : \A n \in all_notifies : n.name # w.name}

AddNotifies(W) ==
  {w \in W : \A n \in all_notifies : n.name # w.name \/ n.contract # w.contract}

AddHandlers ==
  LET desc == Head(desc_files) IN
  /\ phase = "merge" /\ desc_files # <<>> /\ desc # Empty
  /\ all_actions' = all_actions \cup AddActions(desc.wasm_actions)
  /\ all_notifies' = all_notifies \cup AddNotifies(desc.wasm_notifies)
  /\ desc_files' = Tail(desc_files)
  /\ UNCHANGED <<visitorVars, input_files, compiled, phase>>

(* generate_eosio_dispatch                                                 *)
WriteDispatcher ==
  /\ phase = "merge" /\ desc_files = <<>>
  /\ phase' = "done"
  /\ UNCHANGED <<visitorVars, input_files, compiled, desc_files, all_actions, all_notifies>>

(* What a description may leave out altogether: a unit with nothing that   *)
(* is sure to be in an ABI (cdt_abi.hpp, abigen.hpp:1050-1069).            *)
DescribesNothing(unit) ==
  \A i \in DOMAIN unit : unit[i].kind \notin {"method", "record", "multi_index"}

DispatcherNext ==
  \/ BeginUnit \/ WalkUnit \/ Fail
  \/ \E empty \in BOOLEAN : (empty => DescribesNothing(code)) /\ LeaveDescription(empty)
  \/ SkipDescription \/ AddHandlers \/ WriteDispatcher

DispatcherSpec ==
  /\ \E units \in Seq(Units) : units # <<>> /\ DispatcherInit(units)
  /\ [][DispatcherNext]_<<visitorVars, dispatcherVars>>

-----------------------------------------------------------------------------
(* The function apply(r, c, a) that is generated: r receives the action a  *)
(* of the contract c.                                                      *)

HandlerIn(W) == (CHOOSE w \in W : TRUE).handler

(* The cases of a switch over the contracts, and its default.              *)
NotifyHandlers(c, a) ==
  LET named == {n \in all_notifies : n.name = a}
      exact == {n \in named : n.contract = c}
  IN IF exact # {} THEN exact ELSE {n \in named : n.contract = "*"}

ActionHandlers(a) == {w \in all_actions : w.name = a}

apply(r, c, a) ==
  IF c = r
  THEN IF ActionHandlers(a) # {} THEN HandlerIn(ActionHandlers(a))
       ELSE IF all_actions # {} /\ r # "eosio" THEN <<"assert">> ELSE <<"nothing">>
  ELSE IF NotifyHandlers(c, a) # {} THEN HandlerIn(NotifyHandlers(c, a))
       ELSE <<"nothing">>

-----------------------------------------------------------------------------
All(kind) ==
  {d \in UNION {{unit[i] : i \in DOMAIN unit} :
                unit \in {input_files[i] : i \in DOMAIN input_files}} :
     d.kind = kind}

Signature(d) == [kind |-> d.kind, name |-> d.name, class |-> d.class,
                 action |-> d.action, params |-> d.params, result |-> d.result]
Interface(d) == [kind |-> d.kind, name |-> d.name, class |-> d.class,
                 action |-> d.action, contract |-> d.contract]

(* No two methods of the contract have the name of a method or an action   *)
(* in common, no two of its records their name without the namespace.      *)
DistinctNames ==
  /\ \A d, e \in All("method") :
       d.name = e.name \/ d.action = e.action => Signature(d) = Signature(e)
  /\ \A d, e \in All("notify") :
       d.name = e.name \/ (d.action = e.action /\ d.contract = e.contract)
         => Interface(d) = Interface(e)

(* An action of the contract calls the method of that name, in whatever    *)
(* unit it is, and any other name none of them                             *)
(* (eosio-codegen.cpp:26-57, 358-371, codegen.cpp:157-184).                *)
MethodsAreCalled ==
  phase = "done" /\ DistinctNames =>
    /\ \A d \in All("method") : apply("self", "self", d.action) = Handler(d)
    /\ \A a \in ValidNames :
         \/ \E d \in All("method") : d.action = a
         \/ apply("self", "self", a) \in {<<"assert">>, <<"nothing">>}

(* A notification calls the handler of its sender's action, or if there is *)
(* none the one for every sender, and no action of the contract.  A unit   *)
(* that describes nothing but handlers may have lost them                  *)
(* (eosio-codegen.cpp:58-83, cdt_abi.hpp:79-93, abigen.hpp:1423).          *)
NotificationsArrive ==
  phase = "done" /\ DistinctNames =>
    \A a \in ValidNames, c \in ValidNames \ {"self"} :
      LET exact == {e \in All("notify") : e.action = a /\ e.contract = c}
          any == {e \in All("notify") : e.action = a /\ e.contract = "*"}
          best == IF exact # {} THEN exact ELSE any
          handler == apply("self", c, a)
      IN \/ \E i \in DOMAIN input_files :
              /\ DescribesNothing(input_files[i])
              /\ \E j \in DOMAIN input_files[i] : input_files[i][j] \in exact \cup any
         \/ best = {} /\ handler = <<"nothing">>
         \/ handler \in {Handler(e) : e \in best}

(* Whatever was read from the units' descriptions, actions and             *)
(* notifications arrive where the program has them.                        *)
CallsArrive == MethodsAreCalled /\ NotificationsArrive

=============================================================================
