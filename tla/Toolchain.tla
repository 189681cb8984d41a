----------------------------- MODULE Toolchain ------------------------------
(***************************************************************************)
(* From the translation units of a contract to its ABI and its dispatcher  *)
(* (tools/src/eosio-codegen.cpp).  For every unit the compiler is started  *)
(* with two plugins, the code generator and after it the ABI generator,    *)
(* which leave a description of the unit; then the descriptions are merged *)
(* one after another, and the ABI and the function "apply" are written.    *)
(* Every action but Abigen is one of Dispatcher's together with what it    *)
(* does about the ABI.                                                     *)
(***************************************************************************)
EXTENDS AbiGen, Dispatcher, AbiMerge

CONSTANTS
  KnownMessages, \* the protobuf messages the given schema files define
  AbiVersion     \* the version given to the tool

VARIABLES
  desc_abis,  \* for each of desc_files, what it says besides the handlers
  merged,     \* the ABI merged so far, or Empty
  messages    \* the protobuf messages it refers to

abiVars == <<desc_abis, merged, messages>>
vars == <<genVars, visitorVars, dispatcherVars, abiVars>>

(* The messages that arguments of the contract's functions have.           *)
PbTypes(unit) ==
  {t[2] : t \in {u \in UNION {{unit[i].params[j] : j \in DOMAIN unit[i].params} :
                              i \in {k \in DOMAIN unit : unit[k].kind = "method"}} :
                 u[1] = "pb"}}

AbiPart == [abi |-> to_json, pb_types |-> PbTypes(source)]

-----------------------------------------------------------------------------
InitWith(units) ==
  /\ DispatcherInit(units) /\ Idle
  /\ desc_abis = <<>>
  /\ merged = Empty /\ messages = {}

(* gen_actions: the compiler works on a unit, the code generator first.    *)
StartUnit ==
  /\ walk = "idle" /\ BeginUnit /\ Start(input_files[compiled + 1])
  /\ UNCHANGED abiVars

Codegen == WalkUnit /\ UNCHANGED <<genVars, abiVars>>

Abigen ==
  /\ phase = "compile" /\ codegen \in {"off", "refused"} /\ Walk
  /\ UNCHANGED <<visitorVars, dispatcherVars, abiVars>>

CompilerFails ==
  \/ codegen = "crash" \/ walk \in {"exit", "crash"}
  \/ codegen = "refused" /\ walk = "off"

(* The tool ends with the compiler's exit code.                            *)
GiveUp ==
  /\ phase = "compile" /\ CompilerFails
  /\ Fail /\ UNCHANGED <<genVars, abiVars>>

EndUnit ==
  /\ walk = "off" /\ walk' = "idle"
  /\ LeaveDescription(is_empty)
  /\ desc_abis' = Append(desc_abis, IF is_empty THEN Empty ELSE AbiPart)
  /\ UNCHANGED <<source, decls, stack, evaluated, parsed, abi, ctables, merged, messages>>

-----------------------------------------------------------------------------
(* main                                                                    *)

SkipEmpty ==
  /\ SkipDescription
  /\ desc_abis' = Tail(desc_abis)
  /\ UNCHANGED <<genVars, merged, messages>>

(* ABIMerger: an ABI that is still empty has the version given to the      *)
(* tool, and agrees with everything.                                       *)
Initial == [kind \in Kinds \cup {"version"} |->
              IF kind = "version" THEN AbiVersion ELSE {}]
Abi == IF merged = Empty THEN Initial ELSE merged
Conflict(desc) == MergeFails(Abi, desc.abi)

MergeDesc ==
  LET desc == Head(desc_abis) IN
  /\ AddHandlers /\ ~Conflict(desc)
  /\ merged' = merge(Abi, desc.abi)
  /\ messages' = messages \cup desc.pb_types
  /\ desc_abis' = Tail(desc_abis)
  /\ UNCHANGED genVars

RefuseMerge ==
  /\ phase = "merge" /\ desc_abis # <<>> /\ Head(desc_abis) # Empty
  /\ Conflict(Head(desc_abis))
  /\ Fail /\ UNCHANGED <<genVars, abiVars>>

(* An ABI is written unless there is none, or a message is not known; then *)
(* generate_eosio_dispatch writes the dispatcher.                          *)
AbiIsFine == merged # Empty /\ messages \subseteq KnownMessages

(* Whatever else may be wrong ends the tool with an error: a file that     *)
(* cannot be opened, the dispatcher's by a throw without an exception,     *)
(* which nothing catches, and an ABI that its check does not accept.       *)
Write ==
  /\ phase = "merge" /\ desc_abis = <<>>
  /\ (AbiIsFine /\ WriteDispatcher) \/ Fail
  /\ UNCHANGED <<genVars, abiVars>>

Main == SkipEmpty \/ MergeDesc \/ RefuseMerge \/ Write

Next == StartUnit \/ Codegen \/ Abigen \/ GiveUp \/ EndUnit \/ Main

-----------------------------------------------------------------------------
(* Whoever packs the arguments of an action of the contract by the merged  *)
(* ABI does it as the method of that name unpacks them, in whatever unit   *)
(* that is (eosio-codegen.cpp:358-364, abimerge.hpp:126-149).              *)
MergedAbiDescribes ==
  phase = "done" /\ DistinctNames =>
    \A d \in All("method") :
      Described(merged, TypeNamed(merged.actions, d.action), 4)
        = Arguments(d, 4)

(* What a unit describes is not taken for nothing (abigen.hpp:1050-1069).  *)
NothingIsLost == walk = "off" /\ is_empty => DescribesNothing(source)

(* The compiler does not run out of stack in the types of the program,     *)
(* unless a record is based on an alias of itself (abigen.hpp:1100-1106).  *)
TypesEnd == walk = "crash" => \E r \in abi.structs : RootLoops(r)

(* Arguments, rows and results, of each unit and of all of them: the ABI   *)
(* is all one needs to talk to the contract, whatever types it uses.       *)
AbiDescribesProgram ==
  AbiDescribesUnit /\ MergedAbiDescribes /\ NothingIsLost /\ TypesEnd

(* What happens to the handlers is what Dispatcher says                    *)
(* (eosio-codegen.cpp:254-325, 341-487).                                   *)
ImplementsDispatcher == [][DispatcherNext]_<<visitorVars, dispatcherVars>>

(* Every build ends, with its output or an error                           *)
(* (eosio-codegen.cpp:254-325, 341-492).                                   *)
BuildEnds == <>(phase \in {"done", "failed"})

(* Every build takes steps of the dispatcher, until it ends.               *)
BuildsRun == ImplementsDispatcher /\ BuildEnds

=============================================================================
