--------------------------- MODULE CodegenVisitor ---------------------------
(***************************************************************************)
(* The code generator's walk over one translation unit                     *)
(* (plugins/eosio/codegen.cpp): it collects the handlers of actions and    *)
(* notifications for the dispatcher, and looks for read-only actions that  *)
(* call a host function that writes.                                       *)
(*                                                                         *)
(* A unit is a sequence of declarations.  Those of functions and methods   *)
(* are numbered, and every one is a declaration of its own: a call names   *)
(* the one it was resolved to, a prototype has no body.  The body is a     *)
(* sequence of the statements the walk tells apart:                        *)
(*   <<"call", f>>       an expression that calls f                        *)
(*   <<"call through", v>>  a call through the pointer v                   *)
(*   <<"init", v, f>>    the declaration of v as a pointer to f            *)
(*   <<"assign", v, f>>  an assignment of f to v                           *)
(*   <<"nested", f>>     a call of f anywhere else: in a branch, a loop, a *)
(*                       return, an initializer, an argument               *)
(***************************************************************************)
EXTENDS Integers, Sequences, FiniteSets

CONSTANTS
  Units,       \* the units the plugin may be run on
  ValidNames,  \* the names the node accepts
  MaxFrames    \* the calls of process_function the compiler's stack holds

VARIABLES
  code,              \* the declarations of the unit
  next,              \* the number of the one to visit
  frames,            \* the calls of process_function in progress
  func_calls,        \* which functions are known, and whether they write
  indi_func_map,     \* pointers that stand for a known function
  handlers,          \* full names of the methods that have a handler
  wasm_actions,      \* for the dispatcher: actions and their handlers
  wasm_notifies,     \* for the dispatcher: notifications and their handlers
  read_only_actions, \* the actions marked read_only
  codegen            \* "idle", "on", "error" after one, "crash", "off", "refused"

visitorVars == <<code, next, frames, func_calls, indi_func_map, handlers,
                 wasm_actions, wasm_notifies, read_only_actions, codegen>>

Functions == {"method", "notify", "function"}
FunctionsOf(unit) == {i \in DOMAIN unit : unit[i].kind \in Functions}

Members(s) == {s[i] : i \in DOMAIN s}
CallsIn(body) == {s[2] : s \in {t \in Members(body) : t[1] = "call"}}

(* A function is declared before a call of it is compiled; only a method   *)
(* may be called, within its class, before its declaration, and there are  *)
(* no host functions in a class.                                           *)
DeclaredBeforeCalls(unit) ==
  \A f \in FunctionsOf(unit) : \A g \in CallsIn(unit[f].body) :
    /\ g \in FunctionsOf(unit)
    /\ \/ g < f
       \/ \A h \in FunctionsOf(unit) : unit[h].host => h < f \/ g < h

(* What clang gives the plugin: a unit that it has parsed without error.   *)
Compiles(unit) ==
  /\ unit \in Seq(Members(unit))
  /\ \A f \in FunctionsOf(unit) : unit[f].body \in Seq(Members(unit[f].body))
  /\ DeclaredBeforeCalls(unit)

ASSUME FramesAssumption == MaxFrames \in Nat
ASSUME UnitsAssumption == \A unit \in Units : Compiles(unit)

Ids == FunctionsOf(code)
Body(f) == code[f].body

Known(f) == f \in DOMAIN func_calls
Knows(f, writes) ==
  [g \in DOMAIN func_calls \cup {f} |-> IF g = f THEN writes ELSE func_calls[g]]

(* A function is in the map with a list of its calls that write: the model *)
(* keeps whether the list is empty.                                        *)
Entry(f) == IF Known(f) THEN func_calls ELSE Knows(f, FALSE)
Push(f) == Knows(f, TRUE)

-----------------------------------------------------------------------------
Quiet ==
  /\ code = <<>> /\ next = 1 /\ frames = <<>>
  /\ func_calls = <<>> /\ indi_func_map = {}
  /\ handlers = {} /\ wasm_actions = {} /\ wasm_notifies = {}
  /\ read_only_actions = {}
  /\ codegen = "idle"

(* Every unit is a run of the compiler of its own.                         *)
Begin(unit) ==
  /\ code' = unit /\ next' = 1 /\ frames' = <<>>
  /\ func_calls' = <<>> /\ indi_func_map' = {}
  /\ handlers' = {} /\ wasm_actions' = {} /\ wasm_notifies' = {}
  /\ read_only_actions' = {}
  /\ codegen' = "on"

-----------------------------------------------------------------------------
(* process_function, statement by statement.                               *)

Frame(f, at, tried) == [fn |-> f, at |-> at, tried |-> tried]
Top == Head(frames)
Statement == Body(Top.fn)[Top.at]
AtCall == Top.at <= Len(Body(Top.fn)) /\ Statement[1] = "call"

(* Mutant: the loop does not go on.                                        *)
AdvanceForgets == <<Top>> \o Tail(frames)

Advance == <<Frame(Top.fn, Top.at + 1, FALSE)>> \o Tail(frames)

Walking == codegen \in {"on", "error"} /\ frames # <<>>

(* Mutant: the caller is called again for what is left of it.              *)
DescendAgain ==
  LET f == Statement[2] IN
  /\ Walking /\ AtCall /\ ~Known(f) /\ ~Top.tried
  /\ frames' = <<Frame(f, 1, FALSE), Frame(Top.fn, Top.at, FALSE)>> \o frames
  /\ codegen' = IF Len(frames) > MaxFrames THEN "crash" ELSE codegen
  /\ UNCHANGED <<code, next, func_calls, indi_func_map, handlers, wasm_actions,
                 wasm_notifies, read_only_actions>>

(* A function called for the first time is looked into at once.            *)
Descend ==
  LET f == Statement[2] IN
  /\ Walking /\ AtCall /\ ~Known(f) /\ ~Top.tried
  /\ frames' = <<Frame(f, 1, FALSE), Frame(Top.fn, Top.at, TRUE)>> \o Tail(frames)
  /\ codegen' = IF Len(frames) > MaxFrames THEN "crash" ELSE codegen
  /\ UNCHANGED <<code, next, func_calls, indi_func_map, handlers, wasm_actions,
                 wasm_notifies, read_only_actions>>

(* Mutant: the caller of a function that writes is not one itself.         *)
CallsForgotten(f) ==
  IF Known(f) THEN func_calls ELSE Knows(f, FALSE)

(* What is known after a call of f: looking f up enters it.                *)
Calls(f) ==
  IF Known(f) /\ func_calls[f] THEN Push(Top.fn) ELSE Entry(f)

(* One call that writes is enough.                                         *)
Call ==
  LET f == Statement[2] IN
  /\ Walking /\ AtCall /\ (Known(f) \/ Top.tried)
  /\ func_calls' = Calls(f)
  /\ frames' = IF Known(f) /\ func_calls[f] THEN Tail(frames) ELSE Advance
  /\ UNCHANGED <<code, next, indi_func_map, handlers, wasm_actions,
                 wasm_notifies, read_only_actions, codegen>>

(* process_decl_init: a pointer initialized with a known function.         *)
Initialized(v, f) == IF Known(f) THEN indi_func_map \cup {v} ELSE indi_func_map

(* update_indi_func_map                                                    *)
Assigned(v, f) == IF Known(f) THEN indi_func_map \cup {v} ELSE indi_func_map \ {v}

Pointers(s) ==
  CASE s[1] = "init" -> Initialized(s[2], s[3])
    [] s[1] = "assign" -> Assigned(s[2], s[3])
    [] OTHER -> indi_func_map

(* Any other statement; what is nested is not looked at.                   *)
Other ==
  /\ Walking /\ Top.at <= Len(Body(Top.fn)) /\ ~AtCall
  /\ func_calls' = IF Statement[1] = "call through" /\ Statement[2] \in indi_func_map
                   THEN Push(Top.fn) ELSE func_calls
  /\ indi_func_map' = Pointers(Statement)
  /\ frames' = Advance
  /\ UNCHANGED <<code, next, handlers, wasm_actions, wasm_notifies,
                 read_only_actions, codegen>>

Return ==
  /\ Walking /\ Top.at > Len(Body(Top.fn))
  /\ frames' = Tail(frames)
  /\ UNCHANGED <<code, next, func_calls, indi_func_map, handlers, wasm_actions,
                 wasm_notifies, read_only_actions, codegen>>

-----------------------------------------------------------------------------
(* VisitCXXMethodDecl                                                      *)

Handler(d) == <<d.kind, d.name, d.class>>

(* std::set: an action, or a notification of one contract, has one handler.*)
AddAction(d) ==
  IF \E w \in wasm_actions : w.name = d.action THEN wasm_actions
  ELSE wasm_actions \cup {[name |-> d.action, handler |-> Handler(d)]}

AddNotify(d) ==
  IF \E w \in wasm_notifies : w.name = d.action /\ w.contract = d.contract
  THEN wasm_notifies
  ELSE wasm_notifies \cup
         {[name |-> d.action, contract |-> d.contract, handler |-> Handler(d)]}

(* "*" stands for every contract.                                          *)
validate_name(d) ==
  d.action \in ValidNames
    /\ (d.kind = "notify" => d.contract \in ValidNames \cup {"*"})

Register(d) ==
  /\ handlers' = handlers \cup {Handler(d)}
  /\ wasm_actions' = IF d.kind = "method" /\ Handler(d) \notin handlers
                     THEN AddAction(d) ELSE wasm_actions
  /\ wasm_notifies' = IF d.kind = "notify" /\ Handler(d) \notin handlers
                      THEN AddNotify(d) ELSE wasm_notifies
  /\ codegen' = IF validate_name(d) THEN codegen ELSE "error"

(* VisitFunctionDecl and VisitCXXMethodDecl of the next declaration.       *)
VisitFunction ==
  LET d == code[next] IN
  /\ codegen \in {"on", "error"} /\ frames = <<>> /\ next \in Ids
  /\ next' = next + 1
  /\ IF ~Known(next) /\ d.host
     THEN func_calls' = Push(next) /\ frames' = <<>>
     ELSE frames' = <<Frame(next, 1, FALSE)>> /\ UNCHANGED func_calls
  /\ IF d.kind # "function" THEN Register(d)
     ELSE UNCHANGED <<handlers, wasm_actions, wasm_notifies, codegen>>
  /\ read_only_actions' = IF d.kind = "method" /\ d.read_only
                          THEN read_only_actions \cup {next} ELSE read_only_actions
  /\ UNCHANGED <<code, indi_func_map>>

(* VisitDecl of a global variable, VisitCXXRecordDecl of a contract with   *)
(* data members: those that are initialized with a function.               *)
VisitVariable ==
  LET d == code[next] IN
  /\ codegen \in {"on", "error"} /\ frames = <<>>
  /\ next <= Len(code) /\ next \notin Ids
  /\ next' = next + 1
  /\ indi_func_map' = IF d.kind = "variable" THEN Initialized(d.variable, d.init)
                      ELSE indi_func_map
  /\ UNCHANGED <<code, frames, func_calls, handlers, wasm_actions, wasm_notifies,
                 read_only_actions, codegen>>

(* process_read_only_actions: a read-only action must not be in the map.   *)
Offenders == {a \in read_only_actions : Known(a)}

ProcessReadOnly ==
  /\ codegen \in {"on", "error"} /\ frames = <<>> /\ next > Len(code)
  /\ codegen' = IF Offenders = {} /\ codegen = "on" THEN "off" ELSE "refused"
  /\ UNCHANGED <<code, next, frames, func_calls, indi_func_map, handlers,
                 wasm_actions, wasm_notifies, read_only_actions>>

VisitorStep ==
  \/ VisitFunction \/ VisitVariable \/ Descend \/ Call \/ Other \/ Return
  \/ ProcessReadOnly

(* The plugin on its own: the compiler is run on one unit after another,   *)
(* once the last one was accepted.                                         *)
StartWalk == codegen = "idle" /\ \E unit \in Units : Begin(unit)

EndWalk ==
  /\ codegen = "off" /\ codegen' = "idle"
  /\ UNCHANGED <<code, next, frames, func_calls, indi_func_map, handlers,
                 wasm_actions, wasm_notifies, read_only_actions>>

VisitorNext == StartWalk \/ VisitorStep \/ EndWalk
VisitorSpec == Quiet /\ [][VisitorNext]_visitorVars

-----------------------------------------------------------------------------
(* What a function may call, by the statements the walk looks at, and by   *)
(* any.  A prototype stands for the function it declares.                  *)

Statements(f) == Members(Body(f))
Definitions(f) == {g \in Ids : code[g].name = code[f].name}

Followed == [f \in Ids |-> CallsIn(Body(f))]

Pointed(v) ==
  {s[3] : s \in {t \in UNION {Statements(g) : g \in Ids} :
                t[1] \in {"init", "assign"} /\ t[2] = v}}
  \cup {code[i].init : i \in {j \in DOMAIN code : code[j].kind = "variable"
                                               /\ code[j].variable = v}}

Through(f) == UNION {Pointed(s[2]) : s \in {t \in Statements(f) : t[1] = "call through"}}

Called ==
  [f \in Ids |->
     UNION {Definitions(g) :
              g \in Through(f) \cup {s[2] : s \in {t \in Statements(f) :
                                                 t[1] \in {"call", "nested"}}}}]

(* The functions that S leads to: those in every set that has S and, with  *)
(* a function, all that it calls.                                          *)
Closure(calls, S) ==
  {g \in Ids : \A T \in SUBSET Ids :
     S \subseteq T /\ (\A f \in T : calls[f] \subseteq T) => g \in T}

Hosts == {f \in Ids : code[f].host}
Writes(calls, f) == Closure(calls, {f}) \cap Hosts # {}
ReadOnly == {f \in Ids : code[f].kind = "method" /\ code[f].read_only}

(* The walk is sound for what it looks at: a unit it accepts has no        *)
(* read-only action that reaches a host function that writes through calls *)
(* that are statements of their own (codegen.cpp:259-320, 358-370).        *)
AcceptedCannotWrite ==
  codegen = "off" => \A a \in ReadOnly : ~Writes(Followed, a)

(* A call through a pointer to a function that is itself called somewhere: *)
(* to be called enters a function in the map, whether it writes or not.    *)
Suspect == {f \in Ids : \E g \in Ids : Followed[g] \cap Through(f) # {}}

(* And it has a reason to refuse one: a name, a read-only action that may  *)
(* reach such a function somehow, or a call that looks like one, or one    *)
(* that is called itself (codegen.cpp:157-164, 214-256, 275, 358-370).     *)
RefusedForAReason ==
  codegen = "refused" =>
    \/ \E i \in Ids : code[i].kind # "function" /\ ~validate_name(code[i])
    \/ \E a \in ReadOnly :
         \/ Closure(Called, {a}) \cap (Hosts \cup Suspect) # {}
         \/ \E f \in Ids : a \in Followed[f]

(* The check of read-only actions lets none through that it could see      *)
(* write, and refuses none without a reason.                               *)
ReadOnlyIsSound == AcceptedCannotWrite /\ RefusedForAReason

(* The compiler does not run out of stack in the walk over the functions   *)
(* that call each other, unless one of them reaches itself through calls   *)
(* that are statements: the stack it needs has no more calls than the unit *)
(* has functions (codegen.cpp:259-296).                                    *)
StackSuffices ==
  codegen = "crash" =>
    (\E f \in Ids : f \in Closure(Followed, Followed[f])) \/ Cardinality(Ids) > MaxFrames + 1

(* What the documentation says: no read-only action of a unit that is      *)
(* accepted can write, in whatever way it calls the host function          *)
(* (docs/07_best-practices/08_abi/01_abi-code-generator-attributes-        *)
(* explained.md:115).                                                      *)
ReadOnlyActionsCannotWrite ==
  codegen = "off" => \A a \in ReadOnly : ~Writes(Called, a)

=============================================================================
