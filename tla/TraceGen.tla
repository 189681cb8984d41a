------------------------------ MODULE TraceGen ------------------------------
(***************************************************************************)
(* The tracing of the codegen plugin (plugins/eosio/tracegen.hpp): a       *)
(* visitor collects check points, places of the main file, and the file is *)
(* then copied with a call of printf written at each of them.  What is     *)
(* written is text: what a statement so preceded means to the program      *)
(* depends on where the statement stands.                                  *)
(*                                                                         *)
(* The function modelled has one body, of a few statements, and several    *)
(* declarations.  A statement is a record: its kind k, its place at, <<>>  *)
(* if a macro made it, and its parts.  The lambdas a simple statement      *)
(* calls are in lam if visit_expr finds them and in hid if an expression   *)
(* it does not know, a constructor's, is around them.                      *)
(***************************************************************************)
EXTENDS Integers, Sequences, SequencesExt, FiniteSets

CONSTANTS
  Body,      \* the bodies a function may have: blocks without places
  Redecl     \* the declarations it may have besides its definition

VARIABLES
  level,         \* smart_contract_trace_level: "none", "statement" or "full"
  body,          \* the body of the function
  redecls,       \* its declarations, the definition among them
  todo,          \* the declarations not visited yet
  check_points,  \* places of the statements, and the list at the brace
  output         \* <<>>, or the file that goes on to be compiled

vars == <<level, body, redecls, todo, check_points, output>>

Simple == {"plain", "return"}
Labels == {"label", "case"}
Loops == {"loop", "do"}
NoElse == [k |-> "none", at |-> <<>>]

(* Where the body begins, in the order of the declarations' parameters.    *)
Brace == 10

(* The parts of a statement, and the statement with parts.                 *)
Parts(s) ==
  CASE s.k \in Simple -> s.lam \o s.hid
    [] s.k = "block" -> s.body
    [] s.k = "if" -> <<s.then, s.else>>
    [] s.k \in Loops \cup Labels \cup {"switch", "try"} -> <<s.sub>>
    [] OTHER -> <<>>

(* Statements are placed by their paths in the tree.                       *)
RECURSIVE Place(_, _)
Place(s, path) ==
  LET Sub(n, x) == Place(x, Append(path, n))
      here == IF "macro" \in DOMAIN s THEN <<>> ELSE path
  IN CASE s.k \in Simple ->
            [k |-> s.k, at |-> here,
             lam |-> [n \in DOMAIN s.lam |-> Sub(n, s.lam[n])],
             hid |-> [n \in DOMAIN s.hid |-> Sub(Len(s.lam) + n, s.hid[n])]]
       [] s.k = "block" ->
            [k |-> s.k, at |-> here, body |-> [n \in DOMAIN s.body |-> Sub(n, s.body[n])]]
       [] s.k = "if" -> [k |-> s.k, at |-> here, then |-> Sub(1, s.then), else |-> Sub(2, s.else)]
       [] s.k = "none" -> s
       [] OTHER -> [k |-> s.k, at |-> here, sub |-> Sub(1, s.sub)]

Definition == CHOOSE d \in redecls : d.defines

Init ==
  /\ level \in {"none", "statement", "full"}
  /\ \E b \in Body : body = Place(b, <<1>>)
  /\ \E D \in SUBSET Redecl :
       /\ Cardinality({d \in D : d.defines}) = 1
       /\ \A d, e \in D : Len(d.params) = Len(e.params)
       /\ redecls = D
  /\ todo = redecls
  /\ check_points = [statements |-> {}, brace |-> <<>>]
  /\ output = <<>>

-----------------------------------------------------------------------------
(* visit_stmt and visit_expr: the places they insert.                      *)

RECURSIVE Strip(_)
Strip(s) == IF s.k \in Labels THEN Strip(s.sub) ELSE s

(* Mutant: the bodies of branches and loops are marked, braces or not.     *)
MarkAnyBody(s) ==
  UNION {IF Strip(x).k \in {"block", "none"} THEN {} ELSE {Strip(x).at} : x \in Range(Parts(s))}

(* The children of a block but for blocks, without their labels.           *)
Mark(s) ==
  IF s.k # "block" THEN {}
  ELSE {Strip(x).at : x \in {y \in Range(s.body) : Strip(y).k # "block"}}

(* Where a visit goes on: labels are followed in blocks only.              *)
Visited(s) ==
  CASE s.k = "block" -> {Strip(x) : x \in Range(s.body)}
    [] s.k \in Simple -> Range(s.lam)
    [] s.k \in Loops \cup {"if", "switch"} -> Range(Parts(s))
    [] OTHER -> {}

RECURSIVE visit_stmt(_)
visit_stmt(s) == Mark(s) \cup UNION {visit_stmt(x) : x \in Visited(s)}

(* insert_check_point_by_location leaves out what macros made.             *)
Places(s) == visit_stmt(s) \ {<<>>}

-----------------------------------------------------------------------------
(* visitDecl_for_tracking.                                                 *)

(* The declaration whose parameters stand last before the body.            *)
Nearest(D) == CHOOSE d \in D : \A e \in D : e.loc <= d.loc

correct_fd ==
  LET before == {d \in redecls : d.params # <<>> /\ d.main /\ d.loc < Brace}
  IN IF before = {} THEN <<>> ELSE Nearest(before).params

(* A parameter without a name has a check point at the brace already, and  *)
(* packs are skipped.                                                      *)
Tracked(params) == SelectSeq(params, LAMBDA p : p \notin {"unnamed", "pack"})

(* Only the first visit finds the brace without a check point.             *)
VisitDecl(d) ==
  /\ output = <<>> /\ d \in todo /\ todo' = todo \ {d}
  /\ check_points' =
       IF level = "none" \/ check_points.brace # <<>> THEN check_points
       ELSE [statements |-> check_points.statements \cup Places(body),
             brace |-> <<"func_enter">> \o Tracked(correct_fd)]
  /\ UNCHANGED <<level, body, redecls, output>>

-----------------------------------------------------------------------------
(* inject_debugging_code.  Text before a statement makes two of it; where  *)
(* the grammar takes one, the first takes its place and the second follows *)
(* the whole, or the text is no program any more.                          *)

Reporting(at) == [k |-> "report", at |-> <<>>, of |-> at]
Broken == [k |-> "broken", at |-> <<>>]

RECURSIVE Inject(_, _)
Inject(s, places) ==
  LET In(x) == Inject(x, places)
      Blocks(q) == [n \in DOMAIN q |-> In(q[n])[1]]
      sub == In(s.sub)
      then == In(s.then)
      else == In(s.else)
      rest ==
        CASE s.k \in Simple -> <<[s EXCEPT !.lam = Blocks(@), !.hid = Blocks(@)]>>
          [] s.k = "block" -> <<[s EXCEPT !.body = FlattenSeq([n \in DOMAIN @ |-> In(@[n])])]>>
          [] s.k = "if" ->
               IF Len(then) = 1
               THEN <<[s EXCEPT !.then = then[1], !.else = else[1]]>> \o Tail(else)
               ELSE IF s.else = NoElse THEN <<[s EXCEPT !.then = then[1]]>> \o Tail(then)
               ELSE <<Broken>>
          [] s.k = "do" -> IF Len(sub) = 1 THEN <<[s EXCEPT !.sub = sub[1]]>> ELSE <<Broken>>
          [] s.k \in Labels \cup {"loop", "switch", "try"} ->
               <<[s EXCEPT !.sub = sub[1]]>> \o Tail(sub)
          [] OTHER -> <<s>>
  IN IF s.at # <<>> /\ s.at \in places THEN <<Reporting(s.at)>> \o rest ELSE rest

Injected ==
  IF check_points.brace = <<>> THEN <<[body |-> body, enter |-> FALSE, variables |-> <<>>]>>
  ELSE <<[body |-> Inject(body, check_points.statements)[1], enter |-> TRUE,
          variables |-> IF level = "full" THEN Tail(check_points.brace) ELSE <<>>]>>

(* Without a check point, and if it cannot be opened, the file itself is   *)
(* compiled.                                                               *)
inject_debugging_code(opens) ==
  /\ output = <<>> /\ todo = {}
  /\ output' = IF opens THEN Injected
               ELSE <<[body |-> body, enter |-> FALSE, variables |-> <<>>]>>
  /\ UNCHANGED <<level, body, redecls, todo, check_points>>

Next ==
  \/ \E d \in todo : VisitDecl(d)
  \/ \E opens \in BOOLEAN : inject_debugging_code(opens)

Spec == Init /\ [][Next]_vars

-----------------------------------------------------------------------------
(* What a body does: the sequences of events it can produce, an event      *)
(* being a place where the program does something or the report of one;    *)
(* done tells that it returned.  Places in reports are reported as they    *)
(* are reached.                                                            *)

Outcome(events, done) == [events |-> events, done |-> done]

(* One outcome after another.                                              *)
After(A, B) ==
  {a \in A : a.done} \cup
  {Outcome(a.events \o b.events, b.done) : a \in {x \in A : ~x.done}, b \in B}

Event(s) == {Outcome(<<s.at>>, FALSE)}
Nothing == {Outcome(<<>>, FALSE)}

RECURSIVE Runs(_, _), RunsOf(_, _)
RunsOf(q, reports) ==
  IF q = <<>> THEN Nothing ELSE After(Runs(Head(q), reports), RunsOf(Tail(q), reports))

Runs(s, reports) ==
  LET Of(x) == Runs(x, reports)
      report == IF s.at # <<>> /\ s.at \in reports
                THEN {Outcome(<<<<"report", s.at>>>>, FALSE)} ELSE Nothing
      (* a return in a lambda ends the lambda *)
      Called(q) == {Outcome(o.events, FALSE) : o \in RunsOf(q, reports)}
      own ==
        CASE s.k = "plain" -> After(Called(s.lam \o s.hid), Event(s))
          [] s.k = "return" ->
               After(Called(s.lam \o s.hid), {Outcome(<<s.at>>, TRUE)})
          [] s.k = "block" -> RunsOf(s.body, reports)
          [] s.k = "if" -> After(Event(s), Of(s.then) \cup Of(s.else))
          [] s.k = "loop" ->
            After(Event(s), Nothing \cup Of(s.sub) \cup After(Of(s.sub), Of(s.sub)))
          [] s.k = "do" -> After(Of(s.sub), Event(s))
          [] s.k = "switch" ->
               After(Event(s), Nothing \cup
                 UNION {RunsOf(SubSeq(s.sub.body, n, Len(s.sub.body)), reports) :
                          n \in {m \in DOMAIN s.sub.body : s.sub.body[m].k = "case"}})
          [] s.k \in Labels \cup {"try"} -> Of(s.sub)
          [] s.k = "report" -> {Outcome(<<<<"report", s.of>>>>, FALSE)}
          [] s.k = "none" -> Nothing
          [] OTHER -> {}
  IN IF s.k = "none" THEN Nothing ELSE After(report, own)

(* The statements a trace should show: those directly inside braces, but   *)
(* for blocks, for what macros made and for what stands in a try block, in *)
(* a labelled body without braces or in a lambda that is not called        *)
(* directly.                                                               *)
RECURSIVE Shown(_, _)
Shown(s, braced) ==
  (IF braced /\ s.k \notin Labels \cup {"block", "none"} THEN {s.at} ELSE {}) \cup
  (IF s.k = "try" \/ (s.k \in Labels /\ ~braced) THEN {}
   ELSE UNION {Shown(x, s.k = "block" \/ (s.k \in Labels /\ braced)) :
                 x \in Range(IF s.k \in Simple THEN s.lam ELSE Parts(s))})

(* The file that is compiled does exactly what the contract's does, in     *)
(* every branch, loop and case and under every label, with a report of     *)
(* each statement shown just before it runs; the function is entered once  *)
(* however many declarations of it were visited; and the parameters it     *)
(* prints are those of its definition, each once and all that have a name  *)
(* (tracegen.hpp:50-66, 107-270, 422-491).                                 *)
TraceIsTransparent ==
  output # <<>> =>
    LET traced == output[1].enter
        shown == IF traced THEN Shown(body, FALSE) \ {<<>>} ELSE {}
    IN /\ Runs(output[1].body, {}) = Runs(body, shown)
       /\ output[1].variables =
            IF traced /\ level = "full" THEN Tracked(Definition.params) ELSE <<>>
=============================================================================
