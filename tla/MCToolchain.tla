----------------------------- MODULE MCToolchain ----------------------------
(* Contracts of one or two units: one action over every type up to a       *)
(* depth; and units of every kind of declaration, alone and in pairs.      *)
EXTENDS Toolchain

Rec(r) == <<"record", r>>
Int32 == Builtin("int32")
MCAliased ==
  [A |-> <<"vector", Rec("Derived")>>, B |-> Rec("Plain"), C |-> Int32,
   S |-> Rec("Self"), L |-> Rec("Leaf"), P |-> Rec("Part__1")]
MCFields ==
  [Plain |-> <<Int32>>, Child |-> <<Builtin("int8")>>,
   Tree |-> <<Int32, <<"vector", Rec("Tree")>>>>,
   Derived |-> <<<<"optional", Rec("Leaf")>>>>, Leaf |-> <<Int32, <<"enum", "E">>>>,
   Row |-> <<Int32, Rec("Leaf")>>, Longer |-> <<Int32, Rec("Leaf"), Int32>>,
   Self |-> <<Int32>>, Heir |-> <<<<"alias", "S">>>>,
   Part__1 |-> <<Int32>>, Whole |-> <<Rec("Leaf")>>]
MCLabels ==
  [Plain |-> <<"a">>, Child |-> <<"d">>, Tree |-> <<"a", "b">>,
   Derived |-> <<"c">>, Leaf |-> <<"a", "b">>,
   Row |-> <<"k", "l">>, Longer |-> <<"k", "l", "m">>, Self |-> <<"a">>, Heir |-> <<"b">>,
   Part__1 |-> <<"a">>, Whole |-> <<"b">>]
MCBase ==
  [r \in DOMAIN MCFields |->
     CASE r = "Child" -> Rec("Plain") [] r = "Derived" -> <<"alias", "B">>
        [] r = "Heir" -> <<"alias", "S">>
        [] r = "Whole" -> Rec("Part__1")
       [] OTHER -> NoBase]
MCContracts == [hi |-> "who says hi agrees"]
MCUnderlying == [E |-> Builtin("uint8")]
(* The rows of two units share their name; an alias has the name of its    *)
(* record in another namespace.                                            *)
MCBaseName ==
  [n \in DOMAIN MCFields \cup DOMAIN MCAliased \cup {"E"} |->
     CASE n = "Longer" -> "Row" [] n = "L" -> "Leaf" [] OTHER -> n]

-----------------------------------------------------------------------------
Method(name, params, result) ==
  [kind |-> "method", name |-> name, class |-> "C", action |-> name, params |-> params,
   labels |-> [i \in DOMAIN params |-> i], result |-> result, host |-> FALSE,
   read_only |-> FALSE, body |-> <<>>]
Notify(name, contract) ==
  [kind |-> "notify", name |-> name, class |-> "C", action |-> "hi",
   contract |-> contract, host |-> FALSE, body |-> <<>>]
Record(r, table) == [kind |-> "record", record |-> r, action |-> "", table |-> table]
GetTypeName(r) == [kind |-> "get_type_name", record |-> r]

D0 == {Int32, Builtin("int8"), <<"enum", "E">>}
   \cup {Rec(r) : r \in {"Child", "Tree", "Derived", "Leaf"}}
   \cup {<<"alias", a>> : a \in {"A", "B", "C", "L"}}
(* Types with a reserved name, or with one inside.                         *)
Part == Rec("Part__1")
NotOwn ==
  {Part, Rec("Whole"), <<"alias", "P">>, <<"vector", Part>>, <<"extension", Part>>,
   <<"pair", Int32, <<"vector", Part>>>>, <<"map", Part, Int32>>, <<"tuple", Part>>,
   <<"variant", Int32, Part>>, <<"box", Part>>, <<"pair", <<"alias", "P">>, Int32>>}

Unary(S) == {<<k, t>> : k \in {"vector", "optional", "box"}, t \in S}
Binary(S, T) == {<<k, t, u>> : k \in {"pair", "map", "tuple", "variant"}, t \in S, u \in T}
D1 == Unary(D0) \cup Binary(D0, D0) \cup {<<"array", Int32>>}
D2 == D0 \cup D1 \cup Unary(D1) \cup Binary(Unary(D0), D0) \cup Binary({Rec("Plain")}, D1)
  \cup {<<k, t>> : k \in {"extension", "ignore"}, t \in D0 \cup D1}
  \cup {<<"ignore", <<"ignore", t>>>> : t \in D0 \cup {Rec("Plain")}}
  \cup NotOwn


(* One action over every type, with and without names the program gives.   *)
TypeUnits ==
  {<<Method("hi", <<t>>, Void)>> : t \in D2}
  \cup {<<GetTypeName(r), Method("hi", <<t>>, Void)>> :
          t \in D0 \cup D1, r \in {"Plain", "Derived"}}
  \cup {<<Method("hi", <<>>, t)>> : t \in D0 \ {<<"alias", "A">>}}

(* What else a unit may declare.                                           *)
MixedUnits ==
  {<<Method("hi", <<Rec("Leaf")>>, Void)>>,
   <<Method("bye", <<Int32, Rec("Row")>>, Int32), Notify("on_hi", "other")>>,
   <<Method("bye", <<Rec("Longer")>>, Void)>>,
   <<Method("hi", <<<<"pb", "Known">>>>, Rec("Plain")), Notify("on_any", "*")>>,
   <<Method("hi", <<<<"pb", "Unknown">>>>, Void)>>,
   <<Method("not.a.name", <<>>, Void)>>,
   <<Notify("on_hi", "other"), Notify("on_any", "*")>>,
   <<Record("Row", "rows"), [kind |-> "multi_index", record |-> "Row", table |-> "rows"]>>,
   <<Record("Leaf", "leaves"), Record("Row", "row"),
     Notify("on_other", "other"), Notify("on_third", "third"),
     [kind |-> "multi_index", record |-> "Row", table |-> "rows"]>>,
   <<[Record("Leaf", "") EXCEPT !.action = "leaf"], Method("hi", <<Rec("Leaf")>>, Void)>>,
   <<[kind |-> "kv", record |-> "Row", table |-> "rows", keys |-> <<Int32, Rec("Leaf")>>]>>,
   <<[kind |-> "kv", record |-> "Row", table |-> "rows", keys |-> <<Int32>>],
     [kind |-> "kv", record |-> "Leaf", table |-> "rows", keys |-> <<>>]>>,
   <<[kind |-> "kv_map", table |-> "map", value |-> Rec("Tree"), keys |-> <<Int32>>]>>,
   <<GetTypeName("Self"), Method("hi", <<Rec("Heir")>>, Void)>>,
   <<[Method("say__it", <<Int32>>, Part) EXCEPT !.action = "hi"],
     Record("Part__1", "rows")>>}

-----------------------------------------------------------------------------
(* Programs: a host function, a helper and a read-only action, with the    *)
(* helper declared before it is defined, or not.                           *)
Function(name, host, body) ==
  [kind |-> "function", name |-> name, host |-> host, body |-> body]
Bodies(S) == {<<>>} \cup {<<s>> : s \in S} \cup {<<s, t>> : s \in S, t \in S}
Action(body) == [Method("hi", <<>>, Void) EXCEPT !.read_only = TRUE, !.body = body]

HelperBody == Bodies({<<"call", 1>>, <<"nested", 1>>, <<"call", 3>>, <<"call", 4>>})
ActionBody ==
  Bodies({<<"call", 1>>, <<"nested", 1>>, <<"call", 3>>, <<"call", 4>>,
          <<"init", "p", 4>>, <<"assign", "v", 4>>, <<"call through", "p">>,
          <<"call through", "v">>})

Programs ==
  {<<Function("kv_set", TRUE, <<>>),
     [kind |-> "variable", variable |-> "v", init |-> 1],
     Function("help", FALSE, <<>>),
     Function("help", FALSE, h), Action(a)>> : h \in HelperBody, a \in ActionBody}
  \cup {<<Function("kv_set", TRUE, <<>>), Action(<<<<"call", 3>>>>), Function("clean", FALSE, h),
          Function("caller", FALSE, <<<<"call", 2>>>>)>> :
   h \in Bodies({<<"call", 1>>, <<"nested", 1>>})}
  \cup {<<Function("clean", FALSE, <<>>), Function("caller", FALSE, <<<<"call", 1>>>>),
          Function("help", FALSE, <<<<"init", "p", f>>, <<"call through", "p">>>>),
          Action(<<s>>)>> : f \in 1..2, s \in {<<"call", 3>>, <<"nested", 3>>}}

MCUnits == TypeUnits \cup Programs \cup MixedUnits

MCInit ==
  \/ \E unit \in TypeUnits \cup Programs : InitWith(<<unit>>)
  \/ \E units \in MixedUnits \X MixedUnits : InitWith(units)
  \/ \E unit \in MixedUnits : InitWith(<<unit>>)
MCSpec == MCInit /\ [][Next]_vars /\ WF_vars(Next)
=============================================================================
