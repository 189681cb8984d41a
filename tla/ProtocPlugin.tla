---------------------------- MODULE ProtocPlugin ----------------------------
(***************************************************************************)
(* The plugin of protoc that writes the C++ header of a .proto file        *)
(* (tools/src/zpp-protoc-plugin.cpp).  A struct must be complete where a   *)
(* field of its type is declared, so the plugin moves a message before the *)
(* one that was found to use it.  Messages are numbered in the order they  *)
(* are generated: the nested ones of a message before itself, siblings as  *)
(* they are declared.                                                      *)
(***************************************************************************)
EXTENDS Integers, Sequences, FiniteSets, SequencesExt

CONSTANTS
  Shape,    \* the ways messages are nested: for each its parent, 0 for the file
  MaxFields \* bound: message types used by the fields of one message

VARIABLES
  parent,       \* for each message, the one it is nested in
  uses,         \* for each message, the messages its fields are of
  oneof,        \* a message with a oneof, 0 if there is none
  next,         \* the message generated next
  dependencies, \* for the file and each message, messages used within and by whom
  messages,     \* for the file and each message, the texts of the messages within
  error         \* of the response

input == <<parent, uses, oneof>>
vars == <<input, next, dependencies, messages, error>>

File == 0
Message == DOMAIN parent
Scope == {File} \cup Message

Init ==
  /\ parent \in Shape
  /\ uses \in [DOMAIN parent -> {S \in SUBSET DOMAIN parent : Cardinality(S) <= MaxFields}]
  /\ oneof \in {0, Len(parent)}
  /\ next = 1
  /\ dependencies = [s \in {0} \cup DOMAIN parent |-> [d \in {} |-> 0]]
  /\ messages = [s \in {0} \cup DOMAIN parent |-> <<>>]
  /\ error = FALSE

-----------------------------------------------------------------------------
(* is_recursive: the message d is m, or contains it at any depth.          *)
is_recursive(m, d) ==
  LET up[s \in Scope] == s # File /\ (s = d \/ up[parent[s]]) IN up[m]

(* The dependencies that field_type_name adds for the fields of m; a       *)
(* recursive field becomes a unique_ptr.                                   *)
FieldDependencies(m) == {d \in uses[m] : parent[d] # m /\ ~is_recursive(m, d)}

(* try_emplace of keys that all get one value.                             *)
TryEmplace(f, keys, m) ==
  [d \in DOMAIN f \cup keys |-> IF d \in DOMAIN f THEN f[d] ELSE m]

InfoDependencies(m) == TryEmplace(dependencies[m], FieldDependencies(m), m)

(* Where a message goes among those generated: before its user, if known.  *)
InsertionPoint(m, s) ==
  LET at == {n \in DOMAIN messages[s] :
               m \in DOMAIN dependencies[s] /\ messages[s][n] = dependencies[s][m]}
  IN IF at = {} THEN Len(messages[s]) + 1 ELSE CHOOSE n \in at : TRUE

(* Mutant: messages are written as they come.                              *)
GenerateInOrder(m) ==
  LET s == parent[m] IN
  /\ messages' = [messages EXCEPT ![s] = Append(@, m)]
  /\ dependencies' = [dependencies EXCEPT ![s] = TryEmplace(@, DOMAIN InfoDependencies(m), m)]

generate_message(m) ==
  LET s == parent[m] IN
  /\ messages' = [messages EXCEPT ![s] = InsertAt(@, InsertionPoint(m, s), m)]
  /\ dependencies' = [dependencies EXCEPT ![s] = TryEmplace(@, DOMAIN InfoDependencies(m), m)]

(* "oneof field is not supported yet.", after which the file is given up.  *)
generate_file ==
  /\ next \in Message /\ ~error
  /\ next' = next + 1
  /\ IF next = oneof THEN error' = TRUE /\ UNCHANGED <<dependencies, messages>>
     ELSE generate_message(next) /\ UNCHANGED error
  /\ UNCHANGED input

Spec == Init /\ [][generate_file]_vars

-----------------------------------------------------------------------------
(* Properties.                                                             *)

(* The structs in the order in which they are completed in the header.     *)
Header ==
  LET within[s \in Scope] ==
        FoldLeft(LAMBDA text, m : text \o within[m] \o <<m>>, <<>>, messages[s])
  IN within[File]

(* The message of scope s that is m or contains it, 0 if there is none.    *)
In(s, m) ==
  LET up[t \in Scope] == IF t = File THEN 0 ELSE IF parent[t] = s THEN t ELSE up[parent[t]]
  IN up[m]

Fields == {f \in Message \X Message : f[2] \in uses[f[1]] /\ ~is_recursive(f[1], f[2])}

(* The uses of siblings, and of what is in them, in a scope.               *)
SiblingUses(s) ==
  {<<In(s, f[1]), In(s, f[2]), f[2]>> : f \in
     {f \in Fields : In(s, f[1]) # 0 /\ In(s, f[2]) # 0 /\ In(s, f[1]) # In(s, f[2])}}

(* Whether the plugin's way of ordering is enough: what a message uses is  *)
(* declared before it, unless that message itself was moved forward, or it *)
(* is declared after it and nobody else uses it.                           *)
Orderable ==
  \A s \in Scope : \A u \in SiblingUses(s) :
    IF u[2] < u[1] THEN \A v \in SiblingUses(s) : v[2] = u[1] => v[1] > u[1]
    ELSE u[3] = u[2] /\ \A v \in SiblingUses(s) : v[2] = u[2] => v[1] = u[1]

(* The header holds each message once, and in a file whose messages are    *)
(* declared in an order the plugin can mend, every struct is complete      *)
(* before a field of its type (zpp-protoc-plugin.cpp:290-308, 416-432).    *)
HeaderIsOrdered ==
  next \notin Message /\ ~error =>
    LET place[m \in Message] == CHOOSE n \in DOMAIN Header : Header[n] = m
    IN /\ Len(Header) = Cardinality(Message) /\ ToSet(Header) = Message
       /\ Orderable => \A f \in Fields : place[f[2]] < place[f[1]]
=============================================================================
