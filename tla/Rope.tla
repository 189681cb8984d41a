-------------------------------- MODULE Rope --------------------------------
(***************************************************************************)
(* eosio::rope (core/eosio/rope.hpp), strings that are concatenated by     *)
(* sharing nodes and copied only by c_str.  A node is a piece of text or   *)
(* the concatenation of two nodes, the right one of which comes first.     *)
(* Nodes are never freed and may be part of several ropes, and of one rope *)
(* more than once; c_str walks them without recursion and keeps its way    *)
(* back in the nodes.                                                      *)
(***************************************************************************)
EXTENDS Integers, Sequences

CONSTANTS
  Variable, \* the rope objects of the program
  Text,     \* the strings appended, sequences of characters
  Nul,      \* the character that ends a C string
  MaxNodes  \* bound: nodes of all ropes together

VARIABLES
  nodes, \* the nodes, in the order of their creation
  ropes, \* the root and the size of each rope object
  said,  \* for each rope, the characters it was built from
  walk,  \* the loop of c_str
  got    \* what the last call of at or c_str returned

vars == <<nodes, ropes, said, walk, got>>

nullptr == 0

Str(text) == [text |-> text, concat |-> FALSE, left |-> nullptr, right |-> nullptr,
              temp |-> nullptr, temp_left |-> FALSE]
Concat(left, right) == [Str(<<>>) EXCEPT !.concat = TRUE, !.left = left, !.right = right]

Idle == [on |-> FALSE, rope |-> CHOOSE v \in Variable : TRUE, r |-> nullptr,
         down |-> FALSE, off |-> 0, buffer |-> <<>>]
Nothing == [on |-> FALSE, rope |-> CHOOSE v \in Variable : TRUE, from |-> 0, text |-> <<>>]

(* Every object starts as an empty rope.                                   *)
Init ==
  /\ nodes = <<Str(<<>>), Concat(1, nullptr)>>
  /\ ropes = [v \in Variable |-> [root |-> 2, size |-> 0]]
  /\ said = [v \in Variable |-> <<>>]
  /\ walk = Idle
  /\ got = Nothing

Room(n) == Len(nodes) + n <= MaxNodes

(* A new node on top of a string.                                          *)
WithText(text, right) ==
  nodes \o <<Str(text), Concat(Len(nodes) + 1, right)>>

rope(v, text) ==
  /\ ~walk.on /\ Room(2)
  /\ nodes' = WithText(text, nullptr)
  /\ ropes' = [ropes EXCEPT ![v] = [root |-> Len(nodes) + 2, size |-> Len(text)]]
  /\ said' = [said EXCEPT ![v] = text]
  /\ got' = Nothing
  /\ UNCHANGED walk

(* append(s, len) and +=; an array is appended with the zero at its end.   *)
append(v, text) ==
  /\ ~walk.on /\ Room(2)
  /\ nodes' = WithText(text, ropes[v].root)
  /\ ropes' = [ropes EXCEPT ![v] = [root |-> Len(nodes) + 2, size |-> @.size + Len(text)]]
  /\ said' = [said EXCEPT ![v] = @ \o text]
  /\ got' = Nothing
  /\ UNCHANGED walk

AppendArray(v, text) == append(v, text \o <<Nul>>)

(* append of a rope shares all of its nodes, also with itself.             *)
AppendRope(v, w) ==
  /\ ~walk.on /\ Room(1)
  /\ nodes' = Append(nodes, Concat(ropes[w].root, ropes[v].root))
  /\ ropes' = [ropes EXCEPT ![v] = [root |-> Len(nodes) + 1, size |-> @.size + ropes[w].size]]
  /\ said' = [said EXCEPT ![v] = @ \o said[w]]
  /\ got' = Nothing
  /\ UNCHANGED walk

(* The copy that assignments and operator+ take.                           *)
Copy(v, w) ==
  /\ ~walk.on /\ v # w
  /\ ropes' = [ropes EXCEPT ![v] = ropes[w]]
  /\ said' = [said EXCEPT ![v] = said[w]]
  /\ got' = Nothing
  /\ UNCHANGED <<nodes, walk>>

-----------------------------------------------------------------------------
(* at: from the end of the text, the sizes of the pieces are taken off     *)
(* until the index is reached.                                             *)

(* The pieces below a node in the order at visits them.                    *)
Pieces ==
  LET of[n \in 0..Len(nodes)] ==
        IF n = nullptr THEN <<>>
        ELSE IF nodes[n].concat THEN of[nodes[n].left] \o of[nodes[n].right]
        ELSE <<nodes[n].text>>
  IN of

at(v, index) ==
  LET pieces == Pieces[ropes[v].root]
      so_far[n \in 0..Len(pieces)] ==
        IF n = 0 THEN ropes[v].size ELSE so_far[n - 1] - Len(pieces[n])
      n == CHOOSE n \in DOMAIN pieces : so_far[n] <= index /\ index < so_far[n - 1]
  IN <<pieces[n][index - so_far[n] + 1]>>

At(v, index) ==
  /\ ~walk.on /\ index < ropes[v].size
  /\ got' = [on |-> TRUE, rope |-> v, from |-> index, text |-> at(v, index)]
  /\ UNCHANGED <<nodes, ropes, said, walk>>

-----------------------------------------------------------------------------
(* c_str: the call, the turns of its loop, and its return.                 *)

CStr(v) ==
  /\ ~walk.on
  /\ nodes' = [nodes EXCEPT ![ropes[v].root].temp = nullptr]
  /\ walk' = [on |-> TRUE, rope |-> v, r |-> ropes[v].root, down |-> TRUE,
              off |-> ropes[v].size, buffer |-> [i \in 1..ropes[v].size |-> Nul]]
  /\ got' = Nothing
  /\ UNCHANGED <<ropes, said>>

(* Mutant: the way back is kept only where there is none yet.              *)
DescendOnce(child, is_left) ==
  /\ nodes' = [nodes EXCEPT ![walk.r].temp_left = is_left,
                            ![child].temp = IF @ = nullptr THEN walk.r ELSE @]
  /\ walk' = [walk EXCEPT !.r = child, !.down = TRUE]

Descend(child, is_left) ==
  /\ nodes' = [nodes EXCEPT ![walk.r].temp_left = is_left, ![child].temp = walk.r]
  /\ walk' = [walk EXCEPT !.r = child, !.down = TRUE]

Ascend ==
  /\ walk' = [walk EXCEPT !.r = nodes[walk.r].temp, !.down = FALSE]
  /\ UNCHANGED nodes

Down(node) ==
  /\ walk.down /\ node.concat
  /\ \/ node.left # nullptr /\ Descend(node.left, TRUE)
     \/ node.left = nullptr /\ node.right # nullptr /\ Descend(node.right, FALSE)

Place(buffer, off, text) ==
  [i \in DOMAIN buffer |->
     IF i - off \in DOMAIN text THEN text[i - off] ELSE buffer[i]]

Leaf(node) ==
  /\ walk.down /\ ~node.concat
  /\ walk' = [walk EXCEPT !.off = @ - Len(node.text), !.down = FALSE, !.r = node.temp,
                          !.buffer = Place(@, walk.off - Len(node.text), node.text)]
  /\ UNCHANGED nodes

Up(node) ==
  /\ ~walk.down
  /\ IF node.temp_left /\ node.right # nullptr THEN Descend(node.right, FALSE)
     ELSE Ascend

Turn ==
  /\ walk.on /\ walk.r # nullptr
  /\ Down(nodes[walk.r]) \/ Leaf(nodes[walk.r]) \/ Up(nodes[walk.r])
  /\ UNCHANGED <<ropes, said, got>>

Return ==
  /\ walk.on /\ walk.r = nullptr
  /\ got' = [on |-> TRUE, rope |-> walk.rope, from |-> 0, text |-> walk.buffer]
  /\ walk' = Idle
  /\ UNCHANGED <<nodes, ropes, said>>

Next ==
  \/ \E v \in Variable, text \in Text :
       rope(v, text) \/ append(v, text) \/ AppendArray(v, text)
  \/ \E v, w \in Variable : AppendRope(v, w) \/ Copy(v, w)
  \/ \E v \in Variable : \E index \in 0..(ropes[v].size - 1) : At(v, index)
  \/ \E v \in Variable : CStr(v)
  \/ Turn \/ Return

Spec == Init /\ [][Next]_vars

-----------------------------------------------------------------------------
(* A rope is the text it was built from: c_str finds its way through nodes *)
(* that several ropes, or several places of one, share, writes each piece  *)
(* once, into its place of the buffer, and ends exactly at its beginning;  *)
(* at agrees with it; and what is appended to one rope shows in no other   *)
(* (rope.hpp:41-135, 195-214).                                             *)
TextIsWhole ==
  /\ \A v \in Variable : ropes[v].size = Len(said[v])
  /\ walk.off >= 0
  /\ walk.on /\ walk.r = nullptr => walk.off = 0
  /\ got.on => got.text = SubSeq(said[got.rope], got.from + 1, got.from + Len(got.text))
  /\ got.on => got.from + Len(got.text) <= Len(said[got.rope])
  /\ got.on /\ got.from = 0 => Len(got.text) \in {1, Len(said[got.rope])}
=============================================================================
