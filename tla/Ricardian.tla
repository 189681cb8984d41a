------------------------------ MODULE Ricardian ------------------------------
(***************************************************************************)
(* The way of the ricardian contracts of a program: the tokenizer of the   *)
(* plugins (gen.hpp, simple_ricardian_tokenizer) takes the contracts of    *)
(* actions and the clauses from two files beside the program, the plugin   *)
(* puts them in the ABI, and ricardeos.py writes them from the ABI of a    *)
(* contract to files of a directory and reads such files into another.     *)
(*                                                                         *)
(* Text is a sequence of symbols; words are cut short: a tag is written    *)
(* < h 1 c l = q t q >, q being the quote and t the class, and ended by    *)
(* < / h 1 >.  w is white space.                                           *)
(***************************************************************************)
EXTENDS Integers, Sequences, SequencesExt, FiniteSets

CONSTANTS
  Contract,   \* the contracts whose files are in the directory
  ActionsOf,  \* [Contract -> its actions]
  ClauseLike, \* actions whose names begin with clause
  Opening,    \* spellings of a tag that begins a declaration
  Closing,    \* spellings of one that ends it
  Files       \* [Contract -> a text of contracts and one of clauses, or <<>>],
              \* each a sequence of tags and of other pieces of text

VARIABLES
  files,      \* for each contract its two files, or <<>> for none
  abi,        \* for each contract its ABI: the actions' texts, the clauses
  directory,  \* the files that ricardeos writes and reads
  exported,   \* (history) the contracts whose ABI was exported
  imported    \* <<>>, or the last import with what it had to go by

vars == <<files, abi, directory, exported, imported>>

NoText == <<>>
NoAbi(c) == [actions |-> [a \in ActionsOf[c] |-> NoText], clauses |-> <<>>]

-----------------------------------------------------------------------------
(* The tokenizer: a position and the symbols behind it.                    *)

Symbol(s, i) == IF i \in DOMAIN s THEN s[i] ELSE "end"

(* The first place from i on without white space.                          *)
RECURSIVE SkipWhiteSpace(_, _)
SkipWhiteSpace(s, i) == IF Symbol(s, i) = "w" THEN SkipWhiteSpace(s, i + 1) ELSE i

(* How far to go from i; inside a word it is counted from its beginning.   *)
eat_ws(s, i, index) == IF Symbol(s, i) = "w" THEN SkipWhiteSpace(s, i) - index ELSE 0

(* The place behind the word sub, or 0.                                    *)
RECURSIVE Match(_, _, _, _)
Match(s, index, i, sub) ==
  IF sub = <<>> THEN SkipWhiteSpace(s, i)
  ELSE LET at == i + eat_ws(s, i, index) IN
       IF Symbol(s, at) # Head(sub) THEN 0 ELSE Match(s, index, at + 1, Tail(sub))

check(s, index, sub) == IF index = 0 THEN 0 ELSE Match(s, index, index, sub)

RECURSIVE CheckAll(_, _, _)
CheckAll(s, index, words) ==
  IF words = <<>> \/ index = 0 THEN index
  ELSE CheckAll(s, check(s, index, Head(words)), Tail(words))

is_decl(s, index) ==
  CheckAll(s, index, << <<"<">>, <<"h", "1">>, <<"c", "l">>, <<"=">>, <<"q", "t", "q">>, <<">">> >>)

ends_decl(s, index) == CheckAll(s, index, << <<"<">>, <<"/", "h", "1">>, <<">">> >>)

RECURSIVE WithoutEnd(_)
WithoutEnd(s) ==
  IF s # <<>> /\ Last(s) = "w" THEN WithoutEnd(Front(s)) ELSE s

Between(s, i, j) == WithoutEnd(SubSeq(s, i, j - 1))

(* The first of the places from i on, or behind the end.                   *)
FirstFrom(s, i, places) == Min({j \in places : j >= i} \union {Len(s) + 1})

(* get_decl: the name and the place behind the declaration, if any.        *)
get_decl(s, index) ==
  LET before == is_decl(s, index)
      after == FirstFrom(s, before, {j \in DOMAIN s : s[j] = "<"})
  IN IF before = 0 \/ ends_decl(s, after) = 0 THEN <<>>
     ELSE <<Between(s, before, after), ends_decl(s, after)>>

body_end(s, index) == FirstFrom(s, index, {j \in DOMAIN s : is_decl(s, j) # 0})

RECURSIVE parse_from(_, _, _)
parse_from(s, index, found) ==
  LET decl == get_decl(s, index)
      end == body_end(s, decl[2])
  IN IF index > Len(s) THEN found
     ELSE IF decl = <<>> THEN <<>>
     ELSE parse_from(s, end, Append(found, <<decl[1], Between(s, decl[2], end)>>))

parse(s) == parse_from(s, 1, <<>>)

(* parse_contracts: emplace keeps the first of a name.                     *)
TextOf(entries, name) ==
  LET N == {n \in DOMAIN entries : entries[n][1] = name}
  IN IF N = {} THEN NoText ELSE entries[CHOOSE n \in N : \A m \in N : n <= m][2]

-----------------------------------------------------------------------------
Init ==
  /\ files \in Files
  /\ abi = [c \in Contract |-> NoAbi(c)]
  /\ directory = <<>> /\ exported = {} /\ imported = <<>>

(* abigen: add_contracts, add_clauses, and add_action for each action.     *)
Generate(c) ==
  /\ abi[c] = NoAbi(c) /\ files[c] # <<>>
  /\ abi' = [abi EXCEPT ![c] =
       [actions |-> [a \in ActionsOf[c] |-> TextOf(parse(FlattenSeq(files[c][1])), a)],
        clauses |-> parse(FlattenSeq(files[c][2]))]]
  /\ UNCHANGED <<files, directory, exported, imported>>

(* Files are named contract-action-rc.md and contract-clause-id-rc.md.     *)
ActionFile(c, a) == [contract |-> c, action |-> a]
ClauseFile(c, id) == [contract |-> c, clause |-> id]

(* write_rc_file: an existing file is kept only if the answer is n; print  *)
(* ends the text with a new line.                                          *)
write_rc_file(in, file, content, kept) ==
  IF file \in DOMAIN in \cap kept THEN in ELSE (file :> Append(content, "w")) @@ in

export_ricardian_from_abi(c, kept) ==
  LET WithAction(in, a) == write_rc_file(in, ActionFile(c, a), abi[c].actions[a], kept)
      WithClause(in, entry) == write_rc_file(in, ClauseFile(c, entry[1]), entry[2], kept)
  IN /\ abi[c] # NoAbi(c)
     /\ directory' = FoldLeft(WithClause, FoldLeft(WithAction, directory, SetToSeq(ActionsOf[c])),
                              abi[c].clauses)
     /\ exported' = exported \cup {c}
     /\ UNCHANGED <<files, abi, imported>>

ActionFiles(c, a) == {ActionFile(c, a)} \cap DOMAIN directory

(* The files of every contract that match *-clause*-rc.md.                 *)
ClauseFiles ==
  {f \in DOMAIN directory : "clause" \in DOMAIN f \/ f.action \in ClauseLike}

(* The clauses are left as they are, and nothing is said, if a file of     *)
(* these is an action's, or if the ABI was named without its directory.    *)
import_ricardian_to_abi(c, source, bare) ==
  LET actions ==
        [a \in ActionsOf[c] |-> IF ActionFiles(c, a) = {} THEN source.actions[a]
                          ELSE directory[CHOOSE f \in ActionFiles(c, a) : TRUE]]
      broken == bare \/ \E f \in ClauseFiles : "action" \in DOMAIN f
  IN /\ \E clauses \in
             IF broken THEN {source.clauses}
             ELSE {[n \in DOMAIN q |-> <<q[n].clause, directory[q[n]]>>] :
                     q \in SetToSeqs(ClauseFiles)} :
          imported' = <<[of |-> c, source |-> source, bare |-> bare, exported |-> exported,
                         abi |-> [actions |-> actions, clauses |-> clauses]]>>
     /\ UNCHANGED <<files, abi, directory, exported>>

Next ==
  \E c \in Contract :
     \/ Generate(c)
     \/ \E kept \in {{}, DOMAIN directory} : export_ricardian_from_abi(c, kept)
     \/ \E source \in {NoAbi(c), abi[c]}, bare \in BOOLEAN :
          import_ricardian_to_abi(c, source, bare)

Spec == Init /\ [][Next]_vars

-----------------------------------------------------------------------------
(* What a file of contracts or clauses says, by its pieces: every          *)
(* declaration is an opening tag, a name without a tag and a closing tag,  *)
(* and its text goes on to the next declaration; white space around names  *)
(* and texts is not part of them, and nothing else stands before the first *)
(* declaration.  A file that is not written like this says nothing.        *)
Blank(piece) == \A n \in DOMAIN piece : piece[n] = "w"

RECURSIVE Trim(_)
Trim(s) == IF s # <<>> /\ Head(s) = "w" THEN Trim(Tail(s)) ELSE WithoutEnd(s)

Meaning(pieces) ==
  LET Here == {n \in DOMAIN pieces : pieces[n] \in Opening}
      Stops(n) == {k \in DOMAIN pieces : k > n /\ "<" \in ToSet(pieces[k])}
      close(n) == CHOOSE k \in Stops(n) : \A j \in Stops(n) : k <= j
      proper(n) == Stops(n) # {} /\ pieces[close(n)] \in Closing
      Later(n) == {k \in Here : k > n} \cup {Len(pieces) + 1}
      next(n) == CHOOSE k \in Later(n) : \A j \in Later(n) : k <= j
      Part(i, j) == Trim(FlattenSeq(SubSeq(pieces, i, j)))
      Entry(n) == <<Part(n + 1, close(n) - 1), Part(close(n) + 1, next(n) - 1)>>
  IN IF /\ \A n \in Here : proper(n)
        /\ \A n \in DOMAIN pieces : Blank(pieces[n]) \/ \E k \in Here : k <= n
     THEN LET order == SetToSortSeq(Here, <) IN [k \in DOMAIN order |-> Entry(order[k])]
     ELSE <<>>

(* The texts of the two files reach the ABI: each clause, and for each     *)
(* action the first text under its name.                                   *)
FilesReachAbi ==
  \A c \in Contract : abi[c] # NoAbi(c) =>
    /\ abi[c].clauses = Meaning(files[c][2])
    /\ \A a \in ActionsOf[c] :
         LET N == SelectSeq(Meaning(files[c][1]), LAMBDA entry : entry[1] = a)
         IN abi[c].actions[a] = IF N = <<>> THEN NoText ELSE N[1][2]

(* An import gives each action the text its own contract was exported      *)
(* with, and the clauses of every contract exported to the directory, once *)
(* for each name a contract has; the clauses stay as they were only where  *)
(* the ABI was named without its directory or an action's name begins like *)
(* a file of a clause.                                                     *)
ExportsReachImports ==
  imported # <<>> =>
    LET last == imported[1]
        Bodies(c, id) == {abi[c].clauses[n][2] : n \in
                            {k \in DOMAIN abi[c].clauses : abi[c].clauses[k][1] = id}}
        Ids(c) == {abi[c].clauses[n][1] : n \in DOMAIN abi[c].clauses}
        Named == UNION {{<<c, id>> : id \in Ids(c)} : c \in last.exported}
    IN /\ \A a \in ActionsOf[last.of] :
            last.abi.actions[a] =
              IF last.of \in last.exported THEN Append(abi[last.of].actions[a], "w")
              ELSE last.source.actions[a]
       /\ IF last.bare \/ \E c \in last.exported : ActionsOf[c] \cap ClauseLike # {}
          THEN last.abi.clauses = last.source.clauses
          ELSE /\ Len(last.abi.clauses) = Cardinality(Named)
               /\ \A pair \in Named : \E body \in Bodies(pair[1], pair[2]) :
                    <<pair[2], Append(body, "w")>> \in ToSet(last.abi.clauses)

(* On the way from the files beside a program to its ABI, to the files of  *)
(* ricardeos and into another ABI, no contract and no clause is lost, cut  *)
(* or given to another action.                                             *)
TextsArrive == FilesReachAbi /\ ExportsReachImports
=============================================================================
