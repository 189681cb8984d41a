------------------------ MODULE CodegenVisitorProofs ------------------------
(***************************************************************************)
(* The visitor of the code generator and the dispatcher, for every unit,   *)
(* any number of them and any stack.                                       *)
(*                                                                         *)
(* The check of read-only actions is sound for what it looks at: though    *)
(* functions are looked into in the middle of others, through prototypes,  *)
(* before their declaration is visited and again after it, and though a    *)
(* function enters the map by being called.  The walk needs no more stack  *)
(* than there are functions.  And the handlers of all units arrive in the  *)
(* function that is generated.                                             *)
(***************************************************************************)
EXTENDS Dispatcher, FiniteSetTheorems, WellFoundedInduction, TLAPS

(* The functions the walk has found to write; those that do not, as far as *)
(* calls are followed; and those for which there is a reason to think so.  *)
Writing == {f \in DOMAIN func_calls : func_calls[f]}
Harmless == {f \in Ids : ~Writes(Followed, f)}
Justified == {f \in Ids : Closure(Called, {f}) \cap (Hosts \cup Suspect) # {}}
NameInvalid == \E i \in Ids : code[i].kind # "function" /\ ~validate_name(code[i])

CallAt(f, i) == i \in DOMAIN Body(f) /\ Body(f)[i][1] = "call"
Callee(f, i) == Body(f)[i][2]

VisitorTypeOK ==
  /\ Compiles(code)
  /\ next \in Nat \ {0}
  /\ frames \in Seq([fn : Ids, at : Nat \ {0}, tried : BOOLEAN])
  /\ DOMAIN func_calls \subseteq Ids
  /\ func_calls \in [DOMAIN func_calls -> BOOLEAN]
  /\ codegen \in {"idle", "on", "error", "crash", "off", "refused"}

(* Host functions are known from their declaration on, not earlier, and    *)
(* what else is known is classed correctly.                                *)
HostsEntered ==
  /\ \A h \in Hosts : h < next => h \in Writing
  /\ \A h \in Hosts : Known(h) => h < next
KnownAreClassed == DOMAIN func_calls \subseteq Harmless \cup Writing

(* A function that is being walked is none of the host's, declared before  *)
(* those to come; the calls it has passed were harmless, or it is known to *)
(* write.                                                                  *)
Passed(r) ==
  /\ r.fn \notin Hosts
  /\ \A h \in Hosts : next <= h => r.fn < h
  /\ \A i \in 1 .. r.at - 1 :
       CallAt(r.fn, i) => Callee(r.fn, i) \in Harmless \/ r.fn \in Writing
  /\ r.tried => CallAt(r.fn, r.at)
FramesPassed == \A k \in DOMAIN frames : Passed(frames[k])

(* One below another waits at a call of it; the last is the declaration    *)
(* visited; a call that was looked into has been classed.                  *)
FramesLinked ==
  /\ \A k \in 1 .. Len(frames) - 1 :
       /\ frames[k + 1].tried
       /\ Callee(frames[k + 1].fn, frames[k + 1].at) = frames[k].fn
  /\ frames # <<>> => frames[Len(frames)].fn = next - 1
  /\ frames # <<>> /\ frames[1].tried =>
       Callee(frames[1].fn, frames[1].at) \in Harmless \cup Writing

(* What has been visited is classed; the read-only actions among it are    *)
(* remembered; a unit that is accepted has been visited.                   *)
VisitedAreClassed ==
  \A f \in Ids : f < next /\ (frames = <<>> \/ f # next - 1) => f \in Harmless \cup Writing
ActionsRemembered ==
  /\ read_only_actions \subseteq ReadOnly
  /\ \A a \in ReadOnly : a < next => a \in read_only_actions
OffAtEnd ==
  codegen = "off" => frames = <<>> /\ next > Len(code) /\ Offenders = {}

(* There is a reason for everything in the map and for every error.        *)
ReasonsKept ==
  /\ \A g \in DOMAIN func_calls : g \in Justified \/ \E k \in Ids : g \in Followed[k]
  /\ Writing \subseteq Justified
  /\ \A v \in indi_func_map : \E g \in Pointed(v) : Known(g)
  /\ codegen = "error" => NameInvalid

IInv ==
  /\ VisitorTypeOK /\ HostsEntered /\ KnownAreClassed
  /\ FramesPassed /\ FramesLinked /\ VisitedAreClassed
  /\ ActionsRemembered /\ OffAtEnd
  /\ ReasonsKept /\ RefusedForAReason

-----------------------------------------------------------------------------
(* Functions that a function leads to.                                     *)

LEMMA ClosureSelf ==
  ASSUME NEW calls, NEW f \in Ids
  PROVE  f \in Closure(calls, {f})
  BY DEF Closure

(* What a function calls leads to, it leads to.                            *)
LEMMA ClosureStep ==
  ASSUME NEW calls, NEW f \in Ids, NEW g \in calls[f]
  PROVE  Closure(calls, {g}) \subseteq Closure(calls, {f})
  BY DEF Closure

(* A function that does not write leads to a host function only by one     *)
(* that it calls.                                                          *)
LEMMA ClosureLeast ==
  ASSUME NEW calls \in [Ids -> SUBSET Ids], NEW f \in Ids, f \notin Hosts,
         \A g \in calls[f] : Closure(calls, {g}) \cap Hosts = {}
  PROVE  Closure(calls, {f}) \cap Hosts = {}
<1> DEFINE C(g) == Closure(calls, {g})
           T == {x \in Ids : x = f \/ \E g \in calls[f] : x \in C(g)}
<1>1. \A g, x \in Ids : x \in C(g) => calls[x] \subseteq C(g)
  BY DEF Closure
<1>2. \A g \in calls[f] : g \in C(g)
  BY ClosureSelf
<1> HIDE DEF C
<1>3. \A x \in T : calls[x] \subseteq T
  BY <1>1, <1>2
<1>4. f \in T /\ T \in SUBSET Ids
  OBVIOUS
<1>5. T \cap Hosts = {}
  BY DEF C
<1> HIDE DEF T
<1>6. Closure(calls, {f}) \subseteq T
  BY <1>3, <1>4 DEF Closure
<1> QED
  BY <1>5, <1>6

(* The calls that are followed are calls, of functions of the unit.        *)
LEMMA CalleeFollowed ==
  ASSUME Compiles(code), NEW f \in Ids, NEW i, CallAt(f, i)
  PROVE  Callee(f, i) \in Followed[f] /\ Callee(f, i) \in Ids
  BY DEF Compiles, DeclaredBeforeCalls, Ids, Followed, CallsIn, Members, CallAt, Callee,
     Body

LEMMA FollowedIsCalled ==
  ASSUME Compiles(code), NEW f \in Ids, NEW g \in Followed[f]
  PROVE  \E i : CallAt(f, i) /\ g = Callee(f, i)
  BY DEF Followed, CallsIn, Members, CallAt, Callee, Body

LEMMA FollowedType ==
  Compiles(code) => Followed \in [Ids -> SUBSET Ids]
  BY DEF Compiles, DeclaredBeforeCalls, Ids, Followed, Body

(* A function all of whose calls are harmless is.                          *)
LEMMA HarmlessStep ==
  ASSUME Compiles(code), NEW f \in Ids, f \notin Hosts,
         \A i : CallAt(f, i) => Callee(f, i) \in Harmless
  PROVE  f \in Harmless
<1>1. \A g \in Followed[f] : Closure(Followed, {g}) \cap Hosts = {}
  BY FollowedIsCalled DEF Harmless, Writes
<1>2. Closure(Followed, {f}) \cap Hosts = {}
  BY <1>1, FollowedType, ClosureLeast
<1> QED
  BY <1>2 DEF Harmless, Writes

(* There is a reason for what a call of it is a reason for.                *)
LEMMA JustifiedBase == Hosts \cup Suspect \subseteq Justified
<1>1. Hosts \cup Suspect \subseteq Ids
  BY DEF Hosts, Suspect
<1> QED
  BY <1>1, ClosureSelf DEF Justified

LEMMA JustifiedStep ==
  ASSUME NEW f \in Ids, NEW g \in Justified,
         g \in Through(f) \/ g \in Followed[f]
  PROVE  f \in Justified
<1>1. g \in Called[f]
  BY DEF Called, Followed, Justified, Definitions, CallsIn, Statements
<1>2. Closure(Called, {g}) \subseteq Closure(Called, {f})
  BY <1>1, ClosureStep
<1> QED
  BY <1>2 DEF Justified

(* A call through a pointer to a function that is in the map.              *)
LEMMA ThroughJustified ==
  ASSUME NEW f \in Ids, NEW g \in Through(f),
         g \in Justified \/ \E k \in Ids : g \in Followed[k]
  PROVE  f \in Justified
  BY JustifiedStep, JustifiedBase DEF Suspect

-----------------------------------------------------------------------------
(* What a step does to the map and to the stack.                           *)

LEMMA CodeStays ==
  ASSUME code' = code
  PROVE  /\ Ids' = Ids /\ Hosts' = Hosts /\ ReadOnly' = ReadOnly
         /\ Followed' = Followed /\ Harmless' = Harmless
         /\ Called' = Called /\ Suspect' = Suspect /\ Justified' = Justified
         /\ \A v : Pointed(v)' = Pointed(v)
         /\ NameInvalid' <=> NameInvalid
         /\ Compiles(code)' <=> Compiles(code)
<1>1. Ids' = Ids /\ Hosts' = Hosts /\ ReadOnly' = ReadOnly /\ Followed' = Followed
  BY DEF Ids, Hosts, ReadOnly, Followed, Body
<1>2. \A v : Pointed(v)' = Pointed(v)
  BY <1>1 DEF Pointed, Statements, Body
<1>3. \A f : Through(f)' = Through(f)
  BY <1>1, <1>2 DEF Through, Statements, Body
<1>4. \A f : Definitions(f)' = Definitions(f)
  BY <1>1 DEF Definitions
<1>5. Called' = Called
  BY <1>1, <1>3, <1>4 DEF Called, Statements, Body
<1>6. Suspect' = Suspect
  BY <1>1, <1>3 DEF Suspect
<1>7. Harmless' = Harmless
  BY <1>1 DEF Harmless, Writes, Closure
<1>8. Justified' = Justified
  BY <1>1, <1>5, <1>6 DEF Justified, Closure
<1>9. (NameInvalid' <=> NameInvalid) /\ (Compiles(code)' <=> Compiles(code))
  BY <1>1 DEF NameInvalid
<1> QED
  BY <1>1, <1>2, <1>5, <1>6, <1>7, <1>8, <1>9

LEMMA KnowsWrites ==
  ASSUME VisitorTypeOK, NEW f \in Ids, func_calls' = Knows(f, TRUE)
  PROVE  /\ DOMAIN func_calls' = DOMAIN func_calls \cup {f}
         /\ func_calls' \in [DOMAIN func_calls' -> BOOLEAN]
         /\ Writing' = Writing \cup {f}
  BY DEF VisitorTypeOK, Knows, Writing

LEMMA KnowsHarmless ==
  ASSUME VisitorTypeOK, NEW f \in Ids, f \notin DOMAIN func_calls,
         func_calls' = Knows(f, FALSE)
  PROVE  /\ DOMAIN func_calls' = DOMAIN func_calls \cup {f}
         /\ func_calls' \in [DOMAIN func_calls' -> BOOLEAN]
         /\ Writing' = Writing
  BY DEF VisitorTypeOK, Knows, Writing

LEMMA MapStays ==
  ASSUME func_calls' = func_calls
  PROVE  /\ DOMAIN func_calls' = DOMAIN func_calls
         /\ Writing' = Writing
  BY DEF Writing

FrameType == [fn : Ids, at : Nat \ {0}, tried : BOOLEAN]

LEMMA PushFrame ==
  ASSUME NEW S, NEW s \in Seq(S), NEW r \in S
  PROVE  /\ <<r>> \o s \in Seq(S)
         /\ Len(<<r>> \o s) = Len(s) + 1
         /\ (<<r>> \o s)[1] = r
         /\ \A k \in 2 .. Len(s) + 1 : (<<r>> \o s)[k] = s[k - 1]
  OBVIOUS

LEMMA PushTwo ==
  ASSUME NEW S, NEW s \in Seq(S), NEW r \in S, NEW q \in S
  PROVE  /\ <<r, q>> \o s \in Seq(S)
         /\ Len(<<r, q>> \o s) = Len(s) + 2
         /\ (<<r, q>> \o s)[1] = r /\ (<<r, q>> \o s)[2] = q
         /\ \A k \in 3 .. Len(s) + 2 : (<<r, q>> \o s)[k] = s[k - 2]
  OBVIOUS

LEMMA PopFrame ==
  ASSUME NEW S, NEW s \in Seq(S), s # <<>>
  PROVE  /\ Tail(s) \in Seq(S)
         /\ Len(Tail(s)) = Len(s) - 1
         /\ \A k \in 1 .. Len(s) - 1 : Tail(s)[k] = s[k + 1]
         /\ Len(s) \in Nat \ {0} /\ Head(s) = s[1] /\ s[1] \in S
  OBVIOUS

LEMMA ReplaceTop ==
  ASSUME NEW S, NEW s \in Seq(S), s # <<>>, NEW r \in S
  PROVE  LET new == <<r>> \o Tail(s) IN
         /\ new \in Seq(S) /\ Len(new) = Len(s) /\ new[1] = r
         /\ \A k \in 2 .. Len(s) : new[k] = s[k]
<1>1. /\ Tail(s) \in Seq(S) /\ Len(Tail(s)) = Len(s) - 1 /\ Len(s) \in Nat \ {0}
      /\ \A k \in 1 .. Len(s) - 1 : Tail(s)[k] = s[k + 1]
  BY PopFrame
<1>2. /\ <<r>> \o Tail(s) \in Seq(S)
      /\ Len(<<r>> \o Tail(s)) = Len(Tail(s)) + 1
      /\ (<<r>> \o Tail(s))[1] = r
      /\ \A k \in 2 .. Len(Tail(s)) + 1 : (<<r>> \o Tail(s))[k] = Tail(s)[k - 1]
  BY <1>1, PushFrame
<1>3. \A k \in 2 .. Len(s) : (<<r>> \o Tail(s))[k] = s[k]
  BY <1>1, <1>2
<1> QED
  BY <1>1, <1>2, <1>3

-----------------------------------------------------------------------------
(* Steps, one by one.                                                      *)

LEMMA IdsAreNumbers == Compiles(code) => Ids \subseteq Nat \ {0} /\ \A f \in Ids : f <= Len(code)
  BY DEF Compiles, Ids, FunctionsOf

LEMMA VisitFunctionKeeps ==
  ASSUME IInv, VisitFunction
  PROVE  IInv'
<1> DEFINE d == code[next]
           host == ~Known(next) /\ d.host
<1>1. /\ code' = code /\ next' = next + 1 /\ next \in Ids /\ frames = <<>>
      /\ codegen \in {"on", "error"} /\ indi_func_map' = indi_func_map
      /\ host => func_calls' = Push(next) /\ frames' = <<>>
      /\ ~host => frames' = <<Frame(next, 1, FALSE)>> /\ func_calls' = func_calls
      /\ codegen' \in {codegen, "error"}
      /\ codegen' = "error" => codegen = "error" \/ NameInvalid
  BY DEF VisitFunction, Register, NameInvalid
<1>2. Compiles(code) /\ Ids \subseteq Nat \ {0} /\ next \in Nat \ {0} /\ Hosts \subseteq Ids
  BY IdsAreNumbers DEF IInv, VisitorTypeOK, Hosts
<1>3. host <=> next \in Hosts
  BY <1>1, <1>2 DEF IInv, HostsEntered, Hosts, Known
<1>4. next \in Hosts =>
        /\ DOMAIN func_calls' = DOMAIN func_calls \cup {next}
        /\ func_calls' \in [DOMAIN func_calls' -> BOOLEAN]
        /\ Writing' = Writing \cup {next}
  BY <1>1, <1>3, KnowsWrites DEF IInv, Push
<1>5. next \notin Hosts =>
        /\ DOMAIN func_calls' = DOMAIN func_calls
        /\ func_calls' = func_calls
        /\ Writing' = Writing
  BY <1>1, <1>3, MapStays
<1>7. Frame(next, 1, FALSE) \in FrameType
  BY <1>1 DEF Frame, FrameType
<1>6. /\ frames' \in Seq(FrameType)
      /\ \/ next \in Hosts /\ frames' = <<>>
         \/ /\ next \notin Hosts /\ frames' # <<>> /\ Len(frames') = 1
            /\ frames'[1] = [fn |-> next, at |-> 1, tried |-> FALSE]
  <2>1. \A r \in FrameType :
          <<r>> \in Seq(FrameType) /\ Len(<<r>>) = 1 /\ <<r>>[1] = r /\ <<r>> # <<>>
    OBVIOUS
  <2>2. <<>> \in Seq(FrameType)
    OBVIOUS
  <2>3. CASE next \in Hosts
    BY <1>1, <1>3, <2>2, <2>3
  <2>4. CASE next \notin Hosts
    <3>1. frames' = <<Frame(next, 1, FALSE)>>
      BY <1>1, <1>3, <2>4
    <3> QED
      BY <1>7, <2>1, <2>4, <3>1 DEF Frame
  <2> QED
    BY <2>3, <2>4
<1>20. /\ Ids' = Ids /\ Hosts' = Hosts /\ ReadOnly' = ReadOnly
       /\ Followed' = Followed /\ Harmless' = Harmless
       /\ Called' = Called /\ Suspect' = Suspect /\ Justified' = Justified
       /\ \A v : Pointed(v)' = Pointed(v)
       /\ NameInvalid' <=> NameInvalid
       /\ Compiles(code)' <=> Compiles(code)
  BY <1>1, CodeStays
<1> USE <1>20
<1> HIDE DEF host, d
<1>8. VisitorTypeOK'
  BY <1>1, <1>2, <1>4, <1>5, <1>6 DEF IInv, VisitorTypeOK, FrameType
<1>9. HostsEntered'
  BY <1>1, <1>2, <1>4, <1>5 DEF IInv, HostsEntered, Known
<1>10. KnownAreClassed'
  BY <1>1, <1>4, <1>5 DEF IInv, KnownAreClassed
<1>11. FramesPassed'
  BY <1>1, <1>2, <1>6 DEF FramesPassed, Passed, Frame
<1>12. FramesLinked'
  BY <1>1, <1>2, <1>6 DEF FramesLinked, Frame
<1>13. VisitedAreClassed'
  BY <1>1, <1>2, <1>4, <1>5, <1>6 DEF IInv, VisitedAreClassed
<1>14. ActionsRemembered'
  <2>1. read_only_actions' = IF next \in ReadOnly THEN read_only_actions \cup {next}
                             ELSE read_only_actions
    BY <1>1 DEF VisitFunction, ReadOnly
  <2>2. ReadOnly \subseteq Nat
    BY <1>2 DEF ReadOnly
  <2>3. \A a \in ReadOnly : a < next + 1 => a < next \/ a = next
    BY <1>2, <2>2
  <2>4. ActionsRemembered
    BY DEF IInv
  <2> QED
    BY <1>1, <2>1, <2>3, <2>4 DEF ActionsRemembered
<1>15. OffAtEnd' /\ RefusedForAReason'
  BY <1>1 DEF OffAtEnd, RefusedForAReason
<1>16. ReasonsKept'
  BY <1>1, <1>4, <1>5, JustifiedBase DEF IInv, ReasonsKept, Known
<1> QED
  BY <1>8, <1>9, <1>10, <1>11, <1>12, <1>13, <1>14, <1>15, <1>16 DEF IInv

LEMMA VisitVariableKeeps ==
  ASSUME IInv, VisitVariable
  PROVE  IInv'
<1>1. /\ code' = code /\ next' = next + 1 /\ next \notin Ids /\ frames = <<>>
      /\ frames' = frames /\ func_calls' = func_calls /\ codegen' = codegen
      /\ codegen \in {"on", "error"} /\ read_only_actions' = read_only_actions
      /\ next \in Nat \ {0} /\ next <= Len(code)
  BY DEF VisitVariable, IInv, VisitorTypeOK
<1>2. /\ Compiles(code) /\ Ids \subseteq Nat \ {0} /\ Hosts \subseteq Ids
      /\ ReadOnly \subseteq Ids /\ next \in DOMAIN code
  BY <1>1, IdsAreNumbers DEF IInv, VisitorTypeOK, Hosts, ReadOnly, Compiles
<1>3. Writing' = Writing
  BY <1>1, MapStays
<1>4. \A v \in indi_func_map' : \E g \in Pointed(v) : Known(g)
  BY <1>1, <1>2 DEF IInv, ReasonsKept, VisitVariable, Initialized, Pointed
<1>20. /\ Ids' = Ids /\ Hosts' = Hosts /\ ReadOnly' = ReadOnly
       /\ Followed' = Followed /\ Harmless' = Harmless
       /\ Called' = Called /\ Suspect' = Suspect /\ Justified' = Justified
       /\ \A v : Pointed(v)' = Pointed(v)
       /\ NameInvalid' <=> NameInvalid
       /\ Compiles(code)' <=> Compiles(code)
  BY <1>1, CodeStays
<1> USE <1>20
<1>5. VisitorTypeOK' /\ HostsEntered' /\ KnownAreClassed'
  BY <1>1, <1>2, <1>3 DEF IInv, VisitorTypeOK, HostsEntered, KnownAreClassed, Known
<1>6. FramesPassed' /\ FramesLinked'
  BY <1>1 DEF FramesPassed, FramesLinked
<1>7. VisitedAreClassed' /\ ActionsRemembered'
  BY <1>1, <1>2, <1>3 DEF IInv, VisitedAreClassed, ActionsRemembered
<1>8. OffAtEnd' /\ RefusedForAReason'
  BY <1>1 DEF OffAtEnd, RefusedForAReason
<1>9. ReasonsKept'
  BY <1>1, <1>3, <1>4 DEF IInv, ReasonsKept, Known
<1> QED
  BY <1>5, <1>6, <1>7, <1>8, <1>9 DEF IInv

LEMMA ProcessReadOnlyKeeps ==
  ASSUME IInv, ProcessReadOnly
  PROVE  IInv'
<1>1. /\ code' = code /\ next' = next /\ frames = <<>> /\ frames' = frames
      /\ func_calls' = func_calls /\ indi_func_map' = indi_func_map
      /\ read_only_actions' = read_only_actions /\ next > Len(code)
      /\ codegen' \in {"off", "refused"}
      /\ codegen' = "off" => Offenders = {}
      /\ codegen' = "refused" => Offenders # {} \/ codegen = "error"
  BY DEF ProcessReadOnly
<1>2. Writing' = Writing
  BY <1>1, MapStays
<1>20. /\ Ids' = Ids /\ Hosts' = Hosts /\ ReadOnly' = ReadOnly
       /\ Followed' = Followed /\ Harmless' = Harmless
       /\ Called' = Called /\ Suspect' = Suspect /\ Justified' = Justified
       /\ \A v : Pointed(v)' = Pointed(v)
       /\ NameInvalid' <=> NameInvalid
       /\ Compiles(code)' <=> Compiles(code)
  BY <1>1, CodeStays
<1> USE <1>20
<1>3. VisitorTypeOK' /\ HostsEntered' /\ KnownAreClassed'
  BY <1>1, <1>2 DEF IInv, VisitorTypeOK, HostsEntered, KnownAreClassed, Known
<1>4. FramesPassed' /\ FramesLinked'
  BY <1>1 DEF FramesPassed, FramesLinked, IInv, VisitorTypeOK
<1>5. VisitedAreClassed' /\ ActionsRemembered' /\ OffAtEnd'
  BY <1>1, <1>2 DEF IInv, VisitedAreClassed, ActionsRemembered, OffAtEnd, Offenders, Known
<1>6. ReasonsKept'
  BY <1>1, <1>2 DEF IInv, ReasonsKept, Known
<1>7. codegen' = "refused" =>
        \/ NameInvalid
        \/ \E a \in ReadOnly :
             \/ Closure(Called, {a}) \cap (Hosts \cup Suspect) # {}
             \/ \E f \in Ids : a \in Followed[f]
  BY <1>1 DEF IInv, ReasonsKept, ActionsRemembered, Offenders, Known, Justified
<1>8. RefusedForAReason'
  BY <1>7 DEF RefusedForAReason, NameInvalid, Closure
<1> QED
  BY <1>3, <1>4, <1>5, <1>6, <1>8 DEF IInv

(* The frame on top, in a walk over statements.                            *)
LEMMA TopIs ==
  ASSUME IInv, Walking
  PROVE  /\ Top = frames[1] /\ Len(frames) \in Nat \ {0}
         /\ Top.fn \in Ids \ Hosts /\ Top.at \in Nat \ {0} /\ Passed(Top)
         /\ frames \in Seq(FrameType)
         /\ Body(Top.fn) \in Seq(Members(Body(Top.fn)))
         /\ AtCall <=> CallAt(Top.fn, Top.at)
         /\ Statement = Body(Top.fn)[Top.at]
         /\ AtCall => Statement[2] = Callee(Top.fn, Top.at)
                        /\ Statement[2] \in Followed[Top.fn] /\ Statement[2] \in Ids
         /\ Len(Body(Top.fn)) \in Nat /\ DOMAIN Body(Top.fn) = 1 .. Len(Body(Top.fn))
<1>1. frames \in Seq(FrameType) /\ frames # <<>> /\ Compiles(code)
  BY DEF IInv, VisitorTypeOK, FrameType, Walking
<1>2. Top = frames[1] /\ Top \in FrameType /\ Len(frames) \in Nat \ {0}
  BY <1>1 DEF Top
<1>3. Passed(Top)
  BY <1>1, <1>2 DEF IInv, FramesPassed
<1>4. Top.fn \in Ids \ Hosts /\ Top.at \in Nat \ {0}
  BY <1>2, <1>3 DEF FrameType, Passed
<1>5. Body(Top.fn) \in Seq(Members(Body(Top.fn)))
  BY <1>1, <1>4 DEF Compiles, Ids, Body
<1>6. Len(Body(Top.fn)) \in Nat /\ DOMAIN Body(Top.fn) = 1 .. Len(Body(Top.fn))
  BY <1>5
<1>7. AtCall <=> CallAt(Top.fn, Top.at)
  BY <1>4, <1>6 DEF AtCall, CallAt, Statement
<1>8. Statement = Body(Top.fn)[Top.at]
  BY DEF Statement
<1>9. CallAt(Top.fn, Top.at) => Callee(Top.fn, Top.at) \in Followed[Top.fn]
                                 /\ Callee(Top.fn, Top.at) \in Ids
  BY <1>1, <1>4, CalleeFollowed
<1> QED
  BY <1>1, <1>2, <1>3, <1>4, <1>5, <1>6, <1>7, <1>8, <1>9 DEF Callee

(* What only says that a step is one of the walk over statements.          *)
StepInside ==
  /\ code' = code /\ next' = next /\ read_only_actions' = read_only_actions
  /\ codegen' \in {codegen, "crash"}

LEMMA RestKept ==
  ASSUME IInv, Walking, StepInside
  PROVE  ActionsRemembered' /\ OffAtEnd' /\ RefusedForAReason'
<1>1. code' = code /\ ReadOnly' = ReadOnly
  BY CodeStays DEF StepInside
<1>2. codegen' \in {"on", "error", "crash"}
  BY DEF StepInside, Walking
<1> QED
  BY <1>1, <1>2 DEF IInv, StepInside, ActionsRemembered, OffAtEnd, RefusedForAReason

(* A frame that has passed its calls still has, on whatever level.         *)
LEMMA PassedStays ==
  ASSUME code' = code, next' = next, Writing \subseteq Writing',
         FramesPassed, NEW j \in DOMAIN frames, NEW k \in DOMAIN frames',
         frames'[k] = frames[j]
  PROVE  Passed(frames[k])'
<1>1. Passed(frames[j])
  BY DEF FramesPassed
<1>2. Hosts' = Hosts /\ Harmless' = Harmless
  BY CodeStays
<1> QED
  BY <1>1, <1>2 DEF Passed, CallAt, Callee, Body

(* The frame on top is done: what it is of has been classed.               *)
LEMMA PopKeeps ==
  ASSUME IInv, Walking, StepInside, Writing \subseteq Writing',
         frames' = Tail(frames), Top.fn \in Harmless \cup Writing'
  PROVE  FramesPassed' /\ FramesLinked' /\ VisitedAreClassed' /\ frames' \in Seq(FrameType)
<1>1. /\ frames \in Seq(FrameType) /\ frames # <<>> /\ Top = frames[1]
      /\ Len(frames) \in Nat \ {0} /\ DOMAIN frames = 1 .. Len(frames)
  BY TopIs DEF Walking
<1>2. /\ frames' \in Seq(FrameType) /\ Len(frames') = Len(frames) - 1
      /\ \A k \in 1 .. Len(frames) - 1 : frames'[k] = frames[k + 1]
      /\ DOMAIN frames' = 1 .. Len(frames') /\ (frames' = <<>> <=> Len(frames') = 0)
  BY <1>1, PopFrame
<1>3. /\ code' = code /\ next' = next /\ Ids' = Ids /\ Harmless' = Harmless
      /\ FramesPassed /\ FramesLinked
  BY CodeStays DEF StepInside, IInv
<1>4. FramesPassed'
  <2>1. ASSUME NEW k \in DOMAIN frames' PROVE Passed(frames[k])'
    BY <1>1, <1>2, <1>3, PassedStays
  <2> QED
    BY <2>1 DEF FramesPassed
<1>5. FramesLinked'
  <2>1. /\ \A k \in 1 .. Len(frames') - 1 :
            /\ frames'[k + 1].tried
            /\ Callee(frames'[k + 1].fn, frames'[k + 1].at) = frames'[k].fn
        /\ frames' # <<>> => frames'[Len(frames')].fn = next - 1
    <3>1. ASSUME NEW k \in 1 .. Len(frames') - 1
          PROVE  /\ frames'[k + 1].tried
                 /\ Callee(frames'[k + 1].fn, frames'[k + 1].at) = frames'[k].fn
      <4>1. /\ k + 1 \in 1 .. Len(frames) - 1 /\ k \in 1 .. Len(frames) - 1
            /\ frames'[k + 1] = frames[k + 2] /\ frames'[k] = frames[k + 1]
            /\ (k + 1) + 1 = k + 2
        BY <1>1, <1>2
      <4> QED
        BY <1>3, <4>1 DEF FramesLinked
    <3>2. frames' # <<>> => frames'[Len(frames')] = frames[Len(frames)]
      BY <1>1, <1>2
    <3> QED
      BY <1>1, <1>3, <3>1, <3>2 DEF FramesLinked
  <2>2. frames' # <<>> => Callee(frames'[1].fn, frames'[1].at) \in Harmless \cup Writing'
    BY <1>1, <1>2, <1>3 DEF FramesLinked
  <2> QED
    BY <1>3, <2>1, <2>2 DEF FramesLinked, Callee, Body
<1>6. VisitedAreClassed'
  <2>1. frames' = <<>> => frames[Len(frames)] = Top
    BY <1>1, <1>2
  <2>2. frames[Len(frames)].fn = next - 1
    BY <1>1, <1>3 DEF FramesLinked
  <2>3. frames' = <<>> => next - 1 \in Harmless \cup Writing'
    BY <2>1, <2>2
  <2>4. VisitedAreClassed
    BY DEF IInv
  <2> QED
    BY <1>1, <1>3, <2>3, <2>4 DEF VisitedAreClassed
<1> QED
  BY <1>2, <1>4, <1>5, <1>6

(* The frame on top goes on to its next statement.                         *)
LEMMA AdvanceKeeps ==
  ASSUME IInv, Walking, StepInside, Writing \subseteq Writing',
         frames' = Advance,
         AtCall => Callee(Top.fn, Top.at) \in Harmless \/ Top.fn \in Writing'
  PROVE  FramesPassed' /\ FramesLinked' /\ VisitedAreClassed' /\ frames' \in Seq(FrameType)
<1> DEFINE new == [fn |-> Top.fn, at |-> Top.at + 1, tried |-> FALSE]
<1>1. /\ frames \in Seq(FrameType) /\ frames # <<>> /\ Top = frames[1]
      /\ Len(frames) \in Nat \ {0} /\ DOMAIN frames = 1 .. Len(frames)
      /\ Top.fn \in Ids \ Hosts /\ Top.at \in Nat \ {0} /\ Passed(Top)
      /\ AtCall <=> CallAt(Top.fn, Top.at)
  BY TopIs DEF Walking
<1>2. new \in FrameType
  BY <1>1 DEF FrameType
<1>3. /\ frames' \in Seq(FrameType) /\ Len(frames') = Len(frames)
      /\ frames'[1] = new
      /\ \A k \in 2 .. Len(frames) : frames'[k] = frames[k]
      /\ DOMAIN frames' = 1 .. Len(frames') /\ frames' # <<>>
  BY <1>1, <1>2, ReplaceTop DEF Advance, Frame
<1>4. /\ code' = code /\ next' = next /\ Ids' = Ids /\ Harmless' = Harmless /\ Hosts' = Hosts
      /\ FramesPassed /\ FramesLinked /\ VisitedAreClassed
  BY CodeStays DEF StepInside, IInv
<1>5. FramesPassed'
  <2>1. ASSUME NEW k \in DOMAIN frames', k # 1 PROVE Passed(frames[k])'
    <3>1. k \in DOMAIN frames /\ frames'[k] = frames[k]
      BY <1>1, <1>3, <2>1
    <3> QED
      BY <1>4, <3>1, PassedStays
  <2>2. Passed(frames[1])'
    <3>1. /\ new.fn = Top.fn /\ new.at - 1 = Top.at /\ ~new.tried
      BY <1>1
    <3>2. \A i \in 1 .. Top.at :
            CallAt(Top.fn, i) => Callee(Top.fn, i) \in Harmless \/ Top.fn \in Writing'
      BY <1>1 DEF Passed
    <3> HIDE DEF new
    <3> QED
      BY <1>1, <1>3, <1>4, <3>1, <3>2 DEF Passed, CallAt, Callee, Body
  <2> QED
    BY <2>1, <2>2 DEF FramesPassed
<1>6. FramesLinked'
  <2>1. new.fn = frames[1].fn /\ ~new.tried
    BY <1>1
  <2> HIDE DEF new
  <2>2. /\ \A k \in 1 .. Len(frames') - 1 :
            /\ frames'[k + 1].tried
            /\ Callee(frames'[k + 1].fn, frames'[k + 1].at) = frames'[k].fn
        /\ frames' # <<>> => frames'[Len(frames')].fn = next - 1
        /\ ~frames'[1].tried
    BY <1>1, <1>3, <1>4, <2>1 DEF FramesLinked
  <2> QED
    BY <1>4, <2>2 DEF FramesLinked, Callee, Body
<1>7. VisitedAreClassed'
  BY <1>1, <1>3, <1>4 DEF VisitedAreClassed
<1> QED
  BY <1>3, <1>5, <1>6, <1>7

(* A function is looked into before the call of it is classed.             *)
LEMMA DescendKeeps ==
  ASSUME IInv, Descend
  PROVE  IInv'
<1> DEFINE f == Statement[2]
           below == [fn |-> Top.fn, at |-> Top.at, tried |-> TRUE]
           new == [fn |-> f, at |-> 1, tried |-> FALSE]
<1>1. /\ Walking /\ AtCall /\ ~Known(f) /\ StepInside
      /\ frames' = <<new, below>> \o Tail(frames)
      /\ func_calls' = func_calls /\ indi_func_map' = indi_func_map
      /\ codegen \in {"on", "error"}
  BY DEF Descend, StepInside, Frame, Walking
<1>2. /\ frames \in Seq(FrameType) /\ frames # <<>> /\ Top = frames[1]
      /\ Len(frames) \in Nat \ {0} /\ DOMAIN frames = 1 .. Len(frames)
      /\ Top.fn \in Ids \ Hosts /\ Top.at \in Nat \ {0} /\ Passed(Top)
      /\ CallAt(Top.fn, Top.at) /\ f = Callee(Top.fn, Top.at)
      /\ f \in Followed[Top.fn] /\ f \in Ids
  BY <1>1, TopIs DEF Walking
<1> HIDE DEF f
<1>3. /\ code' = code /\ next' = next /\ Ids' = Ids /\ Harmless' = Harmless /\ Hosts' = Hosts
      /\ FramesPassed /\ FramesLinked /\ Writing' = Writing
  BY <1>1, CodeStays, MapStays DEF StepInside, IInv
<1>4. /\ frames' \in Seq(FrameType) /\ Len(frames') = Len(frames) + 1
      /\ frames'[1] = new /\ frames'[2] = below
      /\ \A k \in 3 .. Len(frames) + 1 : frames'[k] = frames[k - 1]
      /\ DOMAIN frames' = 1 .. Len(frames') /\ frames' # <<>>
  <2>1. new \in FrameType /\ below \in FrameType
    BY <1>2 DEF FrameType
  <2> HIDE DEF new, below
  <2>2. /\ Tail(frames) \in Seq(FrameType) /\ Len(Tail(frames)) = Len(frames) - 1
        /\ \A k \in 1 .. Len(frames) - 1 : Tail(frames)[k] = frames[k + 1]
    BY <1>2, PopFrame
  <2>3. /\ frames' \in Seq(FrameType)
        /\ Len(frames') = Len(Tail(frames)) + 2
        /\ frames'[1] = new /\ frames'[2] = below
        /\ \A k \in 3 .. Len(Tail(frames)) + 2 : frames'[k] = Tail(frames)[k - 2]
    BY <1>1, <2>1, <2>2, PushTwo
  <2>4. \A s \in Seq(FrameType) : DOMAIN s = 1 .. Len(s) /\ (s = <<>> => Len(s) = 0)
    OBVIOUS
  <2>5. ASSUME NEW k \in 3 .. Len(frames) + 1 PROVE frames'[k] = frames[k - 1]
    <3>1. k - 2 \in 1 .. Len(frames) - 1 /\ (k - 2) + 1 = k - 1
      BY <1>2
    <3>2. frames'[k] = Tail(frames)[k - 2]
      BY <1>2, <2>2, <2>3
    <3> QED
      BY <2>2, <3>1, <3>2
  <2> QED
    BY <1>2, <2>2, <2>3, <2>4, <2>5
<1>5. /\ f \notin Hosts
      /\ \A h \in Hosts : next <= h => f < h
  <2>1. \A h \in Hosts : next <= h => Top.fn < h
    BY <1>2 DEF Passed
  <2>2. f < Top.fn \/ \A h \in Hosts : h < Top.fn \/ f < h
    BY <1>2 DEF IInv, VisitorTypeOK, Compiles, DeclaredBeforeCalls, Ids, Followed, Hosts,
       Body
  <2>3. Ids \subseteq Nat /\ Hosts \subseteq Ids /\ next \in Nat
    BY IdsAreNumbers DEF IInv, VisitorTypeOK, Hosts
  <2>4. ASSUME NEW h \in Hosts, next <= h PROVE f < h
    <3>1. h \in Nat /\ Top.fn \in Nat /\ f \in Nat /\ Top.fn < h
      BY <1>2, <2>1, <2>3, <2>4
    <3>2. f < Top.fn \/ h < Top.fn \/ f < h
      BY <2>2
    <3> QED
      BY <3>1, <3>2
  <2>5. f \in Hosts => next <= f
    <3>1. f \in Nat /\ f \notin Writing
      BY <1>1, <1>2, <2>3 DEF Known, Writing
    <3> QED
      BY <2>3, <3>1 DEF IInv, HostsEntered
  <2> QED
    BY <1>2, <2>3, <2>4, <2>5
<1>6. FramesPassed'
  <2>1. ASSUME NEW k \in DOMAIN frames', k > 2 PROVE Passed(frames[k])'
    <3>1. k - 1 \in DOMAIN frames /\ frames'[k] = frames[k - 1]
      BY <1>2, <1>4, <2>1
    <3> QED
      BY <1>3, <3>1, PassedStays
  <2>2. Passed(frames[1])'
    <3>1. new.fn = f /\ new.at - 1 = 0 /\ ~new.tried
      OBVIOUS
    <3> HIDE DEF new
    <3> QED
      BY <1>3, <1>4, <1>5, <3>1 DEF Passed
  <2>3. Passed(frames[2])'
    <3>1. below.fn = Top.fn /\ below.at = Top.at
      OBVIOUS
    <3> HIDE DEF below
    <3> QED
      BY <1>2, <1>3, <1>4, <3>1 DEF Passed, CallAt, Callee, Body
  <2> QED
    BY <1>2, <1>4, <2>1, <2>2, <2>3 DEF FramesPassed
<1>7. FramesLinked'
  <2>1. /\ new.fn = f /\ ~new.tried
        /\ below.fn = frames[1].fn /\ below.at = frames[1].at /\ below.tried
    BY <1>2
  <2> HIDE DEF new, below
  <2>2. ASSUME NEW k \in 1 .. Len(frames') - 1
        PROVE  /\ frames'[k + 1].tried
               /\ Callee(frames'[k + 1].fn, frames'[k + 1].at) = frames'[k].fn
    <3>1. CASE k = 1
      BY <1>2, <1>4, <2>1, <3>1
    <3>2. CASE k = 2
      <4>1. frames'[k + 1] = frames[2] /\ 1 \in 1 .. Len(frames) - 1 /\ 1 + 1 = 2
        BY <1>2, <1>4, <3>2
      <4> QED
        BY <1>3, <1>4, <2>1, <3>2, <4>1 DEF FramesLinked
    <3>3. CASE k > 2
      <4>1. /\ frames'[k + 1] = frames[(k - 1) + 1] /\ frames'[k] = frames[k - 1]
            /\ k - 1 \in 1 .. Len(frames) - 1
        BY <1>2, <1>4, <3>3
      <4> QED
        BY <1>3, <4>1 DEF FramesLinked
    <3> QED
      BY <1>2, <1>4, <3>1, <3>2, <3>3
  <2>3. frames'[Len(frames')].fn = frames[Len(frames)].fn
    BY <1>2, <1>4, <2>1
  <2>4. frames[Len(frames)].fn = next - 1
    BY <1>2, <1>3 DEF FramesLinked
  <2> QED
    BY <1>3, <1>4, <2>1, <2>2, <2>3, <2>4 DEF FramesLinked, Callee, Body
<1>8. VisitedAreClassed'
  BY <1>2, <1>3, <1>4 DEF IInv, VisitedAreClassed
<1>9. VisitorTypeOK' /\ HostsEntered' /\ KnownAreClassed' /\ ReasonsKept'
  BY <1>1, <1>3, <1>4, CodeStays
     DEF IInv, VisitorTypeOK, FrameType, StepInside, HostsEntered, KnownAreClassed,
         ReasonsKept, Known
<1> QED
  BY <1>1, <1>6, <1>7, <1>8, <1>9, RestKept DEF IInv

(* The map, after functions that are none of the host's have been entered  *)
(* for a reason and classed.                                               *)
LEMMA EntryKeeps ==
  ASSUME IInv, Walking, StepInside, NEW F \in SUBSET (Ids \ Hosts),
         DOMAIN func_calls' = DOMAIN func_calls \cup F,
         func_calls' \in [DOMAIN func_calls' -> BOOLEAN],
         Writing \subseteq Writing', Writing' \subseteq Writing \cup F,
         F \subseteq Harmless \cup Writing',
         \A f \in F : \/ f \in Justified
                      \/ f \notin Writing' /\ \E k \in Ids : f \in Followed[k],
         \A v \in indi_func_map' : \E g \in Pointed(v) : Known(g),
         frames' \in Seq(FrameType)
  PROVE  VisitorTypeOK' /\ HostsEntered' /\ KnownAreClassed' /\ ReasonsKept'
<1>1. /\ code' = code /\ next' = next /\ Ids' = Ids /\ Harmless' = Harmless
      /\ Hosts' = Hosts /\ Justified' = Justified /\ Followed' = Followed
      /\ \A v : Pointed(v)' = Pointed(v)
      /\ NameInvalid' <=> NameInvalid
      /\ Compiles(code)' <=> Compiles(code)
  BY CodeStays DEF StepInside
<1>2. VisitorTypeOK'
  BY <1>1 DEF IInv, VisitorTypeOK, FrameType, StepInside
<1>3. HostsEntered'
  BY <1>1 DEF IInv, HostsEntered, Known
<1>4. KnownAreClassed'
  BY <1>1 DEF IInv, KnownAreClassed
<1>5. ReasonsKept'
  <2>1. codegen' = "error" => NameInvalid
    BY DEF IInv, ReasonsKept, StepInside
  <2>2. Writing' \subseteq Justified
    BY DEF IInv, ReasonsKept
  <2>3. \A g \in DOMAIN func_calls' : g \in Justified \/ \E k \in Ids : g \in Followed[k]
    BY DEF IInv, ReasonsKept
  <2> QED
    BY <1>1, <2>1, <2>2, <2>3 DEF ReasonsKept, Known
<1> QED
  BY <1>2, <1>3, <1>4, <1>5

LEMMA NothingEntered ==
  ASSUME IInv, Walking, StepInside, func_calls' = func_calls,
         \A v \in indi_func_map' : \E g \in Pointed(v) : Known(g),
         frames' \in Seq(FrameType)
  PROVE  VisitorTypeOK' /\ HostsEntered' /\ KnownAreClassed' /\ ReasonsKept'
<1> DEFINE F == {}
<1>1. F \in SUBSET (Ids \ Hosts) /\ \A f : f \notin F
  OBVIOUS
<1>2. /\ DOMAIN func_calls' = DOMAIN func_calls \cup F
      /\ func_calls' \in [DOMAIN func_calls' -> BOOLEAN]
      /\ Writing' = Writing
  BY MapStays DEF IInv, VisitorTypeOK
<1> HIDE DEF F
<1> QED
  BY <1>1, <1>2, EntryKeeps

LEMMA HarmlessIsNoHost == Harmless \cap Hosts = {}
  BY ClosureSelf DEF Harmless, Writes

LEMMA CallKeeps ==
  ASSUME IInv, Call
  PROVE  IInv'
<1> DEFINE f == Statement[2]
<1>1. /\ Walking /\ AtCall /\ (Known(f) \/ Top.tried) /\ StepInside
      /\ indi_func_map' = indi_func_map
      /\ func_calls' = Calls(f)
      /\ frames' = IF f \in Writing THEN Tail(frames) ELSE Advance
  BY DEF Call, StepInside, Writing, Known
<1>2. /\ Top = frames[1] /\ Top.fn \in Ids \ Hosts
      /\ f = Callee(Top.fn, Top.at)
      /\ f \in Followed[Top.fn] /\ f \in Ids
  BY <1>1, TopIs DEF Walking
<1> HIDE DEF f
<1>3. \A v \in indi_func_map' : \E g \in Pointed(v) : Known(g)
  BY <1>1 DEF IInv, ReasonsKept
<1>4. VisitorTypeOK
  BY DEF IInv
<1>5. CASE f \in Writing
  <2>1. func_calls' = Knows(Top.fn, TRUE) /\ frames' = Tail(frames)
    BY <1>1, <1>5 DEF Calls, Push, Writing, Known
  <2>2. /\ DOMAIN func_calls' = DOMAIN func_calls \cup {Top.fn}
        /\ func_calls' \in [DOMAIN func_calls' -> BOOLEAN]
        /\ Writing' = Writing \cup {Top.fn}
    BY <1>2, <1>4, <2>1, KnowsWrites
  <2>3. FramesPassed' /\ FramesLinked' /\ VisitedAreClassed' /\ frames' \in Seq(FrameType)
    BY <1>1, <2>1, <2>2, PopKeeps
  <2>4. Top.fn \in Justified
    BY <1>2, <1>5, JustifiedStep DEF IInv, ReasonsKept
  <2>5. VisitorTypeOK' /\ HostsEntered' /\ KnownAreClassed' /\ ReasonsKept'
    <3> DEFINE F == {Top.fn}
    <3>1. /\ F \in SUBSET (Ids \ Hosts) /\ DOMAIN func_calls' = DOMAIN func_calls \cup F
          /\ Writing \subseteq Writing' /\ Writing' \subseteq Writing \cup F
          /\ F \subseteq Harmless \cup Writing'
          /\ \A g \in F : g \in Justified
      BY <1>2, <2>2, <2>4
    <3>2. func_calls' \in [DOMAIN func_calls' -> BOOLEAN]
      BY <2>2
    <3>3. Walking /\ StepInside /\ frames' \in Seq(FrameType)
      BY <1>1, <2>3
    <3> HIDE DEF F
    <3> QED
      BY <1>3, <3>1, <3>2, <3>3, EntryKeeps
  <2> QED
    BY <1>1, <2>3, <2>5, RestKept DEF IInv
<1>6. CASE f \notin Writing
  <2>1. frames' = Advance
    BY <1>1, <1>6
  <2>2. /\ DOMAIN func_calls' = DOMAIN func_calls \cup {f}
        /\ func_calls' \in [DOMAIN func_calls' -> BOOLEAN]
        /\ Writing' = Writing
    <3>1. CASE f \in DOMAIN func_calls
      <4>1. func_calls' = func_calls
        BY <1>1, <1>6, <3>1 DEF Calls, Entry, Writing, Known
      <4> QED
        BY <1>4, <3>1, <4>1, MapStays DEF VisitorTypeOK
    <3>2. CASE f \notin DOMAIN func_calls
      <4>1. func_calls' = Knows(f, FALSE)
        BY <1>1, <3>2 DEF Calls, Entry, Known
      <4> QED
        BY <1>2, <1>4, <3>2, <4>1, KnowsHarmless
    <3> QED
      BY <3>1, <3>2
  <2>3. f \in Harmless
    <3>1. CASE Known(f)
      BY <1>6, <3>1 DEF IInv, KnownAreClassed, Known
    <3>2. CASE Top.tried
      BY <1>1, <1>2, <1>6, <3>2 DEF IInv, FramesLinked, Walking
    <3> QED
      BY <1>1, <3>1, <3>2
  <2>4. FramesPassed' /\ FramesLinked' /\ VisitedAreClassed' /\ frames' \in Seq(FrameType)
    BY <1>1, <1>2, <2>1, <2>2, <2>3, AdvanceKeeps
  <2>5. VisitorTypeOK' /\ HostsEntered' /\ KnownAreClassed' /\ ReasonsKept'
    <3> DEFINE F == {f}
    <3>1. F \in SUBSET (Ids \ Hosts) /\ F \subseteq Harmless \cup Writing'
      BY <1>2, <2>3, HarmlessIsNoHost
    <3>2. /\ DOMAIN func_calls' = DOMAIN func_calls \cup F
          /\ Writing \subseteq Writing' /\ Writing' \subseteq Writing \cup F
          /\ \A g \in F : g \notin Writing' /\ \E k \in Ids : g \in Followed[k]
      BY <1>2, <1>6, <2>2
    <3> HIDE DEF F
    <3> QED
      BY <1>1, <1>3, <2>2, <2>4, <3>1, <3>2, EntryKeeps
  <2> QED
    BY <1>1, <2>4, <2>5, RestKept DEF IInv
<1> QED
  BY <1>5, <1>6

LEMMA OtherKeeps ==
  ASSUME IInv, Other
  PROVE  IInv'
<1>1. /\ Walking /\ ~AtCall /\ StepInside /\ frames' = Advance
      /\ Top.at <= Len(Body(Top.fn))
      /\ indi_func_map' = Pointers(Statement)
  BY DEF Other, StepInside
<1>2. /\ Top.fn \in Ids \ Hosts /\ Statement \in Statements(Top.fn)
  BY <1>1, TopIs DEF Statements, Members
<1>3. \A v \in indi_func_map : \E g \in Pointed(v) : Known(g)
  BY DEF IInv, ReasonsKept
<1>4. \A v \in indi_func_map' : \E g \in Pointed(v) : Known(g)
  <2>1. Statement[1] \in {"init", "assign"} => Statement[3] \in Pointed(Statement[2])
    BY <1>2 DEF Pointed
  <2>2. CASE Statement[1] = "init"
    BY <1>1, <1>3, <2>1, <2>2 DEF Pointers, Initialized
  <2>3. CASE Statement[1] = "assign"
    BY <1>1, <1>3, <2>1, <2>3 DEF Pointers, Assigned
  <2>4. CASE Statement[1] \notin {"init", "assign"}
    BY <1>1, <1>3, <2>4 DEF Pointers
  <2> QED
    BY <2>2, <2>3, <2>4
<1>5. VisitorTypeOK
  BY DEF IInv
<1>6. CASE Statement[1] = "call through" /\ Statement[2] \in indi_func_map
  <2>1. func_calls' = Knows(Top.fn, TRUE)
    BY <1>6 DEF Other, Push
  <2>2. /\ DOMAIN func_calls' = DOMAIN func_calls \cup {Top.fn}
        /\ func_calls' \in [DOMAIN func_calls' -> BOOLEAN]
        /\ Writing' = Writing \cup {Top.fn}
    BY <1>2, <1>5, <2>1, KnowsWrites
  <2>3. FramesPassed' /\ FramesLinked' /\ VisitedAreClassed' /\ frames' \in Seq(FrameType)
    BY <1>1, <2>2, AdvanceKeeps
  <2>4. Top.fn \in Justified
    <3>1. PICK g \in Pointed(Statement[2]) : Known(g)
      BY <1>3, <1>6
    <3>2. g \in Through(Top.fn)
      BY <1>2, <1>6, <3>1 DEF Through
    <3>3. g \in Justified \/ \E k \in Ids : g \in Followed[k]
      BY <3>1 DEF IInv, ReasonsKept, Known
    <3> QED
      BY <1>2, <3>2, <3>3, ThroughJustified
  <2>5. VisitorTypeOK' /\ HostsEntered' /\ KnownAreClassed' /\ ReasonsKept'
    <3> DEFINE F == {Top.fn}
    <3>1. /\ F \in SUBSET (Ids \ Hosts) /\ DOMAIN func_calls' = DOMAIN func_calls \cup F
          /\ Writing \subseteq Writing' /\ Writing' \subseteq Writing \cup F
          /\ F \subseteq Harmless \cup Writing'
          /\ \A g \in F : g \in Justified
      BY <1>2, <2>2, <2>4
    <3>2. func_calls' \in [DOMAIN func_calls' -> BOOLEAN]
      BY <2>2
    <3>3. Walking /\ StepInside /\ frames' \in Seq(FrameType)
      BY <1>1, <2>3
    <3> HIDE DEF F
    <3> QED
      BY <1>4, <3>1, <3>2, <3>3, EntryKeeps
  <2> QED
    BY <1>1, <2>3, <2>5, RestKept DEF IInv
<1>7. CASE ~(Statement[1] = "call through" /\ Statement[2] \in indi_func_map)
  <2>1. /\ func_calls' = func_calls
        /\ Writing' = Writing
    BY <1>7, MapStays DEF Other
  <2>2. FramesPassed' /\ FramesLinked' /\ VisitedAreClassed' /\ frames' \in Seq(FrameType)
    BY <1>1, <2>1, AdvanceKeeps
  <2>3. VisitorTypeOK' /\ HostsEntered' /\ KnownAreClassed' /\ ReasonsKept'
    <3>1. func_calls' \in [DOMAIN func_calls' -> BOOLEAN]
      BY <1>5, <2>1 DEF VisitorTypeOK
    <3> QED
      BY <1>1, <1>4, <2>1, <2>2, <3>1, NothingEntered
  <2> QED
    BY <1>1, <2>2, <2>3, RestKept DEF IInv
<1> QED
  BY <1>6, <1>7

LEMMA ReturnKeeps ==
  ASSUME IInv, Return
  PROVE  IInv'
<1>1. /\ Walking /\ StepInside /\ frames' = Tail(frames)
      /\ Top.at > Len(Body(Top.fn))
      /\ indi_func_map' = indi_func_map
      /\ func_calls' = func_calls
      /\ Writing' = Writing
  BY MapStays DEF Return, StepInside
<1>2. /\ Top.fn \in Ids \ Hosts /\ Top.at \in Nat \ {0} /\ Passed(Top)
      /\ Len(Body(Top.fn)) \in Nat /\ DOMAIN Body(Top.fn) = 1 .. Len(Body(Top.fn))
  BY <1>1, TopIs
<1>3. Top.fn \in Harmless \cup Writing
  <2>1. SUFFICES ASSUME Top.fn \notin Writing PROVE Top.fn \in Harmless
    OBVIOUS
  <2>2. \A i : CallAt(Top.fn, i) => i \in 1 .. Top.at - 1
    BY <1>1, <1>2 DEF CallAt
  <2>3. \A i : CallAt(Top.fn, i) => Callee(Top.fn, i) \in Harmless
    BY <1>2, <2>1, <2>2 DEF Passed
  <2> QED
    BY <1>2, <2>3, HarmlessStep DEF IInv, VisitorTypeOK
<1>4. FramesPassed' /\ FramesLinked' /\ VisitedAreClassed' /\ frames' \in Seq(FrameType)
  BY <1>1, <1>3, PopKeeps
<1>5. VisitorTypeOK' /\ HostsEntered' /\ KnownAreClassed' /\ ReasonsKept'
  <2>1. /\ func_calls' \in [DOMAIN func_calls' -> BOOLEAN]
        /\ \A v \in indi_func_map' : \E g \in Pointed(v) : Known(g)
    BY <1>1 DEF IInv, VisitorTypeOK, ReasonsKept
  <2> QED
    BY <1>1, <1>4, <2>1, NothingEntered
<1> QED
  BY <1>1, <1>4, <1>5, RestKept DEF IInv

-----------------------------------------------------------------------------
(* At the start of a walk nothing is known.                                *)
Fresh ==
  /\ Compiles(code) /\ next = 1 /\ frames = <<>>
  /\ func_calls = <<>> /\ indi_func_map = {} /\ read_only_actions = {}
  /\ codegen \in {"idle", "on"}

LEMMA FreshKeeps == Fresh => IInv
<1> SUFFICES ASSUME Fresh PROVE IInv
  OBVIOUS
<1>1. /\ DOMAIN func_calls = {} /\ Writing = {} /\ \A f : ~Known(f)
      /\ \A S : func_calls \in [DOMAIN func_calls -> S]
  BY DEF Fresh, Writing, Known
<1>2. /\ Ids \subseteq Nat \ {0} /\ Hosts \subseteq Ids /\ ReadOnly \subseteq Ids
      /\ \A f \in Ids : ~(f < 1)
  BY IdsAreNumbers DEF Fresh, Hosts, ReadOnly
<1>3. frames = <<>> /\ frames \in Seq(FrameType) /\ DOMAIN frames = {} /\ Len(frames) = 0
  BY DEF Fresh
<1>4. VisitorTypeOK /\ HostsEntered /\ KnownAreClassed
  BY <1>1, <1>2, <1>3 DEF Fresh, VisitorTypeOK, FrameType, HostsEntered, KnownAreClassed
<1>5. FramesPassed /\ FramesLinked
  BY <1>3 DEF FramesPassed, FramesLinked
<1>6. VisitedAreClassed /\ ActionsRemembered /\ OffAtEnd
  BY <1>2 DEF Fresh, VisitedAreClassed, ActionsRemembered, OffAtEnd
<1>7. ReasonsKept /\ RefusedForAReason
  BY <1>1 DEF Fresh, ReasonsKept, RefusedForAReason
<1> QED
  BY <1>4, <1>5, <1>6, <1>7 DEF IInv

LEMMA StartWalkKeeps ==
  ASSUME StartWalk
  PROVE  Fresh'
  BY UnitsAssumption DEF StartWalk, Begin, Fresh

LEMMA EndWalkKeeps ==
  ASSUME IInv, EndWalk \/ UNCHANGED visitorVars
  PROVE  IInv'
<1>1. /\ code' = code /\ next' = next /\ frames' = frames /\ func_calls' = func_calls
      /\ indi_func_map' = indi_func_map /\ read_only_actions' = read_only_actions
      /\ codegen' \in {codegen, "idle"}
  BY DEF EndWalk, visitorVars
<1>2. Writing' = Writing
  BY <1>1, MapStays
<1>3. /\ Ids' = Ids /\ Hosts' = Hosts /\ ReadOnly' = ReadOnly
      /\ Followed' = Followed /\ Harmless' = Harmless
      /\ Called' = Called /\ Suspect' = Suspect /\ Justified' = Justified
      /\ \A v : Pointed(v)' = Pointed(v)
      /\ NameInvalid' <=> NameInvalid
      /\ Compiles(code)' <=> Compiles(code)
  BY <1>1, CodeStays
<1>4. VisitorTypeOK' /\ HostsEntered' /\ KnownAreClassed'
  BY <1>1, <1>2, <1>3 DEF IInv, VisitorTypeOK, HostsEntered, KnownAreClassed, Known
<1>5. FramesPassed' /\ FramesLinked'
  BY <1>1, <1>2, <1>3 DEF IInv, FramesPassed, Passed, FramesLinked, CallAt, Callee, Body
<1>6. VisitedAreClassed' /\ ActionsRemembered' /\ OffAtEnd'
  BY <1>1, <1>2, <1>3
     DEF IInv, VisitedAreClassed, ActionsRemembered, OffAtEnd, Offenders, Known
<1>7. ReasonsKept' /\ RefusedForAReason'
  BY <1>1, <1>2, <1>3
     DEF IInv, ReasonsKept, RefusedForAReason, Known, NameInvalid, Closure, validate_name
<1> QED
  BY <1>4, <1>5, <1>6, <1>7 DEF IInv

(* The invariant tells what was accepted and what was refused.             *)
LEMMA InvariantSuffices == IInv => ReadOnlyIsSound
<1> SUFFICES ASSUME IInv, codegen = "off", NEW a \in ReadOnly PROVE a \in Harmless
  BY DEF ReadOnlyIsSound, AcceptedCannotWrite, IInv, Harmless, ReadOnly
<1>1. a \in Ids /\ a < next /\ frames = <<>>
  BY IdsAreNumbers DEF IInv, OffAtEnd, VisitorTypeOK, ReadOnly, Compiles
<1>2. a \notin Writing
  BY <1>1 DEF IInv, OffAtEnd, Offenders, ActionsRemembered, Known, Writing
<1> QED
  BY <1>1, <1>2 DEF IInv, VisitedAreClassed

(* Every step of the visitor keeps the invariant.                          *)
LEMMA StepKeeps == IInv /\ [VisitorNext]_visitorVars => IInv'
<1>1. Fresh' => IInv'
  BY FreshKeeps, PTL
<1> QED
  BY <1>1, StartWalkKeeps, VisitFunctionKeeps, VisitVariableKeeps, DescendKeeps,
     CallKeeps, OtherKeeps, ReturnKeeps, ProcessReadOnlyKeeps, EndWalkKeeps
     DEF VisitorNext, VisitorStep

LEMMA QuietIsFresh == Quiet => IInv
  BY FreshKeeps DEF Quiet, Fresh, Compiles, DeclaredBeforeCalls, FunctionsOf, Members

(* The check of read-only actions lets no unit through in which one        *)
(* reaches, by calls that are statements of their own, a host function     *)
(* that writes, and refuses none without a reason (codegen.cpp:157-164,    *)
(* 214-320, 358-370): for any units that compile.                          *)
THEOREM ReadOnlyCorrect == VisitorSpec => []ReadOnlyIsSound
  BY QuietIsFresh, StepKeeps, InvariantSuffices, PTL DEF VisitorSpec

-----------------------------------------------------------------------------
(* The stack of the walk.                                                  *)

LEMMA LeastNumber ==
  ASSUME NEW S \in SUBSET Nat, S # {}
  PROVE  \E n \in S : \A m \in S : n <= m
<1>1. PICK n \in S : \A o \in S : ~(<<o, n>> \in OpToRel(<, Nat))
  BY NatLessThanWellFounded, WFMin
<1>2. \A o \in S : ~(o < n)
  BY <1>1 DEF OpToRel
<1> QED BY <1>2

Reaches(f, g) == g \in Closure(Followed, Followed[f])
Loops == \E f \in Ids : Reaches(f, f)

(* A frame leads to the one on top of it, and so to all above.             *)
LEMMA FrameReaches ==
  ASSUME IInv, NEW i \in DOMAIN frames, NEW j \in DOMAIN frames, i < j
  PROVE  Reaches(frames[j].fn, frames[i].fn)
<1>1. /\ frames \in Seq(FrameType) /\ Compiles(code) /\ FramesPassed /\ FramesLinked
      /\ DOMAIN frames = 1 .. Len(frames) /\ Len(frames) \in Nat
  BY DEF IInv, VisitorTypeOK, FrameType
<1>2. ASSUME NEW k \in 1 .. Len(frames) - 1
      PROVE  /\ frames[k].fn \in Followed[frames[k + 1].fn]
             /\ frames[k].fn \in Ids
  <2>1. k \in DOMAIN frames /\ k + 1 \in DOMAIN frames
    BY <1>1
  <2>2. frames[k + 1].fn \in Ids /\ frames[k].fn \in Ids
    <3>1. frames[k + 1] \in FrameType /\ frames[k] \in FrameType
      BY <1>1, <2>1
    <3> QED
      BY <3>1 DEF FrameType
  <2>3. CallAt(frames[k + 1].fn, frames[k + 1].at)
    BY <1>1, <2>1 DEF FramesPassed, FramesLinked, Passed
  <2>4. Callee(frames[k + 1].fn, frames[k + 1].at) = frames[k].fn
    BY <1>1 DEF FramesLinked
  <2> QED
    BY <1>1, <2>2, <2>3, <2>4, CalleeFollowed
<1> SUFFICES ASSUME NEW T \in SUBSET Ids, Followed[frames[j].fn] \subseteq T,
                    \A f \in T : Followed[f] \subseteq T,
                    frames[i].fn \notin T
             PROVE  FALSE
  BY <1>1, <1>2 DEF Reaches, Closure
<1> DEFINE S == {d \in Nat : d < j /\ frames[j - d].fn \notin T /\ d > 0}
<1>3. j - i \in S
  BY <1>1
<1>4. PICK d \in S : \A e \in S : d <= e
  <2> HIDE DEF S
  <2>1. S \in SUBSET Nat
    BY DEF S
  <2> QED
    BY <1>3, <2>1, LeastNumber
<1>5. j - d \in 1 .. Len(frames) - 1 /\ j \in 1 .. Len(frames)
  BY <1>1, <1>4
<1>6. frames[j - d].fn \in Followed[frames[(j - d) + 1].fn]
  BY <1>2, <1>5
<1>7. CASE d = 1
  <2>1. (j - d) + 1 = j
    BY <1>1, <1>7
  <2> QED
    BY <1>4, <1>6, <2>1
<1>8. CASE d # 1
  <2>1. d - 1 \in Nat /\ d - 1 > 0 /\ d - 1 < j /\ (j - d) + 1 = j - (d - 1) /\ ~(d <= d - 1)
    BY <1>1, <1>4, <1>8
  <2>2. frames[j - (d - 1)].fn \in T
    BY <1>4, <2>1
  <2> QED
    BY <1>4, <1>6, <2>1, <2>2
<1> QED
  BY <1>7, <1>8

LEMMA IdsAreFinite == Compiles(code) => IsFiniteSet(Ids)
<1> SUFFICES ASSUME Compiles(code) PROVE IsFiniteSet(Ids)
  OBVIOUS
<1>1. DOMAIN code = 1 .. Len(code) /\ Len(code) \in Nat
  BY DEF Compiles
<1>2. IsFiniteSet(1 .. Len(code)) /\ Ids \in SUBSET (1 .. Len(code))
  BY <1>1, FS_Interval DEF Ids, FunctionsOf
<1> QED
  BY <1>2, FS_Subset

(* Without a loop no function is on the stack twice.                       *)
LEMMA StackBounded ==
  ASSUME IInv, ~Loops
  PROVE  Len(frames) <= Cardinality(Ids)
<1>1. /\ frames \in Seq(FrameType) /\ Compiles(code)
      /\ DOMAIN frames = 1 .. Len(frames) /\ Len(frames) \in Nat
  BY DEF IInv, VisitorTypeOK, FrameType
<1> DEFINE fn == [k \in 1 .. Len(frames) |-> frames[k].fn]
<1>2. fn \in [1 .. Len(frames) -> Ids]
  <2>1. ASSUME NEW k \in 1 .. Len(frames) PROVE frames[k].fn \in Ids
    <3>1. frames[k] \in FrameType
      BY <1>1
    <3> QED
      BY <3>1 DEF FrameType
  <2> QED
    BY <2>1
<1>3. ASSUME NEW i \in 1 .. Len(frames), NEW j \in 1 .. Len(frames), i # j
      PROVE  fn[i] # fn[j]
  <2>1. i < j => fn[i] # fn[j]
    <3>1. i < j => Reaches(fn[j], fn[i])
      BY <1>1, FrameReaches
    <3> QED
      BY <1>2, <3>1 DEF Loops
  <2>2. j < i => fn[i] # fn[j]
    <3>1. j < i => Reaches(fn[i], fn[j])
      BY <1>1, FrameReaches
    <3> QED
      BY <1>2, <3>1 DEF Loops
  <2>3. i < j \/ j < i
    BY <1>1, <1>3
  <2> QED
    BY <2>1, <2>2, <2>3
<1>4. fn \in Injection(1 .. Len(frames), Ids)
  <2> HIDE DEF fn
  <2> QED
    BY <1>2, <1>3 DEF Injection, IsInjective
<1>5. IsFiniteSet(Ids)
  BY <1>1, IdsAreFinite
<1>6. Cardinality(1 .. Len(frames)) = Len(frames)
  BY <1>1, FS_Interval
<1> HIDE DEF fn
<1> QED
  BY <1>4, <1>5, <1>6, FS_Injection

(* The walk is given up for lack of stack only with so many frames.        *)
CrashIsDeep == codegen = "crash" => Len(frames) > MaxFrames + 1

LEMMA CrashIsDeepKeeps == IInv /\ CrashIsDeep /\ [VisitorNext]_visitorVars => CrashIsDeep'
<1> SUFFICES ASSUME IInv, CrashIsDeep, [VisitorNext]_visitorVars, codegen' = "crash"
             PROVE  Len(frames') > MaxFrames + 1
  BY DEF CrashIsDeep
<1>1. CASE Descend
  <2>1. CASE codegen = "crash"
    BY <1>1, <2>1 DEF Descend, Walking
  <2>2. CASE codegen # "crash"
    <3>1. Len(frames) > MaxFrames /\ Walking /\ AtCall
      BY <1>1, <2>2 DEF Descend
    <3>2. /\ frames \in Seq(FrameType) /\ frames # <<>> /\ Top.fn \in Ids /\ Statement[2] \in Ids
          /\ Top.at \in Nat \ {0}
      BY <3>1, TopIs DEF Walking
    <3>3. Frame(Statement[2], 1, FALSE) \in FrameType /\ Frame(Top.fn, Top.at, TRUE) \in FrameType
      BY <3>2 DEF Frame, FrameType
    <3>4. Tail(frames) \in Seq(FrameType) /\ Len(Tail(frames)) = Len(frames) - 1
          /\ Len(frames) \in Nat
      BY <3>2, PopFrame
    <3>5. Len(frames') = Len(Tail(frames)) + 2
      BY <1>1, <3>3, <3>4, PushTwo DEF Descend
    <3> QED
      BY <3>1, <3>4, <3>5, FramesAssumption
  <2> QED
    BY <2>1, <2>2
<1>2. CASE UNCHANGED visitorVars
  BY <1>2 DEF CrashIsDeep, visitorVars
<1>3. CASE StartWalk \/ EndWalk
  BY <1>3 DEF StartWalk, Begin, EndWalk
<1>4. CASE VisitFunction
  BY <1>4 DEF VisitFunction, Register
<1>5. CASE VisitVariable \/ Call \/ Other \/ Return \/ ProcessReadOnly
  BY <1>5 DEF VisitVariable, Call, Other, Return, ProcessReadOnly, Walking
<1> QED
  BY <1>1, <1>2, <1>3, <1>4, <1>5 DEF VisitorNext, VisitorStep

(* The compiler does not run out of stack in the walk over functions: it   *)
(* never needs more calls than the unit has functions, unless one reaches  *)
(* itself (codegen.cpp:259-296): for any units that compile and any stack. *)
THEOREM StackAlwaysSuffices == VisitorSpec => []StackSuffices
<1>1. Quiet => CrashIsDeep
  BY DEF Quiet, CrashIsDeep
<1>2. IInv /\ CrashIsDeep => StackSuffices
  <2> SUFFICES ASSUME IInv, CrashIsDeep, codegen = "crash", ~Loops
               PROVE  Cardinality(Ids) > MaxFrames + 1
    BY DEF StackSuffices, Loops, Reaches
  <2>1. Len(frames) > MaxFrames + 1 /\ Len(frames) <= Cardinality(Ids) /\ Len(frames) \in Nat
    BY StackBounded DEF CrashIsDeep, IInv, VisitorTypeOK
  <2>2. Cardinality(Ids) \in Nat
    BY IdsAreFinite, FS_CardinalityType DEF IInv, VisitorTypeOK
  <2> QED
    BY <2>1, <2>2, FramesAssumption
<1> QED
  BY <1>1, <1>2, QuietIsFresh, StepKeeps, CrashIsDeepKeeps, PTL DEF VisitorSpec

-----------------------------------------------------------------------------
(* The dispatcher.  The declarations of a unit, those of the contract, and *)
(* those whose handlers have been read from the descriptions.              *)
Unit(i) == Members(input_files[i])
Contract == UNION {Unit(i) : i \in DOMAIN input_files}
Visited == {code[j] : j \in {j \in DOMAIN code : j < next}}
Read == compiled - Len(desc_files)

(* Cases are those of declarations, and handlers of such; and a            *)
(* declaration has a case.                                                 *)
FromActions(W, D) ==
  \A w \in W : \E d \in D : d.kind = "method" /\ w.name = d.action /\ w.handler = Handler(d)
FromNotifies(W, D) ==
  \A w \in W : \E d \in D :
    d.kind = "notify" /\ w.name = d.action /\ w.contract = d.contract /\ w.handler = Handler(d)
HasActions(W, D) == \A d \in D : d.kind = "method" => \E w \in W : w.name = d.action
HasNotifies(W, D) ==
  \A d \in D : d.kind = "notify" => \E w \in W : w.name = d.action /\ w.contract = d.contract

(* The handlers of the unit that is compiled are those of the declarations *)
(* it has visited; those a description has are those of its unit.          *)
Collected ==
  /\ FromActions(wasm_actions, Visited) /\ FromNotifies(wasm_notifies, Visited)
  /\ \A h \in handlers : \E d \in Visited : d.kind \in {"method", "notify"} /\ h = Handler(d)
  /\ DistinctNames => HasActions(wasm_actions, Visited) /\ HasNotifies(wasm_notifies, Visited)

Tells(desc, D) ==
  /\ desc # Empty
  /\ FromActions(desc.wasm_actions, D) /\ FromNotifies(desc.wasm_notifies, D)
  /\ DistinctNames => HasActions(desc.wasm_actions, D) /\ HasNotifies(desc.wasm_notifies, D)

DescribedInFull ==
  \A k \in DOMAIN desc_files :
    \/ desc_files[k] = Empty /\ DescribesNothing(input_files[Read + k])
    \/ Tells(desc_files[k], Unit(Read + k))

(* What has been read is in the dispatcher, and nothing else.              *)
ReadInFull ==
  /\ FromActions(all_actions, Contract) /\ FromNotifies(all_notifies, Contract)
  /\ DistinctNames =>
       \A i \in 1 .. Read : ~DescribesNothing(input_files[i]) =>
         HasActions(all_actions, Unit(i)) /\ HasNotifies(all_notifies, Unit(i))

UnitsInOrder ==
  /\ input_files \in Seq(Units) /\ compiled \in 0 .. Len(input_files)
  /\ desc_files \in Seq(Members(desc_files)) /\ Len(desc_files) <= compiled
  /\ phase \in {"compile", "merge", "done", "failed"}
  /\ phase = "compile" => compiled < Len(input_files)
  /\ phase \in {"merge", "done"} => compiled = Len(input_files)
  /\ phase = "done" => desc_files = <<>>
  /\ phase = "compile" /\ codegen # "idle" => code = input_files[compiled + 1]

DispatcherInv ==
  /\ UnitsInOrder
  /\ phase = "compile" /\ codegen # "idle" => Collected
  /\ DescribedInFull
  /\ ReadInFull

LEMMA FilesStay ==
  ASSUME input_files' = input_files
  PROVE  /\ \A i : Unit(i)' = Unit(i)
         /\ Contract' = Contract
         /\ DistinctNames' <=> DistinctNames
  BY DEF Unit, Contract, DistinctNames, All

LEMMA UnitsCompile ==
  ASSUME UnitsInOrder, NEW i \in 1 .. Len(input_files)
  PROVE  /\ input_files[i] \in Units /\ Compiles(input_files[i])
         /\ Unit(i) \subseteq Contract
<1>1. input_files[i] \in Units
  BY DEF UnitsInOrder
<1>2. i \in DOMAIN input_files
  BY DEF UnitsInOrder
<1> QED
  BY <1>1, <1>2, UnitsAssumption DEF Contract

(* The declarations of a contract are those of the kinds All picks.        *)
LEMMA AllIsContract ==
  ASSUME NEW kind
  PROVE  All(kind) = {d \in Contract : d.kind = kind}
<1>1. UNION {{unit[i] : i \in DOMAIN unit} : unit \in {input_files[i] : i \in DOMAIN input_files}}
        = Contract
  BY DEF Contract, Unit, Members
<1> QED
  BY <1>1 DEF All

(* Steps of the dispatcher are steps of the visitor, or leave it alone.    *)
LEMMA DispatcherStepsVisitor ==
  ASSUME UnitsInOrder, [DispatcherNext]_<<visitorVars, dispatcherVars>>
  PROVE  [VisitorNext]_visitorVars
<1>1. CASE BeginUnit
  <2>1. compiled + 1 \in 1 .. Len(input_files)
    BY <1>1 DEF UnitsInOrder, BeginUnit
  <2>2. input_files[compiled + 1] \in Units
    BY <2>1, UnitsCompile
  <2> QED
    BY <1>1, <2>2 DEF BeginUnit, StartWalk, VisitorNext
<1>2. CASE WalkUnit
  BY <1>2 DEF WalkUnit, VisitorNext
<1>3. CASE \E empty \in BOOLEAN : LeaveDescription(empty)
  BY <1>3 DEF LeaveDescription, EndWalk, VisitorNext
<1>4. CASE Fail \/ SkipDescription \/ AddHandlers \/ WriteDispatcher
  BY <1>4 DEF Fail, SkipDescription, AddHandlers, WriteDispatcher
<1>5. CASE UNCHANGED <<visitorVars, dispatcherVars>>
  BY <1>5
<1> QED
  BY <1>1, <1>2, <1>3, <1>4, <1>5 DEF DispatcherNext

-----------------------------------------------------------------------------
(* Collecting the handlers of a unit.                                      *)

LEMMA VisitedGrows ==
  ASSUME IInv, code' = code, next' = next + 1, next \in DOMAIN code
  PROVE  Visited' = Visited \cup {code[next]}
<1>1. /\ DOMAIN code = 1 .. Len(code) /\ Len(code) \in Nat /\ next \in Nat \ {0}
  BY DEF IInv, VisitorTypeOK, Compiles
<1>2. \A j \in DOMAIN code : j < next + 1 <=> j < next \/ j = next
  BY <1>1
<1> QED
  BY <1>2 DEF Visited

(* What has been visited is of the contract.                               *)
LEMMA VisitedInContract ==
  ASSUME UnitsInOrder, phase = "compile", codegen # "idle"
  PROVE  Visited \subseteq Contract /\ Members(code) \subseteq Contract
<1>1. code = input_files[compiled + 1] /\ compiled + 1 \in 1 .. Len(input_files)
  BY DEF UnitsInOrder
<1>2. Unit(compiled + 1) \subseteq Contract
  BY <1>1, UnitsCompile
<1> QED
  BY <1>1, <1>2 DEF Visited, Unit, Members

(* Two methods with the name of a handler are the same, so that the one    *)
(* met later has its case already; and likewise notifications.             *)
LEMMA RegisterCollects ==
  ASSUME UnitsInOrder, IInv, phase = "compile", codegen # "idle", Collected,
         input_files' = input_files, code' = code, next' = next + 1,
         next \in Ids, code[next].kind # "function", Register(code[next])
  PROVE  Collected'
<1> DEFINE d == code[next]
<1>1. /\ next \in DOMAIN code /\ d.kind \in {"method", "notify"}
      /\ Visited' = Visited \cup {d} /\ d \in Contract /\ Visited \subseteq Contract
  <2>1. next \in DOMAIN code /\ d.kind \in {"method", "notify"}
    BY DEF Ids, FunctionsOf, Functions
  <2>2. d \in Members(code)
    BY <2>1 DEF Members
  <2> QED
    BY <2>1, <2>2, VisitedGrows, VisitedInContract
<1>2. /\ handlers' = handlers \cup {Handler(d)}
      /\ wasm_actions' = IF d.kind = "method" /\ Handler(d) \notin handlers
                         THEN AddAction(d) ELSE wasm_actions
      /\ wasm_notifies' = IF d.kind = "notify" /\ Handler(d) \notin handlers
                          THEN AddNotify(d) ELSE wasm_notifies
  BY DEF Register
<1> HIDE DEF d
<1>3. FromActions(wasm_actions', Visited')
  <2>1. ASSUME NEW w \in wasm_actions', w \notin wasm_actions
        PROVE  d.kind = "method" /\ w.name = d.action /\ w.handler = Handler(d)
    BY <1>2, <2>1 DEF AddAction
  <2> QED
    BY <1>1, <2>1 DEF Collected, FromActions
<1>4. FromNotifies(wasm_notifies', Visited')
  <2>1. ASSUME NEW w \in wasm_notifies', w \notin wasm_notifies
        PROVE  /\ d.kind = "notify" /\ w.name = d.action /\ w.contract = d.contract
               /\ w.handler = Handler(d)
    BY <1>2, <2>1 DEF AddNotify
  <2> QED
    BY <1>1, <2>1 DEF Collected, FromNotifies
<1>5. \A h \in handlers' : \E e \in Visited' : e.kind \in {"method", "notify"} /\ h = Handler(e)
  BY <1>1, <1>2 DEF Collected
<1>6. ASSUME Handler(d) \in handlers
      PROVE  \E e \in Visited : e.kind = d.kind /\ e.name = d.name
  BY <1>6 DEF Collected, Handler
<1>7. ASSUME DistinctNames PROVE HasActions(wasm_actions', Visited')
  <2>1. HasActions(wasm_actions, Visited) /\ wasm_actions \subseteq wasm_actions'
    BY <1>2, <1>7 DEF Collected, AddAction
  <2>2. ASSUME d.kind = "method" PROVE \E w \in wasm_actions' : w.name = d.action
    <3>1. CASE Handler(d) \in handlers
      <4>1. PICK e \in Visited : e.kind = "method" /\ e.name = d.name
        BY <1>6, <2>2, <3>1
      <4>2. d \in All("method") /\ e \in All("method")
        BY <1>1, <2>2, <4>1, AllIsContract
      <4>3. Signature(d) = Signature(e)
        BY <1>7, <4>1, <4>2 DEF DistinctNames
      <4>4. e.action = d.action
        BY <4>3 DEF Signature
      <4> QED
        BY <2>1, <4>1, <4>4 DEF HasActions
    <3>2. CASE Handler(d) \notin handlers
      <4>1. [name |-> d.action, handler |-> Handler(d)].name = d.action
        OBVIOUS
      <4> QED
        BY <1>2, <2>2, <3>2, <4>1 DEF AddAction
    <3> QED
      BY <3>1, <3>2
  <2> QED
    BY <1>1, <2>1, <2>2 DEF HasActions
<1>8. ASSUME DistinctNames PROVE HasNotifies(wasm_notifies', Visited')
  <2>1. HasNotifies(wasm_notifies, Visited) /\ wasm_notifies \subseteq wasm_notifies'
    BY <1>2, <1>8 DEF Collected, AddNotify
  <2>2. ASSUME d.kind = "notify"
        PROVE  \E w \in wasm_notifies' : w.name = d.action /\ w.contract = d.contract
    <3>1. CASE Handler(d) \in handlers
      <4>1. PICK e \in Visited : e.kind = "notify" /\ e.name = d.name
        BY <1>6, <2>2, <3>1
      <4>2. d \in All("notify") /\ e \in All("notify")
        BY <1>1, <2>2, <4>1, AllIsContract
      <4>3. Interface(d) = Interface(e)
        BY <1>8, <4>1, <4>2 DEF DistinctNames
      <4>4. e.action = d.action /\ e.contract = d.contract
        BY <4>3 DEF Interface
      <4> QED
        BY <2>1, <4>1, <4>4 DEF HasNotifies
    <3>2. CASE Handler(d) \notin handlers
      <4> DEFINE n == [name |-> d.action, contract |-> d.contract, handler |-> Handler(d)]
      <4>1. n.name = d.action /\ n.contract = d.contract
        OBVIOUS
      <4> QED
        BY <1>2, <2>2, <3>2, <4>1 DEF AddNotify
    <3> QED
      BY <3>1, <3>2
  <2> QED
    BY <1>1, <2>1, <2>2 DEF HasNotifies
<1> QED
  BY <1>3, <1>4, <1>5, <1>7, <1>8, FilesStay DEF Collected, FromActions, FromNotifies,
     HasActions, HasNotifies, Handler

(* What is no handler changes nothing.                                     *)
LEMMA OthersCollect ==
  ASSUME Collected, input_files' = input_files,
         Visited \subseteq Visited',
         \A d \in Visited' : d \in Visited \/ d.kind \notin {"method", "notify"},
         handlers' = handlers, wasm_actions' = wasm_actions, wasm_notifies' = wasm_notifies
  PROVE  Collected'
<1>1. /\ FromActions(wasm_actions, Visited') /\ FromNotifies(wasm_notifies, Visited')
      /\ \A h \in handlers : \E d \in Visited' : d.kind \in {"method", "notify"} /\ h = Handler(d)
      /\ DistinctNames => /\ HasActions(wasm_actions, Visited')
                          /\ HasNotifies(wasm_notifies, Visited')
  BY DEF Collected, FromActions, FromNotifies, HasActions, HasNotifies
<1> QED
  BY <1>1, FilesStay DEF Collected, FromActions, FromNotifies, HasActions, HasNotifies, Handler

LEMMA WalkUnitKeeps ==
  ASSUME DispatcherInv, IInv, WalkUnit
  PROVE  DispatcherInv'
<1>1. /\ input_files' = input_files /\ compiled' = compiled /\ desc_files' = desc_files
      /\ all_actions' = all_actions /\ all_notifies' = all_notifies /\ phase' = phase
      /\ phase = "compile" /\ VisitorStep
  BY DEF WalkUnit, dispatcherVars
<1>2. code' = code /\ codegen # "idle"
  BY <1>1 DEF VisitorStep, VisitFunction, VisitVariable, Descend, Call, Other, Return,
     ProcessReadOnly, Walking
<1>3. UnitsInOrder /\ Collected /\ DescribedInFull /\ ReadInFull
  BY <1>1, <1>2 DEF DispatcherInv
<1>4. Collected'
  <2>1. CASE VisitFunction
    <3>1. next \in Ids /\ next' = next + 1 /\ next \in DOMAIN code
      BY <2>1 DEF VisitFunction, Ids, FunctionsOf
    <3>2. CASE code[next].kind # "function"
      BY <1>1, <1>2, <1>3, <2>1, <3>1, <3>2, RegisterCollects DEF VisitFunction
    <3>3. CASE code[next].kind = "function"
      <4>1. /\ Visited \subseteq Visited'
            /\ \A d \in Visited' : d \in Visited \/ d.kind \notin {"method", "notify"}
        BY <1>2, <3>1, <3>3, VisitedGrows
      <4>2. handlers' = handlers /\ wasm_actions' = wasm_actions /\ wasm_notifies' = wasm_notifies
        BY <2>1, <3>3 DEF VisitFunction
      <4> QED
        BY <1>1, <1>3, <4>1, <4>2, OthersCollect
    <3> QED
      BY <3>2, <3>3
  <2>2. CASE VisitVariable
    <3>1. /\ next <= Len(code) /\ next \notin Ids /\ next' = next + 1
          /\ handlers' = handlers /\ wasm_actions' = wasm_actions /\ wasm_notifies' = wasm_notifies
      BY <2>2 DEF VisitVariable
    <3>2. next \in DOMAIN code
      <4>1. DOMAIN code = 1 .. Len(code) /\ Len(code) \in Nat /\ next \in Nat \ {0}
        BY DEF IInv, VisitorTypeOK, Compiles
      <4> QED
        BY <3>1, <4>1
    <3>3. code[next].kind \notin {"method", "notify"}
      BY <3>1, <3>2 DEF Ids, FunctionsOf, Functions
    <3>4. /\ Visited \subseteq Visited'
          /\ \A d \in Visited' : d \in Visited \/ d.kind \notin {"method", "notify"}
      BY <1>2, <3>1, <3>2, <3>3, VisitedGrows
    <3> QED
      BY <1>1, <1>3, <3>1, <3>4, OthersCollect
  <2>3. CASE Descend \/ Call \/ Other \/ Return \/ ProcessReadOnly
    <3>1. /\ next' = next /\ handlers' = handlers
          /\ wasm_actions' = wasm_actions /\ wasm_notifies' = wasm_notifies
      BY <2>3 DEF Descend, Call, Other, Return, ProcessReadOnly
    <3>2. Visited' = Visited
      BY <1>2, <3>1 DEF Visited
    <3> QED
      BY <1>1, <1>3, <3>1, <3>2, OthersCollect
  <2> QED
    BY <1>1, <2>1, <2>2, <2>3 DEF VisitorStep
<1>5. UnitsInOrder'
  BY <1>1, <1>2, <1>3 DEF UnitsInOrder, Members
<1>6. DescribedInFull' /\ ReadInFull'
  BY <1>1, <1>3, FilesStay DEF DescribedInFull, ReadInFull, Tells, Read, FromActions,
     FromNotifies, HasActions, HasNotifies, DescribesNothing, Handler
<1> QED
  BY <1>4, <1>5, <1>6 DEF DispatcherInv

-----------------------------------------------------------------------------
(* Units and their descriptions.                                           *)

LEMMA SequenceOfMembers ==
  ASSUME NEW S, NEW s \in Seq(S)
  PROVE  s \in Seq(Members(s)) /\ DOMAIN s = 1 .. Len(s) /\ Len(s) \in Nat
<1>1. DOMAIN s = 1 .. Len(s) /\ Len(s) \in Nat
  OBVIOUS
<1>2. s = [i \in 1 .. Len(s) |-> s[i]] /\ \A i \in 1 .. Len(s) : s[i] \in Members(s)
  BY <1>1 DEF Members
<1> HIDE DEF Members
<1>3. s \in [1 .. Len(s) -> Members(s)]
  BY <1>2
<1> QED
  BY <1>1, <1>3

(* What says the same of the descriptions, whatever the visitor does.      *)
LEMMA DescriptionsStay ==
  ASSUME DispatcherInv, input_files' = input_files, compiled' = compiled,
         desc_files' = desc_files, all_actions' = all_actions, all_notifies' = all_notifies
  PROVE  DescribedInFull' /\ ReadInFull'
  BY FilesStay DEF DispatcherInv, DescribedInFull, ReadInFull, Tells, Read, FromActions,
     FromNotifies, HasActions, HasNotifies, DescribesNothing, Handler

LEMMA BeginUnitKeeps ==
  ASSUME DispatcherInv, BeginUnit
  PROVE  DispatcherInv'
<1>1. /\ input_files' = input_files /\ compiled' = compiled /\ desc_files' = desc_files
      /\ all_actions' = all_actions /\ all_notifies' = all_notifies /\ phase' = phase
      /\ code' = input_files[compiled + 1] /\ next' = 1
      /\ handlers' = {} /\ wasm_actions' = {} /\ wasm_notifies' = {}
  BY DEF BeginUnit, Begin, dispatcherVars
<1>2. UnitsInOrder /\ phase = "compile"
  BY DEF DispatcherInv, BeginUnit
<1>3. UnitsInOrder'
  BY <1>1, <1>2 DEF UnitsInOrder, Members
<1>4. Collected'
  <2>1. DOMAIN (code') = 1 .. Len(code')
    <3>1. compiled + 1 \in 1 .. Len(input_files)
      BY <1>2 DEF UnitsInOrder
    <3> QED
      BY <1>1, <1>2, <3>1, UnitsCompile DEF Compiles
  <2>2. \A j \in DOMAIN (code') : ~(j < next')
    BY <1>1, <2>1
  <2>3. Visited' = {}
    BY <2>2 DEF Visited
  <2> QED
    BY <1>1, <2>3 DEF Collected, FromActions, FromNotifies, HasActions, HasNotifies
<1>5. DescribedInFull' /\ ReadInFull'
  BY <1>1, DescriptionsStay
<1> QED
  BY <1>3, <1>4, <1>5 DEF DispatcherInv

LEMMA FailKeeps ==
  ASSUME DispatcherInv, Fail
  PROVE  DispatcherInv'
<1>1. /\ input_files' = input_files /\ compiled' = compiled /\ desc_files' = desc_files
      /\ all_actions' = all_actions /\ all_notifies' = all_notifies /\ phase' = "failed"
  BY DEF Fail
<1>2. UnitsInOrder'
  BY <1>1 DEF DispatcherInv, UnitsInOrder, Members
<1> QED
  BY <1>1, <1>2, DescriptionsStay DEF DispatcherInv

LEMMA WriteDispatcherKeeps ==
  ASSUME DispatcherInv, WriteDispatcher
  PROVE  DispatcherInv'
<1>1. /\ input_files' = input_files /\ compiled' = compiled /\ desc_files' = desc_files
      /\ all_actions' = all_actions /\ all_notifies' = all_notifies
      /\ phase = "merge" /\ phase' = "done" /\ desc_files = <<>>
  BY DEF WriteDispatcher
<1>2. UnitsInOrder'
  BY <1>1 DEF DispatcherInv, UnitsInOrder, Members
<1> QED
  BY <1>1, <1>2, DescriptionsStay DEF DispatcherInv

(* The handlers collected at the end of a unit are those of all of it.     *)
LEMMA LeaveDescriptionKeeps ==
  ASSUME DispatcherInv, IInv, NEW empty \in BOOLEAN, empty => DescribesNothing(code),
         LeaveDescription(empty)
  PROVE  DispatcherInv'
<1> DEFINE desc == IF empty THEN Empty ELSE Description
           n == compiled + 1
<1>1. /\ UnitsInOrder /\ Collected /\ DescribedInFull /\ ReadInFull
      /\ phase = "compile" /\ codegen = "off"
  BY DEF DispatcherInv, LeaveDescription
<1>2. /\ input_files' = input_files /\ compiled' = n
      /\ desc_files' = Append(desc_files, desc) /\ codegen' = "idle"
      /\ all_actions' = all_actions /\ all_notifies' = all_notifies
      /\ phase' = IF n = Len(input_files) THEN "merge" ELSE "compile"
  BY DEF LeaveDescription
<1>3. /\ n \in 1 .. Len(input_files) /\ compiled \in Nat /\ Len(input_files) \in Nat
      /\ code = input_files[n] /\ Unit(n) = Members(code)
      /\ desc_files \in Seq(Members(desc_files)) /\ Len(desc_files) \in Nat
      /\ Len(desc_files) <= compiled /\ DOMAIN desc_files = 1 .. Len(desc_files)
  BY <1>1 DEF UnitsInOrder, Unit
<1>4. Visited = Members(code)
  <2>1. /\ next > Len(code) /\ DOMAIN code = 1 .. Len(code) /\ Len(code) \in Nat
        /\ next \in Nat
    BY <1>1 DEF IInv, OffAtEnd, VisitorTypeOK, Compiles
  <2>2. \A j \in DOMAIN code : j < next
    BY <2>1
  <2> QED
    BY <2>2 DEF Visited, Members
<1>5. \/ desc = Empty /\ DescribesNothing(input_files[n])
      \/ Tells(desc, Unit(n))
  <2>1. CASE empty
    BY <1>3, <2>1
  <2>2. CASE ~empty
    <3>1. desc = Description /\ DOMAIN desc # DOMAIN Empty
      BY <2>2 DEF Description, Empty
    <3>2. desc # Empty
      BY <3>1
    <3>3. desc.wasm_actions = wasm_actions /\ desc.wasm_notifies = wasm_notifies
      BY <3>1 DEF Description
    <3> HIDE DEF desc
    <3> QED
      BY <1>1, <1>3, <1>4, <3>2, <3>3 DEF Tells, Collected
  <2> QED
    BY <2>1, <2>2
<1> HIDE DEF desc
<1>6. /\ Len(desc_files') = Len(desc_files) + 1
      /\ \A k \in 1 .. Len(desc_files) : desc_files'[k] = desc_files[k]
      /\ desc_files'[Len(desc_files) + 1] = desc
      /\ desc_files' \in Seq(Members(desc_files) \cup {desc})
  BY <1>2, <1>3
<1>7. /\ DOMAIN (desc_files') = 1 .. Len(desc_files) + 1
      /\ desc_files' \in Seq(Members(desc_files'))
  BY <1>3, <1>6 DEF Members
<1>8. UnitsInOrder'
  BY <1>1, <1>2, <1>3, <1>6, <1>7 DEF UnitsInOrder
<1>9. Read' = Read /\ Read + (Len(desc_files) + 1) = n /\ Read \in Nat
  BY <1>2, <1>3, <1>6 DEF Read
<1>10. DescribedInFull'
  <2>1. ASSUME NEW k \in DOMAIN (desc_files')
        PROVE  \/ desc_files'[k] = Empty /\ DescribesNothing(input_files[Read + k])
               \/ Tells(desc_files'[k], Unit(Read + k))
    <3>1. CASE k = Len(desc_files) + 1
      BY <1>5, <1>6, <1>9, <3>1
    <3>2. CASE k # Len(desc_files) + 1
      <4>1. k \in 1 .. Len(desc_files)
        BY <1>3, <1>7, <3>2
      <4> QED
        BY <1>1, <1>3, <1>6, <4>1 DEF DescribedInFull
    <3> QED
      BY <3>1, <3>2
  <2> QED
    BY <1>2, <1>9, <2>1, FilesStay DEF DescribedInFull, Tells, FromActions, FromNotifies,
       HasActions, HasNotifies, DescribesNothing, Handler
<1>11. ReadInFull'
  BY <1>1, <1>2, <1>9, FilesStay DEF ReadInFull, FromActions, FromNotifies, HasActions,
     HasNotifies, DescribesNothing, Handler
<1> QED
  BY <1>2, <1>8, <1>10, <1>11 DEF DispatcherInv

(* The description at the front is of the first unit that has not been     *)
(* read.                                                                   *)
LEMMA FrontIs ==
  ASSUME DispatcherInv, phase = "merge", desc_files # <<>>,
         input_files' = input_files, compiled' = compiled, desc_files' = Tail(desc_files)
  PROVE  /\ Read \in Nat /\ Read' = Read + 1 /\ Read + 1 \in 1 .. Len(input_files)
         /\ \/ Head(desc_files) = Empty /\ DescribesNothing(input_files[Read + 1])
            \/ Tells(Head(desc_files), Unit(Read + 1))
         /\ DescribedInFull'
         /\ phase' = phase /\ codegen' = codegen /\ code' = code => UnitsInOrder'
<1>1. /\ UnitsInOrder /\ DescribedInFull
      /\ desc_files \in Seq(Members(desc_files)) /\ Len(desc_files) \in Nat
      /\ compiled = Len(input_files) /\ compiled \in Nat /\ Len(desc_files) <= compiled
      /\ DOMAIN desc_files = 1 .. Len(desc_files)
  BY DEF DispatcherInv, UnitsInOrder
<1>2. /\ Len(desc_files) > 0 /\ Head(desc_files) = desc_files[1]
      /\ Len(desc_files') = Len(desc_files) - 1
      /\ desc_files' \in Seq(Members(desc_files))
      /\ \A k \in 1 .. Len(desc_files) - 1 : desc_files'[k] = desc_files[k + 1]
  BY <1>1, PopFrame
<1>3. DOMAIN (desc_files') = 1 .. Len(desc_files) - 1 /\ desc_files' \in Seq(Members(desc_files'))
  BY <1>2, SequenceOfMembers
<1>4. Read \in Nat /\ Read' = Read + 1 /\ Read + 1 \in 1 .. Len(input_files)
  BY <1>1, <1>2 DEF Read
<1>5. \/ Head(desc_files) = Empty /\ DescribesNothing(input_files[Read + 1])
      \/ Tells(Head(desc_files), Unit(Read + 1))
  <2>1. 1 \in DOMAIN desc_files
    BY <1>1, <1>2
  <2> QED
    BY <1>1, <1>2, <2>1 DEF DescribedInFull
<1>6. DescribedInFull'
  <2>1. ASSUME NEW k \in DOMAIN (desc_files')
        PROVE  \/ desc_files'[k] = Empty /\ DescribesNothing(input_files[Read' + k])
               \/ Tells(desc_files'[k], Unit(Read' + k))
    <3>1. k + 1 \in DOMAIN desc_files /\ desc_files'[k] = desc_files[k + 1]
          /\ Read' + k = Read + (k + 1)
      BY <1>1, <1>2, <1>3, <1>4
    <3> QED
      BY <1>1, <3>1 DEF DescribedInFull
  <2> QED
    BY <2>1, FilesStay DEF DescribedInFull, Tells, FromActions, FromNotifies,
       HasActions, HasNotifies, DescribesNothing, Handler
<1>7. phase' = phase /\ codegen' = codegen /\ code' = code => UnitsInOrder'
  BY <1>1, <1>2, <1>3 DEF UnitsInOrder
<1> QED
  BY <1>4, <1>5, <1>6, <1>7

LEMMA SkipKeeps ==
  ASSUME DispatcherInv, SkipDescription
  PROVE  DispatcherInv'
<1>1. /\ phase = "merge" /\ desc_files # <<>> /\ Head(desc_files) = Empty
      /\ input_files' = input_files /\ compiled' = compiled /\ desc_files' = Tail(desc_files)
      /\ all_actions' = all_actions /\ all_notifies' = all_notifies /\ phase' = phase
      /\ code' = code /\ codegen' = codegen
  BY DEF SkipDescription, visitorVars
<1>2. /\ Read \in Nat /\ Read' = Read + 1 /\ DescribesNothing(input_files[Read + 1])
      /\ DescribedInFull' /\ UnitsInOrder'
  BY <1>1, FrontIs DEF Tells
<1>3. \A i \in 1 .. Read' : ~DescribesNothing(input_files[i]) => i \in 1 .. Read
  BY <1>2
<1>4. ReadInFull'
  BY <1>1, <1>3, FilesStay DEF DispatcherInv, ReadInFull, FromActions, FromNotifies, HasActions,
     HasNotifies, DescribesNothing, Handler
<1> QED
  BY <1>1, <1>2, <1>4 DEF DispatcherInv

(* The first handler of a name stays, but a name that is new gets in.      *)
LEMMA AddHandlersKeeps ==
  ASSUME DispatcherInv, AddHandlers
  PROVE  DispatcherInv'
<1> DEFINE desc == Head(desc_files)
           U == Unit(Read + 1)
<1>1. /\ phase = "merge" /\ desc_files # <<>> /\ desc # Empty
      /\ input_files' = input_files /\ compiled' = compiled /\ desc_files' = Tail(desc_files)
      /\ all_actions' = all_actions \cup AddActions(desc.wasm_actions)
      /\ all_notifies' = all_notifies \cup AddNotifies(desc.wasm_notifies)
      /\ phase' = phase /\ code' = code /\ codegen' = codegen
  BY DEF AddHandlers, visitorVars
<1>2. /\ Read \in Nat /\ Read' = Read + 1 /\ Read + 1 \in 1 .. Len(input_files)
      /\ Tells(desc, U) /\ DescribedInFull' /\ UnitsInOrder'
  BY <1>1, FrontIs
<1>3. U \subseteq Contract
  BY <1>2, UnitsCompile DEF DispatcherInv
<1>4. FromActions(desc.wasm_actions, U) /\ FromNotifies(desc.wasm_notifies, U)
      /\ (DistinctNames => HasActions(desc.wasm_actions, U) /\ HasNotifies(desc.wasm_notifies, U))
  BY <1>2 DEF Tells
<1> HIDE DEF desc, U
<1>5. FromActions(all_actions', Contract) /\ FromNotifies(all_notifies', Contract)
  <2>1. FromActions(all_actions, Contract) /\ FromNotifies(all_notifies, Contract)
    BY DEF DispatcherInv, ReadInFull
  <2>2. /\ AddActions(desc.wasm_actions) \subseteq desc.wasm_actions
        /\ AddNotifies(desc.wasm_notifies) \subseteq desc.wasm_notifies
    BY DEF AddActions, AddNotifies
  <2> QED
    BY <1>1, <1>3, <1>4, <2>1, <2>2 DEF FromActions, FromNotifies
<1>6. /\ \A w \in desc.wasm_actions : \E v \in all_actions' : v.name = w.name
      /\ \A w \in desc.wasm_notifies :
           \E v \in all_notifies' : v.name = w.name /\ v.contract = w.contract
      /\ all_actions \subseteq all_actions' /\ all_notifies \subseteq all_notifies'
  BY <1>1 DEF AddActions, AddNotifies
<1>7. ASSUME DistinctNames, NEW i \in 1 .. Read', ~DescribesNothing(input_files[i])
      PROVE  HasActions(all_actions', Unit(i)) /\ HasNotifies(all_notifies', Unit(i))
  <2>1. CASE i = Read + 1
    <3>1. /\ \A d \in Unit(i) : d.kind = "method" =>
               \E w \in desc.wasm_actions : w.name = d.action
          /\ \A d \in Unit(i) : d.kind = "notify" =>
               \E w \in desc.wasm_notifies : w.name = d.action /\ w.contract = d.contract
      BY <1>4, <1>7, <2>1 DEF HasActions, HasNotifies, U
    <3> QED
      BY <1>6, <3>1 DEF HasActions, HasNotifies
  <2>2. CASE i # Read + 1
    <3>1. i \in 1 .. Read
      BY <1>2, <2>2
    <3>2. HasActions(all_actions, Unit(i)) /\ HasNotifies(all_notifies, Unit(i))
      BY <1>7, <3>1 DEF DispatcherInv, ReadInFull
    <3> QED
      BY <1>6, <3>2 DEF HasActions, HasNotifies
  <2> QED
    BY <2>1, <2>2
<1>8. ReadInFull'
  BY <1>1, <1>5, <1>7, FilesStay DEF ReadInFull, FromActions, FromNotifies, HasActions,
     HasNotifies, DescribesNothing, Handler
<1> QED
  BY <1>1, <1>2, <1>8 DEF DispatcherInv

-----------------------------------------------------------------------------
(* What the invariant says of apply.                                       *)

LEMMA InvariantCallsMethods == DispatcherInv => MethodsAreCalled
<1> SUFFICES ASSUME DispatcherInv, phase = "done", DistinctNames
             PROVE  /\ \A d \in All("method") : apply("self", "self", d.action) = Handler(d)
                    /\ \A a : \/ \E d \in All("method") : d.action = a
                              \/ apply("self", "self", a) \in {<<"assert">>, <<"nothing">>}
  BY DEF MethodsAreCalled
<1>1. FromActions(all_actions, Contract)
  BY DEF DispatcherInv, ReadInFull
<1>2. ASSUME NEW d \in All("method") PROVE apply("self", "self", d.action) = Handler(d)
  <2>1. PICK i \in DOMAIN input_files : d \in Unit(i)
    BY AllIsContract DEF Contract
  <2>2. i \in 1 .. Read
    <3>1. Read = Len(input_files) /\ DOMAIN input_files = 1 .. Len(input_files)
      BY DEF DispatcherInv, UnitsInOrder, Read
    <3> QED
      BY <3>1
  <2>3. d.kind = "method"
    BY AllIsContract
  <2>4. ~DescribesNothing(input_files[i])
    BY <2>1, <2>3 DEF DescribesNothing, Unit, Members
  <2>5. \E w \in all_actions : w.name = d.action
    BY <2>1, <2>2, <2>3, <2>4 DEF DispatcherInv, ReadInFull, HasActions
  <2>6. ASSUME NEW w \in ActionHandlers(d.action) PROVE w.handler = Handler(d)
    <3>1. PICK e \in Contract : e.kind = "method" /\ w.name = e.action /\ w.handler = Handler(e)
      BY <1>1, <2>6 DEF ActionHandlers, FromActions
    <3>2. e \in All("method") /\ e.action = d.action
      BY <2>6, <3>1, AllIsContract DEF ActionHandlers
    <3>3. Signature(e) = Signature(d)
      BY <3>2 DEF DistinctNames
    <3> QED
      BY <3>1, <3>3 DEF Signature, Handler
  <2>7. ActionHandlers(d.action) # {}
    BY <2>5 DEF ActionHandlers
  <2>8. HandlerIn(ActionHandlers(d.action)) = Handler(d)
    BY <2>6, <2>7 DEF HandlerIn
  <2> QED
    BY <2>7, <2>8 DEF apply
<1>3. ASSUME NEW a, ~(\E d \in All("method") : d.action = a)
      PROVE  apply("self", "self", a) \in {<<"assert">>, <<"nothing">>}
  <2>1. ActionHandlers(a) = {}
    BY <1>1, <1>3, AllIsContract DEF ActionHandlers, FromActions
  <2> QED
    BY <2>1 DEF apply
<1> QED
  BY <1>2, <1>3

LEMMA InvariantNotifies == DispatcherInv => NotificationsArrive
<1> SUFFICES ASSUME DispatcherInv, phase = "done", DistinctNames,
                    NEW a \in ValidNames, NEW c \in ValidNames \ {"self"}
             PROVE  LET exact == {e \in All("notify") : e.action = a /\ e.contract = c}
                        any == {e \in All("notify") : e.action = a /\ e.contract = "*"}
                        best == IF exact # {} THEN exact ELSE any
                        handler == apply("self", c, a)
                    IN \/ \E i \in DOMAIN input_files :
                            /\ DescribesNothing(input_files[i])
                            /\ \E j \in DOMAIN input_files[i] : input_files[i][j] \in exact \cup any
                       \/ best = {} /\ handler = <<"nothing">>
                       \/ handler \in {Handler(e) : e \in best}
  BY DEF NotificationsArrive
<1> DEFINE exact == {e \in All("notify") : e.action = a /\ e.contract = c}
           any == {e \in All("notify") : e.action = a /\ e.contract = "*"}
           best == IF exact # {} THEN exact ELSE any
           named == {n \in all_notifies : n.name = a}
           of(x) == {n \in named : n.contract = x}
<1> SUFFICES ASSUME ~ \E i \in DOMAIN input_files :
                        /\ DescribesNothing(input_files[i])
                        /\ \E j \in DOMAIN input_files[i] : input_files[i][j] \in exact \cup any
             PROVE  \/ best = {} /\ apply("self", c, a) = <<"nothing">>
                    \/ apply("self", c, a) \in {Handler(e) : e \in best}
  OBVIOUS
<1>1. ASSUME NEW x, NEW w \in of(x)
      PROVE  \E e \in All("notify") : e.action = a /\ e.contract = x /\ w.handler = Handler(e)
  <2>1. FromNotifies(all_notifies, Contract)
    BY DEF DispatcherInv, ReadInFull
  <2> QED
    BY <1>1, <2>1, AllIsContract DEF FromNotifies
<1>2. ASSUME NEW e \in exact \cup any PROVE \E w \in of(e.contract) : TRUE
  <2>1. e \in All("notify") /\ e.kind = "notify" /\ e \in Contract /\ e.action = a
    BY AllIsContract
  <2>2. PICK i \in DOMAIN input_files : e \in Unit(i)
    BY <2>1 DEF Contract
  <2>3. ~DescribesNothing(input_files[i])
    BY <2>2 DEF Unit, Members
  <2>4. i \in 1 .. Read
    <3>1. Read = Len(input_files) /\ DOMAIN input_files = 1 .. Len(input_files)
      BY DEF DispatcherInv, UnitsInOrder, Read
    <3> QED
      BY <3>1
  <2> QED
    BY <2>1, <2>2, <2>3, <2>4 DEF DispatcherInv, ReadInFull, HasNotifies
<1>3. exact = {} <=> of(c) = {}
  BY <1>1, <1>2
<1>4. any = {} <=> of("*") = {}
  BY <1>1, <1>2
<1>5. NotifyHandlers(c, a) = IF of(c) # {} THEN of(c) ELSE of("*")
  BY DEF NotifyHandlers
<1>6. c # "self"
  OBVIOUS
<1>7. CASE best = {}
  <2>1. exact = {} /\ any = {}
    BY <1>7
  <2>2. NotifyHandlers(c, a) = {}
    BY <1>3, <1>4, <1>5, <2>1
  <2> QED
    BY <1>6, <1>7, <2>2 DEF apply
<1>8. CASE best # {}
  <2>1. NotifyHandlers(c, a) # {}
    BY <1>3, <1>4, <1>5, <1>8
  <2>2. \A w \in NotifyHandlers(c, a) : \E e \in best : w.handler = Handler(e)
    BY <1>1, <1>3, <1>4, <1>5
  <2>3. HandlerIn(NotifyHandlers(c, a)) \in {Handler(e) : e \in best}
    BY <2>1, <2>2 DEF HandlerIn
  <2> QED
    BY <1>6, <2>1, <2>3 DEF apply
<1> QED
  BY <1>7, <1>8

(* Actions and notifications reach their handlers, of however many units   *)
(* the contract is made, in whatever order they are compiled and whatever  *)
(* each of them describes (eosio-codegen.cpp:26-90, 341-394,               *)
(* codegen.cpp:157-184, cdt_abi.hpp:79-93).                                *)
THEOREM CallsAlwaysArrive == DispatcherSpec => []CallsArrive
<1> DEFINE Init == \E units \in Seq(Units) : units # <<>> /\ DispatcherInit(units)
<1>1. Init => DispatcherInv /\ IInv
  <2> SUFFICES ASSUME NEW units \in Seq(Units), units # <<>>, DispatcherInit(units)
               PROVE  DispatcherInv /\ IInv
    OBVIOUS
  <2>1. /\ input_files = units /\ compiled = 0 /\ desc_files = <<>> /\ all_actions = {}
        /\ all_notifies = {} /\ phase = "compile" /\ codegen = "idle" /\ Quiet
    BY DEF DispatcherInit, Quiet
  <2>2. DOMAIN desc_files = {} /\ Len(desc_files) = 0 /\ Read = 0
    <3>1. DOMAIN <<>> = {} /\ Len(<<>>) = 0 /\ 0 - 0 = 0
      OBVIOUS
    <3> QED
      BY <2>1, <3>1 DEF Read
  <2>3. 1 .. 0 = {} /\ Len(units) \in Nat \ {0}
    OBVIOUS
  <2>4. UnitsInOrder
    <3>1. desc_files \in Seq({})
      BY <2>1
    <3>2. desc_files \in Seq(Members(desc_files))
      BY <3>1, SequenceOfMembers
    <3> QED
      BY <2>1, <2>2, <2>3, <3>2 DEF UnitsInOrder
  <2>5. DescribedInFull /\ ReadInFull
    BY <2>1, <2>2, <2>3 DEF DescribedInFull, ReadInFull, FromActions, FromNotifies
  <2> QED
    BY <2>1, <2>4, <2>5, QuietIsFresh DEF DispatcherInv
<1>2. DispatcherInv /\ IInv /\ [DispatcherNext]_<<visitorVars, dispatcherVars>>
        => (DispatcherInv /\ IInv)'
  <2> SUFFICES ASSUME DispatcherInv, IInv, [DispatcherNext]_<<visitorVars, dispatcherVars>>
               PROVE  DispatcherInv' /\ IInv'
    OBVIOUS
  <2>1. IInv'
    BY DispatcherStepsVisitor, StepKeeps DEF DispatcherInv
  <2>2. CASE UNCHANGED <<visitorVars, dispatcherVars>>
    <3>1. /\ input_files' = input_files /\ compiled' = compiled /\ desc_files' = desc_files
          /\ all_actions' = all_actions /\ all_notifies' = all_notifies /\ phase' = phase
          /\ code' = code /\ codegen' = codegen /\ next' = next /\ handlers' = handlers
          /\ wasm_actions' = wasm_actions /\ wasm_notifies' = wasm_notifies
      BY <2>2 DEF visitorVars, dispatcherVars
    <3>2. UnitsInOrder'
      BY <3>1 DEF DispatcherInv, UnitsInOrder, Members
    <3>3. Visited' = Visited
      BY <3>1 DEF Visited
    <3>4. Collected => Collected'
      BY <3>1, <3>3, OthersCollect
    <3> QED
      BY <2>1, <3>1, <3>2, <3>4, DescriptionsStay DEF DispatcherInv
  <2>3. CASE DispatcherNext
    BY <2>1, <2>3, BeginUnitKeeps, WalkUnitKeeps, FailKeeps, LeaveDescriptionKeeps, SkipKeeps,
       AddHandlersKeeps, WriteDispatcherKeeps DEF DispatcherNext
  <2> QED
    BY <2>1, <2>2, <2>3
<1>3. DispatcherInv => CallsArrive
  BY InvariantCallsMethods, InvariantNotifies DEF CallsArrive
<1> QED
  BY <1>1, <1>2, <1>3, PTL DEF DispatcherSpec
=============================================================================
