----------------------------- MODULE HeapProofs -----------------------------
(***************************************************************************)
(* The heaps of the legacy allocator are tiled by their blocks, for any    *)
(* memory, any number of heaps and of blocks, and requests of any size.    *)
(*                                                                         *)
(* Inductive is that there are sets of blocks, one for each heap, such     *)
(* that the headers lead from block to block through all that the heap has *)
(* handed out (Tiling), those in use are the contract's (HeldSound), and   *)
(* what the call under way has found out still holds: what it has gone     *)
(* past is too small for it (Small, Searched), what it is merging is a run *)
(* of free blocks (RunFrom), and the heaps before the active one are full  *)
(* (CursorSound).  In the end those sets are what Blocks walks through.    *)
(***************************************************************************)
EXTENDS Library, FiniteSetTheorems, WellFoundedInduction, TLAPS

LEMMA LeastNumber ==
  ASSUME NEW S \in SUBSET Nat, S # {}
  PROVE  \E n \in S : \A m \in S : n <= m
<1>1. PICK n \in S : \A o \in S : ~(<<o, n>> \in OpToRel(<, Nat))
  BY NatLessThanWellFounded, WFMin
<1>2. \A o \in S : ~(o < n)
  BY <1>1 DEF OpToRel
<1> QED BY <1>2

-----------------------------------------------------------------------------
(* The blocks B of a heap that starts at S and has handed out the memory   *)
(* to F: with ends E, they follow one another, and there is nothing else.  *)
Tiling(B, S, F, E) ==
  /\ B \subseteq (S + 1)..F
  /\ F # S => S + 1 \in B
  /\ \A p \in B : E[p] <= F /\ (E[p] # F => E[p] + 1 \in B)
  /\ \A p \in B : p # S + 1 => \E q \in B : E[q] + 1 = p
  /\ \A p, q \in B : p < q => E[p] < q

(* Where blocks can end.                                                   *)
EndType == {E \in [Nat -> Nat] : \A p \in Nat : p <= E[p]}

LEMMA TilingSame ==
  ASSUME NEW S \in Nat, NEW F \in Nat, NEW E \in EndType, NEW G \in EndType, NEW B,
         Tiling(B, S, F, E), \A p \in B : G[p] = E[p]
  PROVE  Tiling(B, S, F, G)
  BY DEF Tiling

LEMMA TilingAppend ==
  ASSUME NEW S \in Nat, NEW F \in Nat, S <= F, NEW E \in EndType, NEW B, Tiling(B, S, F, E),
         NEW G \in Nat, F < G
  PROVE  Tiling(B \cup {F + 1}, S, G, [E EXCEPT ![F + 1] = G])
<1> DEFINE C == B \cup {F + 1}
           D == [E EXCEPT ![F + 1] = G]
<1>1. B \subseteq (S + 1)..F /\ F + 1 \notin B /\ F + 1 \in Nat /\ B \subseteq Nat
  BY DEF Tiling
<1>2. D[F + 1] = G /\ \A p \in B : D[p] = E[p] /\ E[p] \in Nat
  BY <1>1 DEF EndType
<1>3. C \subseteq (S + 1)..G
  BY <1>1
<1>4. S + 1 \in C
  BY DEF Tiling
<1>5. \A p \in C : D[p] <= G /\ (D[p] # G => D[p] + 1 \in C)
  BY <1>2 DEF Tiling
<1>6. \A p \in C : p # S + 1 => \E q \in C : D[q] + 1 = p
  <2> SUFFICES ASSUME NEW p \in C, p # S + 1 PROVE \E q \in C : D[q] + 1 = p
    OBVIOUS
  <2>1. CASE p \in B
    BY <1>2, <2>1 DEF Tiling
  <2>2. CASE p = F + 1
    <3>1. \E q \in B : E[q] = F
      <4>1. F # S /\ S + 1 \in B
        BY <2>2 DEF Tiling
      <4> DEFINE M == {n \in Nat : F - n \in B}
      <4>2. F - (S + 1) \in M
        BY <1>1, <4>1
      <4>3. PICK n \in M : \A m \in M : n <= m
        <5>1. M # {} /\ M \in SUBSET Nat BY <4>2
        <5> HIDE DEF M
        <5> QED BY <5>1, LeastNumber
      <4>4. F - n \in B /\ E[F - n] \in Nat /\ F - n \in Nat /\ F - n <= E[F - n]
        BY <1>1, <4>3 DEF EndType
      <4>5. CASE E[F - n] # F
        <5>1. E[F - n] + 1 \in B /\ E[F - n] + 1 <= F
          BY <1>1, <4>4, <4>5 DEF Tiling
        <5>2. F - (E[F - n] + 1) \in M
          BY <1>1, <4>4, <5>1
        <5> QED BY <4>3, <4>4, <5>1, <5>2
      <4> QED BY <4>4, <4>5
    <3> QED BY <1>2, <2>2, <3>1
  <2> QED BY <2>1, <2>2
<1>7. \A p, q \in C : p < q => D[p] < q
  BY <1>1, <1>2 DEF Tiling
<1> QED BY <1>3, <1>4, <1>5, <1>6, <1>7 DEF Tiling

(* The last block grows.                                                   *)
LEMMA TilingGrows ==
  ASSUME NEW S \in Nat, NEW F \in Nat, NEW E \in EndType, NEW B, Tiling(B, S, F, E),
         NEW p \in B, E[p] = F, NEW G \in Nat, F <= G
  PROVE  Tiling(B, S, G, [E EXCEPT ![p] = G])
<1> DEFINE D == [E EXCEPT ![p] = G]
<1>1. B \subseteq (S + 1)..F /\ B \subseteq Nat /\ p \in Nat /\ p <= F
  BY DEF Tiling
<1>2. D[p] = G /\ \A q \in B : q # p => D[q] = E[q]
  BY <1>1 DEF EndType
<1>3. \A q \in B : q # p => q < p /\ E[q] \in Nat /\ E[q] < p /\ E[q] # F
  <2> TAKE q \in B
  <2>1. CASE p < q
    <3>1. E[p] < q
      BY <2>1 DEF Tiling
    <3> QED BY <1>1, <3>1
  <2>2. CASE q < p
    BY <1>1, <2>2 DEF Tiling, EndType
  <2> QED BY <1>1, <2>1, <2>2
<1>4. B \subseteq (S + 1)..G
  BY <1>1
<1>5. S + 1 \in B
  <2>1. F # S BY <1>1
  <2> QED BY <2>1 DEF Tiling
<1>6. \A q \in B : D[q] <= G /\ (D[q] # G => D[q] + 1 \in B)
  <2> TAKE q \in B
  <2>1. CASE q = p BY <1>2, <2>1
  <2>2. CASE q # p
    <3>1. D[q] = E[q] /\ E[q] < p /\ E[q] # F /\ E[q] \in Nat
      BY <1>2, <1>3, <2>2
    <3> QED BY <1>1, <3>1 DEF Tiling
  <2> QED BY <2>1, <2>2
<1>7. \A r \in B : r # S + 1 => \E q \in B : D[q] + 1 = r
  <2> SUFFICES ASSUME NEW r \in B, r # S + 1 PROVE \E q \in B : D[q] + 1 = r
    OBVIOUS
  <2>1. PICK q \in B : E[q] + 1 = r
    BY DEF Tiling
  <2>2. q # p
    BY <1>1, <2>1
  <2> QED BY <1>2, <2>1, <2>2
<1>8. \A r, q \in B : r < q => D[r] < q
  <2> SUFFICES ASSUME NEW r \in B, NEW q \in B, r < q PROVE D[r] < q
    OBVIOUS
  <2>1. r # p
    BY <1>1, <1>3
  <2> QED BY <1>2, <2>1 DEF Tiling
<1> QED BY <1>4, <1>5, <1>6, <1>7, <1>8 DEF Tiling

(* The blocks from p to q become one.                                      *)
Joined(B, p, q) == {r \in B : r <= p \/ q < r}
Longer(E, p, q) == [E EXCEPT ![p] = E[q]]

LEMMA TilingMerge ==
  ASSUME NEW S \in Nat, NEW F \in Nat, NEW E \in EndType, NEW B, Tiling(B, S, F, E),
         NEW p \in B, NEW q \in B, p <= q
  PROVE  Tiling(Joined(B, p, q), S, F, Longer(E, p, q))
<1> USE DEF Joined, Longer
<1> DEFINE C == Joined(B, p, q)
           D == Longer(E, p, q)
<1>1. B \subseteq (S + 1)..F /\ B \subseteq Nat /\ p \in Nat /\ q \in Nat /\ E[q] \in Nat /\ q <= E[q]
  BY DEF Tiling, EndType
<1>2. D[p] = E[q] /\ \A r \in B : r # p => D[r] = E[r]
  BY <1>1 DEF EndType
<1>3. \A r \in B : E[r] \in Nat /\ r <= E[r] /\ r \in Nat
  BY <1>1 DEF EndType
<1>4. C \subseteq (S + 1)..F
  BY <1>1
<1>5. F # S => S + 1 \in C
  BY <1>1 DEF Tiling
<1>6. \A r \in C : D[r] <= F /\ (D[r] # F => D[r] + 1 \in C)
  <2> SUFFICES ASSUME NEW r \in C PROVE D[r] <= F /\ (D[r] # F => D[r] + 1 \in C)
    OBVIOUS
  <2>1. CASE r = p
    BY <1>1, <1>2, <2>1 DEF Tiling
  <2>2. CASE r # p
    <3>1. D[r] = E[r] /\ r \in B /\ E[r] <= F /\ (E[r] # F => E[r] + 1 \in B)
      BY <1>2, <2>2 DEF Tiling
    <3>2. CASE r < p
      <4>1. E[r] < p BY <3>2 DEF Tiling
      <4> QED BY <1>1, <1>3, <3>1, <4>1
    <3>3. CASE q < r
      BY <1>1, <1>3, <3>1, <3>3
    <3> QED BY <1>1, <1>3, <2>2, <3>2, <3>3
  <2> QED BY <2>1, <2>2
<1>7. \A r \in C : r # S + 1 => \E t \in C : D[t] + 1 = r
  <2> SUFFICES ASSUME NEW r \in C, r # S + 1 PROVE \E t \in C : D[t] + 1 = r
    OBVIOUS
  <2>1. PICK t \in B : E[t] + 1 = r
    BY DEF Tiling
  <2>2. CASE r <= p
    BY <1>1, <1>2, <1>3, <2>1, <2>2
  <2>3. CASE q < r
    <3>1. CASE t = q
      <4>1. D[p] + 1 = r /\ p \in C BY <1>1, <1>2, <2>1, <3>1
      <4> QED BY <4>1
    <3>2. CASE t < q
      <4>1. E[t] < q BY <3>2 DEF Tiling
      <4> QED BY <1>1, <1>3, <2>1, <2>3, <4>1
    <3>3. CASE q < t
      BY <1>1, <1>2, <2>1, <3>3
    <3> QED BY <1>1, <1>3, <3>1, <3>2, <3>3
  <2> QED BY <1>1, <2>2, <2>3
<1>8. \A r, t \in C : r < t => D[r] < t
  <2> SUFFICES ASSUME NEW r \in C, NEW t \in C, r < t PROVE D[r] < t
    OBVIOUS
  <2>1. CASE r = p
    BY <1>1, <1>2, <2>1 DEF Tiling
  <2>2. CASE r # p
    BY <1>2, <2>2 DEF Tiling
  <2> QED BY <2>1, <2>2
<1> QED BY <1>4, <1>5, <1>6, <1>7, <1>8 DEF Tiling

(* The block at p is cut in two after n.                                   *)
LEMMA TilingSplit ==
  ASSUME NEW S \in Nat, NEW F \in Nat, NEW E \in EndType, NEW B, Tiling(B, S, F, E),
         NEW p \in B, NEW n \in Nat, p <= n, n < E[p]
  PROVE  /\ n + 1 \notin B
         /\ Tiling(B \cup {n + 1}, S, F, [E EXCEPT ![p] = n, ![n + 1] = E[p]])
<1> DEFINE C == B \cup {n + 1}
           D == [E EXCEPT ![p] = n, ![n + 1] = E[p]]
<1>1. B \subseteq (S + 1)..F /\ B \subseteq Nat /\ p \in Nat /\ E[p] \in Nat /\ E[p] <= F
  BY DEF Tiling, EndType
<1>2. n + 1 \notin B /\ n + 1 # p /\ n + 1 \in Nat
  BY <1>1 DEF Tiling
<1>3. D[p] = n /\ D[n + 1] = E[p] /\ \A r \in B : r # p => D[r] = E[r]
  BY <1>1, <1>2 DEF EndType
<1>4. \A r \in B : E[r] \in Nat /\ r <= E[r] /\ r \in Nat
  BY <1>1 DEF EndType
<1>5. C \subseteq (S + 1)..F
  BY <1>1
<1>6. F # S => S + 1 \in C
  BY DEF Tiling
<1>7. \A r \in C : D[r] <= F /\ (D[r] # F => D[r] + 1 \in C)
  <2> SUFFICES ASSUME NEW r \in C PROVE D[r] <= F /\ (D[r] # F => D[r] + 1 \in C)
    OBVIOUS
  <2>1. CASE r = n + 1
    BY <1>1, <1>3, <2>1 DEF Tiling
  <2>2. CASE r = p
    BY <1>1, <1>3, <2>2 DEF Tiling
  <2>3. CASE r \in B /\ r # p
    BY <1>1, <1>3, <2>3 DEF Tiling
  <2> QED BY <2>1, <2>2, <2>3
<1>8. \A r \in C : r # S + 1 => \E t \in C : D[t] + 1 = r
  <2> SUFFICES ASSUME NEW r \in C, r # S + 1 PROVE \E t \in C : D[t] + 1 = r
    OBVIOUS
  <2>1. CASE r = n + 1
    BY <1>3, <2>1
  <2>2. CASE r \in B
    <3>1. PICK t \in B : E[t] + 1 = r
      BY <2>2 DEF Tiling
    <3>2. CASE t = p
      BY <1>3, <3>1, <3>2
    <3>3. CASE t # p
      BY <1>3, <3>1, <3>3
    <3> QED BY <3>2, <3>3
  <2> QED BY <2>1, <2>2
<1>9. \A r, t \in C : r < t => D[r] < t
  <2> SUFFICES ASSUME NEW r \in C, NEW t \in C, r < t PROVE D[r] < t
    OBVIOUS
  <2>1. CASE r = n + 1
    <3>1. t \in B /\ p < t
      BY <1>1, <2>1
    <3> QED BY <1>3, <2>1, <3>1 DEF Tiling
  <2>2. CASE r = p
    BY <1>1, <1>3, <1>4, <2>2 DEF Tiling
  <2>3. CASE r \in B /\ r # p
    <3>1. CASE t \in B
      BY <1>3, <2>3, <3>1 DEF Tiling
    <3>2. CASE t = n + 1
      <4>1. ~(p < r)
        <5>1. p < r => E[p] < r BY <2>3 DEF Tiling
        <5> QED BY <1>1, <1>4, <2>3, <3>2, <5>1
      <4>2. E[r] < p
        BY <1>1, <1>4, <2>3, <4>1 DEF Tiling
      <4>3. D[r] = E[r] /\ E[r] \in Nat
        BY <1>3, <1>4, <2>3
      <4> QED BY <1>1, <3>2, <4>2, <4>3
    <3> QED BY <3>1, <3>2
  <2> QED BY <2>1, <2>2, <2>3
<1> QED BY <1>2, <1>5, <1>6, <1>7, <1>8, <1>9 DEF Tiling

(* The first n of the memory from p to the end of q become one block, the  *)
(* rest another one.                                                       *)
Cut2(E, p, n, q) ==
  IF n = E[q] THEN [E EXCEPT ![p] = n] ELSE [E EXCEPT ![p] = n, ![n + 1] = E[q]]
Left2(B, E, p, n, q) ==
  Joined(B, p, q) \cup (IF n = E[q] THEN {} ELSE {n + 1})

LEMMA TilingTake ==
  ASSUME NEW S \in Nat, NEW F \in Nat, NEW E \in EndType, NEW B, Tiling(B, S, F, E),
         NEW p \in B, NEW q \in B, p <= q, NEW n \in Nat, p <= n, n <= E[q]
  PROVE  /\ Tiling(Left2(B, E, p, n, q), S, F, Cut2(E, p, n, q))
         /\ n # E[q] => n + 1 \notin Joined(B, p, q)
<1> DEFINE C == Joined(B, p, q)
           D == Longer(E, p, q)
<1>1. B \subseteq Nat /\ p \in Nat /\ q \in Nat /\ E[q] \in Nat /\ q <= E[q]
  BY DEF Tiling, EndType
<1>2. Tiling(C, S, F, D)
  BY TilingMerge
<1>3. CASE n = E[q]
  BY <1>2, <1>3 DEF Cut2, Left2, Longer
<1>4. CASE n # E[q]
  <2>1. D \in EndType /\ p \in C /\ D[p] = E[q] /\ n < D[p]
    BY <1>1, <1>4 DEF EndType, Joined, Longer
  <2> HIDE DEF D, C
  <2>2. Tiling(C \cup {n + 1}, S, F, [D EXCEPT ![p] = n, ![n + 1] = D[p]]) /\ n + 1 \notin C
    BY <1>2, <2>1, TilingSplit
  <2>3. [D EXCEPT ![p] = n, ![n + 1] = D[p]] = [E EXCEPT ![p] = n, ![n + 1] = E[q]]
    BY <1>1, <2>1 DEF D, Longer, EndType
  <2> QED BY <1>4, <2>2, <2>3 DEF Cut2, Left2, C
<1> QED BY <1>3, <1>4

-----------------------------------------------------------------------------
(* Behind p, up to the block at q, all blocks are free.                    *)
FreeBehind(B, A, p, q) == \A r \in B : p < r /\ r <= q => ~A[r]

(* Free blocks side by side, the first of them before n, are together      *)
(* smaller than s.                                                         *)
Small(B, E, A, n, s) ==
  \A p, q \in B :
    p < n /\ p <= q /\ (\A r \in B : p <= r /\ r <= q => ~A[r]) => E[q] - p < s

LEMMA RunGrows ==
  ASSUME NEW S \in Nat, NEW F \in Nat, NEW E \in EndType, NEW B, Tiling(B, S, F, E),
         NEW A \in [Nat -> BOOLEAN], NEW p \in B, NEW q \in B, p <= q,
         FreeBehind(B, A, p, q), E[q] # F, ~A[E[q] + 1]
  PROVE  E[q] + 1 \in B /\ p <= E[q] + 1 /\ FreeBehind(B, A, p, E[q] + 1)
<1>1. B \subseteq Nat /\ p \in Nat /\ q \in Nat /\ E[q] \in Nat /\ q <= E[q] /\ E[q] + 1 \in B
  BY DEF Tiling, EndType
<1>2. \A r \in B : r <= q \/ E[q] < r
  BY <1>1 DEF Tiling
<1> QED BY <1>1, <1>2 DEF FreeBehind

LEMMA SmallAtStart ==
  ASSUME NEW S \in Nat, NEW F \in Nat, NEW E \in EndType, NEW B, Tiling(B, S, F, E),
         NEW A \in [Nat -> BOOLEAN], NEW s
  PROVE  Small(B, E, A, S + 1, s)
<1>1. \A p \in B : p \in Nat /\ ~(p < S + 1)
  BY DEF Tiling
<1> QED BY <1>1 DEF Small

LEMMA SmallSkips ==
  ASSUME NEW S \in Nat, NEW F \in Nat, NEW E \in EndType, NEW B, Tiling(B, S, F, E),
         NEW A \in [Nat -> BOOLEAN], NEW s \in Nat, NEW p \in B, A[p], Small(B, E, A, p, s)
  PROVE  Small(B, E, A, E[p] + 1, s)
<1>1. B \subseteq Nat /\ p \in Nat /\ E[p] \in Nat
  BY DEF Tiling, EndType
<1>2. \A r \in B : r <= p \/ E[p] < r
  BY <1>1 DEF Tiling
<1>3. ASSUME NEW r \in B, NEW t \in B, r < E[p] + 1, r <= t,
             \A u \in B : r <= u /\ u <= t => ~A[u]
      PROVE  E[t] - r < s
  <2>1. r # p
    BY <1>1, <1>3
  <2>2. r < p
    BY <1>1, <1>2, <1>3, <2>1
  <2> QED BY <1>3, <2>2 DEF Small
<1> QED BY <1>3 DEF Small

LEMMA SmallToTheEnd ==
  ASSUME NEW S \in Nat, NEW F \in Nat, NEW E \in EndType, NEW B, Tiling(B, S, F, E),
         NEW A \in [Nat -> BOOLEAN], NEW s \in Nat \ {0}, NEW n \in Nat, F <= n,
         Small(B, E, A, n, s)
  PROVE  \A m \in Nat : Small(B, E, A, m, s)
<1>1. \A r \in B : r \in Nat /\ r <= F /\ E[r] \in Nat /\ r <= E[r] /\ E[r] <= F
  BY DEF Tiling, EndType
<1>2. ASSUME NEW r \in B, NEW t \in B, r <= t, \A u \in B : r <= u /\ u <= t => ~A[u]
      PROVE  E[t] - r < s
  <2>1. CASE r < n
    BY <1>2, <2>1 DEF Small
  <2>2. CASE ~(r < n)
    BY <1>1, <1>2, <2>2
  <2> QED BY <2>1, <2>2
<1> QED BY <1>2 DEF Small

LEMMA SmallSame ==
  ASSUME NEW E, NEW D, NEW A, NEW C, NEW B, NEW n, NEW s, Small(B, E, A, n, s),
         \A p \in B : D[p] = E[p] /\ C[p] = A[p]
  PROVE  Small(B, D, C, n, s)
  BY DEF Small

(* The blocks from p to q have become one, which is too small, too, and    *)
(* cannot be merged any further.                                           *)
LEMMA SmallMerged ==
  ASSUME NEW S \in Nat, NEW F \in Nat, NEW E \in EndType, NEW B, Tiling(B, S, F, E),
         NEW A \in [Nat -> BOOLEAN], NEW s \in Nat, NEW p \in B, NEW q \in B, p <= q,
         ~A[p], FreeBehind(B, A, p, q), E[q] # F => A[E[q] + 1], E[q] - p < s,
         Small(B, E, A, p, s)
  PROVE  Small(Joined(B, p, q), Longer(E, p, q), A, E[q] + 1, s)
<1> DEFINE C == {r \in B : r <= p \/ q < r}
           D == [E EXCEPT ![p] = E[q]]
<1>1. B \subseteq Nat /\ p \in Nat /\ q \in Nat /\ E[q] \in Nat /\ q <= E[q] /\ E[q] <= F
  BY DEF Tiling, EndType
<1>2. D[p] = E[q] /\ \A r \in B : r # p => D[r] = E[r]
  BY <1>1 DEF EndType
<1>3. \A r \in B : r \in Nat /\ r <= F /\ (r <= q \/ E[q] < r)
  BY <1>1 DEF Tiling
<1>4. ASSUME NEW r \in C, NEW t \in C, r < E[q] + 1, r <= t,
             \A u \in C : r <= u /\ u <= t => ~A[u]
      PROVE  D[t] - r < s
  <2>1. r <= p
    BY <1>1, <1>3, <1>4
  <2>2. t <= p
    <3>1. SUFFICES ASSUME q < t PROVE FALSE
      OBVIOUS
    <3>2. E[q] < t /\ t <= F
      BY <1>1, <1>3, <3>1
    <3>3. E[q] + 1 \in B /\ A[E[q] + 1]
      BY <1>1, <1>3, <3>2 DEF Tiling
    <3>4. E[q] + 1 \in C /\ r <= E[q] + 1 /\ E[q] + 1 <= t
      BY <1>1, <1>3, <1>4, <3>2, <3>3
    <3> QED BY <1>4, <3>3, <3>4
  <2>3. CASE t # p
    <3>1. \A u \in B : r <= u /\ u <= t => u \in C
      BY <1>1, <1>3, <2>2
    <3>2. E[t] - r < s
      <4>1. r < p
        BY <1>1, <1>3, <1>4, <2>2, <2>3
      <4> QED BY <1>4, <3>1, <4>1 DEF Small
    <3> QED BY <1>2, <2>3, <3>2
  <2>4. CASE t = p /\ r = p
    BY <1>2, <2>4
  <2>5. CASE t = p /\ r # p
    <3>1. \A u \in B : r <= u /\ u <= q => ~A[u]
      <4> SUFFICES ASSUME NEW u \in B, r <= u, u <= q PROVE ~A[u]
        OBVIOUS
      <4>1. CASE u <= p
        BY <1>4, <2>5, <4>1
      <4>2. CASE p < u
        BY <4>2 DEF FreeBehind
      <4> QED BY <1>1, <1>3, <4>1, <4>2
    <3>2. r < p /\ r <= q
      BY <1>1, <1>3, <2>1, <2>5
    <3>3. E[q] - r < s
      BY <3>1, <3>2 DEF Small
    <3> QED BY <1>2, <2>5, <3>3
  <2> QED BY <2>3, <2>4, <2>5
<1> HIDE DEF C, D
<1>5. Small(C, D, A, E[q] + 1, s)
  BY <1>4 DEF Small
<1> QED BY <1>5 DEF C, D, Joined, Longer

-----------------------------------------------------------------------------
(* What headers say: where a block at p ends, and whether it is in use.    *)
HeadersTyped(h) == \A a \in DOMAIN h : h[a] \in [size : Nat, alloc : BOOLEAN]
HeaderIn(h, p) ==
  IF p - 1 \in DOMAIN h THEN h[p - 1] ELSE [size |-> 0, alloc |-> FALSE]
Ends(h) == [p \in Nat |-> p + HeaderIn(h, p).size]
Uses(h) == [p \in Nat |-> HeaderIn(h, p).alloc]

LEMMA HeadersSay ==
  ASSUME NEW h, HeadersTyped(h)
  PROVE  /\ Ends(h) \in EndType /\ Uses(h) \in [Nat -> BOOLEAN]
         /\ \A p \in Nat : Ends(h)[p] = p + HeaderIn(h, p).size /\ Uses(h)[p] = HeaderIn(h, p).alloc
         /\ \A p : HeaderIn(h, p) \in [size : Nat, alloc : BOOLEAN]
<1>1. \A p : HeaderIn(h, p) \in [size : Nat, alloc : BOOLEAN]
  BY DEF HeadersTyped, HeaderIn
<1>2. \A p : HeaderIn(h, p).size \in Nat /\ HeaderIn(h, p).alloc \in BOOLEAN
  BY <1>1
<1> QED BY <1>1, <1>2 DEF Ends, Uses, EndType

LEMMA HeaderIs ==
  /\ \A p : Heaps!Header(p) = HeaderIn(header, p)
  /\ \A p \in Nat : Heaps!End(p) = Ends(header)[p] /\ Heaps!Header(p).alloc = Uses(header)[p]
  BY DEF Heaps!Header, Heaps!End, HeaderIn, Ends, Uses

Written(h, g, p, s, a) ==
  /\ HeadersTyped(g)
  /\ Ends(g) = [Ends(h) EXCEPT ![p] = p + s] /\ Uses(g) = [Uses(h) EXCEPT ![p] = a]

LEMMA HeaderWritten ==
  ASSUME NEW h, HeadersTyped(h), NEW p \in Nat, p # 0, NEW s \in Nat, NEW a \in BOOLEAN,
         NEW g, g = Heaps!WithHeader(h, p, s, a)
  PROVE  Written(h, g, p, s, a)
<1>1. DOMAIN g = DOMAIN h \cup {p - 1}
  BY DEF Heaps!WithHeader
<1>2. \A b \in DOMAIN g : g[b] = IF b = p - 1 THEN [size |-> s, alloc |-> a] ELSE h[b]
  BY DEF Heaps!WithHeader
<1>3. HeadersTyped(g)
  BY <1>1, <1>2 DEF HeadersTyped
<1>4. \A q \in Nat : HeaderIn(g, q) = IF q = p THEN [size |-> s, alloc |-> a] ELSE HeaderIn(h, q)
  <2> SUFFICES ASSUME NEW q \in Nat
               PROVE  HeaderIn(g, q) = IF q = p THEN [size |-> s, alloc |-> a] ELSE HeaderIn(h, q)
    OBVIOUS
  <2>1. q - 1 = p - 1 <=> q = p
    OBVIOUS
  <2> QED BY <1>1, <1>2, <2>1 DEF HeaderIn
<1>5. \A q \in Nat : q + HeaderIn(g, q).size = [Ends(h) EXCEPT ![p] = p + s][q]
  <2> TAKE q \in Nat
  <2>1. CASE q = p BY <1>4, <2>1 DEF Ends
  <2>2. CASE q # p BY <1>4, <2>2 DEF Ends
  <2> QED BY <2>1, <2>2
<1>6. \A q \in Nat : HeaderIn(g, q).alloc = [Uses(h) EXCEPT ![p] = a][q]
  <2> TAKE q \in Nat
  <2>1. CASE q = p BY <1>4, <2>1 DEF Uses
  <2>2. CASE q # p BY <1>4, <2>2 DEF Uses
  <2> QED BY <2>1, <2>2
<1>7. Ends(g) = [Ends(h) EXCEPT ![p] = p + s]
  <2>1. [Ends(h) EXCEPT ![p] = p + s] = [q \in Nat |-> [Ends(h) EXCEPT ![p] = p + s][q]]
    BY DEF Ends
  <2> QED BY <1>5, <2>1 DEF Ends
<1>8. Uses(g) = [Uses(h) EXCEPT ![p] = a]
  <2>1. [Uses(h) EXCEPT ![p] = a] = [q \in Nat |-> [Uses(h) EXCEPT ![p] = a][q]]
    BY DEF Uses
  <2> QED BY <1>6, <2>1 DEF Uses
<1> QED BY <1>3, <1>7, <1>8 DEF Written

LEMMA HeadersFreed ==
  ASSUME NEW h, HeadersTyped(h), NEW G \in SUBSET (Nat \X Nat)
  PROVE  /\ HeadersTyped(Heaps!Freed(h, G))
         /\ Ends(Heaps!Freed(h, G)) = Ends(h)
         /\ Uses(Heaps!Freed(h, G)) = [p \in Nat |-> Uses(h)[p] /\ \A b \in G : b[1] # p]
<1> DEFINE g == Heaps!Freed(h, G)
           Hit(a) == \E b \in G : b[1] - 1 = a
<1>1. DOMAIN g = DOMAIN h
  BY DEF Heaps!Freed
<1>2. \A a \in DOMAIN g : g[a] = IF Hit(a) THEN [h[a] EXCEPT !.alloc = FALSE] ELSE h[a]
  BY DEF Heaps!Freed
<1>3. \A p \in Nat : Hit(p - 1) <=> \E b \in G : b[1] = p
  OBVIOUS
<1> HIDE DEF g, Hit
<1>4. HeadersTyped(g)
  BY <1>1, <1>2 DEF HeadersTyped
<1>5. \A p \in Nat : /\ HeaderIn(g, p).size = HeaderIn(h, p).size
                     /\ HeaderIn(g, p).alloc = (HeaderIn(h, p).alloc /\ ~Hit(p - 1))
  <2> TAKE p \in Nat
  <2>1. CASE p - 1 \in DOMAIN h
    <3>1. h[p - 1] \in [size : Nat, alloc : BOOLEAN]
      BY <2>1 DEF HeadersTyped
    <3> QED BY <1>1, <1>2, <2>1, <3>1 DEF HeaderIn
  <2>2. CASE p - 1 \notin DOMAIN h
    BY <1>1, <2>2 DEF HeaderIn
  <2> QED BY <2>1, <2>2
<1>6. Ends(g) = Ends(h)
  BY <1>5 DEF Ends
<1>7. \A p \in Nat : HeaderIn(g, p).alloc = (Uses(h)[p] /\ \A b \in G : b[1] # p)
  BY <1>3, <1>5 DEF Uses
<1>8. Uses(g) = [p \in Nat |-> Uses(h)[p] /\ \A b \in G : b[1] # p]
  BY <1>7 DEF Uses
<1> QED BY <1>4, <1>6, <1>8 DEF g

-----------------------------------------------------------------------------
(* The heaps H lie one behind the other below top, in the order of their   *)
(* slots.                                                                  *)
HeapsType == [Heaps!Slot -> [start : Nat, size : Nat, offset : Nat]]
Top(H, i) == H[i].start + H[i].size
Front(H, i) == H[i].start + H[i].offset
HeapsApart(H, top) ==
  /\ \A i \in Heaps!Slot : /\ H[i].offset <= H[i].size /\ Top(H, i) <= top
                           /\ H[i].start = 0 <=> H[i].size = 0
  /\ \A i, j \in Heaps!Slot : i < j /\ H[j].start # 0 => Top(H, i) <= H[j].start

(* The blocks f of each of them fill it.                                   *)
BlockSets == [Heaps!Slot -> SUBSET Nat]
Filled(H, E, f) == \A i \in Heaps!Slot : Tiling(f[i], H[i].start, Front(H, i), E)

Within(H, i, p) == H[i].start < p /\ p <= Top(H, i)
OnlyWithin(H, i, E, A, G, C) ==
  \A p \in Nat : ~Within(H, i, p) => G[p] = E[p] /\ C[p] = A[p]

LEMMA SlotTyped ==
  ASSUME NEW H \in HeapsType, NEW i \in Heaps!Slot
  PROVE  /\ H[i] \in [start : Nat, size : Nat, offset : Nat]
         /\ H[i].start \in Nat /\ H[i].size \in Nat /\ H[i].offset \in Nat
         /\ Top(H, i) \in Nat /\ Front(H, i) \in Nat /\ i \in Nat
<1>1. H[i] \in [start : Nat, size : Nat, offset : Nat]
  BY DEF HeapsType
<1>2. i \in Nat
  BY HeapAssumption DEF Heaps!Slot
<1> QED BY <1>1, <1>2 DEF Top, Front

LEMMA BlocksWithin ==
  ASSUME NEW H \in HeapsType, NEW top, HeapsApart(H, top), NEW E, NEW f \in BlockSets,
         Filled(H, E, f), NEW i \in Heaps!Slot, NEW p \in f[i]
  PROVE  /\ p \in Nat /\ Within(H, i, p) /\ p <= Front(H, i) /\ Front(H, i) <= Top(H, i)
         /\ p # 0 /\ H[i].start # 0 /\ Front(H, i) # H[i].start
<1>1. H[i].start \in Nat /\ H[i].size \in Nat /\ H[i].offset \in Nat
  BY SlotTyped
<1>2. p \in (H[i].start + 1)..Front(H, i)
  BY DEF Filled, Tiling
<1> QED BY <1>1, <1>2 DEF HeapsApart, Within, Top, Front

LEMMA Elsewhere ==
  ASSUME NEW H \in HeapsType, NEW top, HeapsApart(H, top), NEW E, NEW f \in BlockSets,
         Filled(H, E, f), NEW i \in Heaps!Slot, NEW j \in Heaps!Slot, i # j, NEW p \in f[j]
  PROVE  ~Within(H, i, p)
<1>1. /\ H[i].start \in Nat /\ H[i].size \in Nat /\ i \in Nat /\ j \in Nat
      /\ H[j].start \in Nat /\ H[j].size \in Nat
  BY SlotTyped
<1>2. p \in Nat /\ H[j].start < p /\ p <= Top(H, j) /\ H[j].start # 0 /\ p # 0
  BY BlocksWithin DEF Within
<1>3. CASE i < j
  BY <1>1, <1>2, <1>3 DEF HeapsApart, Within, Top
<1>4. CASE j < i /\ H[i].start # 0
  <2>1. Top(H, j) <= H[i].start
    BY <1>4 DEF HeapsApart
  <2> QED BY <1>1, <1>2, <2>1 DEF Within, Top
<1>5. CASE H[i].start = 0
  BY <1>1, <1>2, <1>5 DEF HeapsApart, Within, Top
<1> QED BY <1>1, <1>3, <1>4, <1>5

(* One heap and its headers change; the others stay as they are.           *)
SameElsewhere(f, i, E, A, G, C) ==
  \A j \in Heaps!Slot : j # i => \A p \in f[j] : G[p] = E[p] /\ C[p] = A[p]

LEMMA OneChanges ==
  ASSUME NEW H \in HeapsType, NEW top, HeapsApart(H, top), NEW E \in EndType, NEW f \in BlockSets,
         Filled(H, E, f), NEW i \in Heaps!Slot, NEW G \in EndType, NEW A, NEW C,
         OnlyWithin(H, i, E, A, G, C), NEW K \in HeapsType,
         \A j \in Heaps!Slot : j # i => K[j].start = H[j].start /\ K[j].offset = H[j].offset,
         NEW B \in SUBSET Nat, Tiling(B, K[i].start, Front(K, i), G),
         NEW g, g = [f EXCEPT ![i] = B]
  PROVE  /\ g \in BlockSets
         /\ Filled(K, G, g)
         /\ SameElsewhere(f, i, E, A, G, C)
<1>1. \A j \in Heaps!Slot : j # i => \A p \in f[j] : p \in Nat /\ G[p] = E[p] /\ C[p] = A[p]
  <2> SUFFICES ASSUME NEW j \in Heaps!Slot, j # i, NEW p \in f[j]
               PROVE  p \in Nat /\ G[p] = E[p] /\ C[p] = A[p]
    OBVIOUS
  <2>1. ~Within(H, i, p) BY Elsewhere
  <2>2. p \in Nat BY BlocksWithin
  <2> QED BY <2>1, <2>2 DEF OnlyWithin
<1>2. g \in BlockSets
  BY DEF BlockSets
<1>3. ASSUME NEW j \in Heaps!Slot
      PROVE  Tiling(g[j], K[j].start, Front(K, j), G)
  <2>1. CASE j = i
    BY <2>1 DEF BlockSets
  <2>2. CASE j # i
    <3>1. Tiling(f[j], H[j].start, Front(H, j), E)
      BY DEF Filled
    <3>2. H[j].start \in Nat /\ Front(H, j) \in Nat
      BY SlotTyped
    <3>3. Tiling(f[j], H[j].start, Front(H, j), G)
      BY <1>1, <2>2, <3>1, <3>2, TilingSame
    <3>4. g[j] = f[j] /\ K[j].start = H[j].start /\ Front(K, j) = Front(H, j)
      BY <2>2 DEF BlockSets, Front
    <3> QED BY <3>3, <3>4
  <2> QED BY <2>1, <2>2
<1> QED BY <1>1, <1>2, <1>3 DEF Filled, SameElsewhere

-----------------------------------------------------------------------------
(* Blocks of the heaps in use are those of D, each large enough.           *)
HeldSound(f, E, A, D) ==
  /\ \A i \in Heaps!Slot : \A p \in f[i] : A[p] => \E b \in D : b[1] = p
  /\ \A b \in D : /\ b[2] # 0 /\ b[1] + b[2] <= E[b[1]] /\ A[b[1]]
                  /\ \E i \in Heaps!Slot : b[1] \in f[i]
  /\ \A b, c \in D : b[1] = c[1] => b = c

(* The same blocks are in use, except those of X.                          *)
SameUsed(X, f, E, A, g, G, C) ==
  /\ \A i \in Heaps!Slot : \A p \in g[i] \ X :
       C[p] => A[p] /\ \E k \in Heaps!Slot : p \in f[k]
  /\ \A i \in Heaps!Slot : \A p \in f[i] \ X :
       A[p] => C[p] /\ G[p] = E[p] /\ \E k \in Heaps!Slot : p \in g[k]

LEMMA OneUsesTheSame ==
  ASSUME NEW f \in BlockSets, NEW i \in Heaps!Slot, NEW B \in SUBSET Nat, NEW E, NEW A, NEW G, NEW C,
         NEW X, SameElsewhere(f, i, E, A, G, C),
         \A p \in B \ X : C[p] => A[p] /\ p \in f[i],
         \A p \in f[i] \ X : A[p] => C[p] /\ G[p] = E[p] /\ p \in B,
         NEW g, g = [f EXCEPT ![i] = B]
  PROVE  SameUsed(X, f, E, A, g, G, C)
<1>1. g[i] = B /\ \A j \in Heaps!Slot : j # i => g[j] = f[j]
  BY DEF BlockSets
<1>2. \A j \in Heaps!Slot : \A p \in g[j] \ X :
        C[p] => A[p] /\ \E k \in Heaps!Slot : p \in f[k]
  BY <1>1 DEF SameElsewhere
<1>3. \A j \in Heaps!Slot : \A p \in f[j] \ X :
        A[p] => C[p] /\ G[p] = E[p] /\ \E k \in Heaps!Slot : p \in g[k]
  BY <1>1 DEF SameElsewhere
<1> QED BY <1>2, <1>3 DEF SameUsed

LEMMA HeldKept ==
  ASSUME NEW f, NEW E, NEW A, NEW g, NEW G, NEW C, NEW D \in SUBSET (Nat \X Nat),
         HeldSound(f, E, A, D), SameUsed({}, f, E, A, g, G, C)
  PROVE  HeldSound(g, G, C, D)
<1>1. \A i \in Heaps!Slot : \A p \in g[i] : C[p] => \E b \in D : b[1] = p
  BY DEF HeldSound, SameUsed
<1>2. ASSUME NEW b \in D
      PROVE  /\ b[2] # 0 /\ b[1] + b[2] <= G[b[1]] /\ C[b[1]]
             /\ \E i \in Heaps!Slot : b[1] \in g[i]
  <2>1. PICK i \in Heaps!Slot : b[1] \in f[i]
    BY DEF HeldSound
  <2>2. A[b[1]] /\ b[2] # 0 /\ b[1] + b[2] <= E[b[1]]
    BY DEF HeldSound
  <2> QED BY <2>1, <2>2 DEF SameUsed
<1> QED BY <1>1, <1>2 DEF HeldSound

LEMMA HeldAdded ==
  ASSUME NEW f, NEW E, NEW A, NEW g, NEW G, NEW C, NEW D \in SUBSET (Nat \X Nat),
         HeldSound(f, E, A, D), NEW ptr \in Nat, NEW n \in Nat \ {0},
         SameUsed({ptr}, f, E, A, g, G, C), \A b \in D : b[1] # ptr,
         C[ptr], ptr + n <= G[ptr], \E k \in Heaps!Slot : ptr \in g[k]
  PROVE  HeldSound(g, G, C, D \cup {<<ptr, n>>})
<1> DEFINE new == <<ptr, n>>
<1>0. new[1] = ptr /\ new[2] = n
  OBVIOUS
<1> HIDE DEF new
<1>1. \A i \in Heaps!Slot : \A p \in g[i] : C[p] => \E b \in D \cup {new} : b[1] = p
  BY <1>0 DEF HeldSound, SameUsed
<1>2. ASSUME NEW b \in D
      PROVE  /\ b[2] # 0 /\ b[1] + b[2] <= G[b[1]] /\ C[b[1]]
             /\ \E i \in Heaps!Slot : b[1] \in g[i]
  <2>1. PICK i \in Heaps!Slot : b[1] \in f[i]
    BY DEF HeldSound
  <2>2. A[b[1]] /\ b[2] # 0 /\ b[1] + b[2] <= E[b[1]] /\ b[1] # ptr
    BY DEF HeldSound
  <2> QED BY <2>1, <2>2 DEF SameUsed
<1>3. \A b, c \in D \cup {new} : b[1] = c[1] => b = c
  BY <1>0 DEF HeldSound
<1> QED BY <1>0, <1>1, <1>2, <1>3 DEF HeldSound, new

LEMMA HeldResized ==
  ASSUME NEW f, NEW E, NEW A, NEW g, NEW G, NEW C, NEW D \in SUBSET (Nat \X Nat),
         HeldSound(f, E, A, D), NEW b \in D, NEW n \in Nat \ {0},
         SameUsed({b[1]}, f, E, A, g, G, C),
         C[b[1]], b[1] + n <= G[b[1]], \E k \in Heaps!Slot : b[1] \in g[k]
  PROVE  HeldSound(g, G, C, (D \ {b}) \cup {<<b[1], n>>})
<1> DEFINE new == <<b[1], n>>
<1>0. new[1] = b[1] /\ new[2] = n
  OBVIOUS
<1> HIDE DEF new
<1>1. \A i \in Heaps!Slot : \A p \in g[i] : C[p] => \E c \in (D \ {b}) \cup {new} : c[1] = p
  BY <1>0 DEF HeldSound, SameUsed
<1>2. ASSUME NEW c \in D \ {b}
      PROVE  /\ c[2] # 0 /\ c[1] + c[2] <= G[c[1]] /\ C[c[1]] /\ c[1] # b[1]
             /\ \E i \in Heaps!Slot : c[1] \in g[i]
  <2>1. PICK i \in Heaps!Slot : c[1] \in f[i]
    BY DEF HeldSound
  <2>2. A[c[1]] /\ c[2] # 0 /\ c[1] + c[2] <= E[c[1]] /\ c[1] # b[1]
    BY DEF HeldSound
  <2> QED BY <2>1, <2>2 DEF SameUsed
<1>3. \A c, d \in (D \ {b}) \cup {new} : c[1] = d[1] => c = d
  BY <1>0, <1>2 DEF HeldSound
<1> QED BY <1>0, <1>1, <1>2, <1>3 DEF HeldSound, new

LEMMA HeldFreed ==
  ASSUME NEW f \in BlockSets, NEW E, NEW A, NEW D \in SUBSET (Nat \X Nat),
         HeldSound(f, E, A, D), NEW F \in SUBSET D
  PROVE  HeldSound(f, E, [p \in Nat |-> A[p] /\ \A b \in F : b[1] # p], D \ F)
<1> DEFINE C == [p \in Nat |-> A[p] /\ \A b \in F : b[1] # p]
<1>1. \A i \in Heaps!Slot : \A p \in f[i] : p \in Nat
  BY DEF BlockSets
<1>2. \A p \in Nat : C[p] <=> A[p] /\ \A b \in F : b[1] # p
  OBVIOUS
<1> HIDE DEF C
<1>3. \A i \in Heaps!Slot : \A p \in f[i] : C[p] => \E b \in D \ F : b[1] = p
  BY <1>1, <1>2 DEF HeldSound
<1>4. \A b \in D \ F : C[b[1]]
  BY <1>2 DEF HeldSound
<1> QED BY <1>3, <1>4 DEF HeldSound, C

-----------------------------------------------------------------------------
(* The inductive invariant: f are the blocks of each heap.                 *)
JobType ==
  [stage : {"idle", "heaps", "search", "freed", "merge", "resize"}, size : Nat, request : Nat,
   clear : BOOLEAN, given : SUBSET (Nat \X Nat), current : Nat, possible : Nat, last : Nat]

TilesTyped ==
  /\ heaps \in HeapsType /\ HeadersTyped(header)
  /\ cursor \in [actual : Nat, active : Nat, free : Nat]
  /\ brk \in Nat /\ Page <= brk /\ refused \in Nat
  /\ held \in SUBSET (Nat \X Nat) /\ job \in JobType

(* Heaps are used one after another, and the first ones are full; freed    *)
(* blocks are only asked for once no more heap can be had.                 *)
CursorSound ==
  /\ cursor.active <= cursor.actual /\ cursor.actual <= MaxHeaps
  /\ cursor.active < cursor.actual => cursor.actual = MaxHeaps /\ cursor.free = 0
  /\ IF cursor.actual = 0 THEN cursor.free = 0 ELSE cursor.free < cursor.actual
  /\ \A i \in Heaps!Slot :
       heaps[i].start # 0 <=> i < cursor.active \/ (i = cursor.active /\ cursor.active < cursor.actual)
  /\ \A i \in Heaps!Slot : i < cursor.active => heaps[i].offset = heaps[i].size

(* The heaps that malloc_from_freed has been through.                      *)
Passed(j) ==
  /\ j < cursor.actual
  /\ IF job.last <= cursor.free THEN job.last <= j /\ j < cursor.free
     ELSE job.last <= j \/ j < cursor.free

Searched(f) ==
  /\ cursor.active = cursor.actual /\ job.last < cursor.actual
  /\ \A j \in Heaps!Slot : Passed(j) =>
       \A n \in Nat : Small(f[j], Ends(header), Uses(header), n, job.size)

AtBlock(f) ==
  /\ job.current \in f[cursor.free]
  /\ Small(f[cursor.free], Ends(header), Uses(header), job.current, job.size)

(* The n units from the block at p on are free blocks, but for the first.  *)
RunFrom(B, E, A, p, n) == \E q \in B : p <= q /\ E[q] = p + n /\ FreeBehind(B, A, p, q)

Resizing(f) ==
  /\ \E b \in held : job.given = {b} /\ job.current = b[1]
  /\ \E i \in Heaps!Slot :
       /\ job.current \in f[i]
       /\ \/ Front(heaps, i) < job.current + job.size
          \/ RunFrom(f[i], Ends(header), Uses(header), job.current, job.possible)

JobSound(f) ==
  /\ job.given \subseteq held
  /\ job.stage # "idle" => refused = 0 /\ job.request # 0 /\ job.request <= job.size
  /\ job.stage = "heaps" => cursor.active < cursor.actual /\ job.last = cursor.free
  /\ job.stage \in {"search", "freed", "merge"} => Searched(f)
  /\ job.stage \in {"freed", "merge"} => AtBlock(f)
  /\ job.stage = "merge" =>
       /\ ~Uses(header)[job.current]
       /\ RunFrom(f[cursor.free], Ends(header), Uses(header), job.current, job.possible)
  /\ job.stage = "resize" => Resizing(f)

RefusalSound(f) ==
  refused # 0 =>
    \A j \in Heaps!Slot : \A n \in Nat : Small(f[j], Ends(header), Uses(header), n, refused)

TilesSound(f) ==
  /\ TilesTyped /\ HeapsApart(heaps, brk) /\ CursorSound
  /\ Filled(heaps, Ends(header), f) /\ HeldSound(f, Ends(header), Uses(header), held)
  /\ JobSound(f) /\ RefusalSound(f)

HeapInv ==
  /\ status # "check"
  /\ status = "ok" => \E f \in BlockSets : TilesSound(f)

-----------------------------------------------------------------------------
LEMMA HeapsAre ==
  /\ \A i : Heaps!EndOf(i) = Top(heaps, i) /\ Heaps!Frontier(i) = Front(heaps, i)
  /\ 0 \in Heaps!Slot /\ Heaps!Slot \subseteq Nat /\ \A i \in Heaps!Slot : i < MaxHeaps
  /\ \A i \in Nat : i < MaxHeaps => i \in Heaps!Slot
  BY HeapAssumption DEF Heaps!EndOf, Heaps!Frontier, Top, Front, Heaps!Slot

LEMMA JobIsIdle ==
  /\ Heaps!Idle \in JobType /\ Heaps!Idle.stage = "idle" /\ Heaps!Idle.given = {}
  /\ Heaps!Idle.size = 0 /\ Heaps!Idle.request = 0 /\ Heaps!Idle.clear = FALSE
  /\ Heaps!Idle.current = 0 /\ Heaps!Idle.possible = 0 /\ Heaps!Idle.last = 0
  BY DEF Heaps!Idle, JobType, Heaps!Null

LEMMA Adjusted ==
  ASSUME NEW s \in Nat
  PROVE  Heaps!adjust_to_mem_block(s) \in Nat /\ s <= Heaps!adjust_to_mem_block(s)
  BY DEF Heaps!adjust_to_mem_block

LEMMA PagesGrow ==
  ASSUME TilesTyped
  PROVE  Heaps!heap_adj \in Nat \ {0}
<1>1. Page \in Nat \ {0} /\ brk \in Nat
  BY HeapAssumption DEF TilesTyped
<1>2. brk % Page \in 0..(Page - 1)
  BY <1>1
<1>3. 2 * Page \in Nat \ {0} /\ brk % (2 * Page) \in 0..(2 * Page - 1)
  BY <1>1
<1> QED BY <1>1, <1>2, <1>3 DEF Heaps!heap_adj

LEMMA HeapEmpty ==
  ASSUME NEW f \in BlockSets, NEW i \in Heaps!Slot, NEW E, NEW H \in HeapsType, NEW top,
         HeapsApart(H, top), Filled(H, E, f), H[i].start = 0
  PROVE  f[i] = {} /\ H[i].offset = 0 /\ H[i].size = 0
<1>1. H[i].size \in Nat /\ H[i].offset \in Nat
  BY SlotTyped
<1>2. \A p : p \notin f[i]
  BY BlocksWithin
<1> QED BY <1>1, <1>2 DEF HeapsApart

LEMMA EmptyTiling ==
  ASSUME NEW S \in Nat, NEW E
  PROVE  Tiling({}, S, S, E)
  BY DEF Tiling

(* Heap i starts at a, with n units.                                       *)
WithHeap(H, i, a, n) == [H EXCEPT ![i].start = a, ![i].size = n]
Starts(H, K, i, a, n) ==
  /\ K \in HeapsType /\ K[i].start = a /\ K[i].size = n /\ K[i].offset = 0
  /\ \A j \in Heaps!Slot : j # i => K[j] = H[j]

LEMMA HeapStarted ==
  ASSUME NEW H \in HeapsType, NEW i \in Heaps!Slot, H[i].offset = 0, NEW a \in Nat, NEW n \in Nat,
         NEW K, K = WithHeap(H, i, a, n)
  PROVE  Starts(H, K, i, a, n)
<1>1. PICK r : r = H[i]
  OBVIOUS
<1>2. r \in [start : Nat, size : Nat, offset : Nat] /\ r.offset = 0
  BY <1>1 DEF HeapsType
<1>3. PICK x : x = [r EXCEPT !.start = a]
  OBVIOUS
<1>4. x \in [start : Nat, size : Nat, offset : Nat] /\ x.start = a /\ x.offset = 0
  BY <1>2, <1>3
<1>5. PICK y : y = [x EXCEPT !.size = n]
  OBVIOUS
<1>6. y \in [start : Nat, size : Nat, offset : Nat] /\ y.start = a /\ y.size = n /\ y.offset = 0
  BY <1>4, <1>5
<1>7. [H EXCEPT ![i].start = a] = [H EXCEPT ![i] = x]
  BY <1>1, <1>3 DEF HeapsType
<1>8. K = [H EXCEPT ![i] = y]
  BY <1>3, <1>5, <1>7 DEF HeapsType, WithHeap
<1> QED BY <1>6, <1>8 DEF HeapsType, Starts

LEMMA EnterSound ==
  ASSUME NEW f \in BlockSets, TilesSound(f), NEW wanted \in Nat, NEW request \in Nat \ {0},
         request <= Heaps!adjust_to_mem_block(wanted), NEW clear \in BOOLEAN,
         NEW given \in SUBSET held, Heaps!Enter(wanted, request, clear, given), refused' = 0
  PROVE  TilesSound(f)'
<1> DEFINE actual == IF cursor.actual = 0 THEN MaxHeaps ELSE cursor.actual
           starts == cursor.active = 0 /\ heaps[0].start = 0
           n == Heaps!adjust_to_mem_block(wanted)
<1>1. /\ cursor.actual \in Nat /\ cursor.active \in Nat /\ cursor.free \in Nat
      /\ actual \in Nat /\ actual # 0 /\ n \in Nat /\ MaxHeaps \in Nat \ {0}
      /\ brk \in Nat /\ heaps \in HeapsType
  BY Adjusted, HeapAssumption DEF TilesSound, TilesTyped
<1>2. /\ cursor' = [cursor EXCEPT !.actual = actual]
      /\ heaps' = IF starts THEN [heaps EXCEPT ![0].start = InitialHeap, ![0].size = InitialSize]
                  ELSE heaps
      /\ UNCHANGED <<header, brk, held>>
  BY DEF Heaps!Enter, Heaps!is_init
<1>3. job' = [Heaps!Idle EXCEPT
                !.stage = IF cursor.active < actual THEN "heaps" ELSE "search",
                !.size = n, !.request = request,
                !.clear = clear, !.given = given, !.last = cursor.free]
  BY DEF Heaps!Enter
<1>4. /\ job' \in JobType /\ job'.given = given /\ job'.request = request /\ job'.size = n
      /\ job'.last = cursor.free
      /\ job'.stage = IF cursor.active < actual THEN "heaps" ELSE "search"
  <2>1. given \in SUBSET (Nat \X Nat)
    BY DEF TilesSound, TilesTyped
  <2> HIDE DEF n, actual
  <2> QED BY <1>1, <1>3, <2>1, JobIsIdle DEF JobType
<1>5. cursor'.actual = actual /\ cursor'.active = cursor.active /\ cursor'.free = cursor.free
      /\ cursor' \in [actual : Nat, active : Nat, free : Nat]
  BY <1>1, <1>2 DEF TilesSound, TilesTyped
<1>6. starts => /\ cursor.actual = 0
                /\ \A i \in Heaps!Slot : heaps[i].start = 0
  BY <1>1, HeapsAre DEF TilesSound, CursorSound
<1>7. starts => \A i \in Heaps!Slot : f[i] = {} /\ heaps[i].size = 0 /\ heaps[i].offset = 0
  BY <1>1, <1>6, HeapEmpty DEF TilesSound
<1>8. /\ heaps' \in HeapsType
      /\ starts => /\ heaps'[0].start = InitialHeap /\ heaps'[0].size = InitialSize
                   /\ heaps'[0].offset = 0
      /\ \A i \in Heaps!Slot : ~starts \/ i # 0 => heaps'[i] = heaps[i]
  <2>1. CASE starts
    <3>1. heaps[0].offset = 0
      BY <1>7, <2>1, HeapsAre
    <3>2. heaps' = WithHeap(heaps, 0, InitialHeap, InitialSize)
      BY <1>2, <2>1 DEF WithHeap
    <3>3. Starts(heaps, heaps', 0, InitialHeap, InitialSize)
      BY <1>1, <3>1, <3>2, HeapStarted, HeapsAre, HeapAssumption
    <3> QED BY <2>1, <3>3 DEF Starts
  <2>2. CASE ~starts
    BY <1>1, <1>2, <2>2
  <2> QED BY <2>1, <2>2
<1>9. HeapsApart(heaps', brk')
  <2>1. CASE ~starts
    BY <1>2, <2>1 DEF TilesSound
  <2>2. CASE starts
    <3>1. InitialHeap \in Nat \ {0} /\ InitialSize \in Nat \ {0} /\ InitialHeap + InitialSize <= brk
      BY HeapAssumption DEF TilesSound, TilesTyped
    <3>2. \A i \in Heaps!Slot : /\ i \in Nat
                                /\ i = 0 => heaps'[i].start = InitialHeap /\ heaps'[i].size = InitialSize
                                                                  /\ heaps'[i].offset = 0
                                /\ i # 0 => heaps'[i].start = 0 /\ heaps'[i].size = 0
                                                                  /\ heaps'[i].offset = 0
      BY <1>6, <1>7, <1>8, <2>2, HeapsAre
    <3>3. ASSUME NEW i \in Heaps!Slot
          PROVE  /\ heaps'[i].offset <= heaps'[i].size
                 /\ heaps'[i].start + heaps'[i].size <= brk
                 /\ heaps'[i].start = 0 <=> heaps'[i].size = 0
      <4>1. CASE i = 0 BY <1>1, <3>1, <3>2, <4>1
      <4>2. CASE i # 0 BY <1>1, <3>1, <3>2, <4>2
      <4> QED BY <4>1, <4>2
    <3>4. \A i, j \in Heaps!Slot : i < j => heaps'[j].start = 0
      BY <3>2
    <3> QED BY <1>2, <3>3, <3>4 DEF HeapsApart, Top
  <2> QED BY <2>1, <2>2
<1>10. CursorSound'
  <2>1. actual <= MaxHeaps /\ (cursor.actual # 0 => actual = cursor.actual)
        /\ (cursor.actual = 0 => actual = MaxHeaps /\ cursor.active = 0 /\ cursor.free = 0)
    BY <1>1 DEF TilesSound, CursorSound
  <2>2. cursor.active <= actual /\ (cursor.active < actual => actual = MaxHeaps /\ cursor.free = 0)
        /\ cursor.free < actual
    BY <1>1, <2>1 DEF TilesSound, CursorSound
  <2>3. \A i \in Heaps!Slot :
          heaps'[i].start # 0 <=> i < cursor.active \/ (i = cursor.active /\ cursor.active < actual)
    <3>1. CASE starts
      <4>1. cursor.active = 0 /\ actual = MaxHeaps
        BY <1>6, <2>1, <3>1
      <4> QED BY <1>1, <1>6, <1>8, <3>1, <4>1, HeapsAre, HeapAssumption
    <3>2. CASE ~starts
      <4>1. cursor.actual # 0
        BY <1>1, <2>1, <3>2, HeapsAre DEF TilesSound, CursorSound
      <4> QED BY <1>2, <2>1, <3>2, <4>1 DEF TilesSound, CursorSound
    <3> QED BY <3>1, <3>2
  <2>4. \A i \in Heaps!Slot : i < cursor.active => heaps'[i].offset = heaps'[i].size
    <3>1. \A i \in Heaps!Slot : i \in Nat
      BY HeapsAre
    <3> QED BY <1>1, <1>8, <3>1 DEF TilesSound, CursorSound
  <2> HIDE DEF actual
  <2> QED BY <1>1, <1>5, <2>1, <2>2, <2>3, <2>4 DEF CursorSound
<1>11. Filled(heaps', Ends(header'), f)
  <2>1. CASE ~starts
    BY <1>2, <2>1 DEF TilesSound
  <2>2. CASE starts
    <3> SUFFICES ASSUME NEW i \in Heaps!Slot
                 PROVE  Tiling(f[i], heaps'[i].start, Front(heaps', i), Ends(header'))
      BY DEF Filled
    <3>1. heaps'[i].start \in Nat /\ heaps'[i].offset = 0
      BY <1>7, <1>8, <2>2, SlotTyped, HeapAssumption
    <3>2. f[i] = {} /\ Front(heaps', i) = heaps'[i].start
      BY <1>7, <2>2, <3>1 DEF Front
    <3> QED BY <3>1, <3>2, EmptyTiling
  <2> QED BY <2>1, <2>2
<1>12. JobSound(f)'
  <2>1. job'.stage = "search" => cursor.active = actual
    BY <1>1, <1>4, <1>5, <1>10 DEF CursorSound
  <2>2. cursor.free < actual
    BY <1>1, <1>5, <1>10 DEF CursorSound
  <2>3. \A j \in Heaps!Slot : ~(Passed(j)')
    BY <1>1, <1>4, <1>5, HeapsAre DEF Passed
  <2>4. job'.stage = "search" => Searched(f)'
    BY <1>4, <1>5, <2>1, <2>2, <2>3 DEF Searched
  <2>5. job'.stage = "heaps" => cursor.active < actual
    BY <1>4
  <2>6. job'.stage \in {"heaps", "search"} /\ refused' = 0 /\ job'.request # 0 /\ job'.request <= job'.size
        /\ job'.given \subseteq held'
    BY <1>2, <1>4
  <2> HIDE DEF actual, n
  <2> QED BY <1>4, <1>5, <2>4, <2>5, <2>6 DEF JobSound
<1>13. TilesTyped'
  BY <1>2, <1>4, <1>5, <1>8 DEF TilesSound, TilesTyped
<1>14. HeldSound(f, Ends(header'), Uses(header'), held')
  BY <1>2 DEF TilesSound
<1>15. RefusalSound(f)'
  BY DEF RefusalSound
<1> QED BY <1>9, <1>10, <1>11, <1>12, <1>13, <1>14, <1>15 DEF TilesSound

-----------------------------------------------------------------------------
(* A block of n units is appended to what a heap has handed out.           *)
Appends(K, i, f, h, g, p, n, a) ==
  /\ HeadersTyped(g)
  /\ Uses(g)[p] = a /\ Ends(g)[p] = p + n
  /\ \A j \in Heaps!Slot : p \notin f[j]
  /\ \E d \in BlockSets :
       /\ p \in d[i]
       /\ Filled(K, Ends(g), d)
       /\ SameUsed({p}, f, Ends(h), Uses(h), d, Ends(g), Uses(g))

LEMMA Appended ==
  ASSUME NEW H \in HeapsType, NEW top, HeapsApart(H, top), NEW h, HeadersTyped(h),
         NEW f \in BlockSets, Filled(H, Ends(h), f), NEW i \in Heaps!Slot,
         NEW n \in Nat, NEW a \in BOOLEAN, H[i].offset + n + 1 <= H[i].size,
         NEW K \in HeapsType, K[i].start = H[i].start, K[i].offset = H[i].offset + n + 1,
         \A j \in Heaps!Slot : j # i => K[j].start = H[j].start /\ K[j].offset = H[j].offset,
         NEW p \in Nat, p = Front(H, i) + 1, NEW g, g = Heaps!WithHeader(h, p, n, a)
  PROVE  Appends(K, i, f, h, g, p, n, a)
<1>2. /\ H[i].start \in Nat /\ H[i].size \in Nat /\ H[i].offset \in Nat
      /\ Front(H, i) \in Nat /\ H[i].start <= Front(H, i) /\ Within(H, i, p) /\ p # 0
  BY SlotTyped DEF Front, Within, Top
<1>3. PICK E, A : E = Ends(h) /\ A = Uses(h)
  OBVIOUS
<1>4. E \in EndType /\ A \in [Nat -> BOOLEAN]
  BY <1>3, HeadersSay
<1>5. HeadersTyped(g) /\ Ends(g) = [E EXCEPT ![p] = p + n] /\ Uses(g) = [A EXCEPT ![p] = a]
  <2>1. Written(h, g, p, n, a)
    BY <1>2, HeaderWritten
  <2> QED BY <1>3, <2>1 DEF Written
<1>6. PICK G, C : G = Ends(g) /\ C = Uses(g)
  OBVIOUS
<1>7. G \in EndType /\ C \in [Nat -> BOOLEAN]
  BY <1>5, <1>6, HeadersSay
<1>8. /\ G[p] = p + n /\ C[p] = a
      /\ \A q \in Nat : q # p => G[q] = E[q] /\ C[q] = A[q]
  BY <1>4, <1>5, <1>6 DEF EndType
<1>9. OnlyWithin(H, i, E, A, G, C)
  BY <1>2, <1>8 DEF OnlyWithin
<1>10. ASSUME NEW j \in Heaps!Slot
       PROVE  p \notin f[j]
  <2>1. CASE j = i
    BY <1>2, <2>1, BlocksWithin
  <2>2. CASE j # i
    BY <1>2, <2>2, Elsewhere
  <2> QED BY <2>1, <2>2
<1>11. PICK B : B = f[i] \cup {p}
  OBVIOUS
<1>12. B \in SUBSET Nat /\ p \in B
  BY <1>11 DEF BlockSets
<1>13. Tiling(B, K[i].start, Front(K, i), G)
  <2>1. Front(K, i) = p + n /\ p + n \in Nat /\ Front(H, i) < p + n
    BY <1>2 DEF Front
  <2>2. Tiling(f[i], H[i].start, Front(H, i), E)
    BY <1>3 DEF Filled
  <2>3. Tiling(f[i] \cup {p}, H[i].start, p + n, [E EXCEPT ![p] = p + n])
    BY <1>2, <1>4, <2>1, <2>2, TilingAppend
  <2> QED BY <1>5, <1>6, <1>11, <2>1, <2>3
<1>14. PICK d : d = [f EXCEPT ![i] = B]
  OBVIOUS
<1>15. /\ d \in BlockSets /\ Filled(K, G, d)
       /\ SameElsewhere(f, i, E, A, G, C)
  <2>1. Filled(H, E, f) BY <1>3
  <2>2. d \in BlockSets
    BY <1>12, <1>14 DEF BlockSets
  <2>3. Filled(K, G, d)
    BY <1>4, <1>7, <1>9, <1>12, <1>13, <1>14, <2>1, OneChanges
  <2>4. SameElsewhere(f, i, E, A, G, C)
    BY <1>4, <1>7, <1>9, <1>12, <1>13, <1>14, <2>1, OneChanges
  <2> QED BY <2>2, <2>3, <2>4
<1>16. p \in d[i]
  BY <1>12, <1>14 DEF BlockSets
<1>17. SameUsed({p}, f, E, A, d, G, C)
  <2>1. \A q \in f[i] : q \in Nat
    BY DEF BlockSets
  <2>2. \A q \in B \ {p} : C[q] => A[q] /\ q \in f[i]
    BY <1>8, <1>11, <2>1
  <2>3. \A q \in f[i] \ {p} : A[q] => C[q] /\ G[q] = E[q] /\ q \in B
    BY <1>8, <1>11, <2>1
  <2> QED BY <1>12, <1>14, <1>15, <2>2, <2>3, OneUsesTheSame
<1>18. \E c \in BlockSets : p \in c[i] /\ Filled(K, G, c) /\ SameUsed({p}, f, E, A, c, G, C)
  BY <1>15, <1>16, <1>17
<1> QED BY <1>3, <1>5, <1>6, <1>8, <1>10, <1>18 DEF Appends

LEMMA SameUsedFree ==
  ASSUME NEW x, NEW f, NEW E, NEW A, NEW g, NEW G, NEW C, SameUsed({x}, f, E, A, g, G, C),
         ~C[x], \A j \in Heaps!Slot : x \in f[j] => ~A[x]
  PROVE  SameUsed({}, f, E, A, g, G, C)
  BY DEF SameUsed

LEMMA ReturnSound ==
  ASSUME NEW f \in BlockSets, NEW g \in BlockSets, TilesSound(f), NEW h, HeadersTyped(h),
         NEW ptr \in Nat, Heaps!Return(ptr, h), job.stage # "idle", \A b \in held : b[1] # ptr,
         SameUsed({ptr}, f, Ends(header), Uses(header), g, Ends(h), Uses(h)),
         Uses(h)[ptr], ptr + job.size <= Ends(h)[ptr], \E k \in Heaps!Slot : ptr \in g[k],
         heaps' \in HeapsType, HeapsApart(heaps', brk'), CursorSound',
         cursor' = cursor, brk' = brk, Filled(heaps', Ends(h), g)
  PROVE  TilesSound(g)'
<1>1. /\ header' = Heaps!Freed(h, job.given)
      /\ held' = (held \ job.given) \cup {<<ptr, job.request>>}
      /\ job' = Heaps!Idle /\ refused' = refused
  BY DEF Heaps!Return
<1>2. /\ job.given \in SUBSET held /\ held \in SUBSET (Nat \X Nat) /\ job.given \in SUBSET (Nat \X Nat)
      /\ refused = 0 /\ job.request \in Nat \ {0} /\ job.size \in Nat /\ job.request <= job.size
  BY DEF TilesSound, TilesTyped, JobType, JobSound
<1>3. PICK G, C : G = Ends(h) /\ C = Uses(h)
  OBVIOUS
<1>4. HeadersTyped(header') /\ Ends(header') = G
      /\ Uses(header') = [p \in Nat |-> C[p] /\ \A b \in job.given : b[1] # p]
  BY <1>1, <1>2, <1>3, HeadersFreed
<1>5. PICK n : n = job.request
  OBVIOUS
<1>6. G[ptr] \in Nat
  BY <1>3, HeadersSay DEF EndType
<1>7. n \in Nat \ {0} /\ ptr + n <= G[ptr]
  BY <1>2, <1>3, <1>5, <1>6
<1>8. HeldSound(g, G, C, held \cup {<<ptr, n>>})
  BY <1>2, <1>3, <1>7, HeldAdded DEF TilesSound
<1>9. PICK D : D = held \cup {<<ptr, n>>}
  OBVIOUS
<1>10. D \in SUBSET (Nat \X Nat) /\ job.given \in SUBSET D
  BY <1>2, <1>7, <1>9
<1>11. HeldSound(g, G, Uses(header'), D \ job.given)
  <2>1. HeldSound(g, G, C, D)
    BY <1>8, <1>9
  <2>2. HeldSound(g, G, [p \in Nat |-> C[p] /\ \A b \in job.given : b[1] # p], D \ job.given)
    BY <1>10, <2>1, HeldFreed
  <2> QED BY <1>4, <2>2
<1>12. held' = D \ job.given
  <2>1. <<ptr, n>> \notin job.given
    BY <1>2
  <2> QED BY <1>1, <1>5, <1>9, <2>1
<1>13. JobSound(g)'
  BY <1>1, JobIsIdle DEF JobSound
<1>14. TilesTyped'
  BY <1>1, <1>4, <1>10, <1>12, JobIsIdle DEF TilesSound, TilesTyped
<1>15. RefusalSound(g)'
  BY <1>1, <1>2 DEF RefusalSound
<1> QED BY <1>3, <1>4, <1>11, <1>12, <1>13, <1>14, <1>15 DEF TilesSound

LEMMA TakeFromHeapSound ==
  ASSUME NEW f \in BlockSets, TilesSound(f), status = "ok", Heaps!TakeFromHeap
  PROVE  HeapInv'
<1>1. PICK i : i = cursor.active
  OBVIOUS
<1>2. PICK p : p = Front(heaps, i) + 1
  OBVIOUS
<1>3. PICK h : h = Heaps!WithHeader(header, p, job.size, TRUE)
  OBVIOUS
<1>4. /\ job.stage = "heaps" /\ heaps[i].offset + job.size + 1 <= heaps[i].size
      /\ Heaps!Return(p, h)
      /\ heaps' = [heaps EXCEPT ![i].offset = @ + job.size + 1]
      /\ cursor' = cursor /\ brk' = brk /\ status' = status
  BY <1>1, <1>2, <1>3, HeapsAre DEF Heaps!TakeFromHeap, Heaps!HasRoom
<1>5. /\ heaps \in HeapsType /\ HeadersTyped(header) /\ job.size \in Nat
      /\ cursor.active \in Nat /\ cursor.actual \in Nat
      /\ HeapsApart(heaps, brk) /\ Filled(heaps, Ends(header), f)
  BY DEF TilesSound, TilesTyped, JobType
<1>6. i \in Heaps!Slot /\ i < cursor.actual
  BY <1>1, <1>4, <1>5, HeapsAre, HeapAssumption DEF TilesSound, JobSound, CursorSound
<1>7. /\ heaps' \in HeapsType
      /\ heaps'[i].start = heaps[i].start /\ heaps'[i].offset = heaps[i].offset + job.size + 1
      /\ heaps'[i].size = heaps[i].size
      /\ \A j \in Heaps!Slot : j # i => heaps'[j] = heaps[j]
  <2>1. heaps[i] \in [start : Nat, size : Nat, offset : Nat]
    BY <1>5, <1>6 DEF HeapsType
  <2> QED BY <1>4, <1>5, <1>6, <2>1 DEF HeapsType
<1>8. p \in Nat /\ p = Front(heaps, i) + 1
  BY <1>2, <1>5, <1>6, SlotTyped
<1>9. /\ HeadersTyped(h)
      /\ Uses(h)[p] /\ Ends(h)[p] = p + job.size
      /\ \A j \in Heaps!Slot : p \notin f[j]
      /\ \E d \in BlockSets :
           /\ p \in d[i]
           /\ Filled(heaps', Ends(h), d)
           /\ SameUsed({p}, f, Ends(header), Uses(header), d, Ends(h), Uses(h))
  <2>1. Appends(heaps', i, f, header, h, p, job.size, TRUE)
    BY <1>3, <1>4, <1>5, <1>6, <1>7, <1>8, Appended
  <2> QED BY <2>1 DEF Appends
<1>10. PICK d \in BlockSets :
           /\ p \in d[i]
           /\ Filled(heaps', Ends(h), d)
           /\ SameUsed({p}, f, Ends(header), Uses(header), d, Ends(h), Uses(h))
  BY <1>9
<1>11. \A b \in held : b[1] # p
  BY <1>9 DEF TilesSound, HeldSound
<1>12. HeapsApart(heaps', brk')
  <2>1. \A j \in Heaps!Slot : heaps'[j].start = heaps[j].start /\ heaps'[j].size = heaps[j].size
                              /\ heaps'[j].offset <= heaps'[j].size
    BY <1>4, <1>5, <1>7 DEF HeapsApart
  <2> QED BY <1>4, <1>5, <2>1 DEF HeapsApart, Top
<1>13. CursorSound'
  <2>1. \A j \in Heaps!Slot : heaps'[j].start = heaps[j].start
                              /\ (j < cursor.active => heaps'[j] = heaps[j])
    BY <1>1, <1>5, <1>7
  <2> QED BY <1>4, <2>1 DEF TilesSound, CursorSound
<1>14. p + job.size <= Ends(h)[p]
  BY <1>5, <1>8, <1>9
<1>15. TilesSound(d)'
  BY <1>4, <1>6, <1>7, <1>8, <1>9, <1>10, <1>11, <1>12, <1>13, <1>14, ReturnSound
<1> QED BY <1>4, <1>15 DEF HeapInv

LEMMA ExpandSound ==
  ASSUME NEW f \in BlockSets, TilesSound(f), status = "ok", Heaps!expand_memory
  PROVE  HeapInv'
<1>1. PICK i : i = cursor.active
  OBVIOUS
<1>2. PICK n : n = Heaps!heap_adj
  OBVIOUS
<1>3. /\ job.stage = "heaps" /\ Top(heaps, i) = brk
      /\ heaps' = [heaps EXCEPT ![i].size = @ + n] /\ brk' = brk + n
      /\ UNCHANGED <<header, cursor, held, job, refused, status>>
  BY <1>1, <1>2, HeapsAre DEF Heaps!expand_memory
<1>4. /\ heaps \in HeapsType /\ brk \in Nat /\ n \in Nat \ {0} /\ Page \in Nat
      /\ cursor.active \in Nat /\ cursor.actual \in Nat
      /\ HeapsApart(heaps, brk) /\ Filled(heaps, Ends(header), f)
  BY <1>2, PagesGrow, HeapAssumption DEF TilesSound, TilesTyped
<1>5. i \in Heaps!Slot /\ i < cursor.actual
  BY <1>1, <1>3, <1>4, HeapsAre, HeapAssumption DEF TilesSound, JobSound, CursorSound
<1>6. /\ heaps' \in HeapsType
      /\ heaps'[i].start = heaps[i].start /\ heaps'[i].offset = heaps[i].offset
      /\ heaps'[i].size = heaps[i].size + n
      /\ \A j \in Heaps!Slot : j # i => heaps'[j] = heaps[j]
  <2>1. heaps[i] \in [start : Nat, size : Nat, offset : Nat]
    BY <1>4, <1>5 DEF HeapsType
  <2> QED BY <1>3, <1>4, <1>5, <2>1 DEF HeapsType
<1>7. \A j \in Heaps!Slot : /\ heaps[j].start \in Nat /\ heaps[j].size \in Nat /\ heaps[j].offset \in Nat
                            /\ heaps'[j].start = heaps[j].start /\ heaps'[j].offset = heaps[j].offset
  BY <1>4, <1>6, SlotTyped
<1>8. \A j \in Heaps!Slot : heaps[j].start # 0 => j <= i
  BY <1>1, <1>4, HeapsAre DEF TilesSound, CursorSound
<1>9. HeapsApart(heaps', brk')
  <2>1. ASSUME NEW j \in Heaps!Slot
        PROVE  /\ heaps'[j].offset <= heaps'[j].size /\ Top(heaps', j) <= brk'
               /\ heaps'[j].start = 0 <=> heaps'[j].size = 0
    <3>1. heaps[j].offset <= heaps[j].size /\ heaps[j].start + heaps[j].size <= brk
          /\ (heaps[j].start = 0 <=> heaps[j].size = 0)
      BY <1>4 DEF HeapsApart, Top
    <3>2. heaps[i].start # 0
      BY <1>1, <1>4, <1>5 DEF TilesSound, CursorSound
    <3>3. CASE j = i
      BY <1>3, <1>4, <1>6, <1>7, <3>1, <3>2, <3>3 DEF Top
    <3>4. CASE j # i
      BY <1>3, <1>4, <1>6, <1>7, <3>1, <3>4 DEF Top
    <3> QED BY <3>3, <3>4
  <2>2. ASSUME NEW j \in Heaps!Slot, NEW k \in Heaps!Slot, j < k, heaps'[k].start # 0
        PROVE  Top(heaps', j) <= heaps'[k].start
    <3>1. j # i
      BY <1>7, <1>8, <2>2, HeapsAre
    <3> QED BY <1>4, <1>6, <1>7, <2>2, <3>1 DEF HeapsApart, Top
  <2> QED BY <2>1, <2>2 DEF HeapsApart
<1>10. CursorSound'
  <2>1. \A j \in Heaps!Slot : heaps'[j].start = heaps[j].start
                              /\ (j < cursor.active => heaps'[j] = heaps[j])
    BY <1>1, <1>4, <1>6
  <2> QED BY <1>3, <2>1 DEF TilesSound, CursorSound
<1>11. Filled(heaps', Ends(header'), f)
  BY <1>3, <1>4, <1>7 DEF Filled, Front
<1>12. JobSound(f)'
  BY <1>3 DEF TilesSound, JobSound
<1>13. RefusalSound(f)'
  BY <1>3 DEF TilesSound, RefusalSound
<1>14. TilesTyped'
  BY <1>3, <1>4, <1>6 DEF TilesSound, TilesTyped
<1>15. HeldSound(f, Ends(header'), Uses(header'), held')
  BY <1>3 DEF TilesSound
<1> QED BY <1>3, <1>9, <1>10, <1>11, <1>12, <1>13, <1>14, <1>15 DEF HeapInv, TilesSound

-----------------------------------------------------------------------------
(* What is left of heap i becomes a free block of it.                      *)
CleanedUp(i, K, h, g) ==
  /\ K \in HeapsType /\ HeadersTyped(h)
  /\ HeapsApart(K, brk) /\ Filled(K, Ends(h), g) /\ HeldSound(g, Ends(h), Uses(h), held)
  /\ \A j \in Heaps!Slot : /\ K[j].start = heaps[j].start /\ K[j].size = heaps[j].size
                           /\ K[j].offset = IF j = i THEN heaps[j].size ELSE heaps[j].offset

LEMMA CleanUp ==
  ASSUME NEW f \in BlockSets, TilesSound(f), NEW i \in Heaps!Slot, heaps[i].start # 0
  PROVE  \E g \in BlockSets : CleanedUp(i, Heaps!Completed(i), Heaps!cleanup_remaining(i), g)
<1>1. PICK K, h : K = Heaps!Completed(i) /\ h = Heaps!cleanup_remaining(i)
  OBVIOUS
<1>2. /\ heaps \in HeapsType /\ HeadersTyped(header) /\ held \in SUBSET (Nat \X Nat)
      /\ HeapsApart(heaps, brk) /\ Filled(heaps, Ends(header), f)
      /\ HeldSound(f, Ends(header), Uses(header), held)
  BY DEF TilesSound, TilesTyped
<1>3. /\ heaps[i].start \in Nat /\ heaps[i].size \in Nat /\ heaps[i].offset \in Nat
      /\ heaps[i].offset <= heaps[i].size /\ Front(heaps, i) \in Nat
  BY <1>2, SlotTyped DEF HeapsApart
<1>4. K \in HeapsType /\ K[i].start = heaps[i].start /\ K[i].size = heaps[i].size
      /\ K[i].offset = heaps[i].size
      /\ \A j \in Heaps!Slot : j # i => K[j] = heaps[j]
  <2>1. heaps[i] \in [start : Nat, size : Nat, offset : Nat]
    BY <1>2 DEF HeapsType
  <2> QED BY <1>1, <1>2, <2>1 DEF HeapsType, Heaps!Completed
<1>5. \A j \in Heaps!Slot : /\ K[j].start = heaps[j].start /\ K[j].size = heaps[j].size
                            /\ K[j].offset = IF j = i THEN heaps[j].size ELSE heaps[j].offset
  BY <1>4
<1>6. HeapsApart(K, brk)
  <2>1. \A j \in Heaps!Slot : K[j].offset <= K[j].size
    BY <1>2, <1>3, <1>5 DEF HeapsApart
  <2> QED BY <1>2, <1>5, <2>1 DEF HeapsApart, Top
<1>7. CASE heaps[i].offset = heaps[i].size
  <2>1. h = header
    BY <1>1, <1>7 DEF Heaps!cleanup_remaining
  <2>2. \A j \in Heaps!Slot : K[j].start = heaps[j].start /\ Front(K, j) = Front(heaps, j)
    BY <1>5, <1>7 DEF Front
  <2>3. Filled(K, Ends(h), f)
    BY <1>2, <2>1, <2>2 DEF Filled
  <2>4. CleanedUp(i, K, h, f)
    BY <1>2, <1>4, <1>5, <1>6, <2>1, <2>3 DEF CleanedUp
  <2> QED BY <1>1, <2>4
<1>8. CASE heaps[i].offset # heaps[i].size
  <2>1. PICK p \in Nat : p = Front(heaps, i) + 1
    BY <1>3
  <2>2. PICK n : n = heaps[i].size - heaps[i].offset - 1
    OBVIOUS
  <2>3. n \in Nat /\ heaps[i].offset + n + 1 <= heaps[i].size
        /\ K[i].offset = heaps[i].offset + n + 1
    BY <1>3, <1>4, <1>8, <2>2
  <2>4. h = Heaps!WithHeader(header, p, n, FALSE)
    BY <1>1, <1>8, <2>1, <2>2, HeapsAre DEF Heaps!cleanup_remaining
  <2>5. \A j \in Heaps!Slot : j # i => K[j].start = heaps[j].start /\ K[j].offset = heaps[j].offset
    BY <1>4
  <2>6. Appends(K, i, f, header, h, p, n, FALSE)
    BY <1>2, <1>4, <2>1, <2>3, <2>4, <2>5, Appended
  <2>7. PICK g \in BlockSets :
          /\ Filled(K, Ends(h), g)
          /\ SameUsed({p}, f, Ends(header), Uses(header), g, Ends(h), Uses(h))
    BY <2>6 DEF Appends
  <2>8. ~Uses(h)[p] /\ (\A j \in Heaps!Slot : p \notin f[j]) /\ HeadersTyped(h)
    BY <2>6 DEF Appends
  <2>9. SameUsed({}, f, Ends(header), Uses(header), g, Ends(h), Uses(h))
    BY <2>7, <2>8, SameUsedFree
  <2>10. HeldSound(g, Ends(h), Uses(h), held)
    BY <1>2, <2>9, HeldKept
  <2>11. CleanedUp(i, K, h, g)
    BY <1>4, <1>5, <1>6, <2>7, <2>8, <2>10 DEF CleanedUp
  <2> QED BY <1>1, <2>11
<1> QED BY <1>7, <1>8

LEMMA NoMemorySound ==
  ASSUME NEW f \in BlockSets, TilesSound(f), status = "ok", Heaps!NoMemory
  PROVE  HeapInv'
<1>1. CASE ~wide
  <2>1. status' = "trap"
    BY <1>1 DEF Heaps!NoMemory, Heaps!Stop
  <2> QED BY <2>1 DEF HeapInv
<1>2. CASE wide
  <2>1. PICK i : i = cursor.active
    OBVIOUS
  <2>2. /\ job.stage = "heaps"
        /\ heaps' = Heaps!Completed(i) /\ header' = Heaps!cleanup_remaining(i)
        /\ cursor' = [cursor EXCEPT !.active = i + 1, !.actual = i + 1]
        /\ job' = [job EXCEPT !.stage = "search"]
        /\ UNCHANGED <<brk, held, refused, status>>
    BY <1>2, <2>1 DEF Heaps!NoMemory
  <2>3. /\ cursor.active \in Nat /\ cursor.actual \in Nat /\ cursor.free \in Nat
        /\ cursor \in [actual : Nat, active : Nat, free : Nat] /\ job \in JobType
        /\ cursor.active < cursor.actual /\ job.last = cursor.free
        /\ cursor.actual = MaxHeaps /\ cursor.free = 0
    BY <2>2 DEF TilesSound, TilesTyped, CursorSound, JobSound
  <2>4. i \in Heaps!Slot /\ heaps[i].start # 0 /\ i \in Nat /\ i < MaxHeaps
    <3>1. i \in Heaps!Slot BY <2>1, <2>3, HeapsAre
    <3> QED BY <2>1, <2>3, <3>1 DEF TilesSound, CursorSound
  <2>5. PICK g \in BlockSets : CleanedUp(i, heaps', header', g)
    BY <2>2, <2>4, CleanUp
  <2>6. /\ cursor' \in [actual : Nat, active : Nat, free : Nat]
        /\ cursor'.active = i + 1 /\ cursor'.actual = i + 1 /\ cursor'.free = 0
    <3>1. PICK m \in Nat : m = i + 1
      BY <2>4
    <3>2. cursor' = [cursor EXCEPT !.active = m, !.actual = m]
      BY <2>2, <3>1
    <3>3. PICK c : c = [cursor EXCEPT !.active = m]
      OBVIOUS
    <3>4. c \in [actual : Nat, active : Nat, free : Nat] /\ c.active = m /\ c.free = 0
      BY <2>3, <3>3
    <3>5. cursor' = [c EXCEPT !.actual = m]
      BY <3>2, <3>3
    <3> QED BY <3>1, <3>4, <3>5
  <2>7. /\ job' \in JobType /\ job'.stage = "search" /\ job'.last = 0 /\ job'.size = job.size
        /\ job'.given = job.given /\ job'.request = job.request
    BY <2>2, <2>3 DEF JobType
  <2>8. CursorSound'
    <3>1. \A j \in Heaps!Slot : j \in Nat /\ heaps'[j].start = heaps[j].start
                                /\ (j = i => heaps'[j].offset = heaps'[j].size)
                                /\ (j # i => heaps'[j].offset = heaps[j].offset
                                             /\ heaps'[j].size = heaps[j].size)
      BY <2>5, HeapsAre DEF CleanedUp
    <3>2. \A j \in Heaps!Slot : heaps'[j].start # 0 <=> j < i + 1
      BY <2>1, <2>3, <2>4, <3>1 DEF TilesSound, CursorSound
    <3>3. \A j \in Heaps!Slot : j < i + 1 => heaps'[j].offset = heaps'[j].size
      BY <2>1, <2>3, <2>4, <3>1 DEF TilesSound, CursorSound
    <3>4. /\ cursor'.active <= cursor'.actual /\ cursor'.actual <= MaxHeaps
          /\ ~(cursor'.active < cursor'.actual) /\ cursor'.free < cursor'.actual /\ cursor'.actual # 0
      BY <2>4, <2>6, HeapAssumption
    <3>5. \A j \in Heaps!Slot :
            heaps'[j].start # 0 <=>
              j < cursor'.active \/ (j = cursor'.active /\ cursor'.active < cursor'.actual)
      BY <2>6, <3>2, <3>4
    <3>6. \A j \in Heaps!Slot : j < cursor'.active => heaps'[j].offset = heaps'[j].size
      BY <2>6, <3>3
    <3> QED BY <3>4, <3>5, <3>6 DEF CursorSound
  <2>9. JobSound(g)'
    <3>1. \A j \in Heaps!Slot : ~(Passed(j)')
      BY <2>6, <2>7, HeapsAre DEF Passed
    <3>2. cursor'.active = cursor'.actual /\ job'.last < cursor'.actual
      BY <2>4, <2>6, <2>7
    <3>3. Searched(g)'
      BY <3>1, <3>2 DEF Searched
    <3> QED BY <2>2, <2>7, <3>3 DEF TilesSound, JobSound
  <2>10. RefusalSound(g)'
    BY <2>2 DEF TilesSound, JobSound, RefusalSound
  <2>11. TilesTyped'
    BY <2>2, <2>5, <2>6, <2>7 DEF TilesSound, TilesTyped, CleanedUp
  <2>12. /\ HeapsApart(heaps', brk') /\ Filled(heaps', Ends(header'), g)
         /\ HeldSound(g, Ends(header'), Uses(header'), held')
    BY <2>2, <2>5 DEF CleanedUp
  <2> QED BY <2>2, <2>8, <2>9, <2>10, <2>11, <2>12 DEF HeapInv, TilesSound
<1> QED BY <1>1, <1>2

LEMMA NextHeapSound ==
  ASSUME NEW f \in BlockSets, TilesSound(f), status = "ok", Heaps!NextHeap
  PROVE  HeapInv'
<1>1. CASE cursor.active + 1 = MaxHeaps
  <2>1. status' = "trap"
    BY <1>1 DEF Heaps!NextHeap, Heaps!Stop
  <2> QED BY <2>1 DEF HeapInv
<1>2. CASE cursor.active + 1 # MaxHeaps
  <2>1. PICK i : i = cursor.active
    OBVIOUS
  <2>2. PICK n : n = Heaps!heap_adj
    OBVIOUS
  <2>3. PICK K : K = Heaps!Completed(i)
    OBVIOUS
  <2>4. /\ job.stage = "heaps"
        /\ heaps' = [K EXCEPT ![i + 1].start = brk, ![i + 1].size = n]
        /\ header' = Heaps!cleanup_remaining(i)
        /\ cursor' = [cursor EXCEPT !.active = i + 1]
        /\ brk' = brk + n
        /\ UNCHANGED <<held, job, refused, status>>
    BY <1>2, <2>1, <2>2, <2>3 DEF Heaps!NextHeap
  <2>5. /\ cursor.active \in Nat /\ cursor.actual \in Nat /\ cursor.free \in Nat
        /\ cursor \in [actual : Nat, active : Nat, free : Nat] /\ job \in JobType
        /\ cursor.active < cursor.actual /\ job.last = cursor.free
        /\ cursor.actual = MaxHeaps /\ cursor.free = 0
        /\ brk \in Nat /\ brk # 0 /\ n \in Nat \ {0}
    BY <2>2, <2>4, PagesGrow, HeapAssumption DEF TilesSound, TilesTyped, CursorSound, JobSound
  <2>6. i \in Heaps!Slot /\ heaps[i].start # 0 /\ i \in Nat /\ i + 1 < MaxHeaps
        /\ i + 1 \in Heaps!Slot
    <3>1. i \in Heaps!Slot /\ i + 1 < MaxHeaps
      BY <1>2, <2>1, <2>5, HeapsAre, HeapAssumption
    <3> QED BY <2>1, <2>5, <3>1, HeapsAre DEF TilesSound, CursorSound
  <2>7. PICK g \in BlockSets : CleanedUp(i, K, header', g)
    BY <2>3, <2>4, <2>6, CleanUp
  <2>8. \A j \in Heaps!Slot : /\ j \in Nat
                              /\ heaps[j].start # 0 <=> j <= i
                              /\ j < i => heaps[j].offset = heaps[j].size
    BY <2>1, <2>5, HeapsAre DEF TilesSound, CursorSound
  <2>9. /\ K \in HeapsType /\ HeapsApart(K, brk) /\ Filled(K, Ends(header'), g)
        /\ \A j \in Heaps!Slot : /\ K[j].start # 0 <=> j <= i
                                 /\ j <= i => K[j].offset = K[j].size
    BY <2>6, <2>7, <2>8 DEF CleanedUp
  <2>10. \A j \in Heaps!Slot : i < j => g[j] = {} /\ K[j].offset = 0 /\ K[j].size = 0 /\ K[j].start = 0
    <3> SUFFICES ASSUME NEW j \in Heaps!Slot, i < j
                 PROVE  g[j] = {} /\ K[j].offset = 0 /\ K[j].size = 0 /\ K[j].start = 0
      OBVIOUS
    <3>1. K[j].start = 0
      BY <2>6, <2>8, <2>9
    <3> QED BY <2>9, <3>1, HeapEmpty
  <2>13. /\ heaps' \in HeapsType
         /\ heaps'[i + 1].start = brk /\ heaps'[i + 1].size = n /\ heaps'[i + 1].offset = 0
         /\ \A j \in Heaps!Slot : j # i + 1 => heaps'[j] = K[j]
    <3>1. PICK m \in Heaps!Slot : m = i + 1
      BY <2>6
    <3>2. K[m].offset = 0
      BY <2>6, <2>10, <3>1
    <3>3. heaps' = WithHeap(K, m, brk, n)
      BY <2>4, <3>1 DEF WithHeap
    <3>4. Starts(K, heaps', m, brk, n)
      BY <2>5, <2>9, <3>2, <3>3, HeapStarted
    <3> QED BY <3>1, <3>4 DEF Starts
  <2>14. HeapsApart(heaps', brk')
    <3>1. ASSUME NEW j \in Heaps!Slot
          PROVE  /\ heaps'[j].offset <= heaps'[j].size /\ Top(heaps', j) <= brk'
                 /\ heaps'[j].start = 0 <=> heaps'[j].size = 0
      <4>1. CASE j = i + 1
        BY <2>4, <2>5, <2>13, <4>1 DEF Top
      <4>2. CASE j # i + 1
        <5>1. heaps'[j] = K[j] /\ K[j].start \in Nat /\ K[j].size \in Nat
          BY <2>9, <2>13, <4>2, SlotTyped
        <5>2. K[j].offset <= K[j].size /\ K[j].start + K[j].size <= brk
              /\ (K[j].start = 0 <=> K[j].size = 0)
          BY <2>9 DEF HeapsApart, Top
        <5>3. brk' = brk + n /\ brk \in Nat /\ n \in Nat
          BY <2>4, <2>5
        <5>4. Top(heaps', j) = K[j].start + K[j].size
          BY <5>1 DEF Top
        <5>5. Top(heaps', j) <= brk'
          BY <5>1, <5>2, <5>3, <5>4
        <5> QED BY <5>1, <5>2, <5>5
      <4> QED BY <4>1, <4>2
    <3>2. ASSUME NEW j \in Heaps!Slot, NEW k \in Heaps!Slot, j < k, heaps'[k].start # 0
          PROVE  Top(heaps', j) <= heaps'[k].start
      <4>1. CASE k = i + 1
        <5>1. j # i + 1 /\ heaps'[j] = K[j] /\ K[j].start + K[j].size <= brk
          BY <2>8, <2>9, <2>13, <3>2, <4>1 DEF HeapsApart, Top
        <5> QED BY <2>13, <4>1, <5>1 DEF Top
      <4>2. CASE k # i + 1
        <5>1. heaps'[k] = K[k] /\ k <= i /\ heaps'[j] = K[j]
          BY <2>6, <2>8, <2>9, <2>13, <3>2, <4>2
        <5> QED BY <2>9, <3>2, <5>1 DEF HeapsApart, Top
      <4> QED BY <4>1, <4>2
    <3> QED BY <3>1, <3>2 DEF HeapsApart
  <2>15. Filled(heaps', Ends(header'), g)
    <3> SUFFICES ASSUME NEW j \in Heaps!Slot
                 PROVE  Tiling(g[j], heaps'[j].start, Front(heaps', j), Ends(header'))
      BY DEF Filled
    <3>1. CASE j = i + 1
      <4>1. g[j] = {} /\ Front(heaps', j) = heaps'[j].start /\ heaps'[j].start \in Nat
        BY <2>5, <2>6, <2>10, <2>13, <3>1 DEF Front
      <4> QED BY <4>1, EmptyTiling
    <3>2. CASE j # i + 1
      BY <2>9, <2>13, <3>2 DEF Filled, Front
    <3> QED BY <3>1, <3>2
  <2>16. /\ cursor' \in [actual : Nat, active : Nat, free : Nat]
         /\ cursor'.active = i + 1 /\ cursor'.actual = MaxHeaps /\ cursor'.free = 0
    BY <2>4, <2>5, <2>6
  <2>17. CursorSound'
    <3>1. \A j \in Heaps!Slot : heaps'[j].start # 0 <=> j < i + 1 \/ j = i + 1
      BY <2>5, <2>6, <2>8, <2>9, <2>13
    <3>2. ASSUME NEW j \in Heaps!Slot, j < i + 1
          PROVE  heaps'[j].offset = heaps'[j].size
      <4>1. j # i + 1 /\ j <= i
        BY <2>6, <2>8, <3>2
      <4>2. heaps'[j] = K[j] /\ K[j].offset = K[j].size
        BY <2>9, <2>13, <4>1
      <4> QED BY <4>2
    <3> QED BY <2>6, <2>16, <3>1, <3>2, HeapAssumption DEF CursorSound
  <2>18. JobSound(g)'
    BY <2>4, <2>6, <2>16 DEF TilesSound, JobSound
  <2>19. RefusalSound(g)'
    BY <2>4 DEF TilesSound, JobSound, RefusalSound
  <2>20. TilesTyped'
    BY <2>4, <2>5, <2>7, <2>13, <2>16, HeapAssumption DEF TilesSound, TilesTyped, CleanedUp
  <2>21. HeldSound(g, Ends(header'), Uses(header'), held')
    BY <2>4, <2>7 DEF CleanedUp
  <2> QED BY <2>4, <2>14, <2>15, <2>17, <2>18, <2>19, <2>20, <2>21 DEF HeapInv, TilesSound
<1> QED BY <1>1, <1>2

-----------------------------------------------------------------------------
(* malloc_from_freed looks at full heaps only.                             *)
SearchesHeap(f, i) ==
  /\ i \in Heaps!Slot /\ i < cursor.actual /\ cursor.active = cursor.actual
  /\ heaps[i].start \in Nat /\ heaps[i].start # 0 /\ Top(heaps, i) \in Nat
  /\ heaps[i].offset = heaps[i].size /\ Front(heaps, i) = Top(heaps, i)
  /\ heaps[i].start < Top(heaps, i)
  /\ Tiling(f[i], heaps[i].start, Top(heaps, i), Ends(header)) /\ f[i] \subseteq Nat
  /\ Ends(header) \in EndType /\ Uses(header) \in [Nat -> BOOLEAN]
  /\ job.size \in Nat \ {0}

LEMMA Searches ==
  ASSUME NEW f \in BlockSets, TilesSound(f), job.stage \in {"search", "freed", "merge"}
  PROVE  SearchesHeap(f, cursor.free)
<1>1. PICK i : i = cursor.free
  OBVIOUS
<1>2. /\ cursor.active \in Nat /\ cursor.actual \in Nat /\ cursor.free \in Nat
      /\ cursor.active = cursor.actual /\ job.last < cursor.actual /\ job.last \in Nat
      /\ heaps \in HeapsType /\ HeadersTyped(header) /\ job.size \in Nat /\ job.request \in Nat
      /\ HeapsApart(heaps, brk) /\ Filled(heaps, Ends(header), f)
  BY DEF TilesSound, TilesTyped, JobType, JobSound, Searched
<1>3. i \in Heaps!Slot /\ i < cursor.actual /\ i < cursor.active /\ i \in Nat
  <2>1. i < cursor.actual
    BY <1>1, <1>2 DEF TilesSound, CursorSound
  <2>2. cursor.actual <= MaxHeaps
    BY DEF TilesSound, CursorSound
  <2> QED BY <1>1, <1>2, <2>1, <2>2, HeapsAre, HeapAssumption
<1>4. heaps[i].start # 0 /\ heaps[i].offset = heaps[i].size
  BY <1>3 DEF TilesSound, CursorSound
<1>5. heaps[i].start \in Nat /\ Top(heaps, i) \in Nat /\ heaps[i].size \in Nat
  BY <1>2, <1>3, SlotTyped
<1>6. heaps[i].size # 0
  BY <1>2, <1>3, <1>4 DEF HeapsApart
<1>7. Front(heaps, i) = Top(heaps, i) /\ heaps[i].start < Top(heaps, i)
  BY <1>4, <1>5, <1>6 DEF Front, Top
<1>8. Tiling(f[i], heaps[i].start, Top(heaps, i), Ends(header))
  BY <1>2, <1>3, <1>7 DEF Filled
<1>9. f[i] \subseteq Nat
  BY <1>3 DEF BlockSets
<1>10. Ends(header) \in EndType /\ Uses(header) \in [Nat -> BOOLEAN]
  BY <1>2, HeadersSay
<1>11. job.size # 0
  BY <1>2 DEF TilesSound, JobSound
<1>12. SearchesHeap(f, i)
  BY <1>2, <1>3, <1>4, <1>5, <1>7, <1>8, <1>9, <1>10, <1>11 DEF SearchesHeap
<1> QED BY <1>1, <1>12

LEMMA SearchHeapSound ==
  ASSUME NEW f \in BlockSets, TilesSound(f), status = "ok", Heaps!SearchHeap
  PROVE  HeapInv'
<1>1. PICK i : i = cursor.free
  OBVIOUS
<1>2. job.stage = "search"
  BY DEF Heaps!SearchHeap
<1>3. SearchesHeap(f, i)
  BY <1>1, <1>2, Searches
<1>4. /\ job' = [job EXCEPT !.stage = "freed", !.current = heaps[i].start + 1]
      /\ UNCHANGED <<heaps, header, cursor, brk, held, refused, status>>
  BY <1>1, <1>3 DEF Heaps!SearchHeap, SearchesHeap
<1>5. PICK p \in Nat : p = heaps[i].start + 1
  BY <1>3 DEF SearchesHeap
<1>6. job \in JobType /\ job' = [job EXCEPT !.stage = "freed", !.current = p]
  BY <1>4, <1>5 DEF TilesSound, TilesTyped
<1>7. /\ job' \in JobType /\ job'.stage = "freed" /\ job'.current = p
      /\ job'.last = job.last /\ job'.size = job.size /\ job'.given = job.given
      /\ job'.request = job.request
  BY <1>6 DEF JobType
<1>8. PICK B, E, A : B = f[i] /\ E = Ends(header) /\ A = Uses(header)
  OBVIOUS
<1>9. p \in B /\ Small(B, E, A, p, job.size)
  <2>1. PICK S, F : S = heaps[i].start /\ F = Top(heaps, i)
    OBVIOUS
  <2>2. /\ S \in Nat /\ F \in Nat /\ F # S /\ Tiling(B, S, F, E) /\ E \in EndType
        /\ A \in [Nat -> BOOLEAN] /\ p = S + 1
    BY <1>3, <1>5, <1>8, <2>1 DEF SearchesHeap
  <2>3. p \in B
    BY <2>2 DEF Tiling
  <2>4. Small(B, E, A, S + 1, job.size)
    BY <2>2, SmallAtStart
  <2> QED BY <2>2, <2>3, <2>4
<1>10. AtBlock(f)'
  BY <1>1, <1>4, <1>7, <1>8, <1>9 DEF AtBlock
<1>11. Searched(f)'
  <2>1. Searched(f)
    BY <1>2 DEF TilesSound, JobSound
  <2>2. \A j : Passed(j)' <=> Passed(j)
    BY <1>4, <1>7 DEF Passed
  <2> QED BY <1>4, <1>7, <2>1, <2>2 DEF Searched
<1>12. JobSound(f)'
  BY <1>2, <1>4, <1>7, <1>10, <1>11 DEF TilesSound, JobSound
<1>13. TilesTyped' /\ HeapsApart(heaps', brk') /\ CursorSound'
       /\ Filled(heaps', Ends(header'), f) /\ HeldSound(f, Ends(header'), Uses(header'), held')
  BY <1>4, <1>7 DEF TilesSound, TilesTyped, CursorSound
<1>14. RefusalSound(f)'
  BY <1>4 DEF TilesSound, RefusalSound
<1> QED BY <1>4, <1>12, <1>13, <1>14 DEF HeapInv, TilesSound

(* malloc_from_freed goes on behind a block, with the headers as they are  *)
(* by then.                                                                *)
GoingOn(g, next) ==
  /\ HeadersTyped(header') /\ Filled(heaps, Ends(header'), g)
  /\ HeldSound(g, Ends(header'), Uses(header'), held)
  /\ \A j \in Heaps!Slot : Passed(j) =>
       \A n \in Nat : Small(g[j], Ends(header'), Uses(header'), n, job.size)
  /\ Small(g[cursor.free], Ends(header'), Uses(header'), next, job.size)
  /\ next < Top(heaps, cursor.free) => next \in g[cursor.free]

LEMMA GoOnSound ==
  ASSUME NEW f \in BlockSets, TilesSound(f), status = "ok", job.stage \in {"freed", "merge"},
         NEW g \in BlockSets, NEW next \in Nat, GoingOn(g, next), Heaps!GoOn(next),
         heaps' = heaps, brk' = brk, held' = held
  PROVE  HeapInv'
<1>1. PICK i : i = cursor.free
  OBVIOUS
<1>2. SearchesHeap(f, i) /\ Searched(f)
  BY <1>1, Searches DEF TilesSound, JobSound
<1>3. PICK G, C : G = Ends(header') /\ C = Uses(header')
  OBVIOUS
<1>4. /\ HeadersTyped(header') /\ Filled(heaps, G, g) /\ HeldSound(g, G, C, held)
      /\ \A j \in Heaps!Slot : Passed(j) => \A n \in Nat : Small(g[j], G, C, n, job.size)
      /\ Small(g[i], G, C, next, job.size)
      /\ next < Top(heaps, i) => next \in g[i]
  BY <1>1, <1>3 DEF GoingOn
<1>5. G \in EndType /\ C \in [Nat -> BOOLEAN]
  BY <1>3, <1>4, HeadersSay
<1>6. /\ cursor.active \in Nat /\ cursor.actual \in Nat /\ i \in Nat /\ job.last \in Nat
      /\ cursor \in [actual : Nat, active : Nat, free : Nat] /\ job \in JobType
      /\ i < cursor.actual /\ job.last < cursor.actual /\ cursor.active = cursor.actual
      /\ heaps \in HeapsType /\ brk \in Nat /\ Page <= brk /\ held \in SUBSET (Nat \X Nat)
      /\ job.given \subseteq held /\ refused = 0 /\ job.request # 0 /\ job.request <= job.size
      /\ job.size \in Nat \ {0} /\ i \in Heaps!Slot /\ HeapsApart(heaps, brk)
  BY <1>1, <1>2 DEF TilesSound, TilesTyped, JobType, JobSound, SearchesHeap, Searched
<1>7. CASE next < Top(heaps, i)
  <2>1. /\ job' = [job EXCEPT !.stage = "freed", !.current = next]
        /\ UNCHANGED <<cursor, refused, status>>
    BY <1>1, <1>7, HeapsAre DEF Heaps!GoOn
  <2>2. /\ job' \in JobType /\ job'.stage = "freed" /\ job'.current = next
        /\ job'.last = job.last /\ job'.size = job.size /\ job'.given = job.given
        /\ job'.request = job.request
    BY <1>6, <2>1 DEF JobType
  <2>3. AtBlock(g)'
    BY <1>1, <1>3, <1>4, <1>7, <2>1, <2>2 DEF AtBlock
  <2>4. Searched(g)'
    <3>1. \A j : Passed(j)' <=> Passed(j)
      BY <2>1, <2>2 DEF Passed
    <3> QED BY <1>3, <1>4, <1>6, <2>1, <2>2, <3>1 DEF Searched
  <2>5. JobSound(g)'
    BY <1>6, <2>1, <2>2, <2>3, <2>4 DEF JobSound
  <2>6. TilesTyped' /\ HeapsApart(heaps', brk') /\ CursorSound'
        /\ Filled(heaps', Ends(header'), g) /\ HeldSound(g, Ends(header'), Uses(header'), held')
    BY <1>3, <1>4, <2>1, <2>2 DEF TilesSound, TilesTyped, CursorSound
  <2>7. RefusalSound(g)'
    BY <1>6, <2>1 DEF RefusalSound
  <2> QED BY <2>1, <2>5, <2>6, <2>7 DEF HeapInv, TilesSound
<1>8. CASE ~(next < Top(heaps, i))
  <2>1. \A n \in Nat : Small(g[i], G, C, n, job.size)
    <3>1. PICK B, S, F : B = g[i] /\ S = heaps[i].start /\ F = Top(heaps, i)
      OBVIOUS
    <3>2. S \in Nat /\ F \in Nat /\ F <= next /\ Tiling(B, S, F, G)
      BY <1>2, <1>4, <1>8, <3>1 DEF SearchesHeap, Filled
    <3>3. Small(B, G, C, next, job.size)
      BY <1>4, <3>1
    <3>4. \A n \in Nat : Small(B, G, C, n, job.size)
      BY <1>5, <1>6, <3>2, <3>3, SmallToTheEnd
    <3> QED BY <3>1, <3>4
  <2>2. PICK moved : moved = IF i + 1 = cursor.actual THEN 0 ELSE i + 1
    OBVIOUS
  <2>3. moved \in Nat /\ moved < cursor.actual
    BY <1>6, <2>2
  <2>4. /\ cursor' = [cursor EXCEPT !.free = moved]
        /\ IF moved # job.last
           THEN job' = [job EXCEPT !.stage = "search"] /\ UNCHANGED <<refused, status>>
           ELSE /\ job' = Heaps!Idle /\ refused' = job.size
                /\ status' = IF job.clear THEN "cleared" ELSE "ok"
    BY <1>1, <1>8, <2>2, HeapsAre DEF Heaps!GoOn
  <2>5. /\ cursor' \in [actual : Nat, active : Nat, free : Nat]
        /\ cursor'.free = moved /\ cursor'.active = cursor.active /\ cursor'.actual = cursor.actual
    BY <1>6, <2>3, <2>4
  <2>6. CursorSound'
    BY <1>6, <2>3, <2>5 DEF TilesSound, CursorSound
  <2>7. /\ HeapsApart(heaps', brk')
        /\ Filled(heaps', Ends(header'), g) /\ HeldSound(g, Ends(header'), Uses(header'), held')
    BY <1>3, <1>4 DEF TilesSound
  <2>8. CASE moved # job.last
    <3>1. /\ job' \in JobType /\ job'.stage = "search"
          /\ job'.last = job.last /\ job'.size = job.size /\ job'.given = job.given
          /\ job'.request = job.request
      BY <1>6, <2>4, <2>8 DEF JobType
    <3>2. ASSUME NEW j \in Heaps!Slot, Passed(j)', j # i
          PROVE  Passed(j)
      <4>1. j \in Nat
        BY HeapsAre
      <4>2. /\ j < cursor.actual
            /\ IF job.last <= moved THEN job.last <= j /\ j < moved ELSE job.last <= j \/ j < moved
        BY <2>5, <3>1, <3>2 DEF Passed
      <4>3. IF job.last <= i THEN job.last <= j /\ j < i ELSE job.last <= j \/ j < i
        BY <1>6, <2>2, <2>8, <3>2, <4>1, <4>2
      <4> QED BY <1>1, <4>2, <4>3 DEF Passed
    <3>3. \A j \in Heaps!Slot : Passed(j)' =>
            \A n \in Nat : Small(g[j], Ends(header'), Uses(header'), n, job'.size)
      BY <1>3, <1>4, <2>1, <3>1, <3>2
    <3>4. Searched(g)'
      BY <1>6, <2>5, <3>1, <3>3 DEF Searched
    <3>5. JobSound(g)'
      BY <1>6, <2>4, <2>8, <3>1, <3>4 DEF JobSound
    <3>6. RefusalSound(g)'
      BY <1>6, <2>4, <2>8 DEF RefusalSound
    <3>7. TilesTyped'
      BY <1>4, <1>6, <2>4, <2>5, <2>8, <3>1 DEF TilesSound, TilesTyped
    <3> QED BY <2>4, <2>6, <2>7, <2>8, <3>5, <3>6, <3>7 DEF HeapInv, TilesSound
  <2>9. CASE moved = job.last
    <3>1. job' = Heaps!Idle /\ refused' = job.size /\ status' \in {"cleared", "ok"}
      BY <2>4, <2>9
    <3>2. ASSUME NEW j \in Heaps!Slot
          PROVE  \A n \in Nat : Small(g[j], G, C, n, job.size)
      <4>1. j \in Nat
        BY HeapsAre
      <4>2. CASE j = i
        BY <2>1, <4>2
      <4>3. CASE j # i /\ j < cursor.actual
        <5>1. IF job.last <= i THEN job.last <= j /\ j < i ELSE job.last <= j \/ j < i
          BY <1>6, <2>2, <2>9, <4>1, <4>3
        <5>2. Passed(j)
          BY <1>1, <4>3, <5>1 DEF Passed
        <5> QED BY <1>4, <5>2
      <4>4. CASE ~(j < cursor.actual)
        <5>1. heaps[j].start = 0
          BY <1>6, <4>1, <4>4 DEF TilesSound, CursorSound
        <5>2. g[j] = {}
          BY <1>4, <1>6, <5>1, HeapEmpty
        <5> QED BY <5>2 DEF Small
      <4> QED BY <4>2, <4>3, <4>4
    <3>3. RefusalSound(g)'
      BY <1>3, <3>1, <3>2 DEF RefusalSound
    <3>4. JobSound(g)'
      BY <3>1, JobIsIdle DEF JobSound
    <3>5. TilesTyped'
      BY <1>4, <1>6, <2>5, <3>1, JobIsIdle DEF TilesSound, TilesTyped
    <3> QED BY <2>6, <2>7, <3>1, <3>3, <3>4, <3>5 DEF HeapInv, TilesSound
  <2> QED BY <2>8, <2>9
<1> QED BY <1>7, <1>8

-----------------------------------------------------------------------------
LEMMA CurrentIs ==
  ASSUME NEW f \in BlockSets, TilesSound(f), NEW p \in Nat
  PROVE  /\ Heaps!Header(p).alloc = Uses(header)[p]
         /\ p + Heaps!Header(p).size = Ends(header)[p] /\ Heaps!End(p) = Ends(header)[p]
         /\ Heaps!Header(p).size \in Nat /\ Ends(header)[p] \in Nat
<1>1. HeadersTyped(header)
  BY DEF TilesSound, TilesTyped
<1>2. HeaderIn(header, p) \in [size : Nat, alloc : BOOLEAN]
      /\ Ends(header)[p] = p + HeaderIn(header, p).size
  BY <1>1, HeadersSay
<1>3. Heaps!Header(p) = HeaderIn(header, p)
  BY HeaderIs
<1> QED BY <1>2, <1>3, HeaderIs

LEMMA SkipSound ==
  ASSUME NEW f \in BlockSets, TilesSound(f), status = "ok", Heaps!SkipAllocated
  PROVE  HeapInv'
<1>1. PICK i, p : i = cursor.free /\ p = job.current
  OBVIOUS
<1>2. /\ job.stage = "freed" /\ Heaps!Header(p).alloc /\ Heaps!GoOn(Heaps!End(p) + 1)
      /\ UNCHANGED <<heaps, header, brk, held>>
  BY <1>1 DEF Heaps!SkipAllocated
<1>3. SearchesHeap(f, i) /\ Searched(f) /\ AtBlock(f)
  BY <1>1, <1>2, Searches DEF TilesSound, JobSound
<1>4. PICK B, E, A, S, F : /\ B = f[i] /\ E = Ends(header) /\ A = Uses(header)
                           /\ S = heaps[i].start /\ F = Top(heaps, i)
  OBVIOUS
<1>5. /\ S \in Nat /\ F \in Nat /\ E \in EndType /\ A \in [Nat -> BOOLEAN]
      /\ Tiling(B, S, F, E) /\ p \in B /\ p \in Nat /\ Small(B, E, A, p, job.size)
      /\ job.size \in Nat
  BY <1>1, <1>3, <1>4 DEF SearchesHeap, AtBlock
<1>6. PICK next : next = E[p] + 1
  OBVIOUS
<1>7. A[p] /\ Heaps!End(p) + 1 = next /\ next \in Nat
  BY <1>2, <1>4, <1>5, <1>6, CurrentIs DEF EndType
<1>8. Small(B, E, A, next, job.size)
  BY <1>5, <1>6, <1>7, SmallSkips
<1>9. next < F => next \in B
  BY <1>5, <1>6, <1>7 DEF Tiling, EndType
<1>10. GoingOn(f, next)
  BY <1>1, <1>2, <1>3, <1>4, <1>8, <1>9 DEF GoingOn, TilesSound, TilesTyped, Searched
<1> QED BY <1>2, <1>7, <1>10, GoOnSound

LEMMA MeetFreedSound ==
  ASSUME NEW f \in BlockSets, TilesSound(f), status = "ok", Heaps!MeetFreed
  PROVE  HeapInv'
<1>1. PICK i, p, n : i = cursor.free /\ p = job.current /\ n = Heaps!Header(p).size
  OBVIOUS
<1>2. /\ job.stage = "freed" /\ ~Heaps!Header(p).alloc
      /\ job' = [job EXCEPT !.stage = "merge", !.possible = n]
      /\ UNCHANGED <<heaps, header, cursor, brk, held, refused, status>>
  BY <1>1 DEF Heaps!MeetFreed
<1>3. SearchesHeap(f, i) /\ Searched(f) /\ AtBlock(f)
  BY <1>1, <1>2, Searches DEF TilesSound, JobSound
<1>4. p \in f[i] /\ p \in Nat
  BY <1>1, <1>3 DEF SearchesHeap, AtBlock
<1>5. ~Uses(header)[p] /\ p + n = Ends(header)[p] /\ n \in Nat
  BY <1>1, <1>2, <1>4, CurrentIs
<1>6. RunFrom(f[i], Ends(header), Uses(header), p, n)
  <2>1. FreeBehind(f[i], Uses(header), p, p)
    <3>1. \A r \in f[i] : r \in Nat
      BY <1>3 DEF SearchesHeap
    <3> QED BY <1>4, <3>1 DEF FreeBehind
  <2> QED BY <1>4, <1>5, <2>1 DEF RunFrom
<1>7. /\ job' \in JobType /\ job'.stage = "merge" /\ job'.current = p /\ job'.possible = n
      /\ job'.last = job.last /\ job'.size = job.size /\ job'.given = job.given
      /\ job'.request = job.request
  BY <1>1, <1>2, <1>5 DEF TilesSound, TilesTyped, JobType
<1>8. AtBlock(f)'
  BY <1>1, <1>2, <1>3, <1>7 DEF AtBlock
<1>9. Searched(f)'
  <2>1. \A j : Passed(j)' <=> Passed(j)
    BY <1>2, <1>7 DEF Passed
  <2> QED BY <1>2, <1>3, <1>7, <2>1 DEF Searched
<1>10. JobSound(f)'
  BY <1>1, <1>2, <1>5, <1>6, <1>7, <1>8, <1>9 DEF TilesSound, JobSound
<1>11. TilesTyped' /\ HeapsApart(heaps', brk') /\ CursorSound'
       /\ Filled(heaps', Ends(header'), f) /\ HeldSound(f, Ends(header'), Uses(header'), held')
  BY <1>2, <1>7 DEF TilesSound, TilesTyped, CursorSound
<1>12. RefusalSound(f)'
  BY <1>2 DEF TilesSound, RefusalSound
<1> QED BY <1>2, <1>10, <1>11, <1>12 DEF HeapInv, TilesSound

-----------------------------------------------------------------------------
LEMMA HeapOfIs ==
  ASSUME NEW f \in BlockSets, TilesSound(f), NEW i \in Heaps!Slot, NEW p \in f[i], p < Top(heaps, i)
  PROVE  Heaps!HeapOf(p) = i
<1>1. /\ heaps \in HeapsType /\ HeapsApart(heaps, brk) /\ Filled(heaps, Ends(header), f)
  BY DEF TilesSound, TilesTyped
<1>2. p \in Nat /\ heaps[i].start < p
  BY <1>1, BlocksWithin DEF Within
<1>3. Heaps!is_in_heap(i, p)
  BY <1>1, <1>2, SlotTyped, HeapsAre DEF Heaps!is_in_heap
<1>4. ASSUME NEW j \in Heaps!Slot, Heaps!is_in_heap(j, p), j # i
      PROVE  FALSE
  <2>1. heaps[j].start \in Nat /\ Top(heaps, j) \in Nat
    BY <1>1, SlotTyped
  <2>2. Within(heaps, j, p)
    BY <1>2, <1>4, <2>1, HeapsAre DEF Heaps!is_in_heap, Within
  <2>3. ~Within(heaps, j, p)
    BY <1>1, <1>4, Elsewhere
  <2> QED BY <2>2, <2>3
<1> QED BY <1>3, <1>4 DEF Heaps!HeapOf

(* The block that realloc is to enlarge, and its heap.                     *)
ResizesAt(f, i) ==
  /\ i \in Heaps!Slot /\ job.current \in f[i] /\ job.current \in Nat /\ job.current < Top(heaps, i)
  /\ Heaps!HeapOf(job.current) = i /\ Uses(header)[job.current]
  /\ \/ Front(heaps, i) < job.current + job.size
     \/ RunFrom(f[i], Ends(header), Uses(header), job.current, job.possible)
  /\ heaps[i].start \in Nat /\ Front(heaps, i) \in Nat /\ Top(heaps, i) \in Nat
  /\ Front(heaps, i) <= Top(heaps, i)
  /\ Tiling(f[i], heaps[i].start, Front(heaps, i), Ends(header))
  /\ Ends(header) \in EndType /\ Uses(header) \in [Nat -> BOOLEAN]

LEMMA Resizes ==
  ASSUME NEW f \in BlockSets, TilesSound(f), job.stage = "resize"
  PROVE  \E i : ResizesAt(f, i)
<1>1. Resizing(f)
  BY DEF TilesSound, JobSound
<1>2. PICK p : p = job.current
  OBVIOUS
<1>3. PICK i \in Heaps!Slot :
         /\ p \in f[i]
         /\ \/ Front(heaps, i) < job.current + job.size
            \/ RunFrom(f[i], Ends(header), Uses(header), job.current, job.possible)
  BY <1>1, <1>2 DEF Resizing
<1>4. PICK b \in held : p = b[1]
  BY <1>1, <1>2 DEF Resizing
<1>5. /\ heaps \in HeapsType /\ HeapsApart(heaps, brk) /\ Filled(heaps, Ends(header), f)
      /\ HeadersTyped(header) /\ b \in Nat \X Nat
  BY DEF TilesSound, TilesTyped
<1>6. Ends(header) \in EndType /\ Uses(header) \in [Nat -> BOOLEAN]
  BY <1>5, HeadersSay
<1>7. p \in Nat /\ Front(heaps, i) <= Top(heaps, i)
  BY <1>3, <1>5, BlocksWithin
<1>8. heaps[i].start \in Nat /\ Front(heaps, i) \in Nat /\ Top(heaps, i) \in Nat
  BY <1>5, SlotTyped
<1>9. Tiling(f[i], heaps[i].start, Front(heaps, i), Ends(header))
  BY <1>5 DEF Filled
<1>10. Uses(header)[p] /\ b[2] # 0 /\ b[1] + b[2] <= Ends(header)[p]
  BY <1>4 DEF TilesSound, HeldSound
<1>11. p < Top(heaps, i)
  <2>1. Ends(header)[p] <= Front(heaps, i) /\ Ends(header)[p] \in Nat
    BY <1>3, <1>6, <1>7, <1>9 DEF Tiling, EndType
  <2> QED BY <1>4, <1>5, <1>7, <1>8, <1>10, <2>1
<1>12. Heaps!HeapOf(p) = i
  BY <1>3, <1>11, HeapOfIs
<1>13. ResizesAt(f, i)
  BY <1>2, <1>3, <1>6, <1>7, <1>8, <1>9, <1>10, <1>11, <1>12 DEF ResizesAt
<1> QED BY <1>13

LEMMA MergeSound ==
  ASSUME NEW f \in BlockSets, TilesSound(f), status = "ok", Heaps!Merge
  PROVE  HeapInv'
<1>1. PICK p, n, m, t : /\ p = job.current /\ n = job.possible /\ t = job.size
                        /\ m = Heaps!Header(p + n + 1).size
  OBVIOUS
<1>2. /\ job.stage \in {"merge", "resize"}
      /\ n < t /\ p + n < Top(heaps, Heaps!JobHeap) /\ ~Heaps!Header(p + n + 1).alloc
      /\ job' = [job EXCEPT !.possible = n + m + 1]
      /\ UNCHANGED <<heaps, header, cursor, brk, held, refused, status>>
  BY <1>1, HeapsAre DEF Heaps!Merge, Heaps!Merging, Heaps!MoreToMerge, Heaps!Reach
<1>3. p \in Nat /\ n \in Nat /\ t \in Nat /\ p + n + 1 \in Nat /\ job \in JobType
  BY <1>1 DEF TilesSound, TilesTyped, JobType
<1>4. /\ m \in Nat /\ Ends(header)[p + n + 1] = p + (n + m + 1) /\ ~Uses(header)[p + n + 1]
  BY <1>1, <1>2, <1>3, CurrentIs
<1>5. /\ job' \in JobType /\ job'.stage = job.stage /\ job'.current = p
      /\ job'.possible = n + m + 1
      /\ job'.last = job.last /\ job'.size = t /\ job'.given = job.given
      /\ job'.request = job.request
  <2>1. n + m + 1 \in Nat BY <1>3, <1>4
  <2> QED BY <1>1, <1>2, <1>3, <2>1 DEF JobType
<1>6. ASSUME NEW B, NEW S \in Nat, NEW F \in Nat, NEW E \in EndType, Tiling(B, S, F, E),
             NEW A \in [Nat -> BOOLEAN], p \in B, RunFrom(B, E, A, p, n), p + n # F,
             E = Ends(header), A = Uses(header)
      PROVE  RunFrom(B, E, A, p, n + m + 1)
  <2>1. PICK q \in B : p <= q /\ E[q] = p + n /\ FreeBehind(B, A, p, q)
    BY <1>6 DEF RunFrom
  <2>2. E[q] # F /\ ~A[E[q] + 1]
    BY <1>4, <1>6, <2>1
  <2>3. E[q] + 1 \in B /\ p <= E[q] + 1 /\ FreeBehind(B, A, p, E[q] + 1)
    BY <1>6, <2>1, <2>2, RunGrows
  <2>4. E[E[q] + 1] = p + (n + m + 1)
    BY <1>4, <1>6, <2>1
  <2> QED BY <2>3, <2>4 DEF RunFrom
<1>7. ASSUME job.stage = "merge"
      PROVE  JobSound(f)'
  <2>1. PICK i : i = cursor.free
    OBVIOUS
  <2>2. SearchesHeap(f, i) /\ Searched(f) /\ AtBlock(f)
        /\ ~Uses(header)[p] /\ RunFrom(f[i], Ends(header), Uses(header), p, n)
    BY <1>1, <1>7, <2>1, Searches DEF TilesSound, JobSound
  <2>3. p + n # Top(heaps, i)
    BY <1>2, <1>3, <1>7, <2>1, <2>2 DEF Heaps!JobHeap, SearchesHeap
  <2>4. RunFrom(f[i], Ends(header), Uses(header), p, n + m + 1)
    BY <1>1, <1>6, <2>1, <2>2, <2>3 DEF SearchesHeap, AtBlock
  <2>5. AtBlock(f)'
    BY <1>1, <1>2, <1>5, <2>2 DEF AtBlock
  <2>6. Searched(f)'
    <3>1. \A j : Passed(j)' <=> Passed(j)
      BY <1>2, <1>5 DEF Passed
    <3> QED BY <1>1, <1>2, <1>5, <2>2, <3>1 DEF Searched
  <2> QED BY <1>1, <1>2, <1>5, <1>7, <2>1, <2>2, <2>4, <2>5, <2>6 DEF TilesSound, JobSound
<1>8. ASSUME job.stage = "resize"
      PROVE  JobSound(f)'
  <2>1. PICK i : ResizesAt(f, i)
    BY <1>8, Resizes
  <2>2. Heaps!JobHeap = i
    BY <1>8, <2>1 DEF Heaps!JobHeap, ResizesAt
  <2>3. \/ Front(heaps, i) < p + t
        \/ RunFrom(f[i], Ends(header), Uses(header), p, n + m + 1)
    <3>1. CASE Front(heaps, i) < p + t
      BY <3>1
    <3>2. CASE RunFrom(f[i], Ends(header), Uses(header), p, n) /\ p + n = Front(heaps, i)
      BY <1>2, <1>3, <3>2
    <3>3. CASE RunFrom(f[i], Ends(header), Uses(header), p, n) /\ p + n # Front(heaps, i)
      BY <1>1, <1>6, <2>1, <3>3 DEF ResizesAt
    <3> QED BY <1>1, <2>1, <3>1, <3>2, <3>3 DEF ResizesAt
  <2>4. Resizing(f)'
    <3>1. \E b \in held : job.given = {b} /\ p = b[1]
      BY <1>1, <1>8 DEF TilesSound, JobSound, Resizing
    <3>2. i \in Heaps!Slot /\ p \in f[i]
      BY <1>1, <2>1 DEF ResizesAt
    <3> QED BY <1>2, <1>5, <2>3, <3>1, <3>2 DEF Resizing
  <2> QED BY <1>1, <1>2, <1>5, <1>8, <2>4 DEF TilesSound, JobSound
<1>9. JobSound(f)'
  BY <1>2, <1>7, <1>8
<1>10. TilesTyped' /\ HeapsApart(heaps', brk') /\ CursorSound'
       /\ Filled(heaps', Ends(header'), f) /\ HeldSound(f, Ends(header'), Uses(header'), held')
  BY <1>2, <1>5 DEF TilesSound, TilesTyped, CursorSound
<1>11. RefusalSound(f)'
  BY <1>2 DEF TilesSound, RefusalSound
<1> QED BY <1>2, <1>9, <1>10, <1>11 DEF HeapInv, TilesSound

-----------------------------------------------------------------------------
(* The first n units of the free blocks behind p become its block, and     *)
(* what is left of them another, free one.                                 *)
CutOut(i, f, h, p, n, g) ==
  /\ HeadersTyped(h) /\ Filled(heaps, Ends(h), g)
  /\ SameUsed({p}, f, Ends(header), Uses(header), g, Ends(h), Uses(h))
  /\ Uses(h)[p] /\ Ends(h)[p] = p + n /\ p \in g[i]

LEMMA CombinedExactly ==
  ASSUME NEW p \in Nat, NEW n \in Nat
  PROVE  Heaps!Combined(p, n, n) = Heaps!WithHeader(header, p, n, TRUE)
<1>1. ~(n < n) OBVIOUS
<1> QED BY <1>1 DEF Heaps!Combined

IsCombined(h, x, y, s) == h = Heaps!WithHeader(x, y, s, FALSE)

LEMMA CombinedMore ==
  ASSUME NEW p \in Nat, NEW k \in Nat, NEW n \in Nat, n < k, NEW x, NEW y \in Nat, NEW s \in Nat,
         NEW h, h = Heaps!Combined(p, k, n),
         x = Heaps!WithHeader(header, p, n, TRUE), y = p + n + 1, s = k - n - 1
  PROVE  IsCombined(h, x, y, s)
<1>1. ~(k < n) /\ k # n OBVIOUS
<1> QED BY <1>1 DEF Heaps!Combined, Heaps!Remainder, IsCombined

LEMMA CutsOut ==
  ASSUME NEW f \in BlockSets, TilesSound(f), NEW i \in Heaps!Slot, NEW p \in f[i], NEW k \in Nat,
         RunFrom(f[i], Ends(header), Uses(header), p, k), NEW n \in Nat, n <= k,
         NEW h, h = Heaps!Combined(p, k, n)
  PROVE  \E g \in BlockSets : CutOut(i, f, h, p, n, g)
<1>1. /\ heaps \in HeapsType /\ HeadersTyped(header)
      /\ HeapsApart(heaps, brk) /\ Filled(heaps, Ends(header), f)
  BY DEF TilesSound, TilesTyped
<1>2. PICK E, A, S, F, B : /\ E = Ends(header) /\ A = Uses(header)
                           /\ S = heaps[i].start /\ F = Front(heaps, i) /\ B = f[i]
  OBVIOUS
<1>3. /\ E \in EndType /\ A \in [Nat -> BOOLEAN] /\ S \in Nat /\ F \in Nat
      /\ Tiling(B, S, F, E) /\ Filled(heaps, E, f) /\ B \in SUBSET Nat
  BY <1>1, <1>2, HeadersSay, SlotTyped DEF Filled, BlockSets
<1>4. PICK q \in B : p <= q /\ E[q] = p + k /\ FreeBehind(B, A, p, q)
  BY <1>2 DEF RunFrom
<1>5. /\ p \in Nat /\ p # 0 /\ Within(heaps, i, p) /\ F <= Top(heaps, i) /\ Top(heaps, i) \in Nat
      /\ S < p
  BY <1>1, <1>2, BlocksWithin, SlotTyped DEF Within
<1>6. q \in Nat /\ E[q] <= F /\ p \in B
  BY <1>2, <1>3, <1>4 DEF Tiling
<1>7. PICK e \in Nat : e = p + n
  BY <1>5
<1>8. p <= e /\ e <= E[q] /\ (e = E[q] <=> n = k)
  BY <1>4, <1>5, <1>7
<1>9. PICK D, G, C : D = Left2(B, E, p, e, q) /\ G = Ends(h) /\ C = Uses(h)
  OBVIOUS
<1>10. /\ Tiling(D, S, F, Cut2(E, p, e, q))
       /\ e # E[q] => e + 1 \notin Joined(B, p, q)
  BY <1>3, <1>4, <1>6, <1>8, <1>9, TilingTake
<1>11. /\ HeadersTyped(h) /\ G = Cut2(E, p, e, q)
       /\ C = IF e = E[q] THEN [A EXCEPT ![p] = TRUE]
              ELSE [A EXCEPT ![p] = TRUE, ![e + 1] = FALSE]
  <2>1. PICK x : x = Heaps!WithHeader(header, p, n, TRUE)
    OBVIOUS
  <2>2. Written(header, x, p, n, TRUE)
    BY <1>1, <1>5, <2>1, HeaderWritten
  <2>3. HeadersTyped(x) /\ Ends(x) = [E EXCEPT ![p] = e] /\ Uses(x) = [A EXCEPT ![p] = TRUE]
    BY <1>2, <1>7, <2>2 DEF Written
  <2>4. CASE n = k
    <3>1. h = x
      BY <1>5, <2>1, <2>4, CombinedExactly
    <3> QED BY <1>8, <1>9, <2>3, <2>4, <3>1 DEF Cut2
  <2>5. CASE n # k
    <3>1. PICK y, s : y = e + 1 /\ s = k - n - 1
      OBVIOUS
    <3>2. y \in Nat /\ y # 0 /\ s \in Nat /\ y + s = E[q]
      BY <1>4, <1>5, <1>7, <2>5, <3>1
    <3>3. h = Heaps!WithHeader(x, y, s, FALSE)
      <4>1. n < k /\ y = p + n + 1 /\ s = k - n - 1
        BY <1>5, <1>7, <2>5, <3>1
      <4>2. p \in Nat /\ y \in Nat /\ s \in Nat
        BY <1>5, <3>2
      <4>3. IsCombined(h, x, y, s)
        BY <2>1, <4>1, <4>2, CombinedMore
      <4> QED BY <4>3 DEF IsCombined
    <3>4. Written(x, h, y, s, FALSE)
      BY <2>3, <3>2, <3>3, HeaderWritten
    <3>5. HeadersTyped(h) /\ Ends(h) = [Ends(x) EXCEPT ![y] = E[q]] /\ Uses(h) = [Uses(x) EXCEPT ![y] = FALSE]
      BY <3>2, <3>4 DEF Written
    <3>6. G = [E EXCEPT ![p] = e, ![y] = E[q]] /\ C = [A EXCEPT ![p] = TRUE, ![y] = FALSE]
      BY <1>9, <2>3, <3>5
    <3> QED BY <1>8, <2>5, <3>1, <3>5, <3>6 DEF Cut2
  <2> QED BY <2>4, <2>5
<1>12. G \in EndType
  <2>1. HeadersTyped(h) BY <1>11
  <2> QED BY <1>9, <2>1, HeadersSay
<1>13. /\ \A r \in Nat : r # p /\ (e = E[q] \/ r # e + 1) => G[r] = E[r] /\ C[r] = A[r]
       /\ G[p] = e /\ C[p] /\ (e # E[q] => ~C[e + 1])
  <2>1. e + 1 \in Nat /\ e + 1 # p
    BY <1>5, <1>8
  <2>2. CASE e = E[q]
    BY <1>3, <1>5, <1>11, <2>2 DEF Cut2, EndType
  <2>3. CASE e # E[q]
    BY <1>3, <1>5, <1>11, <2>1, <2>3 DEF Cut2, EndType
  <2> QED BY <2>2, <2>3
<1>14. OnlyWithin(heaps, i, E, A, G, C)
  <2>1. e # E[q] => Within(heaps, i, e + 1)
    <3>1. S = heaps[i].start /\ S \in Nat /\ E[q] \in Nat
      BY <1>2, <1>3, <1>6 DEF EndType
    <3> QED BY <1>3, <1>5, <1>6, <1>8, <3>1 DEF Within
  <2> QED BY <1>5, <1>13, <2>1 DEF OnlyWithin
<1>15. D \in SUBSET Nat /\ p \in D
  <2>1. p \in D
    BY <1>5, <1>6, <1>9 DEF Left2, Joined
  <2>2. D \subseteq Nat
    <3>1. Joined(B, p, q) \subseteq Nat BY <1>3 DEF Joined
    <3>2. e + 1 \in Nat OBVIOUS
    <3> QED BY <1>9, <3>1, <3>2 DEF Left2
  <2> QED BY <2>1, <2>2
<1>16. PICK g : g = [f EXCEPT ![i] = D]
  OBVIOUS
<1>17. g \in BlockSets /\ p \in g[i]
  BY <1>15, <1>16 DEF BlockSets
<1>18. Tiling(D, heaps[i].start, Front(heaps, i), G)
  BY <1>2, <1>10, <1>11
<1>19. Filled(heaps, G, g)
  BY <1>1, <1>3, <1>12, <1>14, <1>15, <1>16, <1>18, OneChanges
<1>20. SameElsewhere(f, i, E, A, G, C)
  BY <1>1, <1>3, <1>12, <1>14, <1>15, <1>16, <1>18, OneChanges
<1>21. \A r \in B : r \in Nat /\ (r <= p \/ q < r \/ ~A[r])
  BY <1>3, <1>4, <1>5, <1>6 DEF FreeBehind
<1>22. \A r \in D \ {p} : C[r] => A[r] /\ r \in B
  BY <1>9, <1>13, <1>21 DEF Left2, Joined
<1>23. \A r \in B \ {p} : A[r] => C[r] /\ G[r] = E[r] /\ r \in D
  BY <1>9, <1>10, <1>13, <1>21 DEF Left2, Joined
<1>24. SameUsed({p}, f, E, A, g, G, C)
  BY <1>2, <1>15, <1>16, <1>20, <1>22, <1>23, OneUsesTheSame
<1>25. CutOut(i, f, h, p, n, g)
  BY <1>2, <1>7, <1>9, <1>11, <1>13, <1>17, <1>19, <1>24 DEF CutOut
<1> QED BY <1>17, <1>25

LEMMA TakeFreedSound ==
  ASSUME NEW f \in BlockSets, TilesSound(f), status = "ok", Heaps!TakeFreed
  PROVE  HeapInv'
<1>1. PICK i, p, k, n : i = cursor.free /\ p = job.current /\ k = job.possible /\ n = job.size
  OBVIOUS
<1>2. PICK h : h = Heaps!Combined(p, k, n)
  OBVIOUS
<1>3. /\ job.stage = "merge" /\ k >= n /\ Heaps!Return(p, h)
      /\ UNCHANGED <<heaps, cursor, brk, status>>
  BY <1>1, <1>2 DEF Heaps!TakeFreed, Heaps!MergeEnds
<1>4. /\ SearchesHeap(f, i) /\ p \in f[i] /\ ~Uses(header)[p]
      /\ RunFrom(f[i], Ends(header), Uses(header), p, k)
  BY <1>1, <1>3, Searches DEF TilesSound, JobSound, AtBlock
<1>5. k \in Nat /\ n \in Nat /\ n <= k /\ i \in Heaps!Slot /\ p \in Nat
  BY <1>1, <1>3, <1>4 DEF SearchesHeap, TilesSound, TilesTyped, JobType
<1>6. PICK g \in BlockSets : CutOut(i, f, h, p, n, g)
  BY <1>2, <1>4, <1>5, CutsOut
<1>7. \A b \in held : b[1] # p
  BY <1>4 DEF TilesSound, HeldSound
<1>8. /\ heaps' \in HeapsType /\ HeapsApart(heaps', brk') /\ CursorSound'
      /\ cursor' = cursor /\ brk' = brk
  BY <1>3 DEF TilesSound, TilesTyped, CursorSound
<1>9. /\ HeadersTyped(h) /\ Filled(heaps', Ends(h), g)
      /\ SameUsed({p}, f, Ends(header), Uses(header), g, Ends(h), Uses(h))
      /\ Uses(h)[p] /\ \E j \in Heaps!Slot : p \in g[j]
  BY <1>3, <1>5, <1>6 DEF CutOut
<1>10. p + job.size <= Ends(h)[p]
  BY <1>1, <1>5, <1>6 DEF CutOut
<1>11. TilesSound(g)'
  BY <1>3, <1>5, <1>7, <1>8, <1>9, <1>10, ReturnSound
<1> QED BY <1>3, <1>11 DEF HeapInv

LEMMA TooSmallSound ==
  ASSUME NEW f \in BlockSets, TilesSound(f), status = "ok", Heaps!TooSmall
  PROVE  HeapInv'
<1>1. PICK i, p, k, n : i = cursor.free /\ p = job.current /\ k = job.possible /\ n = job.size
  OBVIOUS
<1>2. PICK h : h = Heaps!WithHeader(header, p, k, FALSE)
  OBVIOUS
<1>3. /\ job.stage = "merge" /\ k < n /\ header' = h /\ Heaps!GoOn(p + k + 1)
      /\ ~(p + k < Top(heaps, i) /\ ~Heaps!Header(p + k + 1).alloc)
      /\ UNCHANGED <<heaps, brk, held>>
  BY <1>1, <1>2, HeapsAre DEF Heaps!TooSmall, Heaps!MergeEnds, Heaps!Combined, Heaps!Reach,
     Heaps!MoreToMerge, Heaps!JobHeap
<1>4. /\ SearchesHeap(f, i) /\ Searched(f) /\ AtBlock(f) /\ p \in f[i] /\ ~Uses(header)[p]
      /\ RunFrom(f[i], Ends(header), Uses(header), p, k)
  BY <1>1, <1>3, Searches DEF TilesSound, JobSound, AtBlock
<1>5. PICK B, E, A, S, F : /\ B = f[i] /\ E = Ends(header) /\ A = Uses(header)
                           /\ S = heaps[i].start /\ F = Top(heaps, i)
  OBVIOUS
<1>6. /\ S \in Nat /\ F \in Nat /\ E \in EndType /\ A \in [Nat -> BOOLEAN]
      /\ Tiling(B, S, F, E) /\ p \in B /\ p \in Nat /\ Small(B, E, A, p, n) /\ B \subseteq Nat
      /\ n \in Nat /\ k \in Nat /\ i \in Heaps!Slot /\ F = Front(heaps, i) /\ ~A[p]
  BY <1>1, <1>4, <1>5 DEF SearchesHeap, AtBlock, TilesSound, TilesTyped, JobType
<1>7. PICK q \in B : p <= q /\ E[q] = p + k /\ FreeBehind(B, A, p, q)
  BY <1>4, <1>5 DEF RunFrom
<1>8. q \in Nat /\ E[q] \in Nat /\ E[q] <= F
  BY <1>6, <1>7 DEF Tiling
<1>9. E[q] # F => A[E[q] + 1]
  <2>1. Heaps!Header(p + k + 1).alloc = A[E[q] + 1]
    BY <1>5, <1>6, <1>7, CurrentIs
  <2> QED BY <1>3, <1>5, <1>6, <1>7, <1>8, <2>1
<1>10. /\ heaps \in HeapsType /\ HeapsApart(heaps, brk) /\ Filled(heaps, E, f)
       /\ HeadersTyped(header) /\ held \in SUBSET (Nat \X Nat) /\ HeldSound(f, E, A, held)
  BY <1>5 DEF TilesSound, TilesTyped
<1>11. p # 0 /\ Within(heaps, i, p)
  BY <1>5, <1>6, <1>10, BlocksWithin
<1>12. PICK G, C, D : G = Ends(h) /\ C = Uses(h) /\ D = Joined(B, p, q)
  OBVIOUS
<1>13. HeadersTyped(h) /\ G = [E EXCEPT ![p] = E[q]] /\ C = [A EXCEPT ![p] = FALSE]
  <2>1. Written(header, h, p, k, FALSE)
    BY <1>2, <1>6, <1>10, <1>11, HeaderWritten
  <2> QED BY <1>5, <1>7, <1>12, <2>1 DEF Written
<1>14. G \in EndType /\ C \in [Nat -> BOOLEAN] /\ C = A
  <2>1. G \in EndType /\ C \in [Nat -> BOOLEAN]
    <3>1. HeadersTyped(h) BY <1>13
    <3> QED BY <1>12, <3>1, HeadersSay
  <2>2. C = A
    BY <1>6, <1>13
  <2> QED BY <2>1, <2>2
<1>15. \A r \in Nat : r # p => G[r] = E[r]
  BY <1>6, <1>13 DEF EndType
<1>16. OnlyWithin(heaps, i, E, A, G, C)
  BY <1>11, <1>14, <1>15 DEF OnlyWithin
<1>17. D \in SUBSET Nat /\ p \in D /\ \A t : t \in D <=> t \in B /\ (t <= p \/ q < t)
  <2>1. \A t : t \in D <=> t \in B /\ (t <= p \/ q < t)
    BY <1>12 DEF Joined
  <2>2. p \in D
    BY <1>6, <2>1
  <2>3. D \in SUBSET Nat
    BY <1>6, <2>1
  <2> QED BY <2>1, <2>2, <2>3
<1>18. Tiling(D, S, F, G)
  <2>1. Tiling(Joined(B, p, q), S, F, Longer(E, p, q))
    BY <1>6, <1>7, TilingMerge
  <2> QED BY <1>12, <1>13, <2>1 DEF Longer
<1>19. PICK g : g = [f EXCEPT ![i] = D]
  OBVIOUS
<1>20. g \in BlockSets /\ g[i] = D /\ \A j \in Heaps!Slot : j # i => g[j] = f[j]
  BY <1>6, <1>17, <1>19 DEF BlockSets
<1>21. Tiling(D, heaps[i].start, Front(heaps, i), G)
  BY <1>5, <1>6, <1>18
<1>22. Filled(heaps, G, g)
  BY <1>6, <1>10, <1>14, <1>16, <1>17, <1>19, <1>21, OneChanges
<1>23. SameElsewhere(f, i, E, A, G, C)
  BY <1>6, <1>10, <1>14, <1>16, <1>17, <1>19, <1>21, OneChanges
<1>24. HeldSound(g, G, C, held)
  <2>1. \A r \in B : r \in Nat /\ (A[r] => r # p /\ (r < p \/ q < r))
    BY <1>6, <1>7, <1>8 DEF FreeBehind
  <2>2. \A r \in D \ {} : C[r] => A[r] /\ r \in f[i]
    BY <1>5, <1>14, <1>17
  <2>3. \A r \in f[i] \ {} : A[r] => C[r] /\ G[r] = E[r] /\ r \in D
    BY <1>5, <1>6, <1>14, <1>15, <1>17, <2>1
  <2>4. SameUsed({}, f, E, A, g, G, C)
    BY <1>6, <1>17, <1>19, <1>23, <2>2, <2>3, OneUsesTheSame
  <2> QED BY <1>10, <2>4, HeldKept
<1>25. PICK next : next = E[q] + 1
  OBVIOUS
<1>26. Small(D, G, C, next, n)
  <2>1. E[q] - p < n
    BY <1>3, <1>6, <1>7
  <2>2. Small(Joined(B, p, q), Longer(E, p, q), A, E[q] + 1, n)
    BY <1>6, <1>7, <1>9, <2>1, SmallMerged
  <2> QED BY <1>12, <1>13, <1>14, <1>25, <2>2 DEF Longer
<1>27. next < F => next \in D
  <2>1. G[p] = E[q]
    BY <1>6, <1>13 DEF EndType
  <2> QED BY <1>8, <1>17, <1>18, <1>25, <2>1 DEF Tiling
<1>28. ASSUME NEW j \in Heaps!Slot, Passed(j), NEW m \in Nat
       PROVE  Small(g[j], G, C, m, n)
  <2>1. cursor.free \in Nat /\ job.last \in Nat
    BY DEF TilesSound, TilesTyped, JobType
  <2>2. j # i
    BY <1>1, <1>28, <2>1 DEF Passed
  <2>3. Small(f[j], E, A, m, n)
    BY <1>1, <1>4, <1>5, <1>28 DEF Searched
  <2>4. \A r \in f[j] : G[r] = E[r] /\ C[r] = A[r]
    BY <1>23, <2>2 DEF SameElsewhere
  <2>5. Small(f[j], G, C, m, n)
    BY <2>3, <2>4, SmallSame
  <2> QED BY <1>20, <2>2, <2>5
<1>29. GoingOn(g, next)
  <2>1. HeadersTyped(header') /\ Ends(header') = G /\ Uses(header') = C
    BY <1>3, <1>12, <1>13
  <2>2. Small(g[cursor.free], G, C, next, job.size)
    BY <1>1, <1>20, <1>26
  <2>3. next < Top(heaps, cursor.free) => next \in g[cursor.free]
    BY <1>1, <1>5, <1>20, <1>27
  <2>4. \A j \in Heaps!Slot : Passed(j) => \A m \in Nat : Small(g[j], G, C, m, job.size)
    BY <1>1, <1>28
  <2> QED BY <1>22, <1>24, <2>1, <2>2, <2>3, <2>4 DEF GoingOn
<1>30. Heaps!GoOn(next) /\ next \in Nat
  BY <1>3, <1>7, <1>8, <1>25
<1> QED BY <1>3, <1>20, <1>29, <1>30, GoOnSound

(* A block of the contract has another size, in place.                     *)
LEMMA ReplaceSound ==
  ASSUME NEW f \in BlockSets, NEW g \in BlockSets, TilesSound(f), NEW b \in held, NEW n \in Nat \ {0},
         HeadersTyped(header'), held' = (held \ {b}) \cup {<<b[1], n>>},
         job' = Heaps!Idle, refused' = 0, cursor' = cursor, brk' = brk,
         SameUsed({b[1]}, f, Ends(header), Uses(header), g, Ends(header'), Uses(header')),
         Uses(header')[b[1]], b[1] + n <= Ends(header')[b[1]], \E k \in Heaps!Slot : b[1] \in g[k],
         heaps' \in HeapsType, HeapsApart(heaps', brk'), CursorSound',
         Filled(heaps', Ends(header'), g)
  PROVE  TilesSound(g)'
<1>1. held \in SUBSET (Nat \X Nat) /\ b[1] \in Nat /\ brk \in Nat /\ Page <= brk
      /\ cursor \in [actual : Nat, active : Nat, free : Nat]
  BY DEF TilesSound, TilesTyped
<1>2. held' \in SUBSET (Nat \X Nat)
  BY <1>1
<1>3. HeldSound(g, Ends(header'), Uses(header'), (held \ {b}) \cup {<<b[1], n>>})
  BY <1>1, HeldResized DEF TilesSound
<1>4. HeldSound(g, Ends(header'), Uses(header'), held')
  BY <1>3
<1>5. JobSound(g)'
  BY JobIsIdle DEF JobSound
<1>6. TilesTyped'
  BY <1>1, <1>2, JobIsIdle DEF TilesTyped
<1>7. RefusalSound(g)'
  BY DEF RefusalSound
<1> QED BY <1>4, <1>5, <1>6, <1>7 DEF TilesSound

LEMMA ResizedSound ==
  ASSUME NEW f \in BlockSets, TilesSound(f), status = "ok", Heaps!Resized
  PROVE  HeapInv'
<1>1. PICK p, k, n, r : p = job.current /\ k = job.possible /\ n = job.size /\ r = job.request
  OBVIOUS
<1>2. PICK h : h = Heaps!Combined(p, k, n)
  OBVIOUS
<1>3. /\ job.stage = "resize" /\ k >= n /\ header' = h
      /\ held' = (held \ job.given) \cup {<<p, r>>} /\ job' = Heaps!Idle
      /\ status' = IF p + n > Front(heaps, Heaps!JobHeap) THEN "overrun" ELSE "ok"
      /\ UNCHANGED <<heaps, cursor, brk, refused>>
  BY <1>1, <1>2, HeapsAre DEF Heaps!Resized, Heaps!MergeEnds
<1>4. k \in Nat /\ n \in Nat /\ n <= k /\ r \in Nat \ {0} /\ r <= n /\ refused = 0
  BY <1>1, <1>3 DEF TilesSound, TilesTyped, JobType, JobSound
<1>5. PICK b \in held : job.given = {b} /\ p = b[1]
  BY <1>1, <1>3 DEF TilesSound, JobSound, Resizing
<1>6. PICK i : ResizesAt(f, i)
  BY <1>3, Resizes
<1>7. i \in Heaps!Slot /\ p \in f[i] /\ p \in Nat /\ Heaps!JobHeap = i /\ Front(heaps, i) \in Nat
      /\ (Front(heaps, i) < p + n \/ RunFrom(f[i], Ends(header), Uses(header), p, k))
  BY <1>1, <1>3, <1>6 DEF ResizesAt, Heaps!JobHeap
<1>8. CASE p + n > Front(heaps, i)
  <2>1. status' = "overrun"
    BY <1>3, <1>7, <1>8
  <2> QED BY <2>1 DEF HeapInv
<1>9. CASE ~(p + n > Front(heaps, i))
  <2>1. status' = "ok" /\ RunFrom(f[i], Ends(header), Uses(header), p, k)
    BY <1>3, <1>4, <1>7, <1>9
  <2>2. PICK g \in BlockSets : CutOut(i, f, h, p, n, g)
    BY <1>2, <1>4, <1>7, <2>1, CutsOut
  <2>3. /\ HeadersTyped(header') /\ Filled(heaps', Ends(header'), g)
        /\ SameUsed({b[1]}, f, Ends(header), Uses(header), g, Ends(header'), Uses(header'))
        /\ Uses(header')[b[1]] /\ \E j \in Heaps!Slot : b[1] \in g[j]
    BY <1>3, <1>5, <1>7, <2>2 DEF CutOut
  <2>4. b[1] + r <= Ends(header')[b[1]]
    BY <1>3, <1>4, <1>5, <1>7, <2>2 DEF CutOut
  <2>5. /\ heaps' \in HeapsType /\ HeapsApart(heaps', brk') /\ CursorSound'
        /\ cursor' = cursor /\ brk' = brk /\ refused' = 0 /\ job' = Heaps!Idle
        /\ held' = (held \ {b}) \cup {<<b[1], r>>}
    BY <1>3, <1>4, <1>5 DEF TilesSound, TilesTyped, CursorSound
  <2>6. TilesSound(g)'
    BY <1>4, <2>3, <2>4, <2>5, ReplaceSound
  <2> QED BY <2>1, <2>6 DEF HeapInv
<1> QED BY <1>8, <1>9

LEMMA NotResizedSound ==
  ASSUME NEW f \in BlockSets, TilesSound(f), status = "ok", Heaps!NotResized
  PROVE  HeapInv'
<1>1. /\ job.stage = "resize" /\ Heaps!Enter(job.size, job.request, FALSE, job.given)
      /\ refused' = refused
  BY DEF Heaps!NotResized, Heaps!MergeEnds
<1>2. PICK n, r, G : n = job.size /\ r = job.request /\ G = job.given
  OBVIOUS
<1>3. /\ n \in Nat /\ r \in Nat \ {0} /\ r <= n /\ refused = 0 /\ G \in SUBSET held
      /\ Heaps!Enter(n, r, FALSE, G) /\ refused' = 0
  BY <1>1, <1>2 DEF TilesSound, TilesTyped, JobType, JobSound
<1>4. r <= Heaps!adjust_to_mem_block(n)
  BY <1>3, Adjusted
<1>5. TilesSound(f)'
  BY <1>3, <1>4, EnterSound
<1>6. status' = "ok"
  BY <1>3 DEF Heaps!Enter
<1> QED BY <1>5, <1>6 DEF HeapInv

LEMMA MallocSound ==
  ASSUME NEW f \in BlockSets, TilesSound(f), status = "ok",
         NEW n \in HeapRequest, NEW clear \in BOOLEAN, Heaps!malloc(n, clear)
  PROVE  HeapInv'
<1>1. job = Heaps!Idle /\ refused' = 0 /\ n \in Nat
  BY HeapAssumption DEF Heaps!malloc, Heaps!Call
<1>2. CASE n # 0
  <2>1. Heaps!Enter(n, n, clear, {}) /\ {} \in SUBSET held /\ n \in Nat \ {0}
    BY <1>1, <1>2 DEF Heaps!malloc
  <2>2. n <= Heaps!adjust_to_mem_block(n)
    BY <1>1, Adjusted
  <2>3. TilesSound(f)'
    BY <1>1, <2>1, <2>2, EnterSound
  <2>4. status' = "ok"
    BY <2>1 DEF Heaps!Enter
  <2> QED BY <2>3, <2>4 DEF HeapInv
<1>3. CASE n = 0
  <2>1. UNCHANGED <<heaps, header, cursor, brk, held, job, status>>
    BY <1>3 DEF Heaps!malloc
  <2>2. JobSound(f)'
    BY <1>1, <2>1, JobIsIdle DEF TilesSound, JobSound
  <2>3. RefusalSound(f)'
    BY <1>1 DEF RefusalSound
  <2>4. TilesTyped' /\ HeapsApart(heaps', brk') /\ CursorSound'
        /\ Filled(heaps', Ends(header'), f) /\ HeldSound(f, Ends(header'), Uses(header'), held')
    BY <1>1, <2>1 DEF TilesSound, TilesTyped, CursorSound
  <2> QED BY <2>1, <2>2, <2>3, <2>4 DEF HeapInv, TilesSound
<1> QED BY <1>2, <1>3

LEMMA FreeSound ==
  ASSUME NEW f \in BlockSets, TilesSound(f), status = "ok", NEW b \in held, Heaps!free(b)
  PROVE  HeapInv'
<1>1. /\ job = Heaps!Idle /\ refused' = 0
      /\ header' = Heaps!Freed(header, {b}) /\ held' = held \ {b}
      /\ UNCHANGED <<heaps, cursor, brk, job, status>>
  BY DEF Heaps!free, Heaps!Call
<1>2. /\ HeadersTyped(header) /\ held \in SUBSET (Nat \X Nat)
      /\ HeldSound(f, Ends(header), Uses(header), held)
  BY DEF TilesSound, TilesTyped
<1>3. PICK G : G = {b}
  OBVIOUS
<1>4. G \in SUBSET held /\ G \in SUBSET (Nat \X Nat) /\ header' = Heaps!Freed(header, G) /\ held' = held \ G
  BY <1>1, <1>2, <1>3
<1>5. /\ HeadersTyped(header') /\ Ends(header') = Ends(header)
      /\ Uses(header') = [p \in Nat |-> Uses(header)[p] /\ \A c \in G : c[1] # p]
  BY <1>2, <1>4, HeadersFreed
<1>6. HeldSound(f, Ends(header), [p \in Nat |-> Uses(header)[p] /\ \A c \in G : c[1] # p], held \ G)
  BY <1>2, <1>4, HeldFreed
<1>7. HeldSound(f, Ends(header'), Uses(header'), held')
  BY <1>4, <1>5, <1>6
<1>8. JobSound(f)'
  BY <1>1, JobIsIdle DEF JobSound
<1>9. RefusalSound(f)'
  BY <1>1 DEF RefusalSound
<1>10. TilesTyped'
  BY <1>1, <1>2, <1>5 DEF TilesSound, TilesTyped
<1>11. HeapsApart(heaps', brk') /\ CursorSound' /\ Filled(heaps', Ends(header'), f)
  BY <1>1, <1>5 DEF TilesSound, CursorSound
<1> QED BY <1>1, <1>7, <1>8, <1>9, <1>10, <1>11 DEF HeapInv, TilesSound

LEMMA SbrkSound ==
  ASSUME NEW f \in BlockSets, TilesSound(f), status = "ok", NEW n \in SbrkSize, Heaps!sbrk(n)
  PROVE  HeapInv'
<1>1. PICK k : k = Heaps!RoundUp(n)
  OBVIOUS
<1>2. /\ job = Heaps!Idle /\ brk' = brk + k
      /\ UNCHANGED <<heaps, header, cursor, held, job, refused, status>>
  BY <1>1 DEF Heaps!sbrk
<1>3. k \in Nat
  <2>1. n \in Nat
    BY HeapAssumption
  <2>2. (n + 1) \div 2 \in Nat
    BY <2>1
  <2> QED BY <1>1, <2>2 DEF Heaps!RoundUp
<1>4. /\ heaps \in HeapsType /\ brk \in Nat /\ Page \in Nat /\ Page <= brk /\ HeapsApart(heaps, brk)
  BY HeapAssumption DEF TilesSound, TilesTyped
<1>5. \A i \in Heaps!Slot : Top(heaps, i) \in Nat
  BY <1>4, SlotTyped
<1>6. HeapsApart(heaps', brk') /\ brk' \in Nat /\ Page <= brk'
  BY <1>2, <1>3, <1>4, <1>5 DEF HeapsApart
<1>7. JobSound(f)'
  BY <1>2 DEF TilesSound, JobSound, Searched, Passed, AtBlock, Resizing
<1>8. RefusalSound(f)'
  BY <1>2 DEF TilesSound, RefusalSound
<1>9. TilesTyped'
  BY <1>2, <1>6 DEF TilesSound, TilesTyped
<1>10. /\ CursorSound' /\ Filled(heaps', Ends(header'), f)
       /\ HeldSound(f, Ends(header'), Uses(header'), held')
  BY <1>2 DEF TilesSound, CursorSound
<1> QED BY <1>2, <1>6, <1>7, <1>8, <1>9, <1>10 DEF HeapInv, TilesSound

-----------------------------------------------------------------------------
(* A block of the contract, in heap i.                                     *)
HeldAt(f, i, b) ==
  /\ i \in Heaps!Slot /\ b[1] \in f[i] /\ b[1] \in Nat /\ b[1] # 0 /\ b[2] \in Nat
  /\ Heaps!HeapOf(b[1]) = i /\ Uses(header)[b[1]]
  /\ heaps[i].start \in Nat /\ Front(heaps, i) \in Nat /\ Top(heaps, i) \in Nat
  /\ heaps[i].start < b[1] /\ Front(heaps, i) <= Top(heaps, i)
  /\ Tiling(f[i], heaps[i].start, Front(heaps, i), Ends(header)) /\ f[i] \in SUBSET Nat
  /\ Ends(header) \in EndType /\ Uses(header) \in [Nat -> BOOLEAN]
  /\ Heaps!Header(b[1]).size \in Nat /\ Ends(header)[b[1]] = b[1] + Heaps!Header(b[1]).size
  /\ Heaps!End(b[1]) = Ends(header)[b[1]]

LEMMA HoldsAt ==
  ASSUME NEW f \in BlockSets, TilesSound(f), NEW b \in held
  PROVE  \E i : HeldAt(f, i, b)
<1>1. /\ heaps \in HeapsType /\ HeapsApart(heaps, brk) /\ Filled(heaps, Ends(header), f)
      /\ HeadersTyped(header) /\ b \in Nat \X Nat
  BY DEF TilesSound, TilesTyped
<1>2. PICK i \in Heaps!Slot : b[1] \in f[i]
  BY DEF TilesSound, HeldSound
<1>3. PICK p : p = b[1]
  OBVIOUS
<1>4. Ends(header) \in EndType /\ Uses(header) \in [Nat -> BOOLEAN]
  <2>1. HeadersTyped(header) BY <1>1
  <2> QED BY <2>1, HeadersSay
<1>5. Uses(header)[p] /\ b[2] # 0 /\ p + b[2] <= Ends(header)[p] /\ p \in f[i]
  BY <1>2, <1>3 DEF TilesSound, HeldSound
<1>6. p \in Nat /\ p # 0 /\ Front(heaps, i) <= Top(heaps, i) /\ Within(heaps, i, p)
  BY <1>1, <1>5, BlocksWithin
<1>7. heaps[i].start \in Nat /\ Front(heaps, i) \in Nat /\ Top(heaps, i) \in Nat
  BY <1>1, SlotTyped
<1>8. Tiling(f[i], heaps[i].start, Front(heaps, i), Ends(header)) /\ f[i] \in SUBSET Nat
  BY <1>1 DEF Filled, BlockSets
<1>9. Ends(header)[p] <= Front(heaps, i) /\ Ends(header)[p] \in Nat
  BY <1>4, <1>5, <1>6, <1>8 DEF Tiling, EndType
<1>10. b[2] \in Nat /\ p < Top(heaps, i)
  BY <1>1, <1>5, <1>6, <1>7, <1>9
<1>11. Heaps!HeapOf(p) = i
  BY <1>5, <1>10, HeapOfIs
<1>12. Heaps!Header(p).size \in Nat /\ Ends(header)[p] = p + Heaps!Header(p).size
       /\ Heaps!End(p) = Ends(header)[p]
  BY <1>6, CurrentIs, HeaderIs
<1>13. HeldAt(f, i, b)
  BY <1>3, <1>4, <1>5, <1>6, <1>7, <1>8, <1>10, <1>11, <1>12 DEF HeldAt, Within
<1> QED BY <1>13

(* What realloc does to block b, which is at p in heap i with o units, if  *)
(* it needs n.                                                             *)
Moves(b, m) == Heaps!Enter(m, m, FALSE, {b})
Enlarges(b, p, o, n, m) ==
  /\ job' = [Heaps!Idle EXCEPT !.stage = "resize", !.size = n, !.request = m,
               !.given = {b}, !.current = p, !.possible = o]
  /\ UNCHANGED <<heaps, header, cursor, brk, held, status>>
Keeps(b, p, o, n, m) ==
  /\ o > n /\ header' = Heaps!WithHeader(header, p + n + 1, o - n, FALSE)
  /\ held' = (held \ {b}) \cup {<<p, m>>}
  /\ UNCHANGED <<heaps, cursor, brk, job, status>>
Extends(b, p, i, o, n, m) ==
  /\ o <= n /\ (o = n \/ Heaps!End(p) = Front(heaps, i)) /\ p <= Top(heaps, i) - n
  /\ header' = Heaps!WithHeader(header, p, n, TRUE)
  /\ heaps' = [heaps EXCEPT ![i].offset = @ + n - o]
  /\ held' = (held \ {b}) \cup {<<p, m>>}
  /\ UNCHANGED <<cursor, brk, job, status>>

LEMMA ReallocDoes ==
  ASSUME NEW f \in BlockSets, NEW b \in held, NEW m \in HeapRequest, Heaps!realloc(b, m),
         NEW i, HeldAt(f, i, b), NEW n, n = Heaps!adjust_to_mem_block(m),
         NEW o, o = Heaps!Header(b[1]).size
  PROVE  /\ job = Heaps!Idle /\ refused' = 0 /\ m \in Nat \ {0} /\ n \in Nat /\ m <= n /\ o \in Nat
         /\ \/ Moves(b, m) \/ Enlarges(b, b[1], o, n, m)
            \/ Keeps(b, b[1], o, n, m) \/ Extends(b, b[1], i, o, n, m)
<1>1. m \in Nat \ {0} /\ n \in Nat /\ m <= n /\ o \in Nat
  BY Adjusted, HeapAssumption DEF Heaps!realloc, HeldAt
<1>2. job = Heaps!Idle /\ refused' = 0
  BY DEF Heaps!realloc, Heaps!Call
<1>3. PICK p : p = b[1]
  OBVIOUS
<1>4. /\ Heaps!HeapOf(p) = i /\ Heaps!EndOf(i) = Top(heaps, i) /\ Heaps!Frontier(i) = Front(heaps, i)
      /\ Top(heaps, i) \in Nat /\ p \in Nat
  BY <1>3, HeapsAre DEF HeldAt
<1>5. IF Heaps!End(p) > Top(heaps, i) \/ p > Top(heaps, i) - n THEN Heaps!Enter(m, m, FALSE, {b})
      ELSE IF o < n /\ Heaps!End(p) # Front(heaps, i)
      THEN Enlarges(b, p, o, n, m)
      ELSE /\ header' = IF o > n THEN Heaps!WithHeader(header, p + n + 1, o - n, FALSE)
                        ELSE Heaps!WithHeader(header, p, n, TRUE)
           /\ heaps' = IF o > n THEN heaps ELSE [heaps EXCEPT ![i].offset = @ + n - o]
           /\ held' = (held \ {b}) \cup {<<p, m>>}
           /\ UNCHANGED <<cursor, brk, job, status>>
  BY <1>3, <1>4 DEF Heaps!realloc, Enlarges
<1>6. \/ Moves(b, m) \/ Enlarges(b, p, o, n, m)
      \/ Keeps(b, p, o, n, m) \/ Extends(b, p, i, o, n, m)
  <2>1. CASE Heaps!End(p) > Top(heaps, i) \/ p > Top(heaps, i) - n
    BY <1>5, <2>1 DEF Moves
  <2>2. CASE ~(Heaps!End(p) > Top(heaps, i) \/ p > Top(heaps, i) - n)
    <3>1. CASE o < n /\ Heaps!End(p) # Front(heaps, i)
      BY <1>5, <2>2, <3>1
    <3>2. CASE o > n
      BY <1>1, <1>5, <2>2, <3>2 DEF Keeps
    <3>3. CASE o <= n /\ ~(o < n /\ Heaps!End(p) # Front(heaps, i))
      <4>1. ~(o > n) /\ (o = n \/ Heaps!End(p) = Front(heaps, i)) /\ p <= Top(heaps, i) - n
        BY <1>1, <1>4, <2>2, <3>3
      <4> QED BY <1>5, <2>2, <3>3, <4>1 DEF Extends
    <3> QED BY <1>1, <3>1, <3>2, <3>3
  <2> QED BY <2>1, <2>2
<1> QED BY <1>1, <1>2, <1>3, <1>6

LEMMA EnlargesSound ==
  ASSUME NEW f \in BlockSets, TilesSound(f), status = "ok", NEW b \in held, NEW i, HeldAt(f, i, b),
         NEW m \in Nat \ {0}, NEW n \in Nat, m <= n, NEW o, o = Heaps!Header(b[1]).size,
         Enlarges(b, b[1], o, n, m), refused' = 0
  PROVE  HeapInv'
<1>1. PICK p : p = b[1]
  OBVIOUS
<1>2. /\ p \in f[i] /\ p \in Nat /\ i \in Heaps!Slot /\ o \in Nat /\ Ends(header)[p] = p + o
      /\ f[i] \in SUBSET Nat
  BY <1>1 DEF HeldAt
<1>3. {b} \in SUBSET (Nat \X Nat)
  BY DEF TilesSound, TilesTyped
<1>4. /\ job' = [Heaps!Idle EXCEPT !.stage = "resize", !.size = n, !.request = m,
                   !.given = {b}, !.current = p, !.possible = o]
      /\ UNCHANGED <<heaps, header, cursor, brk, held, status>>
  BY <1>1 DEF Enlarges
<1>5. /\ job' \in JobType /\ job'.stage = "resize" /\ job'.size = n /\ job'.request = m
      /\ job'.given = {b} /\ job'.current = p /\ job'.possible = o
  BY <1>2, <1>3, <1>4, JobIsIdle DEF JobType
<1>6. RunFrom(f[i], Ends(header), Uses(header), p, o)
  <2>1. FreeBehind(f[i], Uses(header), p, p)
    BY <1>2 DEF FreeBehind
  <2> QED BY <1>2, <2>1 DEF RunFrom
<1>7. Resizing(f)'
  <2>1. \E c \in held' : job'.given = {c} /\ job'.current = c[1]
    BY <1>1, <1>4, <1>5
  <2>2. p \in f[i] /\ RunFrom(f[i], Ends(header'), Uses(header'), p, o)
    BY <1>2, <1>4, <1>6
  <2> QED BY <1>2, <1>5, <2>1, <2>2 DEF Resizing
<1>8. JobSound(f)'
  BY <1>4, <1>5, <1>7 DEF JobSound
<1>9. RefusalSound(f)'
  BY DEF RefusalSound
<1>10. TilesTyped' /\ HeapsApart(heaps', brk') /\ CursorSound'
       /\ Filled(heaps', Ends(header'), f) /\ HeldSound(f, Ends(header'), Uses(header'), held')
  BY <1>4, <1>5 DEF TilesSound, TilesTyped, CursorSound
<1> QED BY <1>4, <1>8, <1>9, <1>10 DEF HeapInv, TilesSound

(* The header that is written inside the block leads nobody anywhere.      *)
LEMMA KeepsSound ==
  ASSUME NEW f \in BlockSets, TilesSound(f), status = "ok", NEW b \in held, NEW i, HeldAt(f, i, b),
         NEW m \in Nat \ {0}, NEW n \in Nat, m <= n, NEW o, o = Heaps!Header(b[1]).size,
         Keeps(b, b[1], o, n, m), job = Heaps!Idle, refused' = 0
  PROVE  HeapInv'
<1>1. PICK p, x, s, E, A, B : p = b[1] /\ x = p + n + 1 /\ s = o - n /\ E = Ends(header) /\ A = Uses(header)
                              /\ B = f[i]
  OBVIOUS
<1>2. /\ p \in B /\ p \in Nat /\ i \in Heaps!Slot /\ o \in Nat /\ E[p] = p + o
      /\ B \in SUBSET Nat /\ E \in EndType /\ A \in [Nat -> BOOLEAN] /\ A[p]
      /\ Tiling(B, heaps[i].start, Front(heaps, i), E) /\ heaps[i].start \in Nat
      /\ Front(heaps, i) \in Nat /\ Top(heaps, i) \in Nat /\ heaps[i].start < p
      /\ Front(heaps, i) <= Top(heaps, i)
  BY <1>1 DEF HeldAt
<1>3. /\ o > n /\ header' = Heaps!WithHeader(header, x, s, FALSE)
      /\ held' = (held \ {b}) \cup {<<b[1], m>>}
      /\ UNCHANGED <<heaps, cursor, brk, job, status>>
  BY <1>1 DEF Keeps
<1>4. x \in Nat /\ x # 0 /\ s \in Nat /\ p < x /\ x <= E[p]
  BY <1>1, <1>2, <1>3
<1>5. /\ heaps \in HeapsType /\ HeadersTyped(header)
      /\ HeapsApart(heaps, brk) /\ Filled(heaps, E, f)
  BY <1>1 DEF TilesSound, TilesTyped
<1>6. PICK h, G, C : h = header' /\ G = Ends(h) /\ C = Uses(h)
  OBVIOUS
<1>7. HeadersTyped(h) /\ G = [E EXCEPT ![x] = x + s] /\ C = [A EXCEPT ![x] = FALSE]
  <2>1. Written(header, h, x, s, FALSE)
    BY <1>3, <1>4, <1>5, <1>6, HeaderWritten
  <2> QED BY <1>1, <1>6, <2>1 DEF Written
<1>8. G \in EndType
  <2>1. HeadersTyped(h) BY <1>7
  <2> QED BY <1>6, <2>1, HeadersSay
<1>9. \A r \in Nat : r # x => G[r] = E[r] /\ C[r] = A[r]
  BY <1>2, <1>7 DEF EndType
<1>10. Within(heaps, i, x)
  <2>1. E[p] <= Front(heaps, i)
    BY <1>2 DEF Tiling
  <2> QED BY <1>2, <1>4, <2>1 DEF Within
<1>11. OnlyWithin(heaps, i, E, A, G, C)
  BY <1>9, <1>10 DEF OnlyWithin
<1>12. x \notin B
  BY <1>2, <1>4 DEF Tiling
<1>13. \A r \in B : r \in Nat /\ G[r] = E[r] /\ C[r] = A[r]
  BY <1>2, <1>9, <1>12
<1>14. Tiling(B, heaps[i].start, Front(heaps, i), G)
  BY <1>2, <1>8, <1>13, TilingSame
<1>15. PICK g : g = [f EXCEPT ![i] = B]
  OBVIOUS
<1>16. g \in BlockSets /\ g[i] = B
  BY <1>1, <1>2, <1>15 DEF BlockSets
<1>17. Filled(heaps, G, g)
  BY <1>2, <1>5, <1>8, <1>11, <1>14, <1>15, OneChanges
<1>18. SameElsewhere(f, i, E, A, G, C)
  BY <1>2, <1>5, <1>8, <1>11, <1>14, <1>15, OneChanges
<1>19. SameUsed({p}, f, E, A, g, G, C)
  <2>1. \A r \in B \ {p} : C[r] => A[r] /\ r \in f[i]
    BY <1>1, <1>13
  <2>2. \A r \in f[i] \ {p} : A[r] => C[r] /\ G[r] = E[r] /\ r \in B
    BY <1>1, <1>13
  <2> QED BY <1>2, <1>15, <1>18, <2>1, <2>2, OneUsesTheSame
<1>20. C[p] /\ p + m <= G[p]
  <2>1. C[p] /\ G[p] = p + o
    BY <1>2, <1>13
  <2> QED BY <1>2, <1>3, <2>1
<1>21. /\ HeadersTyped(header') /\ Filled(heaps', Ends(header'), g)
       /\ SameUsed({b[1]}, f, Ends(header), Uses(header), g, Ends(header'), Uses(header'))
       /\ Uses(header')[b[1]] /\ b[1] + m <= Ends(header')[b[1]]
  BY <1>1, <1>3, <1>6, <1>7, <1>17, <1>19, <1>20
<1>22. \E j \in Heaps!Slot : b[1] \in g[j]
  BY <1>1, <1>2, <1>16
<1>23. /\ heaps' \in HeapsType /\ HeapsApart(heaps', brk') /\ CursorSound'
       /\ cursor' = cursor /\ brk' = brk /\ job' = Heaps!Idle
  BY <1>3, <1>5 DEF TilesSound, CursorSound
<1>24. TilesSound(g)'
  BY <1>3, <1>16, <1>21, <1>22, <1>23, ReplaceSound
<1> QED BY <1>3, <1>16, <1>24 DEF HeapInv

LEMMA ExtendsSound ==
  ASSUME NEW f \in BlockSets, TilesSound(f), status = "ok", NEW b \in held, NEW i, HeldAt(f, i, b),
         NEW m \in Nat \ {0}, NEW n \in Nat, m <= n, NEW o, o = Heaps!Header(b[1]).size,
         Extends(b, b[1], i, o, n, m), job = Heaps!Idle, refused' = 0
  PROVE  HeapInv'
<1>1. PICK p, E, A, B, S, F : p = b[1] /\ E = Ends(header) /\ A = Uses(header) /\ B = f[i]
                              /\ S = heaps[i].start /\ F = Front(heaps, i)
  OBVIOUS
<1>2. /\ p \in B /\ p \in Nat /\ p # 0 /\ i \in Heaps!Slot /\ o \in Nat /\ E[p] = p + o
      /\ B \in SUBSET Nat /\ E \in EndType /\ A \in [Nat -> BOOLEAN] /\ A[p]
      /\ Tiling(B, S, F, E) /\ S \in Nat /\ F \in Nat /\ Top(heaps, i) \in Nat /\ S < p
      /\ F <= Top(heaps, i) /\ Heaps!End(p) = E[p]
  BY <1>1 DEF HeldAt
<1>3. /\ o <= n /\ (o = n \/ E[p] = F) /\ p <= Top(heaps, i) - n
      /\ header' = Heaps!WithHeader(header, p, n, TRUE)
      /\ heaps' = [heaps EXCEPT ![i].offset = @ + n - o]
      /\ held' = (held \ {b}) \cup {<<b[1], m>>}
      /\ UNCHANGED <<cursor, brk, job, status>>
  BY <1>1, <1>2 DEF Extends
<1>4. /\ heaps \in HeapsType /\ HeadersTyped(header)
      /\ HeapsApart(heaps, brk) /\ Filled(heaps, E, f) /\ cursor.active \in Nat
  BY <1>1 DEF TilesSound, TilesTyped
<1>5. /\ S = heaps[i].start /\ heaps[i].size \in Nat /\ heaps[i].offset \in Nat
      /\ F = S + heaps[i].offset /\ Top(heaps, i) = S + heaps[i].size
  BY <1>1, <1>2, <1>4, SlotTyped DEF Front, Top
<1>6. /\ heaps' \in HeapsType
      /\ heaps'[i].start = S /\ heaps'[i].size = heaps[i].size
      /\ heaps'[i].offset = heaps[i].offset + n - o
      /\ \A j \in Heaps!Slot : j # i => heaps'[j] = heaps[j]
  <2>1. heaps[i] \in [start : Nat, size : Nat, offset : Nat]
    BY <1>2, <1>4 DEF HeapsType
  <2>2. heaps[i].offset + n - o \in Nat
    BY <1>2, <1>3, <1>5
  <2> QED BY <1>2, <1>3, <1>4, <1>5, <2>1, <2>2 DEF HeapsType
<1>7. heaps'[i].offset <= heaps[i].size /\ heaps[i].offset <= heaps'[i].offset
  <2>1. heaps[i].offset <= heaps[i].size
    BY <1>2, <1>4 DEF HeapsApart
  <2>2. CASE o = n
    BY <1>2, <1>5, <1>6, <2>1, <2>2
  <2>3. CASE E[p] = F
    BY <1>2, <1>3, <1>5, <1>6, <2>3
  <2> QED BY <1>3, <2>2, <2>3
<1>8. PICK h, G, C, D : h = header' /\ G = Ends(h) /\ C = Uses(h) /\ D = Front(heaps', i)
  OBVIOUS
<1>9. HeadersTyped(h) /\ G = [E EXCEPT ![p] = p + n] /\ C = [A EXCEPT ![p] = TRUE]
  <2>1. Written(header, h, p, n, TRUE)
    BY <1>2, <1>3, <1>4, <1>8, HeaderWritten
  <2> QED BY <1>1, <1>8, <2>1 DEF Written
<1>10. G \in EndType
  <2>1. HeadersTyped(h) BY <1>9
  <2> QED BY <1>8, <2>1, HeadersSay
<1>11. /\ \A r \in Nat : r # p => G[r] = E[r] /\ C[r] = A[r]
       /\ G[p] = p + n /\ C[p]
  BY <1>2, <1>9 DEF EndType
<1>12. Within(heaps, i, p)
  BY <1>2, <1>3, <1>5 DEF Within
<1>13. OnlyWithin(heaps, i, E, A, G, C)
  BY <1>11, <1>12 DEF OnlyWithin
<1>14. Tiling(B, S, D, G)
  <2>1. D = F + (n - o)
    BY <1>2, <1>3, <1>5, <1>6, <1>8 DEF Front
  <2>2. CASE o = n
    <3>1. D = F BY <1>2, <2>1, <2>2
    <3>2. \A r \in B : G[r] = E[r]
      BY <1>2, <1>11, <2>2
    <3> QED BY <1>2, <1>10, <3>1, <3>2, TilingSame
  <2>3. CASE E[p] = F
    <3>1. D = p + n /\ D \in Nat /\ F <= D
      BY <1>2, <1>3, <2>1, <2>3
    <3>2. Tiling(B, S, D, [E EXCEPT ![p] = D])
      BY <1>2, <2>3, <3>1, TilingGrows
    <3> QED BY <1>9, <3>1, <3>2
  <2> QED BY <1>3, <2>2, <2>3
<1>15. PICK g, K : g = [f EXCEPT ![i] = B] /\ K = heaps'
  OBVIOUS
<1>16. g \in BlockSets /\ g[i] = B
  BY <1>1, <1>2, <1>15 DEF BlockSets
<1>17. /\ K \in HeapsType /\ Tiling(B, K[i].start, Front(K, i), G)
       /\ \A j \in Heaps!Slot : j # i => K[j].start = heaps[j].start /\ K[j].offset = heaps[j].offset
  BY <1>6, <1>8, <1>14, <1>15
<1>18. Filled(K, G, g)
  BY <1>2, <1>4, <1>10, <1>13, <1>15, <1>17, OneChanges
<1>19. SameElsewhere(f, i, E, A, G, C)
  BY <1>2, <1>4, <1>10, <1>13, <1>15, <1>17, OneChanges
<1>20. SameUsed({p}, f, E, A, g, G, C)
  <2>1. \A r \in B : r \in Nat /\ r \in f[i]
    BY <1>1, <1>2
  <2>2. \A r \in B \ {p} : C[r] => A[r] /\ r \in f[i]
    BY <1>11, <2>1
  <2>3. \A r \in f[i] \ {p} : A[r] => C[r] /\ G[r] = E[r] /\ r \in B
    BY <1>1, <1>11, <2>1
  <2> QED BY <1>2, <1>15, <1>19, <2>2, <2>3, OneUsesTheSame
<1>21. /\ HeadersTyped(header') /\ Filled(heaps', Ends(header'), g)
       /\ SameUsed({b[1]}, f, Ends(header), Uses(header), g, Ends(header'), Uses(header'))
       /\ Uses(header')[b[1]]
  BY <1>1, <1>8, <1>9, <1>11, <1>15, <1>18, <1>20
<1>22. b[1] + m <= Ends(header')[b[1]]
  <2>1. Ends(header')[b[1]] = p + n
    BY <1>1, <1>8, <1>11
  <2> QED BY <1>1, <1>2, <2>1
<1>23. \E j \in Heaps!Slot : b[1] \in g[j]
  BY <1>1, <1>2, <1>16
<1>24. HeapsApart(heaps', brk')
  <2>1. ASSUME NEW j \in Heaps!Slot
        PROVE  /\ heaps'[j].offset <= heaps'[j].size /\ Top(heaps', j) = Top(heaps, j)
               /\ heaps'[j].start = heaps[j].start /\ heaps'[j].size = heaps[j].size
    <3>1. CASE j = i
      BY <1>5, <1>6, <1>7, <3>1 DEF Top
    <3>2. CASE j # i
      BY <1>4, <1>6, <3>2 DEF HeapsApart, Top
    <3> QED BY <3>1, <3>2
  <2> QED BY <1>3, <1>4, <2>1 DEF HeapsApart
<1>25. CursorSound'
  <2>1. ASSUME NEW j \in Heaps!Slot
        PROVE  /\ heaps'[j].start = heaps[j].start
               /\ heaps[j].offset = heaps[j].size => heaps'[j].offset = heaps'[j].size
    <3>1. CASE j = i
      BY <1>2, <1>5, <1>6, <1>7, <3>1
    <3>2. CASE j # i
      BY <1>6, <3>2
    <3> QED BY <3>1, <3>2
  <2> QED BY <1>3, <2>1 DEF TilesSound, CursorSound
<1>26. heaps' \in HeapsType /\ cursor' = cursor /\ brk' = brk /\ job' = Heaps!Idle
  BY <1>3, <1>6
<1>27. TilesSound(g)'
  BY <1>3, <1>16, <1>21, <1>22, <1>23, <1>24, <1>25, <1>26, ReplaceSound
<1> QED BY <1>3, <1>16, <1>27 DEF HeapInv

LEMMA ReallocSound ==
  ASSUME NEW f \in BlockSets, TilesSound(f), status = "ok", NEW b \in held, NEW m \in HeapRequest,
         Heaps!realloc(b, m)
  PROVE  HeapInv'
<1>1. PICK i : HeldAt(f, i, b)
  BY HoldsAt
<1>2. PICK n, o : n = Heaps!adjust_to_mem_block(m) /\ o = Heaps!Header(b[1]).size
  OBVIOUS
<1>3. /\ job = Heaps!Idle /\ refused' = 0 /\ m \in Nat \ {0} /\ n \in Nat /\ m <= n /\ o \in Nat
      /\ \/ Moves(b, m) \/ Enlarges(b, b[1], o, n, m)
         \/ Keeps(b, b[1], o, n, m) \/ Extends(b, b[1], i, o, n, m)
  BY <1>1, <1>2, ReallocDoes
<1>4. CASE Moves(b, m)
  <2>1. PICK G : G = {b}
    OBVIOUS
  <2>2. Heaps!Enter(m, m, FALSE, G) /\ G \in SUBSET held /\ m <= Heaps!adjust_to_mem_block(m)
    BY <1>2, <1>3, <1>4, <2>1 DEF Moves
  <2>3. TilesSound(f)'
    BY <1>3, <2>2, EnterSound
  <2>4. status' = "ok"
    BY <2>2 DEF Heaps!Enter
  <2> QED BY <2>3, <2>4 DEF HeapInv
<1>5. CASE Enlarges(b, b[1], o, n, m)
  BY <1>1, <1>2, <1>3, <1>5, EnlargesSound
<1>6. CASE Keeps(b, b[1], o, n, m)
  BY <1>1, <1>2, <1>3, <1>6, KeepsSound
<1>7. CASE Extends(b, b[1], i, o, n, m)
  BY <1>1, <1>2, <1>3, <1>7, ExtendsSound
<1> QED BY <1>3, <1>4, <1>5, <1>6, <1>7

LEMMA HeapInit ==
  ASSUME Heaps!Init
  PROVE  HeapInv
<1> DEFINE f == [i \in Heaps!Slot |-> {}]
<1>1. /\ heaps = [i \in Heaps!Slot |-> [start |-> 0, size |-> 0, offset |-> 0]]
      /\ header = <<>> /\ cursor = [actual |-> 0, active |-> 0, free |-> 0]
      /\ brk = Page /\ held = {} /\ job = Heaps!Idle /\ refused = 0 /\ status = "ok"
  BY DEF Heaps!Init
<1>2. HeadersTyped(header)
  BY <1>1 DEF HeadersTyped
<1>3. TilesTyped
  BY <1>1, <1>2, JobIsIdle, HeapAssumption DEF TilesTyped, HeapsType
<1>4. HeapsApart(heaps, brk)
  BY <1>1, HeapAssumption DEF HeapsApart, Top
<1>5. CursorSound
  BY <1>1, HeapsAre, HeapAssumption DEF CursorSound
<1>6. f \in BlockSets
  BY DEF BlockSets
<1>7. Filled(heaps, Ends(header), f)
  <2>1. ASSUME NEW i \in Heaps!Slot
        PROVE  Tiling(f[i], heaps[i].start, Front(heaps, i), Ends(header))
    <3>1. f[i] = {} /\ heaps[i].start = 0 /\ Front(heaps, i) = 0
      BY <1>1 DEF Front
    <3>2. Tiling({}, 0, 0, Ends(header))
      BY EmptyTiling
    <3> QED BY <3>1, <3>2
  <2> QED BY <2>1 DEF Filled
<1>8. HeldSound(f, Ends(header), Uses(header), held)
  BY <1>1 DEF HeldSound
<1>9. JobSound(f)
  BY <1>1, JobIsIdle DEF JobSound
<1>10. RefusalSound(f)
  BY <1>1 DEF RefusalSound
<1> HIDE DEF f
<1> QED BY <1>1, <1>3, <1>4, <1>5, <1>6, <1>7, <1>8, <1>9, <1>10 DEF HeapInv, TilesSound

LEMMA HeapStep ==
  ASSUME HeapInv, Heaps!Next
  PROVE  HeapInv'
<1>1. status = "ok"
  BY DEF Heaps!Next
<1>2. PICK f \in BlockSets : TilesSound(f)
  BY <1>1 DEF HeapInv
<1>3. CASE Heaps!Turn
  <2>1. CASE Heaps!TakeFromHeap BY <1>1, <1>2, <2>1, TakeFromHeapSound
  <2>2. CASE Heaps!NoMemory BY <1>1, <1>2, <2>2, NoMemorySound
  <2>3. CASE Heaps!expand_memory BY <1>1, <1>2, <2>3, ExpandSound
  <2>4. CASE Heaps!NextHeap BY <1>1, <1>2, <2>4, NextHeapSound
  <2>5. CASE Heaps!SearchHeap BY <1>1, <1>2, <2>5, SearchHeapSound
  <2>6. CASE Heaps!SkipAllocated BY <1>1, <1>2, <2>6, SkipSound
  <2>7. CASE Heaps!MeetFreed BY <1>1, <1>2, <2>7, MeetFreedSound
  <2>8. CASE Heaps!Merge BY <1>1, <1>2, <2>8, MergeSound
  <2>9. CASE Heaps!TakeFreed BY <1>1, <1>2, <2>9, TakeFreedSound
  <2>10. CASE Heaps!TooSmall BY <1>1, <1>2, <2>10, TooSmallSound
  <2>11. CASE Heaps!Resized BY <1>1, <1>2, <2>11, ResizedSound
  <2>12. CASE Heaps!NotResized BY <1>1, <1>2, <2>12, NotResizedSound
  <2> QED BY <1>3, <2>1, <2>2, <2>3, <2>4, <2>5, <2>6, <2>7, <2>8, <2>9, <2>10, <2>11, <2>12
          DEF Heaps!Turn
<1>4. CASE \E n \in HeapRequest, clear \in BOOLEAN : Heaps!malloc(n, clear)
  BY <1>1, <1>2, <1>4, MallocSound
<1>5. CASE \E b \in held : Heaps!free(b) \/ \E m \in HeapRequest : Heaps!realloc(b, m)
  BY <1>1, <1>2, <1>5, FreeSound, ReallocSound
<1>6. CASE \E n \in SbrkSize : Heaps!sbrk(n)
  BY <1>1, <1>2, <1>6, SbrkSound
<1> QED BY <1>3, <1>4, <1>5, <1>6 DEF Heaps!Next

LEMMA HeapStutters ==
  ASSUME HeapInv, UNCHANGED memoryManagerVars
  PROVE  HeapInv'
<1>1. UNCHANGED <<heaps, header, cursor, brk, held, job, refused, status>>
  BY DEF memoryManagerVars
<1>2. CASE status # "ok"
  BY <1>1, <1>2 DEF HeapInv
<1>3. CASE status = "ok"
  <2>1. PICK f \in BlockSets : TilesSound(f)
    BY <1>3 DEF HeapInv
  <2>2. TilesTyped' /\ HeapsApart(heaps', brk') /\ CursorSound'
        /\ Filled(heaps', Ends(header'), f) /\ HeldSound(f, Ends(header'), Uses(header'), held')
    BY <1>1, <2>1 DEF TilesSound, TilesTyped, CursorSound
  <2>3. JobSound(f)'
    BY <1>1, <2>1 DEF TilesSound, JobSound, Searched, Passed, AtBlock, Resizing
  <2>4. RefusalSound(f)'
    BY <1>1, <2>1 DEF TilesSound, RefusalSound
  <2> QED BY <1>1, <1>3, <2>2, <2>3, <2>4 DEF HeapInv, TilesSound
<1> QED BY <1>2, <1>3

-----------------------------------------------------------------------------
(* A heap that has handed out memory ends with a block.                    *)
LEMMA TilingEnds ==
  ASSUME NEW S \in Nat, NEW F \in Nat, NEW E \in EndType, NEW B, Tiling(B, S, F, E), F # S
  PROVE  \E p \in B : E[p] = F
<1>1. B \subseteq (S + 1)..F /\ S + 1 \in B /\ \A p \in B : p \in Nat /\ p <= E[p] /\ E[p] \in Nat
  BY DEF Tiling, EndType
<1> DEFINE X == {F - p : p \in B}
<1>2. X \in SUBSET Nat /\ X # {}
  BY <1>1
<1>3. PICK x \in X : \A y \in X : x <= y
  BY <1>2, LeastNumber
<1>4. PICK p \in B : x = F - p
  BY <1>3
<1>5. \A q \in B : q <= p
  <2>1. ASSUME NEW q \in B PROVE q <= p
    <3>1. F - q \in X OBVIOUS
    <3>2. x <= F - q BY <1>3, <3>1
    <3>3. p \in Nat /\ q \in Nat BY <1>1
    <3> QED BY <1>4, <3>2, <3>3
  <2> QED BY <2>1
<1>6. E[p] # F => E[p] + 1 \in B
  BY DEF Tiling
<1> QED BY <1>1, <1>5, <1>6

(* From header to header, one meets the blocks.                            *)
Walked(g, S, F) ==
  g = [ptr \in 0..F |->
         \/ ptr = S + 1
         \/ \E before \in (S + 1)..(ptr - 1) : Heaps!End(before) + 1 = ptr /\ g[before]]

LEMMA BlocksAreWalked ==
  ASSUME NEW i, NEW S, S = heaps[i].start, NEW F, F = Heaps!Frontier(i)
  PROVE  Heaps!Blocks(i) = {ptr \in (S + 1)..F : (CHOOSE g : Walked(g, S, F))[ptr]}
  BY DEF Heaps!Blocks, Walked

(* What leads to a block of a heap is another one.                         *)
LEMMA OneLeadsToAnother ==
  ASSUME NEW S \in Nat, NEW F \in Nat, NEW B, Tiling(B, S, F, Ends(header)),
         Ends(header) \in EndType, NEW ptr \in 0..F
  PROVE  ptr \in B <=> \/ ptr = S + 1
                       \/ \E before \in (S + 1)..(ptr - 1) :
                            Heaps!End(before) + 1 = ptr /\ before \in B
<1>1. PICK E : E = Ends(header)
  OBVIOUS
<1>2. E \in EndType /\ Tiling(B, S, F, E) /\ \A p \in Nat : Heaps!End(p) = E[p]
  BY <1>1, HeaderIs
<1>3. \A p \in B : p \in Nat /\ S + 1 <= p /\ p <= F /\ E[p] \in Nat /\ p <= E[p]
  BY <1>2 DEF Tiling, EndType
<1>4. ASSUME ptr \in B, ptr # S + 1
      PROVE  \E before \in (S + 1)..(ptr - 1) : Heaps!End(before) + 1 = ptr /\ before \in B
  <2>1. PICK q \in B : E[q] + 1 = ptr
    BY <1>2, <1>4 DEF Tiling
  <2>2. q \in (S + 1)..(ptr - 1) /\ Heaps!End(q) = E[q]
    BY <1>2, <1>3, <2>1
  <2> QED BY <2>1, <2>2
<1>5. ASSUME ptr = S + 1
      PROVE  ptr \in B
  BY <1>2, <1>5 DEF Tiling
<1>6. ASSUME NEW before \in (S + 1)..(ptr - 1), Heaps!End(before) + 1 = ptr, before \in B
      PROVE  ptr \in B
  <2>1. E[before] + 1 = ptr /\ E[before] # F
    BY <1>2, <1>3, <1>6
  <2> QED BY <1>2, <1>6, <2>1 DEF Tiling
<1> QED BY <1>4, <1>5, <1>6

LEMMA WalkMeetsBlocks ==
  ASSUME NEW S \in Nat, NEW F \in Nat, NEW B, Tiling(B, S, F, Ends(header)),
         Ends(header) \in EndType
  PROVE  Walked([ptr \in 0..F |-> ptr \in B], S, F)
<1> DEFINE g == [ptr \in 0..F |-> ptr \in B]
<1>1. \A ptr \in 0..F : ptr \in B <=> \/ ptr = S + 1
                                       \/ \E before \in (S + 1)..(ptr - 1) :
                                            Heaps!End(before) + 1 = ptr /\ before \in B
  BY OneLeadsToAnother
<1>2. \A ptr \in 0..F : \A before \in (S + 1)..(ptr - 1) : g[before] = (before \in B)
  OBVIOUS
<1>3. \A ptr \in 0..F :
        (\E before \in (S + 1)..(ptr - 1) : Heaps!End(before) + 1 = ptr /\ g[before])
        <=> (\E before \in (S + 1)..(ptr - 1) : Heaps!End(before) + 1 = ptr /\ before \in B)
  BY <1>2
<1> DEFINE leads(ptr) ==
             \/ ptr = S + 1
             \/ \E before \in (S + 1)..(ptr - 1) : Heaps!End(before) + 1 = ptr /\ g[before]
<1>4. \A ptr \in 0..F : ptr \in B <=> leads(ptr)
  BY <1>1, <1>3
<1>5. g = [ptr \in 0..F |-> leads(ptr)]
  <2>1. \A ptr \in 0..F : (ptr \in B) = leads(ptr)
    <3>1. \A ptr \in 0..F : (ptr \in B) \in BOOLEAN /\ leads(ptr) \in BOOLEAN
      OBVIOUS
    <3> HIDE DEF leads
    <3> QED BY <1>4, <3>1, Zenon
  <2> HIDE DEF leads
  <2> QED BY <2>1, Zenon
<1> QED BY <1>5 DEF Walked

LEMMA OneWalkOnly ==
  ASSUME NEW S \in Nat, NEW F \in Nat, NEW B, Tiling(B, S, F, Ends(header)),
         Ends(header) \in EndType, NEW g, Walked(g, S, F)
  PROVE  \A ptr \in 0..F : g[ptr] <=> ptr \in B
<1> DEFINE X == {ptr \in 0..F : ~(g[ptr] <=> ptr \in B)}
<1> SUFFICES ASSUME X # {}
             PROVE  FALSE
  OBVIOUS
<1>1. X \in SUBSET Nat
  OBVIOUS
<1>2. PICK n \in X : \A m \in X : n <= m
  BY <1>1, LeastNumber
<1>3. n \in 0..F /\ ~(g[n] <=> n \in B)
  OBVIOUS
<1>4. \A before \in (S + 1)..(n - 1) : g[before] <=> before \in B
  <2>1. ASSUME NEW before \in (S + 1)..(n - 1)
        PROVE  g[before] <=> before \in B
    <3>1. before \in 0..F /\ ~(n <= before)
      BY <1>3
    <3>2. before \notin X
      BY <1>2, <3>1
    <3> QED BY <3>1, <3>2
  <2> QED BY <2>1
<1>5. g[n] <=> \/ n = S + 1
               \/ \E before \in (S + 1)..(n - 1) : Heaps!End(before) + 1 = n /\ g[before]
  BY <1>3 DEF Walked
<1>6. g[n] <=> \/ n = S + 1
               \/ \E before \in (S + 1)..(n - 1) : Heaps!End(before) + 1 = n /\ before \in B
  BY <1>4, <1>5
<1>7. n \in B <=> \/ n = S + 1
                  \/ \E before \in (S + 1)..(n - 1) : Heaps!End(before) + 1 = n /\ before \in B
  BY <1>3, OneLeadsToAnother
<1> QED BY <1>3, <1>6, <1>7

LEMMA BlocksAre ==
  ASSUME NEW f \in BlockSets, TilesSound(f), NEW i \in Heaps!Slot
  PROVE  Heaps!Blocks(i) = f[i]
<1>1. PICK B, S, F : B = f[i] /\ S = heaps[i].start /\ F = Front(heaps, i)
  OBVIOUS
<1>2. /\ heaps \in HeapsType /\ HeadersTyped(header) /\ Tiling(B, S, F, Ends(header))
      /\ F = Heaps!Frontier(i)
  BY <1>1, HeapsAre DEF TilesSound, TilesTyped, Filled
<1>3. Ends(header) \in EndType
  <2>1. HeadersTyped(header) BY <1>2
  <2> QED BY <2>1, HeadersSay
<1>4. S \in Nat /\ F \in Nat
  BY <1>1, <1>2, SlotTyped
<1>5. Heaps!Blocks(i) = {ptr \in (S + 1)..F : (CHOOSE g : Walked(g, S, F))[ptr]}
  BY <1>1, <1>2, BlocksAreWalked
<1>6. PICK w : w = CHOOSE g : Walked(g, S, F)
  OBVIOUS
<1>7. Walked(w, S, F)
  <2>1. Walked([ptr \in 0..F |-> ptr \in B], S, F)
    BY <1>2, <1>3, <1>4, WalkMeetsBlocks
  <2>2. \E g : Walked(g, S, F)
    BY <2>1
  <2> QED BY <1>6, <2>2
<1>8. \A ptr \in 0..F : w[ptr] <=> ptr \in B
  BY <1>2, <1>3, <1>4, <1>7, OneWalkOnly
<1>9. B \subseteq (S + 1)..F
  BY <1>2 DEF Tiling
<1>10. \A ptr \in (S + 1)..F : w[ptr] <=> ptr \in B
  BY <1>4, <1>8
<1>11. {ptr \in (S + 1)..F : w[ptr]} = B
  BY <1>9, <1>10
<1> QED BY <1>1, <1>5, <1>6, <1>11

LEMMA HeapsFilled ==
  ASSUME NEW f \in BlockSets, TilesSound(f), NEW i \in Heaps!Slot
  PROVE  Heaps!HeapIsFilled(i)
<1>1. PICK B, S, F, E : B = f[i] /\ S = heaps[i].start /\ F = Front(heaps, i) /\ E = Ends(header)
  OBVIOUS
<1>2. /\ heaps \in HeapsType /\ HeadersTyped(header) /\ HeapsApart(heaps, brk) /\ Tiling(B, S, F, E)
  BY <1>1 DEF TilesSound, TilesTyped, Filled
<1>3. E \in EndType
  <2>1. HeadersTyped(header) BY <1>2
  <2> QED BY <1>1, <2>1, HeadersSay
<1>4. S \in Nat /\ F \in Nat /\ heaps[i].offset \in Nat /\ F = S + heaps[i].offset
  BY <1>1, <1>2, SlotTyped DEF Front
<1>5. Heaps!Blocks(i) = B /\ Heaps!Frontier(i) = F
  BY <1>1, BlocksAre, HeapsAre
<1>6. \A p \in B : p \in Nat /\ Heaps!End(p) = E[p]
  <2>1. B \subseteq Nat
    BY <1>1 DEF BlockSets
  <2>2. \A p \in Nat : Heaps!End(p) = E[p]
    BY <1>1, HeaderIs
  <2> QED BY <2>1, <2>2
<1>7. heaps[i].offset <= heaps[i].size
  BY <1>2 DEF HeapsApart
<1>8. heaps[i].offset # 0 => \E p \in B : Heaps!End(p) = F
  <2>1. ASSUME F # S
        PROVE  \E p \in B : E[p] = F
    BY <1>2, <1>3, <1>4, <2>1, TilingEnds
  <2> QED BY <1>4, <1>6, <2>1
<1>9. \A p \in B : Heaps!End(p) <= F
  BY <1>2, <1>6 DEF Tiling
<1>10. \A p, q \in B : p < q => Heaps!End(p) < q
  BY <1>2, <1>6 DEF Tiling
<1> QED BY <1>5, <1>7, <1>8, <1>9, <1>10 DEF Heaps!HeapIsFilled

LEMMA HeldInUse ==
  ASSUME NEW f \in BlockSets, TilesSound(f)
  PROVE  Heaps!HeldAreInUse
<1>1. /\ HeldSound(f, Ends(header), Uses(header), held) /\ HeadersTyped(header)
      /\ held \in SUBSET (Nat \X Nat)
  BY DEF TilesSound, TilesTyped
<1>2. \A i \in Heaps!Slot : Heaps!Blocks(i) = f[i] /\ f[i] \in SUBSET Nat
  BY BlocksAre DEF BlockSets
<1>3. \A p \in Nat : Heaps!Header(p).alloc = Uses(header)[p]
  BY HeaderIs
<1>4. ASSUME NEW p
      PROVE  p \in {ptr \in UNION {Heaps!Blocks(i) : i \in Heaps!Slot} : Heaps!Header(ptr).alloc}
             <=> p \in {b[1] : b \in held}
  <2>1. ASSUME NEW i \in Heaps!Slot, p \in Heaps!Blocks(i), Heaps!Header(p).alloc
        PROVE  \E b \in held : b[1] = p
    <3>1. p \in f[i] /\ p \in Nat /\ Uses(header)[p]
      BY <1>2, <1>3, <2>1
    <3> QED BY <1>1, <3>1 DEF HeldSound
  <2>2. ASSUME NEW b \in held, b[1] = p
        PROVE  Heaps!Header(p).alloc /\ \E i \in Heaps!Slot : p \in Heaps!Blocks(i)
    <3>1. Uses(header)[b[1]] /\ \E i \in Heaps!Slot : b[1] \in f[i]
      BY <1>1 DEF HeldSound
    <3> QED BY <1>2, <1>3, <2>2, <3>1
  <2> QED BY <2>1, <2>2
<1>5. {ptr \in UNION {Heaps!Blocks(i) : i \in Heaps!Slot} : Heaps!Header(ptr).alloc}
      = {b[1] : b \in held}
  BY <1>4
<1>6. \A b \in held : b[2] <= Heaps!Header(b[1]).size
  <2>1. ASSUME NEW b \in held
        PROVE  b[2] <= Heaps!Header(b[1]).size
    <3>1. b[1] \in Nat /\ b[2] \in Nat /\ b[1] + b[2] <= Ends(header)[b[1]]
      BY <1>1 DEF HeldSound
    <3>2. PICK p : p = b[1]
      OBVIOUS
    <3>3. p + Heaps!Header(p).size = Ends(header)[p] /\ Heaps!Header(p).size \in Nat
      BY <3>1, <3>2, CurrentIs
    <3> QED BY <3>1, <3>2, <3>3
  <2> QED BY <2>1
<1>7. \A b, c \in held : b[1] = c[1] => b = c
  BY <1>1 DEF HeldSound
<1> QED BY <1>5, <1>6, <1>7 DEF Heaps!HeldAreInUse

LEMMA RefusedRightly ==
  ASSUME NEW f \in BlockSets, TilesSound(f)
  PROVE  Heaps!RefusedForAReason
<1> SUFFICES ASSUME refused # 0, NEW i \in Heaps!Slot, NEW p \in Heaps!Blocks(i), NEW q \in Heaps!Blocks(i)
             PROVE  \/ q < p \/ Heaps!End(q) - p < refused
                    \/ \E r \in Heaps!Blocks(i) : p <= r /\ r <= q /\ Heaps!Header(r).alloc
  BY DEF Heaps!RefusedForAReason
<1>1. Heaps!Blocks(i) = f[i] /\ f[i] \in SUBSET Nat
  BY BlocksAre DEF BlockSets
<1>2. p \in Nat /\ q \in Nat /\ p \in f[i] /\ q \in f[i]
  BY <1>1
<1>3. Small(f[i], Ends(header), Uses(header), p + 1, refused)
  BY <1>2 DEF TilesSound, RefusalSound
<1>4. Heaps!End(q) = Ends(header)[q] /\ \A r \in f[i] : Heaps!Header(r).alloc = Uses(header)[r]
  BY <1>1, <1>2, HeaderIs
<1>5. p < p + 1 /\ (q < p \/ p <= q)
  BY <1>2
<1> QED BY <1>1, <1>2, <1>3, <1>4, <1>5 DEF Small

LEMMA HeapsTiledNow ==
  ASSUME HeapInv
  PROVE  Heaps!HeapsAreTiled
<1>1. ASSUME status = "ok"
      PROVE  (\A i \in Heaps!Slot : Heaps!HeapIsFilled(i)) /\ Heaps!HeldAreInUse
             /\ Heaps!RefusedForAReason
  <2>1. PICK f \in BlockSets : TilesSound(f)
    BY <1>1 DEF HeapInv
  <2> QED BY <2>1, HeapsFilled, HeldInUse, RefusedRightly
<1> QED BY <1>1 DEF HeapInv, Heaps!HeapsAreTiled

(* The heaps of the legacy allocator can be walked from header to header,  *)
(* their blocks neither overlap nor get lost, those in use are the ones of *)
(* the contract, and memory is refused only if no free blocks side by side *)
(* would do (malloc.cpp:50-520).                                           *)
THEOREM HeapsTiled == PartsSpec => []HeapsAreTiled
<1> DEFINE Inv == part = "MemoryManager" => HeapInv
<1>1. PartsInit => Inv
  BY HeapInit DEF PartsInit
<1>2. Inv /\ [PartsNext]_partsVars => Inv'
  <2> SUFFICES ASSUME Inv, [PartsNext]_partsVars, part' = "MemoryManager"
               PROVE  HeapInv'
    OBVIOUS
  <2>1. CASE PartsNext
    <3>1. HeapInv /\ Heaps!Next
      BY <2>1 DEF PartsNext
    <3> QED BY <3>1, HeapStep
  <2>2. CASE UNCHANGED partsVars
    <3>1. HeapInv /\ UNCHANGED memoryManagerVars
      BY <2>2 DEF partsVars
    <3> QED BY <3>1, HeapStutters
  <2> QED BY <2>1, <2>2
<1>3. Inv => HeapsAreTiled
  BY HeapsTiledNow DEF HeapsAreTiled
<1> QED BY <1>1, <1>2, <1>3, PTL DEF PartsSpec
=============================================================================
