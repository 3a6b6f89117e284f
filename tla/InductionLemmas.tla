---------------------------- MODULE InductionLemmas ----------------------------
(***************************************************************************)
(* Inductions over numbers, and what they show of the subsequences the     *)
(* lists of handlers and of mods are cut down to.  An induction goes from  *)
(* the least counterexample: the library's induction theorems need an      *)
(* operator as their parameter, and a least element does not.              *)
(***************************************************************************)
EXTENDS Subsequences, Integers, SequenceTheorems, WellFoundedInduction, TLAPS

\* A set of natural numbers has a least element.
LEMMA LeastNat ==
  ASSUME NEW T \in SUBSET Nat, T # {}
  PROVE  \E n \in T : \A k \in T : n <= k
<1> DEFINE Less == {ss \in Nat \X Nat : ss[1] < ss[2]}
<1>1. OpToRel(<, Nat) = Less  BY DEF OpToRel
<1>2. IsWellFoundedOn(Less, Nat)  BY <1>1, NatLessThanWellFounded
<1>3. \E n \in T : \A k \in T : <<k, n>> \notin Less
  <2> HIDE DEF Less
  <2> QED  BY <1>2, WFMin
<1>4. PICK n \in T : \A k \in T : <<k, n>> \notin Less  BY <1>3
<1>5. ASSUME NEW k \in T PROVE n <= k
  <2>1. ~(k < n)
    <3>1. <<k, n>> \in Nat \X Nat /\ <<k, n>>[1] = k /\ <<k, n>>[2] = n  OBVIOUS
    <3> QED  BY <1>4, <3>1
  <2> QED  BY <2>1
<1> QED  BY <1>4, <1>5

\* A set that has 0, and with a number the next one up to n, has all up to n.
LEMMA UpTo ==
  ASSUME NEW n \in Nat, NEW T, 0 \in T,
         \A k \in 1 .. n : k - 1 \in T => k \in T
  PROVE  0 .. n \subseteq T
<1>1. SUFFICES ASSUME (0 .. n) \ T # {} PROVE FALSE  OBVIOUS
<1> DEFINE U == (0 .. n) \ T
<1>0. U \in SUBSET Nat /\ U # {}  BY <1>1
<1>2. PICK k \in U : \A j \in U : k <= j
  <2> HIDE DEF U
  <2> QED  BY <1>0, LeastNat
<1>3. k \in 1 .. n /\ k - 1 \in 0 .. n  BY <1>2
<1> QED  BY <1>2, <1>3

\* A function that starts with v and goes on by G.
Iterates(f, n, v, G) ==
  f[0] = v /\ \A k \in 1 .. n : f[k] = G[<<k, f[k - 1]>>]

\* There is one, whatever it goes on by.
LEMMA Iteration ==
  ASSUME NEW n \in Nat, NEW V, NEW v \in V, NEW G \in [(1 .. n) \X V -> V]
  PROVE  \E f \in [0 .. n -> V] : Iterates(f, n, v, G)
<1> DEFINE D == {k \in 0 .. n : \E f \in [0 .. k -> V] : Iterates(f, k, v, G)}
<1>1. 0 \in D
  <2> DEFINE f == [k \in 0 .. 0 |-> v]
  <2>1. f \in [0 .. 0 -> V] /\ Iterates(f, 0, v, G)  BY DEF Iterates
  <2> QED  BY <2>1
<1>2. ASSUME NEW k \in 1 .. n, k - 1 \in D PROVE k \in D
  <2>1. PICK f \in [0 .. k - 1 -> V] : Iterates(f, k - 1, v, G)  BY <1>2
  <2> DEFINE g == [j \in 0 .. k |-> IF j = k THEN G[<<k, f[k - 1]>>] ELSE f[j]]
  <2>2. f[k - 1] \in V /\ G[<<k, f[k - 1]>>] \in V  OBVIOUS
  <2>3. g \in [0 .. k -> V]  BY <2>2
  <2>4. g[0] = v  BY <2>1 DEF Iterates
  <2>5. ASSUME NEW j \in 1 .. k PROVE g[j] = G[<<j, g[j - 1]>>]
    <3>1. j - 1 \in 0 .. k /\ j - 1 # k /\ j \in 0 .. k  OBVIOUS
    <3>2. g[j - 1] = f[j - 1]  BY <3>1
    <3>3. CASE j = k  BY <3>1, <3>2, <3>3
    <3>4. CASE j # k
      <4>1. j \in 1 .. k - 1  BY <3>4
      <4>2. f[j] = G[<<j, f[j - 1]>>]  BY <2>1, <4>1 DEF Iterates
      <4> QED  BY <3>1, <3>2, <3>4, <4>2
    <3> QED  BY <3>3, <3>4
  <2>6. Iterates(g, k, v, G)
    <3> HIDE DEF g
    <3> QED  BY <2>4, <2>5 DEF Iterates
  <2> QED  BY <2>3, <2>6
<1>3. 0 .. n \subseteq D
  <2> HIDE DEF D
  <2> QED  BY <1>1, <1>2, UpTo
<1> QED  BY <1>3

-----------------------------------------------------------------------------
\* What Among takes of s up to its k-th element.
TakeNext(s, T, S) ==
  [x \in (1 .. Len(s)) \X Seq(S) |->
     IF s[x[1]] \in T THEN Append(x[2], s[x[1]]) ELSE x[2]]

LEMMA AmongIterates ==
  ASSUME NEW S, NEW s \in Seq(S), NEW T
  PROVE  \E f \in [0 .. Len(s) -> Seq(S)] :
           Iterates(f, Len(s), <<>>, TakeNext(s, T, S)) /\ Among(s, T) = f[Len(s)]
<1> DEFINE n == Len(s)
           G == TakeNext(s, T, S)
           Body(f) == [k \in 0 .. n |->
                         IF k = 0 THEN <<>>
                         ELSE IF s[k] \in T THEN Append(f[k - 1], s[k]) ELSE f[k - 1]]
           c == CHOOSE f : f = Body(f)
<1>1. n \in Nat /\ \A k \in 1 .. n : s[k] \in S  BY ElementOfSeq
<1>2. G \in [(1 .. n) \X Seq(S) -> Seq(S)]
  <2>1. ASSUME NEW x \in (1 .. n) \X Seq(S)
        PROVE  (IF s[x[1]] \in T THEN Append(x[2], s[x[1]]) ELSE x[2]) \in Seq(S)
    <3>1. x[2] \in Seq(S) /\ s[x[1]] \in S  BY <1>1
    <3> QED  BY <3>1, AppendProperties
  <2> QED  BY <2>1 DEF TakeNext
<1>3. ASSUME NEW f \in [0 .. n -> Seq(S)], NEW k \in 1 .. n
      PROVE  G[<<k, f[k - 1]>>] = Body(f)[k]
  <2>0. k - 1 \in 0 .. n /\ k \in 0 .. n /\ k # 0  BY <1>1
  <2>1. <<k, f[k - 1]>> \in (1 .. n) \X Seq(S)
    <3> HIDE DEF n
    <3> QED  BY <2>0
  <2> QED  BY <2>0, <2>1 DEF TakeNext
<1>4. \E f : f = Body(f)
  <2>1. PICK f \in [0 .. n -> Seq(S)] : Iterates(f, n, <<>>, G)
    <3>1. <<>> \in Seq(S)  OBVIOUS
    <3> HIDE DEF n, G
    <3> QED  BY <1>1, <1>2, <3>1, Iteration
  <2>2. ASSUME NEW k \in 0 .. n PROVE f[k] = Body(f)[k]
    <3>1. CASE k = 0  BY <2>1, <3>1 DEF Iterates
    <3>2. CASE k # 0
      <4>1. k \in 1 .. n  BY <3>2
      <4>2. f[k] = G[<<k, f[k - 1]>>]  BY <2>1, <4>1 DEF Iterates
      <4>3. G[<<k, f[k - 1]>>] = Body(f)[k]  BY <1>3, <4>1
      <4> QED  BY <4>2, <4>3
    <3> QED  BY <3>1, <3>2
  <2>3. f = Body(f)  BY <2>2
  <2> QED  BY <2>3
<1>5. c = Body(c)  BY <1>4
<1>6. Among(s, T) = c[n]  BY DEF Among
<1>7. \A k \in 0 .. n : c[k] = Body(c)[k]
  <2> HIDE DEF c
  <2> QED  BY <1>5
<1>8. c[0] = <<>> /\ \A k \in 1 .. n :
        c[k] = IF s[k] \in T THEN Append(c[k - 1], s[k]) ELSE c[k - 1]
  <2> HIDE DEF c
  <2> QED  BY <1>1, <1>7
<1>9. c \in [0 .. n -> Seq(S)]
  <2> DEFINE D == {k \in 0 .. n : c[k] \in Seq(S)}
  <2>1. 0 \in D
    <3>1. 0 \in 0 .. n /\ <<>> \in Seq(S)  BY <1>1
    <3> HIDE DEF c, n
    <3> QED  BY <1>8, <3>1
  <2>2. ASSUME NEW k \in 1 .. n, k - 1 \in D PROVE k \in D
    <3>1. c[k - 1] \in Seq(S) /\ s[k] \in S  BY <1>1, <2>2
    <3>2. Append(c[k - 1], s[k]) \in Seq(S)  BY <3>1, AppendProperties
    <3>3. c[k] \in {Append(c[k - 1], s[k]), c[k - 1]}  BY <1>8
    <3>4. c[k] \in Seq(S)
      <4> HIDE DEF c
      <4> QED  BY <3>1, <3>2, <3>3
    <3>5. k \in 0 .. n  BY <1>1
    <3> HIDE DEF c, n
    <3> QED  BY <3>4, <3>5
  <2>3. 0 .. n \subseteq D
    <3> HIDE DEF D, n
    <3> QED  BY <1>1, <2>1, <2>2, UpTo
  <2>4. c = [k \in 0 .. n |-> c[k]]
    <3> HIDE DEF c
    <3> QED  BY <1>5
  <2> HIDE DEF c
  <2> QED  BY <2>3, <2>4
<1>10. Iterates(c, n, <<>>, G)
  <2>1. ASSUME NEW k \in 1 .. n PROVE c[k] = G[<<k, c[k - 1]>>]
    <3>1. G[<<k, c[k - 1]>>] = Body(c)[k]
      <4> HIDE DEF c, G
      <4> QED  BY <1>3, <1>9
    <3>2. k \in 0 .. n  BY <1>1
    <3>3. c[k] = Body(c)[k]
      <4> HIDE DEF c, n
      <4> QED  BY <1>7, <3>2
    <3> HIDE DEF c, G, Body
    <3> QED  BY <3>1, <3>3
  <2> HIDE DEF c, G, n
  <2> QED  BY <1>8, <2>1 DEF Iterates
<1> QED  BY <1>6, <1>9, <1>10

\* The places in s that r was taken from: those in T up to k, in their order.
Picks(e, r, s, T, k) ==
  /\ e \in [1 .. Len(r) -> 1 .. k]
  /\ \A i \in 1 .. Len(r) : r[i] = s[e[i]] /\ s[e[i]] \in T
  /\ \A i, j \in 1 .. Len(r) : i < j => e[i] < e[j]
  /\ \A j \in 1 .. k : s[j] \in T => \E i \in 1 .. Len(r) : e[i] = j

\* Among takes every element that is in T once, in the order of s.
LEMMA AmongPicks ==
  ASSUME NEW S, NEW s \in Seq(S), NEW T
  PROVE  Among(s, T) \in Seq(S) /\ \E e : Picks(e, Among(s, T), s, T, Len(s))
<1> DEFINE n == Len(s)
<1>1. n \in Nat /\ \A k \in 1 .. n : s[k] \in S  BY ElementOfSeq
<1>2. PICK f \in [0 .. n -> Seq(S)] :
        Iterates(f, n, <<>>, TakeNext(s, T, S)) /\ Among(s, T) = f[n]
  BY AmongIterates
<1>3. ASSUME NEW k \in 1 .. n
      PROVE  f[k] = IF s[k] \in T THEN Append(f[k - 1], s[k]) ELSE f[k - 1]
  <2>1. f[k] = TakeNext(s, T, S)[<<k, f[k - 1]>>]  BY <1>2 DEF Iterates
  <2>2. k - 1 \in 0 .. n  BY <1>1
  <2>3. <<k, f[k - 1]>> \in (1 .. n) \X Seq(S)
    <3> HIDE DEF n
    <3> QED  BY <2>2
  <2> QED  BY <2>1, <2>3 DEF TakeNext
<1> DEFINE D == {k \in 0 .. n : \E e : Picks(e, f[k], s, T, k)}
<1>4. 0 \in D
  <2>1. f[0] = <<>>  BY <1>2 DEF Iterates
  <2> DEFINE e == [i \in 1 .. 0 |-> 0]
  <2>2. Picks(e, <<>>, s, T, 0)  BY DEF Picks
  <2> QED  BY <1>1, <2>1, <2>2
<1>5. ASSUME NEW k \in 1 .. n, k - 1 \in D PROVE k \in D
  <2>1. PICK e : Picks(e, f[k - 1], s, T, k - 1)  BY <1>5
  <2> DEFINE p == f[k - 1]
             l == Len(p)
  <2>2. p \in Seq(S) /\ l \in Nat /\ s[k] \in S /\ k - 1 \in 0 .. n
    <3>1. k - 1 \in 0 .. n  BY <1>1
    <3> QED  BY <1>1, <3>1
  <2> HIDE DEF n
  <2>0. k \in Nat \ {0}  BY <1>1
  <2>3. CASE s[k] \notin T
    <3>1. f[k] = p  BY <1>3, <2>3
    <3>2. Picks(e, p, s, T, k)
      <4> HIDE DEF p
      <4>1. e \in [1 .. Len(p) -> 1 .. k]  BY <2>0, <2>1 DEF Picks, p
      <4>2. ASSUME NEW j \in 1 .. k, s[j] \in T PROVE \E i \in 1 .. Len(p) : e[i] = j
        <5>1. j \in 1 .. k - 1  BY <2>0, <2>3, <4>2
        <5> QED  BY <2>1, <4>2, <5>1 DEF Picks, p
      <4> QED  BY <2>1, <4>1, <4>2 DEF Picks, p
    <3> QED  BY <1>1, <3>1, <3>2 DEF n
  <2>4. CASE s[k] \in T
    <3> DEFINE r == Append(p, s[k])
               g == [i \in 1 .. l + 1 |-> IF i = l + 1 THEN k ELSE e[i]]
    <3>1. f[k] = r  BY <1>3, <2>4
    <3>2. /\ Len(r) = l + 1 /\ r[l + 1] = s[k]
          /\ \A i \in 1 .. l : r[i] = p[i]
      <4> HIDE DEF p
      <4> QED  BY <2>2, AppendProperties
    <3> HIDE DEF r, l
    <3>3. \A i \in 1 .. l : e[i] \in 1 .. k - 1 /\ p[i] = s[e[i]] /\ s[e[i]] \in T
      BY <2>1 DEF Picks, l
    <3>4. \A i \in 1 .. l + 1 : i \in 1 .. l \/ i = l + 1  BY <2>2
    <3>5. g \in [1 .. l + 1 -> 1 .. k]  BY <2>0, <2>2, <3>3, <3>4
    <3>6. ASSUME NEW i \in 1 .. l + 1 PROVE r[i] = s[g[i]] /\ s[g[i]] \in T
      <4>1. CASE i = l + 1  BY <2>2, <2>4, <3>2, <4>1
      <4>2. CASE i \in 1 .. l
        <5>1. g[i] = e[i]  BY <2>2, <4>2
        <5> HIDE DEF g
        <5> QED  BY <3>2, <3>3, <4>2, <5>1
      <4> QED  BY <3>4, <4>1, <4>2
    <3>7. ASSUME NEW i \in 1 .. l + 1, NEW j \in 1 .. l + 1, i < j PROVE g[i] < g[j]
      <4>1. i \in 1 .. l /\ g[i] = e[i]  BY <2>2, <3>7
      <4>2. CASE j = l + 1  BY <2>0, <2>2, <3>3, <4>1, <4>2
      <4>3. CASE j \in 1 .. l
        <5>1. g[j] = e[j]  BY <2>2, <4>3
        <5>2. e[i] < e[j]  BY <2>1, <3>7, <4>1, <4>3 DEF Picks, l
        <5> QED  BY <4>1, <5>1, <5>2
      <4> QED  BY <3>4, <4>2, <4>3
    <3>8. ASSUME NEW j \in 1 .. k, s[j] \in T PROVE \E i \in 1 .. l + 1 : g[i] = j
      <4>1. CASE j = k
        <5>1. l + 1 \in 1 .. l + 1  BY <2>2
        <5> QED  BY <4>1, <5>1
      <4>2. CASE j # k
        <5>1. j \in 1 .. k - 1  BY <2>0, <4>2
        <5>2. PICK i \in 1 .. l : e[i] = j  BY <2>1, <3>8, <5>1 DEF Picks, l
        <5>3. i \in 1 .. l + 1 /\ i # l + 1  BY <2>2
        <5> QED  BY <5>2, <5>3
      <4> QED  BY <4>1, <4>2
    <3>9. Picks(g, r, s, T, k)
      <4> HIDE DEF g
      <4> QED  BY <3>2, <3>5, <3>6, <3>7, <3>8 DEF Picks
    <3> QED  BY <1>1, <3>1, <3>9 DEF n
  <2> QED  BY <2>3, <2>4
<1>6. n \in D
  <2>1. 0 .. n \subseteq D
    <3> HIDE DEF D, n
    <3> QED  BY <1>1, <1>4, <1>5, UpTo
  <2> QED  BY <1>1, <2>1
<1>7. f[n] \in Seq(S)  BY <1>1
<1> QED  BY <1>2, <1>6, <1>7

=============================================================================
