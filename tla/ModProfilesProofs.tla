--------------------------- MODULE ModProfilesProofs ---------------------------
(***************************************************************************)
(* The load order, proved for every profile and every set of constraints,  *)
(* and the safety of the manager's tasks on profiles and packages, for any *)
(* number of tasks, names and operations.                                  *)
(*                                                                         *)
(* The order: each step of OrderedIds takes the first mod that is ready    *)
(* (Greedy); an order built so respects the constraints, is before every   *)
(* other that does, and ends early only at a cycle.                        *)
(*                                                                         *)
(* The tasks: what a task is going to write was validated against packages *)
(* that can only go while another task overlaps (WillWrite), a task that   *)
(* runs alone finds the files as it loaded them (Undisturbed), the ID of a *)
(* profile under creation is nobody else's (Fresh), and a profile has more *)
(* files than renamings that are about to delete one (Spared).             *)
(***************************************************************************)
EXTENDS MCModProfiles, InductionLemmas, FiniteSetTheorems

-----------------------------------------------------------------------------
(* The load order, for any set of constraints.                             *)

\* A profile has no ID twice.
Distinct(enabled) ==
    \A i, j \in 1..Len(enabled) : enabled[i].id = enabled[j].id => i = j

\* The numbers from 1 to n are n.
LEMMA CountedUpTo ==
  ASSUME NEW n \in Nat
  PROVE  IsFiniteSet(1 .. n) /\ Cardinality(1 .. n) = n
<1>1. /\ IsFiniteSet(1 .. n)
      /\ Cardinality(1 .. n) = IF 1 > n THEN 0 ELSE n - 1 + 1
  BY FS_Interval
<1> QED  BY <1>1

\* Positions are a numbering of the IDs.
LEMMA Positions ==
  ASSUME NEW S, NEW enabled \in Seq(S)
  PROVE  /\ \A id \in Ids(enabled) :
              /\ Position(enabled, id) \in 1 .. Len(enabled)
              /\ enabled[Position(enabled, id)].id = id
         /\ \A a, b \in Ids(enabled) :
              Position(enabled, a) = Position(enabled, b) => a = b
<1>1. ASSUME NEW id \in Ids(enabled)
      PROVE  Position(enabled, id) \in 1 .. Len(enabled) /\ enabled[Position(enabled, id)].id = id
  <2>1. \E i \in 1 .. Len(enabled) : enabled[i].id = id  BY DEF Ids
  <2> QED  BY <2>1 DEF Position
<1> QED  BY <1>1

\* A profile has as many IDs as mods.
LEMMA IdsCounted ==
  ASSUME NEW S, NEW enabled \in Seq(S), Distinct(enabled)
  PROVE  IsFiniteSet(Ids(enabled)) /\ Cardinality(Ids(enabled)) = Len(enabled)
<1> DEFINE n == Len(enabled)
           f == [i \in 1 .. n |-> enabled[i].id]
<1>1. f \in Bijection(1 .. n, Ids(enabled))
  <2>1. f \in [1 .. n -> Ids(enabled)]  BY DEF Ids
  <2>2. \A i, j \in 1 .. n : f[i] = f[j] => i = j  BY DEF Distinct
  <2>3. \A id \in Ids(enabled) : \E i \in 1 .. n : f[i] = id  BY DEF Ids
  <2> QED  BY <2>1, <2>2, <2>3 DEF Bijection, Injection, Surjection, IsInjective
<1>2. n \in Nat  OBVIOUS
<1>3. IsFiniteSet(1 .. n) /\ Cardinality(1 .. n) = n
  BY <1>2, CountedUpTo
<1>4. ExistsBijection(1 .. n, Ids(enabled))  BY <1>1 DEF ExistsBijection
<1> QED  BY <1>3, <1>4, FS_Bijection

\* The IDs of which all predecessors are in D.
ReadyIn(enabled, E, D) ==
    {id \in Ids(enabled) \ D : \A e \in E : e[2] = id => e[1] \in D}

\* Of the IDs that are ready, one comes first.
LEMMA FirstIsReady ==
  ASSUME NEW S, NEW enabled \in Seq(S), NEW R \in SUBSET Ids(enabled), R # {}
  PROVE  /\ FirstInProfile(enabled, R) \in R
         /\ \A id \in R : Position(enabled, FirstInProfile(enabled, R)) <= Position(enabled, id)
<1> DEFINE P == {Position(enabled, id) : id \in R}
<1>1. P \in SUBSET Nat /\ P # {}
  <2>1. \A id \in R : Position(enabled, id) \in Nat  BY Positions
  <2> QED  BY <2>1
<1>2. PICK p \in P : \A k \in P : p <= k
  <2> HIDE DEF P
  <2> QED  BY <1>1, LeastNat
<1>3. \E id \in R : \A other \in R : Position(enabled, id) <= Position(enabled, other)
  BY <1>2
<1> QED  BY <1>3 DEF FirstInProfile

\* The first k elements of p, and what a list of placed IDs is:
\* each was the first of those ready after the ones before it.
Taken(p, k) == {p[j] : j \in 1 .. k}
Greedy(enabled, E, p) ==
  /\ p \in Seq(Ids(enabled))
  /\ \A i \in 1 .. Len(p) :
       /\ p[i] \in ReadyIn(enabled, E, Taken(p, i - 1))
       /\ \A id \in ReadyIn(enabled, E, Taken(p, i - 1)) :
            Position(enabled, p[i]) <= Position(enabled, id)

\* Appending the first mod that is ready keeps an order greedy.
LEMMA GreedyGrows ==
  ASSUME NEW S, NEW enabled \in Seq(S), NEW E, NEW p, Greedy(enabled, E, p),
         ReadyIn(enabled, E, ToSet(p)) # {}
  PROVE  Greedy(enabled, E, Append(p, FirstInProfile(enabled, ReadyIn(enabled, E, ToSet(p)))))
<1> DEFINE R == ReadyIn(enabled, E, ToSet(p))
           x == FirstInProfile(enabled, R)
           q == Append(p, x)
           l == Len(p)
<1>1. R \in SUBSET Ids(enabled) /\ R # {}  BY DEF ReadyIn
<1>2. x \in R /\ \A id \in R : Position(enabled, x) <= Position(enabled, id)
  <2> HIDE DEF R
  <2> QED  BY <1>1, FirstIsReady
<1>3. p \in Seq(Ids(enabled)) /\ l \in Nat  BY DEF Greedy
<1> HIDE DEF x, R
<1>4. /\ q \in Seq(Ids(enabled)) /\ Len(q) = l + 1 /\ q[l + 1] = x
      /\ \A i \in 1 .. l : q[i] = p[i]
  BY <1>1, <1>2, <1>3, AppendProperties
<1>5. ToSet(p) = Taken(p, l)
  BY <1>3 DEF ToSet, Taken
<1> HIDE DEF q
<1>6. ASSUME NEW i \in 1 .. l + 1
      PROVE  Taken(q, i - 1) = Taken(p, i - 1)
  <2>1. \A j \in 1 .. i - 1 : q[j] = p[j]  BY <1>3, <1>4
  <2> QED  BY <2>1 DEF Taken
<1>7. ASSUME NEW i \in 1 .. l + 1
      PROVE  /\ q[i] \in ReadyIn(enabled, E, Taken(q, i - 1))
             /\ \A id \in ReadyIn(enabled, E, Taken(q, i - 1)) :
                  Position(enabled, q[i]) <= Position(enabled, id)
  <2>1. CASE i = l + 1
    <3>1. i - 1 = l  BY <1>3, <2>1
    <3> QED  BY <1>2, <1>4, <1>5, <1>6, <2>1, <3>1 DEF R
  <2>2. CASE i # l + 1
    <3>1. i \in 1 .. l  BY <1>3, <2>2
    <3> QED  BY <1>4, <1>6, <3>1 DEF Greedy
  <2> QED  BY <2>1, <2>2
<1> QED  BY <1>4, <1>7 DEF Greedy, q, x, R

-----------------------------------------------------------------------------
\* How OrderedIds places one more.
PlaceNext(enabled, E) ==
  [x \in (1 .. Len(enabled)) \X Seq(Ids(enabled)) |->
     IF Ready(enabled, E, x[2]) = {} THEN x[2]
     ELSE Append(x[2], FirstInProfile(enabled, Ready(enabled, E, x[2])))]

\* OrderedIds takes one mod after the other, as PlaceNext does.
LEMMA OrderedIterates ==
  ASSUME NEW S, NEW enabled \in Seq(S), NEW rules
  PROVE  \E f \in [0 .. Len(enabled) -> Seq(Ids(enabled))] :
           /\ Iterates(f, Len(enabled), <<>>, PlaceNext(enabled, Edges(enabled, rules)))
           /\ OrderedIds(enabled, rules) = f[Len(enabled)]
<1> DEFINE n == Len(enabled)
           E == Edges(enabled, rules)
           V == Seq(Ids(enabled))
           G == PlaceNext(enabled, E)
           Goes1(p) == IF Ready(enabled, E, p) = {} THEN p
                       ELSE Append(p, FirstInProfile(enabled, Ready(enabled, E, p)))
           Body(f) == [k \in 0 .. n |-> IF k = 0 THEN <<>> ELSE Goes1(f[k - 1])]
           c == CHOOSE f : f = Body(f)
<1>1. n \in Nat  OBVIOUS
<1>2. ASSUME NEW p \in V PROVE Goes1(p) \in V
  <2>1. CASE Ready(enabled, E, p) = {}  BY <2>1
  <2>2. CASE Ready(enabled, E, p) # {}
    <3> HIDE DEF E
    <3>1. Ready(enabled, E, p) \in SUBSET Ids(enabled)  BY DEF Ready
    <3>2. FirstInProfile(enabled, Ready(enabled, E, p)) \in Ids(enabled)
      BY <2>2, <3>1, FirstIsReady
    <3> QED  BY <2>2, <3>2, AppendProperties
  <2> QED  BY <2>1, <2>2
<1> HIDE DEF Goes1, E
<1>3. G = [x \in (1 .. n) \X V |-> Goes1(x[2])]
  BY DEF PlaceNext, Goes1
<1>4. G \in [(1 .. n) \X V -> V]
  <2> HIDE DEF V, n, G
  <2> QED  BY <1>2, <1>3
<1>5. ASSUME NEW f \in [0 .. n -> V], NEW k \in 1 .. n
      PROVE  /\ G[<<k, f[k - 1]>>] = Goes1(f[k - 1])
             /\ Body(f)[k] = Goes1(f[k - 1]) /\ f[k - 1] \in V
  <2>1. k - 1 \in 0 .. n /\ k \in 0 .. n /\ k # 0  BY <1>1
  <2>2. Body(f)[k] = Goes1(f[k - 1])  BY <2>1
  <2>3. <<k, f[k - 1]>> \in (1 .. n) \X V
    <3> HIDE DEF n, V
    <3> QED  BY <2>1
  <2> HIDE DEF n, V, Body, G
  <2> QED  BY <1>3, <2>1, <2>2, <2>3
<1>6. \E f : f = Body(f)
  <2>1. PICK f \in [0 .. n -> V] : Iterates(f, n, <<>>, G)
    <3>1. <<>> \in V  OBVIOUS
    <3> HIDE DEF n, V, G
    <3> QED  BY <1>1, <1>4, <3>1, Iteration
  <2>2. ASSUME NEW k \in 0 .. n PROVE f[k] = Body(f)[k]
    <3>1. CASE k = 0  BY <2>1, <3>1 DEF Iterates
    <3>2. CASE k # 0
      <4>1. k \in 1 .. n  BY <3>2
      <4>2. f[k] = G[<<k, f[k - 1]>>]  BY <2>1, <4>1 DEF Iterates
      <4> HIDE DEF n, V, G, Body
      <4> QED  BY <1>5, <4>1, <4>2
    <3> QED  BY <3>1, <3>2
  <2>3. f = Body(f)  BY <2>2
  <2> QED  BY <2>3
<1>7. c = Body(c)  BY <1>6
<1>8. OrderedIds(enabled, rules) = c[n]
  BY DEF OrderedIds, Goes1, E
<1>9. c[0] = <<>> /\ \A k \in 1 .. n : c[k] = Goes1(c[k - 1])
  <2>1. \A k \in 0 .. n : c[k] = IF k = 0 THEN <<>> ELSE Goes1(c[k - 1])
    <3> HIDE DEF c
    <3> QED  BY <1>7
  <2> HIDE DEF c
  <2> QED  BY <1>1, <2>1
<1>10. c \in [0 .. n -> V]
  <2> DEFINE D == {k \in 0 .. n : c[k] \in V}
  <2>1. 0 \in D
    <3>1. 0 \in 0 .. n /\ <<>> \in V  BY <1>1
    <3> HIDE DEF c, n, V
    <3> QED  BY <1>9, <3>1
  <2>2. ASSUME NEW k \in 1 .. n, k - 1 \in D PROVE k \in D
    <3>1. k \in 0 .. n  BY <1>1
    <3> HIDE DEF c, n, V
    <3> QED  BY <1>2, <1>9, <2>2, <3>1
  <2>3. 0 .. n \subseteq D
    <3> HIDE DEF D, n
    <3> QED  BY <1>1, <2>1, <2>2, UpTo
  <2>4. c = [k \in 0 .. n |-> c[k]]
    <3> HIDE DEF c
    <3> QED  BY <1>7
  <2> HIDE DEF c, V
  <2> QED  BY <2>3, <2>4
<1>11. Iterates(c, n, <<>>, G)
  <2> HIDE DEF c, G, n, V
  <2> QED  BY <1>5, <1>9, <1>10 DEF Iterates
<1> HIDE DEF c
<1> QED  BY <1>8, <1>10, <1>11 DEF E

\* OrderedIds is a greedy list, and complete or stuck.
LEMMA OrderedIsGreedy ==
  ASSUME NEW S, NEW enabled \in Seq(S), NEW rules
  PROVE  LET E == Edges(enabled, rules)
             o == OrderedIds(enabled, rules)
         IN  /\ Greedy(enabled, E, o) /\ Len(o) <= Len(enabled)
             /\ Len(o) = Len(enabled) \/ ReadyIn(enabled, E, ToSet(o)) = {}
<1> DEFINE n == Len(enabled)
           E == Edges(enabled, rules)
<1>1. n \in Nat  OBVIOUS
<1>2. PICK f \in [0 .. n -> Seq(Ids(enabled))] :
        Iterates(f, n, <<>>, PlaceNext(enabled, E)) /\ OrderedIds(enabled, rules) = f[n]
  BY OrderedIterates
<1> HIDE DEF E
<1>3. \A p : Ready(enabled, E, p) = ReadyIn(enabled, E, ToSet(p))
  BY DEF Ready, ReadyIn
<1>4. ASSUME NEW k \in 1 .. n
      PROVE  LET R == ReadyIn(enabled, E, ToSet(f[k - 1])) IN
             f[k] = IF R = {} THEN f[k - 1] ELSE Append(f[k - 1], FirstInProfile(enabled, R))
  <2>1. f[k] = PlaceNext(enabled, E)[<<k, f[k - 1]>>]  BY <1>2 DEF Iterates
  <2>2. k - 1 \in 0 .. n  BY <1>1
  <2>3. f[k - 1] \in Seq(Ids(enabled))  BY <2>2
  <2>4. <<k, f[k - 1]>> \in (1 .. n) \X Seq(Ids(enabled))  BY <2>3
  <2> QED  BY <1>3, <2>1, <2>4 DEF PlaceNext
<1> DEFINE D == {k \in 0 .. n : /\ Greedy(enabled, E, f[k]) /\ Len(f[k]) <= k
                                /\ Len(f[k]) = k \/ ReadyIn(enabled, E, ToSet(f[k])) = {}}
<1>5. 0 \in D
  <2>1. f[0] = <<>>  BY <1>2 DEF Iterates
  <2>2. Greedy(enabled, E, <<>>)  BY DEF Greedy
  <2> QED  BY <1>1, <2>1, <2>2
<1>6. ASSUME NEW k \in 1 .. n, k - 1 \in D PROVE k \in D
  <2> DEFINE p == f[k - 1]
             R == ReadyIn(enabled, E, ToSet(p))
  <2>1. Greedy(enabled, E, p) /\ Len(p) <= k - 1 /\ (Len(p) = k - 1 \/ R = {})  BY <1>6
  <2>2. p \in Seq(Ids(enabled)) /\ Len(p) \in Nat /\ k \in 0 .. n  BY <1>1, <2>1 DEF Greedy
  <2>3. f[k] = IF R = {} THEN p ELSE Append(p, FirstInProfile(enabled, R))  BY <1>4
  <2> HIDE DEF p
  <2>4. CASE R = {}
    <3>1. f[k] = p  BY <2>3, <2>4
    <3> HIDE DEF R, n
    <3> QED  BY <2>1, <2>2, <2>4, <3>1 DEF R
  <2>5. CASE R # {}
    <3> DEFINE q == Append(p, FirstInProfile(enabled, R))
    <3>1. Greedy(enabled, E, q)  BY <2>1, <2>5, GreedyGrows
    <3>2. Len(q) = Len(p) + 1
      <4> HIDE DEF R
      <4> QED  BY <2>2
    <3>3. f[k] = q
      <4> HIDE DEF R
      <4> QED  BY <2>3, <2>5
    <3>4. Len(q) = k
      <4> HIDE DEF q
      <4> QED  BY <2>1, <2>2, <2>5, <3>2
    <3> HIDE DEF q, n, R
    <3> QED  BY <2>2, <3>1, <3>3, <3>4
  <2> QED  BY <2>4, <2>5
<1>7. n \in D
  <2>1. 0 .. n \subseteq D
    <3> HIDE DEF D, n
    <3> QED  BY <1>1, <1>5, <1>6, UpTo
  <2> QED  BY <1>1, <2>1
<1> QED  BY <1>2, <1>7 DEF E

-----------------------------------------------------------------------------
(* The order is complete exactly when the constraints have one, and then it *)
(* is the one that keeps closest to the profile.                            *)

\* Every ID is in an order of all of them.
LEMMA AllAreIn ==
  ASSUME NEW S, NEW enabled \in Seq(S), Distinct(enabled), NEW t \in SetToSeqs(Ids(enabled))
  PROVE  /\ t \in [1 .. Len(enabled) -> Ids(enabled)]
         /\ \A i, j \in 1 .. Len(enabled) : t[i] = t[j] => i = j
         /\ \A id \in Ids(enabled) : \E i \in 1 .. Len(enabled) : t[i] = id
<1> DEFINE n == Len(enabled)
<1>1. n \in Nat /\ IsFiniteSet(Ids(enabled)) /\ Cardinality(Ids(enabled)) = n
  BY IdsCounted
<1>2. t \in [1 .. n -> Ids(enabled)] /\ \A i, j \in 1 .. n : i # j => t[i] # t[j]
  BY <1>1 DEF SetToSeqs
<1> HIDE DEF n
<1>3. IsFiniteSet(1 .. n) /\ Cardinality(1 .. n) = n
  BY <1>1, CountedUpTo
<1>4. t \in Injection(1 .. n, Ids(enabled))  BY <1>2 DEF Injection, IsInjective
<1>5. t \in Surjection(1 .. n, Ids(enabled))  BY <1>1, <1>3, <1>4, FS_Injection
<1> QED  BY <1>2, <1>5 DEF Surjection, n

\* A place of t from which every earlier element is in D is ready in D.
LEMMA TopologicalReady ==
  ASSUME NEW S, NEW enabled \in Seq(S), Distinct(enabled), NEW rules,
         NEW t \in SetToSeqs(Ids(enabled)), Topological(t, Edges(enabled, rules)),
         NEW i \in 1 .. Len(enabled), NEW D,
         t[i] \notin D, \A j \in 1 .. i - 1 : t[j] \in D
  PROVE  t[i] \in ReadyIn(enabled, Edges(enabled, rules), D)
<1> DEFINE E == Edges(enabled, rules)
<1>1. E \subseteq Ids(enabled) \X Ids(enabled)  BY DEF Edges
<1>2. /\ t \in [1 .. Len(enabled) -> Ids(enabled)]
      /\ \A id \in Ids(enabled) : \E k \in 1 .. Len(enabled) : t[k] = id
  BY AllAreIn
<1>3. Len(t) = Len(enabled)  BY <1>2
<1> HIDE DEF E
<1>4. ASSUME NEW e \in E, e[2] = t[i] PROVE e[1] \in D
  <2>1. e[1] \in Ids(enabled) /\ e = <<e[1], e[2]>>  BY <1>1
  <2>2. PICK k \in 1 .. Len(enabled) : t[k] = e[1]  BY <1>2, <2>1
  <2>3. <<t[k], t[i]>> \in E  BY <1>4, <2>1, <2>2
  <2>4. k < i  BY <1>3, <2>3 DEF Topological, E
  <2>5. k \in 1 .. i - 1  BY <2>4
  <2> QED  BY <2>2, <2>5
<1> QED  BY <1>2, <1>4 DEF ReadyIn, E

\* A complete greedy list is an order that respects the constraints.
LEMMA GreedyIsTopological ==
  ASSUME NEW S, NEW enabled \in Seq(S), Distinct(enabled), NEW rules,
         NEW o, Greedy(enabled, Edges(enabled, rules), o), Len(o) = Len(enabled)
  PROVE  o \in SetToSeqs(Ids(enabled)) /\ Topological(o, Edges(enabled, rules))
<1> DEFINE n == Len(enabled)
           E == Edges(enabled, rules)
<1>1. n \in Nat /\ Cardinality(Ids(enabled)) = n  BY IdsCounted
<1> HIDE DEF E
<1>2. o \in [1 .. n -> Ids(enabled)]  BY DEF Greedy
<1>3. ASSUME NEW i \in 1 .. n PROVE o[i] \in ReadyIn(enabled, E, Taken(o, i - 1))
  BY DEF Greedy, E
<1> HIDE DEF n
<1>4. ASSUME NEW i \in 1 .. n, NEW j \in 1 .. n, i < j PROVE o[i] # o[j]
  <2>1. i \in 1 .. j - 1  BY <1>4
  <2>2. o[i] \in Taken(o, j - 1)  BY <2>1 DEF Taken
  <2>3. o[j] \notin Taken(o, j - 1)  BY <1>3 DEF ReadyIn
  <2> QED  BY <2>2, <2>3
<1>5. \A i, j \in 1 .. n : i # j => o[i] # o[j]
  <2>1. \A i, j \in 1 .. n : i # j => i < j \/ j < i  BY <1>1
  <2> QED  BY <1>4, <2>1
<1>6. ASSUME NEW i \in 1 .. n, NEW j \in 1 .. n, <<o[i], o[j]>> \in E PROVE i < j
  <2>1. o[i] \in Taken(o, j - 1)
    <3> DEFINE e == <<o[i], o[j]>>
    <3>1. e[1] = o[i] /\ e[2] = o[j] /\ e \in E  BY <1>6
    <3> HIDE DEF e
    <3> QED  BY <1>3, <3>1 DEF ReadyIn
  <2>2. PICK k \in 1 .. j - 1 : o[k] = o[i]  BY <2>1 DEF Taken
  <2>3. k \in 1 .. n  BY <1>1
  <2>4. k = i  BY <1>5, <2>2, <2>3
  <2> QED  BY <1>1, <2>2, <2>4
<1> QED  BY <1>1, <1>2, <1>5, <1>6 DEF SetToSeqs, Topological, n, E

\* It comes before every other one.
LEMMA GreedyIsEarlier ==
  ASSUME NEW S, NEW enabled \in Seq(S), Distinct(enabled), NEW rules,
         NEW o, Greedy(enabled, Edges(enabled, rules), o), Len(o) = Len(enabled),
         NEW t \in SetToSeqs(Ids(enabled)), Topological(t, Edges(enabled, rules)), t # o
  PROVE  Earlier(enabled, o, t)
<1> DEFINE n == Len(enabled)
           E == Edges(enabled, rules)
           Differ == {i \in 1 .. n : o[i] # t[i]}
<1>1. n \in Nat  OBVIOUS
<1>2. o \in [1 .. n -> Ids(enabled)] /\ Len(o) = n  BY DEF Greedy
<1>3. t \in [1 .. n -> Ids(enabled)] /\ \A i, j \in 1 .. n : t[i] = t[j] => i = j
  BY AllAreIn
<1>4. Differ \in SUBSET Nat /\ Differ # {}
  <2> HIDE DEF n
  <2> QED  BY <1>2, <1>3
<1>5. PICK i \in Differ : \A k \in Differ : i <= k
  <2> HIDE DEF Differ
  <2> QED  BY <1>4, LeastNat
<1>6. i \in 1 .. n /\ o[i] # t[i]  OBVIOUS
<1>7. \A j \in 1 .. i - 1 : j \in 1 .. n /\ o[j] = t[j]
  <2> TAKE j \in 1 .. i - 1
  <2>1. j \in 1 .. n /\ ~(i <= j)  BY <1>1, <1>6
  <2> QED  BY <1>5, <2>1
<1> HIDE DEF Differ, n, E
<1>8. t[i] \notin Taken(o, i - 1)
  <2>1. ASSUME NEW j \in 1 .. i - 1, o[j] = t[i] PROVE FALSE
    <3>1. j = i  BY <1>3, <1>6, <1>7, <2>1
    <3> QED  BY <1>6, <1>1, <3>1
  <2> QED  BY <2>1 DEF Taken
<1>9. \A j \in 1 .. i - 1 : t[j] \in Taken(o, i - 1)
  BY <1>7 DEF Taken
<1>10. t[i] \in ReadyIn(enabled, E, Taken(o, i - 1))
  BY <1>6, <1>8, <1>9, TopologicalReady DEF n, E
<1>11. Position(enabled, o[i]) <= Position(enabled, t[i])
  BY <1>2, <1>6, <1>10 DEF Greedy, E
<1>12. Position(enabled, o[i]) < Position(enabled, t[i])
  <2>1. o[i] \in Ids(enabled) /\ t[i] \in Ids(enabled)  BY <1>2, <1>3, <1>6
  <2>2. /\ Position(enabled, o[i]) \in Nat /\ Position(enabled, t[i]) \in Nat
        /\ Position(enabled, o[i]) # Position(enabled, t[i])
    BY <1>6, <2>1, Positions
  <2> QED  BY <1>11, <2>2
<1> QED  BY <1>2, <1>6, <1>7, <1>12 DEF Earlier

\* Of two orders at most one comes before the other.
LEMMA EarlierIsStrict ==
  ASSUME NEW S, NEW enabled \in Seq(S), Distinct(enabled),
         NEW s \in SetToSeqs(Ids(enabled)), NEW t \in SetToSeqs(Ids(enabled)),
         Earlier(enabled, s, t), Earlier(enabled, t, s)
  PROVE  FALSE
<1> DEFINE n == Len(enabled)
<1>1. n \in Nat  OBVIOUS
<1>2. s \in [1 .. n -> Ids(enabled)] /\ t \in [1 .. n -> Ids(enabled)]  BY AllAreIn
<1>3. Len(s) = n /\ Len(t) = n  BY <1>1, <1>2
<1> HIDE DEF n
<1>4. PICK i \in 1 .. n : /\ \A j \in 1 .. i - 1 : s[j] = t[j]
                         /\ Position(enabled, s[i]) < Position(enabled, t[i])
  BY <1>3 DEF Earlier
<1>5. PICK k \in 1 .. n : /\ \A j \in 1 .. k - 1 : t[j] = s[j]
                         /\ Position(enabled, t[k]) < Position(enabled, s[k])
  BY <1>3 DEF Earlier
<1>6. \A id \in Ids(enabled) : Position(enabled, id) \in Nat  BY Positions
<1>7. /\ s[i] \in Ids(enabled) /\ t[i] \in Ids(enabled)
      /\ s[k] \in Ids(enabled) /\ t[k] \in Ids(enabled)
  BY <1>2
<1>8. CASE i = k  BY <1>4, <1>5, <1>6, <1>7, <1>8
<1>9. CASE i < k
  <2>1. i \in 1 .. k - 1  BY <1>9
  <2>2. s[i] = t[i]  BY <1>5, <2>1
  <2> QED  BY <1>4, <1>6, <1>7, <2>2
<1>10. CASE k < i
  <2>1. k \in 1 .. i - 1  BY <1>10
  <2>2. s[k] = t[k]  BY <1>4, <2>1
  <2> QED  BY <1>5, <1>6, <1>7, <2>2
<1> QED  BY <1>1, <1>8, <1>9, <1>10

\* When no further ID gets ready, there is no order.
LEMMA StuckIsCyclic ==
  ASSUME NEW S, NEW enabled \in Seq(S), Distinct(enabled), NEW rules,
         NEW o, o \in Seq(Ids(enabled)), Len(o) < Len(enabled),
         ReadyIn(enabled, Edges(enabled, rules), ToSet(o)) = {},
         NEW t \in SetToSeqs(Ids(enabled)), Topological(t, Edges(enabled, rules))
  PROVE  FALSE
<1> DEFINE n == Len(enabled)
           Rest == {i \in 1 .. n : t[i] \notin ToSet(o)}
<1>1. n \in Nat /\ IsFiniteSet(Ids(enabled)) /\ Cardinality(Ids(enabled)) = n /\ Len(o) \in Nat
  BY IdsCounted
<1>2. /\ t \in [1 .. n -> Ids(enabled)]
      /\ \A i, j \in 1 .. n : t[i] = t[j] => i = j
      /\ \A id \in Ids(enabled) : \E i \in 1 .. n : t[i] = id
  BY AllAreIn
<1>3. IsFiniteSet(1 .. Len(o)) /\ Cardinality(1 .. Len(o)) = Len(o)
  BY <1>1, CountedUpTo
<1>4. Rest # {}
  <2> SUFFICES ASSUME Rest = {} PROVE FALSE  OBVIOUS
  <2>1. \A id \in Ids(enabled) : id \in ToSet(o)
    <3> HIDE DEF n
    <3> QED  BY <1>2
  <2>2. o \in [1 .. Len(o) -> Ids(enabled)]  OBVIOUS
  <2>3. \A id \in Ids(enabled) : \E i \in 1 .. Len(o) : o[i] = id
    BY <2>1, <2>2 DEF ToSet
  <2>4. o \in Surjection(1 .. Len(o), Ids(enabled))  BY <2>2, <2>3 DEF Surjection
  <2>5. Cardinality(Ids(enabled)) <= Cardinality(1 .. Len(o))  BY <1>3, <2>4, FS_Surjection
  <2> QED  BY <1>1, <1>3, <2>5
<1>5. Rest \in SUBSET Nat  OBVIOUS
<1>6. PICK i \in Rest : \A k \in Rest : i <= k
  <2> HIDE DEF Rest
  <2> QED  BY <1>4, <1>5, LeastNat
<1>7. i \in 1 .. n /\ t[i] \notin ToSet(o)  OBVIOUS
<1>8. \A j \in 1 .. i - 1 : t[j] \in ToSet(o)
  <2> TAKE j \in 1 .. i - 1
  <2>1. j \in 1 .. n /\ ~(i <= j)  BY <1>1, <1>7
  <2> QED  BY <1>6, <2>1
<1>9. t[i] \in ReadyIn(enabled, Edges(enabled, rules), ToSet(o))
  <2> HIDE DEF Rest
  <2> QED  BY <1>7, <1>8, TopologicalReady
<1> QED  BY <1>9

\* What ValidateAsync() and resolve_load_order() return, for every profile
\* and every set of constraints among its mods: the order that respects
\* the constraints and otherwise keeps closest to the profile's, and none
\* exactly when the constraints have a cycle.
THEOREM OrderAlwaysLeast ==
  ASSUME NEW S, NEW enabled \in Seq(S), Distinct(enabled), NEW rules
  PROVE  OrderIsLeast(enabled, rules)
<1> DEFINE E == Edges(enabled, rules)
           o == OrderedIds(enabled, rules)
           Orders == {s \in SetToSeqs(Ids(enabled)) : Topological(s, E)}
<1>1. LeastOrders(enabled, rules) =
        {s \in Orders : \A t \in Orders : s = t \/ Earlier(enabled, s, t)}
  BY DEF LeastOrders
<1>2. /\ Greedy(enabled, E, o) /\ Len(o) <= Len(enabled)
      /\ Len(o) = Len(enabled) \/ ReadyIn(enabled, E, ToSet(o)) = {}
  BY OrderedIsGreedy
<1>3. Acyclic(enabled, rules) <=> Len(o) = Len(enabled)  BY DEF Acyclic
<1>4. CASE Len(o) = Len(enabled)
  <2>1. o \in Orders
    <3> HIDE DEF o
    <3> QED  BY <1>2, <1>4, GreedyIsTopological
  <2>2. ASSUME NEW t \in Orders, t # o PROVE Earlier(enabled, o, t)
    <3> HIDE DEF o
    <3> QED  BY <1>2, <1>4, <2>2, GreedyIsEarlier
  <2>3. ASSUME NEW s \in Orders, Earlier(enabled, s, o), s # o PROVE FALSE
    <3>1. Earlier(enabled, o, s)  BY <2>2, <2>3
    <3> HIDE DEF o
    <3> QED  BY <2>1, <2>3, <3>1, EarlierIsStrict
  <2> HIDE DEF o, Orders
  <2>4. {s \in Orders : \A t \in Orders : s = t \/ Earlier(enabled, s, t)} = {o}
    BY <2>1, <2>2, <2>3
  <2> QED  BY <1>1, <1>3, <1>4, <2>4 DEF OrderIsLeast, o
<1>5. CASE Len(o) # Len(enabled)
  <2>1. Len(o) < Len(enabled) /\ o \in Seq(Ids(enabled))
    <3>1. o \in Seq(Ids(enabled))  BY <1>2 DEF Greedy
    <3> HIDE DEF o
    <3> QED  BY <1>2, <1>5, <3>1
  <2>2. Orders = {}
    <3> HIDE DEF o
    <3> QED  BY <1>2, <1>5, <2>1, StuckIsCyclic
  <2> HIDE DEF Orders, o
  <2> QED  BY <1>1, <1>3, <1>5, <2>2 DEF OrderIsLeast
<1> QED  BY <1>4, <1>5

-----------------------------------------------------------------------------
(* The inductive invariant of the manager's tasks.                         *)

\* A profile's file, and a task that works on one.
FileOK(n) ==
    file[n] # Nothing =>
        /\ file[n] = Profile(file[n].pid, file[n].mods, file[n].checked)
        /\ file[n].pid \in 0 .. begun /\ IsList(file[n].mods)

HasProfile == {"check", "reload", "replace", "new", "old"}
TaskFields == {"at", "name", "to", "then", "pid", "mods", "checked", "alone"}
TaskOK(t) ==
    /\ task[t].at = "idle" <=> task[t] = Idle
    /\ Busy(t) =>
        /\ task[t].alone \in BOOLEAN
        /\ task[t].at \in HasProfile \cup {"uninstall"}
        /\ task[t].at = "uninstall" =>
             DOMAIN task[t] = {"at", "package", "alone"} /\ task[t].package \in Packages
        /\ task[t].at \in HasProfile =>
             /\ DOMAIN task[t] = TaskFields /\ task[t].name \in Names /\ task[t].to \in Names
             /\ task[t].pid \in 0 .. begun /\ IsList(task[t].mods)
        /\ task[t].at = "new" => task[t].then \in {"idle", "reload", "old"}
        /\ task[t].at = "new" /\ task[t].then = "old" => task[t].name # task[t].to
        /\ task[t].at = "old" => task[t].then = "idle" /\ task[t].name # task[t].to

\* A list with an order and its packages.
Good(mods, rules, packages) ==
    Resolves(Enabled(mods), rules) /\ ToSet(Enabled(mods)) \subseteq packages
Held == installed \cup raced

\* What a task is going to write was validated, or is marked as imported.
Writing == {"reload", "replace", "new", "old"}
WillWrite(t) ==
    task[t].at \in Writing /\ task[t].checked = TRUE => Good(task[t].mods, manifest, Held)

\* A task that runs alone finds the files as it loaded them, or deleted.
Mine(t, n) == file[n] = Nothing \/ file[n].pid = task[t].pid
Undisturbed(t) ==
    Busy(t) /\ task[t].alone = TRUE =>
        /\ \A u \in Tasks \ {t} : ~Busy(u)
        /\ task[t].at = "uninstall" => \A n \in Names : ~Refers(n, task[t].package)
        /\ task[t].at = "replace" => Mine(t, task[t].name)
        /\ task[t].at = "new" /\ task[t].then = "old" => Mine(t, task[t].name)
        /\ task[t].at = "old" => Mine(t, task[t].name) /\ Mine(t, task[t].to)

\* The ID of a profile that is being created is nobody else's.
Fresh(t) ==
    task[t].at = "new" /\ task[t].then # "old" =>
        /\ task[t].pid \notin live
        /\ \A n \in Names : file[n].pid # task[t].pid
        /\ \A u \in Tasks \ {t} : task[u].at \in HasProfile => task[u].pid # task[t].pid

\* Every rename under way takes one file away at most, and one more stays.
Copies(pid) == {n \in Names : file[n].pid = pid}
Leaving(pid) == {t \in Tasks : task[t].at = "old" /\ task[t].pid = pid}
Spared(pid) == Cardinality(Leaving(pid)) < Cardinality(Copies(pid))

FilesOK ==
    /\ DOMAIN file = Names /\ \A n \in Names : FileOK(n)
    /\ \A n \in Names :
         file[n] # Nothing /\ file[n].checked = TRUE => Good(file[n].mods, manifest, Held)
TasksOK ==
    /\ DOMAIN task = Tasks
    /\ \A t \in Tasks : TaskOK(t) /\ WillWrite(t) /\ Undisturbed(t) /\ Fresh(t)
ProfilesInv ==
    /\ begun \in Nat /\ live \subseteq 0 .. begun /\ installed \subseteq Packages
    /\ FilesOK /\ TasksOK
    /\ \A pid \in live : Spared(pid)

-----------------------------------------------------------------------------
(* Lists.                                                                  *)

\* What is enabled in a list is in it.
LEMMA EnabledAreIn ==
  ASSUME NEW mods, IsList(mods), NEW p \in ToSet(Enabled(mods))
  PROVE  Entry(p, TRUE) \in ToSet(mods)
<1> DEFINE T == {m \in ToSet(mods) : m.enabled}
           on == Among(mods, T)
<1>1. PICK e : Picks(e, on, mods, T, Len(mods))
  BY AmongPicks DEF IsList
<1>2. Enabled(mods) = [i \in 1 .. Len(on) |-> [id |-> on[i].id, version |-> on[i].version]]
  BY DEF Enabled
<1> HIDE DEF on
<1>3. PICK i \in 1 .. Len(on) : p = [id |-> on[i].id, version |-> on[i].version]
  BY <1>2 DEF ToSet
<1>4. on[i] \in T  BY <1>1 DEF Picks
<1> DEFINE m == on[i]
<1>5. m \in ToSet(mods) /\ m.enabled /\ m.enabled \in BOOLEAN /\ m = Entry(m, m.enabled)
  BY <1>4 DEF IsList, IsEntry
<1>6. m.enabled = TRUE
  <2> HIDE DEF m
  <2> QED  BY <1>5
<1> HIDE DEF m
<1>7. Entry(p, TRUE) = Entry(m, m.enabled)
  BY <1>3, <1>6 DEF Entry, m
<1> QED  BY <1>5, <1>7

\* The empty list resolves.
LEMMA EmptyIsGood ==
  ASSUME NEW rules, NEW packages
  PROVE  IsList(<<>>) /\ Good(<<>>, rules, packages)
<1>1. IsList(<<>>)  BY DEF IsList, ToSet
<1>2. Enabled(<<>>) = <<>>
  <2> DEFINE T == {m \in ToSet(<<>>) : m.enabled}
             on == Among(<<>>, T)
  <2>1. <<>> \in Seq({})  OBVIOUS
  <2>2. PICK e : on \in Seq({}) /\ Picks(e, on, <<>>, T, Len(<<>>))
    BY <2>1, AmongPicks
  <2>3. Enabled(<<>>) = [i \in 1 .. Len(on) |-> [id |-> on[i].id, version |-> on[i].version]]
    BY DEF Enabled
  <2> HIDE DEF on
  <2>4. on = <<>>  BY <2>2
  <2> QED  BY <2>3, <2>4
<1>3. Resolves(<<>>, rules)
  <2>1. <<>> \in Seq({}) /\ Len(<<>>) = 0  OBVIOUS
  <2>2. DependenciesMet(<<>>, rules)  BY DEF DependenciesMet
  <2> DEFINE o == OrderedIds(<<>>, rules)
  <2>3. Greedy(<<>>, Edges(<<>>, rules), o) /\ Len(o) <= 0
    BY <2>1, OrderedIsGreedy
  <2> HIDE DEF o
  <2>4. Len(o) = 0  BY <2>3 DEF Greedy
  <2> QED  BY <2>1, <2>2, <2>4 DEF Resolves, Acyclic, o
<1>4. ToSet(<<>>) = {}  BY DEF ToSet
<1> QED  BY <1>1, <1>2, <1>3, <1>4 DEF Good

\* A list may be put together from entries.
LEMMA ListOf ==
  ASSUME NEW S, \A m \in S : IsEntry(m), NEW mods \in Seq(S)
  PROVE  IsList(mods)
<1>1. \A i \in 1 .. Len(mods) : mods[i] \in S  BY ElementOfSeq
<1>2. DOMAIN mods = 1 .. Len(mods)  OBVIOUS
<1>3. \A m \in ToSet(mods) : m \in S  BY <1>1, <1>2 DEF ToSet
<1>4. mods \in Seq(ToSet(mods))
  <2>1. mods \in [1 .. Len(mods) -> ToSet(mods)]  BY <1>2 DEF ToSet
  <2>2. Len(mods) \in Nat  OBVIOUS
  <2> HIDE DEF ToSet
  <2> QED  BY <2>1, <2>2
<1> QED  BY <1>3, <1>4 DEF IsList

\* An entry is one.
LEMMA EntryIs ==
  ASSUME NEW p, NEW b \in BOOLEAN
  PROVE  IsEntry(Entry(p, b))
  BY DEF IsEntry, Entry

\* A list without one of its entries.
LEMMA TakenOut ==
  ASSUME NEW S, NEW s \in Seq(S), NEW i \in 1 .. Len(s)
  PROVE  RemoveAt(s, i) \in Seq(S) /\ Len(RemoveAt(s, i)) = Len(s) - 1
<1> DEFINE n == Len(s)
<1>1. n \in Nat /\ i \in Int /\ \A k \in 1 .. n : s[k] \in S  BY ElementOfSeq
<1> HIDE DEF n
<1>2. SubSeq(s, 1, i - 1) \in Seq(S) /\ Len(SubSeq(s, 1, i - 1)) = i - 1
  <2>1. \A k \in 1 .. i - 1 : s[k] \in S  BY <1>1 DEF n
  <2>2. /\ SubSeq(s, 1, i - 1) \in Seq(S)
        /\ Len(SubSeq(s, 1, i - 1)) = IF 1 <= i - 1 THEN i - 1 - 1 + 1 ELSE 0
    BY <1>1, <2>1, SubSeqProperties
  <2> QED  BY <2>2
<1>3. SubSeq(s, i + 1, n) \in Seq(S) /\ Len(SubSeq(s, i + 1, n)) = n - i
  <2>1. \A k \in i + 1 .. n : s[k] \in S  BY <1>1
  <2>2. /\ SubSeq(s, i + 1, n) \in Seq(S)
        /\ Len(SubSeq(s, i + 1, n)) = IF i + 1 <= n THEN n - (i + 1) + 1 ELSE 0
    BY <1>1, <2>1, SubSeqProperties
  <2> QED  BY <1>1, <2>2 DEF n
<1> QED  BY <1>1, <1>2, <1>3, ConcatProperties DEF RemoveAt, n

\* A list with one entry more.
LEMMA PutIn ==
  ASSUME NEW S, NEW s \in Seq(S), NEW j \in 1 .. Len(s) + 1, NEW x \in S
  PROVE  InsertAt(s, j, x) \in Seq(S)
<1> DEFINE n == Len(s)
<1>1. n \in Nat /\ j \in Int /\ \A k \in 1 .. n : s[k] \in S  BY ElementOfSeq
<1> HIDE DEF n
<1>2. SubSeq(s, 1, j - 1) \in Seq(S)
  <2>1. \A k \in 1 .. j - 1 : s[k] \in S  BY <1>1 DEF n
  <2> QED  BY <1>1, <2>1, SubSeqProperties
<1>3. SubSeq(s, j, n) \in Seq(S)
  <2>1. \A k \in j .. n : s[k] \in S  BY <1>1
  <2> QED  BY <1>1, <2>1, SubSeqProperties
<1>4. <<x>> \in Seq(S)  OBVIOUS
<1>5. SubSeq(s, 1, j - 1) \o <<x>> \in Seq(S)  BY <1>2, <1>4, ConcatProperties
<1> QED  BY <1>3, <1>5, ConcatProperties DEF InsertAt, n

\* Every change of a list leaves a list.
LEMMA ChangesAreLists ==
  ASSUME NEW old, IsList(old), NEW mods \in Changes(old)
  PROVE  IsList(mods)
<1> DEFINE S == {m \in ToSet(old) : TRUE}
           n == Len(old)
<1>1. old \in Seq(ToSet(old)) /\ \A m \in ToSet(old) : IsEntry(m)  BY DEF IsList
<1>2. n \in Nat /\ \A i \in 1 .. n : old[i] \in ToSet(old)  BY <1>1, ElementOfSeq
<1>3. ASSUME NEW e, IsEntry(e)
      PROVE  /\ \A m \in ToSet(old) \cup {e} : IsEntry(m)
             /\ old \in Seq(ToSet(old) \cup {e})
  <2>1. \A m \in ToSet(old) \cup {e} : IsEntry(m)  BY <1>1, <1>3
  <2>2. ToSet(old) \subseteq ToSet(old) \cup {e}  OBVIOUS
  <2> HIDE DEF ToSet
  <2> QED  BY <1>1, <2>1, <2>2, SeqMonotonic
<1>4. ASSUME NEW p \in Packages PROVE IsList(Enable(old, p))
  <2> DEFINE e == Entry(p, TRUE)
             T == ToSet(old) \cup {e}
  <2>1. /\ \A m \in T : IsEntry(m)
        /\ old \in Seq(T)
    BY <1>3, EntryIs
  <2>2. e \in T  OBVIOUS
  <2> HIDE DEF e, T
  <2>3. CASE Holding(old, p.id) = {}
    <3>1. Append(old, e) \in Seq(T)  BY <2>1, <2>2, AppendProperties
    <3>2. IsList(Append(old, e))  BY <2>1, <3>1, ListOf
    <3> QED  BY <2>3, <3>2 DEF Enable, e
  <2>4. CASE Holding(old, p.id) # {}
    <3> DEFINE r == [i \in 1 .. n |-> IF old[i].id = p.id THEN e ELSE old[i]]
    <3>1. \A i \in 1 .. n : old[i] \in T  BY <2>1, ElementOfSeq
    <3>2. r \in [1 .. n -> T]  BY <2>2, <3>1
    <3>3. r \in Seq(T)
      <4> HIDE DEF r
      <4> QED  BY <1>2, <3>2
    <3>4. IsList(r)
      <4> HIDE DEF r
      <4> QED  BY <2>1, <3>3, ListOf
    <3> QED  BY <2>4, <3>4 DEF Enable, e
  <2> QED  BY <2>3, <2>4
<1>5. ASSUME NEW i \in 1 .. n, NEW r, NEW e, IsEntry(e), r = [old EXCEPT ![i] = e]
      PROVE  IsList(r)
  <2> DEFINE T == ToSet(old) \cup {e}
  <2>1. (\A m \in T : IsEntry(m)) /\ old \in Seq(T) /\ e \in T  BY <1>3, <1>5
  <2> HIDE DEF T
  <2>2. r \in Seq(T)  BY <1>5, <2>1, ExceptSeq
  <2> QED  BY <2>1, <2>2, ListOf
<1>6. ASSUME NEW i \in 1 .. n PROVE IsList(Disable(old, i))
  <2> DEFINE e == [old[i] EXCEPT !.enabled = FALSE]
  <2>1. \A m, v : m = [id |-> m.id, version |-> m.version, enabled |-> m.enabled]
              => [m EXCEPT !.enabled = v] = [id |-> m.id, version |-> m.version, enabled |-> v]
    OBVIOUS
  <2> DEFINE m == old[i]
  <2>2. m = [id |-> m.id, version |-> m.version, enabled |-> m.enabled]
    BY <1>1, <1>2 DEF IsEntry, Entry
  <2> HIDE DEF m
  <2>5. [m EXCEPT !.enabled = FALSE] = [id |-> m.id, version |-> m.version, enabled |-> FALSE]
    BY <2>1, <2>2, Zenon
  <2>6. e = Entry(m, FALSE)  BY <2>5 DEF Entry, m
  <2>3. IsEntry(e)
    <3> HIDE DEF e
    <3> QED  BY <2>6, EntryIs
  <2>4. Disable(old, i) = [old EXCEPT ![i] = e]  BY DEF Disable
  <2> HIDE DEF e
  <2> QED  BY <1>5, <2>3, <2>4
<1>7. ASSUME NEW i \in 1 .. n, NEW v PROVE IsList(ChangeVersion(old, i, v))
  <2> DEFINE e == [old[i] EXCEPT !.version = v]
  <2>1. old[i] = Entry(old[i], old[i].enabled) /\ old[i].enabled \in BOOLEAN
    BY <1>1, <1>2 DEF IsEntry
  <2>2. e = Entry([id |-> old[i].id, version |-> v], old[i].enabled)  BY <2>1 DEF Entry
  <2>3. IsEntry(e)  BY <2>1, <2>2, EntryIs
  <2>4. ChangeVersion(old, i, v) = [old EXCEPT ![i] = e]  BY DEF ChangeVersion
  <2> HIDE DEF e
  <2> QED  BY <1>5, <2>3, <2>4
<1>8. ASSUME NEW i \in 1 .. n PROVE IsList(TakeOut(old, i))
  <2>1. RemoveAt(old, i) \in Seq(ToSet(old))  BY <1>1, TakenOut
  <2> QED  BY <1>1, <2>1, ListOf DEF TakeOut
<1>9. ASSUME NEW i \in 1 .. n, NEW j \in 1 .. n PROVE IsList(Move(old, i, j))
  <2> DEFINE r == RemoveAt(old, i)
  <2>1. r \in Seq(ToSet(old)) /\ Len(r) = n - 1  BY <1>1, TakenOut
  <2> HIDE DEF r
  <2>2. j \in 1 .. Len(r) + 1 /\ old[i] \in ToSet(old)  BY <1>2, <2>1
  <2>3. InsertAt(r, j, old[i]) \in Seq(ToSet(old))  BY <2>1, <2>2, PutIn
  <2> QED  BY <1>1, <2>3, ListOf DEF Move, r
<1> QED  BY <1>4, <1>6, <1>7, <1>8, <1>9 DEF Changes

-----------------------------------------------------------------------------
(* What a step of one task does to the others.                             *)

Same(u) ==
    /\ task'[u] = Idle <=> task[u] = Idle
    /\ DOMAIN task'[u] = DOMAIN task[u]
    /\ task'[u].at = task[u].at
    /\ task[u].at \in HasProfile =>
         /\ task'[u].name = task[u].name /\ task'[u].to = task[u].to
         /\ task'[u].then = task[u].then /\ task'[u].pid = task[u].pid
         /\ task'[u].mods = task[u].mods /\ task'[u].checked = task[u].checked
    /\ task[u].at = "uninstall" => task'[u].package = task[u].package

\* The others go on, and none of them was alone.
Passing(u) == Same(u) /\ (Busy(u) => task'[u].alone = FALSE)
Following(t) ==
    /\ DOMAIN task' = Tasks /\ begun' \in Nat /\ begun <= begun'
    /\ \A u \in Tasks \ {t} : Passing(u)

\* A task that is no longer alone is otherwise the same.
LEMMA AloneIsCleared ==
  ASSUME ProfilesInv, NEW u \in Tasks, Busy(u), task'[u] = [task[u] EXCEPT !.alone = FALSE]
  PROVE  Passing(u)
<1> DEFINE r == task[u]
           q == [r EXCEPT !.alone = FALSE]
<1>1. TaskOK(u)  BY DEF ProfilesInv, TasksOK
<1>2. r.at \in HasProfile => DOMAIN r = TaskFields  BY <1>1 DEF TaskOK
<1>3. r.at = "uninstall" => DOMAIN r = {"at", "package", "alone"}  BY <1>1 DEF TaskOK
<1>4. r.at \in HasProfile \cup {"uninstall"}  BY <1>1 DEF TaskOK
<1>5. DOMAIN q = DOMAIN r /\ \A f \in DOMAIN r : q[f] = IF f = "alone" THEN FALSE ELSE r[f]
  OBVIOUS
<1>6. task'[u] = q  OBVIOUS
<1> HIDE DEF q, r
<1>7. "at" \in DOMAIN r /\ "alone" \in DOMAIN r  BY <1>2, <1>3, <1>4 DEF TaskFields
<1>8. q.at = r.at /\ q.alone = FALSE  BY <1>5, <1>7
<1>9. r.at \in HasProfile =>
        /\ q.name = r.name /\ q.to = r.to /\ q.then = r.then /\ q.pid = r.pid
        /\ q.mods = r.mods /\ q.checked = r.checked
  BY <1>2, <1>5 DEF TaskFields
<1>10. r.at = "uninstall" => q.package = r.package  BY <1>3, <1>5
<1>11. q # Idle
  <2>1. DOMAIN Idle = {"at"}  BY DEF Idle
  <2>2. "alone" \notin DOMAIN Idle  BY <2>1
  <2> QED  BY <1>5, <1>7, <2>2
<1>12. r # Idle  BY DEF Busy, r
<1>13. Same(u)
  BY <1>5, <1>6, <1>8, <1>9, <1>10, <1>11, <1>12 DEF Same, r
<1> QED  BY <1>6, <1>8, <1>13 DEF Passing, r

\* While a task works, the others stay.
LEMMA WorkerFollows ==
  ASSUME ProfilesInv, NEW t \in Tasks, Busy(t), NEW r, task' = [task EXCEPT ![t] = r],
         begun' = begun
  PROVE  Following(t) /\ task'[t] = r
<1>1. DOMAIN task = Tasks /\ begun \in Nat  BY DEF ProfilesInv, TasksOK
<1>2. ASSUME NEW u \in Tasks \ {t} PROVE Passing(u)
  <2>1. task'[u] = task[u]  BY <1>1
  <2>2. Same(u)  BY <2>1 DEF Same
  <2>3. Undisturbed(u) /\ TaskOK(u)  BY DEF ProfilesInv, TasksOK
  <2>4. Busy(u) => task[u].alone \in BOOLEAN  BY <2>3 DEF TaskOK
  <2>5. ~ (Busy(u) /\ task[u].alone = TRUE)  BY <2>3 DEF Undisturbed
  <2>6. Busy(u) => task[u].alone = FALSE  BY <2>4, <2>5
  <2> QED  BY <2>1, <2>2, <2>6 DEF Passing
<1> QED  BY <1>1, <1>2 DEF Following

\* A task that begins is alone when no other works.
LEMMA BeginnerFollows ==
  ASSUME ProfilesInv, NEW t \in Tasks, NEW r, Begin(t, r)
  PROVE  /\ Following(t) /\ ~Busy(t) /\ begun' = begun + 1
         /\ task'[t] = [r EXCEPT !.alone = {u \in Tasks \ {t} : Busy(u)} = {}]
<1> DEFINE others == {u \in Tasks \ {t} : Busy(u)}
<1>1. DOMAIN task = Tasks /\ begun \in Nat  BY DEF ProfilesInv, TasksOK
<1>2. /\ ~Busy(t) /\ begun' = begun + 1
      /\ task' = [u \in Tasks |-> IF u = t THEN [r EXCEPT !.alone = others = {}]
                                  ELSE IF u \in others THEN [task[u] EXCEPT !.alone = FALSE]
                                  ELSE task[u]]
  BY DEF Begin
<1>3. ASSUME NEW u \in Tasks \ {t} PROVE Passing(u)
  <2>1. CASE Busy(u)
    <3>1. u \in others  BY <2>1
    <3> HIDE DEF others
    <3>2. task'[u] = [task[u] EXCEPT !.alone = FALSE]  BY <1>2, <3>1
    <3> QED  BY <2>1, <3>2, AloneIsCleared
  <2>2. CASE ~Busy(u)
    <3>1. u \notin others  BY <2>2
    <3> HIDE DEF others
    <3>2. task'[u] = task[u]  BY <1>2, <3>1
    <3> QED  BY <2>2, <3>2 DEF Passing, Same
  <2> QED  BY <2>1, <2>2
<1>4. task'[t] = [r EXCEPT !.alone = others = {}]
  <2> HIDE DEF others
  <2> QED  BY <1>2
<1>5. DOMAIN task' = Tasks
  <2> HIDE DEF others
  <2> QED  BY <1>2
<1> HIDE DEF others
<1>6. Following(t)  BY <1>1, <1>2, <1>3, <1>5 DEF Following
<1> QED  BY <1>2, <1>4, <1>6 DEF others

\* What the others know of themselves stays true.
LEMMA OthersKeepType ==
  ASSUME ProfilesInv, NEW t \in Tasks, Following(t), NEW u \in Tasks \ {t}
  PROVE  TaskOK(u)'
<1>1. TaskOK(u) /\ Passing(u) /\ begun \in Nat /\ begun' \in Nat /\ begun <= begun'
  BY DEF ProfilesInv, TasksOK, Following
<1>2. Same(u) /\ (Busy(u) => task'[u].alone = FALSE)  BY <1>1 DEF Passing
<1>3. (task'[u].at = "idle") <=> (task'[u] = Idle)  BY <1>1, <1>2 DEF TaskOK, Same
<1>4. CASE ~Busy(u)
  <2>1. task'[u] = Idle  BY <1>2, <1>4 DEF Same, Busy
  <2> QED  BY <1>3, <2>1 DEF TaskOK, Busy
<1>5. CASE Busy(u)
  <2>1. task'[u].alone \in BOOLEAN  BY <1>2, <1>5
  <2>2. task'[u].at \in HasProfile \cup {"uninstall"}  BY <1>1, <1>2, <1>5 DEF TaskOK, Same
  <2>3. task'[u].at = "uninstall" =>
          DOMAIN task'[u] = {"at", "package", "alone"} /\ task'[u].package \in Packages
    BY <1>1, <1>2, <1>5 DEF TaskOK, Same
  <2>4. task'[u].at \in HasProfile =>
          /\ DOMAIN task'[u] = TaskFields /\ task'[u].name \in Names /\ task'[u].to \in Names
          /\ task'[u].pid \in 0 .. begun' /\ IsList(task'[u].mods)
    BY <1>1, <1>2, <1>5 DEF TaskOK, Same
  <2>5. task'[u].at = "new" => task'[u].then \in {"idle", "reload", "old"}
    BY <1>1, <1>2, <1>5 DEF TaskOK, Same, HasProfile
  <2>6. task'[u].at = "new" /\ task'[u].then = "old" => task'[u].name # task'[u].to
    BY <1>1, <1>2, <1>5 DEF TaskOK, Same, HasProfile
  <2>7. task'[u].at = "old" => task'[u].then = "idle" /\ task'[u].name # task'[u].to
    BY <1>1, <1>2, <1>5 DEF TaskOK, Same, HasProfile
  <2> QED  BY <1>3, <2>1, <2>2, <2>3, <2>4, <2>5, <2>6, <2>7 DEF TaskOK
<1> QED  BY <1>4, <1>5

\* More packages do no harm to a list.
LEMMA GoodKept ==
  ASSUME NEW mods, NEW rules, NEW old, NEW new, old \subseteq new, Good(mods, rules, old)
  PROVE  Good(mods, rules, new)
<1> DEFINE s == ToSet(Enabled(mods))
<1>1. s \subseteq old /\ Resolves(Enabled(mods), rules)  BY DEF Good
<1> HIDE DEF s
<1>2. s \subseteq new  BY <1>1
<1> QED  BY <1>1, <1>2 DEF Good, s

\* What the others are going to write is still good while packages do not go.
LEMMA OthersKeepLists ==
  ASSUME ProfilesInv, NEW t \in Tasks, Following(t), NEW u \in Tasks \ {t},
         manifest' = manifest, Held \subseteq Held'
  PROVE  WillWrite(u)'
<1>1. WillWrite(u) /\ Same(u)  BY DEF ProfilesInv, TasksOK, Following, Passing
<1>2. ASSUME task'[u].at \in Writing, task'[u].checked = TRUE
      PROVE  Good(task'[u].mods, manifest', Held')
  <2>1. task[u].at \in HasProfile  BY <1>1, <1>2 DEF Same, Writing, HasProfile
  <2>2. task[u].checked = TRUE /\ task[u].at \in Writing /\ task'[u].mods = task[u].mods
    BY <1>1, <1>2, <2>1 DEF Same
  <2>3. Good(task[u].mods, manifest, Held)  BY <1>1, <2>2 DEF WillWrite
  <2> QED  BY <2>2, <2>3, GoodKept
<1> QED  BY <1>2 DEF WillWrite

\* A task beside another is not alone, and has nothing to find undisturbed.
LEMMA OthersAreNotAlone ==
  ASSUME ProfilesInv, NEW t \in Tasks, Following(t), NEW u \in Tasks \ {t}
  PROVE  Undisturbed(u)' /\ (Busy(u)' <=> Busy(u))
<1>1. Passing(u)  BY DEF Following
<1>2. Busy(u)' <=> Busy(u)  BY <1>1 DEF Passing, Same, Busy
<1>3. Busy(u)' => task'[u].alone = FALSE  BY <1>1, <1>2 DEF Passing
<1> QED  BY <1>2, <1>3 DEF Undisturbed

\* The profiles a step of t may use the IDs of.
Owned(t, P) ==
    \A p \in P : \/ p = -1 \/ p = begun + 1 \/ \E n \in Names : file[n].pid = p
                 \/ task[t].at \in HasProfile /\ task[t].pid = p
Uses(t, P) ==
    /\ Owned(t, P)
    /\ live' \subseteq live \cup P
    /\ \A n \in Names : file'[n].pid \in P \/ file'[n].pid = file[n].pid
    /\ task'[t].at \in HasProfile => task'[t].pid \in P

\* A step of t uses no ID of a profile another task is creating.
LEMMA OthersStayFresh ==
  ASSUME ProfilesInv, NEW t \in Tasks, Following(t), NEW u \in Tasks \ {t}, NEW P, Uses(t, P)
  PROVE  Fresh(u)'
<1>1. /\ Same(u) /\ TaskOK(u) /\ Fresh(u) /\ begun \in Nat
      /\ \A v \in Tasks \ {t} : Same(v)
  BY DEF ProfilesInv, TasksOK, Following, Passing
<1> DEFINE mine == task[u].pid
<1>2. SUFFICES ASSUME task'[u].at = "new", task'[u].then # "old"
               PROVE  /\ task'[u].pid \notin live'
                      /\ \A n \in Names : file'[n].pid # task'[u].pid
                      /\ \A v \in Tasks \ {u} :
                           task'[v].at \in HasProfile => task'[v].pid # task'[u].pid
  BY DEF Fresh
<1>3. task[u].at = "new" /\ task[u].then # "old" /\ task'[u].pid = mine
  BY <1>1, <1>2 DEF Same, HasProfile
<1>4. mine \notin live /\ (\A n \in Names : file[n].pid # mine)
      /\ \A v \in Tasks \ {u} : task[v].at \in HasProfile => task[v].pid # mine
  BY <1>1, <1>3 DEF Fresh
<1>5. mine \in 0 .. begun
  <2>1. Busy(u)  BY <1>1, <1>3 DEF TaskOK, Busy
  <2> QED  BY <1>1, <1>3, <2>1 DEF TaskOK, HasProfile
<1> HIDE DEF mine
<1>6. mine # -1 /\ mine # begun + 1  BY <1>1, <1>5
<1>7. mine \notin P  BY <1>4, <1>6 DEF Uses, Owned
<1>8. mine \notin live'  BY <1>4, <1>7 DEF Uses
<1>9. \A n \in Names : file'[n].pid # mine  BY <1>4, <1>7 DEF Uses
<1>10. ASSUME NEW v \in Tasks \ {u}, task'[v].at \in HasProfile
       PROVE  task'[v].pid # mine
  <2>1. CASE v = t  BY <1>7, <1>10, <2>1 DEF Uses
  <2>2. CASE v # t
    <3>1. Same(v)  BY <1>1, <2>2
    <3>2. task[v].at \in HasProfile /\ task'[v].pid = task[v].pid  BY <1>10, <3>1 DEF Same
    <3> QED  BY <1>4, <3>2
  <2> QED  BY <2>1, <2>2
<1> QED  BY <1>3, <1>8, <1>9, <1>10

\* A step of t that keeps its own part of the invariant keeps all of it.
LEMMA StepKeepsLists ==
  ASSUME ProfilesInv, NEW t \in Tasks, Following(t), NEW P, Uses(t, P),
         live' \subseteq 0 .. begun', installed' \subseteq Packages, FilesOK',
         \A u \in Tasks : WillWrite(u)',
         TaskOK(t)', Undisturbed(t)', Fresh(t)', \A pid \in live' : Spared(pid)'
  PROVE  ProfilesInv'
<1>1. \A u \in Tasks : TaskOK(u)'  BY OthersKeepType
<1>2. \A u \in Tasks : Undisturbed(u)'  BY OthersAreNotAlone
<1>3. \A u \in Tasks : Fresh(u)'  BY OthersStayFresh
<1>4. TasksOK'  BY <1>1, <1>2, <1>3 DEF TasksOK, Following
<1> QED  BY <1>4 DEF ProfilesInv, Following

\* The same when no package goes.
LEMMA StepKeeps ==
  ASSUME ProfilesInv, NEW t \in Tasks, Following(t), manifest' = manifest,
         Held \subseteq Held', NEW P, Uses(t, P), live' \subseteq 0 .. begun',
         installed' \subseteq Packages, FilesOK',
         TaskOK(t)', WillWrite(t)', Undisturbed(t)', Fresh(t)',
         \A pid \in live' : Spared(pid)'
  PROVE  ProfilesInv'
<1>1. \A u \in Tasks : WillWrite(u)'  BY OthersKeepLists
<1> QED  BY <1>1, StepKeepsLists

\* Counts.
LEMMA SparedWhile ==
  ASSUME NEW pid, Spared(pid), Leaving(pid)' \subseteq Leaving(pid),
         Copies(pid) \subseteq Copies(pid)'
  PROVE  Spared(pid)'
<1>1. IsFiniteSet(Leaving(pid)) /\ IsFiniteSet(Copies(pid)')
  <2>1. Leaving(pid) \subseteq Tasks /\ Copies(pid)' \subseteq Names  BY DEF Leaving, Copies
  <2> QED  BY <2>1, FS_Subset, FiniteAssumption
<1>2. IsFiniteSet(Copies(pid)) /\ Cardinality(Copies(pid)) <= Cardinality(Copies(pid)')
  BY <1>1, FS_Subset
<1>3. IsFiniteSet(Leaving(pid)') /\ Cardinality(Leaving(pid)') <= Cardinality(Leaving(pid))
  BY <1>1, FS_Subset
<1>4. /\ Cardinality(Leaving(pid)) \in Nat /\ Cardinality(Leaving(pid)') \in Nat
      /\ Cardinality(Copies(pid)) \in Nat /\ Cardinality(Copies(pid)') \in Nat
  BY <1>1, <1>2, <1>3, FS_CardinalityType
<1> DEFINE a == Cardinality(Leaving(pid))
           b == Cardinality(Leaving(pid)')
           c == Cardinality(Copies(pid))
           d == Cardinality(Copies(pid)')
<1>5. a < c /\ b <= a /\ c <= d  BY <1>2, <1>3 DEF Spared
<1>6. a \in Nat /\ b \in Nat /\ c \in Nat /\ d \in Nat  BY <1>4
<1> HIDE DEF a, b, c, d
<1>7. b < d  BY <1>5, <1>6
<1> QED  BY <1>7 DEF b, d, Spared

\* One renaming ends, and one file goes.
LEMMA SparedOneLess ==
  ASSUME NEW pid, Spared(pid), NEW t \in Leaving(pid), Leaving(pid)' = Leaving(pid) \ {t},
         NEW n, Copies(pid) \ {n} \subseteq Copies(pid)'
  PROVE  Spared(pid)'
<1> DEFINE L == Leaving(pid)
           C == Copies(pid)
           D == Copies(pid)'
           rest == C \ {n}
<1>1. IsFiniteSet(L) /\ IsFiniteSet(C) /\ IsFiniteSet(D)
  <2>1. L \subseteq Tasks /\ C \subseteq Names /\ D \subseteq Names  BY DEF Leaving, Copies
  <2> QED  BY <2>1, FS_Subset, FiniteAssumption
<1>2. Cardinality(L) < Cardinality(C)  BY DEF Spared
<1>3. t \in L /\ rest \subseteq D  OBVIOUS
<1>4. SUFFICES Cardinality(L \ {t}) < Cardinality(D)  BY DEF Spared
<1> HIDE DEF L, C, D
<1>5. Cardinality(L \ {t}) = Cardinality(L) - 1  BY <1>1, <1>3, FS_RemoveElement
<1>6. IsFiniteSet(rest) /\ Cardinality(rest) >= Cardinality(C) - 1
  <2>1. Cardinality(C) \in Nat  BY <1>1, FS_CardinalityType
  <2>2. /\ IsFiniteSet(rest)
        /\ Cardinality(rest) = IF n \in C THEN Cardinality(C) - 1 ELSE Cardinality(C)
    BY <1>1, FS_RemoveElement
  <2> HIDE DEF rest
  <2> QED  BY <2>1, <2>2
<1>7. Cardinality(rest) <= Cardinality(D)  BY <1>1, <1>3, FS_Subset
<1>8. /\ Cardinality(L) \in Nat /\ Cardinality(C) \in Nat /\ Cardinality(D) \in Nat
      /\ Cardinality(rest) \in Nat
  BY <1>1, <1>6, FS_CardinalityType
<1> QED  BY <1>2, <1>5, <1>6, <1>7, <1>8

\* One renaming begins, and one file comes.
LEMMA SparedOneMore ==
  ASSUME NEW pid, Spared(pid), NEW t \in Tasks, Leaving(pid)' \subseteq Leaving(pid) \cup {t},
         NEW n, n \notin Copies(pid), Copies(pid) \cup {n} \subseteq Copies(pid)'
  PROVE  Spared(pid)'
<1> DEFINE L == Leaving(pid)
           M == Leaving(pid)'
           C == Copies(pid)
           D == Copies(pid)'
<1>1. IsFiniteSet(L) /\ IsFiniteSet(C) /\ IsFiniteSet(D)
  <2>1. L \subseteq Tasks /\ C \subseteq Names /\ D \subseteq Names  BY DEF Leaving, Copies
  <2> QED  BY <2>1, FS_Subset, FiniteAssumption
<1>2. Cardinality(L) < Cardinality(C)  BY DEF Spared
<1>3. M \subseteq L \cup {t} /\ n \notin C /\ C \cup {n} \subseteq D  OBVIOUS
<1>4. SUFFICES Cardinality(M) < Cardinality(D)  BY DEF Spared
<1> HIDE DEF L, M, C, D
<1>5. IsFiniteSet(L \cup {t}) /\ Cardinality(L \cup {t}) <= Cardinality(L) + 1
  <2>1. Cardinality(L) \in Nat  BY <1>1, FS_CardinalityType
  <2>2. /\ IsFiniteSet(L \cup {t})
        /\ Cardinality(L \cup {t}) =
             IF t \in L THEN Cardinality(L) ELSE Cardinality(L) + 1
    BY <1>1, FS_AddElement
  <2>3. Cardinality(L \cup {t}) <= Cardinality(L) + 1
    <3> DEFINE c == Cardinality(L)
               d == Cardinality(L \cup {t})
    <3>1. c \in Nat /\ (d = c \/ d = c + 1)  BY <2>1, <2>2
    <3> HIDE DEF c, d
    <3>2. d <= c + 1  BY <3>1
    <3> QED  BY <3>2 DEF c, d
  <2> QED  BY <2>2, <2>3
<1>6. IsFiniteSet(M) /\ Cardinality(M) <= Cardinality(L \cup {t})  BY <1>3, <1>5, FS_Subset
<1>7. Cardinality(C \cup {n}) = Cardinality(C) + 1 /\ Cardinality(C \cup {n}) <= Cardinality(D)
  BY <1>1, <1>3, FS_AddElement, FS_Subset
<1>8. /\ Cardinality(L) \in Nat /\ Cardinality(C) \in Nat /\ Cardinality(D) \in Nat
      /\ Cardinality(M) \in Nat /\ Cardinality(L \cup {t}) \in Nat
  BY <1>1, <1>5, <1>6, FS_CardinalityType
<1> QED  BY <1>2, <1>5, <1>6, <1>7, <1>8

\* Only tasks that are renaming leave a file.
LEMMA LeavingIs ==
  ASSUME ProfilesInv, NEW t \in Tasks, Following(t), NEW pid
  PROVE  \A u \in Tasks \ {t} : u \in Leaving(pid)' <=> u \in Leaving(pid)
<1> SUFFICES ASSUME NEW u \in Tasks \ {t} PROVE u \in Leaving(pid)' <=> u \in Leaving(pid)
  OBVIOUS
<1>1. Same(u)  BY DEF Following, Passing
<1> QED  BY <1>1 DEF Same, Leaving, HasProfile

-----------------------------------------------------------------------------
(* The steps of a task that leave the files alone.                         *)

\* Files nobody writes stay good while packages do not go.
LEMMA FilesStay ==
  ASSUME ProfilesInv, file' = file, manifest' = manifest, Held \subseteq Held',
         begun' \in Nat, begun <= begun'
  PROVE  FilesOK'
<1>1. begun \in Nat /\ FilesOK  BY DEF ProfilesInv
<1>2. DOMAIN file' = Names  BY <1>1 DEF FilesOK
<1>3. ASSUME NEW n \in Names PROVE FileOK(n)'
  <2>1. FileOK(n)  BY <1>1 DEF FilesOK
  <2> QED  BY <1>1, <2>1 DEF FileOK
<1>4. ASSUME NEW n \in Names, file'[n] # Nothing, file'[n].checked = TRUE
      PROVE  Good(file'[n].mods, manifest', Held')
  <2>1. Good(file[n].mods, manifest, Held)  BY <1>1, <1>4 DEF FilesOK
  <2> QED  BY <2>1, GoodKept
<1> QED  BY <1>2, <1>3, <1>4 DEF FilesOK

\* No file goes and no renaming gets ready to delete one.
LEMMA SparedSoFar ==
  ASSUME ProfilesInv, NEW t \in Tasks, Following(t), file' = file, task'[t].at # "old",
         NEW pid \in live
  PROVE  Spared(pid)'
<1>1. Spared(pid)  BY DEF ProfilesInv
<1>2. Copies(pid) \subseteq Copies(pid)'  BY DEF Copies
<1>3. Leaving(pid)' \subseteq Leaving(pid)
  <2>1. t \notin Leaving(pid)'  BY DEF Leaving
  <2>2. Leaving(pid)' \subseteq Tasks  BY DEF Leaving
  <2> QED  BY <2>1, <2>2, LeavingIs
<1> QED  BY <1>1, <1>2, <1>3, SparedWhile

\* A step that leaves files and packages alone, and begins no deletion.
LEMMA QuietKeeps ==
  ASSUME ProfilesInv, NEW t \in Tasks, Following(t),
         UNCHANGED <<manifest, file, installed, live, raced>>,
         task'[t].at # "old", NEW P, Owned(t, P),
         task'[t].at \in HasProfile => task'[t].pid \in P,
         TaskOK(t)', WillWrite(t)', Undisturbed(t)', Fresh(t)'
  PROVE  ProfilesInv'
<1>1. Held' = Held /\ manifest' = manifest /\ live' = live /\ file' = file  BY DEF Held
<1>2. begun \in Nat /\ begun' \in Nat /\ begun <= begun'  BY DEF ProfilesInv, Following
<1>3. Uses(t, P)  BY <1>1 DEF Uses
<1>4. FilesOK'  BY <1>1, <1>2, FilesStay
<1>5. \A pid \in live' : Spared(pid)'  BY <1>1, SparedSoFar
<1>6. live' \subseteq 0 .. begun' /\ installed' \subseteq Packages  BY <1>1, <1>2 DEF ProfilesInv
<1> QED  BY <1>1, <1>3, <1>4, <1>5, <1>6, StepKeeps

\* A task that begins with a profile: a new one, or one it loaded.
LEMMA BeginKeeps ==
  ASSUME ProfilesInv, NEW t \in Tasks, NEW at \in {"check", "replace", "new"},
         NEW n \in Names, NEW to \in Names, NEW then \in {"idle", "reload", "old"}, NEW profile,
         Begin(t, ProfileTask(at, n, to, then, profile)),
         UNCHANGED <<manifest, file, installed, live, raced>>,
         IsList(profile.mods), then = "old" => n # to,
         at # "check" /\ profile.checked = TRUE => Good(profile.mods, manifest, Held),
         \/ at = "new" /\ then # "old" /\ profile.pid = begun + 1
         \/ (at = "new" => then = "old") /\ file[n] # Nothing /\ file[n].pid = profile.pid
  PROVE  ProfilesInv'
<1> DEFINE b == {u \in Tasks \ {t} : Busy(u)} = {}
           r == ProfileTask(at, n, to, then, profile)
           pid == profile.pid
           mods == profile.mods
           checked == profile.checked
           q == task'[t]
<1>1. /\ Following(t) /\ ~Busy(t) /\ begun' = begun + 1
      /\ q = [r EXCEPT !.alone = b]
  BY BeginnerFollows
<1>2. b \in BOOLEAN  OBVIOUS
<1>3. begun \in Nat /\ FilesOK /\ TasksOK /\ live \subseteq 0 .. begun  BY DEF ProfilesInv
<1>4. b = TRUE => \A u \in Tasks \ {t} : ~Busy(u)'  BY <1>1, OthersAreNotAlone
<1> HIDE DEF b
<1>5. /\ DOMAIN r = TaskFields /\ r.at = at /\ r.name = n /\ r.to = to /\ r.then = then
      /\ r.pid = pid /\ r.mods = mods /\ r.checked = checked
  BY DEF TaskFields, ProfileTask
<1> HIDE DEF r
<1>20. /\ IsList(mods)
       /\ at # "check" /\ checked = TRUE => Good(mods, manifest, Held)
       /\ \/ at = "new" /\ then # "old" /\ pid = begun + 1
          \/ (at = "new" => then = "old") /\ file[n] # Nothing /\ file[n].pid = pid
  OBVIOUS
<1> HIDE DEF pid, mods, checked
<1>6. DOMAIN q = TaskFields /\ \A f \in TaskFields : q[f] = IF f = "alone" THEN b ELSE r[f]
  <2> HIDE DEF q
  <2> QED  BY <1>20, <1>1, <1>5
<1>7. q.at = at /\ q.name = n /\ q.to = to /\ q.then = then /\ q.pid = pid /\ q.mods = mods
      /\ q.checked = checked /\ q.alone = b
  <2> HIDE DEF q
  <2> QED  BY <1>20, <1>5, <1>6 DEF TaskFields
<1>8. q # Idle
  <2>1. "alone" \notin DOMAIN Idle  BY DEF Idle
  <2>2. "alone" \in TaskFields  BY DEF TaskFields
  <2> HIDE DEF q
  <2> QED  BY <1>20, <1>6, <2>1, <2>2
<1> HIDE DEF q
<1>9. pid \in 0 .. begun'
  <2>1. FileOK(n)  BY <1>20, <1>3 DEF FilesOK
  <2> QED  BY <1>20, <1>1, <1>3, <2>1 DEF FileOK
<1>10. TaskOK(t)'
  <2>1. q.at \in HasProfile /\ q.at # "idle" /\ q.at # "uninstall" /\ q.at # "old"
    BY <1>20, <1>7 DEF HasProfile
  <2> QED  BY <1>20, <1>2, <1>6, <1>7, <1>8, <1>9, <2>1 DEF TaskOK, q
<1>11. WillWrite(t)'
  <2>1. Held' = Held  BY DEF Held
  <2>2. q.at \in Writing => at # "check"  BY <1>20, <1>7 DEF Writing
  <2> QED  BY <1>20, <1>7, <2>1, <2>2 DEF WillWrite, q
<1>12. Undisturbed(t)'
  <2>1. q.alone = TRUE => \A u \in Tasks \ {t} : ~Busy(u)'  BY <1>20, <1>4, <1>7
  <2>2. q.at = "replace" => Mine(t, n)'  BY <1>20, <1>7 DEF Mine, q
  <2>3. q.at = "new" /\ q.then = "old" => Mine(t, n)'  BY <1>20, <1>7 DEF Mine, q
  <2>4. q.at # "uninstall" /\ q.at # "old"  BY <1>20, <1>7
  <2> QED  BY <1>20, <1>7, <2>1, <2>2, <2>3, <2>4 DEF Undisturbed, Mine, q
<1>13. Fresh(t)'
  <2> SUFFICES ASSUME q.at = "new", q.then # "old"
               PROVE  /\ q.pid \notin live'
                      /\ \A m \in Names : file'[m].pid # q.pid
                      /\ \A u \in Tasks \ {t} : task'[u].at \in HasProfile => task'[u].pid # q.pid
    BY DEF Fresh, q
  <2>1. pid = begun + 1  BY <1>20, <1>7
  <2>2. pid \notin live  BY <1>20, <1>3, <2>1
  <2>3. ASSUME NEW m \in Names PROVE file[m].pid # pid
    <3>1. FileOK(m)  BY <1>20, <1>3 DEF FilesOK
    <3>2. CASE file[m] = Nothing
      <4>1. file[m].pid = -1  BY <3>2 DEF Nothing
      <4> QED  BY <1>20, <1>3, <2>1, <4>1
    <3>3. CASE file[m] # Nothing  BY <1>20, <1>3, <2>1, <3>1, <3>3 DEF FileOK
    <3> QED  BY <3>2, <3>3
  <2>4. ASSUME NEW u \in Tasks \ {t}, task'[u].at \in HasProfile PROVE task'[u].pid # pid
    <3>1. Same(u) /\ TaskOK(u)  BY <1>20, <1>1, <1>3 DEF Following, Passing, TasksOK
    <3>2. task[u].at \in HasProfile /\ task'[u].pid = task[u].pid  BY <2>4, <3>1 DEF Same
    <3>3. Busy(u)  BY <3>1, <3>2 DEF TaskOK, Busy, HasProfile
    <3>4. task[u].pid \in 0 .. begun  BY <3>1, <3>2, <3>3 DEF TaskOK
    <3> QED  BY <1>20, <1>3, <2>1, <3>2, <3>4
  <2> QED  BY <1>20, <1>7, <2>2, <2>3, <2>4
<1>14. Owned(t, {pid})  BY <1>20 DEF Owned
<1>15. task'[t].at # "old" /\ task'[t].pid \in {pid}  BY <1>20, <1>7 DEF q
<1> QED  BY <1>20, <1>1, <1>10, <1>11, <1>12, <1>13, <1>14, <1>15, QuietKeeps

\* A change of a list loads the profile and makes the new list.
LEMMA EditLoadsKeeps ==
  ASSUME ProfilesInv, NEW t \in Tasks, EditLoads(t)
  PROVE  ProfilesInv'
<1>1. PICK n \in Names :
         /\ file[n] # Nothing
         /\ \E mods \in Changes(file[n].mods) :
              Begin(t, ProfileTask("check", n, n, "idle", Profile(file[n].pid, mods, TRUE)))
  BY DEF EditLoads
<1>2. PICK mods \in Changes(file[n].mods) :
         Begin(t, ProfileTask("check", n, n, "idle", Profile(file[n].pid, mods, TRUE)))
  BY <1>1
<1>3. FileOK(n)  BY DEF ProfilesInv, FilesOK
<1>4. IsList(mods)  BY <1>1, <1>2, <1>3, ChangesAreLists DEF FileOK
<1>5. UNCHANGED <<manifest, file, installed, live, raced>>  BY DEF EditLoads
<1> DEFINE profile == Profile(file[n].pid, mods, TRUE)
<1>6. profile.pid = file[n].pid /\ profile.mods = mods  BY DEF Profile
<1> HIDE DEF profile
<1>7. Begin(t, ProfileTask("check", n, n, "idle", profile))  BY <1>2 DEF profile
<1> QED  BY <1>1, <1>4, <1>5, <1>6, <1>7, BeginKeeps

\* What a file holds may be written again, unless it was imported and not changed since.
LEMMA FileIsGood ==
  ASSUME ProfilesInv, NEW n \in Names, file[n] # Nothing
  PROVE  /\ IsList(file[n].mods)
         /\ file[n].checked = TRUE => Good(file[n].mods, manifest, Held)
  BY DEF ProfilesInv, FilesOK, FileOK

\* RecordLaunchAsync() loads the profile it writes back.
LEMMA RecordLaunchLoadsKeeps ==
  ASSUME ProfilesInv, NEW t \in Tasks, RecordLaunchLoads(t)
  PROVE  ProfilesInv'
<1>1. PICK n \in Names :
         file[n] # Nothing /\ Begin(t, ProfileTask("replace", n, n, "idle", file[n]))
  BY DEF RecordLaunchLoads
<1>2. UNCHANGED <<manifest, file, installed, live, raced>>  BY DEF RecordLaunchLoads
<1> QED  BY <1>1, <1>2, FileIsGood, BeginKeeps

\* A new profile has an ID of its own and an empty list.
LEMMA CreateBeginsKeeps ==
  ASSUME ProfilesInv, NEW t \in Tasks, CreateBegins(t)
  PROVE  ProfilesInv'
<1>1. PICK n \in Names :
         Begin(t, ProfileTask("new", n, n, "idle", Profile(begun + 1, <<>>, TRUE)))
  BY DEF CreateBegins
<1>2. UNCHANGED <<manifest, file, installed, live, raced>>  BY DEF CreateBegins
<1> DEFINE profile == Profile(begun + 1, <<>>, TRUE)
<1>3. profile.pid = begun + 1 /\ profile.mods = <<>>  BY DEF Profile
<1> HIDE DEF profile
<1>4. Begin(t, ProfileTask("new", n, n, "idle", profile))  BY <1>1 DEF profile
<1>5. IsList(profile.mods) /\ Good(profile.mods, manifest, Held)  BY <1>3, EmptyIsGood
<1> QED  BY <1>2, <1>3, <1>4, <1>5, BeginKeeps

\* An imported list is unchecked, and is written as such.
LEMMA ImportBeginsKeeps ==
  ASSUME ProfilesInv, NEW t \in Tasks, ImportBegins(t)
  PROVE  ProfilesInv'
<1>1. PICK n \in Names, mods \in Imports :
         Begin(t, ProfileTask("new", n, n, "reload", Profile(begun + 1, mods, FALSE)))
  BY DEF ImportBegins
<1> DEFINE profile == Profile(begun + 1, mods, FALSE)
<1>2. UNCHANGED <<manifest, file, installed, live, raced>>  BY DEF ImportBegins
<1>3. IsList(mods)  BY ListAssumption
<1>4. profile.pid = begun + 1 /\ profile.mods = mods  BY DEF Profile
<1>6. profile.checked = FALSE  BY DEF Profile
<1> HIDE DEF profile
<1>5. Begin(t, ProfileTask("new", n, n, "reload", profile))  BY <1>1 DEF profile
<1> QED  BY <1>2, <1>3, <1>4, <1>5, <1>6, BeginKeeps

\* A copy has a list that was in a file, and an ID of its own.
LEMMA DuplicateLoadsKeeps ==
  ASSUME ProfilesInv, NEW t \in Tasks, DuplicateLoads(t)
  PROVE  ProfilesInv'
<1>1. PICK n \in Names, to \in Names :
         /\ file[n] # Nothing
         /\ Begin(t, ProfileTask("new", to, to, "idle",
                                 Profile(begun + 1, file[n].mods, file[n].checked)))
  BY DEF DuplicateLoads
<1>2. UNCHANGED <<manifest, file, installed, live, raced>>  BY DEF DuplicateLoads
<1> DEFINE profile == Profile(begun + 1, file[n].mods, file[n].checked)
<1>3. /\ profile.pid = begun + 1 /\ profile.mods = file[n].mods
      /\ profile.checked = file[n].checked
  BY DEF Profile
<1> HIDE DEF profile
<1>4. Begin(t, ProfileTask("new", to, to, "idle", profile))  BY <1>1 DEF profile
<1>5. IsList(profile.mods) /\ (profile.checked = TRUE => Good(profile.mods, manifest, Held))
  BY <1>1, <1>3, FileIsGood
<1> QED  BY <1>2, <1>3, <1>4, <1>5, BeginKeeps

\* RenameAsync() loads the profile; the new file comes first.
LEMMA RenameLoadsKeeps ==
  ASSUME ProfilesInv, NEW t \in Tasks, RenameLoads(t)
  PROVE  ProfilesInv'
<1>1. PICK n \in Names, to \in Names :
         /\ file[n] # Nothing
         /\ \/ n = to /\ Begin(t, ProfileTask("replace", n, n, "idle", file[n]))
            \/ Free(to) /\ Begin(t, ProfileTask(RenameOrder[1], n, to, RenameOrder[2], file[n]))
  BY DEF RenameLoads
<1>2. UNCHANGED <<manifest, file, installed, live, raced>>  BY DEF RenameLoads
<1>3. CASE Begin(t, ProfileTask("replace", n, n, "idle", file[n]))
  BY <1>1, <1>2, <1>3, FileIsGood, BeginKeeps
<1>4. CASE Free(to) /\ Begin(t, ProfileTask(RenameOrder[1], n, to, RenameOrder[2], file[n]))
  <2>1. RenameOrder[1] = "new" /\ RenameOrder[2] = "old"  BY DEF RenameOrder
  <2>2. Begin(t, ProfileTask("new", n, to, "old", file[n]))  BY <1>4, <2>1
  <2>3. n # to  BY <1>1, <1>4 DEF Free
  <2> QED  BY <1>1, <1>2, <2>2, <2>3, FileIsGood, BeginKeeps
<1> QED  BY <1>1, <1>3, <1>4

\* UninstallPackageAsync() finds no profile that names the package.
LEMMA UninstallListsKeeps ==
  ASSUME ProfilesInv, NEW t \in Tasks, UninstallLists(t)
  PROVE  ProfilesInv'
<1>1. PICK p \in installed :
         /\ \A n \in Names : ~Refers(n, p)
         /\ Begin(t, [at |-> "uninstall", package |-> p, alone |-> TRUE])
  BY DEF UninstallLists
<1> DEFINE b == {u \in Tasks \ {t} : Busy(u)} = {}
           r == [at |-> "uninstall", package |-> p, alone |-> TRUE]
           q == task'[t]
<1>2. Following(t) /\ q = [r EXCEPT !.alone = b]  BY <1>1, BeginnerFollows
<1>3. UNCHANGED <<manifest, file, installed, live, raced>>  BY DEF UninstallLists
<1>4. b = TRUE => \A u \in Tasks \ {t} : ~Busy(u)'  BY <1>2, OthersAreNotAlone
<1>5. b \in BOOLEAN  OBVIOUS
<1> HIDE DEF b, q
<1>6. q = [at |-> "uninstall", package |-> p, alone |-> b]  BY <1>2
<1>7. DOMAIN q = {"at", "package", "alone"} /\ q.at = "uninstall" /\ q.package = p /\ q.alone = b
  BY <1>6
<1>8. q # Idle
  <2>1. "alone" \notin DOMAIN Idle  BY DEF Idle
  <2> QED  BY <1>7, <2>1
<1>9. p \in Packages  BY <1>1 DEF ProfilesInv
<1>10. TaskOK(t)'  BY <1>5, <1>7, <1>8, <1>9 DEF TaskOK, HasProfile, q
<1>11. WillWrite(t)'  BY <1>7 DEF WillWrite, Writing, q
<1>12. Undisturbed(t)'
  <2>1. \A n \in Names : ~Refers(n, p)'  BY <1>1, <1>3 DEF Refers
  <2>2. (\A n \in Names : ~Refers(n, task[t].package))'  BY <1>7, <2>1 DEF Refers, q
  <2> QED  BY <1>4, <1>7, <2>2 DEF Undisturbed, q
<1>13. Fresh(t)'  BY <1>7 DEF Fresh, q
<1>14. Owned(t, {})  BY DEF Owned
<1>15. q.at # "old" /\ q.at \notin HasProfile  BY <1>7 DEF HasProfile
<1> QED  BY <1>2, <1>3, <1>10, <1>11, <1>12, <1>13, <1>14, <1>15, QuietKeeps DEF q

\* What the invariant says of a task that works.
LEMMA IsWorking ==
  ASSUME ProfilesInv, NEW t \in Tasks, task[t].at # "idle"
  PROVE  /\ Busy(t) /\ TaskOK(t) /\ WillWrite(t) /\ Undisturbed(t) /\ Fresh(t)
         /\ task[t].at \in HasProfile =>
              /\ DOMAIN task[t] = TaskFields /\ task[t].name \in Names /\ task[t].to \in Names
              /\ task[t].pid \in 0 .. begun /\ IsList(task[t].mods)
<1>1. TaskOK(t) /\ WillWrite(t) /\ Undisturbed(t) /\ Fresh(t)  BY DEF ProfilesInv, TasksOK
<1>2. Busy(t)  BY <1>1 DEF TaskOK, Busy
<1> QED  BY <1>1, <1>2 DEF TaskOK

\* And of one that is done.
LEMMA IdleIsOK ==
  ASSUME NEW t \in Tasks, task'[t] = Idle
  PROVE  /\ TaskOK(t)' /\ WillWrite(t)' /\ Undisturbed(t)' /\ Fresh(t)'
         /\ task'[t].at = "idle" /\ task'[t].at # "old" /\ task'[t].at \notin HasProfile
<1>1. task'[t].at = "idle"  BY DEF Idle
<1>2. ~Busy(t)'  BY DEF Busy
<1>3. TaskOK(t)'  BY <1>1, <1>2 DEF TaskOK
<1>4. WillWrite(t)'  BY <1>1 DEF WillWrite, Writing
<1>5. Undisturbed(t)'  BY <1>2 DEF Undisturbed
<1>6. Fresh(t)'  BY <1>1 DEF Fresh
<1> QED  BY <1>1, <1>3, <1>4, <1>5, <1>6 DEF HasProfile

\* A task may end at any time.
LEMMA EndsKeeps ==
  ASSUME ProfilesInv, NEW t \in Tasks, task[t].at # "idle", Ends(t),
         UNCHANGED <<manifest, file, installed, live, raced>>
  PROVE  ProfilesInv'
<1>1. Busy(t)  BY IsWorking
<1>2. Following(t) /\ task'[t] = Idle  BY <1>1, WorkerFollows DEF Ends, Goes
<1>3. Owned(t, {})  BY DEF Owned
<1> QED  BY <1>2, <1>3, IdleIsOK, QuietKeeps

\* A task with a profile that goes on to a place where it has not begun to rename.
LEMMA GoesOnKeeps ==
  ASSUME ProfilesInv, NEW t \in Tasks, task[t].at \in HasProfile, task[t].at # "old",
         NEW at \in {"reload", "replace"}, NEW pid, NEW q, Goes(t, q),
         DOMAIN q = TaskFields, q.at = at, q.name = task[t].name, q.to = task[t].to,
         q.pid = pid, q.mods = task[t].mods, q.checked = task[t].checked,
         q.alone = task[t].alone,
         UNCHANGED <<manifest, file, installed, live, raced>>,
         q.checked = TRUE => Good(q.mods, manifest, Held),
         at = "reload" => pid = task[t].pid,
         at = "replace" => file[q.name] # Nothing /\ pid = file[q.name].pid
  PROVE  ProfilesInv'
<1>1. task[t].at # "idle"  BY DEF HasProfile
<1>2. /\ Busy(t) /\ TaskOK(t) /\ Undisturbed(t)
      /\ DOMAIN task[t] = TaskFields /\ task[t].name \in Names /\ task[t].to \in Names
      /\ task[t].pid \in 0 .. begun /\ IsList(task[t].mods)
  BY <1>1, IsWorking
<1>3. Following(t) /\ task'[t] = q /\ begun' = begun
  BY <1>2, WorkerFollows DEF Goes
<1>4. pid \in 0 .. begun
  <2>1. FileOK(q.name)  BY <1>2 DEF ProfilesInv, FilesOK
  <2> QED  BY <1>2, <2>1 DEF FileOK
<1>5. q # Idle
  <2>1. "alone" \notin DOMAIN Idle /\ "alone" \in TaskFields  BY DEF Idle, TaskFields
  <2> QED  BY <2>1
<1>6. TaskOK(t)'
  <2>1. q.at \in HasProfile /\ q.at # "idle" /\ q.at # "uninstall" /\ q.at # "new" /\ q.at # "old"
    BY DEF HasProfile
  <2>2. q.alone \in BOOLEAN  BY <1>2 DEF TaskOK
  <2> QED  BY <1>2, <1>3, <1>4, <1>5, <2>1, <2>2 DEF TaskOK
<1>7. WillWrite(t)'
  <2>1. Held' = Held  BY DEF Held
  <2> QED  BY <1>3, <2>1 DEF WillWrite
<1>8. Undisturbed(t)'
  <2>1. q.alone = TRUE => \A u \in Tasks \ {t} : ~Busy(u)'
    BY <1>2, <1>3, OthersAreNotAlone DEF Undisturbed
  <2>2. q.at = "replace" => Mine(t, q.name)'  BY <1>3 DEF Mine
  <2>3. q.at # "uninstall" /\ q.at # "old" /\ q.at # "new"  OBVIOUS
  <2> QED  BY <1>3, <2>1, <2>2, <2>3 DEF Undisturbed, Mine
<1>9. Fresh(t)'  BY <1>3 DEF Fresh
<1>10. Owned(t, {pid})  BY <1>2 DEF Owned
<1>11. task'[t].at # "old" /\ task'[t].pid \in {pid}  BY <1>3
<1> QED  BY <1>3, <1>6, <1>7, <1>8, <1>9, <1>10, <1>11, QuietKeeps

\* TrySaveAsync() goes on with a list that validates, and with no other.
LEMMA EditChecksKeeps ==
  ASSUME ProfilesInv, NEW t \in Tasks, EditChecks(t)
  PROVE  ProfilesInv'
<1>1. task[t].at = "check"  BY DEF EditChecks
<1>2. UNCHANGED <<manifest, file, installed, live, raced>>  BY DEF EditChecks
<1>3. CASE Valid(task[t].mods)
  <2> DEFINE r == task[t]
             q == [r EXCEPT !.at = "reload"]
  <2>1. Goes(t, q)  BY <1>3 DEF EditChecks, Steps
  <2>2. r.at \in HasProfile /\ DOMAIN r = TaskFields  BY <1>1, IsWorking DEF HasProfile
  <2>3. Good(r.mods, manifest, Held)  BY <1>3 DEF Valid, Good, Held
  <2> HIDE DEF r
  <2>4. /\ DOMAIN q = TaskFields /\ q.at = "reload" /\ q.name = r.name /\ q.to = r.to
        /\ q.pid = r.pid /\ q.mods = r.mods /\ q.checked = r.checked /\ q.alone = r.alone
    BY <2>2 DEF TaskFields
  <2> HIDE DEF q
  <2> QED  BY <1>1, <1>2, <2>1, <2>2, <2>3, <2>4, GoesOnKeeps DEF r
<1>4. CASE ~Valid(task[t].mods)
  <2>1. Ends(t)  BY <1>4 DEF EditChecks
  <2> QED  BY <1>1, <1>2, <2>1, EndsKeeps
<1> QED  BY <1>3, <1>4

\* SaveModsAsync() loads the profile again, and keeps the list it was given.
LEMMA SaveModsLoadsKeeps ==
  ASSUME ProfilesInv, NEW t \in Tasks, SaveModsLoads(t)
  PROVE  ProfilesInv'
<1>1. task[t].at = "reload"  BY DEF SaveModsLoads
<1>2. UNCHANGED <<manifest, file, installed, live, raced>>  BY DEF SaveModsLoads
<1> DEFINE now == file[task[t].name]
<1>3. CASE now # Nothing
  <2> DEFINE r == task[t]
             pid == now.pid
             p == [r EXCEPT !.at = "replace"]
             q == [p EXCEPT !.pid = pid]
  <2>1. Goes(t, q)  BY <1>3 DEF SaveModsLoads
  <2>2. r.at \in HasProfile /\ DOMAIN r = TaskFields /\ WillWrite(t)
    BY <1>1, IsWorking DEF HasProfile
  <2>3. r.checked = TRUE => Good(r.mods, manifest, Held)
    BY <1>1, <2>2 DEF WillWrite, Writing
  <2>4. pid = file[r.name].pid /\ file[r.name] # Nothing  BY <1>3
  <2> HIDE DEF r, pid
  <2>5. /\ DOMAIN p = TaskFields /\ p.at = "replace" /\ p.name = r.name /\ p.to = r.to
        /\ p.mods = r.mods /\ p.checked = r.checked /\ p.alone = r.alone
    BY <2>2 DEF TaskFields
  <2> HIDE DEF p
  <2>6. /\ DOMAIN q = TaskFields /\ q.at = "replace" /\ q.name = r.name /\ q.to = r.to
        /\ q.pid = pid /\ q.mods = r.mods /\ q.checked = r.checked /\ q.alone = r.alone
    BY <2>5 DEF TaskFields
  <2> HIDE DEF q
  <2> QED  BY <1>1, <1>2, <2>1, <2>2, <2>3, <2>4, <2>6, GoesOnKeeps DEF r
<1>4. CASE now = Nothing
  <2>1. Ends(t)  BY <1>4 DEF SaveModsLoads
  <2> QED  BY <1>1, <1>2, <2>1, EndsKeeps
<1> QED  BY <1>3, <1>4

-----------------------------------------------------------------------------
(* The steps of a task that write or delete a file.                        *)

\* One file is written, with a list that may be there, or deleted.
LEMMA FilesWritten ==
  ASSUME ProfilesInv, NEW n \in Names, NEW new, file' = [file EXCEPT ![n] = new],
         manifest' = manifest, Held \subseteq Held', begun' \in Nat, begun <= begun',
         new # Nothing =>
           /\ new = Profile(new.pid, new.mods, new.checked)
           /\ new.pid \in 0 .. begun' /\ IsList(new.mods)
           /\ new.checked = TRUE => Good(new.mods, manifest, Held)
  PROVE  FilesOK' /\ file'[n] = new /\ \A m \in Names \ {n} : file'[m] = file[m]
<1>1. begun \in Nat /\ FilesOK  BY DEF ProfilesInv
<1>2. DOMAIN file' = Names /\ file'[n] = new /\ \A m \in Names \ {n} : file'[m] = file[m]
  BY <1>1 DEF FilesOK
<1>3. ASSUME NEW m \in Names PROVE FileOK(m)'
  <2>1. FileOK(m)  BY <1>1 DEF FilesOK
  <2>2. CASE m = n  BY <1>2, <2>2 DEF FileOK
  <2>3. CASE m # n
    <3>1. file'[m] = file[m]  BY <1>2, <2>3
    <3> QED  BY <1>1, <2>1, <3>1 DEF FileOK
  <2> QED  BY <2>2, <2>3
<1>4. ASSUME NEW m \in Names, file'[m] # Nothing, file'[m].checked = TRUE
      PROVE  Good(file'[m].mods, manifest', Held')
  <2>1. CASE m = n
    <3>1. Good(new.mods, manifest, Held)  BY <1>2, <1>4, <2>1
    <3>2. Good(new.mods, manifest, Held')  BY <3>1, GoodKept
    <3> QED  BY <1>2, <2>1, <3>2
  <2>2. CASE m # n
    <3>1. file'[m] = file[m]  BY <1>2, <2>2
    <3>2. Good(file[m].mods, manifest, Held)  BY <1>1, <1>4, <3>1 DEF FilesOK
    <3> QED  BY <3>1, <3>2, GoodKept
  <2> QED  BY <2>1, <2>2
<1> QED  BY <1>2, <1>3, <1>4 DEF FilesOK

\* A file that a step writes over or deletes, and is not the task's own, is nobody's
\* who still lives.
LEMMA NotLost ==
  ASSUME ProfilesInv, NEW t \in Tasks, Busy(t), NEW n \in Names,
         task[t].alone = TRUE => Mine(t, n),
         NEW pid \in live \ Displaced(t, n), pid # task[t].pid
  PROVE  file[n].pid # pid
<1>1. pid # -1  BY DEF ProfilesInv
<1>2. CASE file[n] = Nothing  BY <1>1, <1>2 DEF Nothing
<1>3. CASE file[n] # Nothing /\ task[t].alone = TRUE  BY <1>3 DEF Mine
<1>4. CASE file[n] # Nothing /\ task[t].alone # TRUE
  <2>1. task[t].alone = FALSE  BY <1>4 DEF ProfilesInv, TasksOK, TaskOK
  <2>2. Displaced(t, n) = {file[n].pid} \ {task[t].pid}  BY <1>4, <2>1 DEF Displaced
  <2> QED  BY <2>2
<1> QED  BY <1>2, <1>3, <1>4

\* SaveAsync() replaces the file of the name it loaded.
LEMMA ReplaceKeeps ==
  ASSUME ProfilesInv, NEW t \in Tasks, Replace(t)
  PROVE  ProfilesInv'
<1> DEFINE n == task[t].name
           p == task[t].pid
           new == Profile(p, task[t].mods, task[t].checked)
<1>1. task[t].at = "replace" /\ UNCHANGED <<manifest, installed, raced>> /\ Ends(t)
      /\ live' = live \ Displaced(t, n)
  BY DEF Replace
<1>2. file' = [file EXCEPT ![n] = new]  BY DEF Replace, ToWrite
<1>3. /\ Busy(t) /\ WillWrite(t) /\ Undisturbed(t) /\ n \in Names
      /\ p \in 0 .. begun /\ IsList(task[t].mods)
  BY <1>1, IsWorking DEF HasProfile
<1>4. Following(t) /\ task'[t] = Idle /\ begun' = begun
  BY <1>3, <1>1, WorkerFollows DEF Ends, Goes
<1>5. Held' = Held /\ manifest' = manifest  BY <1>1 DEF Held
<1>6. begun \in Nat /\ live \subseteq 0 .. begun /\ installed' \subseteq Packages
  BY <1>1 DEF ProfilesInv
<1>7. /\ new = Profile(new.pid, new.mods, new.checked) /\ new.pid = p
      /\ IsList(new.mods) /\ (new.checked = TRUE => Good(new.mods, manifest, Held))
  <2>1. new.pid = p /\ new.mods = task[t].mods /\ new.checked = task[t].checked  BY DEF Profile
  <2>2. task[t].checked = TRUE => Good(task[t].mods, manifest, Held)
    BY <1>1, <1>3 DEF WillWrite, Writing
  <2> HIDE DEF new
  <2>3. IsList(new.mods) /\ (new.checked = TRUE => Good(new.mods, manifest, Held))
    BY <1>3, <2>1, <2>2
  <2> QED  BY <2>1, <2>3 DEF new
<1> HIDE DEF new
<1>8. FilesOK' /\ file'[n] = new /\ \A m \in Names \ {n} : file'[m] = file[m]
  <2>1. Held \subseteq Held' /\ begun' \in Nat /\ begun <= begun' /\ new.pid \in 0 .. begun'
    BY <1>3, <1>4, <1>5, <1>6, <1>7
  <2> HIDE DEF n
  <2> QED  BY <1>2, <1>3, <1>5, <1>7, <2>1, FilesWritten
<1>9. ASSUME NEW pid \in live' PROVE Spared(pid)'
  <2>1. pid \in live /\ Spared(pid)  BY <1>1 DEF ProfilesInv
  <2>2. Leaving(pid)' \subseteq Leaving(pid)
    <3>1. t \notin Leaving(pid)'  BY <1>4, IdleIsOK DEF Leaving
    <3>2. Leaving(pid)' \subseteq Tasks  BY DEF Leaving
    <3> QED  BY <1>4, <3>1, <3>2, LeavingIs
  <2>3. Copies(pid) \subseteq Copies(pid)'
    <3>1. CASE pid = p
      <4>1. \A m \in Names : file[m].pid = pid => file'[m].pid = pid  BY <1>7, <1>8, <3>1
      <4> QED  BY <4>1 DEF Copies
    <3>2. CASE pid # p
      <4>1. task[t].alone = TRUE => Mine(t, n)  BY <1>1, <1>3 DEF Undisturbed
      <4>2. file[n].pid # pid  BY <1>1, <1>3, <3>2, <4>1, NotLost
      <4>3. \A m \in Names : file[m].pid = pid => file'[m].pid = pid  BY <1>8, <4>2
      <4> QED  BY <4>3 DEF Copies
    <3> QED  BY <3>1, <3>2
  <2> QED  BY <2>1, <2>2, <2>3, SparedWhile
<1>10. Uses(t, {p})
  <2>1. Owned(t, {p})  BY <1>1 DEF Owned, HasProfile
  <2>2. \A m \in Names : file'[m].pid \in {p} \/ file'[m].pid = file[m].pid  BY <1>7, <1>8
  <2>3. task'[t].at \notin HasProfile  BY <1>4, IdleIsOK
  <2> QED  BY <1>1, <2>1, <2>2, <2>3 DEF Uses
<1>11. live' \subseteq 0 .. begun'  BY <1>1, <1>4, <1>6
<1> QED  BY <1>4, <1>5, <1>6, <1>8, <1>9, <1>10, <1>11, IdleIsOK, StepKeeps

\* RenameAsync() deletes one of two files of its profile.
LEMMA DeleteOldKeeps ==
  ASSUME ProfilesInv, NEW t \in Tasks, DeleteOld(t)
  PROVE  ProfilesInv'
<1> DEFINE p == task[t].pid
<1>1. PICK n \in {task[t].name, task[t].to} :
         file' = [file EXCEPT ![n] = Nothing] /\ live' = live \ Displaced(t, n)
  BY DEF DeleteOld
<1>2. task[t].at = "old" /\ UNCHANGED <<manifest, installed, raced>>  BY DEF DeleteOld
<1>3. /\ Busy(t) /\ TaskOK(t) /\ Undisturbed(t) /\ n \in Names /\ p \in 0 .. begun
  BY <1>1, <1>2, IsWorking DEF HasProfile
<1>4. Ends(t)
  <2>1. task[t].then = "idle"  BY <1>2, <1>3 DEF TaskOK
  <2> QED  BY <2>1 DEF DeleteOld
<1>5. Following(t) /\ task'[t] = Idle /\ begun' = begun
  BY <1>3, <1>4, WorkerFollows DEF Ends, Goes
<1>6. Held' = Held /\ manifest' = manifest  BY <1>2 DEF Held
<1>7. begun \in Nat /\ live \subseteq 0 .. begun /\ installed' \subseteq Packages
  BY <1>2 DEF ProfilesInv
<1>8. FilesOK' /\ file'[n] = Nothing /\ \A m \in Names \ {n} : file'[m] = file[m]
  <2>1. Held \subseteq Held' /\ begun' \in Nat /\ begun <= begun'
    BY <1>5, <1>6, <1>7
  <2>2. file' = [file EXCEPT ![n] = Nothing]  BY <1>1
  <2> QED  BY <1>3, <1>6, <2>1, <2>2, FilesWritten
<1>9. ASSUME NEW pid \in live' PROVE Spared(pid)'
  <2>1. pid \in live /\ Spared(pid)  BY <1>1 DEF ProfilesInv
  <2>2. t \notin Leaving(pid)'  BY <1>5, IdleIsOK DEF Leaving
  <2>3. Leaving(pid)' \subseteq Tasks  BY DEF Leaving
  <2>4. CASE pid = p
    <3>1. t \in Leaving(pid)  BY <1>2, <2>4 DEF Leaving
    <3>2. Leaving(pid)' = Leaving(pid) \ {t}
      <4>1. Leaving(pid) \subseteq Tasks  BY DEF Leaving
      <4> QED  BY <1>5, <2>2, <2>3, <4>1, LeavingIs
    <3>3. Copies(pid) \ {n} \subseteq Copies(pid)'  BY <1>8 DEF Copies
    <3> QED  BY <2>1, <3>1, <3>2, <3>3, SparedOneLess
  <2>5. CASE pid # p
    <3>1. Leaving(pid)' \subseteq Leaving(pid)  BY <1>5, <2>2, <2>3, LeavingIs
    <3>2. task[t].alone = TRUE => Mine(t, n)  BY <1>1, <1>2, <1>3 DEF Undisturbed
    <3>3. file[n].pid # pid  BY <1>1, <1>3, <2>5, <3>2, NotLost
    <3>4. Copies(pid) \subseteq Copies(pid)'  BY <1>8, <3>3 DEF Copies
    <3> QED  BY <2>1, <3>1, <3>4, SparedWhile
  <2> QED  BY <2>4, <2>5
<1>10. Uses(t, {-1})
  <2>1. Owned(t, {-1})  BY DEF Owned
  <2>2. file'[n].pid = -1  BY <1>8 DEF Nothing
  <2>3. task'[t].at \notin HasProfile  BY <1>5, IdleIsOK
  <2> QED  BY <1>1, <1>8, <2>1, <2>2, <2>3 DEF Uses
<1>11. live' \subseteq 0 .. begun'  BY <1>1, <1>5, <1>7
<1> QED  BY <1>5, <1>6, <1>7, <1>8, <1>9, <1>10, <1>11, IdleIsOK, StepKeeps

\* The first file of a profile nobody is renaming.
LEMMA SparedFirst ==
  ASSUME NEW pid, Leaving(pid)' = {}, Copies(pid)' # {}
  PROVE  Spared(pid)'
<1> DEFINE D == Copies(pid)'
<1>1. IsFiniteSet(D) /\ D # {}
  <2>1. D \subseteq Names  BY DEF Copies
  <2> QED  BY <2>1, FS_Subset, FiniteAssumption
<1>2. Cardinality({}) = 0  BY FS_EmptySet
<1>3. SUFFICES 0 < Cardinality(D)  BY <1>2 DEF Spared
<1> HIDE DEF D
<1>4. Cardinality(D) \in Nat /\ Cardinality(D) # 0  BY <1>1, FS_EmptySet, FS_CardinalityType
<1> QED  BY <1>4

\* SaveNewAsync() writes a file where there is none, or throws.
LEMMA SaveNewKeeps ==
  ASSUME ProfilesInv, NEW t \in Tasks, SaveNew(t)
  PROVE  ProfilesInv'
<1> DEFINE r == task[t]
           p == r.pid
           to == r.to
           new == IF r.then = "reload" THEN Profile(p, <<>>, TRUE)
                  ELSE Profile(p, r.mods, r.checked)
<1>1. r.at = "new" /\ UNCHANGED <<manifest, installed, raced>>  BY DEF SaveNew
<1>2. /\ Busy(t) /\ TaskOK(t) /\ WillWrite(t) /\ Undisturbed(t) /\ Fresh(t)
      /\ DOMAIN r = TaskFields /\ r.name \in Names /\ to \in Names
      /\ p \in 0 .. begun /\ IsList(r.mods)
  BY <1>1, IsWorking DEF HasProfile
<1>3. CASE ~Free(to)
  <2>1. Ends(t) /\ UNCHANGED <<file, live>>  BY <1>3 DEF SaveNew
  <2> QED  BY <1>1, <2>1, EndsKeeps
<1>4. CASE Free(to)
  <2>1. /\ file' = [file EXCEPT ![to] = new]
        /\ live' = IF r.then = "old" THEN live ELSE live \cup {p}
        /\ IF r.then = "idle" THEN Ends(t)
           ELSE Goes(t, [r EXCEPT !.at = r.then, !.then = "idle"])
    BY <1>4 DEF SaveNew
  <2>2. /\ begun \in Nat /\ live \subseteq 0 .. begun /\ installed' \subseteq Packages
        /\ Held' = Held /\ manifest' = manifest
    BY <1>1 DEF ProfilesInv, Held
  <2>3. r.then \in {"idle", "reload", "old"} /\ (r.then = "old" => r.name # to)
    BY <1>1, <1>2 DEF TaskOK
  <2>4. r.checked = TRUE => Good(r.mods, manifest, Held)
    BY <1>1, <1>2 DEF WillWrite, Writing
  <2>5. /\ new = Profile(new.pid, new.mods, new.checked) /\ new.pid = p
        /\ IsList(new.mods) /\ (new.checked = TRUE => Good(new.mods, manifest, Held))
    <3>1. CASE r.then = "reload"
      <4> DEFINE w == Profile(p, <<>>, TRUE)
      <4>1. w.pid = p /\ w.mods = <<>>  BY DEF Profile
      <4>2. w = Profile(w.pid, w.mods, w.checked)
        <5>1. w.checked = TRUE  BY DEF Profile
        <5> HIDE DEF w
        <5>2. Profile(w.pid, w.mods, w.checked) = Profile(p, <<>>, TRUE)  BY <4>1, <5>1
        <5> QED  BY <5>2 DEF w
      <4>3. new = w  BY <3>1
      <4> HIDE DEF w, new
      <4>4. IsList(w.mods) /\ Good(w.mods, manifest, Held)  BY <4>1, EmptyIsGood
      <4> QED  BY <4>1, <4>2, <4>3, <4>4
    <3>2. CASE r.then # "reload"
      <4> DEFINE w == Profile(p, r.mods, r.checked)
      <4>1. w.pid = p /\ w.mods = r.mods /\ w.checked = r.checked  BY DEF Profile
      <4>2. w = Profile(w.pid, w.mods, w.checked)  BY DEF Profile
      <4>3. new = w  BY <3>2
      <4> HIDE DEF w, new
      <4>4. IsList(w.mods) /\ (w.checked = TRUE => Good(w.mods, manifest, Held))
        BY <1>2, <2>4, <4>1
      <4> QED  BY <4>1, <4>2, <4>3, <4>4
    <3> QED  BY <3>1, <3>2
  <2> HIDE DEF new
  <2>6. Following(t) /\ begun' = begun
        /\ task'[t] = IF r.then = "idle" THEN Idle ELSE [r EXCEPT !.at = r.then, !.then = "idle"]
    <3>1. CASE r.then = "idle"  BY <1>2, <2>1, <3>1, WorkerFollows DEF Ends, Goes
    <3>2. CASE r.then # "idle"
      <4> DEFINE q == [r EXCEPT !.at = r.then, !.then = "idle"]
      <4>1. task' = [task EXCEPT ![t] = q] /\ begun' = begun  BY <2>1, <3>2 DEF Goes
      <4> HIDE DEF q
      <4>2. Following(t) /\ task'[t] = q  BY <1>2, <4>1, WorkerFollows
      <4> QED  BY <3>2, <4>1, <4>2 DEF q
    <3> QED  BY <3>1, <3>2
  <2>7. FilesOK' /\ file'[to] = new /\ \A m \in Names \ {to} : file'[m] = file[m]
    <3>1. Held \subseteq Held' /\ begun' \in Nat /\ begun <= begun' /\ new.pid \in 0 .. begun'
      BY <1>2, <2>2, <2>5, <2>6
    <3>2. file' = [file EXCEPT ![to] = new]  BY <2>1
    <3> HIDE DEF to
    <3> QED  BY <1>2, <2>2, <2>5, <3>1, <3>2, FilesWritten
  <2>8. file[to].pid = -1 /\ p # -1
    BY <1>2, <1>4, <2>2 DEF Free, Nothing
  <2> DEFINE q == task'[t]
  <2>9. r.then # "idle" =>
          /\ DOMAIN q = TaskFields /\ q.at = r.then /\ q.name = r.name /\ q.to = to /\ q.pid = p
          /\ q.then = "idle" /\ q.mods = r.mods /\ q.checked = r.checked /\ q.alone = r.alone
    <3> SUFFICES ASSUME r.then # "idle"
                 PROVE  /\ DOMAIN q = TaskFields /\ q.at = r.then /\ q.name = r.name
                        /\ q.to = to /\ q.pid = p /\ q.then = "idle" /\ q.mods = r.mods
                        /\ q.checked = r.checked /\ q.alone = r.alone
      OBVIOUS
    <3> DEFINE a == r.then
               v == [r EXCEPT !.at = a]
               w == [v EXCEPT !.then = "idle"]
    <3>1. q = w  BY <2>6
    <3>2. DOMAIN r = TaskFields  BY <1>2
    <3> HIDE DEF r, a, q
    <3>3. /\ DOMAIN v = TaskFields /\ v.at = a /\ v.name = r.name /\ v.to = r.to /\ v.pid = r.pid
          /\ v.mods = r.mods /\ v.checked = r.checked /\ v.alone = r.alone
      BY <3>2 DEF TaskFields
    <3> HIDE DEF v
    <3>4. /\ DOMAIN w = TaskFields /\ w.at = a /\ w.name = r.name /\ w.to = r.to /\ w.pid = r.pid
          /\ w.then = "idle" /\ w.mods = r.mods /\ w.checked = r.checked /\ w.alone = r.alone
      BY <3>3 DEF TaskFields
    <3> HIDE DEF w
    <3> QED  BY <3>1, <3>4 DEF a
  <2>10. r.then = "idle" => q = Idle  BY <2>6
  <2> HIDE DEF q
  <2>11. /\ TaskOK(t)' /\ WillWrite(t)' /\ Undisturbed(t)' /\ Fresh(t)'
         /\ (q.at = "old" <=> r.then = "old") /\ (q.at \in HasProfile => q.pid = p)
    <3>1. CASE r.then = "idle"  BY <2>10, <3>1, IdleIsOK DEF q
    <3>2. CASE r.then # "idle"
      <4>1. r.then \in {"reload", "old"} /\ q.at \in {"reload", "old"}  BY <2>3, <2>9, <3>2
      <4>2. q # Idle
        <5>1. "alone" \notin DOMAIN Idle /\ "alone" \in TaskFields  BY DEF Idle, TaskFields
        <5> QED  BY <2>9, <3>2, <5>1
      <4>3. q.alone \in BOOLEAN  BY <1>2, <2>9, <3>2 DEF TaskOK
      <4>4. q.at \in HasProfile /\ q.at # "idle" /\ q.at # "uninstall" /\ q.at # "new"
        BY <4>1 DEF HasProfile
      <4>5. TaskOK(t)'
        BY <1>2, <2>3, <2>6, <2>9, <3>2, <4>2, <4>3, <4>4 DEF TaskOK, q
      <4>6. WillWrite(t)'  BY <2>2, <2>4, <2>9, <3>2 DEF WillWrite, q
      <4>7. Undisturbed(t)'
        <5>1. q.alone = TRUE => \A u \in Tasks \ {t} : ~Busy(u)'
          BY <1>2, <2>6, <2>9, <3>2, OthersAreNotAlone DEF Undisturbed
        <5>2. q.at = "old" /\ q.alone = TRUE => Mine(t, r.name)'
          <6> SUFFICES ASSUME q.at = "old", q.alone = TRUE PROVE Mine(t, r.name)'
            OBVIOUS
          <6>1. r.then = "old" /\ r.alone = TRUE  BY <2>9, <3>2
          <6>2. Mine(t, r.name)  BY <1>1, <1>2, <6>1 DEF Undisturbed
          <6>3. r.name # to  BY <2>3, <6>1
          <6>4. file'[r.name] = file[r.name]  BY <1>2, <2>7, <6>3
          <6>5. r' = q  BY DEF q
          <6>6. file'[q.name] = Nothing \/ file'[q.name].pid = q.pid
            BY <2>9, <3>2, <6>2, <6>4 DEF Mine
          <6> QED  BY <2>9, <3>2, <6>5, <6>6 DEF Mine, q
        <5>3. q.at = "old" => file'[q.to].pid = q.pid  BY <2>5, <2>7, <2>9, <3>2
        <5>4. q.at = "old" /\ q.alone = TRUE =>
                file'[q.name] = Nothing \/ file'[q.name].pid = q.pid
          BY <2>9, <3>2, <5>2 DEF Mine, q
        <5>5. q.at # "uninstall" /\ q.at # "replace" /\ q.at # "new"  BY <4>1
        <5> QED  BY <5>1, <5>3, <5>4, <5>5 DEF Undisturbed, Mine, q
      <4>8. Fresh(t)'  BY <4>4 DEF Fresh, q
      <4> QED  BY <2>9, <3>2, <4>5, <4>6, <4>7, <4>8
    <3> QED  BY <3>1, <3>2
  <2>12. Uses(t, {p})
    <3>1. Owned(t, {p})  BY <1>1 DEF Owned, HasProfile
    <3>2. \A m \in Names : file'[m].pid \in {p} \/ file'[m].pid = file[m].pid  BY <2>5, <2>7
    <3>3. live' \subseteq live \cup {p}  BY <2>1
    <3>4. task'[t].at \in HasProfile => task'[t].pid \in {p}  BY <2>11 DEF q
    <3> QED  BY <3>1, <3>2, <3>3, <3>4 DEF Uses
  <2>13. ASSUME NEW pid \in live' PROVE Spared(pid)'
    <3>1. \A u \in Tasks \ {t} : u \in Leaving(pid)' <=> u \in Leaving(pid)
      BY <2>6, LeavingIs
    <3>2. Leaving(pid) \subseteq Tasks /\ Leaving(pid)' \subseteq Tasks  BY DEF Leaving
    <3>3. /\ Copies(pid) \subseteq Copies(pid)'
          /\ pid = p => Copies(pid) \cup {to} \subseteq Copies(pid)'
      <4>1. pid # -1  BY <1>2, <2>1, <2>2
      <4>2. \A m \in Names : file[m].pid = pid => file'[m].pid = pid
        BY <2>7, <2>8, <4>1
      <4>3. file'[to].pid = p  BY <2>5, <2>7
      <4> QED  BY <1>2, <4>2, <4>3 DEF Copies
    <3>4. CASE pid # p
      <4>1. Spared(pid)  BY <2>1, <3>4 DEF ProfilesInv
      <4>2. t \notin Leaving(pid)'  BY <2>11, <3>4 DEF Leaving, q, HasProfile
      <4>3. Leaving(pid)' \subseteq Leaving(pid)  BY <3>1, <3>2, <4>2
      <4> QED  BY <3>3, <4>1, <4>3, SparedWhile
    <3>5. CASE pid = p /\ r.then = "old"
      <4>1. Spared(pid)  BY <2>1, <3>5 DEF ProfilesInv
      <4>2. Leaving(pid)' \subseteq Leaving(pid) \cup {t}  BY <3>1, <3>2
      <4>3. to \notin Copies(pid)  BY <2>8, <3>5 DEF Copies
      <4> QED  BY <3>3, <3>5, <4>1, <4>2, <4>3, SparedOneMore
    <3>6. CASE pid = p /\ r.then # "old"
      <4>1. t \notin Leaving(pid)'  BY <2>11, <3>6 DEF Leaving, q
      <4>2. \A u \in Tasks \ {t} : u \notin Leaving(pid)
        BY <1>1, <1>2, <3>6 DEF Fresh, Leaving, HasProfile
      <4>3. Leaving(pid)' = {}  BY <3>1, <3>2, <4>1, <4>2
      <4>4. Copies(pid)' # {}  BY <3>3, <3>6
      <4> QED  BY <4>3, <4>4, SparedFirst
    <3> QED  BY <3>4, <3>5, <3>6
  <2>14. live' \subseteq 0 .. begun'  BY <1>2, <2>1, <2>2, <2>6
  <2>15. Held \subseteq Held'  BY <2>2
  <2> QED  BY <2>2, <2>6, <2>7, <2>11, <2>12, <2>13, <2>14, <2>15, StepKeeps
<1> QED  BY <1>3, <1>4

-----------------------------------------------------------------------------
(* Steps beside the tasks, and the end of the manager.                     *)

\* A file may go, or a package come, while tasks are under way.
LEMMA AsideKeeps ==
  ASSUME ProfilesInv, task' = task, begun' = begun, manifest' = manifest,
         Held \subseteq Held', installed' \subseteq Packages, live' \subseteq live, FilesOK',
         \A m \in Names : \/ file'[m] = file[m]
                          \/ file'[m] = Nothing /\ file[m].pid \notin live'
  PROVE  ProfilesInv'
<1>1. /\ begun \in Nat /\ live \subseteq 0 .. begun /\ TasksOK /\ FilesOK
  BY DEF ProfilesInv
<1>2. \A m \in Names : file'[m].pid = file[m].pid \/ file'[m].pid = -1
  BY DEF Nothing
<1>3. ASSUME NEW u \in Tasks
      PROVE  TaskOK(u)' /\ WillWrite(u)' /\ Undisturbed(u)' /\ Fresh(u)'
  <2>1. TaskOK(u) /\ WillWrite(u) /\ Undisturbed(u) /\ Fresh(u)  BY <1>1 DEF TasksOK
  <2>2. TaskOK(u)'  BY <2>1 DEF TaskOK, Busy
  <2>3. WillWrite(u)'
    <3>1. ASSUME task[u].at \in Writing, task[u].checked = TRUE
          PROVE  Good(task[u].mods, manifest', Held')
      <4>1. Good(task[u].mods, manifest, Held)  BY <2>1, <3>1 DEF WillWrite
      <4> QED  BY <4>1, GoodKept
    <3> QED  BY <3>1 DEF WillWrite
  <2>4. Undisturbed(u)'
    <3> DEFINE r == task[u]
    <3>1. SUFFICES ASSUME Busy(u), r.alone = TRUE PROVE Undisturbed(u)'
      BY DEF Undisturbed, Busy
    <3>2. \A v \in Tasks \ {u} : ~Busy(v)'  BY <2>1, <3>1 DEF Undisturbed, Busy
    <3>3. r.at = "uninstall" => \A n \in Names : ~Refers(n, r.package)'
      BY <2>1, <3>1 DEF Undisturbed, Refers
    <3>4. \A n \in Names : Mine(u, n) => (file'[n] = Nothing \/ file'[n].pid = r.pid)
      BY DEF Mine
    <3>5. r.at \in HasProfile => r.name \in Names /\ r.to \in Names
      BY <2>1, <3>1 DEF TaskOK
    <3>6. r.at = "replace" \/ (r.at = "new" /\ r.then = "old") \/ r.at = "old" =>
            file'[r.name] = Nothing \/ file'[r.name].pid = r.pid
      BY <2>1, <3>1, <3>4, <3>5 DEF Undisturbed, HasProfile
    <3>7. r.at = "old" => file'[r.to] = Nothing \/ file'[r.to].pid = r.pid
      BY <2>1, <3>1, <3>4, <3>5 DEF Undisturbed, HasProfile
    <3>8. r.at = "uninstall" => (\A n \in Names : ~Refers(n, r.package))'
      BY <3>3 DEF Refers
    <3>9. r' = r  OBVIOUS
    <3> QED  BY <3>2, <3>6, <3>7, <3>8, <3>9 DEF Undisturbed, Mine
  <2>5. Fresh(u)'
    <3> SUFFICES ASSUME task'[u].at = "new", task'[u].then # "old"
                 PROVE  /\ task'[u].pid \notin live'
                        /\ \A n \in Names : file'[n].pid # task'[u].pid
                        /\ \A v \in Tasks \ {u} :
                             task'[v].at \in HasProfile => task'[v].pid # task'[u].pid
      BY DEF Fresh
    <3>1. Busy(u)  BY <2>1 DEF TaskOK, Busy
    <3>2. task[u].pid \in 0 .. begun  BY <2>1, <3>1 DEF TaskOK, HasProfile
    <3>3. task[u].pid # -1  BY <1>1, <3>2
    <3> QED  BY <1>2, <2>1, <3>3 DEF Fresh
  <2> QED  BY <2>2, <2>3, <2>4, <2>5
<1>4. TasksOK'  BY <1>1, <1>3 DEF TasksOK
<1>5. ASSUME NEW pid \in live' PROVE Spared(pid)'
  <2>1. Spared(pid)  BY <1>5 DEF ProfilesInv
  <2>2. Leaving(pid)' \subseteq Leaving(pid)  BY DEF Leaving
  <2>3. Copies(pid) \subseteq Copies(pid)'  BY <1>5 DEF Copies
  <2> QED  BY <2>1, <2>2, <2>3, SparedWhile
<1>6. begun' \in Nat /\ live' \subseteq 0 .. begun'  BY <1>1
<1> QED  BY <1>4, <1>5, <1>6 DEF ProfilesInv

\* A profile is deleted, and no longer lives.
LEMMA DeleteProfileKeeps ==
  ASSUME ProfilesInv, NEW t \in Tasks, DeleteProfile(t)
  PROVE  ProfilesInv'
<1>1. PICK n \in Names : /\ file[n] # Nothing /\ file' = [file EXCEPT ![n] = Nothing]
                         /\ live' = live \ {file[n].pid}
  BY DEF DeleteProfile
<1>2. UNCHANGED <<manifest, installed, task, begun, raced>>  BY DEF DeleteProfile
<1>3. Held' = Held /\ manifest' = manifest  BY <1>2 DEF Held
<1>4. begun \in Nat /\ installed' \subseteq Packages  BY <1>2 DEF ProfilesInv
<1>5. FilesOK' /\ file'[n] = Nothing /\ \A m \in Names \ {n} : file'[m] = file[m]
  <2>1. Held \subseteq Held' /\ begun' \in Nat /\ begun <= begun'  BY <1>2, <1>3, <1>4
  <2> QED  BY <1>1, <1>3, <2>1, FilesWritten
<1>6. ASSUME NEW m \in Names
      PROVE  file'[m] = file[m] \/ (file'[m] = Nothing /\ file[m].pid \notin live')
  <2>1. CASE m = n  BY <1>1, <1>5, <2>1
  <2>2. CASE m # n  BY <1>5, <2>2
  <2> QED  BY <2>1, <2>2
<1>7. live' \subseteq live /\ Held \subseteq Held'  BY <1>1, <1>3
<1> QED  BY <1>2, <1>3, <1>4, <1>5, <1>6, <1>7, AsideKeeps

\* A package comes.
LEMMA InstallKeeps ==
  ASSUME ProfilesInv, NEW t \in Tasks, Install(t)
  PROVE  ProfilesInv'
<1>1. PICK p \in Packages \ installed :
         installed' = installed \cup {p} /\ raced' = raced \ {p}
  BY DEF Install
<1>2. UNCHANGED <<manifest, file, task, begun, live>>  BY DEF Install
<1>3. Held \subseteq Held'  BY <1>1 DEF Held
<1>4. begun \in Nat /\ installed' \subseteq Packages  BY <1>1 DEF ProfilesInv
<1>5. FilesOK'  BY <1>2, <1>3, <1>4, FilesStay
<1> QED  BY <1>2, <1>3, <1>4, <1>5, AsideKeeps

\* A package goes: no list enables it, or tasks overlapped and it is in raced.
LEMMA UninstallDeletesKeeps ==
  ASSUME ProfilesInv, NEW t \in Tasks, UninstallDeletes(t)
  PROVE  ProfilesInv'
<1> DEFINE p == task[t].package
<1>1. /\ task[t].at = "uninstall" /\ installed' = installed \ {p}
      /\ raced' = (IF task[t].alone THEN raced ELSE raced \cup {p})
      /\ Ends(t) /\ UNCHANGED <<manifest, file, live>>
  BY DEF UninstallDeletes
<1>2. Busy(t) /\ TaskOK(t) /\ Undisturbed(t)  BY <1>1, IsWorking
<1>3. Following(t) /\ task'[t] = Idle /\ begun' = begun
  BY <1>1, <1>2, WorkerFollows DEF Ends, Goes
<1>4. /\ begun \in Nat /\ begun' \in Nat /\ begun <= begun' /\ live' \subseteq 0 .. begun'
      /\ installed' \subseteq Packages
  BY <1>1, <1>3 DEF ProfilesInv
<1>5. Uses(t, {})
  <2>1. Owned(t, {})  BY DEF Owned
  <2> QED  BY <1>1, <1>3, <2>1, IdleIsOK DEF Uses
<1>6. \A pid \in live' : Spared(pid)'  BY <1>1, <1>3, IdleIsOK, SparedSoFar
<1>7. CASE task[t].alone = TRUE
  <2>1. \A n \in Names : ~Refers(n, p)  BY <1>1, <1>2, <1>7 DEF Undisturbed
  <2>2. \A u \in Tasks \ {t} : ~Busy(u)  BY <1>2, <1>7 DEF Undisturbed
  <2>3. Held \ {p} \subseteq Held'  BY <1>1, <1>7 DEF Held
  <2>4. \A u \in Tasks : WillWrite(u)'
    <3>1. \A u \in Tasks \ {t} : task'[u].at = "idle"
      <4> SUFFICES ASSUME NEW u \in Tasks \ {t} PROVE task'[u].at = "idle"
        OBVIOUS
      <4>1. Same(u)  BY <1>3 DEF Following, Passing
      <4>2. task'[u] = Idle  BY <2>2, <4>1 DEF Same, Busy
      <4> QED  BY <4>2, IdleIsOK
    <3> QED  BY <1>3, <3>1, IdleIsOK DEF WillWrite, Writing
  <2>5. ASSUME NEW n \in Names, file[n] # Nothing, file[n].checked = TRUE
        PROVE  Good(file[n].mods, manifest', Held')
    <3> DEFINE mods == file[n].mods
               on == ToSet(Enabled(mods))
    <3>1. Good(mods, manifest, Held) /\ IsList(mods)  BY <2>5, FileIsGood
    <3>2. Entry(p, TRUE) \notin ToSet(mods)  BY <2>1, <2>5 DEF Refers
    <3> HIDE DEF mods
    <3>3. p \notin on  BY <3>1, <3>2, EnabledAreIn
    <3>4. on \subseteq Held /\ Resolves(Enabled(mods), manifest)  BY <3>1 DEF Good
    <3> HIDE DEF on
    <3>5. on \subseteq Held'  BY <2>3, <3>3, <3>4
    <3>6. Good(mods, manifest, Held')  BY <3>4, <3>5 DEF Good, on
    <3> QED  BY <1>1, <3>6 DEF mods
  <2>6. FilesOK'
    <3>1. FilesOK  BY DEF ProfilesInv
    <3>2. DOMAIN file' = Names  BY <1>1, <3>1 DEF FilesOK
    <3>3. \A n \in Names : FileOK(n)'  BY <1>1, <1>3, <3>1 DEF FilesOK, FileOK
    <3> QED  BY <1>1, <2>5, <3>2, <3>3 DEF FilesOK
  <2> QED  BY <1>3, <1>4, <1>5, <1>6, <2>4, <2>6, IdleIsOK, StepKeepsLists
<1>8. CASE task[t].alone = FALSE
  <2>1. Held \subseteq Held'  BY <1>1, <1>8 DEF Held
  <2>2. FilesOK'  BY <1>1, <1>4, <2>1, FilesStay
  <2> QED  BY <1>1, <1>3, <1>4, <1>5, <1>6, <2>1, <2>2, IdleIsOK, StepKeeps
<1>9. task[t].alone \in BOOLEAN  BY <1>2 DEF TaskOK
<1> QED  BY <1>7, <1>8, <1>9

\* The manager ends anywhere: no task is left, and every file stays.
LEMMA RestartKeeps ==
  ASSUME ProfilesInv, Restart
  PROVE  ProfilesInv'
<1>1. /\ task' = [t \in Tasks |-> Idle]
      /\ UNCHANGED <<manifest, file, installed, begun, live, raced>>
  BY DEF Restart
<1>2. \A t \in Tasks : task'[t] = Idle  BY <1>1
<1>3. Held' = Held /\ begun \in Nat  BY <1>1 DEF Held, ProfilesInv
<1>4. FilesOK'  BY <1>1, <1>3, FilesStay
<1>5. TasksOK'
  <2>1. \A t \in Tasks : TaskOK(t)' /\ WillWrite(t)' /\ Undisturbed(t)' /\ Fresh(t)'
    BY <1>2, IdleIsOK
  <2> QED  BY <1>1, <2>1 DEF TasksOK
<1>6. ASSUME NEW pid \in live' PROVE Spared(pid)'
  <2>1. Spared(pid)  BY <1>1 DEF ProfilesInv
  <2>2. Leaving(pid)' \subseteq Leaving(pid)  BY <1>2, IdleIsOK DEF Leaving
  <2>3. Copies(pid) \subseteq Copies(pid)'  BY <1>1 DEF Copies
  <2> QED  BY <2>1, <2>2, <2>3, SparedWhile
<1> QED  BY <1>1, <1>3, <1>4, <1>5, <1>6 DEF ProfilesInv

\* The manager starts with one valid profile and every package.
LEMMA ProfilesInitInv == Init => ProfilesInv
<1> SUFFICES ASSUME Init PROVE ProfilesInv
  OBVIOUS
<1>1. PICK n \in Names, mods \in Stored :
         /\ Valid(mods)
         /\ file = [m \in Names |-> IF m = n THEN Profile(0, mods, TRUE) ELSE Nothing]
  BY DEF Init
<1>2. /\ installed = Packages /\ task = [t \in Tasks |-> Idle] /\ begun = 0 /\ live = {0}
      /\ raced = {}
  BY DEF Init
<1> DEFINE w == Profile(0, mods, TRUE)
<1>3. w.pid = 0 /\ w.mods = mods  BY DEF Profile
<1>4. w = Profile(w.pid, w.mods, w.checked)
  <2>1. w.checked = TRUE  BY DEF Profile
  <2> HIDE DEF w
  <2>2. Profile(w.pid, w.mods, w.checked) = Profile(0, mods, TRUE)  BY <1>3, <2>1
  <2> QED  BY <2>2 DEF w
<1>5. Good(mods, manifest, Held)  BY <1>1, <1>2 DEF Valid, Good, Held
<1>6. IsList(mods)  BY ListAssumption
<1>7. DOMAIN file = Names /\ file[n] = w /\ \A m \in Names \ {n} : file[m] = Nothing  BY <1>1
<1> HIDE DEF w
<1>8. FilesOK
  <2>1. \A m \in Names : FileOK(m)  BY <1>2, <1>3, <1>4, <1>6, <1>7 DEF FileOK
  <2>2. \A m \in Names : file[m] # Nothing => Good(file[m].mods, manifest, Held)
    BY <1>3, <1>5, <1>7
  <2> QED  BY <1>7, <2>1, <2>2 DEF FilesOK
<1>9. TasksOK
  <2>1. \A t \in Tasks : task[t] = Idle /\ task[t].at = "idle"  BY <1>2 DEF Idle
  <2>2. \A t \in Tasks : ~Busy(t)  BY <2>1 DEF Busy
  <2>3. \A t \in Tasks : TaskOK(t) /\ WillWrite(t) /\ Undisturbed(t) /\ Fresh(t)
    BY <2>1, <2>2 DEF TaskOK, WillWrite, Undisturbed, Fresh, Writing
  <2> QED  BY <1>2, <2>3 DEF TasksOK
<1>10. Spared(0)
  <2>1. Leaving(0) = {}  BY <1>2 DEF Leaving, Idle
  <2>2. n \in Copies(0)  BY <1>3, <1>7 DEF Copies
  <2>3. IsFiniteSet(Copies(0))
    <3>1. Copies(0) \subseteq Names  BY DEF Copies
    <3> QED  BY <3>1, FS_Subset, FiniteAssumption
  <2>4. Cardinality(Copies(0)) \in Nat /\ Cardinality(Copies(0)) # 0 /\ Cardinality({}) = 0
    BY <2>2, <2>3, FS_CardinalityType, FS_EmptySet
  <2> QED  BY <2>1, <2>4 DEF Spared
<1> QED  BY <1>2, <1>8, <1>9, <1>10 DEF ProfilesInv

\* Every step of the manager keeps the invariant.
LEMMA ProfilesNextInv == ProfilesInv /\ [Next]_vars => ProfilesInv'
<1> SUFFICES ASSUME ProfilesInv, [Next]_vars PROVE ProfilesInv'
  OBVIOUS
<1>1. CASE UNCHANGED vars
  <2>1. UNCHANGED <<manifest, file, installed, task, begun, live, raced>>  BY <1>1 DEF vars
  <2>2. Held' = Held /\ begun \in Nat /\ installed \subseteq Packages  BY <2>1 DEF Held, ProfilesInv
  <2>3. FilesOK'  BY <2>1, <2>2, FilesStay
  <2>4. Held \subseteq Held' /\ installed' \subseteq Packages /\ live' \subseteq live
    BY <2>1, <2>2
  <2>5. \A m \in Names : file'[m] = file[m]  BY <2>1
  <2> QED  BY <2>1, <2>3, <2>4, <2>5, AsideKeeps
<1>2. CASE Restart  BY <1>2, RestartKeeps
<1>3. ASSUME NEW t \in Tasks,
             \/ EditLoads(t) \/ EditChecks(t) \/ SaveModsLoads(t) \/ Replace(t)
             \/ RecordLaunchLoads(t)
             \/ CreateBegins(t) \/ ImportBegins(t) \/ DuplicateLoads(t) \/ RenameLoads(t)
             \/ SaveNew(t) \/ DeleteOld(t) \/ DeleteProfile(t)
             \/ Install(t) \/ UninstallLists(t) \/ UninstallDeletes(t)
      PROVE  ProfilesInv'
  BY <1>3, EditLoadsKeeps, EditChecksKeeps, SaveModsLoadsKeeps, ReplaceKeeps,
     RecordLaunchLoadsKeeps, CreateBeginsKeeps, ImportBeginsKeeps, DuplicateLoadsKeeps,
     RenameLoadsKeeps, SaveNewKeeps, DeleteOldKeeps, DeleteProfileKeeps, InstallKeeps,
     UninstallListsKeeps, UninstallDeletesKeeps
<1> QED  BY <1>1, <1>2, <1>3 DEF Next

\* The invariant says what a reader of the profiles relies on.
LEMMA InvIsSound == ProfilesInv => ProfilesSound
<1> SUFFICES ASSUME ProfilesInv PROVE ProfilesSound
  OBVIOUS
<1>1. ASSUME NEW n \in Names, file[n] # Nothing, file[n].checked
      PROVE  /\ Resolves(Enabled(file[n].mods), manifest)
             /\ ToSet(Enabled(file[n].mods)) \subseteq installed \cup raced
  <2>1. file[n].checked = TRUE  BY <1>1
  <2> QED  BY <1>1, <2>1, FileIsGood DEF Good, Held
<1>2. ASSUME NEW pid \in live PROVE \E n \in Names : file[n] # Nothing /\ file[n].pid = pid
  <2>1. Spared(pid) /\ pid # -1  BY DEF ProfilesInv
  <2>2. Copies(pid) # {}
    <3> SUFFICES ASSUME Copies(pid) = {} PROVE FALSE
      OBVIOUS
    <3>1. Cardinality(Copies(pid)) = 0  BY FS_EmptySet
    <3>2. IsFiniteSet(Leaving(pid))
      <4>1. Leaving(pid) \subseteq Tasks  BY DEF Leaving
      <4> QED  BY <4>1, FS_Subset, FiniteAssumption
    <3>3. Cardinality(Leaving(pid)) \in Nat  BY <3>2, FS_CardinalityType
    <3> QED  BY <2>1, <3>1, <3>3 DEF Spared
  <2>3. PICK n \in Names : file[n].pid = pid  BY <2>2 DEF Copies
  <2>4. file[n] # Nothing  BY <2>1, <2>3 DEF Nothing
  <2> QED  BY <2>3, <2>4
<1>3. StoredValid  BY <1>1 DEF StoredValid
<1>4. ProfileKept  BY <1>2 DEF ProfileKept
<1> QED  BY <1>3, <1>4 DEF ProfilesSound

\* Whatever tasks of ProfileService, ProfileModService and ModPackageService
\* overlap, and wherever the manager ends, a list that was not just imported
\* resolves with packages that are there, and no profile is lost: for any
\* number of tasks, names, packages and operations.
THEOREM ProfilesAlwaysSound == Spec => []ProfilesSound
<1>1. Init => ProfilesInv  BY ProfilesInitInv
<1>2. ProfilesInv /\ [Next]_vars => ProfilesInv'  BY ProfilesNextInv
<1>3. ProfilesInv => ProfilesSound  BY InvIsSound
<1> QED  BY <1>1, <1>2, <1>3, PTL DEF Spec

-----------------------------------------------------------------------------
(* What the run evaluates for three mods, for all of them.                 *)

\* The profile of the run.
LEMMA TrioIsAProfile == Trio \in Seq(ToSet(Trio)) /\ Distinct(Trio)
<1>1. Len(Trio) = 3 /\ Trio[1].id = "a" /\ Trio[2].id = "b" /\ Trio[3].id = "c"
  BY DEF Trio
<1>2. Distinct(Trio)
  <2> SUFFICES ASSUME NEW i \in 1 .. 3, NEW j \in 1 .. 3, Trio[i].id = Trio[j].id PROVE i = j
    BY <1>1 DEF Distinct
  <2>1. (i = 1 \/ i = 2 \/ i = 3) /\ (j = 1 \/ j = 2 \/ j = 3)  OBVIOUS
  <2> QED  BY <1>1, <2>1
<1>3. Trio \in Seq(ToSet(Trio))
  <2>1. Trio = [i \in 1 .. 3 |-> Trio[i]] /\ \A i \in 1 .. 3 : Trio[i] \in ToSet(Trio)
    BY DEF Trio, ToSet
  <2>2. Trio \in [1 .. 3 -> ToSet(Trio)]
    <3> HIDE DEF Trio
    <3> QED  BY <2>1
  <2>3. \A n \in Nat : \A T : \A f \in [1 .. n -> T] : f \in Seq(T)  OBVIOUS
  <2>4. 3 \in Nat  OBVIOUS
  <2> HIDE DEF Trio
  <2> QED  BY <2>2, <2>3, <2>4, Zenon
<1> QED  BY <1>2, <1>3

\* The orders ValidateAsync() gives three mods, which the run evaluates, are
\* instances of OrderAlwaysLeast.
THEOREM OrdersCorrect == Spec => []OrderCorrect
<1>1. ASSUME NEW after, NEW before PROVE OrderIsLeast(Trio, Constraints(after, before))
  BY TrioIsAProfile, OrderAlwaysLeast
<1>2. OrderCorrect  BY <1>1 DEF OrderCorrect
<1> QED  BY <1>2, PTL

\* VersionSatisfies() takes a caret requirement for the versions from its own up
\* to the next that may break, for all versions.
THEOREM CaretsAlwaysRanges == CaretIsARange(Nat \X Nat \X Nat)
<1> SUFFICES ASSUME NEW v \in Nat \X Nat \X Nat, NEW w \in Nat \X Nat \X Nat
             PROVE  VersionSatisfies(v, [op |-> "^", version |-> w])
                      <=> AtLeast(v, w) /\ ~AtLeast(v, NextBreaking(w))
  BY DEF CaretIsARange
<1>1. /\ v = <<v[1], v[2], v[3]>> /\ w = <<w[1], w[2], w[3]>>
      /\ v[1] \in Nat /\ v[2] \in Nat /\ v[3] \in Nat
      /\ w[1] \in Nat /\ w[2] \in Nat /\ w[3] \in Nat
  OBVIOUS
<1>2. v = w <=> v[1] = w[1] /\ v[2] = w[2] /\ v[3] = w[3]  BY <1>1
<1> DEFINE r == [op |-> "^", version |-> w]
           Fits == IF w[1] > 0 THEN v[1] = w[1]
                   ELSE IF w[2] > 0 THEN v[1] = 0 /\ v[2] = w[2] ELSE v = w
<1>3. VersionSatisfies(v, r) <=> AtLeast(v, w) /\ Fits
  BY DEF VersionSatisfies
<1> DEFINE x == NextBreaking(w)
<1>4. \/ w[1] > 0 /\ x[1] = w[1] + 1 /\ x[2] = 0 /\ x[3] = 0
      \/ w[1] = 0 /\ w[2] > 0 /\ x[1] = 0 /\ x[2] = w[2] + 1 /\ x[3] = 0
      \/ w[1] = 0 /\ w[2] = 0 /\ x[1] = 0 /\ x[2] = 0 /\ x[3] = w[3] + 1
  BY <1>1 DEF NextBreaking
<1> HIDE DEF x
<1>5. AtLeast(v, w) => (Fits <=> ~AtLeast(v, x))
  BY <1>1, <1>2, <1>4 DEF AtLeast
<1> QED  BY <1>3, <1>5 DEF x

=============================================================================
