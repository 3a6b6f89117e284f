------------------------------- MODULE LoadOrder -------------------------------
(***************************************************************************)
(* What a set of enabled packages resolves to.  ProfileModService and      *)
(* resolve_load_order() take the same constraints and work them off in     *)
(* the same way; the definitions are of the manager's, whose order is the  *)
(* one a launch hands to the runtime.                                      *)
(*                                                                         *)
(* A package is an ID and a version; its manifest lists the IDs it needs   *)
(* with a requirement on their version each, and the IDs it loads before   *)
(* and after.                                                              *)
(***************************************************************************)
EXTENDS Integers, Sequences, FiniteSets, SequencesExt

-----------------------------------------------------------------------------
(* Versions: <<major, minor, patch>>, and a requirement's operation.         *)

AtLeast(v, w) ==
    \/ v[1] > w[1]
    \/ v[1] = w[1] /\ v[2] > w[2]
    \/ v[1] = w[1] /\ v[2] = w[2] /\ v[3] >= w[3]

VersionSatisfies(v, requirement) ==
    LET w == requirement.version IN
    CASE requirement.op = "*" -> TRUE
      [] requirement.op = "=" -> v = w
      [] requirement.op = ">=" -> AtLeast(v, w)
      [] requirement.op = "^" ->
            AtLeast(v, w) /\ IF w[1] > 0 THEN v[1] = w[1]
                             ELSE IF w[2] > 0 THEN v[1] = 0 /\ v[2] = w[2]
                             ELSE v = w

\* The first version a caret requirement no longer accepts.
NextBreaking(w) ==
    IF w[1] > 0 THEN <<w[1] + 1, 0, 0>>
    ELSE IF w[2] > 0 THEN <<0, w[2] + 1, 0>>
    ELSE <<0, 0, w[3] + 1>>

\* Caret requirements are the versions from theirs up to the next that may break.
CaretIsARange(versions) ==
    \A v, w \in versions :
        VersionSatisfies(v, [op |-> "^", version |-> w]) <=>
            AtLeast(v, w) /\ ~AtLeast(v, NextBreaking(w))

-----------------------------------------------------------------------------
(* Orders.  enabled is the sequence of enabled packages in profile order,    *)
(* with no ID twice; manifest[p] has needs, before and after.                *)

Ids(enabled) == {enabled[i].id : i \in 1..Len(enabled)}
PackageOf(enabled, id) == enabled[CHOOSE i \in 1..Len(enabled) : enabled[i].id = id]
Position(enabled, id) == CHOOSE i \in 1..Len(enabled) : enabled[i].id = id

DependenciesMet(enabled, manifest) ==
    \A i \in 1..Len(enabled) : \A d \in manifest[enabled[i]].needs :
        /\ d.id \in Ids(enabled)
        /\ VersionSatisfies(PackageOf(enabled, d.id).version, d.requirement)

\* AddEdge(): a before b.
Edges(enabled, manifest) ==
    {e \in Ids(enabled) \X Ids(enabled) :
        LET a == manifest[PackageOf(enabled, e[1])]
            b == manifest[PackageOf(enabled, e[2])] IN
        /\ e[1] # e[2]
        /\ \/ \E d \in b.needs : d.id = e[1]
           \/ e[2] \in a.before
           \/ e[1] \in b.after}

\* The IDs that are ready once those of done are placed.
Ready(enabled, edges, done) ==
    {id \in Ids(enabled) \ ToSet(done) :
        \A e \in edges : e[2] = id => e[1] \in ToSet(done)}

\* Deviation: the one that got ready last is taken.
LastInProfile(enabled, ids) ==
    CHOOSE id \in ids : \A other \in ids : Position(enabled, id) >= Position(enabled, other)
\* The one that comes first in the profile is taken.
FirstInProfile(enabled, ids) ==
    CHOOSE id \in ids : \A other \in ids : Position(enabled, id) <= Position(enabled, other)

OrderedIds(enabled, manifest) ==
    LET edges == Edges(enabled, manifest)
        placed[k \in 0..Len(enabled)] ==
            IF k = 0 THEN <<>>
            ELSE LET ready == Ready(enabled, edges, placed[k - 1]) IN
                 IF ready = {} THEN placed[k - 1]
                 ELSE Append(placed[k - 1], FirstInProfile(enabled, ready)) IN
    placed[Len(enabled)]

Acyclic(enabled, manifest) == Len(OrderedIds(enabled, manifest)) = Len(enabled)

Resolves(enabled, manifest) ==
    DependenciesMet(enabled, manifest) /\ Acyclic(enabled, manifest)

-----------------------------------------------------------------------------
(* What the order should be, by definition.                                  *)

Topological(order, edges) ==
    \A i, j \in 1..Len(order) : <<order[i], order[j]>> \in edges => i < j

Earlier(enabled, s, t) ==
    \E i \in 1..Len(s) :
        /\ \A j \in 1..(i - 1) : s[j] = t[j]
        /\ Position(enabled, s[i]) < Position(enabled, t[i])

\* The orders that respect every edge and keep closest to the profile: none if
\* the constraints have a cycle, else one.
LeastOrders(enabled, manifest) ==
    LET topological == {s \in SetToSeqs(Ids(enabled)) : Topological(s, Edges(enabled, manifest))} IN
    {s \in topological : \A t \in topological : s = t \/ Earlier(enabled, s, t)}

OrderIsLeast(enabled, manifest) ==
    LeastOrders(enabled, manifest) =
        IF Acyclic(enabled, manifest) THEN {OrderedIds(enabled, manifest)} ELSE {}

=============================================================================
