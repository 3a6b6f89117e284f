----------------------------- MODULE MCModProfiles -----------------------------
EXTENDS ModProfiles

A1 == [id |-> "a", version |-> <<1, 0, 0>>]
A2 == [id |-> "a", version |-> <<2, 0, 0>>]
B1 == [id |-> "b", version |-> <<1, 0, 0>>]
MCPackages == {A1, A2, B1}

Plain == [needs |-> {}, before |-> {}, after |-> {}]
NeedsA(op, version) ==
    [Plain EXCEPT !.needs = {[id |-> "a", requirement |-> [op |-> op, version |-> version]]}]

\* b needs an a below 2.0.0; a wants to be after b, and so has a cycle with it when
\* a2 is taken; b needs any a.
MCManifests ==
    {[p \in MCPackages |-> IF p = B1 THEN NeedsA("^", <<1, 0, 0>>) ELSE Plain],
     [p \in MCPackages |-> CASE p = B1 -> NeedsA("*", <<0, 0, 0>>)
                             [] p = A2 -> [Plain EXCEPT !.after = {"b"}]
                             [] OTHER -> Plain]}
Symmetry == Permutations(Tasks)
MCStored == {<<Entry(A1, TRUE)>>, <<Entry(B1, TRUE), Entry(A1, TRUE)>>}
MCImports == {<<Entry(A2, TRUE), Entry(B1, TRUE)>>, <<Entry(B1, TRUE)>>}

-----------------------------------------------------------------------------
(* The load order against its definition: every set of after constraints     *)
(* among three mods with every before constraint of one of them, in one      *)
(* profile order (another is a renaming of it).                              *)

Mods == {"a", "b", "c"}
Trio == <<[id |-> "a"], [id |-> "b"], [id |-> "c"]>>
Constraints(after, before) ==
    [p \in ToSet(Trio) |-> [needs |-> {}, after |-> after[p.id],
                            before |-> IF p.id = "b" THEN before ELSE {}]]

\* The order ValidateAsync() gives enabled mods, in which the runtime loads
\* them, is the one that respects every constraint and otherwise keeps closest
\* to the profile's; there is none exactly when the constraints have a cycle.
\* (It says nothing of the state, and is evaluated before the first operation.)
OrderCorrect ==
    begun = 0 => \A after \in [Mods -> SUBSET Mods], before \in SUBSET Mods :
                     OrderIsLeast(Trio, Constraints(after, before))

\* A caret requirement is met by the versions from its own up to the next that
\* may break, as the manager and the runtime both parse it.
ASSUME CaretsAreRanges == CaretIsARange((0..2) \X (0..2) \X (0..2))

=============================================================================
