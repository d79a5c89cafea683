------------------------------ MODULE WorkspaceMC ------------------------------
(* A reader and two writers of one group; of two files the first is there.     *)
EXTENDS Workspace, TLC

CONSTANTS r, v, w, group, a, b

Modes == [e \in {r, v, w} |-> IF e = r THEN "Read" ELSE "Write"]

OneGroup == [e \in {r, v, w} |-> group]

OneFile == {<<a, "Absent">>}

\* Replace the first file; delete it and make the second
TwoCommands == {<<b, None>>, <<"Absent", b>>}

\* The two writers differ in nothing but their names.
Writers == Permutations({v, w})
===============================================================================
