---- MODULE MCMetadataCache ----
(***************************************************************************)
(* Small instances of MetadataCache: the root, a directory in it and a     *)
(* file in that directory.                                                 *)
(***************************************************************************)
EXTENDS MetadataCache, TLC

CONSTANTS p1, p2

MCProc == {p1, p2}

StatKey(x) == [name |-> x, directory |-> FALSE]
DirKey(x) == [name |-> x, directory |-> TRUE]

\* Two paths: the root and a file in it.
MCPathFlat == {"/", "f"}
MCDirOfFlat == [x \in MCPathFlat |-> "/"]
MCUnderFlat == {<<"f", "/">>}
MCQueriedFlat == {DirKey("/"), StatKey("/")}

MCPath == {"/", "d", "f"}
MCDirOf == [x \in MCPath |-> IF x = "f" THEN "d" ELSE "/"]
MCUnder == {<<"d", "/">>, <<"f", "/">>, <<"f", "d">>}

\* One listing and the Stat of one of its entries.
MCQueriedPair == {DirKey("d"), StatKey("f")}
MCMutated == {{"f"}, {"d", "f"}, {"../x"}}
MCMutatedFile == {{"f"}}

Symmetry == Permutations(Proc)
====
