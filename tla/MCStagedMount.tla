---- MODULE MCStagedMount ----
(***************************************************************************)
(* A small instance of StagedMount.                                        *)
(***************************************************************************)
EXTENDS StagedMount

CONSTANTS h1, h2

MCHandle == {h1, h2}

\* One file is edited or created, and overwritten; a directory is listed. The
\* other file is looked up, removed and the other side of a rename.
MCFlags == {{}, {"write", "create"}, {"write", "create", "trunc"}}
MCOpened == {<<"a", {"write", "create"}>>, <<"a", {"write", "create", "trunc"}>>, <<"d", {}>>}
====
