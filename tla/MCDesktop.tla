---- MODULE MCDesktop ----
(***************************************************************************)
(* Small instances of Desktop.                                             *)
(***************************************************************************)
EXTENDS Desktop, TLC

CONSTANTS p1, p2, p3

\* Two saved profiles, and a new one that would take the letter of the first.
MCDriveOf == p1 :> "X" @@ p2 :> "Y" @@ p3 :> "X"
====
