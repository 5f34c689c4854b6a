---- MODULE MCCacheStore ----
(***************************************************************************)
(* Small instances of CacheStore.                                          *)
(***************************************************************************)
EXTENDS CacheStore, TLC

CONSTANTS f1, f2, f3

MCFile2 == {f1, f2}
MCFile3 == {f1, f2, f3}

Symmetry == Permutations(File \ NotRegular)
====
