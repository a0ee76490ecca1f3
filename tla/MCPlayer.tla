------------------------------- MODULE MCPlayer -------------------------------
(***************************************************************************)
(* Games of two versions: script archives, complete and not, and assets.   *)
(***************************************************************************)
EXTENDS Player

A(v, t, ns) == [version |-> v, type |-> t, names |-> ns]

MCOnDisk == {A(1, "SCRIPT", Scripts), A(2, "SCRIPT", Scripts),
             A(2, "SCRIPT", {"ysc", "ystl", "asset"}),
             A(1, "ASSET", {"asset"}), A(2, "ASSET", {"asset"})}
==============================================================================
