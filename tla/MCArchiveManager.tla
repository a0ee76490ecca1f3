--------------------------- MODULE MCArchiveManager ---------------------------
(***************************************************************************)
(* Small instances of the archive manager: two file names, two paths, and  *)
(* images that hold the same name twice, in one archive or in two.         *)
(***************************************************************************)
EXTENDS ArchiveManager

CONSTANTS p1, p2,       \* paths
          lp, ln        \* a path and a lookup target that are too long

F(n, size, off) == [name |-> n, stored_size |-> size, offset |-> off]

MCPaths == {p1, p2}
MCNames == 1..2
MCScriptNames == {2}
MCLongPaths == {lp}
MCLongNames == {ln}

AllImages ==
  {[kind |-> "missing", version |-> 0, files |-> << >>],
   [kind |-> "empty",   version |-> 0, files |-> << >>],
   [kind |-> "mpeg",    version |-> 0, files |-> << >>],
   [kind |-> "data",    version |-> 0, files |-> << >>],
   [kind |-> "data", version |-> 1, files |-> <<F(2, 0, 0), F(1, 1, 1)>>],
   [kind |-> "data", version |-> 2, files |-> <<F(1, 1, 2)>>]}
==============================================================================
