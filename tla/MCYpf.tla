-------------------------------- MODULE MCYpf --------------------------------
(***************************************************************************)
(* Archives of 100 bytes and up to two files, whose index ends before, at  *)
(* and behind the bytes that the player reads, and with versions on both   *)
(* sides of each change of the format.                                     *)
(***************************************************************************)
EXTENDS Ypf, SequencesExt

File(size, name, comp, ul, cl, off, inf, hash) ==
  [name_size |-> size, utf8 |-> name, compressed |-> comp, uncompressed_len |-> ul,
   compressed_len |-> cl, offset |-> off, inflated |-> inf, hash |-> hash]

\* Stored names of 2 bytes (253), of 5 (250) and of 10 or, in version 500, of 3 (245),
\* which decode to no more than three times as many.
MCEntries ==
  { File(253, 2, FALSE, 4, 4, 96, CORRUPT, "same"),  \* up to the end of the archive
    File(253, 6, TRUE, 9, 4, 96, 9, "other"),
    File(245, 9, TRUE, 9, 4, 96, 8, "0"),            \* inflates to another length
    File(253, 4, TRUE, 9, 4, 96, CORRUPT, "0"),
    File(245, 9, FALSE, 4, 4, 97, CORRUPT, "0"),     \* one byte too long
    File(250, 7, FALSE, 0, 0, 96, CORRUPT, "0"),     \* without contents
    File(253, 2, FALSE, 2, 2, 101, CORRUPT, "0"),    \* behind the end
    File(245, 9, FALSE, 0, 0, 101, CORRUPT, "0"),
    File(250, 8, TRUE, 9, 3, 96, 9, "same") }        \* too long by its terminator

MCArchives ==
  { [magic |-> m, version |-> v, lhdr |-> h, reserved |-> r, entries |-> es, len |-> l] :
      m \in {"YPF"}, v \in {199, 260, 299, 300, 479, 480, 500, 501}, h \in {40, 90},
      r \in {TRUE}, es \in BoundedSeq(MCEntries, 2), l \in {100} }
  \cup
  { [magic |-> m, version |-> 480, lhdr |-> 32, reserved |-> r, entries |-> es, len |-> l] :
      m \in {"YPF", "YSTB", "other"}, r \in BOOLEAN, es \in BoundedSeq(MCEntries, 1),
      l \in {4, 31, 32, 60} }
==============================================================================
