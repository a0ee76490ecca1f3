--------------------------------- MODULE Ypf ---------------------------------
(***************************************************************************)
(* The two ways a YPF archive is read: all of it at once, Ypf::parse of    *)
(* src/libyuris/src/ypf.rs; and by the player, which lists its files from  *)
(* the start of the archive with yuris_get_manifest and then reads them    *)
(* one by one with yuris_file_read.                                        *)
(*                                                                         *)
(* An archive is its header and the entries of its index, in which the     *)
(* length of a name is still encoded; a file's data is the region it is    *)
(* decoded from.  Opening the archive and allocating succeed here; that    *)
(* they may not is in ArchiveManager and Libyuris.                         *)
(***************************************************************************)
EXTENDS Integers, Sequences, FiniteSetsExt, Summation

CONSTANTS
  Archives,  \* the archives there may be
  ReadSize,  \* MANIFEST_HEADER_READ_SIZE
  NameLen,   \* YURIS_NAME_LEN
  NONE, NULL, CORRUPT, ERROR, PANIC

\* An entry as it is stored.  Its name has as many bytes as name_size encodes, and
\* utf8 of them once it is decoded from CP932.  What its data inflates to is a
\* length or CORRUPT, and its hash is none (0), that of its data or of another.
Entry == [name_size : 0..255, utf8 : Nat, compressed : BOOLEAN, uncompressed_len : Nat,
          compressed_len : Nat, offset : Nat, inflated : Nat \cup {CORRUPT},
          hash : {"0", "same", "other"}]

Archive == [magic : {"YPF", "YSTB", "other"}, version : Nat, lhdr : Nat,
            reserved : BOOLEAN,  \* the reserved bytes are zero
            entries : Seq(Entry), len : Nat]

\* What a file is decoded from, and how.
Data == [at : Nat, len : Nat, zlib : BOOLEAN]

\* YurisVersion, YurisFile with how many bytes of its name it has, YurisManifest.
Version == [version : Nat, xor_key : {"KEY_200", "KEY_300"}, instr_len : {4, 12}]
Listed == [name : 0..(NameLen - 1), offset : Nat, stored_size : Nat]
Manifest == [version : Version, files : Seq(Listed)]

ASSUME ArchivesAssumption == Archives \subseteq Archive
ASSUME SizesAssumption == ReadSize \in Nat \ {0} /\ NameLen \in Nat \ {0}
ASSUME AnswersAssumption ==
  /\ CORRUPT \notin Nat
  /\ NONE \notin {NULL, ERROR, PANIC}
  /\ {NONE, NULL, ERROR, PANIC} \cap (Seq(Data) \cup Data \cup Version \cup Manifest) = {}

VARIABLES
  archive,   \* the file on disk
  whole,     \* what Ypf::parse returned: NONE, a result, ERROR or PANIC
  manifest,  \* what yuris_get_manifest returned: NONE, a manifest or NULL
  reads      \* what archive_file_get returned of each file it was asked for

YpfVars == <<archive, whole, manifest, reads>>

------------------------------------------------------------------------------
\* The layout of the index

check_version(v) == 200 <= v /\ v < 501

NL_SWAPS == {{6, 53}, {9, 11}, {12, 16}, {13, 19}, {21, 27}, {28, 30}, {32, 35},
             {38, 41}, {44, 47}}

\* The pairs of lengths that are exchanged.
Swaps(v) == NL_SWAPS \cup IF v = 500 THEN {{3, 10}, {17, 24}, {20, 46}}
                                     ELSE {{3, 72}, {17, 25}, {46, 50}}

nl_trans(v, b) == IF b \in UNION Swaps(v) THEN CHOOSE c \in 0..255 : c # b /\ {b, c} \in Swaps(v)
                                          ELSE b

\* All bits of the byte are inverted before.
transform_name_size(v, size) == nl_trans(v, 255 - size)

EntrySize(v, e) == 5 + transform_name_size(v, e.name_size) + (IF v >= 480 THEN 22 ELSE 18)

\* Where the index ends.
IndexEnd(a) ==
  32 + SumTo([i \in DOMAIN a.entries |-> EntrySize(a.version, a.entries[i])], Len(a.entries))

\* What the header says of it.
header_size(a) == IF a.version >= 300 THEN a.lhdr ELSE a.lhdr + 32

\* Ypf::parse_index, and the first half of Ypf::parse, of the first n bytes of
\* archive a: whether it succeeds.  An entry that ends behind them is an error.
IndexOk(a, n) ==
  /\ n >= 32
  /\ a.magic = "YPF" /\ check_version(a.version) /\ a.reserved
  /\ IndexEnd(a) <= n
  /\ IndexEnd(a) >= header_size(a)

------------------------------------------------------------------------------
\* The data of a file

\* One file of the second half of Ypf::parse.  The result of verify_adler and
\* verify_murmur is not used.
Decoded(a, e) ==
  IF \/ e.offset + e.compressed_len > a.len
     \/ e.compressed /\ e.inflated # e.uncompressed_len
  THEN ERROR
  ELSE [at |-> e.offset, len |-> e.compressed_len, zlib |-> e.compressed]

\* decode_entry: the file at an offset of a buffer that holds `len` bytes of the
\* archive from `base` on.  Here too the result of the two is not used.
\* libyuris.h:73-76 has it that the bytes are XOR-decrypted too: they are not.
decode_entry(base, len, e, offset) ==
  IF \/ offset + e.compressed_len > len
     \/ e.compressed /\ e.inflated # e.uncompressed_len
  THEN ERROR
  ELSE [at |-> base + offset, len |-> e.compressed_len, zlib |-> e.compressed]

\* verify_adler and verify_murmur, and the versions that have neither.
HashMatches(v, e) == v < 265 \/ e.hash # "other"

\* Ypf::parse stops at the first file that cannot be decoded.  If it starts
\* behind the end of the archive, the subtraction for the message underflows,
\* which is a panic in a build that checks for it.
parse(a) ==
  LET Bad == {i \in DOMAIN a.entries : Decoded(a, a.entries[i]) = ERROR}
  IN  IF ~IndexOk(a, a.len) THEN {ERROR}
      ELSE IF Bad = {} THEN {[i \in DOMAIN a.entries |-> Decoded(a, a.entries[i])]}
      ELSE IF a.entries[Min(Bad)].offset > a.len THEN {ERROR, PANIC} ELSE {ERROR}

Extract == /\ whole = NONE
           /\ whole' \in parse(archive)
           /\ UNCHANGED <<archive, manifest, reads>>

------------------------------------------------------------------------------
\* The player

\* Mutant: the last byte that was read is taken for the terminator.
PrefixCut(a) == IF a.len > ReadSize THEN ReadSize - 1 ELSE a.len - 1

\* The part of the archive that archive_load reads.
Prefix(a) == IF a.len > ReadSize THEN ReadSize ELSE a.len

\* probe_version of a file of at least 8 bytes.
probe_version(a) ==
  IF a.magic = "other" \/ ~check_version(a.version) THEN NULL
  ELSE [version |-> a.version,
        xor_key |-> IF a.version < 290 THEN "KEY_200" ELSE "KEY_300",
        instr_len |-> IF a.version < 290 THEN 12 ELSE 4]

\* Mutant: a name may fill the array.
NameKeptFull(n) == IF n > NameLen THEN NameLen ELSE n

\* How many of the n bytes of a decoded name are copied; the array has a zero
\* behind them.
NameKept(n) == IF n > NameLen - 1 THEN NameLen - 1 ELSE n

\* The files of a manifest, with the length of their name.
YurisFile(e) == [name |-> NameKept(e.utf8), offset |-> e.offset,
                 stored_size |-> e.compressed_len]

\* yuris_get_manifest, as archive_load calls it.
yuris_get_manifest ==
  /\ manifest = NONE
  /\ manifest' = IF \/ Prefix(archive) < 8 \/ probe_version(archive) = NULL
                    \/ ~IndexOk(archive, Prefix(archive))
                 THEN NULL
                 ELSE [version |-> probe_version(archive),
                       files |-> [i \in DOMAIN archive.entries |->
                                    YurisFile(archive.entries[i])]]
  /\ UNCHANGED <<archive, whole, reads>>

\* Mutant: the offset is that in the archive.
FileReadAtOffset(e) == decode_entry(e.offset, e.compressed_len, e, e.offset)

\* yuris_file_read of the bytes of a file, which are all its buffer holds.
yuris_file_read(e) == decode_entry(e.offset, e.compressed_len, e, 0)

\* archive_file_get of file i of the manifest.
Get(i) ==
  /\ manifest \notin {NONE, NULL}
  /\ i \in DOMAIN manifest.files /\ i \notin DOMAIN reads
  /\ LET f == manifest.files[i]
         data == yuris_file_read(archive.entries[i])
     IN  reads' = [j \in DOMAIN reads \cup {i} |->
                     IF j # i THEN reads[j]
                     ELSE IF f.stored_size = 0 \/ f.offset + f.stored_size > archive.len \/ data = ERROR
                          THEN NULL ELSE data]
  /\ UNCHANGED <<archive, whole, manifest>>

YpfInit == archive \in Archives /\ whole = NONE /\ manifest = NONE /\ reads = << >>

YpfNext == Extract \/ yuris_get_manifest \/ \E i \in DOMAIN archive.entries : Get(i)

YpfSpec == YpfInit /\ [][YpfNext]_YpfVars

------------------------------------------------------------------------------
\* Properties

YpfTypeOK ==
  /\ archive \in Archives
  /\ whole \in Seq(Data) \cup {NONE, ERROR, PANIC}
  /\ manifest \in Manifest \cup {NONE, NULL}
  /\ DOMAIN reads \subseteq DOMAIN archive.entries
  /\ \A i \in DOMAIN reads : reads[i] \in Data \cup {NULL}

Extracted == whole \notin {NONE, ERROR, PANIC}

\* The player lists every file of a good archive whose index is in the part of
\* it that it reads, each at its place and with all of a name that fits as UTF-8.
ManifestComplete ==
  (Extracted /\ manifest # NONE /\ IndexEnd(archive) <= ReadSize) =>
     /\ manifest # NULL
     /\ Len(manifest.files) = Len(archive.entries)
     /\ \A i \in DOMAIN whole :
          LET f == manifest.files[i]
              n == archive.entries[i].utf8
          IN  /\ <<f.offset, f.stored_size>> = <<whole[i].at, whole[i].len>>
              /\ n < NameLen => f.name = n

\* The two ways agree on the data of every file, but that the player has none
\* for a file without contents; and of an archive that cannot be extracted as a
\* whole there is a file the player cannot read.
ReadsAgree ==
  (manifest \notin {NONE, NULL} /\ DOMAIN reads = DOMAIN manifest.files) =>
     /\ Extracted => \A i \in DOMAIN reads :
                        reads[i] = IF whole[i].len = 0 THEN NULL ELSE whole[i]
     /\ whole \in {ERROR, PANIC} => \E i \in DOMAIN reads : reads[i] = NULL

\* libyuris.h:77 of yuris_file_read: "Hash validation is version-dependent:
\* V<265 skip, V<470 use adler32, V>=470 use murmur2."  A file whose hash is
\* another is not returned.
HashValidated == \A i \in DOMAIN reads :
                   reads[i] # NULL => HashMatches(archive.version, archive.entries[i])
==============================================================================
