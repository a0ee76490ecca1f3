---------------------------- MODULE ArchiveManager ----------------------------
(***************************************************************************)
(* The archive manager of src/src/archive.c: up to MaxArchives loaded      *)
(* archives, and an index of their files that archive_file_find sorts on   *)
(* demand and searches by name.                                            *)
(*                                                                         *)
(* A pointer to a fileEntry is [slot, pos], for archives[slot].files[pos]; *)
(* a file name is an integer, its rank in strcmp order.  The bytes of      *)
(* archives are not modelled: a file's data is where it is read from.      *)
(***************************************************************************)
EXTENDS Integers, Sequences, FiniteSets

CONSTANTS
  Paths,        \* archive paths shorter than MAX_PATH_LEN
  LongPaths,    \* the longer ones
  Names,        \* file names shorter than YURIS_NAME_LEN
  LongNames,    \* the longer ones: lookup targets no archive can hold
  ScriptNames,  \* the names that contain ".ybn"
  Images,       \* what can be found on disk behind a path
  MaxArchives,  \* MAX_ARCHIVES
  NULL

Ptrs == [slot : Nat, pos : Nat]
Targets == Names \cup LongNames \cup {NULL}

YurisFile == [name : Names, stored_size : Nat, offset : Nat]
\* An image that is no archive libyuris recognises is "data" without files.
Image == [kind : {"missing", "empty", "mpeg", "data"},
          version : Nat,
          files : Seq(YurisFile)]

FileEntry == [name : Names, stored_size : Nat, offset : Nat, parent : Nat]
ArchiveEntry == [path : Paths, version : Nat, type : {"ASSET", "SCRIPT"},
                 files : Seq(FileEntry)]
Internal == [sorted_files : Seq(Ptrs), is_sorted : BOOLEAN]
Errnos == {"0", "ENOMEM", "EINVAL", "ENAMETOOLONG", "ENOENT", "EIO", "ENOTSUP",
           "EBADMSG"}
Data == [path : Paths, offset : Nat, version : Nat]

ASSUME NamesAssumption == /\ Names \subseteq Int
                          /\ LongNames \cap Names = {}
                          /\ ScriptNames \subseteq Names
ASSUME PathsAssumption == LongPaths \cap Paths = {}
ASSUME ImagesAssumption == Images \subseteq Image
ASSUME MaxAssumption == MaxArchives \in Nat
ASSUME NullAssumption == /\ NULL \notin Names \cup LongNames
                         /\ NULL \notin Paths \cup LongPaths
                         /\ NULL \notin Ptrs
                         /\ NULL \notin Internal
                         /\ NULL \notin Data

VARIABLES
  archives,   \* manager->archives[0..count-1]
  internal,   \* manager->internal
  errno,      \* the C library's errno
  alive,      \* FALSE once an assertion has aborted the process
  held,       \* fileEntry pointers handed out since the last free, with the
              \* name they were found under
  res         \* the last call and its answer: [op, arg, ok, ptr, data]

manager == <<archives, internal>>
vars == <<archives, internal, errno, alive, held, res>>

Answer(op, arg, ok, ptr, data) ==
  res' = [op |-> op, arg |-> arg, ok |-> ok, ptr |-> ptr, data |-> data]

------------------------------------------------------------------------------
\* The files of the loaded archives.

PtrsOf(as) == UNION {[slot : {s}, pos : DOMAIN as[s].files] : s \in DOMAIN as}
FileAt(as, p) == as[p.slot].files[p.pos]
NameAt(as, p) == FileAt(as, p).name

------------------------------------------------------------------------------
\* archive_load

\* Mutant: the limit check is off by one.
FullLate(count) == count > MaxArchives

Full(count) == count >= MaxArchives

\* The errno an archive_load of path p, whose file now holds img, may fail
\* with, in the order of the code's early returns.  Any allocation or read may
\* fail, and the first MANIFEST_HEADER_READ_SIZE bytes may be too few for
\* libyuris to find the index.
LoadErrors(p, img) ==
  IF Full(Len(archives)) THEN {"ENOMEM"}
  ELSE IF p = NULL THEN {"EINVAL"}
  ELSE IF p \in LongPaths THEN {"ENAMETOOLONG"}
  ELSE IF img.kind = "missing" THEN {"ENOENT"}
  ELSE IF img.kind = "empty" THEN {"ENOMEM", "EIO"}
  ELSE IF img.kind = "mpeg" THEN {"ENOMEM", "EIO", "ENOTSUP"}
  ELSE {"ENOENT", "ENOMEM", "EIO", "EBADMSG"}

Loadable(p, img) == /\ ~Full(Len(archives))
                    /\ p \in Paths
                    /\ img.kind = "data"
                    /\ img.files # << >>

ArchiveType(img) ==
  IF \E j \in DOMAIN img.files : img.files[j].name \in ScriptNames
  THEN "SCRIPT" ELSE "ASSET"

\* The entry that goes to archives[slot], its files pointing back to it.
NewEntry(p, img, slot) ==
  [path |-> p, version |-> img.version, type |-> ArchiveType(img),
   files |-> [j \in DOMAIN img.files |->
                [name |-> img.files[j].name,
                 stored_size |-> img.files[j].stored_size,
                 offset |-> img.files[j].offset,
                 parent |-> slot]]]

\* Mutant: a load after the first leaves the index marked sorted.
InternalAfterLoadStillSorted ==
  IF internal = NULL THEN [sorted_files |-> << >>, is_sorted |-> FALSE]
  ELSE internal

\* manager->internal after a load: created on the first, else marked stale.
InternalAfterLoad ==
  IF internal = NULL THEN [sorted_files |-> << >>, is_sorted |-> FALSE]
  ELSE [internal EXCEPT !.is_sorted = FALSE]

\* Mutant: an archive loaded a second time replaces its first entry.
LoadOkInPlace(p, img) ==
  /\ Loadable(p, img)
  /\ LET same == {s \in DOMAIN archives : archives[s].path = p}
     IN  archives' = IF same = {}
                     THEN Append(archives, NewEntry(p, img, Len(archives) + 1))
                     ELSE [s \in DOMAIN archives |->
                             IF s \in same THEN NewEntry(p, img, s)
                             ELSE archives[s]]
  /\ internal' = InternalAfterLoad
  /\ Answer("load", NULL, TRUE, NULL, NULL)
  /\ UNCHANGED <<errno, held>>

LoadOk(p, img) ==
  /\ Loadable(p, img)
  /\ archives' = Append(archives, NewEntry(p, img, Len(archives) + 1))
  /\ internal' = InternalAfterLoad
  /\ Answer("load", NULL, TRUE, NULL, NULL)
  /\ UNCHANGED <<errno, held>>

LoadFail(p, img) ==
  /\ errno' \in LoadErrors(p, img)
  /\ Answer("load", NULL, FALSE, NULL, NULL)
  /\ UNCHANGED <<manager, held>>

Load == /\ alive
        /\ \E p \in Paths \cup LongPaths \cup {NULL}, img \in Images :
              LoadOk(p, img) \/ LoadFail(p, img)
        /\ UNCHANGED alive

\* assert(internal): the first load cannot allocate the manager's index.
\* assert(internal->sorted_files): a lookup cannot allocate the sorted array.
Abort == /\ alive
         /\ \/ /\ internal = NULL
               /\ \E p \in Paths, img \in Images : Loadable(p, img)
            \/ internal # NULL /\ ~internal.is_sorted
         /\ alive' = FALSE
         /\ UNCHANGED <<manager, errno, held, res>>

\* archive_manager_free
Free == /\ alive
        /\ archives' = << >>
        /\ internal' = NULL
        /\ held' = {}
        /\ Answer("free", NULL, TRUE, NULL, NULL)
        /\ UNCHANGED <<errno, alive>>

------------------------------------------------------------------------------
\* archive_file_build_idx and archive_file_find

Ordered(as, q) ==
  \A i, j \in DOMAIN q : i <= j => NameAt(as, q[i]) <= NameAt(as, q[j])

\* The arrays archive_file_build_idx may leave in sorted_files.  It lists
\* every file once and qsorts by name; qsort is not stable, so files of equal
\* name come in any order.
Indexes ==
  LET total == Cardinality(PtrsOf(archives))
  IN  {q \in [1..total -> PtrsOf(archives)] :
         /\ \A p \in PtrsOf(archives) : \E i \in 1..total : q[i] = p
         /\ Ordered(archives, q)}

\* Mutant: the index is built once, on the first lookup, and never again.
RefreshedOnce ==
  IF internal.sorted_files # << >> THEN {internal}
  ELSE {[sorted_files |-> q, is_sorted |-> TRUE] : q \in Indexes}

\* internal when archive_file_find searches it.
Refreshed ==
  IF internal.is_sorted THEN {internal}
  ELSE {[sorted_files |-> q, is_sorted |-> TRUE] : q \in Indexes}

\* bsearch by its contract: some element equal to the key if there is one in
\* an ordered array; an array that is not ordered may hide it.
BSearch(q, t) ==
  LET hits == {q[i] : i \in {k \in DOMAIN q : NameAt(archives, q[k]) = t}}
  IN  IF hits # {} /\ Ordered(archives, q) THEN hits ELSE hits \cup {NULL}

\* What archive_file_find(manager, t) may do: the pointer it returns and the
\* internal and errno it leaves.
Lookups(t) ==
  LET Miss(e) == {[ptr |-> NULL, internal |-> internal, errno |-> e]}
  IN  IF t = NULL THEN Miss(errno)
      ELSE IF t \in LongNames THEN Miss("ENAMETOOLONG")
      ELSE IF internal = NULL THEN Miss("ENOENT")
      ELSE UNION {{[ptr |-> p, internal |-> in, errno |-> errno] :
                      p \in BSearch(in.sorted_files, t)} : in \in Refreshed}

Find(t) ==
  /\ alive
  /\ \E l \in Lookups(t) :
        /\ internal' = l.internal
        /\ errno' = l.errno
        /\ held' = IF l.ptr = NULL THEN held
                   ELSE held \cup {[ptr |-> l.ptr, name |-> t]}
        /\ Answer("find", t, l.ptr # NULL, l.ptr, NULL)
  /\ UNCHANGED <<archives, alive>>

\* archive_file_exists
Exists(t) ==
  /\ alive
  /\ \E l \in Lookups(t) : /\ internal' = l.internal
                           /\ errno' = l.errno
                           /\ Answer("exists", t, l.ptr # NULL, NULL, NULL)
  /\ UNCHANGED <<archives, alive, held>>

------------------------------------------------------------------------------
\* archive_file_get

\* Where and for which version the bytes behind a fileEntry are read: the
\* parent archive, opened again by its path.
DataOf(p) ==
  LET file == FileAt(archives, p)
      archive == archives[file.parent]
  IN  [path |-> archive.path, offset |-> file.offset,
       version |-> archive.version]

\* The answers and errno of archive_file_get once the lookup l is done.  The
\* archive's file may be gone, too short or different by now, and allocation,
\* seek, read or decoding may fail.
Reads(l) ==
  IF l.ptr = NULL THEN {[data |-> NULL, errno |-> "ENOENT"]}
  ELSE IF FileAt(archives, l.ptr).stored_size = 0
  THEN {[data |-> NULL, errno |-> l.errno]}
  ELSE {[data |-> NULL, errno |-> e] : e \in {"ENOMEM", "ENOENT", "EINVAL", "EIO"}}
       \cup {[data |-> DataOf(l.ptr), errno |-> l.errno]}

Get(t) ==
  /\ alive
  /\ \E l \in Lookups(t) : \E r \in Reads(l) :
        /\ internal' = l.internal
        /\ errno' = r.errno
        /\ Answer("get", t, r.data # NULL, NULL, r.data)
  /\ UNCHANGED <<archives, alive, held>>

------------------------------------------------------------------------------
Init == /\ archives = << >>
        /\ internal = NULL
        /\ errno = "0"
        /\ alive = TRUE
        /\ held = {}
        /\ res = [op |-> "init", arg |-> NULL, ok |-> TRUE,
                  ptr |-> NULL, data |-> NULL]

Next == \/ Load
        \/ Abort
        \/ Free
        \/ \E t \in Targets : Find(t) \/ Exists(t) \/ Get(t)

Spec == Init /\ [][Next]_vars

------------------------------------------------------------------------------
\* Properties

TypeOK ==
  /\ archives \in Seq(ArchiveEntry)
  /\ Len(archives) <= MaxArchives
  /\ internal \in {NULL} \cup Internal
  /\ errno \in Errnos
  /\ alive \in BOOLEAN
  /\ held \subseteq [ptr : Ptrs, name : Names]
  /\ res \in [op : {"init", "load", "free", "find", "exists", "get"},
             arg : Targets,
             ok : BOOLEAN, ptr : {NULL} \cup Ptrs, data : {NULL} \cup Data]

\* An index marked sorted lists every file of every loaded archive and is
\* ordered by name.
IndexCoherent ==
  (internal # NULL /\ internal.is_sorted) =>
     /\ {internal.sorted_files[i] : i \in DOMAIN internal.sorted_files}
           = PtrsOf(archives)
     /\ Ordered(archives, internal.sorted_files)

\* The index exists exactly while archives are loaded, and even a stale one
\* points only at live fileEntries.
IndexLive ==
  /\ internal = NULL <=> archives = << >>
  /\ internal # NULL =>
        \A i \in DOMAIN internal.sorted_files :
           internal.sorted_files[i] \in PtrsOf(archives)

\* bsearch in archive_file_find has the index it needs: one marked sorted is
\* complete and in order, which a load after a lookup breaks unless archive_load
\* marks it stale; archive_file_build_idx never asks calloc for an empty array;
\* and no lookup after archive_manager_free or a late load follows a pointer into
\* a freed files block.
IndexSound == IndexCoherent /\ IndexLive

\* Every fileEntry points back at the slot that holds it.
ParentsValid ==
  \A p \in PtrsOf(archives) : FileAt(archives, p).parent = p.slot

\* A fileEntry pointer archive_file_find returned names the same live file.
HandlesStable ==
  \A h \in held : /\ h.ptr \in PtrsOf(archives)
                  /\ NameAt(archives, h.ptr) = h.name

\* A fileEntry pointer stays good through later loads, failed loads and index
\* rebuilds, until the manager is freed, and archive_file_get opens the archive
\* its file is in.
HandlesSound == HandlesStable /\ ParentsValid

\* The manager implements the store archive.h promises: a lookup finds a file
\* exactly when a loaded archive holds one of that name, a read returns bytes
\* of such a file, a failed load changes nothing and a load never replaces a
\* stored file.
Store == {[ptr |-> p, name |-> NameAt(archives, p), data |-> DataOf(p)] :
            p \in PtrsOf(archives)}

VFS == INSTANCE VirtualFS
         WITH store <- Store, Files <- [ptr : Ptrs, name : Names, data : Data]

VFSSpec == VFS!Spec
==============================================================================
