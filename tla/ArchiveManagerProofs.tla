------------------------- MODULE ArchiveManagerProofs -------------------------
(***************************************************************************)
(* Proofs about the archive manager, for any number of archives, files and *)
(* names: its invariants, and that it implements the store archive.h       *)
(* promises (VirtualFS).                                                   *)
(***************************************************************************)
EXTENDS ArchiveManager, DataFacts, SequenceTheorems, FiniteSetTheorems, TLAPS

\* Everything the manager preserves; each conjunct needs the others.
Inv == TypeOK /\ IndexCoherent /\ IndexLive /\ ParentsValid /\ HandlesStable

------------------------------------------------------------------------------
(* The files of a list of archives.                                        *)

\* Every loaded archive is an archiveEntry whose files are fileEntries.
LEMMA FilesType ==
  ASSUME NEW as \in Seq(ArchiveEntry), NEW s \in DOMAIN as
  PROVE  as[s] \in ArchiveEntry /\ as[s].files \in Seq(FileEntry)
<1>1. as[s] \in ArchiveEntry
  BY SeqDomain
<1>2. QED
  BY <1>1 DEF ArchiveEntry

\* A file pointer is a slot of the list and a position of that archive.
LEMMA PtrsOfElem ==
  ASSUME NEW as, NEW p
  PROVE  p \in PtrsOf(as) <=> /\ p = [slot |-> p.slot, pos |-> p.pos]
                              /\ p.slot \in DOMAIN as
                              /\ p.pos \in DOMAIN as[p.slot].files
<1>1. ASSUME NEW s \in DOMAIN as, p \in [slot : {s}, pos : DOMAIN as[s].files]
      PROVE  /\ p = [slot |-> p.slot, pos |-> p.pos]
             /\ p.slot = s
             /\ p.pos \in DOMAIN as[s].files
  BY <1>1
<1>2. ASSUME p = [slot |-> p.slot, pos |-> p.pos],
             p.slot \in DOMAIN as, p.pos \in DOMAIN as[p.slot].files
      PROVE  p \in [slot : {p.slot}, pos : DOMAIN as[p.slot].files]
  BY <1>2
<1>3. QED
  BY <1>1, <1>2 DEF PtrsOf

\* What a file pointer leads to is a fileEntry.
LEMMA PtrsOfType ==
  ASSUME NEW as \in Seq(ArchiveEntry), NEW p \in PtrsOf(as)
  PROVE  /\ p \in Ptrs
         /\ p.slot \in DOMAIN as
         /\ p.pos \in DOMAIN as[p.slot].files
         /\ FileAt(as, p) \in FileEntry
         /\ NameAt(as, p) \in Names
<1>1. /\ p = [slot |-> p.slot, pos |-> p.pos]
      /\ p.slot \in DOMAIN as
      /\ p.pos \in DOMAIN as[p.slot].files
  BY PtrsOfElem
<1>2. as[p.slot].files \in Seq(FileEntry)
  BY <1>1, FilesType
<1>3. FileAt(as, p) \in FileEntry
  BY <1>1, <1>2, SeqDomain DEF FileAt
<1>4. p.slot \in Nat /\ p.pos \in Nat
  <2>1. DOMAIN as \subseteq Nat
    BY SeqDomain
  <2>2. DOMAIN as[p.slot].files \subseteq Nat
    BY <1>2, SeqDomain
  <2>3. QED
    BY <1>1, <2>1, <2>2
<1>5. p \in Ptrs
  BY <1>1, <1>4 DEF Ptrs
<1>6. NameAt(as, p) \in Names
  BY <1>3 DEF NameAt, FileEntry
<1>7. QED
  BY <1>1, <1>3, <1>5, <1>6

\* Loading one more archive adds its files and moves no other.
LEMMA PtrsOfAppend ==
  ASSUME NEW as \in Seq(ArchiveEntry), NEW e \in ArchiveEntry, NEW p
  PROVE  /\ p \in PtrsOf(Append(as, e))
               <=> \/ p \in PtrsOf(as)
                   \/ p \in [slot : {Len(as) + 1}, pos : DOMAIN e.files]
         /\ p \in PtrsOf(as) => /\ FileAt(Append(as, e), p) = FileAt(as, p)
                                /\ p.slot # Len(as) + 1
<1> DEFINE n == Len(as)
<1>a. n \in Nat /\ DOMAIN as = 1..n
  BY LenProperties
<1>b. DOMAIN Append(as, e) = 1..(n + 1)
  BY AppendDomain
<1>c. \A i \in 1..n : Append(as, e)[i] = as[i]
  BY AppendDomain
<1>d. Append(as, e)[n + 1] = e
  BY AppendDomain
<1> HIDE DEF n
<1>1. n \in Nat => /\ \A s : s \in 1..(n + 1) <=> (s \in 1..n \/ s = n + 1)
                   /\ n + 1 \notin 1..n
  OBVIOUS
<1>2. /\ \A s : s \in DOMAIN Append(as, e) <=> (s \in DOMAIN as \/ s = n + 1)
      /\ n + 1 \notin DOMAIN as
      /\ \A s \in DOMAIN as : Append(as, e)[s] = as[s]
  BY <1>a, <1>b, <1>c, <1>1
<1>3. ASSUME p \in PtrsOf(Append(as, e))
      PROVE  p \in PtrsOf(as) \/ p \in [slot : {n + 1}, pos : DOMAIN e.files]
  <2>1. /\ p = [slot |-> p.slot, pos |-> p.pos]
        /\ p.slot \in DOMAIN as \/ p.slot = n + 1
        /\ p.pos \in DOMAIN Append(as, e)[p.slot].files
    BY <1>2, <1>3, PtrsOfElem
  <2>2. CASE p.slot = n + 1
    BY <2>1, <2>2, <1>d
  <2>3. CASE p.slot \in DOMAIN as
    BY <2>1, <2>3, <1>2, PtrsOfElem
  <2>4. QED
    BY <2>1, <2>2, <2>3
<1>4. ASSUME p \in PtrsOf(as)
      PROVE  p \in PtrsOf(Append(as, e)) /\ p.slot \in DOMAIN as
  <2>1. /\ p = [slot |-> p.slot, pos |-> p.pos]
        /\ p.slot \in DOMAIN as
        /\ p.pos \in DOMAIN as[p.slot].files
    BY <1>4, PtrsOfElem
  <2>2. /\ p.slot \in DOMAIN Append(as, e)
        /\ Append(as, e)[p.slot] = as[p.slot]
    BY <2>1, <1>2
  <2>3. QED
    BY <2>1, <2>2, PtrsOfElem
<1>5. ASSUME p \in [slot : {n + 1}, pos : DOMAIN e.files]
      PROVE  p \in PtrsOf(Append(as, e))
  <2>1. /\ p = [slot |-> p.slot, pos |-> p.pos]
        /\ p.slot = n + 1
        /\ p.pos \in DOMAIN e.files
    BY <1>5
  <2>2. p.slot \in DOMAIN Append(as, e) /\ Append(as, e)[p.slot] = e
    BY <2>1, <1>2, <1>d
  <2>3. QED
    BY <2>1, <2>2, PtrsOfElem
<1>6. p \in PtrsOf(as) => /\ FileAt(Append(as, e), p) = FileAt(as, p)
                          /\ p.slot # n + 1
  BY <1>2, <1>4 DEF FileAt
<1>7. QED
  BY <1>3, <1>4, <1>5, <1>6 DEF n

\* There are finitely many files, so their number is a natural.
LEMMA PtrsOfFinite ==
  ASSUME NEW as \in Seq(ArchiveEntry)
  PROVE  Cardinality(PtrsOf(as)) \in Nat
<1> DEFINE T == {[slot : {s}, pos : DOMAIN as[s].files] : s \in DOMAIN as}
           f == [s \in DOMAIN as |-> [slot : {s}, pos : DOMAIN as[s].files]]
<1>1. ASSUME NEW S, NEW q \in Seq(S) PROVE IsFiniteSet(DOMAIN q)
  <2>1. PICK n \in Nat : DOMAIN q = 1..n
    BY SeqDomain
  <2>2. IsFiniteSet(1..n)
    BY FS_Interval
  <2>3. QED
    BY <2>1, <2>2
<1>2. IsFiniteSet(T)
  <2>1. f \in Surjection(DOMAIN as, T)
    BY DEF Surjection
  <2>2. IsFiniteSet(DOMAIN as)
    BY <1>1
  <2>3. QED
    BY <2>1, <2>2, FS_Surjection
<1>3. ASSUME NEW s \in DOMAIN as
      PROVE  IsFiniteSet([slot : {s}, pos : DOMAIN as[s].files])
  <2> DEFINE D == DOMAIN as[s].files
             R == [slot : {s}, pos : D]
             g == [j \in D |-> [slot |-> s, pos |-> j]]
  <2>1. IsFiniteSet(D)
    BY <1>1, FilesType
  <2>2. g \in Surjection(D, R)
    <3>1. g \in [D -> R]
      OBVIOUS
    <3>2. ASSUME NEW p \in R PROVE \E j \in D : g[j] = p
      <4>1. p.pos \in D /\ g[p.pos] = p
        OBVIOUS
      <4>2. QED
        BY <4>1
    <3>3. QED
      BY <3>1, <3>2 DEF Surjection
  <2>3. IsFiniteSet(R)
    <3> HIDE DEF D, R, g
    <3>1. QED
      BY <2>1, <2>2, FS_Surjection
  <2>4. QED
    BY <2>3
<1>4. IsFiniteSet(PtrsOf(as))
  BY <1>2, <1>3, FS_UNION DEF PtrsOf
<1>5. QED
  BY <1>4, FS_CardinalityType

------------------------------------------------------------------------------
(* archive_load                                                            *)

\* The entry a successful load appends is an archiveEntry with one fileEntry
\* per file of the manifest, each pointing back at the slot.
LEMMA NewEntryType ==
  ASSUME NEW p, NEW img \in Images, NEW slot \in Nat, Loadable(p, img)
  PROVE  /\ NewEntry(p, img, slot) \in ArchiveEntry
         /\ \A j \in DOMAIN NewEntry(p, img, slot).files :
               NewEntry(p, img, slot).files[j].parent = slot
<1> DEFINE fs == NewEntry(p, img, slot).files
<1>1. img \in Image
  BY ImagesAssumption
<1>2. img.files \in Seq(YurisFile) /\ img.version \in Nat
  BY <1>1 DEF Image
<1>3. PICK n \in Nat : DOMAIN img.files = 1..n
  BY <1>2, SeqDomain
<1>4. \A j \in 1..n : img.files[j] \in YurisFile
  BY <1>2, <1>3, SeqDomain
<1>5. fs \in [1..n -> FileEntry]
  BY <1>3, <1>4 DEF NewEntry, YurisFile, FileEntry
<1>6. fs \in Seq(FileEntry)
  BY <1>5, FunctionIsSeq
<1>7. p \in Paths
  BY DEF Loadable, Full
<1>8. NewEntry(p, img, slot) \in ArchiveEntry
  BY <1>2, <1>6, <1>7 DEF NewEntry, ArchiveEntry, ArchiveType
<1>9. \A j \in DOMAIN fs : fs[j].parent = slot
  BY DEF NewEntry
<1>10. QED
  BY <1>8, <1>9

\* After a load there is an index; it is stale and holds what it held.
LEMMA InternalAfterLoadType ==
  ASSUME internal \in {NULL} \cup Internal
  PROVE  /\ InternalAfterLoad \in Internal
         /\ InternalAfterLoad # NULL
         /\ ~InternalAfterLoad.is_sorted
         /\ \A i \in DOMAIN InternalAfterLoad.sorted_files :
               /\ internal # NULL
               /\ i \in DOMAIN internal.sorted_files
               /\ InternalAfterLoad.sorted_files[i] = internal.sorted_files[i]
<1>1. CASE internal = NULL
  <2>1. InternalAfterLoad = [sorted_files |-> << >>, is_sorted |-> FALSE]
    BY <1>1 DEF InternalAfterLoad
  <2>2. << >> \in Seq(Ptrs)
    BY EmptySeq
  <2>3. InternalAfterLoad \in Internal
    BY <2>1, <2>2 DEF Internal
  <2>4. DOMAIN InternalAfterLoad.sorted_files = {}
    BY <2>1
  <2>5. QED
    BY <2>1, <2>3, <2>4, NullAssumption
<1>2. CASE internal # NULL
  <2>1. internal \in Internal
    BY <1>2
  <2>2. InternalAfterLoad = [internal EXCEPT !.is_sorted = FALSE]
    BY <1>2 DEF InternalAfterLoad
  <2>3. /\ InternalAfterLoad \in Internal
        /\ ~InternalAfterLoad.is_sorted
        /\ InternalAfterLoad.sorted_files = internal.sorted_files
    BY <2>1, <2>2 DEF Internal
  <2>4. QED
    BY <1>2, <2>3, NullAssumption
<1>3. QED
  BY <1>1, <1>2

------------------------------------------------------------------------------
(* archive_file_find                                                       *)

\* Building the index yields an ordered array of all files.
LEMMA IndexesType ==
  ASSUME archives \in Seq(ArchiveEntry), NEW q \in Indexes
  PROVE  /\ q \in Seq(Ptrs)
         /\ {q[i] : i \in DOMAIN q} = PtrsOf(archives)
         /\ Ordered(archives, q)
<1> DEFINE n == Cardinality(PtrsOf(archives))
<1>1. n \in Nat
  BY PtrsOfFinite
<1>2. /\ q \in [1..n -> PtrsOf(archives)]
      /\ \A p \in PtrsOf(archives) : \E i \in 1..n : q[i] = p
      /\ Ordered(archives, q)
  BY DEF Indexes
<1> HIDE DEF n
<1>3. PtrsOf(archives) \subseteq Ptrs
  BY PtrsOfType
<1>4. q \in [1..n -> Ptrs]
  BY <1>2, <1>3
<1>5. q \in Seq(Ptrs)
  BY <1>1, <1>4, FunctionIsSeq
<1>6. {q[i] : i \in DOMAIN q} = PtrsOf(archives)
  BY <1>2
<1>7. QED
  BY <1>2, <1>5, <1>6

\* The index a lookup searches is typed, sorted, complete and ordered.
LEMMA RefreshedType ==
  ASSUME Inv, internal # NULL, NEW in \in Refreshed
  PROVE  /\ in \in Internal
         /\ in.is_sorted
         /\ {in.sorted_files[i] : i \in DOMAIN in.sorted_files} = PtrsOf(archives)
         /\ Ordered(archives, in.sorted_files)
<1>1. internal \in Internal /\ archives \in Seq(ArchiveEntry)
  BY DEF Inv, TypeOK
<1>2. CASE internal.is_sorted
  <2>1. in = internal
    BY <1>2 DEF Refreshed
  <2>2. QED
    BY <1>1, <1>2, <2>1 DEF Inv, IndexCoherent
<1>3. CASE ~internal.is_sorted
  <2>1. PICK q \in Indexes : in = [sorted_files |-> q, is_sorted |-> TRUE]
    BY <1>3 DEF Refreshed
  <2>2. /\ q \in Seq(Ptrs)
        /\ {q[i] : i \in DOMAIN q} = PtrsOf(archives)
        /\ Ordered(archives, q)
    BY <1>1, IndexesType
  <2>3. QED
    BY <2>1, <2>2 DEF Internal
<1>4. QED
  BY <1>2, <1>3

\* In an ordered, complete array bsearch finds a file of the name if there is
\* one.
LEMMA BSearchType ==
  ASSUME NEW q, NEW t, NEW p \in BSearch(q, t),
         {q[i] : i \in DOMAIN q} = PtrsOf(archives),
         Ordered(archives, q),
         NULL \notin PtrsOf(archives)
  PROVE  \/ p \in PtrsOf(archives) /\ NameAt(archives, p) = t
         \/ p = NULL /\ \A f \in PtrsOf(archives) : NameAt(archives, f) # t
<1> DEFINE hits == {q[i] : i \in {k \in DOMAIN q : NameAt(archives, q[k]) = t}}
<1>1. hits = {f \in PtrsOf(archives) : NameAt(archives, f) = t}
  OBVIOUS
<1>2. p \in IF hits # {} /\ Ordered(archives, q) THEN hits ELSE hits \cup {NULL}
  BY DEF BSearch
<1> HIDE DEF hits
<1>3. QED
  BY <1>1, <1>2

\* archive_file_find: a pointer to a live file of that name, or none when there
\* is none; the index it leaves is coherent.
LEMMA LookupsType ==
  ASSUME Inv, NEW t \in Targets, NEW l \in Lookups(t)
  PROVE  /\ \/ l.ptr = NULL /\ \A f \in PtrsOf(archives) : NameAt(archives, f) # t
            \/ /\ l.ptr \in PtrsOf(archives)
               /\ l.ptr \in Ptrs
               /\ NameAt(archives, l.ptr) = t
               /\ t \in Names
         /\ l.errno \in Errnos
         /\ \/ l.internal = internal
            \/ /\ internal # NULL
               /\ l.internal \in Internal
               /\ {l.internal.sorted_files[i] :
                      i \in DOMAIN l.internal.sorted_files} = PtrsOf(archives)
               /\ Ordered(archives, l.internal.sorted_files)
<1>1. archives \in Seq(ArchiveEntry) /\ errno \in Errnos
  BY DEF Inv, TypeOK
<1>2. \A f \in PtrsOf(archives) : f \in Ptrs /\ NameAt(archives, f) \in Names
  BY <1>1, PtrsOfType
<1>3. NULL \notin PtrsOf(archives)
  BY <1>2, NullAssumption
<1>4. CASE t \notin Names
  <2>1. /\ l.ptr = NULL
        /\ l.internal = internal
        /\ l.errno = errno \/ l.errno = "ENAMETOOLONG"
    BY <1>4 DEF Lookups, Targets
  <2>2. QED
    BY <2>1, <1>1, <1>2, <1>4 DEF Errnos
<1>5. CASE t \in Names /\ internal = NULL
  <2>1. l.ptr = NULL /\ l.internal = internal /\ l.errno = "ENOENT"
    BY <1>5, NullAssumption, NamesAssumption DEF Lookups
  <2>2. PtrsOf(archives) = {}
    BY <1>5 DEF Inv, IndexLive, PtrsOf
  <2>3. QED
    BY <2>1, <2>2 DEF Errnos
<1>6. CASE t \in Names /\ internal # NULL
  <2>1. t # NULL /\ t \notin LongNames
    BY <1>6, NullAssumption, NamesAssumption
  <2>2. l \in UNION {{[ptr |-> p, internal |-> in, errno |-> errno] :
                         p \in BSearch(in.sorted_files, t)} : in \in Refreshed}
    BY <1>6, <2>1 DEF Lookups
  <2>3. PICK in \in Refreshed :
          \E p \in BSearch(in.sorted_files, t) :
             l = [ptr |-> p, internal |-> in, errno |-> errno]
    BY <2>2
  <2>4. /\ l.ptr \in BSearch(in.sorted_files, t)
        /\ l.internal = in
        /\ l.errno = errno
    BY <2>3
  <2>5. /\ in \in Internal
        /\ {in.sorted_files[i] : i \in DOMAIN in.sorted_files} = PtrsOf(archives)
        /\ Ordered(archives, in.sorted_files)
    BY <1>6, RefreshedType
  <2>6. \/ l.ptr \in PtrsOf(archives) /\ NameAt(archives, l.ptr) = t
        \/ l.ptr = NULL /\ \A f \in PtrsOf(archives) : NameAt(archives, f) # t
    BY <2>4, <2>5, <1>3, BSearchType
  <2>7. QED
    BY <1>1, <1>2, <1>6, <2>4, <2>5, <2>6
<1>7. QED
  BY <1>4, <1>5, <1>6

------------------------------------------------------------------------------
(* The invariants.                                                         *)

LEMMA InitInv == Init => Inv
<1> SUFFICES ASSUME Init PROVE Inv
  OBVIOUS
<1>1. archives \in Seq(ArchiveEntry) /\ Len(archives) = 0
  BY EmptySeq DEF Init
<1>2. PtrsOf(archives) = {}
  BY DEF Init, PtrsOf
<1>3. TypeOK
  BY <1>1, MaxAssumption DEF Init, TypeOK, Errnos, Targets
<1>4. QED
  BY <1>2, <1>3 DEF Init, Inv, IndexCoherent, IndexLive, ParentsValid, HandlesStable

LEMMA LoadOkInv ==
  ASSUME Inv, NEW p, NEW img \in Images, LoadOk(p, img), UNCHANGED alive
  PROVE  Inv'
<1> DEFINE slot == Len(archives) + 1
           e == NewEntry(p, img, slot)
<1>1. /\ archives \in Seq(ArchiveEntry)
      /\ internal \in {NULL} \cup Internal
      /\ Len(archives) \in Nat
  BY LenProperties DEF Inv, TypeOK
<1>2. slot \in Nat
  BY <1>1
<1>3. Loadable(p, img) /\ archives' = Append(archives, e)
  BY DEF LoadOk
<1>4. /\ e \in ArchiveEntry
      /\ \A j \in DOMAIN e.files : e.files[j].parent = slot
  BY <1>2, <1>3, NewEntryType
<1>5. /\ archives' \in Seq(ArchiveEntry)
      /\ Len(archives') = Len(archives) + 1
      /\ archives' # << >>
      /\ archives'[slot] = e
  BY <1>1, <1>3, <1>4, AppendProperties
<1> HIDE DEF e, slot
<1>6. \A f : /\ f \in PtrsOf(archives')
                   <=> \/ f \in PtrsOf(archives)
                       \/ f \in [slot : {slot}, pos : DOMAIN e.files]
             /\ f \in PtrsOf(archives) =>
                   FileAt(archives', f) = FileAt(archives, f)
  BY <1>1, <1>3, <1>4, PtrsOfAppend DEF slot
<1>7. /\ internal' \in Internal
      /\ internal' # NULL
      /\ ~internal'.is_sorted
      /\ \A i \in DOMAIN internal'.sorted_files :
            /\ internal # NULL
            /\ i \in DOMAIN internal.sorted_files
            /\ internal'.sorted_files[i] = internal.sorted_files[i]
  BY <1>1, InternalAfterLoadType DEF LoadOk
<1>8. TypeOK'
  <2>1. ~(Len(archives) >= MaxArchives)
    BY <1>3 DEF Loadable, Full
  <2>2. Len(archives') <= MaxArchives
    BY <2>1, <1>1, <1>5, MaxAssumption
  <2>3. res' \in [op : {"init", "load", "free", "find", "exists", "get"},
                  arg : Targets, ok : BOOLEAN,
                  ptr : {NULL} \cup Ptrs, data : {NULL} \cup Data]
    BY DEF LoadOk, Answer, Targets
  <2>4. QED
    BY <1>5, <1>7, <2>2, <2>3 DEF Inv, TypeOK, LoadOk
<1>9. IndexCoherent'
  BY <1>7 DEF IndexCoherent
<1>10. IndexLive'
  BY <1>5, <1>6, <1>7 DEF Inv, IndexLive
<1>11. ParentsValid'
  <2> SUFFICES ASSUME NEW f \in PtrsOf(archives')
               PROVE  FileAt(archives', f).parent = f.slot
    BY DEF ParentsValid
  <2>1. CASE f \in PtrsOf(archives)
    BY <2>1, <1>6 DEF Inv, ParentsValid
  <2>2. CASE f \in [slot : {slot}, pos : DOMAIN e.files]
    BY <2>2, <1>4, <1>5 DEF FileAt
  <2>3. QED
    BY <2>1, <2>2, <1>6
<1>12. HandlesStable'
  BY <1>6 DEF Inv, HandlesStable, LoadOk, NameAt
<1>13. QED
  BY <1>8, <1>9, <1>10, <1>11, <1>12 DEF Inv

\* Calls that leave the archives alone and at most replace the index by a
\* coherent one.
LEMMA LookupInv ==
  ASSUME Inv, NEW t \in Targets, NEW l \in Lookups(t),
         internal' = l.internal,
         UNCHANGED <<archives, alive>>,
         errno' \in Errnos,
         held' \subseteq held \cup {[ptr |-> l.ptr, name |-> t]},
         l.ptr = NULL => held' = held,
         res' \in [op : {"init", "load", "free", "find", "exists", "get"},
                   arg : Targets, ok : BOOLEAN,
                   ptr : {NULL} \cup Ptrs, data : {NULL} \cup Data]
  PROVE  Inv'
<1>1. /\ \/ l.ptr = NULL
         \/ /\ l.ptr \in PtrsOf(archives)
            /\ l.ptr \in Ptrs
            /\ NameAt(archives, l.ptr) = t
            /\ t \in Names
      /\ \/ internal' = internal
         \/ /\ internal # NULL
            /\ internal' \in Internal
            /\ {internal'.sorted_files[i] : i \in DOMAIN internal'.sorted_files}
                  = PtrsOf(archives)
            /\ Ordered(archives, internal'.sorted_files)
  BY LookupsType
<1>2. TypeOK'
  <2>1. held' \subseteq [ptr : Ptrs, name : Names]
    BY <1>1 DEF Inv, TypeOK
  <2>2. QED
    BY <1>1, <2>1 DEF Inv, TypeOK
<1>3. IndexCoherent'
  BY <1>1 DEF Inv, IndexCoherent
<1>4. IndexLive'
  <2>1. CASE internal' = internal
    BY <2>1 DEF Inv, IndexLive
  <2>2. CASE /\ internal # NULL
             /\ internal' \in Internal
             /\ {internal'.sorted_files[i] : i \in DOMAIN internal'.sorted_files}
                  = PtrsOf(archives)
    BY <2>2, NullAssumption DEF Inv, IndexLive
  <2>3. QED
    BY <1>1, <2>1, <2>2
<1>5. ParentsValid'
  BY DEF Inv, ParentsValid
<1>6. HandlesStable'
  BY <1>1 DEF Inv, HandlesStable
<1>7. QED
  BY <1>2, <1>3, <1>4, <1>5, <1>6 DEF Inv

\* Where archive_file_get reads a file it found: the archive that holds it.
LEMMA DataOfType ==
  ASSUME Inv, NEW f \in PtrsOf(archives)
  PROVE  /\ DataOf(f) \in Data
         /\ DataOf(f) = [path |-> archives[f.slot].path,
                         offset |-> FileAt(archives, f).offset,
                         version |-> archives[f.slot].version]
<1>1. archives \in Seq(ArchiveEntry)
  BY DEF Inv, TypeOK
<1>2. f.slot \in DOMAIN archives /\ FileAt(archives, f) \in FileEntry
  BY <1>1, PtrsOfType
<1>3. archives[f.slot] \in ArchiveEntry
  BY <1>1, <1>2, FilesType
<1>4. FileAt(archives, f).parent = f.slot
  BY DEF Inv, ParentsValid
<1>5. DataOf(f) = [path |-> archives[f.slot].path,
                   offset |-> FileAt(archives, f).offset,
                   version |-> archives[f.slot].version]
  BY <1>4 DEF DataOf
<1>6. QED
  BY <1>2, <1>3, <1>5 DEF Data, ArchiveEntry, FileEntry

\* What archive_file_get answers once the lookup is done.
LEMMA ReadsType ==
  ASSUME Inv, NEW t \in Targets, NEW l \in Lookups(t), NEW r \in Reads(l)
  PROVE  /\ r.errno \in Errnos
         /\ \/ r.data = NULL
            \/ /\ l.ptr \in PtrsOf(archives)
               /\ NameAt(archives, l.ptr) = t
               /\ r.data = DataOf(l.ptr)
               /\ r.data \in Data
<1>1. /\ \/ l.ptr = NULL
         \/ l.ptr \in PtrsOf(archives) /\ NameAt(archives, l.ptr) = t
      /\ l.errno \in Errnos
  BY LookupsType
<1>2. CASE l.ptr = NULL
  BY <1>2 DEF Reads, Errnos
<1>3. CASE l.ptr # NULL
  <2>1. \/ r.data = NULL /\ r.errno \in Errnos
        \/ r.data = DataOf(l.ptr) /\ r.errno = l.errno
    BY <1>1, <1>3 DEF Reads, Errnos
  <2>2. DataOf(l.ptr) \in Data
    BY <1>1, <1>3, DataOfType
  <2>3. QED
    BY <1>1, <1>3, <2>1, <2>2
<1>4. QED
  BY <1>2, <1>3

LEMMA NextInv == Inv /\ [Next]_vars => Inv'
<1> SUFFICES ASSUME Inv, [Next]_vars PROVE Inv'
  OBVIOUS
<1>1. CASE Load
  <2>1. PICK p \in Paths \cup LongPaths \cup {NULL}, img \in Images :
              LoadOk(p, img) \/ LoadFail(p, img)
    BY <1>1 DEF Load
  <2>2. CASE LoadOk(p, img)
    BY <1>1, <2>2, LoadOkInv DEF Load
  <2>3. CASE LoadFail(p, img)
    <3>1. errno' \in Errnos
      BY <2>3 DEF LoadFail, LoadErrors, Full, Errnos
    <3>2. UNCHANGED <<archives, internal, held, alive>>
      BY <1>1, <2>3 DEF Load, LoadFail, manager
    <3>3. TypeOK'
      BY <2>3, <3>1, <3>2 DEF Inv, TypeOK, LoadFail, Answer, Targets
    <3>4. QED
      BY <3>2, <3>3 DEF Inv, IndexCoherent, IndexLive, ParentsValid, HandlesStable
  <2>4. QED
    BY <2>1, <2>2, <2>3
<1>2. CASE Abort
  <2>1. UNCHANGED <<archives, internal, errno, held, res>> /\ alive' = FALSE
    BY <1>2 DEF Abort, manager
  <2>2. QED
    BY <2>1 DEF Inv, TypeOK, IndexCoherent, IndexLive, ParentsValid, HandlesStable
<1>3. CASE Free
  <2>1. archives' \in Seq(ArchiveEntry) /\ Len(archives') = 0
    BY <1>3, EmptySeq DEF Free
  <2>2. TypeOK'
    BY <1>3, <2>1, MaxAssumption DEF Free, Inv, TypeOK, Answer, Targets
  <2>3. PtrsOf(archives') = {}
    BY <1>3 DEF Free, PtrsOf
  <2>4. QED
    BY <1>3, <2>2, <2>3
       DEF Free, Inv, IndexCoherent, IndexLive, ParentsValid, HandlesStable
<1>4. ASSUME NEW t \in Targets, Find(t) PROVE Inv'
  <2>1. PICK l \in Lookups(t) :
          /\ internal' = l.internal
          /\ errno' = l.errno
          /\ held' = IF l.ptr = NULL THEN held
                     ELSE held \cup {[ptr |-> l.ptr, name |-> t]}
          /\ Answer("find", t, l.ptr # NULL, l.ptr, NULL)
    BY <1>4 DEF Find
  <2>2. l.errno \in Errnos /\ l.ptr \in {NULL} \cup Ptrs
    BY LookupsType
  <2>3. res' \in [op : {"init", "load", "free", "find", "exists", "get"},
                  arg : Targets, ok : BOOLEAN,
                  ptr : {NULL} \cup Ptrs, data : {NULL} \cup Data]
    BY <2>1, <2>2 DEF Answer
  <2>4. UNCHANGED <<archives, alive>>
    BY <1>4 DEF Find
  <2>5. held' \subseteq held \cup {[ptr |-> l.ptr, name |-> t]}
    BY <2>1
  <2>6. QED
    BY <2>1, <2>2, <2>3, <2>4, <2>5, LookupInv
<1>5. ASSUME NEW t \in Targets, Exists(t) PROVE Inv'
  <2>1. PICK l \in Lookups(t) :
          /\ internal' = l.internal
          /\ errno' = l.errno
          /\ Answer("exists", t, l.ptr # NULL, NULL, NULL)
    BY <1>5 DEF Exists
  <2>2. l.errno \in Errnos
    BY LookupsType
  <2>3. res' \in [op : {"init", "load", "free", "find", "exists", "get"},
                  arg : Targets, ok : BOOLEAN,
                  ptr : {NULL} \cup Ptrs, data : {NULL} \cup Data]
    BY <2>1 DEF Answer
  <2>4. UNCHANGED <<archives, alive, held>>
    BY <1>5 DEF Exists
  <2>5. QED
    BY <2>1, <2>2, <2>3, <2>4, LookupInv
<1>6. ASSUME NEW t \in Targets, Get(t) PROVE Inv'
  <2>1. PICK l \in Lookups(t) : \E r \in Reads(l) :
          /\ internal' = l.internal
          /\ errno' = r.errno
          /\ Answer("get", t, r.data # NULL, NULL, r.data)
    BY <1>6 DEF Get
  <2>2. PICK r \in Reads(l) :
          /\ internal' = l.internal
          /\ errno' = r.errno
          /\ Answer("get", t, r.data # NULL, NULL, r.data)
    BY <2>1
  <2>3. r.errno \in Errnos /\ r.data \in {NULL} \cup Data
    BY ReadsType
  <2>4. res' \in [op : {"init", "load", "free", "find", "exists", "get"},
                  arg : Targets, ok : BOOLEAN,
                  ptr : {NULL} \cup Ptrs, data : {NULL} \cup Data]
    BY <2>2, <2>3 DEF Answer
  <2>5. UNCHANGED <<archives, alive, held>>
    BY <1>6 DEF Get
  <2>6. QED
    BY <2>2, <2>3, <2>4, <2>5, LookupInv
<1>7. CASE UNCHANGED vars
  BY <1>7 DEF vars, Inv, TypeOK, IndexCoherent, IndexLive, ParentsValid, HandlesStable
<1>8. QED
  BY <1>1, <1>2, <1>3, <1>4, <1>5, <1>6, <1>7 DEF Next

LEMMA Invariance == Spec => []Inv
<1>1. Init => Inv
  BY InitInv
<1>2. Inv /\ [Next]_vars => Inv'
  BY NextInv
<1>3. QED
  BY <1>1, <1>2, PTL DEF Spec

\* Type correctness of the archive manager of archive.c, whatever is on disk
\* and however the client calls it.
THEOREM TypeCorrect == Spec => []TypeOK
<1>1. Inv => TypeOK
  BY DEF Inv
<1>2. QED
  BY <1>1, Invariance, PTL

\* archive_file_find only ever searches a complete index, ordered by name: no
\* sequence of loads, failed loads, lookups and frees leaves one marked sorted
\* that misses a file, lists a stale one or is out of order.
THEOREM IndexIsCoherent == Spec => []IndexSound
<1>1. Inv => IndexSound
  BY DEF Inv, IndexSound
<1>2. QED
  BY <1>1, Invariance, PTL

\* Every fileEntry pointer archive_file_find hands out stays good until
\* archive_manager_free, and its parent pointer leads to its archive.
THEOREM HandlesAreStable == Spec => []HandlesSound
<1>1. Inv => HandlesSound
  BY DEF Inv, HandlesSound
<1>2. QED
  BY <1>1, Invariance, PTL

------------------------------------------------------------------------------
\* The manager implements VirtualFS.

\* The stored file behind a fileEntry pointer.
Stored(p) == [ptr |-> p, name |-> NameAt(archives, p), data |-> DataOf(p)]

StoreType == Store \subseteq [ptr : Ptrs, name : Names, data : Data]

LEMMA StoreTyped == Inv => StoreType
<1> SUFFICES ASSUME Inv, NEW p \in PtrsOf(archives)
             PROVE  p \in Ptrs /\ NameAt(archives, p) \in Names /\ DataOf(p) \in Data
  BY DEF StoreType, Store
<1>1. archives \in Seq(ArchiveEntry)
  BY DEF Inv, TypeOK
<1>2. QED
  BY <1>1, PtrsOfType, DataOfType

\* The files of a given name are those behind the pointers of that name.
LEMMA NamedFile ==
  ASSUME NEW t
  PROVE  /\ \A p \in PtrsOf(archives) :
               NameAt(archives, p) = t => Stored(p) \in VFS!Named(t)
         /\ (\A p \in PtrsOf(archives) : NameAt(archives, p) # t) => VFS!Named(t) = {}
BY DEF VFS!Named, Store, Stored

LEMMA StoreUnchanged == UNCHANGED archives => UNCHANGED Store
BY DEF Store, PtrsOf, NameAt, FileAt, DataOf

\* A file keeps its pointer, name and data when another archive is loaded.
LEMMA StoreGrows ==
  ASSUME Inv, NEW p, NEW img \in Images, LoadOk(p, img)
  PROVE  /\ \A f \in PtrsOf(archives) : /\ f \in PtrsOf(archives')
                                        /\ NameAt(archives', f) = NameAt(archives, f)
                                        /\ DataOf(f)' = DataOf(f)
         /\ \E f \in PtrsOf(archives') : f \notin PtrsOf(archives)
<1> DEFINE n == Len(archives)
           e == NewEntry(p, img, n + 1)
<1>1. /\ archives \in Seq(ArchiveEntry)
      /\ n \in Nat
  BY LenProperties DEF Inv, TypeOK
<1>2. Loadable(p, img) /\ archives' = Append(archives, e)
  BY DEF LoadOk
<1>3. e \in ArchiveEntry
  BY <1>1, <1>2, NewEntryType
<1>4. /\ DOMAIN archives = 1..n
      /\ \A i \in 1..n : archives'[i] = archives[i]
  BY <1>1, <1>2, <1>3, AppendDomain
<1>5. ASSUME NEW f \in PtrsOf(archives)
      PROVE  /\ f \in PtrsOf(archives')
             /\ NameAt(archives', f) = NameAt(archives, f)
             /\ DataOf(f)' = DataOf(f)
  <2>1. f \in PtrsOf(archives') /\ FileAt(archives', f) = FileAt(archives, f)
    BY <1>1, <1>2, <1>3, PtrsOfAppend
  <2>2. FileAt(archives, f).parent = f.slot /\ f.slot \in 1..n
    BY <1>1, <1>4, PtrsOfType DEF Inv, ParentsValid
  <2>3. archives'[FileAt(archives', f).parent] = archives[FileAt(archives, f).parent]
    BY <1>4, <2>1, <2>2
  <2>4. QED
    BY <2>1, <2>3 DEF NameAt, DataOf
<1>6. \E f \in PtrsOf(archives') : f \notin PtrsOf(archives)
  <2> DEFINE f == [slot |-> n + 1, pos |-> 1]
  <2>1. 1 \in DOMAIN e.files
    <3>1. img.files \in Seq(YurisFile) /\ img.files # << >>
      BY <1>2, ImagesAssumption DEF Loadable, Full, Image
    <3>2. DOMAIN img.files = 1..Len(img.files) /\ Len(img.files) \in Nat /\ Len(img.files) # 0
      BY <3>1, LenProperties, EmptySeq
    <3>3. DOMAIN e.files = DOMAIN img.files
      BY DEF NewEntry
    <3>4. QED
      BY <3>2, <3>3
  <2>2. f \in [slot : {n + 1}, pos : DOMAIN e.files]
    BY <2>1
  <2>3. f \in PtrsOf(archives')
    BY <1>1, <1>2, <1>3, <2>2, PtrsOfAppend
  <2>4. f.slot = n + 1
    OBVIOUS
  <2>5. f \notin PtrsOf(archives)
    BY <1>1, <1>3, <2>4, PtrsOfAppend
  <2>6. QED
    BY <2>3, <2>5
<1>7. QED
  BY <1>5, <1>6

LEMMA LoadImplements ==
  ASSUME Inv, StoreType', NEW p, NEW img \in Images, LoadOk(p, img)
  PROVE  VFS!Load
<1> DEFINE new == Store'
<1>1. new = {[ptr |-> f, name |-> NameAt(archives', f), data |-> DataOf(f)'] :
               f \in PtrsOf(archives')}
  BY DEF Store
<1>2. Store = {[ptr |-> f, name |-> NameAt(archives, f), data |-> DataOf(f)] :
               f \in PtrsOf(archives)}
  BY DEF Store
<1>3. new \subseteq [ptr : Ptrs, name : Names, data : Data]
  BY DEF StoreType
<1>4. ASSUME NEW f \in PtrsOf(archives)
      PROVE  [ptr |-> f, name |-> NameAt(archives', f), data |-> DataOf(f)']
               = [ptr |-> f, name |-> NameAt(archives, f), data |-> DataOf(f)]
  BY StoreGrows
<1>5. Store \subseteq new
  BY <1>1, <1>2, <1>4, StoreGrows
<1>6. Store # new
  <2>1. PICK f \in PtrsOf(archives') : f \notin PtrsOf(archives)
    BY StoreGrows
  <2>2. [ptr |-> f, name |-> NameAt(archives', f), data |-> DataOf(f)'] \in new
    BY <1>1
  <2>3. ASSUME NEW g \in Store PROVE g.ptr # f
    BY <1>2, <2>1
  <2>4. QED
    BY <2>2, <2>3
<1>7. ASSUME NEW f \in new \ Store, NEW g \in Store PROVE f.ptr # g.ptr
  <2>1. PICK x \in PtrsOf(archives') :
          f = [ptr |-> x, name |-> NameAt(archives', x), data |-> DataOf(x)']
    BY <1>1
  <2>2. PICK y \in PtrsOf(archives) :
          g = [ptr |-> y, name |-> NameAt(archives, y), data |-> DataOf(y)]
    BY <1>2
  <2>3. x # y
    BY <1>4, <2>1, <2>2, <1>7
  <2>4. QED
    BY <2>1, <2>2, <2>3
<1>8. res' = [op |-> "load", arg |-> NULL, ok |-> TRUE, ptr |-> NULL, data |-> NULL]
  BY DEF LoadOk, Answer
<1>9. QED
  BY <1>3, <1>5, <1>6, <1>7, <1>8 DEF VFS!Load, VFS!Answer

LEMMA StepImplements ==
  Inv /\ StoreType' /\ [Next]_vars => [VFS!Next]_(VFS!vars)
<1> SUFFICES ASSUME Inv, StoreType', [Next]_vars
             PROVE  VFS!Next \/ UNCHANGED VFS!vars
  OBVIOUS
<1>1. CASE Load
  <2>1. PICK p \in Paths \cup LongPaths \cup {NULL}, img \in Images :
              LoadOk(p, img) \/ LoadFail(p, img)
    BY <1>1 DEF Load
  <2>2. CASE LoadOk(p, img)
    BY <2>2, LoadImplements DEF VFS!Next
  <2>3. CASE LoadFail(p, img)
    BY <2>3, StoreUnchanged
       DEF LoadFail, manager, Answer, VFS!Next, VFS!Load, VFS!Answer
  <2>4. QED
    BY <2>1, <2>2, <2>3
<1>2. CASE Abort
  BY <1>2, StoreUnchanged DEF Abort, manager, VFS!vars
<1>3. CASE Free
  <2>1. archives' = << >> /\ Answer("free", NULL, TRUE, NULL, NULL)
    BY <1>3 DEF Free
  <2>2. Store' = {}
    BY <2>1 DEF Store, PtrsOf
  <2>3. QED
    BY <2>1, <2>2 DEF Answer, VFS!Next, VFS!Clear, VFS!Answer
<1>4. ASSUME NEW t \in Targets, Find(t) PROVE VFS!Find(t)
  <2>1. PICK l \in Lookups(t) : Answer("find", t, l.ptr # NULL, l.ptr, NULL)
    BY <1>4 DEF Find
  <2>2. UNCHANGED Store
    BY <1>4, StoreUnchanged DEF Find
  <2>3. CASE l.ptr = NULL
    <3>1. VFS!Named(t) = {}
      BY <2>3, LookupsType, NamedFile, StoreTyped, NullAssumption
    <3>2. QED
      BY <2>1, <2>2, <2>3, <3>1 DEF Answer, VFS!Find, VFS!Answer
  <2>4. CASE l.ptr # NULL
    <3>1. Stored(l.ptr) \in VFS!Named(t)
      BY <2>4, LookupsType, NamedFile
    <3>2. Stored(l.ptr).ptr = l.ptr
      BY DEF Stored
    <3>3. QED
      BY <2>1, <2>2, <2>4, <3>1, <3>2 DEF Answer, VFS!Find, VFS!Answer
  <2>5. QED
    BY <2>3, <2>4
<1>5. ASSUME NEW t \in Targets, Exists(t) PROVE VFS!Exists(t)
  <2>1. PICK l \in Lookups(t) : Answer("exists", t, l.ptr # NULL, NULL, NULL)
    BY <1>5 DEF Exists
  <2>2. UNCHANGED Store
    BY <1>5, StoreUnchanged DEF Exists
  <2>3. (l.ptr # NULL) = (VFS!Named(t) # {})
    <3>1. CASE l.ptr = NULL
      BY <3>1, LookupsType, NamedFile, NullAssumption
    <3>2. CASE l.ptr # NULL
      BY <3>2, LookupsType, NamedFile
    <3>3. QED
      BY <3>1, <3>2
  <2>4. QED
    BY <2>1, <2>2, <2>3 DEF Answer, VFS!Exists, VFS!Answer
<1>6. ASSUME NEW t \in Targets, Get(t) PROVE VFS!Get(t)
  <2>1. PICK l \in Lookups(t) :
          \E r \in Reads(l) : Answer("get", t, r.data # NULL, NULL, r.data)
    BY <1>6 DEF Get
  <2>2. PICK r \in Reads(l) : Answer("get", t, r.data # NULL, NULL, r.data)
    BY <2>1
  <2>3. UNCHANGED Store
    BY <1>6, StoreUnchanged DEF Get
  <2>4. CASE r.data = NULL
    BY <2>2, <2>3, <2>4 DEF Answer, VFS!Get, VFS!Answer
  <2>5. CASE r.data # NULL
    <3>1. Stored(l.ptr) \in VFS!Named(t) /\ r.data = DataOf(l.ptr)
      BY <2>5, ReadsType, NamedFile
    <3>2. Stored(l.ptr).data = r.data
      BY <3>1 DEF Stored
    <3>3. QED
      BY <2>2, <2>3, <2>5, <3>1, <3>2 DEF Answer, VFS!Get, VFS!Answer
  <2>6. QED
    BY <2>4, <2>5
<1>7. CASE UNCHANGED vars
  BY <1>7, StoreUnchanged DEF vars, VFS!vars
<1>8. QED
  BY <1>1, <1>2, <1>3, <1>4, <1>5, <1>6, <1>7 DEF Next, VFS!Next

\* The manager is the store archive.h describes, for any number of archives
\* and any files in them: a lookup misses only what no archive holds, a read
\* answers with a file of that name, and a load never takes a file away.
THEOREM ImplementsVirtualFS == Spec => VFSSpec
<1>1. Init => VFS!Init
  BY DEF Init, VFS!Init, Store, PtrsOf
<1>2. Inv => StoreType
  BY StoreTyped
<1>3. Inv /\ StoreType' /\ [Next]_vars => [VFS!Next]_(VFS!vars)
  BY StepImplements
<1>4. QED
  BY <1>1, <1>2, <1>3, Invariance, PTL DEF Spec, VFSSpec, VFS!Spec
==============================================================================
