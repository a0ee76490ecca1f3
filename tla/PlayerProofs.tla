----------------------------- MODULE PlayerProofs -----------------------------
(***************************************************************************)
(* Proofs about main, for any archives in any order, any limits and any    *)
(* option: the version it works with and what it holds when it ends.       *)
(***************************************************************************)
EXTENDS Player, DataFacts, TLAPS

\* What is there at each point of main: nothing is loaded before the target is
\* known, a version is there once it has been checked, a buffer is held only
\* between a read and the parser, and of a script of the list still to be shown.
Phases ==
  /\ pc \in {"args", "file"} => archives = << >> /\ version = NULL
  /\ pc = "args" => stop = "none"
  /\ pc \in {"args", "file", "dir", "version"} => loaded = {}
  /\ pc = "free" => archives = << >> /\ version # NULL /\ status \in {"SUCCESS", "FAILURE"}
  /\ pc \in ToSet(Definitions) \cup {"tools", "success", "fail"} => version # NULL
  /\ buffer # NULL => \/ pc \in ToSet(Definitions) \cup {"crash"}
                      \/ pc = "tools" /\ stop \in {"script", "scripts"}
  /\ (pc = "tools" /\ stop = "scripts" /\ buffer # NULL) => listed > 0

Inv == TypeOK /\ VersionLive /\ VersionOfScripts /\ ExitReleases /\ Phases

------------------------------------------------------------------------------
(* The definitions and the archives.                                       *)

LEMMA DefinitionSet == ToSet(Definitions) = {"ysc", "ystl", "ysv", "ysl"}
<1>1. DOMAIN Definitions = 1..4
  BY DEF Definitions
<1>2. /\ Definitions[1] = "ysc" /\ Definitions[2] = "ystl"
      /\ Definitions[3] = "ysv" /\ Definitions[4] = "ysl"
  BY DEF Definitions
<1>3. \A k : k \in 1..4 <=> k = 1 \/ k = 2 \/ k = 3 \/ k = 4
  OBVIOUS
<1> DEFINE D == Definitions
<1> HIDE DEF D
<1>4. ToSet(D) = {D[1], D[2], D[3], D[4]}
  BY <1>1, <1>3 DEF ToSet, D
<1>5. QED
  BY <1>2, <1>4 DEF D

\* The loaded archives by their slots.
LEMMA Slots ==
  ASSUME archives \in Seq(Archive)
  PROVE  /\ Len(archives) \in Nat
         /\ DOMAIN archives = 1..Len(archives)
         /\ archives = << >> <=> Len(archives) = 0
         /\ \A s \in DOMAIN archives : /\ archives[s] \in Archive
                                       /\ archives[s].version \in Versions
                                       /\ archives[s].type \in {"ASSET", "SCRIPT"}
                                       /\ archives[s].names \subseteq Scripts \cup {"asset"}
                                       /\ archives[s].names # {}
<1>1. Len(archives) \in Nat /\ DOMAIN archives = 1..Len(archives)
  BY LenProperties
<1>2. archives = << >> <=> Len(archives) = 0
  BY EmptySeq
<1>3. \A s \in DOMAIN archives : archives[s] \in Archive
  BY SeqDomain
<1>4. QED
  BY <1>1, <1>2, <1>3 DEF Archive

\* What one more archive changes.
LEMMA Added ==
  ASSUME archives \in Seq(Archive), NEW a \in Archive, archives' = With(a)
  PROVE  /\ archives' \in Seq(Archive)
         /\ Len(archives') = Len(archives) + 1
         /\ archives' # << >>
         /\ DOMAIN archives' = 1..(Len(archives) + 1)
         /\ \A s \in DOMAIN archives : archives'[s] = archives[s]
         /\ archives'[Slot] = a
<1>1. /\ archives' \in Seq(Archive)
      /\ DOMAIN archives = 1..Len(archives)
      /\ DOMAIN archives' = 1..(Len(archives) + 1)
      /\ \A s \in 1..Len(archives) : archives'[s] = archives[s]
      /\ archives'[Slot] = a
      /\ Len(archives) \in Nat
  BY AppendDomain DEF With, Slot
<1>2. Len(archives') = Len(archives) + 1
  BY AppendProperties DEF With
<1>3. archives' # << >>
  BY <1>1, <1>2, EmptySeq
<1>4. QED
  BY <1>1, <1>2, <1>3

\* A step that leaves the archives and the version alone.
LEMMA SameVersion ==
  ASSUME VersionLive, VersionOfScripts, pc \notin Ending, UNCHANGED <<archives, version>>
  PROVE  VersionLive' /\ VersionOfScripts'
BY DEF VersionLive, VersionOfScripts

\* Loading an archive keeps a version that is live and that of the last archive
\* with scripts.
LEMMA AdoptsRight ==
  ASSUME archives \in Seq(Archive), VersionLive, VersionOfScripts, pc \notin Ending,
         NEW a \in Archive, archives' = With(a), version' = Adopts(a)
  PROVE  VersionLive' /\ VersionOfScripts' /\ version' \in 1..Len(archives')
<1> DEFINE n == Len(archives)
<1>1. /\ n \in Nat
      /\ DOMAIN archives = 1..n
      /\ archives = << >> <=> n = 0
  BY Slots
<1>2. /\ DOMAIN archives' = 1..(n + 1)
      /\ Len(archives') = n + 1
      /\ archives' # << >>
      /\ \A s \in 1..n : archives'[s] = archives[s]
      /\ archives'[n + 1] = a
  BY <1>1, Added DEF Slot
<1>3. IF n = 0 THEN version = NULL ELSE version \in 1..n
  BY <1>1 DEF VersionLive
<1>4. NULL \notin Nat
  BY NullAssumption
<1>5. version' = IF version = NULL THEN n + 1
                 ELSE IF a.version # archives[version].version /\ a.type = "SCRIPT"
                      THEN n + 1 ELSE version
  BY DEF Adopts, Slot
<1> DEFINE scripts == {s \in 1..n : archives[s].type = "SCRIPT"}
           scripts2 == {s \in 1..(n + 1) : archives'[s].type = "SCRIPT"}
<1>6. n # 0 => IF scripts = {} THEN version = 1
               ELSE \E s \in scripts : /\ \A k \in scripts : k <= s
                                       /\ archives[version].version = archives[s].version
  BY <1>1 DEF VersionOfScripts
<1>7. scripts2 = IF a.type = "SCRIPT" THEN scripts \cup {n + 1} ELSE scripts
  <2>1. \A s : s \in 1..(n + 1) <=> s \in 1..n \/ s = n + 1
    BY <1>1
  <2>2. QED
    BY <1>2, <2>1
<1>8. /\ scripts \subseteq 1..n
      /\ scripts2 = {s \in DOMAIN archives' : archives'[s].type = "SCRIPT"}
  BY <1>2
<1> HIDE DEF n, scripts, scripts2
<1>9. version' \in 1..(n + 1)
  <2>1. n + 1 \in 1..(n + 1) /\ 1..n \subseteq 1..(n + 1)
    BY <1>1
  <2>2. version' = n + 1 \/ (version # NULL /\ version' = version)
    BY <1>5
  <2>3. version # NULL => version \in 1..n
    BY <1>3
  <2>4. QED
    BY <2>1, <2>2, <2>3
<1>10. IF scripts2 = {} THEN version' = 1
       ELSE \E s \in scripts2 : /\ \A k \in scripts2 : k <= s
                                /\ archives'[version'].version = archives'[s].version
  <2>1. CASE a.type = "SCRIPT"
    <3>1. n + 1 \in scripts2 /\ \A k \in scripts2 : k <= n + 1
      <4>1. scripts2 = scripts \cup {n + 1}
        BY <1>7, <2>1
      <4>2. \A k \in scripts : k \in 1..n
        BY <1>8
      <4>3. QED
        BY <1>1, <4>1, <4>2
    <3>2. archives'[version'].version = a.version
      <4>1. CASE version' = n + 1
        BY <1>2, <4>1
      <4>2. CASE version' # n + 1
        <5>1. version' = version /\ version # NULL /\ a.version = archives[version].version
          BY <1>5, <2>1, <4>2
        <5>2. version \in 1..n
          BY <1>3, <5>1
        <5>3. QED
          BY <1>2, <5>1, <5>2
      <4>3. QED
        BY <4>1, <4>2
    <3>3. QED
      BY <1>2, <3>1, <3>2
  <2>2. CASE a.type # "SCRIPT"
    <3>1. scripts2 = scripts
      BY <1>7, <2>2
    <3>2. CASE n = 0
      <4>1. scripts = {} /\ version' = n + 1
        BY <1>3, <1>5, <1>8, <3>2
      <4>2. QED
        BY <3>1, <3>2, <4>1
    <3>3. CASE n # 0
      <4>1. version' = version /\ version \in 1..n
        BY <1>1, <1>3, <1>4, <1>5, <2>2, <3>3
      <4>2. archives'[version'].version = archives[version].version
        BY <1>2, <4>1
      <4>3. CASE scripts = {}
        BY <1>6, <3>1, <3>3, <4>1, <4>3
      <4>4. CASE scripts # {}
        <5>1. PICK s \in scripts : /\ \A k \in scripts : k <= s
                                   /\ archives[version].version = archives[s].version
          BY <1>6, <3>3, <4>4
        <5>2. archives'[s] = archives[s]
          BY <1>2, <1>8
        <5>3. QED
          BY <3>1, <4>2, <4>4, <5>1, <5>2
      <4>5. QED
        BY <4>3, <4>4
    <3>4. QED
      BY <3>2, <3>3
  <2>3. QED
    BY <2>1, <2>2
<1>11. VersionLive'
  BY <1>2, <1>9 DEF VersionLive
<1>12. VersionOfScripts'
  BY <1>8, <1>10 DEF VersionOfScripts
<1>13. QED
  BY <1>2, <1>9, <1>11, <1>12

------------------------------------------------------------------------------
(* Every step preserves the invariant.                                     *)

\* The bounds, which are numbers, and NULL, which is none.
LEMMA Bounds ==
  /\ MaxArchives \in Nat /\ MaxEntries \in Nat /\ MaxScripts \in Nat
  /\ NULL \notin Nat /\ NULL \notin Versions
BY BoundsAssumption, NullAssumption

LEMMA InitInv == Init => Inv
<1> SUFFICES ASSUME Init  PROVE Inv
  OBVIOUS
<1>1. archives \in Seq(Archive) /\ Len(archives) = 0
  BY DEF Init
<1>2. TypeOK
  BY <1>1, Bounds DEF Init, TypeOK, Stops
<1>3. VersionLive /\ VersionOfScripts /\ ExitReleases
  BY DEF Init, VersionLive, VersionOfScripts, ExitReleases
<1>4. Phases
  BY DefinitionSet DEF Init, Phases
<1>5. QED
  BY <1>2, <1>3, <1>4 DEF Inv

\* The part of the invariant about archives, which most steps leave alone.
LEMMA SameArchives ==
  ASSUME Inv, pc \notin Ending, UNCHANGED <<archives, version>>
  PROVE  /\ VersionLive' /\ VersionOfScripts'
         /\ archives' \in Seq(Archive) /\ Len(archives') <= MaxArchives
         /\ version' \in {NULL} \cup 1..MaxArchives
BY SameVersion DEF Inv, TypeOK

\* Loading an archive, from a directory or as the one file given.
LEMMA LoadKeeps ==
  ASSUME Inv, pc \notin Ending, NEW a \in OnDisk, Room, archives' = With(a), version' = Adopts(a)
  PROVE  /\ VersionLive' /\ VersionOfScripts'
         /\ archives' \in Seq(Archive) /\ Len(archives') <= MaxArchives
         /\ version' \in 1..MaxArchives
<1>1. a \in Archive /\ archives \in Seq(Archive)
  BY OnDiskAssumption DEF Inv, TypeOK
<1>2. VersionLive' /\ VersionOfScripts' /\ version' \in 1..Len(archives')
  BY <1>1, AdoptsRight DEF Inv
<1>3. archives' \in Seq(Archive) /\ Len(archives') = Len(archives) + 1
  BY <1>1, Added
<1>4. Len(archives) \in Nat /\ Len(archives) < MaxArchives
  BY <1>1, Slots DEF Room
<1>5. QED
  BY <1>2, <1>3, <1>4, Bounds

LEMMA parse_argumentsInv == ASSUME Inv, parse_arguments PROVE Inv'
<1>1. /\ pc = "args" /\ UNCHANGED <<archives, version, buffer, loaded, listed, table>>
      /\ archives = << >> /\ version = NULL /\ loaded = {} /\ buffer = NULL
      /\ stop = "none"
  BY DefinitionSet DEF parse_arguments, world, config, Inv, Phases
<1>. id \in 0..MaxScripts
  BY DEF Inv, TypeOK
<1>2. \/ /\ pc' = "exit" /\ status' \in {"SUCCESS", "FAILURE"} /\ UNCHANGED <<stop, id, entries>>
      \/ /\ stop' \in Stops /\ id' \in 0..MaxScripts
         /\ \/ pc' = "file" /\ UNCHANGED <<entries, status>>
            \/ pc' = "dir" /\ entries' \in 0..MaxEntries /\ UNCHANGED status
            \/ pc' = "exit" /\ status' = "FAILURE" /\ UNCHANGED entries
  BY DEF parse_arguments, Exit, config
<1>3. /\ VersionLive' /\ VersionOfScripts'
      /\ archives' \in Seq(Archive) /\ Len(archives') <= MaxArchives
      /\ version' \in {NULL} \cup 1..MaxArchives
  BY <1>1, SameArchives DEF Ending
<1>4. TypeOK'
  BY <1>1, <1>2, <1>3 DEF Inv, TypeOK
<1>5. ExitReleases'
  BY <1>1, <1>2 DEF ExitReleases
<1>6. Phases'
  BY <1>1, <1>2, DefinitionSet DEF Phases
<1>7. QED
  BY <1>3, <1>4, <1>5, <1>6 DEF Inv

LEMMA LoadEntryInv == ASSUME Inv, LoadEntry PROVE Inv'
<1>1. /\ pc = "dir" /\ entries > 0 /\ entries' = entries - 1
      /\ UNCHANGED <<pc, stop, id, buffer, loaded, listed, table, status>>
  BY DEF LoadEntry, config
<1>2. /\ VersionLive' /\ VersionOfScripts'
      /\ archives' \in Seq(Archive) /\ Len(archives') <= MaxArchives
      /\ version' \in {NULL} \cup 1..MaxArchives
  <2>1. CASE \E a \in OnDisk : Room /\ archives' = With(a) /\ version' = Adopts(a)
    BY <1>1, <2>1, LoadKeeps DEF Ending
  <2>2. CASE UNCHANGED <<archives, version>>
    BY <1>1, <2>2, SameArchives DEF Ending
  <2>3. QED
    BY <2>1, <2>2 DEF LoadEntry
<1>3. entries' \in 0..MaxEntries
  BY <1>1, Bounds DEF Inv, TypeOK
<1>4. TypeOK'
  BY <1>1, <1>2, <1>3 DEF Inv, TypeOK
<1>5. ExitReleases'
  BY <1>1 DEF ExitReleases
<1>6. Phases'
  BY <1>1, DefinitionSet DEF Inv, Phases
<1>7. QED
  BY <1>2, <1>4, <1>5, <1>6 DEF Inv

LEMMA CloseDirInv == ASSUME Inv, CloseDir PROVE Inv'
<1>1. /\ pc = "dir" /\ pc' = "version"
      /\ UNCHANGED <<stop, id, entries, archives, version, buffer, loaded, listed, table, status>>
  BY DEF CloseDir, world, config
<1>2. VersionLive' /\ VersionOfScripts'
  BY <1>1, SameArchives DEF Ending
<1>3. TypeOK'
  BY <1>1 DEF Inv, TypeOK
<1>4. ExitReleases' /\ Phases'
  BY <1>1, DefinitionSet DEF Inv, ExitReleases, Phases
<1>5. QED
  BY <1>2, <1>3, <1>4 DEF Inv

LEMMA LoadFileInv == ASSUME Inv, LoadFile PROVE Inv'
<1>1. /\ pc = "file" /\ UNCHANGED <<stop, id, entries, buffer, loaded, listed, table>>
      /\ archives = << >> /\ version = NULL /\ loaded = {} /\ buffer = NULL
  BY DefinitionSet DEF LoadFile, config, Inv, Phases
<1>2. \/ /\ \E a \in OnDisk : Room /\ archives' = With(a) /\ version' = Adopts(a)
         /\ pc' = "version" /\ UNCHANGED status
      \/ /\ UNCHANGED <<archives, version>>
         /\ pc' = "exit" /\ status' = "FAILURE"
  BY <1>1 DEF LoadFile, Exit, Adopts
<1>3. /\ VersionLive' /\ VersionOfScripts'
      /\ archives' \in Seq(Archive) /\ Len(archives') <= MaxArchives
      /\ version' \in {NULL} \cup 1..MaxArchives
  BY <1>1, <1>2, SameArchives, LoadKeeps DEF Ending
<1>4. TypeOK'
  BY <1>1, <1>2, <1>3 DEF Inv, TypeOK
<1>5. ExitReleases'
  BY <1>1, <1>2 DEF ExitReleases
<1>6. Phases'
  BY <1>1, <1>2, DefinitionSet DEF Phases
<1>7. QED
  BY <1>3, <1>4, <1>5, <1>6 DEF Inv

\* From the release of the archives on.
LEMMA EndingInv ==
  ASSUME Inv, pc' \in Ending, archives' = << >>, version' = version, buffer' = NULL,
         loaded' \subseteq loaded, pc' # "free" => loaded' \subseteq {"ystl"},
         version # NULL, status' \in {"SUCCESS", "FAILURE"},
         UNCHANGED <<stop, id, entries, listed, table>>
  PROVE  Inv'
<1>1. archives' \in Seq(Archive) /\ Len(archives') <= MaxArchives
  BY Bounds
<1>2. TypeOK'
  BY <1>1 DEF Inv, TypeOK, Ending
<1>3. VersionLive' /\ VersionOfScripts' /\ ExitReleases'
  BY DEF VersionLive, VersionOfScripts, ExitReleases, Ending
<1>4. Phases'
  BY DefinitionSet DEF Phases, Ending
<1>5. QED
  BY <1>2, <1>3, <1>4 DEF Inv

LEMMA CheckVersionInv == ASSUME Inv, CheckVersion PROVE Inv'
<1>1. /\ pc = "version" /\ UNCHANGED <<stop, id, entries, version, buffer, loaded, listed, table>>
      /\ loaded = {} /\ buffer = NULL
  BY DefinitionSet DEF CheckVersion, config, Inv, Phases
<1>2. CASE version = NULL
  <2>1. pc' = "exit" /\ status' = "FAILURE" /\ UNCHANGED archives
    BY <1>2 DEF CheckVersion, Exit
  <2>2. archives = << >>
    BY <1>1, <1>2, Slots, Bounds DEF Inv, TypeOK, VersionLive, Ending
  <2>3. VersionLive' /\ VersionOfScripts'
    BY <1>1, <2>1, SameArchives DEF Ending
  <2>4. TypeOK'
    BY <1>1, <2>1 DEF Inv, TypeOK
  <2>5. ExitReleases' /\ Phases'
    BY <1>1, <2>1, <2>2, DefinitionSet DEF ExitReleases, Phases
  <2>6. QED
    BY <2>3, <2>4, <2>5 DEF Inv
<1>3. CASE version # NULL /\ stop = "files"
  BY <1>1, <1>3, EndingInv DEF CheckVersion, Exit, archive_manager_free, Ending
<1>4. CASE version # NULL /\ stop # "files"
  <2>1. pc' = "ysc" /\ UNCHANGED <<archives, status>>
    BY <1>4 DEF CheckVersion
  <2>2. VersionLive' /\ VersionOfScripts'
    BY <1>1, <2>1, SameArchives DEF Ending
  <2>3. TypeOK'
    BY <1>1, <2>1, DefinitionSet DEF Inv, TypeOK
  <2>4. ExitReleases' /\ Phases'
    BY <1>1, <1>4, <2>1, DefinitionSet DEF ExitReleases, Phases
  <2>5. QED
    BY <2>2, <2>3, <2>4 DEF Inv
<1>5. QED
  BY <1>2, <1>3, <1>4

\* A read that succeeds holds a buffer, of the version of some loaded archive.
LEMMA FetchOkInv ==
  ASSUME Inv, NEW name, FetchOk(name),
         pc \in ToSet(Definitions) \/ (pc = "tools" /\ stop \in {"script", "scripts"}),
         pc = "tools" /\ stop = "scripts" => listed > 0
  PROVE  Inv'
<1>1. UNCHANGED <<pc, stop, id, entries, archives, version, loaded, listed, table, status>>
  BY DEF FetchOk, config, world
<1>2. buffer' \in Versions
  <2>1. \A s \in DOMAIN archives : archives[s].version \in Versions
    BY Slots DEF Inv, TypeOK
  <2>2. Holding(name) \subseteq Versions
    BY <2>1 DEF Holding
  <2>3. QED
    BY <2>2 DEF FetchOk
<1>3. pc \notin Ending
  BY DefinitionSet DEF Ending
<1>4. VersionLive' /\ VersionOfScripts'
  BY <1>1, <1>3, SameArchives
<1>5. TypeOK'
  BY <1>1, <1>2 DEF Inv, TypeOK
<1>6. ExitReleases' /\ Phases'
  BY <1>1, <1>3, DefinitionSet DEF Inv, ExitReleases, Phases
<1>7. QED
  BY <1>4, <1>5, <1>6 DEF Inv

\* main goes on without a buffer: to the next definition, the tools, or its end.
LEMMA GoOn ==
  ASSUME Inv, pc \in ToSet(Definitions) \cup {"tools"},
         UNCHANGED <<stop, id, entries, archives, version, status>>,
         buffer' = NULL, loaded' \subseteq ToSet(Definitions), listed' \in 0..MaxScripts,
         table' \in {"none", "small", "full"},
         pc' \in ToSet(Definitions) \cup {"tools", "success", "fail"}
  PROVE  Inv'
<1>1. pc \notin Ending /\ pc' # "exit" /\ version # NULL
  BY DefinitionSet DEF Inv, Phases, Ending
<1>2. VersionLive' /\ VersionOfScripts'
  BY <1>1, SameArchives
<1>3. TypeOK'
  BY DEF Inv, TypeOK
<1>4. ExitReleases' /\ Phases'
  BY <1>1, DefinitionSet DEF ExitReleases, Phases
<1>5. QED
  BY <1>2, <1>3, <1>4 DEF Inv

LEMMA FetchDefinitionInv == ASSUME Inv, FetchDefinition PROVE Inv'
<1>1. pc \in ToSet(Definitions) /\ pc # "tools"
  BY DefinitionSet DEF FetchDefinition
<1>2. CASE FetchOk(pc)
  BY <1>1, <1>2, FetchOkInv
<1>3. CASE FetchFails(pc) /\ pc' = Missing(pc) /\ UNCHANGED listed
  BY <1>1, <1>3, GoOn DEF FetchFails, config, world, Missing, Inv, TypeOK
<1>4. QED
  BY <1>2, <1>3 DEF FetchDefinition

LEMMA ParseDefinitionInv == ASSUME Inv, ParseDefinition PROVE Inv'
<1>1. /\ pc \in ToSet(Definitions) /\ buffer' = NULL
      /\ UNCHANGED <<stop, id, entries, archives, version, status>>
      /\ loaded' \subseteq loaded \cup {pc}
      /\ pc' \in {"fail", "success", After(pc)}
      /\ listed' \in 0..MaxScripts \cup {listed}
      /\ table' \in {"small", "full", table}
  BY DEF ParseDefinition, world, config
<1>2. After(pc) \in ToSet(Definitions) \cup {"tools"}
  BY <1>1, DefinitionSet DEF After
<1>3. /\ loaded' \subseteq ToSet(Definitions) /\ listed' \in 0..MaxScripts
      /\ table' \in {"none", "small", "full"}
  BY <1>1 DEF Inv, TypeOK
<1>4. QED
  BY <1>1, <1>2, <1>3, GoOn DEF Ending

LEMMA EvaluateInv == ASSUME Inv, Evaluate PROVE Inv'
<1>1. /\ pc = "tools" /\ pc' \in {"tools", "success", "fail"}
      /\ UNCHANGED <<stop, id, entries, archives, version, buffer, loaded, listed, table, status>>
      /\ buffer = NULL
  BY DefinitionSet DEF Evaluate, world, config, Inv, Phases
<1>2. QED
  BY <1>1, GoOn DEF Inv, TypeOK

LEMMA NoScriptInv == ASSUME Inv, NoScript PROVE Inv'
<1>1. /\ pc = "tools" /\ pc' \in {"tools", "fail"} /\ buffer = NULL
      /\ UNCHANGED <<stop, id, entries, archives, version, buffer, loaded, table, status>>
      /\ listed' = listed \/ (listed > 0 /\ listed' = listed - 1)
  BY DEF NoScript, world, config
<1>2. listed' \in 0..MaxScripts
  BY <1>1, Bounds DEF Inv, TypeOK
<1>3. QED
  BY <1>1, <1>2, GoOn DEF Inv, TypeOK

LEMMA FetchScriptInv == ASSUME Inv, FetchScript PROVE Inv'
<1>1. /\ pc = "tools" /\ stop \in {"script", "scripts"}
      /\ stop = "scripts" => listed > 0
  BY DEF FetchScript
<1>2. CASE FetchOk("yst")
  BY <1>1, <1>2, FetchOkInv
<1>3. CASE /\ FetchFails("yst")
           /\ IF stop = "script" THEN pc' = "fail" /\ UNCHANGED listed
                                 ELSE listed' = listed - 1 /\ UNCHANGED pc
  <2>1. listed' \in 0..MaxScripts
    BY <1>1, <1>3, Bounds DEF Inv, TypeOK
  <2>2. QED
    BY <1>1, <1>3, <2>1, GoOn DEF FetchFails, config, world, config, Inv, TypeOK
<1>4. QED
  BY <1>2, <1>3 DEF FetchScript

LEMMA ParseScriptInv == ASSUME Inv, ParseScript PROVE Inv'
<1>1. /\ pc = "tools" /\ pc' \in {"tools", "success", "fail"} /\ buffer' = NULL
      /\ UNCHANGED <<stop, id, entries, archives, version, loaded, table, status>>
      /\ listed' = listed \/ (stop = "scripts" /\ listed' = listed - 1)
      /\ stop = "scripts" => listed > 0
  BY DEF ParseScript, world, config, Inv, Phases
<1>2. listed' \in 0..MaxScripts
  BY <1>1, Bounds DEF Inv, TypeOK
<1>3. QED
  BY <1>1, <1>2, GoOn DEF Inv, TypeOK

LEMMA AllShownInv == ASSUME Inv, AllShown PROVE Inv'
BY GoOn DEF AllShown, world, config, Inv, TypeOK

LEMMA ReadOutsideInv == ASSUME Inv, ReadOutside PROVE Inv'
<1>1. /\ pc = "tools" /\ pc' = "crash"
      /\ UNCHANGED <<stop, id, entries, archives, version, buffer, loaded, listed, table, status>>
  BY DEF ReadOutside, world, config
<1>2. VersionLive' /\ VersionOfScripts'
  BY <1>1, SameArchives DEF Ending
<1>3. TypeOK'
  BY <1>1 DEF Inv, TypeOK
<1>4. ExitReleases' /\ Phases'
  BY <1>1, DefinitionSet DEF ExitReleases, Phases
<1>5. QED
  BY <1>2, <1>3, <1>4 DEF Inv

LEMMA FinishInv == ASSUME Inv, Finish PROVE Inv'
<1>1. /\ pc \in {"success", "fail"} /\ pc' = "free" /\ status' \in {"SUCCESS", "FAILURE"}
      /\ archives' = << >>
      /\ UNCHANGED <<stop, id, entries, version, buffer, loaded, listed, table>>
  BY DEF Finish, archive_manager_free, config
<1>2. version # NULL /\ buffer = NULL
  BY <1>1, DefinitionSet DEF Inv, Phases
<1>3. QED
  BY <1>1, <1>2, EndingInv DEF Ending

LEMMA free_vmInv == ASSUME Inv, free_vm PROVE Inv'
<1>1. /\ pc = "free" /\ pc' \in {"loop", "exit"} /\ loaded' = loaded \cap {"ystl"}
      /\ UNCHANGED <<stop, id, entries, archives, version, buffer, listed, table, status>>
  BY DEF free_vm, world, config
<1>2. version # NULL /\ buffer = NULL /\ archives = << >>
      /\ status \in {"SUCCESS", "FAILURE"}
  BY <1>1, DefinitionSet DEF Inv, Phases
<1>3. QED
  BY <1>1, <1>2, EndingInv DEF Ending

LEMMA NextInv == Inv /\ [Next]_vars => Inv'
<1> SUFFICES ASSUME Inv, [Next]_vars  PROVE Inv'
  OBVIOUS
<1>1. CASE UNCHANGED vars
  BY <1>1 DEF vars, world, config, config, Inv, TypeOK, VersionLive, VersionOfScripts, ExitReleases, Phases
<1>2. QED
  BY <1>1, parse_argumentsInv, LoadEntryInv, CloseDirInv, LoadFileInv, CheckVersionInv,
     FetchDefinitionInv, ParseDefinitionInv, EvaluateInv, NoScriptInv, FetchScriptInv,
     ParseScriptInv, AllShownInv, ReadOutsideInv, FinishInv, free_vmInv DEF Next

LEMMA Invariance == Spec => []Inv
<1>1. QED
  BY InitInv, NextInv, PTL DEF Spec

------------------------------------------------------------------------------
(* What is proved of main.                                                 *)

\* The state of main stays what its declarations say, within the limits of the
\* manager and of the list of scripts.
THEOREM TypeCorrect == Spec => []TypeOK
<1>1. Inv => TypeOK
  BY DEF Inv
<1>2. QED
  BY <1>1, Invariance, PTL

\* vm.version never dangles before the end, in whichever order readdir lists the
\* archives.
THEOREM VersionIsLive == Spec => []VersionLive
<1>1. Inv => VersionLive
  BY DEF Inv
<1>2. QED
  BY <1>1, Invariance, PTL

\* The engine version is the one of the last archive with scripts, whatever
\* assets of another version are loaded before or after it.
THEOREM VersionIsOfScripts == Spec => []VersionOfScripts
<1>1. Inv => VersionOfScripts
  BY DEF Inv
<1>2. QED
  BY <1>1, Invariance, PTL

\* Every path to the end of main, the early ones of the arguments too, has
\* released the archives, the buffer and the tables.
THEOREM EveryExitReleases == Spec => []ExitReleases
<1>1. Inv => ExitReleases
  BY DEF Inv
<1>2. QED
  BY <1>1, Invariance, PTL

==============================================================================
