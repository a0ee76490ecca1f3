-------------------------------- MODULE Player --------------------------------
(***************************************************************************)
(* main of src/src/yurisplayer.c: it loads the archives of the game, picks *)
(* the engine version they are for, reads the definitions out of them, runs *)
(* the tool asked for and releases everything.                             *)
(*                                                                         *)
(* An archive is its version, its type and the names of the scripts in it, *)
(* and archive_load and archive_file_get do what ArchiveManager shows they *)
(* do.  The VM is the set of definitions it points to and its table of     *)
(* variables.  What parse_ysc and its like make of the bytes is left open: *)
(* a parse succeeds or fails.                                              *)
(***************************************************************************)
EXTENDS Integers, Sequences, FiniteSets, SequencesExt

CONSTANTS
  Versions,    \* YU-RIS versions
  OnDisk,      \* the archives that can be met
  MaxArchives, \* MAX_ARCHIVES
  MaxEntries,  \* the most ".ypf" entries of the game directory (a bound)
  MaxScripts,  \* YSTL_MAX_SCRIPTS, the size of ystl.scripts
  NULL

ASSUME VersionsAssumption == Versions \subseteq Nat
ASSUME BoundsAssumption == {MaxArchives, MaxEntries, MaxScripts} \subseteq Nat
ASSUME NullAssumption == NULL \notin Versions \cup Nat

\* The files main reads: ysbin\ysc.ybn and so on, and the scripts, whose names
\* are one name here.
Definitions == <<"ysc", "ystl", "ysv", "ysl">>
Scripts == ToSet(Definitions) \cup {"yst"}

\* An archive has at least one file; "asset" is any file main does not read.
Archive == [version : Versions, type : {"ASSET", "SCRIPT"},
            names : (SUBSET (Scripts \cup {"asset"})) \ {{}}]

ASSUME OnDiskAssumption == OnDisk \subseteq Archive

\* What to stop after: the listings of the debug options, an expression, the
\* prompt for expressions, one script, all scripts, or nothing.
Stops == {"files", "ysc", "ystl", "ysv", "ysl", "expr", "repl", "script", "scripts",
          "none"}

VARIABLES
  pc,        \* where main is
  stop,      \* the option given, one of Stops
  entries,   \* directory entries not yet read
  archives,  \* the archives loaded, in manager->archives
  version,   \* vm.version: NULL, or the slot of the archive it points into
  buffer,    \* script_data of load_script: NULL, or the version of its archive
  loaded,    \* the definitions vm points to
  listed,    \* scripts of YSTL not yet shown
  id,        \* the ID of --script-info, MaxScripts for any outside the array
  table,     \* vm.vars: "none", or whether its last index is 65535 ("full")
  status     \* the exit status

config == <<stop, id>>
world == <<archives, version>>
vars == <<pc, config, entries, world, buffer, loaded, listed, table, status>>

Exit(s) == pc' = "exit" /\ status' = s

\* Mutant: archive_manager_free is forgotten.
KeepArchives == UNCHANGED archives

archive_manager_free == archives' = << >>

------------------------------------------------------------------------------
\* parse_arguments and the loading of archives

\* A bad option or a target that does not exist ends the program, as --help
\* does; otherwise the target is a directory or else taken for an archive.
parse_arguments ==
  /\ pc = "args"
  /\ \/ \E s \in {"SUCCESS", "FAILURE"} : Exit(s) /\ UNCHANGED <<config, entries>>
     \/ /\ stop' \in Stops
        /\ id' \in IF stop' = "script" THEN 0..MaxScripts ELSE {id}
        /\ \/ pc' = "file" /\ UNCHANGED <<entries, status>>
           \/ pc' = "dir" /\ entries' \in 0..MaxEntries /\ UNCHANGED status
           \/ Exit("FAILURE") /\ UNCHANGED entries   \* opendir fails
  /\ UNCHANGED <<world, buffer, loaded, listed, table>>

\* Mutant: the limit is checked after the archive has been added.
RoomForOneMore == Len(archives) <= MaxArchives

\* archive_load refuses one archive too many.
Room == Len(archives) < MaxArchives

\* Mutant: the version is that of the slot before.
SlotBefore == Len(archives)

\* The slot the next archive is loaded into.
Slot == Len(archives) + 1

\* The manager's archives once archive_load has added a.
With(a) == Append(archives, a)

\* Mutant: the version of any archive that does not fit is adopted.
AdoptsAny(a) == IF version = NULL \/ a.version # archives[version].version
                THEN Slot ELSE version

\* vm.version after a has been loaded from a directory: the first archive's,
\* unless a later one that differs holds scripts.
Adopts(a) ==
  IF version = NULL THEN Slot
  ELSE IF a.version # archives[version].version /\ a.type = "SCRIPT"
       THEN Slot ELSE version

\* An entry of the directory whose path is too long or that archive_load
\* refuses is skipped.
LoadEntry ==
  /\ pc = "dir" /\ entries > 0
  /\ entries' = entries - 1
  /\ \/ \E a \in OnDisk : /\ Room
                           /\ archives' = With(a)
                           /\ version' = Adopts(a)
     \/ UNCHANGED <<archives, version>>
  /\ UNCHANGED <<pc, config, buffer, loaded, listed, table, status>>

CloseDir == /\ pc = "dir" /\ entries = 0
            /\ pc' = "version"
            /\ UNCHANGED <<config, entries, world, buffer, loaded, listed, table, status>>

LoadFile ==
  /\ pc = "file"
  /\ \/ \E a \in OnDisk : /\ Room
                           /\ archives' = With(a)
                           /\ version' = Slot
                           /\ pc' = "version" /\ UNCHANGED status
     \/ /\ UNCHANGED <<archives, version>>
        /\ Exit("FAILURE")
  /\ UNCHANGED <<config, entries, buffer, loaded, listed, table>>

\* Without a version main ends; --files lists the files and ends too.
CheckVersion ==
  /\ pc = "version"
  /\ IF version = NULL
     THEN Exit("FAILURE") /\ UNCHANGED archives
     ELSE IF stop = "files"
     THEN archive_manager_free /\ Exit("SUCCESS")
     ELSE pc' = "ysc" /\ UNCHANGED <<archives, status>>
  /\ UNCHANGED <<config, entries, version, buffer, loaded, listed, table>>

------------------------------------------------------------------------------
\* load_script, in two steps: archive_file_get, then the parser and yuris_free.

\* archive_file_get(name): the bytes of some archive's file of that name, or
\* NULL if there is none or it cannot be read.
Holding(name) == {archives[s].version : s \in {k \in DOMAIN archives :
                                                  name \in archives[k].names}}

FetchOk(name) == /\ buffer = NULL
                 /\ buffer' \in Holding(name)
                 /\ UNCHANGED <<pc, config, entries, world, loaded, listed, table, status>>

FetchFails(name) == /\ buffer = NULL
                    /\ UNCHANGED <<config, entries, world, buffer, loaded, table, status>>

\* Mutant: a definition that cannot be had is asked for again.
AskAgain(def) == def

\* Where main goes without a definition.
Missing(def) == "fail"

\* The four definitions, in order.
After(def) == CASE def = "ysc" -> "ystl" [] def = "ystl" -> "ysv"
                [] def = "ysv" -> "ysl" [] def = "ysl" -> "tools"

FetchDefinition ==
  /\ pc \in ToSet(Definitions)
  /\ \/ FetchOk(pc)
     \/ FetchFails(pc) /\ pc' = Missing(pc) /\ UNCHANGED listed

\* The parser may refuse the bytes; only then is vm not pointed at the result.
\* vm_init_vars follows the last and cannot fail, vm.ysv being set; the largest
\* index is the file's.
ParseDefinition ==
  /\ pc \in ToSet(Definitions) /\ buffer # NULL
  /\ buffer' = NULL
  /\ \/ pc' = "fail" /\ UNCHANGED <<loaded, listed, table>>
     \/ /\ loaded' = loaded \cup {pc}
        /\ pc' = IF stop = pc THEN "success" ELSE After(pc)
        /\ listed' \in IF pc = "ystl" THEN 0..MaxScripts ELSE {listed}
        /\ table' \in IF pc' = "tools" THEN {"small", "full"} ELSE {table}
  /\ UNCHANGED <<config, entries, world, status>>

------------------------------------------------------------------------------
\* The tools

\* No tool; one expression; a line read by the prompt, or its end.
Evaluate ==
  /\ pc = "tools"
  /\ \/ stop = "none" /\ pc' = "success"
     \/ stop = "expr" /\ pc' \in {"success", "fail"}
     \/ stop = "repl" /\ pc' \in {"tools", "success"}
  /\ UNCHANGED <<config, entries, world, buffer, loaded, listed, table, status>>

\* ID is not compared with the number of scripts.  Behind the last, the record
\* is zero: it has script data, in yst00000.ybn.  Outside the array the record is
\* whatever main's stack holds there, or main is stopped for reading it.
Zero == id \in listed..(MaxScripts - 1)

ReadOutside ==
  /\ pc = "tools" /\ stop = "script" /\ id = MaxScripts
  /\ pc' = "crash"
  /\ UNCHANGED <<config, entries, world, buffer, loaded, listed, table, status>>

\* --script-info=ID of a script that has none ends in failure; in the list of
\* all it is passed over.
NoScript ==
  /\ pc = "tools" /\ buffer = NULL
  /\ \/ stop = "script" /\ ~Zero /\ pc' = "fail" /\ UNCHANGED listed
     \/ stop = "scripts" /\ listed > 0 /\ listed' = listed - 1 /\ UNCHANGED pc
  /\ UNCHANGED <<config, entries, world, buffer, loaded, table, status>>

FetchScript ==
  /\ pc = "tools"
  /\ stop = "scripts" => listed > 0
  /\ stop \in {"script", "scripts"}
  /\ \/ FetchOk("yst")
     \/ /\ FetchFails("yst")
        /\ IF stop = "script" THEN pc' = "fail" /\ UNCHANGED listed
                              ELSE listed' = listed - 1 /\ UNCHANGED pc

\* parse_yst, and free_yst once the script has been shown.
ParseScript ==
  /\ pc = "tools" /\ buffer # NULL
  /\ buffer' = NULL
  /\ \/ stop = "script" /\ pc' \in {"success", "fail"} /\ UNCHANGED listed
     \/ stop = "scripts" /\ listed' = listed - 1 /\ UNCHANGED pc
  /\ UNCHANGED <<config, entries, world, loaded, table, status>>

AllShown == /\ pc = "tools" /\ stop = "scripts" /\ listed = 0 /\ buffer = NULL
            /\ pc' = "success"
            /\ UNCHANGED <<config, entries, world, buffer, loaded, listed, table, status>>

------------------------------------------------------------------------------
\* success and fail: archive_manager_free, free_vm and the end.
Finish ==
  /\ pc \in {"success", "fail"}
  /\ archive_manager_free
  /\ pc' = "free"
  /\ status' = IF pc = "success" THEN "SUCCESS" ELSE "FAILURE"
  /\ UNCHANGED <<config, entries, version, buffer, loaded, listed, table>>

\* The definitions are freed, then the variables.  The counter of that loop is as
\* wide as the indices: it never passes 65535 (ScriptVM), and main never ends.
free_vm ==
  /\ pc = "free"
  /\ loaded' = loaded \cap {"ystl"}
  /\ pc' = IF table = "full" THEN "loop" ELSE "exit"
  /\ UNCHANGED <<config, entries, world, buffer, listed, table, status>>

Init == /\ pc = "args" /\ stop = "none" /\ entries = 0
        /\ archives = << >> /\ version = NULL
        /\ buffer = NULL /\ loaded = {} /\ listed = 0
        /\ status = NULL
        /\ id = 0 /\ table = "none"

Next == \/ parse_arguments \/ LoadEntry \/ CloseDir \/ LoadFile \/ CheckVersion
        \/ FetchDefinition \/ ParseDefinition
        \/ Evaluate \/ NoScript \/ FetchScript \/ ParseScript \/ AllShown
        \/ ReadOutside \/ Finish \/ free_vm

Spec == Init /\ [][Next]_vars

\* main is one sequential thread, and waits for nothing but the prompt.
FairSpec == Spec /\ WF_vars(Next)

------------------------------------------------------------------------------
\* Properties

TypeOK ==
  /\ pc \in {"args", "file", "dir", "version", "tools", "success", "fail", "free", "loop",
             "exit", "crash"} \cup ToSet(Definitions)
  /\ stop \in Stops
  /\ entries \in 0..MaxEntries
  /\ archives \in Seq(Archive) /\ Len(archives) <= MaxArchives
  /\ version \in {NULL} \cup 1..MaxArchives
  /\ buffer \in {NULL} \cup Versions
  /\ loaded \subseteq ToSet(Definitions)
  /\ {listed, id} \subseteq 0..MaxScripts
  /\ table \in {"none", "small", "full"}
  /\ status \in {NULL, "SUCCESS", "FAILURE"}

\* The end of main, from the release of the manager on.
Ending == {"free", "loop", "exit"}

\* vm.version points at a loaded archive from the first load to the release of
\* the manager, whichever archives come and in whichever order readdir lists
\* them; it is NULL only if none was loaded.
VersionLive ==
  pc \notin Ending => IF archives = << >> THEN version = NULL
                                             ELSE version \in DOMAIN archives

\* The version main works with is that of the last archive with scripts it
\* loaded, and without any such archive that of the first: assets of another
\* version, before or after, never displace it.
VersionOfScripts ==
  pc \notin Ending /\ archives # << >> =>
    LET scripts == {s \in DOMAIN archives : archives[s].type = "SCRIPT"}
    IN  IF scripts = {} THEN version = 1
        ELSE \E s \in scripts : /\ \A k \in scripts : k <= s
                                /\ archives[version].version = archives[s].version

\* On whichever path main ends, no archive, decoded buffer or table it has
\* loaded is still held, and it succeeds only with a version.
ExitReleases ==
  pc = "exit" => /\ archives = << >> /\ buffer = NULL /\ loaded \subseteq {"ystl"}
                 /\ (stop # "none" /\ status = "SUCCESS") => version # NULL

\* main ends, unless it waits at the prompt for expressions or the variables fill
\* their table to index 65535, whose release never ends; a script ID outside the
\* array may end it early.
Terminates == <>(pc \in {"exit", "crash"} \/ stop = "repl" \/ table = "full")
==============================================================================
