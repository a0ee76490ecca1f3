# YURIS-PLAYER in TLA+

Specifications of the YU-RIS player (`src/src`, C) and of the C interface of
`libyuris` (`src/libyuris`, Rust), the TLC configurations that check them on
small instances, and TLAPS proofs for every instance. Paths below are relative
to the repository.

## 1. The system

The player opens the `.ypf` archives of a game, reads the four definition files
of the YU-RIS engine out of them, builds the table of script variables and runs
one of several debugging tools. It is one thread; `libyuris` guards its state
with a mutex and may be called from several.

| component | source | state | operations |
|---|---|---|---|
| archive manager | `src/src/archive.c` | up to 32 archives with their file tables; a sorted index of all files and a flag that says whether it is current | `archive_load`, `archive_manager_free`, `archive_file_find`, `_exists`, `_get` |
| expression VM | `src/src/expr.c` | a stack of 256 values, some of which own a string | `eval_expr`: 26 opcodes |
| script VM | `src/src/vm.c` | the table of variable values, its bound, pointers to the definitions | `vm_init_vars`, `vm_var_get`, `vm_var_set`, `vm_var_def`, `free_vm` |
| main | `src/src/yurisplayer.c` | the archives, the version in use, what has been loaded | option parsing, loading, tools, exits |
| script reader | `src/src/script_reader.c` | the last XOR key guessed; the blocks of the file being read | `parse_ysc`, `_ystl`, `_ysv`, `_ysl`, `_yst`, and `free_*` |
| libyuris C interface | `src/libyuris/src/ffi.rs` | a registry of the blocks C holds, under a mutex | `yuris_get_manifest`, `yuris_file_read`, `yuris_decrypt`, `yuris_free` |
| libyuris parsers | `src/libyuris/src/{ypf,ystb,yscm,ystl,yslb,ysvr,expr,crypto,reader}.rs` | none | one `parse` per format, `decode_entry` |
| byte readers, encoding | `src/src/utils.c`, `encoding.c` | none | `read_u8` to `read_fixed`, CP932 to UTF-8 |
| debug listings | `src/src/debug.c` | a static buffer of hexadecimal text | listing a script with what its expressions evaluate to; a prompt for expressions; other listings |
| command-line tool, tests | `src/libyuris/src/main.rs`, `src/libyuris/tests` | none | printing |

How they interact. `main` calls the archive manager for every file; the manager
calls `yuris_get_manifest`, copies its list of files and frees it at once, and
calls `yuris_file_read` for a file's bytes, which the caller frees with
`yuris_free`. `load_script` hands the bytes to a parser and frees them. The VM
keeps pointers to what the parsers filled in and evaluates the initial values of
string variables with `eval_expr`; so do the debug listings.

What is hard in it:

- *stale state*: the index of files is built lazily and must not survive a
  later load; `vm.version` and the parent pointers of files point into the
  array of archives; the XOR key of one script is used for the next;
- *ownership*: strings move between stack slots, results, variables and callers
  by shallow copies, and each of about thirty error exits frees some of what has
  been allocated;
- *interleaving*: `yuris_free` searches its registry in two critical sections,
  while addresses are reused;
- *boundaries*: 16-bit indexes and counters, full tables, empty files, text
  buffers that are just full;
- *agreement*: the player and `libyuris` each have a parser of every definition
  file, and conversions between strings, integers and doubles meet in
  comparisons that should agree;
- *order*: archives come in the order of `readdir`, calls of the VM and of the
  manager in any order.

`PROJECT.json` lists these hazards at their lines with the properties that
would catch them.

## 2. The modules

| module | models | state and actions |
|---|---|---|
| `VirtualFS` | what `archive.h` promises | a set of stored files; a lookup finds a file exactly if there is one, a read returns bytes of such a file, a load adds files or changes nothing |
| `ArchiveManager` | `archive.c` | `archives`, `internal` and `errno` as in the code; `held` records the handles given out; one action per function, and `Abort` for its assertions |
| `ArchiveManagerProofs` | | theorems about `ArchiveManager` |
| `ExprValue` | `struct expr_value`, `FREE_EXPR` | used by `ExprVM` and `ScriptVM` |
| `ExprVM` | `eval_expr` | the stack array with its stale slots, the live blocks, one action per group of opcodes, every exit |
| `ExprVMProofs` | | theorems about `ExprVM` and `ExprOps` |
| `ExprOps` | what `eval_expr` computes: `op_*`, `to_*`, `nbr_to_str`, `str_to_nbr`, the unescaping of pushed strings | a value to which operators are applied, each with any value that can be pushed on the other side |
| `ScriptVM` | `vm.c` | the table and its bound; the loops of `vm_init_vars` and `free_vm` step by step, with an index that wraps at `Limit`; `vm_var_*` in any order |
| `ScriptVMProofs` | | theorems about `ScriptVM` |
| `Player` | `yurisplayer.c` | `main` by its labels, with `archive_load` and `archive_file_get` as what `ArchiveManager` is shown to do: an archive is added or refused, a file's bytes are those of some archive that has it, or there are none |
| `PlayerProofs` | | theorems about `Player` |
| `Handles` | what `libyuris.h` promises of memory | who owns which addresses; a call returns a pointer to memory nobody owns, `yuris_free` ends the ownership of one at once |
| `Libyuris` | `ffi.rs` | registry, allocator and threads; a critical section is one step. It implements `Handles` |
| `LibyurisProofs` | | theorems about `Libyuris` and `Ypf` |
| `ScriptReader` | `parse_yst`, `free_yst`, `guess_ystb_key` | key, sections, commands and arguments record by record; any read or allocation may fail |
| `ScriptListing` | `debug_show_yst`, `debug_expr_eval`, `debug_expr_repl`, and the loop of `main` around them | extends `ScriptReader`: a script that has been read is listed argument by argument, with the static buffer, and freed; or lines are typed in |
| `ScriptReaderProofs` | | theorems about `ScriptReader` and `ScriptListing` |
| `DefinitionReader` | `parse_ysc`, `parse_ystl`, `parse_ysv`, `parse_ysl`, `free_ysv`, `free_ysl`, on `utils.c`; the parsers of `libyuris` as functions | offset, records, strings and lookup table; a file may end anywhere and any allocation may fail |
| `DefinitionReaderProofs` | | theorems about `DefinitionReader` |
| `Ypf` | `ypf.rs`, and `probe_version`, `yuris_get_manifest`, `yuris_file_read` of `ffi.rs` as functions of an archive | an archive, what extracting all of it gave, the manifest of its first bytes, and what reading its files one by one gave |
| `Summation` | | `SumTo`, the sum of the first numbers of a sequence, as a recursive function: where records and entries end, and the number that a set of bits stands for |
| `DataFacts` | | lemmas about sequences, sets of numbers, division, sums and recursive functions that several of the proofs use |

The modules that begin with `MC` only define the values of constants.
Definitions that begin with a comment `Mutant:` are plausible mistakes in the
definition that follows them; no specification uses them, and each one breaks
the property `PROJECT.json` names.

### Abstractions

- File names are integers in `strcmp` order. The bytes of a file are the place
  they are read from, with the version they are decoded for, so that reading the
  right archive at the right offset is a property of the model.
- An archive on disk can differ each time it is opened: nothing relates two
  reads of one path.
- `qsort` is any ordering of the pointers and `bsearch` any equal element: when
  two archives hold a file of one name the C library decides.
- A value of `ExprVM` is its type and the block it owns. Numbers are
  not computed; an operator answers with any type its branches can. A division
  that traps, and text read through a null pointer, end the process (`crash`).
- In `ExprOps` an integer has `W` bits for 64. A double is a whole number of
  `Unit`-ths with `P` significant bits for 53, or not a number; sums and products
  are rounded to the nearest, or the even one of two. It is printed with one
  decimal for the six of `%f`, rounded the same way, and read with all the digits it
  has, so that printing loses what is behind the last decimal as it does in the
  code. 0 has no sign. The operators on bits go through the set of the positions whose bit is set; a
  character is a digit or one of eleven kinds of others. Dividing doubles and
  blanks before a number are left out, text is taken as converted from CP932,
  and a conversion of a double out of range answers as x86-64 does. Allocations
  succeed: that they may fail is in `ExprVM`.
- In the readers a file is what can be told apart by where its parsing stops:
  its size, and of each record the lengths, counts and codes that its layout and
  the checks depend on. Any offset of an expression in a script may be valid, or wrap
  the 32-bit sum it is checked with (`script_reader.c:411`): then what is copied is
  other memory, or the process ends (`crash`). A script below version 300 holds its
  key in the order of bytes the player reads, or in the other (`little`).
- In `ScriptListing` a character typed in is the end of a line or any other. What
  `strtoul` makes of a line is left out, with all it accepts (signs, `0x`, tabs,
  leading zeros) and the limit of 8192 bytes of `expr_data`: `debug_expr_eval`
  refuses a line or evaluates it, and `eval_expr` has any of its outcomes. A NUL
  that is typed in, which would end its line early, is left out too.
- An archive of `Ypf` is its header, its entries and its length. What a file's
  bytes inflate to, and whether they have the hash of their entry, are facts of
  the archive; a name is its length, as it is stored and in UTF-8. `Ypf::parse` and `Ypf::parse_index` hold
  the same loop twice, which `IndexOk` states once. Opening files and allocating
  succeed in `Ypf`: that they may fail is in `ArchiveManager` and `Libyuris`.
  Sums of 32-bit fields that overflow are outside the archives considered.
  `encoding_rs` could decode a name with a byte order mark as another encoding; the
  length in UTF-8 is any number.
- `main` does not compare the ID of `--script-info` with the number of scripts. In
  `Player` an ID behind the last script is one of a record that is zero, and one
  outside the array, of which there is one for all, is other memory, or the process
  ends (`crash`).
- An allocator hands out any free address, and one address (`EMPTY`) for all
  allocations of no bytes, as Rust does.

## 3. What is checked

All runs finish within a minute on two cores. `CHECK_DEADLOCK FALSE` is given
where the program or the call that is modelled ends.

| run | bounds | what it shows |
|---|---|---|
| `archive_manager` | 2 archives, 2 paths and one too long, 2 names (one a script's) and one too long, all kinds of image, with files of the same name within and between archives | the index that a lookup uses lists all files in order and never points into a freed table (`IndexSound`), a handle stays valid over later loads and rebuilds and knows its archive (`HandlesSound`), and the manager implements `VirtualFS` (`VFSSpec`) |
| `expr_vm` | stack of 4, 8 instructions | `StackOwnsHeap`: between instructions every block has one owner below the top; `NoFault`, `NothingLeft`: no exit frees twice, a success leaves only the result's block, a failure at most the string in hand |
| `expr_ops` | integers of 5 bits, doubles of 3 significant bits in 16ths, a buffer of 5 characters, 6 integers, 6 doubles, 11 strings, 2 operators | `TextsRight`: escapes are read once, from left to right, and a string's length is that of its text; `Ordered`: of two values one of <, = and > holds, and <=, >= and != are their opposites; `NumbersExact`: quotients and remainders fit together, and a number printed reads back as itself or, if it has more decimals than are printed, at most one of the last of them away |
| `script_vm` | indexes 0..2 that wrap at 4, 2 definitions, 3 strings | `ValuesOwned`, `NoLeak`, and `free_vm` frees all (`FreedAll`) and ends (`FreeTerminates`) |
| `player` | 3 archives of at most 4 entries, 2 versions, 5 kinds of archive, 2 scripts, all options, every script ID | `VersionLive` and `VersionOfScripts` for every order of archives, `ExitReleases` on every exit, `Terminates` unless the table of variables is full |
| `libyuris` | 3 threads, 4 addresses, 2 empty buffers; symmetric in threads and addresses | `RegistryExact`, `MemoryAccounted`: a reused address is never mistaken for what it was, and none is lost; `HandlesSpec`: `yuris_free` is one step to its callers |
| `script_listing` | 7 scripts of both layouts and two games, that tell their key, another word or nothing, 2 commands of at most 2 arguments of 0, 8188 or 8189 bytes; every input of 6 characters, lines of 4 | `KeyRight`: a script gets the key that the last script with a clue told, whatever came between; `ListedAll`: each argument is listed once; `HexFits`: the static buffer of 8192 characters; `AllReleased`: each exit of a parse leaves what `Left` says, and the rest is freed; `ReplReads`: each line is evaluated once, in order and as a whole |
| `definition_reader` | up to 3 records of each kind, versions on both sides of each change, files cut around each record and field group; tables of 2 | `AllFound`: the lookup table covers every variable; `Released`: what was stored can be freed wherever a parser stops; `ParsersAgree`: records end where `libyuris` has them end, and files within the player's limits are read if and only if `libyuris` can read their records, which it does if nothing follows them |
| `ypf` | 1696 archives: 8 versions on both sides of each change of format, up to 2 of 9 kinds of file, sizes from 4 to 100 bytes, an index read of 90 bytes, names of 2 to 10 bytes that are 2 to 9 in UTF-8, of which 7 fit | `ManifestComplete`: an index that ends within the bytes read is listed in full; `ReadsAgree`: files read one by one are those of the archive read as a whole |

Why the bounds are enough. Two archives already give a load after a lookup, a
name held twice and a full manager; three threads give one that frees, one that
allocates the address just freed and one that frees that again; four stack
slots are more than any opcode touches, and both full and empty stacks are met.
The index of `script_vm`, which has two bits, wraps like the 16-bit one. Two operators give a
result of each type as an operand of each operator; the integers of `expr_ops`
hold both ends of the range and wrap, its doubles round, overflow the buffer and lose what is behind their printed decimal,
its strings are numbers of each type, begin with one, hold a NUL, or contain
escapes next to each other. The lengths of `script_listing` are none, the longest
expression whose text fits and one more, with the real size of the buffer; its
inputs hold lines shorter than, as long as and longer than theirs. The archives of
`ypf` have an index that ends before, exactly at and behind the limit `ReadSize`,
files that end before, exactly at and behind their end, and names that fit as they
are stored but not in UTF-8.

Bounds that are not of the program: `MaxLen`, `MaxVars`, `MaxBlocks`,
`MaxEntries`, `MaxEmpty`, `MaxCount`, `MaxArgs`, `MaxIdx`, `MaxOps`, `Lens`.
`StackSize`, `MaxArchives`, `MaxScripts`, `Limit`, `W`, `P`, `NumberBufSize`, `ReadSize`, `NameLen`, `HexSize`,
`LineSize` and the `MAX_` constants of `DefinitionReader` stand for
`EXPR_STACK_SIZE`, `MAX_ARCHIVES`, `YSTL_MAX_SCRIPTS`, the numbers `uint16_t` has, the width of `int64_t`, the
significand of `double`, `NUMBER_STR_BUF_SIZE`, `MANIFEST_HEADER_READ_SIZE`,
`YURIS_NAME_LEN`, the arrays `hex` and `input` of `debug.c`, and the
limits of `script_reader.h`. `Unit` is how finely doubles are counted, `EXIT` the line
that ends the prompt, `NONE` no script or no answer yet.

**Fairness.** `Player!FairSpec` is weakly fair to its whole next-state relation:
`main` is one thread that waits for nothing but the prompt for expressions,
which `Terminates` excepts, and excepts tables whose last index is 65535, as the
loop of `free_vm` over them does not end (`script_vm_free`). `ScriptVM!FairSpec` is weakly fair to the loop of
`free_vm`, which runs without interruption. No other liveness is claimed.

### Disagreements found

Three runs show a comment that the code contradicts (see "findings"):

- `script_vm_def`: `vm_var_def` takes an index for a position (`vm.h:50`);
- `script_vm_free`: with 65535 as the largest index the loop of `free_vm` does
  not end (`vm.h:52`). The run has `Limit = 4` and the index 3;
- `ypf_hash`: `decode_entry` drops the result of the hash comparison
  (`libyuris.h:77`).

Others are behaviours of the models, and the reason why some properties speak
of less than one would wish:

- `yuris_file_read` is documented to decrypt what it returns by XOR
  (`libyuris.h:73-76`, and `:80` of its version; `archive.h:71` of the file the
  player gets), and does not: `decode_entry` (`ypf.rs:590`) inflates a file or
  copies it, as `Ypf::parse` does. `ReadsAgree` compares these two, and neither with
  the header;
- the key of a script below version 300 is read from offset 0x2C with the most
  significant byte first (`script_reader.c:54-59`, which notes that it "might need
  change" and is to be validated), and by `guess_key` with the least
  (`ystb.rs:60`, and `test_guess_key_v2_valid` at `ystb.rs:434`). Both then use the
  key's bytes from the highest on, so what one decrypts the other does not. Which of
  them is right is not known here: `ScriptReader` has scripts of both kinds, and
  `KeyRight` claims nothing after one that the player reads the wrong way round, until
  another script tells its key. Of other versions `guess_key` takes a constant, 0xD36FAC96,
  where the player takes the word of the first argument;
- a wrong key stays in the cache, and decrypts every script without a clue, until a
  script with a clue replaces it (`script_reader.c:349-358`);
- a parse that fails after an allocation that succeeded leaves blocks that nothing
  frees: the commands, if they have been allocated, and the sections, but by the exit
  `fail_readsize_decrypt` (`script_reader.c:425-441`). `Left` lists them, and `AllReleased` holds every exit
  to them;
- the 32-bit sum at `script_reader.c:411` can wrap, and the ID of `--script-info` is
  not compared with the size of `ystl.scripts` (`yurisplayer.c:353`): the models have
  what can happen then, and the end of the process, and no property excludes it;
- `main` releases the VM with the loop of `free_vm` on every exit
  (`yurisplayer.c:387-395`), so that a game whose variables go up to index 65535 makes
  it hang at its end;
- a file of no stored bytes makes `archive_file_get` return `NULL` with `errno`
  as it was (`archive.c:256`, against `archive.h:74`);
- `eval_expr` can succeed with a string that has no text (`expr.c:105`, against
  `expr.h:97`), and `vm_init_vars` answers 0 without a table if there is no variable
  to fill in (`vm.c:31`, against `vm.h:44`), both after an allocation that failed;
- `debug_expr_eval` returns the error of `eval_expr` where `debug.h:54` says -1;
- the `"..."` that `debug.c:209` leaves room for is written behind a byte that has
  taken two characters of it, when an expression is longer than 8188 bytes
  (`HexFits` excepts these); an argument without bytes is shown with the bytes of
  the argument before it (`debug.c:178`);
- a double is printed with six decimals, and is another number when it is read back
  if it has more; a name whose UTF-8 has more than 63 bytes is listed cut, possibly
  within a character (`ffi.rs:143`), and is then not found by its whole name;
- a line of more than 2047 characters is evaluated in pieces (`debug.c:303`);
- of a string like `12x` both `= 0` and `> 0` hold, as only `=` asks for the whole
  string to be a number; integers a double cannot hold may be neither less than,
  equal to nor greater than a double as one expects; `Ordered` is about the
  others;
- `text_count` is read from version 301 on by `script_reader.c:162` and from 470
  on by `ystl.rs:39`, so one of the two misreads lists of scripts of the versions
  between (`Disputed` in `DefinitionReader`);
- the player refuses a label without a name, and a list of commands of no more
  than a header, which `libyuris` does not; it accepts a file of labels that ends
  within the table it skips, if there are none; and it ignores what follows the
  last record, where `libyuris` asks for the messages and the table that end a ysc, and
  for the end of the file (`AtEnd`).

## 4. What is proved

Each proof has the same shape. `Inv` is an inductive invariant, the conjunction
of the properties a run checks and of what else they need to be inductive; TLC
has checked it on the configurations of the runs before it was proved. `InitInv`
and a lemma for each action show that it holds and is kept, `NextInv` puts these
together, and `Invariance` is `Spec => []Inv`. Where a module has the proofs of a
second specification, that one's are called `OpsInv`, `ListInv`, `ReplInv` and
`YpfInv`. A refinement is a lemma that each
step is one of the abstract specification or a stutter, in states where `Inv`
holds.

`ArchiveManagerProofs`, for any number of archives, any names, files and paths:

- `TypeCorrect`: `Spec => []TypeOK`;
- `IndexIsCoherent`: `Spec => []IndexSound`, which is `IndexCoherent` and `IndexLive`;
- `HandlesAreStable`: `Spec => []HandlesSound`, which is `HandlesStable` and
  `ParentsValid`;
- `ImplementsVirtualFS`: `Spec => VFSSpec`.

The inductive invariant is the conjunction of `TypeOK` and these four, which is
what TLC checks too. They need each other: that an index marked current lists
all files (`IndexCoherent`) is kept by a load only because a load that finds no
internal state finds no archives (`IndexLive`); that a lookup answers with a
live file needs the index, and that the answer is a handle that stays good needs
that archives are only appended; a read is of the file's own archive because of
`ParentsValid`. `NextInv` has a step for each action and, below it, one for each
conjunct the action can disturb. Lemmas before it say what the operators do:
the files of a list with one more archive are the old ones and the new
(`PtrsOfAppend`), an ordering is a sequence of pointers (`IndexesType`), what
`bsearch` finds is in it (`BSearchType`).

The refinement maps `store` to the set of files of all archives with the data a
read would return; `StepImplements` shows that each step is one of `VirtualFS`
or a stutter.

`ExprVMProofs`, for a stack of any size and expressions of any length:

- `TypeCorrect`: `Spec => []TypeOK`;
- `StackIsOwner`: `Spec => []StackOwnsHeap`;
- `NoDoubleFree`: `Spec => []NoFault`;
- `NothingLeaks`: `Spec => []NothingLeft`, which is `ResultOwned` and `FailureFrees`.

The checked properties are not inductive alone. `Fresh`, that `malloc` returns a
block above all live ones, keeps a new string from sharing a block; `Untouched`,
that an empty stack of a running machine has never been used, is what makes
`stack[0]` a harmless result. Everything else follows from who owns what:
`Owned(st, n, h)` says in terms of slots that the first `n` values of an array
own the blocks of `h`, each its own. `OwnedStack` shows it to be what
`StackOwnsHeap` says; `PushOwned` and `FreeOwned` say what storing a value and
freeing the values above a slot do to it. From these come `PushInv`,
`ReplaceInv` and `FailInv`, for the three ways an instruction can end, and each
action is one or several of them.

Of the operators, for integers and doubles of any width, a buffer of any size, and
whatever numbers and strings are pushed:

- `OpsTypeCorrect`: `OpsSpec => []OpsTypeOK`;
- `TextsAreRight`: `OpsSpec => []TextsRight`;
- `ComparisonsOrder`: `OpsSpec => []Ordered`;
- `NumbersAreExact`: `OpsSpec => []NumbersExact`.

`OpsInv` says that the value on top is one of `Values`: an integer that fits its
width, a double that is one (rounding it changes nothing), or a text. That is
more than `OpsTypeOK`, and both comparisons and printing need it; `Results` shows
that every operator keeps it, with `WrappedType` for integers and `RoundedIs` for
doubles: what is rounded is a double, and rounding again, or what has its sign
changed, gives the same (`StepIs`, `NearTwice`, `SignedDouble`). It also says that a text has as many
characters as its length has it, unless a NUL or a cut number was in it (`Honest`).
Then

- `UnescapeIsReading` is `TextsRight` for strings pushed: after round `i` of the loop that
  replaces escapes in place, what precedes `i` is the beginning of the reading, and
  reading the rest, which is as yet as it was pushed, gives the end of it. The rounds
  that find the string shorter than `i` change nothing;
- `OneOfThree` is `Ordered` for numbers that doubles hold exactly: `<`, `=` and `>` see the
  same two doubles then, be they given as integers, doubles or text (`ExactDouble`);
- `ReadBack` is `NumbersExact` for numbers printed: their digits have the value they were
  printed from (`DecimalReads`), `strtoll` takes all of an integer's text and stops at
  a double's point. What `strtod` then reads is the double nearest to the tenths
  printed, these are no more than half a tenth off (`TenthsIs`), and no double is
  nearer to them than what `RoundedRatio` gives (`NoDoubleNearer`, by `PowersDivide`): so what
  is read is at most that far again on the other side, one tenth in all, and it is the
  double that was printed if this has no more than tenths (`RatioRepresentable`).

`ScriptReaderProofs`, for any scripts, of any size and in any order:

- `TypeCorrect`: `Spec => []TypeOK`;
- `KeyIsRight`: `Spec => []KeyRight`;
- `ScriptsAreReleased`: `Spec => []Released`, the part of `AllReleased` that is
  about the reader;
- `ListingReadsScripts`: `ListSpec => Spec`, so that these three hold of the tools
  of `ScriptListing`, which read scripts;
- `ArgumentsListed`: `ListSpec => []ListedAll`;
- `TextFits`: `ListSpec => []HexFits`;
- `NothingHeld`: `ListSpec => []AllReleased`, which is `Released` and that no result of
  an evaluation is kept;
- `LinesAnswered`: `ListSpec => []ReplReads`.

`Owned` gives the live blocks at each point of a parse, from which it follows
that the exit that frees all four sections is only reached when they exist, and that
each exit leaves what `Left` says for its code;
`CachedRight`, that the cached key is that of the last script with a clue if this told
it, and that a script is decrypted with the cached key, is `KeyRight` in the form
that each step keeps: `source` remembers that script. `AllVisited` shows from `TypeOK` that `free_yst`, which goes by `narg`, meets
every expression. For the listing, `Listed` says that what has been listed is
what precedes the place it has come to; that this is all of a script at its end
needs `Complete`, by which no command is left before all its arguments are read.
`HexEndIs` is about the loop that fills the buffer: it stops at most two
characters behind the last that has room, so the text and its NUL fit if the
text is not cut. It needs a buffer of more than six characters, for `"(null)"`.

`ReplReads` is about whatever may be typed in. `ReplInv` says that, while something is
left, what has been typed ends with a line and the lines evaluated are its lines; what
is left is then cut where the next line ends (`TakenLine`), and the lines of the whole
are those before and that one (`LinesAppended`).

`LibyurisProofs`, for any number of threads, addresses and empty buffers:

- `TypeCorrect`: `Spec => []TypeOK`;
- `RegistryIsExact`: `Spec => []RegistryExact`;
- `NoMemoryIsLost`: `Spec => []MemoryAccounted`;
- `ImplementsHandles`: `Spec => HandlesSpec`.

That the registry is exact although `yuris_free` searches it in two critical
sections rests on `FreedOnce`, that no two calls free one block at the same time
(a caller passes on only what it owns, and once, `libyuris.h:52`), and on `Exclusive`: what is registered,
what lies behind it and what calls have allocated but not registered yet share no
address. So an address found in the second section is still the block that the
call was given, and an address given out again between the two sections is not
one that a call to free is looking for. `ThreadsOK` ties each thread's pointers
to the point it has come to, and `EmptyBound` keeps count of the empty buffers,
all of which have one address. In the refinement the steps between the two
sections are stutters: the ownership of a block ends where it is taken out of
the registry.

Of the archives, for any archive, any size of the part that is read for the
index, and any length of names:

- `YpfTypeCorrect`: `YpfSpec => []YpfTypeOK`;
- `ManifestIsComplete`: `YpfSpec => []ManifestComplete`;
- `ReadsAreThoseExtracted`: `YpfSpec => []ReadsAgree`;
- `NameSizesApart`: two stored lengths of a name stand for two lengths, in every
  version. No run checks it; `SwapsApart` says of a table of exchanges that the
  exchanges do not undo each other.

`YpfInv` says that each answer is the one for the archive on disk, and of which of
its entries; the rest is about the functions of an archive. The index grows with
each entry (`IndexEndFacts`, from the lemmas about `SumTo`), so that an index that lies
within the bytes read is accepted there if and only if it is in the whole archive
(`IndexOkGrows`), and `ManifestFacts` and `ParseFacts` say when each of the two
parsers answers, and what. `FileOfGood` and `FileOfBad` compare a file read by its entry of
the manifest with the same file extracted.

`ScriptVMProofs`, for tables of any size, any largest index and any `Limit`:

- `TypeCorrect`: `Spec => []TypeOK`;
- `StringsHaveOneOwner`: `Spec => []ValuesOwned`;
- `NothingLeaks`: `Spec => []NoLeak`;
- `FreesAll`: `Spec => FreedAll`, an action property.

`Fresh` gives a new string a block of its own, `Shape` the extent of the table in
each phase. `Walked` says that no string lies beyond `max_idx` nor behind the
index the loop of `free_vm` has come to: it is kept although the index may wrap,
as what the loop meets again it has freed already. `Kept` is `NoLeak` during
`vm_init_vars`: all blocks are in the table, and variables that have not been
reached own nothing, so storing over them loses nothing if indexes are distinct.
With the largest index there is, `free_vm` does not return (section 3); what it
frees is right even then.

`PlayerProofs`, for any archives, scripts and limits:

- `TypeCorrect`: `Spec => []TypeOK`;
- `VersionIsLive`: `Spec => []VersionLive`;
- `VersionIsOfScripts`: `Spec => []VersionOfScripts`;
- `EveryExitReleases`: `Spec => []ExitReleases`.

`Phases` says what is there at each label of `main`: no archive before the target
is known, no version unchecked behind the check, a buffer only between a read
and the parser. `AdoptsRight` is the argument for the version: an archive with
scripts takes over if its version is another, and one of assets only if it is the
first.

`DefinitionReaderProofs`, for any files, with any number of records, and any
sizes of the callers' arrays:

- `TypeCorrect`: `Spec => []TypeOK`;
- `VariablesFound`: `Spec => []AllFound`;
- `StringsReleased`: `Spec => []Released`;
- `RecordsReadTheSame`: `Spec => []ParsersAgree`.

`Parsing` says how far a parser has come and what its table covers by then,
`SameEnds` that after `n` records its offset is where `libyuris` has record `n` end
and lies within the file (with the 4 bytes more of each record in dispute), `Verdict` that
it has succeeded if and only if `libyuris` can read the records. A parser that goes on keeps them by `AdvanceInv`, one that gives
up by `FailInv`: since records have positive sizes and `RustEnd` grows
(`RustEndGrows`), a record that does not fit ends behind the file for `libyuris`,
too (`ShortFile`), and so does a header that the player finds too short
(`BadHeader`). `GreatestIs` and `LastOfIs` are about the two loops that fill the
lookup table.

The sizes are summed by a recursive function, `SumTo`. The library's theorems
about recursive functions and induction take an operator and cannot be used, but
a set can take its place: `DataFacts` has it that a set of numbers that is not
empty has a least member, from a well-founded ordering of finite sets. `SumsExist` and
`SumsAgree` use it on the numbers for which there would be no such function, or
two that differ; `SumToStep`, `SumToSame` and `SumToNat` then are about the sums, and
`RustEndGrows` goes the same way. The same argument made general is `Recursion`: a
function that is defined by recursion along a measure exists, the measure being any function
to the naturals; `RecursionType` is its type. With these `ExprVMProofs` has the powers of
two and of ten, the distance of two doubles, the digits of a number and the reading of a
string. Where such a function is compared with
another, the induction is written out, as the least number for which the two would differ.

The proofs assume what the modules' `ASSUME`s say of the constants, and no
more. `qsort` and `bsearch` are assumed to do what C says, through `Indexes` and
`BSearch`; `NULL` is assumed not to be a number, a value or a table. Numbers
pushed are integers of the width `W` and doubles of the precision `P`, where `W` and the
buffer of printed numbers are at least 2.

### Only model-checked

Every invariant, action property and refinement of a passing run is stated by a
theorem, except:

- Liveness, `Player!Terminates` and `ScriptVM!FreeTerminates`: fairness and `ENABLED`
  are out of the prover's reach.
- The three runs that show a disagreement: TLC's counterexample is the evidence.

## 5. What is not modelled

- The Rust parser of scripts (`ystb.rs`, `expr.rs`): it is stateless, and only
  the command-line tool calls it, which prints what it returns; the C interface
  takes `guess_key` from it alone, for the key a probed version reports. Where its
  key differs from the player's is said in section 3.
- What the messages and the table behind the commands of a ysc file hold, of which the
  player reads nothing, and the values the parsers read.
- CP932 (`encoding.c`): text can be converted or it cannot.
- Byte order, but of the key of old scripts: the readers of `utils.c` are modelled by how far they advance.
- What `strtoul` reads at the prompt for expressions.
- Quotients and remainders of doubles.
- The bytes that the XOR of `crypto.rs` and the inflation of files give.
- Logging, the listings that only print, and most of the command-line tool.
- A caller of `vm_var_get` keeps a shallow copy; as no code calls it, there is no
  behaviour to check.

## 6. Plan

Done: the archive manager with its abstract store, the expression VM and its
operators, script VM, main, C interface with its abstract handles, all parsers of
the player, the listing of scripts and the prompt, YPF archives; proofs for all of
these.

Next, in this order:

1. `ystb.rs` compared with `parse_yst`: layouts by version and the key.
2. `Ypf` composed with `ArchiveManager`: an archive that changes between the
   reading of its index and that of a file, and names that are equal once cut.
