----------------------------- MODULE ScriptReader -----------------------------
(***************************************************************************)
(* parse_yst and free_yst of src/src/script_reader.c, called for one       *)
(* script after another as main does: the blocks a parse allocates and     *)
(* frees, with each of its error exits, and the XOR key it guesses or      *)
(* takes from the script before.                                           *)
(*                                                                         *)
(* The sections of a script are not modelled byte by byte.  A script is    *)
(* what its key can be guessed from, and reading any record of a section   *)
(* may fail.  <<c, a>> is argument a of command c.                         *)
(***************************************************************************)
EXTENDS Integers, Sequences, FiniteSets

CONSTANTS
  Keys,      \* XOR keys, none of them 0
  Files,     \* the scripts there are
  MaxCount,  \* the most commands of a script (a bound)
  MaxArgs,   \* the most arguments of a command (a bound)
  Lens,      \* the lengths of expressions
  WRONG,     \* a key that is no script's
  NONE       \* no script

\* old: of a version below 300, long enough to hold a word at 0x2C if it has a clue;
\* the word is the key, in the order its bytes are used in or else, if little, the
\* other way round.  A script that is not old has a clue if it has an argument, the
\* expression of which is at offset first of the values section.
File == [old : BOOLEAN, clue : BOOLEAN, little : BOOLEAN, first : Nat, key : Keys,
         count : 0..MaxCount]

ASSUME KeysAssumption == Keys \subseteq Nat \ {0} /\ WRONG \notin Keys \cup {0}
ASSUME FilesAssumption == Files \subseteq File /\ NONE \notin Files
ASSUME BoundsAssumption == MaxCount \in Nat /\ MaxArgs \in Nat /\ Lens \subseteq Nat

VARIABLES
  cached_ystb_key,  \* 0, or the last key guessed
  pc,       \* "idle", "key", "sections", "instructions", "command",
            \* "parsed" (owned by the caller), "crash" (the process has ended)
  file,     \* the script being parsed
  xor_key,  \* the key it is decrypted with
  narg,     \* the narg of each command read so far
  lens,     \* of each command, the expr_len of each argument read so far
  copied,   \* how many sections have been copied and decrypted
  live,     \* the blocks this parse has allocated and not freed, but for
  exprs,    \* the arguments that have an expression allocated
  rc,       \* what the last parse_yst returned
  source,   \* the last script with a clue that came to its key, or NONE
  fault     \* a block has been freed that is not live

key == <<cached_ystb_key, xor_key, source>>
blocks == <<copied, live, fault>>
script == <<file, narg, lens, exprs>>
readerVars == <<key, blocks, script, pc, rc>>

Sections == <<"decrypted_cmd", "decrypted_args", "decrypted_vals", "decrypted_lines">>
Locals == {Sections[i] : i \in 1..4}
Args(ls) == {x \in (1..Len(ls)) \X (1..MaxArgs) : x[2] <= Len(ls[x[1]])}

\* Frees the blocks bs.
Release(bs) == live' = live \ bs /\ fault' = (fault \/ ~(bs \subseteq live))
               /\ UNCHANGED copied

------------------------------------------------------------------------------
\* guess_ystb_key

\* The word in an old script, read as if it were stored in the order it is used in;
\* else the first argument's expression offset as it is encrypted, which is the key
\* if that offset is 0 and any other word, 0 included, if it is not.
KeyWord(f) == IF f.old THEN {IF f.little THEN WRONG ELSE f.key}
              ELSE IF f.first = 0 THEN {f.key} ELSE {0, WRONG}

\* Mutant: a script without arguments has the bytes that follow it guessed from.
GuessAnyway(f) == IF f.clue THEN KeyWord(f) ELSE {WRONG}

\* Without the word there is nothing to guess from.
guess_ystb_key(f) == IF f.clue THEN KeyWord(f) ELSE {0}

------------------------------------------------------------------------------
\* parse_yst

\* fail_invalid and fail_readsize return EINVAL, fail_alloc ENOMEM, and none of
\* the three frees anything.  Nor does the caller, which calls free_yst only after
\* a success: what is left is lost.
Fail(code) == pc' = "idle" /\ rc' = code /\ UNCHANGED blocks

\* fail_readsize_decrypt frees the decrypted sections.
FailDecrypt == pc' = "idle" /\ rc' = "EINVAL" /\ Release(Locals)

\* The header is read, and the sections it announces must fit.
Begin ==
  /\ pc = "idle"
  /\ file' \in Files
  /\ narg' = << >> /\ lens' = << >> /\ exprs' = {}
  /\ xor_key' = 0 /\ copied' = 0 /\ live' = {}
  /\ \/ pc' = "key" /\ rc' = "none"
     \/ pc' = "idle" /\ rc' = "EINVAL"
  /\ UNCHANGED <<cached_ystb_key, source, fault>>

\* The key guessed, which is then cached, or else the cached one.
TakeKey ==
  /\ pc = "key"
  /\ \E guess \in guess_ystb_key(file) :
        /\ xor_key' = IF guess # 0 THEN guess ELSE cached_ystb_key
        /\ cached_ystb_key' = xor_key'
  /\ source' = IF file.clue THEN file ELSE source
  /\ IF xor_key' = 0 THEN pc' = "idle" /\ rc' = "EINVAL"
                     ELSE pc' = "sections" /\ UNCHANGED rc
  /\ UNCHANGED <<blocks, script>>

\* Mutant: an allocation that fails leaves by the exit that frees the sections.
NoMemoryFrees == FailDecrypt

NoMemory == Fail("ENOMEM")

\* A section is copied and decrypted, in the order of the file, and after the
\* last out->instructions is allocated.
AllocNext ==
  /\ pc = "sections"
  /\ \/ NoMemory
     \/ /\ copied < 4
        /\ live' = live \cup {Sections[copied + 1]} /\ copied' = copied + 1
        /\ UNCHANGED <<pc, rc, fault>>
     \/ /\ copied = 4
        /\ live' = live \cup {"instructions"}
        /\ pc' = "instructions"
        /\ UNCHANGED <<rc, fault, copied>>
  /\ UNCHANGED <<key, script>>

\* The next command's code, narg, npar and line.
ReadCommand ==
  /\ pc = "instructions" /\ Len(narg) < file.count
  /\ \/ /\ narg' \in {Append(narg, k) : k \in 0..MaxArgs}
        /\ lens' = Append(lens, << >>) /\ pc' = "command"
        /\ UNCHANGED <<blocks, rc>>
     \/ FailDecrypt /\ UNCHANGED <<narg, lens>>
  /\ UNCHANGED <<key, file, exprs>>

ArgsRead == Len(lens[Len(lens)])   \* of the last command

\* Mutant: a command may have one argument more than its narg.
MoreArgsThan(k) == ArgsRead <= k

MoreArgs(k) == ArgsRead < k

\* Its next argument: its descriptor may be cut short or invalid.  It has an
\* expression if that has bytes and lies within the values section; the sum of its
\* offset and its length has 32 bits, and one that wraps passes for within, when
\* copying it reads other memory or ends the process.
ReadArg ==
  /\ pc = "command" /\ MoreArgs(narg[Len(narg)])
  /\ \/ /\ file.clue
        /\ \E l \in Lens :
              /\ lens' = [lens EXCEPT ![Len(lens)] = Append(@, l)]
              /\ \/ UNCHANGED <<exprs, pc>>
                 \/ /\ l > 0 /\ exprs' = exprs \cup {<<Len(lens), ArgsRead + 1>>}
                    /\ pc' \in {pc, "crash"}
        /\ UNCHANGED <<blocks, rc>>
     \/ (Fail("EINVAL") \/ NoMemory \/ FailDecrypt) /\ UNCHANGED <<lens, exprs>>
  /\ UNCHANGED <<key, file, narg>>

CommandRead == /\ pc = "command" /\ ~MoreArgs(narg[Len(narg)])
               /\ pc' = "instructions"
               /\ UNCHANGED <<key, blocks, script, rc>>

\* The decrypted sections are freed and the script is the caller's.
Return == /\ pc = "instructions" /\ Len(narg) = file.count
          /\ Release(Locals)
          /\ pc' = "parsed" /\ rc' = "0"
          /\ UNCHANGED <<key, script>>

\* The arguments free_yst visits: narg of each command.
Visited == {x \in exprs : x[1] \in DOMAIN narg /\ x[2] <= narg[x[1]]}

\* free_yst: the expression of each argument, if it has one, and the commands.
free_yst == /\ pc = "parsed"
            /\ Release({"instructions"})
            /\ exprs' = exprs \ Visited
            /\ pc' = "idle"
            /\ UNCHANGED <<key, file, narg, lens, rc>>

------------------------------------------------------------------------------
Init == /\ cached_ystb_key = 0 /\ source = NONE
        /\ pc = "idle" /\ rc = "none"
        /\ file \in Files
        /\ xor_key = 0 /\ narg = << >> /\ lens = << >> /\ copied = 0
        /\ live = {} /\ exprs = {} /\ fault = FALSE

Parse == Begin \/ TakeKey \/ AllocNext \/ ReadCommand \/ ReadArg \/ CommandRead \/ Return

Spec == Init /\ [][Parse \/ free_yst]_readerVars

------------------------------------------------------------------------------
\* Properties

TypeOK ==
  /\ cached_ystb_key \in Keys \cup {0, WRONG}
  /\ xor_key \in Keys \cup {0, WRONG}
  /\ pc \in {"idle", "key", "sections", "instructions", "command", "parsed", "crash"}
  /\ file \in Files
  /\ narg \in Seq(0..MaxArgs) /\ Len(narg) <= file.count
  /\ lens \in Seq(Seq(Lens)) /\ Len(lens) = Len(narg)
  /\ \A c \in DOMAIN lens : Len(lens[c]) <= narg[c]
  /\ copied \in 0..4
  /\ live \subseteq Locals \cup {"instructions"}
  /\ exprs \subseteq Args(lens)
  /\ rc \in {"none", "0", "EINVAL", "ENOMEM"}
  /\ source \in Files \cup {NONE} /\ fault \in BOOLEAN

\* The word guess_ystb_key reads in f is its key.  guess_key of libyuris (ystb.rs:56)
\* reads that of an old script the other way round: the old scripts that libyuris
\* decrypts are little, and not told here.
Tells(f) == f.clue /\ IF f.old THEN ~f.little ELSE f.first = 0

\* A script is decrypted with its key if the last script with a clue, which may be
\* itself or any number of scripts and failures ago, told the same key.  A key that
\* was wrong in the cache is so no longer than until a script tells its own.
KeyRight ==
  (source # NONE /\ Tells(source)) =>
     /\ cached_ystb_key = source.key
     /\ (source.key = file.key /\ pc \in {"sections", "instructions", "command", "parsed"}) =>
           xor_key = file.key

\* What is left when parse_yst has returned, by how it did: nothing, if it failed
\* before the sections; the sections copied so far, if memory ran out there; the
\* commands and their expressions, if a record was cut short; and these and all the
\* sections, if an argument was invalid or memory ran out for its expression.
Left ==
  CASE rc \in {"none", "0"} -> live = {} /\ exprs = {}
    [] rc = "EINVAL" -> \/ live = {} /\ exprs = {}
                        \/ live \in {{"instructions"}, Locals \cup {"instructions"}}
    [] rc = "ENOMEM" -> \/ live = {Sections[i] : i \in 1..copied} /\ exprs = {}
                        \/ live = Locals \cup {"instructions"}

\* No exit of parse_yst frees a section that has not been allocated yet, or twice,
\* and each leaves exactly what Left says; a parsed script has no section left, and
\* free_yst leaves nothing of it.
Released == /\ ~fault
            /\ pc = "parsed" => live = {"instructions"}
            /\ pc = "idle" => Left
==============================================================================
