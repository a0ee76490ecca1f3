-------------------------- MODULE ScriptReaderProofs --------------------------
(***************************************************************************)
(* The invariants of ScriptReader, for any scripts in any order and of any *)
(* size; and those of ScriptListing, which lists the scripts that it reads *)
(* and so inherits them, and evaluates lines typed in.                     *)
(***************************************************************************)
EXTENDS ScriptListing, DataFacts, SequenceTheorems, TLAPS

Late == {"sections", "instructions", "command", "parsed"}

\* Which blocks are live at which point of a parse.
Owned == /\ pc = "key" => live = {} /\ copied = 0 /\ exprs = {}
         /\ pc = "sections" => live = {Sections[i] : i \in 1..copied} /\ exprs = {}
         /\ pc \in {"instructions", "command"} => live = Locals \cup {"instructions"}
         /\ pc = "parsed" => live = {"instructions"} /\ rc = "0"

\* There is a last command while its arguments are read.
InCommand == pc = "command" => narg # << >>

\* The cached key is that of the last script with a clue, if it told it; a script is
\* decrypted with the cached key.
CachedRight == /\ (source # NONE /\ Tells(source)) => cached_ystb_key = source.key
               /\ pc \in Late => xor_key = cached_ystb_key

Inv == TypeOK /\ Released /\ Owned /\ InCommand /\ CachedRight

\* All of a parsed script's expressions are those free_yst visits.
LEMMA AllVisited == TypeOK => Visited = exprs
<1> SUFFICES ASSUME TypeOK, NEW x \in exprs
             PROVE  x[1] \in DOMAIN narg /\ x[2] <= narg[x[1]]
  BY DEF Visited
<1>1. /\ x[1] \in 1..Len(lens) /\ x[2] \in 1..MaxArgs /\ x[2] <= Len(lens[x[1]])
      /\ Len(lens[x[1]]) <= narg[x[1]] /\ lens[x[1]] \in Seq(Lens)
  BY DEF TypeOK, Args
<1>2. narg \in Seq(0..MaxArgs) /\ lens \in Seq(Seq(Lens)) /\ Len(lens) = Len(narg)
  BY DEF TypeOK
<1>3. x[1] \in DOMAIN narg /\ narg[x[1]] \in 0..MaxArgs
  <2>1. x[1] \in 1..Len(narg)
    BY <1>1, <1>2
  <2>2. DOMAIN narg = 1..Len(narg) /\ \A i \in 1..Len(narg) : narg[i] \in 0..MaxArgs
    BY <1>2, LenProperties
  <2> QED  BY <2>1, <2>2
<1>4. Len(lens[x[1]]) \in Nat
  BY <1>1
<1> QED  BY <1>1, <1>3, <1>4, BoundsAssumption

\* The state before the first call.
LEMMA InitInv == Init => Inv
<1> SUFFICES ASSUME Init PROVE Inv
  OBVIOUS
<1>1. file.count \in Nat
  BY FilesAssumption, BoundsAssumption DEF Init, File
<1>2. << >> \in Seq(0..MaxArgs) /\ << >> \in Seq(Seq(Lens)) /\ Len(<< >>) = 0
      /\ DOMAIN << >> = {}
  OBVIOUS
<1>3. Len(narg) <= file.count /\ narg \in Seq(0..MaxArgs)
  BY <1>1, <1>2 DEF Init
<1>4. lens \in Seq(Seq(Lens)) /\ Len(lens) = Len(narg) /\ DOMAIN lens = {}
  BY <1>2 DEF Init
<1>5. TypeOK
  <2>1. \A c \in DOMAIN lens : Len(lens[c]) <= narg[c]
    BY <1>4
  <2>2. exprs \subseteq Args(lens) /\ live \subseteq Locals \cup {"instructions"}
    BY DEF Init
  <2>3. /\ cached_ystb_key \in Keys \cup {0, WRONG} /\ xor_key \in Keys \cup {0, WRONG}
        /\ file \in Files /\ copied \in 0..4 
    BY DEF Init
  <2>4. /\ source \in Files \cup {NONE} /\ fault \in BOOLEAN /\ rc \in {"none", "0", "EINVAL", "ENOMEM"}
        /\ pc \in {"idle", "key", "sections", "instructions", "command", "parsed", "crash"}
    BY DEF Init
  <2> QED  BY <1>3, <1>4, <2>1, <2>2, <2>3, <2>4 DEF TypeOK
<1> QED  BY <1>5 DEF Init, Inv, Released, Left, Owned, InCommand, CachedRight, Late

\* Of a script that tells its key nothing else is guessed.
LEMMA GuessRight ==
  ASSUME NEW f \in Files, Tells(f), NEW g \in guess_ystb_key(f)
  PROVE  g = f.key /\ g # 0
BY FilesAssumption, KeysAssumption DEF Tells, guess_ystb_key, KeyWord, File

\* Of a script without a clue nothing is.
LEMMA NoClue ==
  ASSUME NEW f \in Files, ~f.clue, NEW g \in guess_ystb_key(f)
  PROVE  g = 0
BY DEF guess_ystb_key

\* A guess is a key.
LEMMA GuessType ==
  ASSUME NEW f \in Files, NEW g \in guess_ystb_key(f)
  PROVE  g \in Keys \cup {0, WRONG}
BY FilesAssumption DEF guess_ystb_key, KeyWord, File

LEMMA BeginInv == ASSUME Inv, Begin PROVE Inv'
<1>1. file' \in Files /\ file'.count \in Nat
  BY FilesAssumption, BoundsAssumption DEF Begin, File
<1>2. TypeOK'
  BY <1>1 DEF Begin, Inv, TypeOK, Args
<1>3. CachedRight'
  BY <1>1 DEF Begin, Inv, CachedRight, Tells, Late
<1> QED  BY <1>2, <1>3 DEF Begin, Inv, Released, Left, Owned, InCommand

LEMMA TakeKeyInv == ASSUME Inv, TakeKey PROVE Inv'
<1> PICK guess \in guess_ystb_key(file) :
         /\ xor_key' = IF guess # 0 THEN guess ELSE cached_ystb_key
         /\ cached_ystb_key' = xor_key'
  BY DEF TakeKey
<1>1. guess \in Keys \cup {0, WRONG} /\ file \in Files
  BY GuessType DEF Inv, TypeOK
<1>2. source' = IF file.clue THEN file ELSE source
  BY DEF TakeKey
<1>3. TypeOK'
  BY <1>1 DEF TakeKey, Inv, TypeOK, blocks, script, Args
<1>4. CachedRight'
  <2>1. CASE file.clue
    <3>1. Tells(file) => guess = file.key /\ guess # 0
      BY <1>1, GuessRight
    <3>2. QED
      BY <1>2, <2>1, <3>1 DEF CachedRight, Tells
  <2>2. CASE ~file.clue
    <3>1. guess = 0
      BY <1>1, <2>2, NoClue
    <3>2. QED
      BY <1>2, <2>2, <3>1 DEF Inv, CachedRight, Tells
  <2>3. QED
    BY <2>1, <2>2
<1>5. Owned' /\ Released'
  <2>1. {Sections[i] : i \in 1..0} = {}
    OBVIOUS
  <2> QED  BY <2>1 DEF TakeKey, Inv, Owned, Released, Left, blocks, script
<1> QED  BY <1>3, <1>4, <1>5 DEF TakeKey, Inv, InCommand, script

\* The commands are no section.
LEMMA NotLocal == "instructions" \notin Locals
<1>1. ASSUME NEW i \in 1..4 PROVE Sections[i] # "instructions"
  BY DEF Sections
<1> QED  BY <1>1 DEF Locals

\* An exit for a failure keeps what does not depend on it.
LEMMA FailInv ==
  ASSUME Inv, NEW code \in {"EINVAL", "ENOMEM"}, Fail(code), UNCHANGED <<key, file, exprs>>,
         pc \in {"instructions", "command"} \/ (pc = "sections" /\ code = "ENOMEM"),
         TypeOK'
  PROVE  Inv'
<1>1. Left'
  BY DEF Fail, blocks, Inv, Owned, Left
<1>2. Owned' /\ InCommand' /\ CachedRight' /\ Released'
  BY <1>1 DEF Fail, blocks, key, Inv, Released, Owned, InCommand, CachedRight, Tells, Late
<1>3. QED
  BY <1>2 DEF Inv

\* The exit that frees the sections is taken only when they are all there.
LEMMA FailDecryptInv ==
  ASSUME Inv, FailDecrypt, pc \in {"instructions", "command"}, UNCHANGED <<key, file>>,
         TypeOK'
  PROVE  Inv'
<1>1. live' = {"instructions"} /\ ~fault'
  BY NotLocal DEF FailDecrypt, Release, Inv, Owned, Released
<1>2. Left' /\ Released'
  BY <1>1 DEF FailDecrypt, Left, Released
<1>3. Owned' /\ InCommand' /\ CachedRight'
  BY DEF FailDecrypt, key, Inv, Owned, InCommand, CachedRight, Tells, Late
<1>4. QED
  BY <1>2, <1>3 DEF Inv

LEMMA AllocNextInv == ASSUME Inv, AllocNext PROVE Inv'
<1>1. ASSUME NoMemory PROVE Inv'
  <2>1. TypeOK'
    BY <1>1 DEF NoMemory, Fail, AllocNext, Inv, TypeOK, key, blocks, script, Args
  <2> QED  BY <1>1, <2>1, FailInv DEF NoMemory, AllocNext, script
<1>2. ASSUME copied < 4, live' = live \cup {Sections[copied + 1]}, copied' = copied + 1,
             UNCHANGED <<pc, rc, fault>>
      PROVE  Inv'
  <2>1. copied \in 0..3 /\ pc = "sections"
    BY <1>2 DEF AllocNext, Inv, TypeOK
  <2>2. TypeOK'
    BY <1>2, <2>1 DEF AllocNext, Inv, TypeOK, key, script, Args, Locals
  <2>3. {Sections[i] : i \in 1..(copied + 1)}
          = {Sections[i] : i \in 1..copied} \cup {Sections[copied + 1]}
    BY <2>1
  <2>4. Owned'
    BY <1>2, <2>1, <2>3 DEF AllocNext, script, Inv, Owned
  <2> QED  BY <1>2, <2>1, <2>2, <2>4
           DEF AllocNext, Inv, key, script, Released, Left, InCommand, CachedRight, Tells, Late
<1>3. ASSUME copied = 4, live' = live \cup {"instructions"}, pc' = "instructions",
             UNCHANGED <<rc, fault, copied>>
      PROVE  Inv'
  <2>1. TypeOK'
    BY <1>3 DEF AllocNext, Inv, TypeOK, key, script, Args
  <2>2. Owned'
    BY <1>3 DEF AllocNext, Inv, Owned, Locals
  <2> QED  BY <1>3, <2>1, <2>2
           DEF AllocNext, Inv, key, script, Released, Left, InCommand, CachedRight, Tells, Late
<1> QED  BY <1>1, <1>2, <1>3 DEF AllocNext

LEMMA ReadCommandInv == ASSUME Inv, ReadCommand PROVE Inv'
<1>1. ASSUME FailDecrypt, UNCHANGED <<narg, lens>> PROVE Inv'
  <2>1. TypeOK'
    BY <1>1 DEF FailDecrypt, Release, ReadCommand, Inv, TypeOK, key, Args
  <2> QED  BY <1>1, <2>1, FailDecryptInv DEF ReadCommand
<1>2. ASSUME NEW k \in 0..MaxArgs, narg' = Append(narg, k), lens' = Append(lens, << >>),
             pc' = "command", UNCHANGED <<blocks, rc>>
      PROVE  Inv'
  <2>1. Len(narg) < file.count /\ file.count \in Nat /\ narg \in Seq(0..MaxArgs)
        /\ lens \in Seq(Seq(Lens)) /\ Len(lens) = Len(narg)
    BY FilesAssumption, BoundsAssumption DEF ReadCommand, Inv, TypeOK, File
  <2>2. narg' \in Seq(0..MaxArgs) /\ lens' \in Seq(Seq(Lens)) /\ Len(lens') = Len(narg')
        /\ Len(narg') <= file.count /\ narg' # << >>
    BY <1>2, <2>1
  <2>3. \A c \in DOMAIN lens' : Len(lens'[c]) <= narg'[c]
    <3> TAKE c \in DOMAIN lens'
    <3>1. CASE c = Len(lens) + 1
      BY <1>2, <2>1, <3>1, BoundsAssumption
    <3>2. CASE c # Len(lens) + 1
      BY <1>2, <2>1, <3>2 DEF Inv, TypeOK
    <3> QED  BY <3>1, <3>2
  <2>4. Args(lens) \subseteq Args(lens')
    <3>1. \A c \in 1..Len(lens) : lens'[c] = lens[c] /\ c \in 1..Len(lens')
      BY <1>2, <2>1
    <3> QED  BY <3>1 DEF Args
  <2>5. TypeOK'
    BY <1>2, <2>2, <2>3, <2>4 DEF ReadCommand, Inv, TypeOK, key, blocks
  <2> QED  BY <1>2, <2>2, <2>5
           DEF ReadCommand, Inv, key, blocks, Released, Left, Owned, InCommand, CachedRight, Tells, Late
<1> QED  BY <1>1, <1>2 DEF ReadCommand

LEMMA ReadArgInv == ASSUME Inv, ReadArg PROVE Inv'
<1>1. ASSUME Fail("EINVAL") \/ NoMemory \/ FailDecrypt, UNCHANGED <<lens, exprs>> PROVE Inv'
  <2>1. TypeOK'
    BY <1>1 DEF Fail, NoMemory, FailDecrypt, Release, ReadArg, Inv, TypeOK, key, blocks, Args
  <2> QED  BY <1>1, <2>1, FailInv, FailDecryptInv DEF ReadArg, NoMemory
<1>2. ASSUME NEW l \in Lens, lens' = [lens EXCEPT ![Len(lens)] = Append(@, l)],
             exprs' \subseteq exprs \cup {<<Len(lens), ArgsRead + 1>>},
             pc' \in {pc, "crash"}, UNCHANGED <<blocks, rc>>
      PROVE  Inv'
  <2> DEFINE n == Len(lens)
  <2>1. /\ n \in Nat \ {0} /\ n = Len(narg) /\ lens \in Seq(Seq(Lens))
        /\ narg \in Seq(0..MaxArgs) /\ narg[n] \in 0..MaxArgs
    BY BoundsAssumption DEF ReadArg, Inv, TypeOK, InCommand
  <2>2. lens[n] \in Seq(Lens) /\ Append(lens[n], l) \in Seq(Lens)
        /\ Len(Append(lens[n], l)) = Len(lens[n]) + 1
    BY <2>1
  <2>3. Len(lens[n]) + 1 <= narg[n]
    BY <2>1, <2>2, BoundsAssumption DEF ReadArg, MoreArgs, ArgsRead
  <2>4. lens' \in Seq(Seq(Lens)) /\ Len(lens') = n /\ DOMAIN lens' = 1..n
        /\ \A c \in 1..n : lens'[c] = IF c = n THEN Append(lens[n], l) ELSE lens[c]
    BY <1>2, <2>1, <2>2
  <2>5. \A c \in DOMAIN lens' : Len(lens'[c]) <= narg'[c]
    BY <2>1, <2>2, <2>3, <2>4 DEF ReadArg, Inv, TypeOK
  <2>6. Args(lens) \cup {<<n, ArgsRead + 1>>} \subseteq Args(lens')
    <3>1. \A c \in 1..n : Len(lens[c]) <= Len(lens'[c])
      BY <2>1, <2>2, <2>4
    <3>2. \A c \in 1..n : Len(lens[c]) \in Nat /\ Len(lens'[c]) \in Nat
      BY <2>1, <2>4
    <3>3. Args(lens) \subseteq Args(lens')
      BY <2>1, <2>4, <3>1, <3>2 DEF Args
    <3>4. <<n, ArgsRead + 1>> \in Args(lens')
      BY <2>1, <2>2, <2>3, <2>4, BoundsAssumption DEF Args, ArgsRead
    <3> QED  BY <3>3, <3>4
  <2>7. TypeOK'
    BY <1>2, <2>1, <2>4, <2>5, <2>6 DEF ReadArg, Inv, TypeOK, key, blocks
  <2> QED  BY <1>2, <2>7
           DEF ReadArg, Inv, key, blocks, Released, Left, Owned, InCommand, CachedRight, Tells, Late
<1> QED  BY <1>1, <1>2 DEF ReadArg

LEMMA CommandReadInv == ASSUME Inv, CommandRead PROVE Inv'
BY DEF CommandRead, Inv, TypeOK, Args, key, blocks, script,
       Released, Left, Owned, InCommand, CachedRight, Tells, Late

LEMMA ReturnInv == ASSUME Inv, Return PROVE Inv'
<1>1. TypeOK'
  BY DEF Return, Release, Inv, TypeOK, Args, key, script
<1>2. live' = {"instructions"} /\ ~fault'
  <2> QED  BY NotLocal DEF Return, Release, Inv, Owned, Released
<1> QED  BY <1>1, <1>2
         DEF Return, Inv, key, script, Released, Left, Owned, InCommand, CachedRight, Tells, Late

LEMMA FreeInv == ASSUME Inv, free_yst PROVE Inv'
<1>1. exprs' = {} /\ live' = {} /\ ~fault'
  BY AllVisited DEF free_yst, Release, Inv, Owned, Released
<1>2. TypeOK'
  BY <1>1 DEF free_yst, Release, Inv, TypeOK, key
<1> QED  BY <1>1, <1>2
         DEF free_yst, Inv, key, Released, Left, Owned, InCommand, CachedRight, Tells, Late

\* Every step of a parse, and free_yst, keep the invariant.
LEMMA NextInv == Inv /\ [Parse \/ free_yst]_readerVars => Inv'
<1> SUFFICES ASSUME Inv, [Parse \/ free_yst]_readerVars PROVE Inv'
  OBVIOUS
<1>1. CASE UNCHANGED readerVars
  <2>1. TypeOK' /\ InCommand' /\ CachedRight'
    BY <1>1 DEF readerVars, key, blocks, script, Inv, TypeOK, Args, InCommand, CachedRight,
                Tells, Late
  <2>2. Left => Left'
    BY <1>1 DEF readerVars, blocks, script, Left
  <2>3. Released' /\ Owned'
    BY <1>1, <2>2 DEF readerVars, blocks, script, Inv, Released, Owned
  <2>4. QED
    BY <2>1, <2>3 DEF Inv
<1> QED  BY <1>1, BeginInv, TakeKeyInv, AllocNextInv, ReadCommandInv, ReadArgInv,
            CommandReadInv, ReturnInv, FreeInv DEF Parse

\* What is proved of the scripts read.
LEMMA Invariance == Spec => []Inv
BY InitInv, NextInv, PTL DEF Spec

------------------------------------------------------------------------------
\* parse_yst keeps its types: no command has more arguments than its narg, and what
\* free_yst visits is all that has been allocated.
THEOREM TypeCorrect == Spec => []TypeOK
<1> Inv => TypeOK
  BY DEF Inv
<1> QED  BY Invariance, PTL

\* A script is decrypted with its key if the last script with a clue told the same,
\* whatever scripts come before, between and after and whichever of them fail.
THEOREM KeyIsRight == Spec => []KeyRight
<1> Inv => KeyRight
  BY DEF Inv, KeyRight, CachedRight, Late
<1> QED  BY Invariance, PTL

\* No exit of parse_yst frees what it has not allocated, each leaves what Left says
\* and no more, and free_yst frees all of a parsed script.
THEOREM ScriptsAreReleased == Spec => []Released
<1> Inv => Released
  BY DEF Inv
<1> QED  BY Invariance, PTL

------------------------------------------------------------------------------
(* The listing.                                                            *)

\* The tools only read scripts the way parse_yst and free_yst do.
LEMMA ListStep == [ListNext]_vars => [Parse \/ free_yst]_readerVars
BY DEF ListNext, vars, ParseScript, ShowArg, ShowCommand, FreeListed, EvalLine

\* A command that has been read has as many arguments as its narg says.
Complete ==
  /\ pc \in {"key", "sections"} => narg = << >>
  /\ pc \in {"instructions", "command", "parsed"} =>
       \A c \in 1..Len(narg) : (pc = "command" => c < Len(narg)) => Len(lens[c]) = narg[c]

\* x precedes y in the file.
Before(x, y) == x[1] < y[1] \/ (x[1] = y[1] /\ x[2] < y[2])

\* What has been listed of a script is what precedes the place the listing has come
\* to, in order; of no script nothing has.
Listed ==
  /\ at \in Nat \X Nat /\ listed \in Seq(Nat \X Nat)
  /\ pc # "parsed" => at = <<1, 1>> /\ listed = << >>
  /\ pc = "parsed" =>
       /\ at[1] \in 1..(Len(narg) + 1) /\ at[2] > 0
       /\ IF at[1] <= Len(narg) THEN at[2] <= narg[at[1]] + 1 ELSE at[2] = 1
       /\ \A i \in DOMAIN listed : listed[i] \in Args(lens) /\ Before(listed[i], at)
       /\ \A x \in Args(lens) : Before(x, at) => \E i \in DOMAIN listed : listed[i] = x
       /\ \A i, j \in DOMAIN listed : i < j => Before(listed[i], listed[j])

\* The buffer is a number of bytes and one of characters.
HexKept == hex.bytes \in Nat /\ hex.chars \in Nat /\ HexFits

ListInv == Complete /\ Listed /\ HexKept /\ held = {}

\* What TypeOK says of the commands and arguments.
LEMMA LensType ==
  ASSUME TypeOK
  PROVE  /\ Len(narg) \in Nat /\ DOMAIN narg = 1..Len(narg) /\ DOMAIN lens = 1..Len(narg)
         /\ Len(lens) = Len(narg)
         /\ narg \in Seq(0..MaxArgs) /\ lens \in Seq(Seq(Lens))
         /\ \A c \in 1..Len(narg) :
              /\ narg[c] \in 0..MaxArgs /\ lens[c] \in Seq(Lens) /\ Len(lens[c]) \in Nat
              /\ Len(lens[c]) <= narg[c]
<1>1. narg \in Seq(0..MaxArgs) /\ lens \in Seq(Seq(Lens)) /\ Len(lens) = Len(narg)
      /\ \A c \in DOMAIN lens : Len(lens[c]) <= narg[c]
  BY DEF TypeOK
<1>2. Len(narg) \in Nat /\ DOMAIN narg = 1..Len(narg) /\ DOMAIN lens = 1..Len(narg)
  BY <1>1, LenProperties
<1>3. \A c \in 1..Len(narg) : narg[c] \in 0..MaxArgs /\ lens[c] \in Seq(Lens)
  BY <1>1, <1>2, SeqDomain
<1>4. \A c \in 1..Len(narg) : Len(lens[c]) \in Nat
  BY <1>3, LenProperties
<1>5. QED
  BY <1>1, <1>2, <1>3, <1>4

\* A parse leaves no command before its arguments are read.
LEMMA CompleteKept ==
  ASSUME Inv, Complete, [Parse \/ free_yst]_readerVars  PROVE Complete'
<1>1. /\ Len(narg) \in Nat /\ DOMAIN narg = 1..Len(narg) /\ DOMAIN lens = 1..Len(narg)
      /\ Len(lens) = Len(narg)
      /\ narg \in Seq(0..MaxArgs) /\ lens \in Seq(Seq(Lens))
      /\ \A c \in 1..Len(narg) : /\ narg[c] \in 0..MaxArgs /\ Len(lens[c]) \in Nat
                                 /\ Len(lens[c]) <= narg[c]
  BY LensType DEF Inv
<1>2. CASE UNCHANGED readerVars \/ Return \/ free_yst
  BY <1>2 DEF Complete, readerVars, script, Return, free_yst
<1>3. CASE Begin \/ TakeKey
  BY <1>3 DEF Complete, Begin, TakeKey, script
<1>4. CASE AllocNext
  <2>1. narg = << >> /\ narg' = narg /\ lens' = lens
    BY <1>4 DEF Complete, AllocNext, script
  <2>2. QED
    BY <1>4, <2>1 DEF Complete, AllocNext, NoMemory, Fail
<1>5. CASE ReadCommand
  <2>1. CASE \E k \in 0..MaxArgs : narg' = Append(narg, k)
    <3>1. PICK k \in 0..MaxArgs : narg' = Append(narg, k)
      BY <2>1
    <3>2. CASE pc' = "command" /\ lens' = Append(lens, << >>)
      <4>1. /\ Len(narg') = Len(narg) + 1
            /\ \A c \in 1..Len(narg) : narg'[c] = narg[c] /\ lens'[c] = lens[c]
        BY <1>1, <3>1, <3>2, AppendProperties
      <4>2. \A c \in 1..Len(narg) : Len(lens[c]) = narg[c]
        BY <1>5 DEF Complete, ReadCommand
      <4>3. \A c \in 1..Len(narg') : c < Len(narg') => c \in 1..Len(narg)
        BY <1>1, <4>1
      <4>4. QED
        BY <3>2, <4>1, <4>2, <4>3 DEF Complete
    <3>3. CASE pc' = "idle"
      BY <3>3 DEF Complete
    <3>4. QED
      BY <1>5, <3>2, <3>3 DEF ReadCommand, FailDecrypt
  <2>2. CASE pc' = "idle"
    BY <2>2 DEF Complete
  <2>3. QED
    BY <1>5, <2>1, <2>2 DEF ReadCommand, FailDecrypt
<1>6. CASE ReadArg
  <2>1. CASE pc' \in {"idle", "crash"}
    BY <2>1 DEF Complete
  <2>2. CASE pc' = "command" /\ \E l \in Lens : lens' = [lens EXCEPT ![Len(lens)] = Append(@, l)]
    <3>1. narg' = narg /\ pc = "command"
      BY <1>6 DEF ReadArg
    <3>2. PICK l \in Lens : lens' = [lens EXCEPT ![Len(lens)] = Append(@, l)]
      BY <2>2
    <3>3. \A c \in 1..Len(narg) : c # Len(narg) => lens'[c] = lens[c]
      BY <1>1, <3>2
    <3>4. ASSUME NEW c \in 1..Len(narg), c < Len(narg)  PROVE c # Len(narg)
      <4>1. Len(narg) \in Nat
        BY <1>1
      <4>2. QED
        BY <3>4, <4>1
    <3>5. QED
      BY <2>2, <3>1, <3>3, <3>4 DEF Complete
  <2>3. QED
    BY <1>6, <2>1, <2>2 DEF ReadArg, Fail, NoMemory, FailDecrypt
<1>7. CASE CommandRead
  <2>1. pc = "command" /\ pc' = "instructions" /\ narg' = narg /\ lens' = lens
        /\ ~(Len(lens[Len(narg)]) < narg[Len(narg)])
    BY <1>1, <1>7 DEF CommandRead, MoreArgs, ArgsRead, script
  <2>2. ASSUME NEW c \in 1..Len(narg)  PROVE Len(lens[c]) = narg[c]
    <3>1. Len(narg) \in Nat /\ narg[c] \in Int /\ Len(lens[c]) \in Nat /\ Len(lens[c]) <= narg[c]
      BY <1>1, BoundsAssumption
    <3>2. CASE c = Len(narg)
      BY <2>1, <3>1, <3>2
    <3>3. CASE c # Len(narg)
      BY <2>1, <3>1, <3>3 DEF Complete
    <3>4. QED
      BY <3>2, <3>3
  <2>3. QED
    BY <2>1, <2>2 DEF Complete
<1>8. QED
  BY <1>2, <1>3, <1>4, <1>5, <1>6, <1>7 DEF Parse

\* Where the loop over the bytes stops, if there is room for their first ones.
LEMMA HexEndIs ==
  ASSUME NEW m \in Nat
  PROVE  HexEnd(m) \in Nat /\ (m <= HexSize - 4 => HexEnd(m) < HexSize)
<1> DEFINE full == {k \in 0..m : ~Room(3 * k)}
           least == CHOOSE k \in full : \A j \in full : k <= j
<1>1. HexSize \in Nat /\ HexSize > 6
  BY SizesAssumption
<1>2. HexEnd(m) = 3 * (IF full = {} THEN m ELSE least)
  BY DEF HexEnd
<1>3. \A k \in 0..m : k \notin full => 3 * k < HexSize - 4
  BY DEF Room
<1>4. CASE full = {}
  <2>1. m \in 0..m /\ m \notin full
    <3>1. m <= m
      OBVIOUS
    <3>2. m \in 0..m
      BY <3>1
    <3> HIDE DEF full
    <3>3. QED
      BY <1>4, <3>2
  <2>2. 3 * m < HexSize - 4
    BY <1>3, <2>1
  <2>3. QED
    BY <1>1, <1>2, <1>4, <2>2
<1>5. CASE full # {}
  <2>1. full \subseteq 0..m /\ full \subseteq Nat
    OBVIOUS
  <2> HIDE DEF full
  <2>2. \E k \in full : \A j \in full : k <= j
    BY <1>5, <2>1, LeastExists
  <2>3. least \in full /\ \A j \in full : least <= j
    BY <2>2
  <2> HIDE DEF least
  <2>4. least \in 0..m
    BY <2>1, <2>3
  <2>5. 3 * least < HexSize
    <3>1. CASE least = 0
      BY <1>1, <3>1
    <3>2. CASE least # 0
      <4>1. least - 1 \in 0..m /\ ~(least <= least - 1)
        BY <2>4, <3>2
      <4>2. least - 1 \notin full
        BY <2>3, <4>1
      <4>3. 3 * (least - 1) < HexSize - 4
        BY <1>3, <4>1, <4>2
      <4>4. QED
        BY <1>1, <2>4, <4>3
    <3>3. QED
      BY <3>1, <3>2
  <2>6. HexEnd(m) = 3 * least
    BY <1>2, <1>5
  <2>7. QED
    BY <1>1, <2>4, <2>5, <2>6
<1>6. QED
  BY <1>4, <1>5

\* The buffer after an argument.
LEMMA HexOfKept ==
  ASSUME HexKept, NEW x, NEW m \in Nat, hex' = HexOf(x, m)
  PROVE  HexKept'
<1>1. HexSize \in Nat /\ HexSize > 6
  BY SizesAssumption
<1>2. CASE x \in exprs
  <2>1. hex' = [bytes |-> m, chars |-> HexEnd(m) + IF m > HexSize - 4 THEN 3 ELSE 0]
    BY <1>2 DEF HexOf
  <2>2. QED
    BY <1>1, <2>1, HexEndIs DEF HexKept, HexFits
<1>3. CASE x \notin exprs /\ m > 0
  <2>1. hex' = [bytes |-> m, chars |-> 6]
    BY <1>3 DEF HexOf
  <2>2. QED
    BY <1>1, <2>1 DEF HexKept, HexFits
<1>4. CASE x \notin exprs /\ ~(m > 0)
  BY <1>4 DEF HexOf, HexKept, HexFits
<1>5. QED
  BY <1>2, <1>3, <1>4

\* A string that is shown is freed.
LEMMA ShowFrees == ASSUME held = {}, NEW r, Show(r) PROVE held' = {}
BY DEF Show, Frees

LEMMA ShowArgInv == ASSUME Inv, ListInv, ShowArg PROVE ListInv'
<1> DEFINE c == at[1]
           a == at[2]
<1>1. /\ pc = "parsed" /\ c <= Len(narg) /\ a <= narg[c]
      /\ hex' = HexOf(at, lens[c][a]) /\ listed' = Append(listed, at) /\ at' = <<c, a + 1>>
      /\ UNCHANGED readerVars /\ \E r \in Results : Show(r)
  BY DEF ShowArg
<1>2. pc' = pc /\ narg' = narg /\ lens' = lens
  BY <1>1 DEF readerVars, script
<1>3. /\ Len(narg) \in Nat /\ Len(lens) = Len(narg) /\ MaxArgs \in Nat
      /\ \A k \in 1..Len(narg) : /\ narg[k] \in 0..MaxArgs /\ lens[k] \in Seq(Lens)
                                 /\ Len(lens[k]) = narg[k]
  BY <1>1, LensType, BoundsAssumption DEF Inv, ListInv, Complete
<1>4. /\ at = <<c, a>> /\ c \in 1..Len(narg) /\ a \in 1..narg[c] /\ a \in 1..MaxArgs
      /\ listed \in Seq(Nat \X Nat) /\ at \in Nat \X Nat
  BY <1>1, <1>3 DEF ListInv, Listed
<1>5. at \in Args(lens)
  BY <1>3, <1>4 DEF Args
<1>6. lens[c][a] \in Nat
  <2>1. a \in DOMAIN lens[c]
    BY <1>3, <1>4, LenProperties
  <2>2. lens[c][a] \in Lens
    BY <1>3, <1>4, <2>1, SeqDomain
  <2>3. QED
    BY <2>2, BoundsAssumption
<1>7. HexKept' /\ held' = {}
  BY <1>1, <1>6, HexOfKept, ShowFrees DEF ListInv
<1>8. Complete'
  BY <1>2 DEF ListInv, Complete
<1>9. Listed'
  <2> DEFINE l == Len(listed)
  <2>1. /\ listed' \in Seq(Nat \X Nat) /\ l \in Nat /\ DOMAIN listed = 1..l
        /\ DOMAIN listed' = 1..(l + 1)
        /\ \A i \in 1..l : listed'[i] = listed[i]
        /\ listed'[l + 1] = at
    BY <1>1, <1>4, AppendDomain
  <2> HIDE DEF l, c, a
  <2>2. at'[1] = c /\ at'[2] = a + 1 /\ at' \in Nat \X Nat /\ at[1] = c /\ at[2] = a
    BY <1>1, <1>3, <1>4 DEF c, a
  <2>3. ASSUME NEW x \in Args(lens)  PROVE Before(x, at) => Before(x, at')
    <3>1. x[1] \in Nat /\ x[2] \in Nat
      BY <1>3 DEF Args
    <3>2. QED
      BY <1>3, <1>4, <2>2, <3>1 DEF Before
  <2>4. Before(at, at')
    BY <1>3, <1>4, <2>2 DEF Before
  <2>5. ASSUME NEW x \in Args(lens), Before(x, at')  PROVE Before(x, at) \/ x = at
    <3>1. x \in Nat \X Nat
      BY <1>3 DEF Args
    <3>2. QED
      BY <1>3, <1>4, <2>2, <2>5, <3>1 DEF Before
  <2>6. \A i \in DOMAIN listed : listed[i] \in Args(lens) /\ Before(listed[i], at)
    BY <1>1 DEF ListInv, Listed
  <2>7. \A i \in DOMAIN listed' : i \in DOMAIN listed \/ i = l + 1
    BY <2>1
  <2>8. \A i \in DOMAIN listed' : listed'[i] \in Args(lens) /\ Before(listed'[i], at')
    BY <1>5, <2>1, <2>3, <2>4, <2>6, <2>7
  <2>9. ASSUME NEW x \in Args(lens), Before(x, at')
        PROVE  \E i \in DOMAIN listed' : listed'[i] = x
    <3>1. CASE x = at
      <4>1. l + 1 \in DOMAIN listed'
        BY <2>1
      <4>2. QED
        BY <2>1, <3>1, <4>1
    <3>2. CASE Before(x, at)
      <4>1. PICK i \in DOMAIN listed : listed[i] = x
        BY <1>1, <3>2 DEF ListInv, Listed
      <4>2. i \in DOMAIN listed' /\ listed'[i] = x
        BY <2>1, <4>1
      <4>3. QED
        BY <4>2
    <3>3. QED
      BY <2>5, <2>9, <3>1, <3>2
  <2>10. ASSUME NEW i \in DOMAIN listed', NEW j \in DOMAIN listed', i < j
         PROVE  Before(listed'[i], listed'[j])
    <3>1. i \in DOMAIN listed
      BY <2>1, <2>10
    <3>2. CASE j \in DOMAIN listed
      BY <1>1, <2>1, <2>10, <3>1, <3>2 DEF ListInv, Listed
    <3>3. CASE j = l + 1
      BY <2>1, <2>6, <3>1, <3>3
    <3>4. QED
      BY <2>7, <3>2, <3>3
  <2>11. at'[1] \in 1..(Len(narg) + 1) /\ at'[2] > 0
         /\ at'[1] <= Len(narg) /\ at'[2] <= narg[at'[1]] + 1
    BY <1>3, <1>4, <2>2
  <2>12. QED
    BY <1>1, <1>2, <2>1, <2>2, <2>8, <2>9, <2>10, <2>11 DEF Listed
<1>10. QED
  BY <1>7, <1>8, <1>9 DEF ListInv

LEMMA ShowCommandInv == ASSUME Inv, ListInv, ShowCommand PROVE ListInv'
<1> DEFINE c == at[1]
           a == at[2]
<1>1. /\ pc = "parsed" /\ c <= Len(narg) /\ a >= narg[c] + 1 /\ at' = <<c + 1, 1>>
      /\ UNCHANGED readerVars /\ hex' = hex /\ listed' = listed /\ held' = held
  BY DEF ShowCommand, AfterLastArg
<1>2. pc' = pc /\ narg' = narg /\ lens' = lens
  BY <1>1 DEF readerVars, script
<1>3. /\ Len(narg) \in Nat /\ Len(lens) = Len(narg) /\ MaxArgs \in Nat
      /\ \A k \in 1..Len(narg) : /\ narg[k] \in 0..MaxArgs
                                 /\ Len(lens[k]) = narg[k]
  BY <1>1, LensType, BoundsAssumption DEF Inv, ListInv, Complete
<1>4. /\ c \in 1..Len(narg) /\ a = narg[c] + 1 /\ a \in Nat
      /\ listed \in Seq(Nat \X Nat) /\ at \in Nat \X Nat
  BY <1>1, <1>3 DEF ListInv, Listed
<1>5. Complete' /\ HexKept' /\ held' = {}
  BY <1>1, <1>2 DEF ListInv, Complete, HexKept, HexFits
<1>6. Listed'
  <2> HIDE DEF c, a
  <2>1. at'[1] = c + 1 /\ at'[2] = 1 /\ at' \in Nat \X Nat /\ at[1] = c /\ at[2] = a
    BY <1>1, <1>3, <1>4 DEF c, a
  <2>2. ASSUME NEW x \in Args(lens)  PROVE Before(x, at) <=> Before(x, at')
    <3>1. x \in (1..Len(narg)) \X (1..MaxArgs) /\ x[2] <= narg[x[1]]
      BY <1>3 DEF Args
    <3>2. x[1] = c => x[2] < a
      BY <1>3, <1>4, <3>1
    <3>3. QED
      BY <1>3, <1>4, <2>1, <3>1, <3>2 DEF Before
  <2>3. at'[1] \in 1..(Len(narg) + 1)
    BY <1>3, <1>4, <2>1
  <2>4. IF at'[1] <= Len(narg) THEN at'[2] <= narg[at'[1]] + 1 ELSE at'[2] = 1
    BY <1>3, <2>1, <2>3
  <2>5. listed' = listed /\ Args(lens)' = Args(lens)
    BY <1>1, <1>2 DEF Args
  <2>6. \A i \in DOMAIN listed : listed[i] \in Args(lens) /\ Before(listed[i], at')
    BY <1>1, <2>2 DEF ListInv, Listed
  <2>7. \A x \in Args(lens) : Before(x, at') => \E i \in DOMAIN listed : listed[i] = x
    BY <1>1, <2>2 DEF ListInv, Listed
  <2>8. \A i, j \in DOMAIN listed : i < j => Before(listed[i], listed[j])
    BY <1>1 DEF ListInv, Listed
  <2>9. pc' = "parsed" /\ narg' = narg /\ listed \in Seq(Nat \X Nat) /\ 1 > 0
    BY <1>1, <1>2, <1>4
  <2>10. QED
    BY <2>1, <2>3, <2>4, <2>5, <2>6, <2>7, <2>8, <2>9 DEF Listed
<1>7. QED
  BY <1>5, <1>6 DEF ListInv

LEMMA FreeListedInv == ASSUME Inv, ListInv, FreeListed PROVE ListInv'
<1>1. free_yst /\ pc' = "idle" /\ at' = <<1, 1>> /\ listed' = << >> /\ hex' = hex /\ held' = held
  BY DEF FreeListed, free_yst
<1>2. Complete'
  BY <1>1 DEF Complete
<1>3. QED
  BY <1>1, <1>2 DEF ListInv, Listed, HexKept, HexFits

LEMMA ParseScriptInv == ASSUME Inv, ListInv, ParseScript PROVE ListInv'
<1>1. Parse /\ hex' = hex /\ at' = at /\ listed' = listed /\ held' = held
  BY DEF ParseScript, listing
<1>2. Complete' /\ HexKept' /\ held' = {}
  BY <1>1, CompleteKept DEF ListInv, HexKept, HexFits
<1>3. pc # "parsed" /\ at = <<1, 1>> /\ listed = << >>
  BY <1>1 DEF ListInv, Listed, Parse, Begin, TakeKey, AllocNext, ReadCommand, ReadArg,
              CommandRead, Return
<1>4. CASE pc' # "parsed"
  BY <1>1, <1>2, <1>3, <1>4 DEF ListInv, Listed
<1>5. CASE pc' = "parsed"
  <2>1. TypeOK'
    BY <1>1, NextInv DEF Inv
  <2>2. /\ Len(narg') \in Nat /\ \A c \in 1..Len(narg') : narg'[c] \in 0..MaxArgs
    <3>1. /\ narg' \in Seq(0..MaxArgs)
      BY <2>1 DEF TypeOK
    <3>2. QED
      BY <3>1, LenProperties, SeqDomain
  <2>3. \A x \in Args(lens') : ~Before(x, <<1, 1>>)
    <3>1. \A x \in Args(lens') : x[1] \in Nat \ {0} /\ x[2] \in Nat \ {0}
      BY BoundsAssumption DEF Args
    <3>2. QED
      BY <3>1 DEF Before
  <2>4. \A i \in DOMAIN listed' : FALSE
    BY <1>1, <1>3
  <2>5. at' = <<1, 1>> /\ listed' \in Seq(Nat \X Nat)
    BY <1>1, <1>3
  <2>6. 1 <= Len(narg') => 1 <= narg'[1] + 1
    BY <2>2, BoundsAssumption
  <2>7. Listed'
    BY <1>5, <2>2, <2>3, <2>4, <2>5, <2>6 DEF Listed
  <2>8. QED
    BY <1>2, <2>7 DEF ListInv
<1>6. QED
  BY <1>4, <1>5

LEMMA EvalLineInv == ASSUME Inv, ListInv, EvalLine PROVE ListInv'
<1>1. UNCHANGED readerVars /\ hex' = hex /\ at' = at /\ listed' = listed
  BY DEF EvalLine, listing
<1>2. held' = {}
  BY ShowFrees DEF EvalLine, debug_expr_eval, ListInv
<1>3. pc' = pc /\ narg' = narg /\ lens' = lens
  BY <1>1 DEF readerVars, script
<1>4. QED
  BY <1>1, <1>2, <1>3 DEF ListInv, Listed, Complete, HexKept, HexFits

\* Every step of the tools keeps what is known of the listing.
LEMMA ListNextInv == Inv /\ ListInv /\ [ListNext]_vars => ListInv'
<1> SUFFICES ASSUME Inv, ListInv, [ListNext]_vars PROVE ListInv'
  OBVIOUS
<1>1. CASE UNCHANGED vars
  <2>1. UNCHANGED <<pc, narg, lens, hex, at, listed, held>>
    BY <1>1 DEF vars, readerVars, script, listing
  <2>2. QED
    BY <2>1 DEF ListInv, Listed, Complete, HexKept, HexFits
<1>2. QED
  BY <1>1, ParseScriptInv, ShowArgInv, ShowCommandInv, FreeListedInv, EvalLineInv DEF ListNext

LEMMA ListInitInv == ListInit => Init /\ ListInv
<1> SUFFICES ASSUME ListInit PROVE Init /\ ListInv
  OBVIOUS
<1>1. /\ Init /\ pc = "idle" /\ at = <<1, 1>> /\ listed = << >> /\ held = {}
      /\ hex.bytes = 0 /\ hex.chars = 0
  BY DEF ListInit, Init
<1>2. Complete /\ Listed
  BY <1>1 DEF Complete, Listed
<1>3. HexKept
  BY <1>1, SizesAssumption DEF HexKept, HexFits
<1>4. QED
  BY <1>1, <1>2, <1>3 DEF ListInv

\* The tools of src/src/debug.c use a script as main does: parse_yst and free_yst in
\* turn and nothing else, so that all that is proved of these two holds of the tools.
THEOREM ListingReadsScripts == ListSpec => Spec
BY ListInitInv, ListStep, PTL DEF ListSpec, Spec

LEMMA ListInvariance == ListSpec => []Inv /\ []ListInv
BY ListingReadsScripts, Invariance, ListInitInv, ListNextInv, PTL DEF ListSpec

\* debug_show_yst lists each argument of each command once, in the order of the
\* file, before main frees the script.
THEOREM ArgumentsListed == ListSpec => []ListedAll
<1>1. Inv /\ ListInv => ListedAll
  <2> SUFFICES ASSUME Inv, ListInv, pc = "parsed", at[1] > Len(narg)
               PROVE  /\ {listed[i] : i \in DOMAIN listed} = Args(lens)
                      /\ \A i, j \in DOMAIN listed : i < j => Before(listed[i], listed[j])
    BY DEF ListedAll, Before
  <2>1. Len(narg) \in Nat /\ Len(lens) = Len(narg)
    BY LensType DEF Inv
  <2>2. ASSUME NEW x \in Args(lens)  PROVE Before(x, at)
    <3>1. x[1] \in 1..Len(narg) /\ at[1] \in Nat
      BY <2>1 DEF Args, ListInv, Listed
    <3>2. QED
      BY <2>1, <3>1 DEF Before
  <2>3. QED
    BY <2>2 DEF ListInv, Listed
<1>2. QED
  BY <1>1, ListInvariance, PTL

\* debug_show_yst writes the text of an expression within its buffer, whatever its
\* size, unless the text has to be cut.
THEOREM TextFits == ListSpec => []HexFits
<1>1. ListInv => HexFits
  BY DEF ListInv, HexKept
<1>2. QED
  BY <1>1, ListInvariance, PTL

\* Of a script that is read and listed, and of a line evaluated, no block is left; of
\* one that cannot be read, what the exits of parse_yst leave.
THEOREM NothingHeld == ListSpec => []AllReleased
<1>1. Inv /\ ListInv => AllReleased
  BY DEF Inv, ListInv, AllReleased
<1>2. QED
  BY <1>1, ListInvariance, PTL

------------------------------------------------------------------------------
\* What the REPL evaluates, for any text typed in and buffers of any size.

\* Where the lines of s end, which of them an end is, where its line starts, and
\* the line.
Ends(s) == {i \in 1..Len(s) : s[i] = "newline" \/ i = Len(s)}

Rank(E, e) == Cardinality({d \in E : d <= e})

LineStart(s, e) ==
  IF \E d \in Ends(s) : d < e
  THEN 1 + CHOOSE d \in Ends(s) : d < e /\ \A c \in Ends(s) : c < e => c <= d ELSE 1

LineTo(s, e) == SubSeq(s, LineStart(s, e), IF s[e] = "newline" THEN e - 1 ELSE e)

\* The members of a finite set of numbers are numbered by their order.
LEMMA Ranks ==
  ASSUME NEW E, E \subseteq Nat, IsFiniteSet(E)
  PROVE  /\ Cardinality(E) \in Nat
         /\ \A e \in E : Rank(E, e) \in 1..Cardinality(E)
         /\ \A e, f \in E : Rank(E, e) = Rank(E, f) => e = f
         /\ \A n \in 1..Cardinality(E) : \E e \in E : Rank(E, e) = n
<1> DEFINE Low(e) == {d \in E : d <= e}
           C == Cardinality(E)
           r == [e \in E |-> Cardinality(Low(e))]
<1>1. C \in Nat
  BY FS_CardinalityType
<1>2. ASSUME NEW e \in E
      PROVE  /\ IsFiniteSet(Low(e)) /\ Cardinality(Low(e)) \in Nat
             /\ Cardinality(Low(e)) <= C /\ Cardinality(Low(e)) # 0
  <2>1. Low(e) \in SUBSET E
    OBVIOUS
  <2>2. e \in Low(e)
    OBVIOUS
  <2> HIDE DEF Low
  <2>3. IsFiniteSet(Low(e)) /\ Cardinality(Low(e)) <= C
    BY <2>1, FS_Subset
  <2>4. Cardinality(Low(e)) \in Nat /\ Cardinality(Low(e)) # 0
    BY <2>2, <2>3, FS_CardinalityType, FS_EmptySet
  <2>5. QED
    BY <2>3, <2>4
<1>3. ASSUME NEW e \in E, NEW f \in E, Cardinality(Low(e)) = Cardinality(Low(f))  PROVE e = f
  <2>1. e \in Low(e) /\ f \in Low(f) /\ (Low(e) \subseteq Low(f) \/ Low(f) \subseteq Low(e))
    <3>1. e \in Nat /\ f \in Nat
      OBVIOUS
    <3>2. e <= f \/ f <= e
      BY <3>1
    <3>3. \A x, y \in E : x <= y => Low(x) \subseteq Low(y)
      <4> SUFFICES ASSUME NEW x \in E, NEW y \in E, x <= y, NEW d \in Low(x)
                   PROVE  d \in Low(y)
        OBVIOUS
      <4>1. d \in E /\ d <= x
        OBVIOUS
      <4>2. d \in Nat /\ x \in Nat /\ y \in Nat
        BY <4>1
      <4>3. d <= y
        BY <4>1, <4>2
      <4>4. QED
        BY <4>1, <4>3
    <3>4. \A x \in E : x \in Low(x)
      OBVIOUS
    <3> HIDE DEF Low
    <3>5. QED
      BY <3>2, <3>3, <3>4
  <2>2. Low(e) = Low(f)
    <3> HIDE DEF Low
    <3>1. Low(e) \subseteq Low(f) => Low(e) = Low(f)
      BY <1>2, <1>3, FS_Subset
    <3>2. Low(f) \subseteq Low(e) => Low(e) = Low(f)
      BY <1>2, <1>3, FS_Subset
    <3>3. QED
      BY <2>1, <3>1, <3>2
  <2>3. e \in Low(f) /\ f \in Low(e)
    BY <2>1, <2>2
  <2>4. e <= f /\ f <= e /\ e \in Nat /\ f \in Nat
    BY <2>3
  <2>5. QED
    BY <2>4
<1> HIDE DEF Low
<1>4. \A e \in E : Cardinality(Low(e)) \in 1..C
  BY <1>1, <1>2
<1>5. r \in Injection(E, 1..C)
  BY <1>3, <1>4 DEF Injection, IsInjective
<1>6. IsFiniteSet(1..C) /\ Cardinality(1..C) = C
  BY <1>1, FS_Interval
<1>7. r \in Surjection(E, 1..C)
  BY <1>5, <1>6, FS_Injection
<1>8. \A n \in 1..C : \E e \in E : Cardinality(Low(e)) = n
  BY <1>7 DEF Surjection
<1>9. \A e : Rank(E, e) = Cardinality(Low(e))
  BY DEF Rank, Low
<1>10. QED
  BY <1>1, <1>3, <1>4, <1>8, <1>9

\* Ends are positions of the text, and the last position is one.
LEMMA EndsType ==
  ASSUME NEW S, NEW s \in Seq(S)
  PROVE  /\ Len(s) \in Nat /\ DOMAIN s = 1..Len(s)
         /\ Ends(s) \subseteq 1..Len(s) /\ Ends(s) \subseteq Nat /\ IsFiniteSet(Ends(s))
         /\ s # << >> => Len(s) \in Ends(s)
<1>1. Len(s) \in Nat /\ DOMAIN s = 1..Len(s)
  BY LenProperties
<1>2. Ends(s) \subseteq 1..Len(s) /\ Ends(s) \subseteq Nat
  BY <1>1 DEF Ends
<1>3. IsFiniteSet(Ends(s))
  <2>1. IsFiniteSet(1..Len(s))
    BY <1>1, FS_Interval
  <2>2. Ends(s) \in SUBSET (1..Len(s))
    BY <1>2
  <2>3. QED
    BY <2>1, <2>2, FS_Subset
<1>4. s # << >> => Len(s) \in Ends(s)
  <2>1. s # << >> => Len(s) # 0
    BY EmptySeq
  <2>2. QED
    BY <1>1, <2>1 DEF Ends
<1>5. QED
  BY <1>1, <1>2, <1>3, <1>4

\* The lines of s, by where they end.
LEMMA LinesByEnd ==
  ASSUME NEW S, NEW s \in Seq(S)
  PROVE  /\ Len(LinesOf(s)) = Cardinality(Ends(s))
         /\ DOMAIN LinesOf(s) = 1..Cardinality(Ends(s))
         /\ LinesOf(s) = [i \in 1..Cardinality(Ends(s)) |-> LinesOf(s)[i]]
         /\ \A e \in Ends(s) : /\ Rank(Ends(s), e) \in 1..Cardinality(Ends(s))
                               /\ LinesOf(s)[Rank(Ends(s), e)] = LineTo(s, e)
         /\ \A n \in 1..Cardinality(Ends(s)) : \E e \in Ends(s) : Rank(Ends(s), e) = n
<1> DEFINE E == Ends(s)
           C == Cardinality(E)
           At(n) == CHOOSE e \in E : Rank(E, e) = n
<1>1. LinesOf(s) = [n \in 1..C |-> LineTo(s, At(n))]
  BY DEF LinesOf, Ends, Rank, LineTo, LineStart
<1> HIDE DEF E
<1>2. /\ C \in Nat
      /\ \A e \in E : Rank(E, e) \in 1..C
      /\ \A e, f \in E : Rank(E, e) = Rank(E, f) => e = f
      /\ \A n \in 1..C : \E e \in E : Rank(E, e) = n
  BY EndsType, Ranks DEF E
<1>3. ASSUME NEW e \in E  PROVE At(Rank(E, e)) = e
  BY <1>2
<1>4. ASSUME NEW e \in E  PROVE Rank(E, e) \in 1..C /\ LinesOf(s)[Rank(E, e)] = LineTo(s, e)
  <2>1. Rank(E, e) \in 1..C
    BY <1>2
  <2> HIDE DEF At
  <2>2. QED
    BY <1>1, <1>3, <2>1
<1>5. DOMAIN LinesOf(s) = 1..C /\ Len(LinesOf(s)) = C
  <2>1. DOMAIN LinesOf(s) = 1..C
    BY <1>1
  <2>2. LinesOf(s) \in [1..C -> {LineTo(s, At(n)) : n \in 1..C}]
    BY <1>1
  <2>3. LinesOf(s) \in Seq({LineTo(s, At(n)) : n \in 1..C})
    BY <1>2, <2>2, FunctionIsSeq
  <2>4. QED
    BY <1>2, <2>1, <2>3, LenProperties
<1>6. LinesOf(s) = [n \in 1..C |-> LinesOf(s)[n]]
  <2> HIDE DEF C, At
  <2>1. QED
    BY <1>1
<1>7. QED
  BY <1>2, <1>4, <1>5, <1>6 DEF E

\* A line starts behind the end before it.
LEMMA LineStartIs ==
  ASSUME NEW S, NEW s \in Seq(S), NEW e \in Ends(s)
  PROVE  /\ \A d \in Ends(s) : d < e /\ (\A c \in Ends(s) : c < e => c <= d)
                                  => LineStart(s, e) = d + 1
         /\ (\A d \in Ends(s) : ~(d < e)) => LineStart(s, e) = 1
         /\ LineStart(s, e) \in 1..e
         /\ \A c \in Ends(s) : c < e => c < LineStart(s, e)
         /\ (\E b \in Ends(s) : b < e)
               => \E d \in Ends(s) : d < e /\ \A c \in Ends(s) : c < e => c <= d
<1>1. Ends(s) \subseteq Nat /\ Ends(s) \subseteq 1..Len(s) /\ Len(s) \in Nat
  BY EndsType
<1>2. ASSUME NEW d \in Ends(s), d < e, \A c \in Ends(s) : c < e => c <= d
      PROVE  LineStart(s, e) = d + 1
  <2> DEFINE x == CHOOSE x \in Ends(s) : x < e /\ \A c \in Ends(s) : c < e => c <= x
  <2>1. LineStart(s, e) = 1 + x
    BY <1>2 DEF LineStart
  <2>2. x \in Ends(s) /\ x < e /\ \A c \in Ends(s) : c < e => c <= x
    BY <1>2
  <2> HIDE DEF x
  <2>3. x <= d /\ d <= x /\ x \in Nat /\ d \in Nat
    BY <1>1, <1>2, <2>2
  <2>4. QED
    BY <2>1, <2>3
<1>3. ASSUME \A d \in Ends(s) : ~(d < e)  PROVE LineStart(s, e) = 1
  BY <1>3 DEF LineStart
<1>4. ASSUME NEW b \in Ends(s), b < e
      PROVE  \E d \in Ends(s) : d < e /\ \A c \in Ends(s) : c < e => c <= d
  <2> DEFINE Low == {c \in Ends(s) : c < e}
  <2>1. Low \subseteq 0..Len(s) /\ b \in Low
    BY <1>1, <1>4
  <2>2. PICK d \in Low : \A c \in Low : c <= d
    <3> HIDE DEF Low
    <3>1. Low # {}
      BY <2>1
    <3>2. QED
      BY <1>1, <2>1, <3>1, GreatestBelow
  <2>3. QED
    BY <2>2
<1>5. CASE \E b \in Ends(s) : b < e
  <2>1. PICK d \in Ends(s) : d < e /\ \A c \in Ends(s) : c < e => c <= d
    BY <1>4, <1>5
  <2>2. LineStart(s, e) = d + 1 /\ d \in Nat /\ e \in Nat
    BY <1>1, <1>2, <2>1
  <2>3. d + 1 \in 1..e
    BY <2>1, <2>2
  <2>4. \A c \in Ends(s) : c < e => c < d + 1
    BY <1>1, <2>1, <2>2
  <2>5. QED
    BY <1>2, <1>3, <1>5, <2>1, <2>2, <2>3, <2>4
<1>6. CASE \A b \in Ends(s) : ~(b < e)
  <2>1. e \in Nat /\ 1 \in 1..e
    BY <1>1
  <2>2. QED
    BY <1>3, <1>6, <2>1
<1>7. QED
  BY <1>5, <1>6

\* What is typed behind the end of a line starts a line of its own.
LEMMA EndsOfConcat ==
  ASSUME NEW S, NEW p \in Seq(S), NEW u \in Seq(S), u # << >>,
         p = << >> \/ p[Len(p)] = "newline"
  PROVE  /\ Ends(p \o u) = Ends(p) \cup {Len(p) + e : e \in Ends(u)}
         /\ p \o u \in Seq(S) /\ Len(p \o u) = Len(p) + Len(u)
         /\ \A e \in Ends(p) : (p \o u)[e] = p[e]
         /\ \A e \in Ends(u) : (p \o u)[Len(p) + e] = u[e]
         /\ p # << >> => Len(p) \in Ends(p)
<1> DEFINE q == p \o u
           n == Len(p)
           m == Len(u)
<1>1. n \in Nat /\ m \in Nat /\ m # 0 /\ q \in Seq(S) /\ Len(q) = n + m
  BY EndsType, EmptySeq, ConcatProperties
<1>2. \A i \in 1..n : q[i] = p[i]
  <2>1. \A i \in 1..(n + m) : q[i] = IF i <= n THEN p[i] ELSE u[i - n]
    BY ConcatProperties
  <2> HIDE DEF q, n, m
  <2>2. QED
    BY <1>1, <2>1
<1>3. \A i \in 1..m : q[n + i] = u[i]
  <2>1. \A i \in 1..(n + m) : q[i] = IF i <= n THEN p[i] ELSE u[i - n]
    BY ConcatProperties
  <2> HIDE DEF q, n, m
  <2> SUFFICES ASSUME NEW i \in 1..m  PROVE q[n + i] = u[i]
    OBVIOUS
  <2> DEFINE k == n + i
  <2>2. k \in 1..(n + m) /\ ~(k <= n) /\ k - n = i
    BY <1>1
  <2> HIDE DEF k
  <2>3. q[k] = u[k - n]
    BY <2>1, <2>2
  <2>4. QED
    BY <2>2, <2>3 DEF k
<1>4. n # 0 => p[n] = "newline"
  <2>1. Len(<< >>) = 0
    BY EmptySeq
  <2>2. p = << >> => n = 0
    BY <2>1
  <2>3. QED
    BY <2>2
<1>5. /\ Ends(p) = {i \in 1..n : p[i] = "newline" \/ i = n}
      /\ Ends(u) = {i \in 1..m : u[i] = "newline" \/ i = m}
      /\ Ends(q) = {i \in 1..(n + m) : q[i] = "newline" \/ i = n + m}
  <2> HIDE DEF q
  <2>1. QED
    BY <1>1 DEF Ends
<1> HIDE DEF q, n, m
<1>6. ASSUME NEW i \in 1..n  PROVE i \in Ends(q) <=> i \in Ends(p)
  <2>1. i \in 1..(n + m) /\ i # n + m
    BY <1>1
  <2>2. i = n => p[i] = "newline"
    BY <1>1, <1>4
  <2>3. QED
    BY <1>2, <1>5, <2>1, <2>2
<1>7. ASSUME NEW i \in 1..m  PROVE n + i \in Ends(q) <=> i \in Ends(u)
  <2>1. n + i \in 1..(n + m) /\ (n + i = n + m <=> i = m)
    BY <1>1
  <2>2. QED
    BY <1>3, <1>5, <2>1
<1>8. Ends(p) \subseteq 1..n /\ Ends(u) \subseteq 1..m /\ Ends(q) \subseteq 1..(n + m)
  BY <1>5
<1>9. \A i \in 1..(n + m) : i \in 1..n \/ (i - n \in 1..m /\ i = n + (i - n))
  BY <1>1
<1>10. Ends(q) \subseteq Ends(p) \cup {n + e : e \in Ends(u)}
  <2> SUFFICES ASSUME NEW i \in Ends(q)  PROVE i \in Ends(p) \cup {n + e : e \in Ends(u)}
    OBVIOUS
  <2>1. CASE i \in 1..n
    BY <1>6, <2>1
  <2>2. CASE i - n \in 1..m /\ i = n + (i - n)
    <3> DEFINE k == i - n
    <3>1. k \in 1..m /\ i = n + k
      BY <2>2
    <3> HIDE DEF k
    <3>2. k \in Ends(u)
      BY <1>7, <3>1
    <3>3. QED
      BY <3>1, <3>2
  <2>3. QED
    BY <1>8, <1>9, <2>1, <2>2
<1>11. Ends(p) \cup {n + e : e \in Ends(u)} \subseteq Ends(q)
  BY <1>6, <1>7, <1>8
<1>12. Ends(q) = Ends(p) \cup {n + e : e \in Ends(u)}
  BY <1>10, <1>11
<1>13. (p # << >>) => n \in Ends(p)
  BY EndsType DEF n
<1>14. (\A e \in Ends(p) : q[e] = p[e]) /\ (\A e \in Ends(u) : q[n + e] = u[e])
  BY <1>2, <1>3, <1>8
<1>15. QED
  BY <1>1, <1>12, <1>13, <1>14 DEF q, n, m

\* How long a line is.
LEMMA LineToType ==
  ASSUME NEW S, NEW s \in Seq(S), NEW e \in Ends(s)
  PROVE  /\ LineTo(s, e) \in Seq(S)
         /\ Len(LineTo(s, e)) = (IF s[e] = "newline" THEN e - 1 ELSE e) + 1 - LineStart(s, e)
<1> DEFINE a == LineStart(s, e)
           b == IF s[e] = "newline" THEN e - 1 ELSE e
<1>1. Len(s) \in Nat /\ DOMAIN s = 1..Len(s) /\ e \in 1..Len(s) /\ a \in 1..e
  BY EndsType, LineStartIs
<1> HIDE DEF a
<1>2. a \in Int /\ b \in Int /\ 1 <= a /\ b <= Len(s) /\ a <= b + 1
  BY <1>1
<1>3. \A i \in 1..Len(s) : s[i] \in S
  BY ElementOfSeq
<1>4. LineTo(s, e) = SubSeq(s, a, b)
  BY DEF LineTo, a
<1> HIDE DEF b
<1>5. \A i \in a..b : s[i] \in S
  BY <1>1, <1>2, <1>3
<1>6. SubSeq(s, a, b) \in Seq(S) /\ Len(SubSeq(s, a, b)) = IF a <= b THEN b - a + 1 ELSE 0
  BY <1>2, <1>5, SubSeqProperties
<1>7. Len(SubSeq(s, a, b)) = b + 1 - a
  BY <1>2, <1>6
<1>8. QED
  BY <1>4, <1>6, <1>7 DEF a, b

\* So the lines of both parts are lines of the whole.
LEMMA LinesOfConcat ==
  ASSUME NEW S, NEW p \in Seq(S), NEW u \in Seq(S), u # << >>,
         p = << >> \/ p[Len(p)] = "newline"
  PROVE  /\ \A e \in Ends(p) : LineTo(p \o u, e) = LineTo(p, e)
         /\ \A e \in Ends(u) : LineTo(p \o u, Len(p) + e) = LineTo(u, e)
<1> DEFINE q == p \o u
           n == Len(p)
           m == Len(u)
<1>1. /\ Ends(q) = Ends(p) \cup {n + e : e \in Ends(u)}
      /\ q \in Seq(S) /\ Len(q) = n + m
      /\ \A e \in Ends(p) : q[e] = p[e]
      /\ \A e \in Ends(u) : q[n + e] = u[e]
      /\ p # << >> => n \in Ends(p)
  BY EndsOfConcat
<1>2. /\ n \in Nat /\ Ends(p) \subseteq 1..n /\ Ends(p) \subseteq Nat
      /\ m \in Nat /\ Ends(u) \subseteq 1..m /\ Ends(u) \subseteq Nat
  BY EndsType
<1>3. /\ \A i \in 1..n, j \in 1..n : SubSeq(q, i, j) = SubSeq(p, i, j)
      /\ \A i \in (n + 1)..(n + m), j \in (n + 1)..(n + m) : SubSeq(q, i, j) = SubSeq(u, i - n, j - n)
  BY SubSeqOfConcat1, SubSeqOfConcat2
<1>4. \A x, i, j : i \in Int /\ j \in Int /\ j < i => SubSeq(x, i, j) = << >>
  BY SubSeqEmpty
<1>5. p = << >> => Ends(p) = {} /\ n = 0
  <2>1. Len(<< >>) = 0
    BY EmptySeq
  <2>2. p = << >> => n = 0
    BY <2>1
  <2> HIDE DEF n
  <2>3. QED
    BY <1>2, <2>2
<1> HIDE DEF q, n, m
<1>6. /\ \A e, d \in Ends(q) :
            d < e /\ (\A c \in Ends(q) : c < e => c <= d) => LineStart(q, e) = d + 1
      /\ \A e \in Ends(q) : (\A d \in Ends(q) : ~(d < e)) => LineStart(q, e) = 1
  BY <1>1, LineStartIs
<1>7. ASSUME NEW e \in Ends(p)  PROVE LineTo(q, e) = LineTo(p, e)
  <2>1. e \in Ends(q) /\ e \in 1..n
    BY <1>1, <1>2
  <2>2. \A c \in Ends(q) : c < e => c \in Ends(p)
    <3>1. \A c \in Ends(u) : ~(n + c < e)
      BY <1>2, <2>1
    <3>2. QED
      BY <1>1, <3>1
  <2>3. LineStart(q, e) = LineStart(p, e)
    <3>3. CASE \E b \in Ends(p) : b < e
      <4>1. PICK d \in Ends(p) : d < e /\ \A c \in Ends(p) : c < e => c <= d
        BY <3>3, LineStartIs
      <4>2. LineStart(p, e) = d + 1
        BY <4>1, LineStartIs
      <4>3. d \in Ends(q) /\ \A c \in Ends(q) : c < e => c <= d
        BY <1>1, <2>2, <4>1
      <4>4. LineStart(q, e) = d + 1
        BY <1>6, <2>1, <4>1, <4>3
      <4>5. QED
        BY <4>2, <4>4
    <3>4. CASE \A b \in Ends(p) : ~(b < e)
      <4>1. \A b \in Ends(q) : ~(b < e)
        BY <2>2, <3>4
      <4>2. LineStart(q, e) = 1
        BY <1>6, <2>1, <4>1
      <4>3. LineStart(p, e) = 1
        BY <3>4, LineStartIs
      <4>4. QED
        BY <4>2, <4>3
    <3>5. QED
      BY <3>3, <3>4
  <2> DEFINE a == LineStart(p, e)
             b == IF p[e] = "newline" THEN e - 1 ELSE e
  <2>5. LineStart(q, e) = a /\ a \in 1..e
    <3>1. LineStart(q, e) = LineStart(p, e)
      BY <2>3
    <3>2. LineStart(p, e) \in 1..e
      BY LineStartIs
    <3>3. QED
      BY <3>1, <3>2
  <2>6. LineTo(q, e) = SubSeq(q, a, b) /\ LineTo(p, e) = SubSeq(p, a, b)
    BY <1>1, <2>5 DEF LineTo
  <2> HIDE DEF a
  <2>7. a \in 1..n /\ b \in Int /\ b <= n
    BY <1>2, <2>1, <2>5
  <2> HIDE DEF b
  <2>8. CASE a <= b
    <3>1. b \in 1..n
      BY <2>7, <2>8
    <3>2. QED
      BY <1>3, <2>6, <2>7, <3>1
  <2>9. CASE ~(a <= b)
    <3>1. a \in Int /\ b \in Int /\ b < a
      BY <2>7, <2>9
    <3>2. SubSeq(q, a, b) = << >> /\ SubSeq(p, a, b) = << >>
      BY <1>4, <3>1
    <3>3. QED
      BY <2>6, <3>2
  <2>10. QED
    BY <2>8, <2>9
<1>8. ASSUME NEW e \in Ends(u)  PROVE LineTo(q, n + e) = LineTo(u, e)
  <2>1. n + e \in Ends(q) /\ e \in 1..m /\ e \in Nat
    BY <1>1, <1>2
  <2>2. LineStart(q, n + e) = n + LineStart(u, e)
    <3>2. CASE \E b \in Ends(u) : b < e
      <4>1. PICK d \in Ends(u) : d < e /\ \A c \in Ends(u) : c < e => c <= d
        BY <3>2, LineStartIs
      <4>2. LineStart(u, e) = d + 1
        BY <4>1, LineStartIs
      <4>3. n + d \in Ends(q) /\ d \in Nat /\ n + d < n + e
        BY <1>1, <1>2, <2>1, <4>1
      <4>4. \A c \in Ends(p) : c <= n + d
        BY <1>2, <4>3
      <4>5. \A c \in Ends(u) : n + c < n + e => n + c <= n + d
        BY <1>2, <2>1, <4>1, <4>3
      <4>6. \A c \in Ends(q) : c < n + e => c <= n + d
        BY <1>1, <4>4, <4>5
      <4>7. LineStart(q, n + e) = n + d + 1
        BY <1>6, <2>1, <4>3, <4>6
      <4>8. QED
        BY <1>2, <4>2, <4>3, <4>7
    <3>3. CASE \A b \in Ends(u) : ~(b < e)
      <4>1. LineStart(u, e) = 1
        BY <3>3, LineStartIs
      <4>2. \A c \in Ends(u) : ~(n + c < n + e)
        BY <1>2, <2>1, <3>3
      <4>3. CASE p = << >>
        <5>1. \A c \in Ends(q) : ~(c < n + e)
          BY <1>1, <1>5, <4>2, <4>3
        <5>2. LineStart(q, n + e) = 1
          BY <1>6, <2>1, <5>1
        <5>3. QED
          BY <1>5, <4>1, <4>3, <5>2
      <4>4. CASE p # << >>
        <5>1. n \in Ends(q) /\ n < n + e
          BY <1>1, <1>2, <2>1, <4>4
        <5>2. \A c \in Ends(p) : c <= n
          BY <1>2
        <5>3. \A c \in Ends(q) : c < n + e => c <= n
          BY <1>1, <4>2, <5>2
        <5>4. LineStart(q, n + e) = n + 1
          BY <1>6, <2>1, <5>1, <5>3
        <5>5. QED
          BY <4>1, <5>4
      <4>5. QED
        BY <4>3, <4>4
    <3>4. QED
      BY <3>2, <3>3
  <2> DEFINE a == LineStart(u, e)
             b == IF u[e] = "newline" THEN e - 1 ELSE e
  <2>4. LineStart(q, n + e) = n + a /\ a \in 1..e
    <3>1. LineStart(q, n + e) = n + LineStart(u, e)
      BY <2>2
    <3>2. LineStart(u, e) \in 1..e
      BY LineStartIs
    <3>3. QED
      BY <3>1, <3>2
  <2>5. LineTo(u, e) = SubSeq(u, a, b)
    BY DEF LineTo
  <2>6. LineTo(q, n + e) = SubSeq(q, n + a, n + b)
    <3> DEFINE f == n + e
               z == IF q[f] = "newline" THEN f - 1 ELSE f
    <3>1. q[f] = u[e]
      BY <1>1
    <3>2. LineStart(q, f) = n + a
      BY <2>4
    <3>3. f = n + e /\ f - 1 = n + (e - 1)
      BY <1>2, <2>1
    <3> HIDE DEF a, f
    <3>4. z = n + b
      BY <3>1, <3>3
    <3> HIDE DEF b
    <3>5. LineTo(q, f) = SubSeq(q, LineStart(q, f), z)
      BY DEF LineTo
    <3> HIDE DEF z
    <3>6. LineTo(q, f) = SubSeq(q, n + a, n + b)
      BY <3>2, <3>4, <3>5
    <3>7. QED
      BY <3>6 DEF f
  <2> HIDE DEF a
  <2>8. a \in 1..m /\ b \in Int /\ b <= m
    BY <1>2, <2>1, <2>4
  <2> HIDE DEF b
  <2>9. CASE a <= b
    <3>1. n + a \in (n + 1)..(n + m) /\ n + b \in (n + 1)..(n + m) /\ n + a - n = a /\ n + b - n = b
      BY <1>2, <2>8, <2>9
    <3> DEFINE k == n + a
               l == n + b
    <3>2. k - n = a /\ l - n = b
      BY <1>2, <2>8
    <3>3. k \in (n + 1)..(n + m) /\ l \in (n + 1)..(n + m)
      BY <3>1
    <3> HIDE DEF k, l
    <3>4. SubSeq(q, k, l) = SubSeq(u, k - n, l - n)
      BY <1>3, <3>3
    <3>5. QED
      BY <2>5, <2>6, <3>2, <3>4 DEF k, l
  <2>10. CASE ~(a <= b)
    <3>1. a \in Int /\ b \in Int /\ b < a /\ n + a \in Int /\ n + b \in Int /\ n + b < n + a
      BY <1>2, <2>8, <2>10
    <3>2. SubSeq(q, n + a, n + b) = << >> /\ SubSeq(u, a, b) = << >>
      BY <1>4, <3>1
    <3>3. QED
      BY <2>5, <2>6, <3>2
  <2>11. QED
    BY <2>9, <2>10
<1>9. QED
  BY <1>7, <1>8 DEF q, n

\* Typing one line more leaves the others alone.
LEMMA LinesAppended ==
  ASSUME NEW S, NEW p \in Seq(S), NEW t \in Seq(S), t # << >>, Ends(t) = {Len(t)},
         p = << >> \/ p[Len(p)] = "newline"
  PROVE  /\ Len(LinesOf(p)) \in Nat
         /\ Len(LinesOf(p \o t)) = Len(LinesOf(p)) + 1
         /\ \A i \in 1..Len(LinesOf(p)) : LinesOf(p \o t)[i] = LinesOf(p)[i]
         /\ LinesOf(p \o t)[Len(LinesOf(p)) + 1] = LineTo(t, Len(t))
<1> DEFINE q == p \o t
           n == Len(p)
           l == n + Len(t)
           E == Ends(p)
           F == Ends(q)
           C == Cardinality(E)
<1>1. q \in Seq(S) /\ F = E \cup {n + e : e \in Ends(t)} /\ Len(q) = l
  BY EndsOfConcat
<1>2. /\ \A e \in E : LineTo(q, e) = LineTo(p, e)
      /\ \A e \in Ends(t) : LineTo(q, n + e) = LineTo(t, e)
  BY LinesOfConcat
<1>3. LineTo(q, l) = LineTo(t, Len(t)) /\ F = E \cup {l}
  BY <1>1, <1>2
<1>4. n \in Nat /\ Len(t) \in Nat /\ E \subseteq 1..n /\ E \subseteq Nat /\ IsFiniteSet(E)
  BY EndsType
<1>5. Len(t) # 0
  BY EmptySeq
<1>6. l \in Nat /\ l > n
  BY <1>4, <1>5
<1>7. /\ Len(LinesOf(p)) = C
      /\ \A e \in E : LinesOf(p)[Rank(E, e)] = LineTo(p, e)
      /\ \A i \in 1..C : \E e \in E : Rank(E, e) = i
  BY LinesByEnd
<1>8. /\ Len(LinesOf(q)) = Cardinality(F)
      /\ \A e \in F : LinesOf(q)[Rank(F, e)] = LineTo(q, e)
  BY <1>1, LinesByEnd
<1> HIDE DEF E, F, n, l, q
<1>9. l \notin E
  BY <1>4, <1>6
<1>10. C \in Nat /\ Cardinality(F) = C + 1
  BY <1>3, <1>4, <1>9, FS_CardinalityType, FS_AddElement
<1>11. ASSUME NEW e \in E  PROVE Rank(F, e) = Rank(E, e)
  <2>1. ~(l <= e)
    BY <1>4, <1>6
  <2>2. {d \in F : d <= e} = {d \in E : d <= e}
    BY <1>3, <2>1
  <2>3. QED
    BY <2>2 DEF Rank
<1>12. Rank(F, l) = C + 1
  <2>1. \A d \in F : d <= l
    BY <1>3, <1>4, <1>6
  <2>2. {d \in F : d <= l} = F
    BY <2>1
  <2>3. QED
    BY <1>10, <2>2 DEF Rank
<1>13. ASSUME NEW i \in 1..C  PROVE LinesOf(q)[i] = LinesOf(p)[i]
  <2>1. PICK e \in E : Rank(E, e) = i
    BY <1>7
  <2>2. LinesOf(p)[i] = LineTo(p, e)
    BY <1>7, <2>1
  <2>3. e \in F /\ Rank(F, e) = i
    BY <1>3, <1>11, <2>1
  <2>4. LinesOf(q)[i] = LineTo(q, e)
    BY <1>8, <2>3
  <2>5. QED
    BY <1>2, <2>2, <2>4
<1>14. LinesOf(q)[C + 1] = LineTo(t, Len(t))
  BY <1>3, <1>8, <1>12
<1>15. QED
  BY <1>7, <1>8, <1>10, <1>13, <1>14 DEF q

\* Each line of s fits the buffer.
Short(s) == \A e \in Ends(s) : Len(LineTo(s, e)) < LineSize - 1

\* The lines that fit, by where they end.
LEMMA ShortLines ==
  ASSUME NEW S, NEW s \in Seq(S)
  PROVE  Short(s) <=> \A i \in DOMAIN LinesOf(s) : Len(LinesOf(s)[i]) < LineSize - 1
<1> DEFINE E == Ends(s)
<1>1. /\ DOMAIN LinesOf(s) = 1..Cardinality(E)
      /\ \A e \in E : Rank(E, e) \in 1..Cardinality(E) /\ LinesOf(s)[Rank(E, e)] = LineTo(s, e)
      /\ \A n \in 1..Cardinality(E) : \E e \in E : Rank(E, e) = n
  BY LinesByEnd
<1>2. ASSUME Short(s), NEW i \in DOMAIN LinesOf(s)
      PROVE  Len(LinesOf(s)[i]) < LineSize - 1
  <2>1. PICK e \in E : Rank(E, e) = i
    BY <1>1, <1>2
  <2>2. Len(LineTo(s, e)) < LineSize - 1
    BY <1>2 DEF Short
  <2>3. QED
    BY <1>1, <2>1, <2>2
<1>3. ASSUME \A i \in DOMAIN LinesOf(s) : Len(LinesOf(s)[i]) < LineSize - 1
      PROVE  Short(s)
  <2> SUFFICES ASSUME NEW e \in Ends(s)  PROVE Len(LineTo(s, e)) < LineSize - 1
    BY DEF Short
  <2>1. QED
    BY <1>1, <1>3
<1>4. QED
  BY <1>2, <1>3

\* fgets takes the first line of what is left, and its end, if the line fits.
LEMMA TakenLine ==
  ASSUME NEW S, NEW u \in Seq(S), u # << >>, Short(u)
  PROVE  LET n == Taken(u)
             t == SubSeq(u, 1, n)
         IN  /\ n \in 1..Len(u) /\ (u[n] = "newline" \/ n = Len(u))
             /\ t \in Seq(S) /\ t # << >> /\ Len(t) = n /\ Ends(t) = {n}
             /\ LineTo(t, n) = Line(t) /\ Line(t) \in Seq(S) /\ Len(Line(t)) < LineSize - 1
<1> DEFINE n == Taken(u)
           t == SubSeq(u, 1, n)
           m == Len(u)
           B == LineSize - 1
           ends == {i \in 1..m : u[i] = "newline" \/ i = B \/ i = m}
<1>1. m \in Nat /\ m # 0 /\ Ends(u) \subseteq 1..m /\ Ends(u) \subseteq Nat /\ m \in Ends(u)
  BY EndsType, EmptySeq
<1>2. PICK f \in Ends(u) : \A d \in Ends(u) : f <= d
  BY <1>1, LeastExists
<1>3. LineStart(u, f) = 1
  <2>1. \A d \in Ends(u) : ~(d < f)
    BY <1>1, <1>2
  <2>2. QED
    BY <2>1, LineStartIs
<1>4. Len(LineTo(u, f)) = (IF u[f] = "newline" THEN f - 1 ELSE f) + 1 - 1
  BY <1>3, LineToType
<1>5. Len(LineTo(u, f)) < B
  BY DEF Short
<1>6. B \in Int
  BY SizesAssumption
<1>7. f \in Nat /\ f \in 1..m /\ (u[f] = "newline" \/ f = m)
  BY <1>1 DEF Ends
<1> HIDE DEF B
<1>8. f <= B
  BY <1>4, <1>5, <1>6, <1>7
<1>9. n = CHOOSE i \in ends : \A k \in ends : i <= k
  BY DEF Taken, B
<1> HIDE DEF n, m
<1>10. f \in ends /\ \A k \in ends : f <= k
  <2>1. f \in ends
    BY <1>7
  <2>2. \A k \in ends : k \in Ends(u) \/ k = B
    BY DEF Ends, m
  <2>3. QED
    BY <1>2, <1>8, <2>1, <2>2
<1>11. n = f
  <2>1. \A i \in ends : (\A k \in ends : i <= k) => i <= f
    BY <1>10
  <2>2. \A i \in ends : (\A k \in ends : i <= k) => i = f
    <3>1. \A i \in ends : f <= i /\ i \in Nat
      BY <1>1, <1>10
    <3> HIDE DEF ends
    <3>2. QED
      BY <1>7, <2>1, <3>1
  <2> HIDE DEF ends
  <2>3. QED
    BY <1>9, <1>10, <2>2
<1>12. /\ t \in Seq(S) /\ Len(t) = n /\ n \in Nat /\ n \in 1..m /\ t # << >>
       /\ \A i \in 1..n : t[i] = u[i]
  <2>1. n \in Nat /\ n \in 1..m /\ 1 <= n
    BY <1>1, <1>7, <1>11
  <2>2. \A i \in 1..m : u[i] \in S
    BY ElementOfSeq DEF m
  <2>3. \A i \in 1..n : u[i] \in S
    BY <1>1, <2>1, <2>2
  <2>4. /\ t \in Seq(S) /\ Len(t) = IF 1 <= n THEN n - 1 + 1 ELSE 0
        /\ \A i \in 1..(n - 1 + 1) : t[i] = u[1 + i - 1]
    BY <2>1, <2>3, SubSeqProperties
  <2> HIDE DEF t
  <2>5. Len(t) = n /\ n # 0
    BY <2>1, <2>4
  <2>6. \A i \in 1..n : t[i] = u[i]
    <3> SUFFICES ASSUME NEW i \in 1..n  PROVE t[i] = u[i]
      OBVIOUS
    <3>1. i \in 1..(n - 1 + 1) /\ 1 + i - 1 = i
      BY <2>1
    <3>2. QED
      BY <2>4, <3>1
  <2>7. t # << >>
    <3>1. Len(<< >>) = 0
      BY EmptySeq
    <3>2. QED
      BY <2>5, <3>1
  <2>8. QED
    BY <2>1, <2>4, <2>5, <2>6, <2>7
<1> HIDE DEF t
<1>13. Ends(t) = {n}
  <2>1. ASSUME NEW i \in 1..n, t[i] = "newline"  PROVE i = n
    <3>1. u[i] = "newline" /\ i \in 1..m
      BY <1>1, <1>12, <2>1
    <3>2. i \in Ends(u)
      BY <3>1 DEF Ends, m
    <3>3. n <= i
      BY <1>2, <1>11, <3>2
    <3>4. QED
      BY <1>12, <3>3
  <2>2. n \in 1..n
    BY <1>12
  <2>3. Ends(t) = {i \in 1..n : t[i] = "newline" \/ i = n}
    BY <1>12 DEF Ends
  <2>4. QED
    BY <2>1, <2>2, <2>3
<1>14. LineStart(t, n) = 1
  <2>1. \A d \in Ends(t) : ~(d < n)
    BY <1>12, <1>13
  <2>2. QED
    BY <1>12, <1>13, <2>1, LineStartIs
<1>15. LineTo(t, n) = SubSeq(t, 1, IF t[n] = "newline" THEN n - 1 ELSE n)
  BY <1>14 DEF LineTo
<1>16. LineTo(t, n) = Line(t)
  <2>1. SubSeq(t, 1, n) = t
    BY <1>12, SubSeqFull
  <2>2. CASE t[n] = "newline"
    BY <1>12, <1>15, <2>2 DEF Line
  <2>3. CASE t[n] # "newline"
    BY <1>12, <1>15, <2>1, <2>3 DEF Line
  <2>4. QED
    BY <2>2, <2>3
<1>17. /\ LineTo(t, n) \in Seq(S)
       /\ Len(LineTo(t, n)) = (IF t[n] = "newline" THEN n - 1 ELSE n) + 1 - LineStart(t, n)
  BY <1>12, <1>13, LineToType
<1>18. t[n] = u[n]
  BY <1>12
<1>19. Len(LineTo(t, n)) < B
  BY <1>4, <1>5, <1>11, <1>14, <1>17, <1>18
<1>20. u[n] = "newline" \/ n = m
  BY <1>7, <1>11
<1>21. QED
  BY <1>12, <1>13, <1>16, <1>17, <1>19, <1>20 DEF n, t, m, B

\* What is left behind the first line is still a text whose lines fit.
LEMMA RestShort ==
  ASSUME NEW S, NEW t \in Seq(S), NEW r \in Seq(S), Short(t \o r),
         t # << >> /\ t[Len(t)] = "newline", r # << >>
  PROVE  Short(r)
<1> SUFFICES ASSUME NEW e \in Ends(r)  PROVE Len(LineTo(r, e)) < LineSize - 1
  BY DEF Short
<1>1. LineTo(t \o r, Len(t) + e) = LineTo(r, e)
  BY LinesOfConcat
<1>2. Len(t) + e \in Ends(t \o r)
  BY EndsOfConcat
<1>3. QED
  BY <1>1, <1>2 DEF Short

\* What fgets takes and what it leaves make up what there was, whatever its size.
LEMMA TakenType ==
  ASSUME NEW S, NEW u \in Seq(S), u # << >>
  PROVE  /\ Taken(u) \in 1..Len(u) /\ Len(u) \in Nat
         /\ SubSeq(u, 1, Taken(u)) \in Seq(S) /\ SubSeq(u, Taken(u) + 1, Len(u)) \in Seq(S)
         /\ SubSeq(u, 1, Taken(u)) \o SubSeq(u, Taken(u) + 1, Len(u)) = u
         /\ Taken(u) = Len(u) => SubSeq(u, Taken(u) + 1, Len(u)) = << >>
<1> DEFINE m == Len(u)
           n == Taken(u)
           ends == {i \in 1..m : u[i] = "newline" \/ i = LineSize - 1 \/ i = m}
<1>1. m \in Nat /\ m # 0
  BY EmptySeq
<1>2. n = CHOOSE i \in ends : \A k \in ends : i <= k
  BY DEF Taken
<1> HIDE DEF n
<1>3. ends \subseteq Nat /\ ends \subseteq 1..m /\ m \in ends
  BY <1>1
<1>4. n \in ends
  <2> HIDE DEF ends
  <2>1. \E i \in ends : \A k \in ends : i <= k
    <3>1. ends # {}
      BY <1>3
    <3>2. QED
      BY <1>3, <3>1, LeastExists
  <2>2. QED
    BY <1>2, <2>1
<1>5. n \in 1..m /\ n \in Nat
  BY <1>1, <1>3, <1>4
<1>6. \A i \in 1..m : u[i] \in S
  BY ElementOfSeq
<1>7. SubSeq(u, 1, n) \in Seq(S)
  <2>1. \A i \in 1..n : u[i] \in S
    BY <1>1, <1>5, <1>6
  <2>2. QED
    BY <1>5, <2>1, SubSeqProperties
<1>8. SubSeq(u, n + 1, m) \in Seq(S)
  <2>1. \A i \in (n + 1)..m : u[i] \in S
    BY <1>1, <1>5, <1>6
  <2> HIDE DEF m
  <2>2. n + 1 \in Int /\ m \in Int
    BY <1>1, <1>5
  <2>3. QED
    BY <2>1, <2>2, SubSeqProperties
<1>9. SubSeq(u, 1, n) \o SubSeq(u, n + 1, m) = u
  <2>1. 1 \in 1..(m + 1) /\ n \in (1 - 1)..m /\ m \in n..m
    BY <1>1, <1>5
  <2>2. SubSeq(u, 1, n) \o SubSeq(u, n + 1, m) = SubSeq(u, 1, m)
    BY <2>1, ConcatAdjacentSubSeq
  <2>3. QED
    BY <2>2, SubSeqFull
<1>10. n = m => SubSeq(u, n + 1, m) = << >>
  <2> HIDE DEF m
  <2>1. n = m => n + 1 \in Int /\ m \in Int /\ m < n + 1
    BY <1>5
  <2>2. QED
    BY <2>1, SubSeqEmpty
<1>11. QED
  BY <1>1, <1>5, <1>7, <1>8, <1>9, <1>10 DEF n

\* While something is left to be typed in, what has been ends with a line, and each
\* of its lines has been evaluated.
ReplInv ==
  /\ typed \in Seq(Chars) /\ input \in Seq(Chars)
  /\ Short(typed \o input) =>
       /\ typed = << >> \/ typed[Len(typed)] = "newline" \/ input = << >>
       /\ lines \in Seq(Seq(Chars)) /\ Len(lines) = Len(LinesOf(typed))
       /\ \A i \in 1..Len(lines) : lines[i] = LinesOf(typed)[i]

\* Nothing has been typed in at first.
LEMMA ReplInvInit == ListInit => ReplInv
<1> SUFFICES ASSUME ListInit  PROVE ReplInv
  OBVIOUS
<1>1. typed = << >> /\ lines = << >>
  BY DEF ListInit
<1>2. typed \in Seq(Chars) /\ lines \in Seq(Seq(Chars)) /\ Len(lines) = 0
  BY <1>1, EmptySeq
<1>3. input \in Seq(Chars)
  <2>1. CASE input = << >>
    BY <2>1, EmptySeq
  <2>2. CASE input \in Inputs
    BY <2>2, InputsAssumption
  <2>3. QED
    BY <2>1, <2>2 DEF ListInit
<1>4. Len(LinesOf(typed)) = 0
  <2>1. Len(typed) = 0
    BY <1>1, EmptySeq
  <2>2. Ends(typed) = {}
    <3>1. Ends(typed) \subseteq 1..Len(typed)
      BY <1>2, EndsType
    <3>2. QED
      BY <2>1, <3>1
  <2>3. Len(LinesOf(typed)) = Cardinality({})
    BY <1>2, <2>2, LinesByEnd
  <2>4. QED
    BY <2>3, FS_EmptySet
<1>5. 1..Len(lines) = {}
  BY <1>2
<1>6. QED
  BY <1>1, <1>2, <1>3, <1>4, <1>5 DEF ReplInv

\* A line is taken from what is left, and answered.
LEMMA EvalLineKeeps == ReplInv /\ EvalLine => ReplInv'
<1> SUFFICES ASSUME ReplInv, EvalLine  PROVE ReplInv'
  OBVIOUS
<1> DEFINE n == Taken(input)
           t == SubSeq(input, 1, n)
           r == SubSeq(input, n + 1, Len(input))
           x == Line(t)
<1>1. /\ typed' = typed \o t /\ input' = r /\ lines' = Append(lines, x) /\ input # << >>
  BY DEF EvalLine, debug_expr_eval
<1>2. typed \in Seq(Chars) /\ input \in Seq(Chars)
  BY DEF ReplInv
<1>3. /\ n \in 1..Len(input) /\ Len(input) \in Nat /\ t \in Seq(Chars) /\ r \in Seq(Chars)
      /\ t \o r = input /\ (n = Len(input) => r = << >>)
  BY <1>1, <1>2, TakenType
<1> HIDE DEF n, t, r, x
<1>4. typed' \in Seq(Chars) /\ input' \in Seq(Chars)
  BY <1>1, <1>2, <1>3, ConcatProperties
<1>5. typed' \o input' = typed \o input
  <2>1. \A a, b, c \in Seq(Chars) : (a \o b) \o c = a \o (b \o c)
    BY ConcatAssociative
  <2>2. (typed \o t) \o r = typed \o (t \o r)
    BY <1>2, <1>3, <2>1
  <2>3. QED
    BY <1>1, <1>3, <2>2
<1>6. ASSUME Short(typed \o input)
      PROVE  /\ typed' = << >> \/ typed'[Len(typed')] = "newline" \/ input' = << >>
             /\ lines' \in Seq(Seq(Chars)) /\ Len(lines') = Len(LinesOf(typed'))
             /\ \A i \in 1..Len(lines') : lines'[i] = LinesOf(typed')[i]
  <2>1. /\ typed = << >> \/ typed[Len(typed)] = "newline"
        /\ lines \in Seq(Seq(Chars)) /\ Len(lines) = Len(LinesOf(typed))
        /\ \A i \in 1..Len(lines) : lines[i] = LinesOf(typed)[i]
    BY <1>1, <1>6 DEF ReplInv
  <2>2. Short(input)
    <3>1. CASE typed = << >>
      <4>1. typed \o input = input
        BY <1>2, <3>1, ConcatEmptySeq
      <4>2. QED
        BY <1>6, <4>1
    <3>2. CASE typed # << >>
      <4>1. typed[Len(typed)] = "newline"
        BY <2>1, <3>2
      <4>2. QED
        BY <1>1, <1>2, <1>6, <3>2, <4>1, RestShort
    <3>3. QED
      BY <3>1, <3>2
  <2>3. /\ input[n] = "newline" \/ n = Len(input)
        /\ t # << >> /\ Len(t) = n /\ Ends(t) = {n}
        /\ LineTo(t, n) = Line(t) /\ Line(t) \in Seq(Chars) /\ Len(Line(t)) < LineSize - 1
    BY <1>1, <1>2, <2>2, TakenLine DEF n, t
  <2>4. x = Line(t) /\ x \in Seq(Chars)
    BY <2>3 DEF x
  <2> DEFINE C == Len(LinesOf(typed))
  <2>5. /\ C \in Nat /\ Len(LinesOf(typed')) = C + 1
        /\ \A i \in 1..C : LinesOf(typed')[i] = LinesOf(typed)[i]
        /\ LinesOf(typed')[C + 1] = Line(t)
    <3>1. Len(t) = n /\ Ends(t) = {Len(t)} /\ LineTo(t, Len(t)) = Line(t)
      BY <2>3
    <3>2. /\ Len(LinesOf(typed)) \in Nat
          /\ Len(LinesOf(typed \o t)) = Len(LinesOf(typed)) + 1
          /\ \A i \in 1..Len(LinesOf(typed)) : LinesOf(typed \o t)[i] = LinesOf(typed)[i]
          /\ LinesOf(typed \o t)[Len(LinesOf(typed)) + 1] = LineTo(t, Len(t))
      BY <1>2, <1>3, <2>1, <2>3, <3>1, LinesAppended
    <3>3. QED
      BY <1>1, <3>1, <3>2
  <2>6. /\ lines' \in Seq(Seq(Chars)) /\ Len(lines') = C + 1
        /\ \A i \in 1..C : lines'[i] = lines[i]
        /\ lines'[C + 1] = x
    BY <1>1, <2>1, <2>4, AppendProperties
  <2>7. \A i \in 1..(C + 1) : lines'[i] = LinesOf(typed')[i]
    <3> HIDE DEF C
    <3> SUFFICES ASSUME NEW i \in 1..(C + 1)  PROVE lines'[i] = LinesOf(typed')[i]
      OBVIOUS
    <3>1. CASE i = C + 1
      BY <2>4, <2>5, <2>6, <3>1
    <3>2. CASE i # C + 1
      <4>1. i \in 1..C
        BY <2>5, <3>2
      <4>2. i \in 1..Len(lines)
        BY <2>1, <4>1 DEF C
      <4>3. QED
        BY <2>1, <2>5, <2>6, <4>1, <4>2
    <3>3. QED
      BY <3>1, <3>2
  <2>8. typed' = << >> \/ typed'[Len(typed')] = "newline" \/ input' = << >>
    <3>1. CASE input[n] = "newline"
      <4>1. typed'[Len(typed) + n] = t[n] /\ Len(typed') = Len(typed) + n
        <5>1. \A e \in Ends(t) : (typed \o t)[Len(typed) + e] = t[e]
          BY <1>2, <1>3, <2>1, <2>3, EndsOfConcat
        <5>2. Len(typed \o t) = Len(typed) + Len(t)
          BY <1>2, <1>3, ConcatProperties
        <5>3. QED
          BY <1>1, <2>3, <5>1, <5>2
      <4>2. t[n] = "newline"
        <5>1. \A i \in 1..Len(input) : input[i] \in Chars
          BY <1>2, ElementOfSeq
        <5>2. 1 \in Int /\ n \in Int /\ n \in 1..(n - 1 + 1) /\ 1 + n - 1 = n
          BY <1>3
        <5>3. \A i \in 1..n : input[i] \in Chars
          BY <1>3, <5>1
        <5>4. \A i \in 1..(n - 1 + 1) : SubSeq(input, 1, n)[i] = input[1 + i - 1]
          BY <5>2, <5>3, SubSeqProperties
        <5>5. t[n] = input[1 + n - 1]
          BY <5>2, <5>4 DEF t
        <5>6. QED
          BY <3>1, <5>2, <5>5
      <4>3. QED
        BY <4>1, <4>2
    <3>2. CASE n = Len(input)
      BY <1>1, <1>3, <3>2
    <3>3. QED
      BY <2>3, <3>1, <3>2
  <2>9. QED
    BY <2>5, <2>6, <2>7, <2>8
<1>7. QED
  BY <1>4, <1>5, <1>6 DEF ReplInv

\* Only the REPL touches the lines.
LEMMA ReplInvNext == ReplInv /\ [ListNext]_vars => ReplInv'
<1> SUFFICES ASSUME ReplInv, [ListNext]_vars  PROVE ReplInv'
  OBVIOUS
<1>1. UNCHANGED repl => ReplInv'
  BY DEF repl, ReplInv
<1>2. CASE ParseScript
  BY <1>1, <1>2 DEF ParseScript
<1>3. CASE ShowArg
  BY <1>1, <1>3 DEF ShowArg
<1>4. CASE ShowCommand
  BY <1>1, <1>4 DEF ShowCommand
<1>5. CASE FreeListed
  BY <1>1, <1>5 DEF FreeListed
<1>6. CASE EvalLine
  BY <1>6, EvalLineKeeps
<1>7. CASE UNCHANGED vars
  BY <1>1, <1>7 DEF vars
<1>8. QED
  BY <1>2, <1>3, <1>4, <1>5, <1>6, <1>7 DEF ListNext

\* ReplInv is ReplReads, said of where the lines end.
LEMMA ReplInvReads == ReplInv => ReplReads
<1> SUFFICES ASSUME ReplInv,
                    \A i \in DOMAIN LinesOf(typed \o input) :
                       Len(LinesOf(typed \o input)[i]) < LineSize - 1
             PROVE  lines = LinesOf(typed)
  BY DEF ReplReads
<1>1. typed \in Seq(Chars) /\ input \in Seq(Chars)
  BY DEF ReplInv
<1>2. typed \o input \in Seq(Chars)
  BY <1>1, ConcatProperties
<1>3. Short(typed \o input)
  BY <1>2, ShortLines
<1>4. /\ lines \in Seq(Seq(Chars)) /\ Len(lines) = Len(LinesOf(typed))
      /\ \A i \in 1..Len(lines) : lines[i] = LinesOf(typed)[i]
  BY <1>3 DEF ReplInv
<1> DEFINE C == Cardinality(Ends(typed))
<1>5. DOMAIN LinesOf(typed) = 1..C /\ Len(LinesOf(typed)) = C
  BY <1>1, LinesByEnd
<1>6. lines \in [1..C -> Seq(Chars)]
  BY <1>4, <1>5, LenProperties
<1>7. LinesOf(typed) = [i \in 1..C |-> LinesOf(typed)[i]]
  BY <1>1, LinesByEnd
<1>8. lines = [i \in 1..C |-> lines[i]]
  BY <1>6
<1> HIDE DEF C
<1>9. \A i \in 1..C : lines[i] = LinesOf(typed)[i]
  BY <1>4, <1>5
<1>10. [i \in 1..C |-> lines[i]] = [i \in 1..C |-> LinesOf(typed)[i]]
  BY <1>9
<1>11. QED
  BY <1>7, <1>8, <1>10

\* The REPL evaluates each line that fits as it was typed in, and nothing else.
THEOREM LinesAnswered == ListSpec => []ReplReads
<1>1. ListInit => ReplInv
  BY ReplInvInit
<1>2. ReplInv /\ [ListNext]_vars => ReplInv'
  BY ReplInvNext
<1>3. ReplInv => ReplReads
  BY ReplInvReads
<1>4. QED
  BY <1>1, <1>2, <1>3, PTL DEF ListSpec
==============================================================================
