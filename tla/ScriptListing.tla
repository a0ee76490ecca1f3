---------------------------- MODULE ScriptListing ----------------------------
(***************************************************************************)
(* The tools of src/src/debug.c that evaluate expressions: debug_show_yst, *)
(* which lists a script parse_yst has read before main frees it, and       *)
(* debug_expr_repl, which evaluates lines typed in with debug_expr_eval.   *)
(* main runs one of them.                                                  *)
(*                                                                         *)
(* eval_expr is any of its outcomes, see ExprVM.  How debug_expr_eval reads *)
(* the bytes of a line with strtoul is left out: it refuses a line or      *)
(* evaluates it.                                                           *)
(***************************************************************************)
EXTENDS ScriptReader

CONSTANTS
  HexSize,   \* sizeof(hex), 8192 in the source
  LineSize,  \* sizeof(input), 2048
  Chars,     \* the characters that can be typed in, "newline" among them
  EXIT,      \* the line that ends the REPL
  Inputs     \* what may be typed in

\* hex has room for "(null)".
ASSUME SizesAssumption == /\ HexSize \in Nat /\ HexSize > 6
                          /\ LineSize \in Nat \ {0}
ASSUME InputsAssumption == Inputs \subseteq Seq(Chars)

VARIABLES
  tool,    \* "script" or "repl"
  at,      \* the command and the argument the listing has come to
  hex,     \* the static buffer: how many characters precede its NUL, and how
           \* many bytes they were to show
  listed,  \* the arguments listed, in order
  held,    \* results with a block that has not been freed
  input,   \* what is still to be typed in
  typed,   \* what has been
  lines    \* the lines given to debug_expr_eval

listing == <<at, hex, listed>>
repl == <<input, typed, lines>>
vars == <<readerVars, tool, listing, held, repl>>

------------------------------------------------------------------------------
\* The results of eval_expr: a string, of no characters or of some; its pointer is
\* NULL if memory has run out.  An error or a number owns no block either.
Results == [len : {0, 1}, ptr : {"NULL", "block"}]

\* Mutant: an empty string has nothing to free.
FreesIfLong(r) == r.len > 0 /\ r.ptr = "block"

Frees(r) == r.ptr = "block"

\* A result is printed and its string freed.
Show(r) == held' = IF r.ptr = "block" /\ ~Frees(r) THEN held \cup {r} ELSE held

------------------------------------------------------------------------------
\* debug_show_yst

\* Mutant: bytes are printed as long as the buffer has room for one.
RoomToTheEnd(pos) == pos < HexSize - 1

Room(pos) == pos < HexSize - 4

\* Where the loop over n bytes of three characters each stops: after the first
\* that leaves no room.
HexEnd(n) == LET full == {k \in 0..n : ~Room(3 * k)}
             IN  3 * (IF full = {} THEN n ELSE CHOOSE k \in full : \A j \in full : k <= j)

\* The buffer after an argument of n bytes: an expression that is missing is
\* "(null)", a cut one ends in "..." if it is longer than the buffer, and an
\* argument without bytes leaves what the buffer held.
HexOf(x, n) ==
  IF x \in exprs THEN [bytes |-> n, chars |-> HexEnd(n) + IF n > HexSize - 4 THEN 3 ELSE 0]
  ELSE IF n > 0 THEN [bytes |-> n, chars |-> 6]
  ELSE hex

\* The next argument: its line, and below it what its expression evaluates to.
ShowArg ==
  /\ pc = "parsed" /\ at[1] <= Len(narg) /\ at[2] <= narg[at[1]]
  /\ hex' = HexOf(at, lens[at[1]][at[2]])
  /\ \E r \in Results : (at \notin exprs => r.ptr = "NULL") /\ Show(r)
  /\ listed' = Append(listed, at) /\ at' = <<at[1], at[2] + 1>>
  /\ UNCHANGED <<readerVars, tool, repl>>

\* Mutant: the last argument is taken for the end of the command.
LastArg(c) == narg[c]

AfterLastArg(c) == narg[c] + 1

\* The next command, whose name is that of its code.
ShowCommand ==
  /\ pc = "parsed" /\ at[1] <= Len(narg) /\ at[2] >= AfterLastArg(at[1])
  /\ at' = <<at[1] + 1, 1>>
  /\ UNCHANGED <<readerVars, tool, hex, listed, held, repl>>

\* main frees the script once it has been listed, and parses the next one.
FreeListed == /\ at[1] > Len(narg) /\ free_yst
              /\ at' = <<1, 1>> /\ listed' = << >>
              /\ UNCHANGED <<tool, hex, held, repl>>

\* main parses a script.
ParseScript == tool = "script" /\ Parse /\ UNCHANGED <<tool, listing, held, repl>>

------------------------------------------------------------------------------
\* debug_expr_repl

\* Mutant: the end of a line is left in it.
LineKept(s) == s

\* A line without the end that fgets leaves in it.
Line(s) == IF s # << >> /\ s[Len(s)] = "newline" THEN SubSeq(s, 1, Len(s) - 1) ELSE s

\* How much fgets takes of s: up to the end of a line, of the buffer or of the input.
Taken(s) == LET ends == {n \in 1..Len(s) : s[n] = "newline" \/ n = LineSize - 1 \/ n = Len(s)}
            IN  CHOOSE n \in ends : \A k \in ends : n <= k

\* A line is given to debug_expr_eval, which refuses it or shows its result.
debug_expr_eval(line) == /\ lines' = Append(lines, line)
                         /\ UNCHANGED held \/ \E r \in Results : Show(r)

\* The next line is read and evaluated, unless it ends the REPL.
EvalLine ==
  /\ tool = "repl" /\ input # << >>
  /\ LET n == Taken(input)
         line == Line(SubSeq(input, 1, n))
     IN  /\ line # EXIT
         /\ debug_expr_eval(line)
         /\ typed' = typed \o SubSeq(input, 1, n)
         /\ input' = SubSeq(input, n + 1, Len(input))
  /\ UNCHANGED <<readerVars, tool, listing>>

------------------------------------------------------------------------------
ListInit == /\ Init /\ at = <<1, 1>> /\ hex = [bytes |-> 0, chars |-> 0]
            /\ listed = << >> /\ held = {} /\ typed = << >> /\ lines = << >>
            /\ \/ tool = "script" /\ input = << >>
               \/ tool = "repl" /\ input \in Inputs

ListNext == ParseScript \/ ShowArg \/ ShowCommand \/ FreeListed \/ EvalLine

ListSpec == ListInit /\ [][ListNext]_vars

------------------------------------------------------------------------------
\* Properties

\* A script is freed only when each argument of each of its commands has been
\* listed once, in the order of the file.
ListedAll ==
  (pc = "parsed" /\ at[1] > Len(narg)) =>
     /\ {listed[i] : i \in DOMAIN listed} = Args(lens)
     /\ \A i, j \in DOMAIN listed :
           i < j => \/ listed[i][1] < listed[j][1]
                    \/ listed[i][1] = listed[j][1] /\ listed[i][2] < listed[j][2]

\* The text of an expression and its NUL fit into hex, unless the expression has
\* more bytes than HexSize - 4: then "..." is written behind the last byte printed,
\* for which the loop has left two characters less than it needs.
HexFits == hex.bytes <= HexSize - 4 => hex.chars < HexSize

\* A result's string is freed as soon as it has been printed, and a script once it
\* has been listed; what is not freed is what a parse that failed has left.
AllReleased == Released /\ held = {}

\* The lines of s without their ends.
LinesOf(s) ==
  LET ends == {i \in 1..Len(s) : s[i] = "newline" \/ i = Len(s)}
      from(e) == IF \E d \in ends : d < e
                 THEN 1 + CHOOSE d \in ends : d < e /\ \A c \in ends : c < e => c <= d ELSE 1
  IN  [n \in 1..Cardinality(ends) |->
         LET e == CHOOSE e \in ends : Cardinality({d \in ends : d <= e}) = n
         IN  SubSeq(s, from(e), IF s[e] = "newline" THEN e - 1 ELSE e)]

\* What is evaluated is the lines typed in, each as a whole and without its end, if
\* they fit the buffer: none is cut, joined to the next, passed over or read twice.
ReplReads ==
  (\A i \in DOMAIN LinesOf(typed \o input) : Len(LinesOf(typed \o input)[i]) < LineSize - 1) =>
     lines = LinesOf(typed)
==============================================================================
