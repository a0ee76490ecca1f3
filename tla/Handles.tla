------------------------------- MODULE Handles -------------------------------
(***************************************************************************)
(* What libyuris.h promises of the memory it returns: the caller owns it   *)
(* until it is passed to yuris_free, which frees it at once and whole, and *)
(* no two pointers that are owned share memory.                            *)
(***************************************************************************)
EXTENDS Naturals

CONSTANTS Threads, Pointers

VARIABLES
  owned,  \* from each pointer that is owned to the addresses behind it
  asked   \* per thread: the pointer it has asked to be freed, as a set

vars == <<owned, asked>>

\* A call returns p, with the memory bs behind it.
Return(t, p, bs) ==
  /\ asked[t] = {} /\ p \notin DOMAIN owned /\ p \in bs
  /\ \A q \in DOMAIN owned : owned[q] \cap bs = {}
  /\ owned' = [q \in DOMAIN owned \cup {p} |-> IF q = p THEN bs ELSE owned[q]]
  /\ UNCHANGED asked

\* yuris_free is called with p.
Ask(t, p) ==
  /\ asked[t] = {}
  /\ p \in DOMAIN owned => \A u \in Threads : asked[u] # {p}
  /\ asked' = [asked EXCEPT ![t] = {p}]
  /\ UNCHANGED owned

\* It returns; a pointer that was not owned is ignored.
Free(t) ==
  /\ asked[t] # {}
  /\ owned' = [q \in DOMAIN owned \ asked[t] |-> owned[q]]
  /\ asked' = [asked EXCEPT ![t] = {}]

Init == owned = << >> /\ asked = [t \in Threads |-> {}]

Next == \E t \in Threads :
          \/ \E p \in Pointers : \/ Ask(t, p)
                                 \/ \E q \in Pointers : Return(t, p, {p, q})
          \/ Free(t)

Spec == Init /\ [][Next]_vars
==============================================================================
