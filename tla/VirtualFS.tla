------------------------------ MODULE VirtualFS ------------------------------
(***************************************************************************)
(* What src/include/archive.h promises the player: the loaded archives are *)
(* one store of named files.  A lookup answers with some stored file of    *)
(* that name exactly when there is one; a read answers with that file's    *)
(* bytes or with nothing.  No archive slots, no index, no sorting.         *)
(*                                                                         *)
(* A stored file is [ptr, name, data]: its handle, its name and its bytes.  *)
(***************************************************************************)
EXTENDS Integers

CONSTANTS Targets,  \* what a client may look up
          Files,    \* every file that could ever be stored
          NULL

VARIABLES store,    \* the files of the loaded archives
          res       \* the last call and its answer: [op, arg, ok, ptr, data]

vars == <<store, res>>

Answer(op, arg, ok, ptr, data) ==
  res' = [op |-> op, arg |-> arg, ok |-> ok, ptr |-> ptr, data |-> data]

Named(t) == {f \in store : f.name = t}

Init == /\ store = {}
        /\ res = [op |-> "init", arg |-> NULL, ok |-> TRUE,
                  ptr |-> NULL, data |-> NULL]

\* A load adds at least one file under a handle of its own, or changes nothing.
Load == \/ /\ store' \subseteq Files
           /\ store \subseteq store' /\ store # store'
           /\ \A f \in store' \ store, g \in store : f.ptr # g.ptr
           /\ Answer("load", NULL, TRUE, NULL, NULL)
        \/ UNCHANGED store /\ Answer("load", NULL, FALSE, NULL, NULL)

Find(t) == /\ \/ Named(t) = {} /\ Answer("find", t, FALSE, NULL, NULL)
              \/ \E f \in Named(t) : Answer("find", t, TRUE, f.ptr, NULL)
           /\ UNCHANGED store

Exists(t) == Answer("exists", t, Named(t) # {}, NULL, NULL) /\ UNCHANGED store

Get(t) == /\ \/ Answer("get", t, FALSE, NULL, NULL)
             \/ \E f \in Named(t) : Answer("get", t, TRUE, NULL, f.data)
          /\ UNCHANGED store

Clear == store' = {} /\ Answer("free", NULL, TRUE, NULL, NULL)

Next == \/ Load
        \/ \E t \in Targets : Find(t) \/ Exists(t) \/ Get(t)
        \/ Clear

Spec == Init /\ [][Next]_vars
==============================================================================
