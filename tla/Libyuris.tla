------------------------------- MODULE Libyuris -------------------------------
(***************************************************************************)
(* The C interface of libyuris (src/libyuris/src/ffi.rs): the registry of  *)
(* the memory it hands to C, filled by yuris_decrypt, yuris_file_read and  *)
(* yuris_get_manifest and emptied by yuris_free, with several threads      *)
(* calling.  A critical section of the registry's mutex is one step; what  *)
(* a call does outside it is another.                                      *)
(*                                                                         *)
(* Memory is a set of addresses that the allocator gives out again as soon *)
(* as they are free.  Rust allocates nothing for no bytes: an empty buffer *)
(* or list of files has the address EMPTY, which every other one has too.  *)
(***************************************************************************)
EXTENDS Naturals, FiniteSets

CONSTANTS
  Threads,
  Addresses,  \* what the allocator has
  MaxEmpty,   \* the most empty buffers held at a time (a bound)
  EMPTY,      \* the address of what takes no memory
  FOREIGN     \* an address that is not libyuris's, as free_vm passes one

ASSUME AddressesAssumption == /\ EMPTY \notin Addresses
                              /\ FOREIGN \notin Addresses \cup {EMPTY}
ASSUME EmptyAssumption == MaxEmpty \in Nat

VARIABLES
  manifests,  \* s.manifests: from manifest to files_ptr
  buffers,    \* s.buffers: the buffers
  mem,        \* the addresses in use
  held,       \* blocks the C callers have been given and not passed back
  empties,    \* empty buffers they have been given and not passed back
  pc,         \* per thread: "idle", "buffer" (allocated), "manifest" (its files
              \* and itself allocated), "free1" and "free2" (before each of the
              \* critical sections of yuris_free)
  ptr,        \* per thread: the pointer it works on
  files,      \* per thread: the files_ptr of a new manifest
  fault       \* memory not in use has been dropped

vars == <<manifests, buffers, mem, held, empties, pc, ptr, files, fault>>

Blocks == Addresses \cup {EMPTY}
Free == Blocks \ mem          \* what an allocation may answer; EMPTY is never used up

Allocating == {t \in Threads : pc[t] \in {"buffer", "manifest"}}
Emptying == {t \in Allocating : ptr[t] = EMPTY}
Freeing == {t \in Threads : pc[t] \in {"free1", "free2"}}

Become(t, state, p) == pc' = [pc EXCEPT ![t] = state] /\ ptr' = [ptr EXCEPT ![t] = p]
Return(t) == Become(t, "idle", EMPTY)

\* The caller gets p.
Give(p) == IF p = EMPTY THEN empties' = empties + 1 /\ UNCHANGED held
                        ELSE held' = held \cup {p} /\ UNCHANGED empties

\* Mutant: no bytes are taken for a block like any other.
TakeEmpty(as) == mem' = mem \cup as

\* Allocating boxes at the addresses as.
Take(as) == mem' = mem \cup (as \ {EMPTY})

\* Dropping boxes at the addresses as.
Drop(as) == /\ mem' = mem \ as
            /\ fault' = (fault \/ ~(as \subseteq mem \cup {EMPTY}))

------------------------------------------------------------------------------
\* yuris_decrypt and yuris_file_read, up to their critical section: the result
\* is in a box of its own.  Only yuris_file_read may answer with no bytes.
Decode(t) ==
  /\ pc[t] = "idle"
  /\ \E p \in Free : /\ p = EMPTY => empties + Cardinality(Emptying) < MaxEmpty
                     /\ Take({p})
                     /\ Become(t, "buffer", p)
  /\ UNCHANGED <<manifests, buffers, held, empties, files, fault>>

\* The critical section; the box is then forgotten and its address returned.
RegisterBuffer(t) ==
  /\ pc[t] = "buffer"
  /\ buffers' = buffers \cup {ptr[t]}
  /\ Give(ptr[t]) /\ Return(t)
  /\ UNCHANGED <<manifests, mem, files, fault>>

\* yuris_get_manifest: first the files, then the manifest is allocated.
ReadIndex(t) ==
  /\ pc[t] = "idle"
  /\ \E f \in Free : \E p \in Free \ {EMPTY, f} :
        /\ Take({p, f})
        /\ Become(t, "manifest", p)
        /\ files' = [files EXCEPT ![t] = f]
  /\ UNCHANGED <<manifests, buffers, held, empties, fault>>

RegisterManifest(t) ==
  /\ pc[t] = "manifest"
  /\ manifests' = [p \in DOMAIN manifests \cup {ptr[t]} |->
                     IF p = ptr[t] THEN files[t] ELSE manifests[p]]
  /\ Give(ptr[t]) /\ Return(t)
  /\ files' = [files EXCEPT ![t] = EMPTY]
  /\ UNCHANGED <<buffers, mem, fault>>

------------------------------------------------------------------------------
\* yuris_free

\* The caller passes a pointer back, each one once, or one that libyuris never
\* gave it.  (NULL is returned from at once.)
CallFree(t) ==
  /\ pc[t] = "idle"
  /\ \/ \E p \in held : /\ held' = held \ {p} /\ UNCHANGED empties
                        /\ Become(t, "free1", p)
     \/ /\ empties > 0 /\ empties' = empties - 1 /\ UNCHANGED held
        /\ Become(t, "free1", EMPTY)
     \/ Become(t, "free1", FOREIGN) /\ UNCHANGED <<held, empties>>
  /\ UNCHANGED <<manifests, buffers, mem, files, fault>>

\* Mutant: the list of files is dropped and the manifest forgotten.
OnlyFiles(p) == {manifests[p]}

\* What is dropped with the manifest p.
ManifestBoxes(p) == {p, manifests[p]}

\* Mutant: the entry is looked up and left.
GetManifest(p) == UNCHANGED manifests

\* s.manifests.remove
RemoveManifest(p) == manifests' = [q \in DOMAIN manifests \ {p} |-> manifests[q]]

\* The first critical section: a manifest is dropped with its files.
FreeManifest(t) ==
  /\ pc[t] = "free1"
  /\ IF ptr[t] \in DOMAIN manifests
     THEN Drop(ManifestBoxes(ptr[t])) /\ RemoveManifest(ptr[t]) /\ Return(t)
     ELSE Become(t, "free2", ptr[t]) /\ UNCHANGED <<manifests, mem, fault>>
  /\ UNCHANGED <<buffers, held, empties, files>>

\* Mutant: a buffer is dropped in one critical section and removed in the next.
FreeBufferTwice(t) ==
  /\ pc[t] = "free2"
  /\ IF ptr[t] \in buffers /\ files[t] = EMPTY /\ ptr[t] \in mem
     THEN /\ Drop({ptr[t]}) /\ files' = [files EXCEPT ![t] = ptr[t]]
          /\ UNCHANGED <<buffers, pc, ptr>>
     ELSE /\ buffers' = buffers \ {ptr[t]} /\ files' = [files EXCEPT ![t] = EMPTY]
          /\ Return(t) /\ UNCHANGED <<mem, fault>>
  /\ UNCHANGED <<manifests, held, empties>>

\* The second: a buffer is dropped; any other pointer is ignored.
FreeBuffer(t) ==
  /\ pc[t] = "free2"
  /\ IF ptr[t] \in buffers
     THEN Drop({ptr[t]}) /\ buffers' = buffers \ {ptr[t]}
     ELSE UNCHANGED <<buffers, mem, fault>>
  /\ Return(t)
  /\ UNCHANGED <<manifests, held, empties, files>>

------------------------------------------------------------------------------
Init == /\ manifests = << >> /\ buffers = {} /\ mem = {}
        /\ held = {} /\ empties = 0
        /\ pc = [t \in Threads |-> "idle"]
        /\ ptr = [t \in Threads |-> EMPTY]
        /\ files = [t \in Threads |-> EMPTY]
        /\ fault = FALSE

Step(t) == \/ Decode(t) \/ RegisterBuffer(t)
           \/ ReadIndex(t) \/ RegisterManifest(t)
           \/ CallFree(t) \/ FreeManifest(t) \/ FreeBuffer(t)

Next == \E t \in Threads : Step(t)

Spec == Init /\ [][Next]_vars

------------------------------------------------------------------------------
\* Properties

TypeOK == /\ DOMAIN manifests \subseteq Addresses
          /\ \A p \in DOMAIN manifests : manifests[p] \in Blocks
          /\ buffers \subseteq Blocks
          /\ mem \subseteq Addresses
          /\ held \subseteq Addresses
          /\ empties \in 0..MaxEmpty
          /\ pc \in [Threads -> {"idle", "buffer", "manifest", "free1", "free2"}]
          /\ ptr \in [Threads -> Blocks \cup {FOREIGN}]
          /\ files \in [Threads -> Blocks]
          /\ fault \in BOOLEAN

\* The registry knows exactly the blocks that C callers hold or have just
\* passed to yuris_free, each as what it is: no address that was freed, and
\* none that the allocator has since given to another call, is left in it.
RegistryExact ==
  LET returned == {ptr[t] : t \in Freeing} \cap Addresses
  IN  /\ (DOMAIN manifests \cup buffers) \ {EMPTY} = held \cup returned
      /\ DOMAIN manifests \cap buffers = {}
      /\ held \cap returned = {}

\* Every address in use is a registered block, the files of a registered
\* manifest, or what a call has allocated and not registered yet: none leaks,
\* none in use can be given out again, and none has been dropped twice.
MemoryAccounted ==
  /\ ~fault
  /\ mem = ( DOMAIN manifests \cup buffers
             \cup {manifests[p] : p \in DOMAIN manifests}
             \cup {ptr[t] : t \in Allocating} \cup {files[t] : t \in Allocating} ) \ {EMPTY}

Registered == (DOMAIN manifests \cup buffers) \ {EMPTY}

H == INSTANCE Handles WITH
       Pointers <- Blocks \cup {FOREIGN},
       owned <- [p \in Registered |-> IF p \in DOMAIN manifests
                                      THEN {p, manifests[p]} \ {EMPTY} ELSE {p}],
       asked <- [t \in Threads |-> IF t \in Freeing THEN {ptr[t]} ELSE {}]

\* For a caller each function is one step: what it returns shares no memory
\* with anything that is owned, and yuris_free frees what it is asked to, and
\* only that, though it looks for the pointer in two critical sections between
\* which other threads free and are given the same addresses.
HandlesSpec == H!Spec
==============================================================================
