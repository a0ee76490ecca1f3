---------------------------- MODULE LibyurisProofs ----------------------------
(***************************************************************************)
(* The registry of libyuris's C interface, for any number of threads and   *)
(* addresses: it is exact, no memory is lost or dropped twice, and for a   *)
(* caller each function is one step of Handles.  Then Ypf, for any archive *)
(* and any size of the part the player reads: its manifest is complete and *)
(* its files are those that extracting the archive gives.                  *)
(***************************************************************************)
EXTENDS Libyuris, Ypf, DataFacts, FiniteSetTheorems, TLAPS

\* The memory behind a registered manifest, and what a call has allocated and
\* not registered yet.
Behind(p) == {p, manifests[p]} \ {EMPTY}
Pending(t) == {ptr[t], files[t]} \ {EMPTY}

\* All memory behind what is registered.
InRegistry == Registered \cup UNION {Behind(p) : p \in DOMAIN manifests}

\* What the state of a thread says of its pointers.
ThreadsOK ==
  \A t \in Threads :
     /\ pc[t] = "buffer" => ptr[t] \in Blocks
     /\ pc[t] = "manifest" => ptr[t] \in Addresses /\ files[t] # ptr[t]
     /\ pc[t] # "manifest" => files[t] = EMPTY
     /\ pc[t] = "free2" /\ ptr[t] \in Addresses => ptr[t] \in buffers

\* No two owners of memory share an address, but for EMPTY.
Exclusive ==
  /\ \A p \in DOMAIN manifests : manifests[p] \notin Registered
  /\ \A p, q \in DOMAIN manifests :
        manifests[p] = manifests[q] /\ manifests[p] # EMPTY => p = q
  /\ \A t \in Allocating : Pending(t) \cap InRegistry = {}
  /\ \A t, u \in Allocating : t # u => Pending(t) \cap Pending(u) = {}

\* Two calls of yuris_free never work on the same block.
FreedOnce ==
  \A t, u \in Freeing : ptr[t] = ptr[u] /\ ptr[t] \in Addresses => t = u

\* Each empty buffer that is being made will have its place among those held.
EmptyBound == /\ IsFiniteSet(Emptying)
              /\ empties + Cardinality(Emptying) <= MaxEmpty

Inv == /\ TypeOK /\ RegistryExact /\ MemoryAccounted
       /\ ThreadsOK /\ Exclusive /\ FreedOnce /\ EmptyBound

\* Memory in use, address by address.
LEMMA MemElem ==
  ASSUME MemoryAccounted, NEW a
  PROVE  a \in mem <=> \/ a \in InRegistry /\ a # EMPTY
                       \/ \E t \in Allocating : a \in Pending(t)
<1>1. a \in InRegistry /\ a # EMPTY
        <=> a # EMPTY /\ ( \/ a \in DOMAIN manifests \cup buffers
                           \/ \E p \in DOMAIN manifests : a = manifests[p] )
  BY DEF InRegistry, Registered, Behind
<1>2. (\E t \in Allocating : a \in Pending(t))
        <=> a # EMPTY /\ \E t \in Allocating : a = ptr[t] \/ a = files[t]
  BY DEF Pending
<1> QED  BY <1>1, <1>2 DEF MemoryAccounted

\* What an allocation answers is nobody's.
LEMMA FreeIsNew ==
  ASSUME MemoryAccounted, NEW a \in Free, a # EMPTY
  PROVE  /\ a \in Addresses
         /\ a \notin InRegistry
         /\ \A t \in Allocating : a \notin Pending(t)
BY MemElem DEF Free, Blocks

\* What is in use depends on the sets of pointers only.
LEMMA MemoryKept ==
  ASSUME MemoryAccounted, UNCHANGED <<manifests, buffers, mem, fault>>,
         {ptr'[u] : u \in Allocating'} = {ptr[u] : u \in Allocating},
         {files'[u] : u \in Allocating'} = {files[u] : u \in Allocating}
  PROVE  MemoryAccounted'
<1> DEFINE found == DOMAIN manifests \cup buffers \cup {manifests[p] : p \in DOMAIN manifests}
           made == {ptr[u] : u \in Allocating}
           lists == {files[u] : u \in Allocating}
<1>1. ~fault /\ mem = (found \cup made \cup lists) \ {EMPTY}
  BY DEF MemoryAccounted
<1>2. found' = found /\ made' = made /\ lists' = lists
  OBVIOUS
<1> HIDE DEF found, made, lists
<1>3. ~fault' /\ mem' = (found' \cup made' \cup lists') \ {EMPTY}
  BY <1>1, <1>2
<1> QED  BY <1>3 DEF MemoryAccounted, found, made, lists

LEMMA InitInv == Init => Inv
<1> SUFFICES ASSUME Init PROVE Inv
  OBVIOUS
<1>1. DOMAIN manifests = {}
  BY DEF Init
<1>2. Allocating = {} /\ Emptying = {} /\ Freeing = {}
  BY DEF Init, Allocating, Emptying, Freeing
<1>3. IsFiniteSet({}) /\ Cardinality({}) = 0
  BY FS_EmptySet
<1>4. TypeOK
  <2>1. pc \in [Threads -> {"idle", "buffer", "manifest", "free1", "free2"}]
    BY DEF Init
  <2>2. ptr \in [Threads -> Blocks \cup {FOREIGN}] /\ files \in [Threads -> Blocks]
    BY DEF Init, Blocks
  <2>3. empties \in 0..MaxEmpty
    BY EmptyAssumption DEF Init
  <2> QED  BY <1>1, <2>1, <2>2, <2>3 DEF Init, TypeOK
<1> QED  BY <1>1, <1>2, <1>3, <1>4, EmptyAssumption
         DEF Init, Inv, RegistryExact, MemoryAccounted, ThreadsOK, Exclusive, FreedOnce,
             EmptyBound

\* The threads of a kind after one of them has changed its state.
LEMMA ThreadSets ==
  ASSUME TypeOK, NEW t \in Threads, NEW state, NEW p, Become(t, state, p)
  PROVE  /\ \A u \in Threads : u # t => pc'[u] = pc[u] /\ ptr'[u] = ptr[u]
         /\ pc'[t] = state /\ ptr'[t] = p
         /\ Allocating' = IF state \in {"buffer", "manifest"} THEN Allocating \cup {t}
                                                              ELSE Allocating \ {t}
         /\ Freeing' = IF state \in {"free1", "free2"} THEN Freeing \cup {t}
                                                       ELSE Freeing \ {t}
BY DEF Become, TypeOK, Allocating, Freeing

LEMMA DecodeInv ==
  ASSUME Inv, NEW t \in Threads, Decode(t)
  PROVE  Inv'
<1> PICK p \in Free : /\ p = EMPTY => empties + Cardinality(Emptying) < MaxEmpty
                      /\ Take({p})
                      /\ Become(t, "buffer", p)
  BY DEF Decode
<1>1. /\ pc[t] = "idle" /\ files[t] = EMPTY /\ t \notin Allocating /\ t \notin Freeing
      /\ UNCHANGED <<manifests, buffers, held, empties, files, fault>>
  BY DEF Decode, Inv, ThreadsOK, Allocating, Freeing
<1>2. /\ \A u \in Threads : u # t => pc'[u] = pc[u] /\ ptr'[u] = ptr[u]
      /\ pc'[t] = "buffer" /\ ptr'[t] = p
      /\ Allocating' = Allocating \cup {t} /\ Freeing' = Freeing
  BY <1>1, ThreadSets DEF Inv
<1>3. UNCHANGED <<Registered, InRegistry>>
  BY <1>1 DEF Registered, InRegistry, Behind
<1>4. p \in Blocks /\ p # FOREIGN
  BY AddressesAssumption DEF Free, Blocks
<1>5. p # EMPTY => /\ p \in Addresses /\ p \notin InRegistry
                   /\ \A u \in Allocating : p \notin Pending(u)
  BY FreeIsNew DEF Inv
<1>6. TypeOK'
  BY <1>1, <1>4 DEF Inv, TypeOK, Become, Take, Blocks
<1>7. RegistryExact'
  <2>1. {ptr'[u] : u \in Freeing} = {ptr[u] : u \in Freeing}
    BY <1>1, <1>2 DEF Freeing
  <2> QED  BY <1>1, <1>2, <2>1 DEF Inv, RegistryExact
<1>8. MemoryAccounted'
  <2>1. {ptr'[u] : u \in Allocating'} = {ptr[u] : u \in Allocating} \cup {p}
    BY <1>1, <1>2 DEF Allocating
  <2>2. {files'[u] : u \in Allocating'} = {files[u] : u \in Allocating} \cup {EMPTY}
    BY <1>1, <1>2
  <2> QED  BY <1>1, <2>1, <2>2 DEF Inv, MemoryAccounted, Take
<1>9. ThreadsOK'
  BY <1>1, <1>2, <1>4 DEF Inv, ThreadsOK
<1>10. Exclusive'
  <2>1. \A u \in Allocating : Pending(u)' = Pending(u)
    BY <1>1, <1>2 DEF Pending, Allocating
  <2>2. Pending(t)' = {p} \ {EMPTY}
    BY <1>1, <1>2 DEF Pending
  <2> QED  BY <1>1, <1>2, <1>3, <1>5, <2>1, <2>2 DEF Inv, Exclusive
<1>11. FreedOnce'
  BY <1>1, <1>2 DEF Inv, FreedOnce, Freeing
<1>12. EmptyBound'
  <2>1. Emptying' = IF p = EMPTY THEN Emptying \cup {t} ELSE Emptying
    BY <1>1, <1>2 DEF Emptying, Allocating
  <2>2. t \notin Emptying
    BY <1>1 DEF Emptying
  <2>3. /\ IsFiniteSet(Emptying) /\ Cardinality(Emptying) \in Nat
        /\ IsFiniteSet(Emptying \cup {t})
        /\ Cardinality(Emptying \cup {t}) = Cardinality(Emptying) + 1
    BY <2>2, FS_AddElement, FS_CardinalityType DEF Inv, EmptyBound
  <2> QED  BY <1>1, <2>1, <2>3, EmptyAssumption DEF Inv, EmptyBound, TypeOK
<1> QED  BY <1>6, <1>7, <1>8, <1>9, <1>10, <1>11, <1>12 DEF Inv

LEMMA RegisterBufferInv ==
  ASSUME Inv, NEW t \in Threads, RegisterBuffer(t)
  PROVE  Inv'
<1>1. /\ pc[t] = "buffer" /\ files[t] = EMPTY /\ t \in Allocating /\ t \notin Freeing
      /\ buffers' = buffers \cup {ptr[t]}
      /\ UNCHANGED <<manifests, mem, files, fault>>
  BY DEF RegisterBuffer, Inv, ThreadsOK, Allocating, Freeing
<1>2. /\ \A u \in Threads : u # t => pc'[u] = pc[u] /\ ptr'[u] = ptr[u]
      /\ pc'[t] = "idle" /\ ptr'[t] = EMPTY
      /\ Allocating' = Allocating \ {t} /\ Freeing' = Freeing
  BY <1>1, ThreadSets DEF RegisterBuffer, Return, Inv
<1>3. ptr[t] \in Blocks /\ ptr[t] # FOREIGN
  BY <1>1, AddressesAssumption DEF Inv, ThreadsOK, Blocks
<1>4. ptr[t] # EMPTY => /\ ptr[t] \in Pending(t)
                        /\ ptr[t] \notin InRegistry
                        /\ \A u \in Allocating \ {t} : ptr[t] \notin Pending(u)
  BY <1>1 DEF Inv, Exclusive, Pending
<1>5. Registered' = Registered \cup ({ptr[t]} \ {EMPTY})
  BY <1>1 DEF Registered
<1>6. IF ptr[t] = EMPTY THEN empties' = empties + 1 /\ held' = held
                        ELSE held' = held \cup {ptr[t]} /\ empties' = empties
  BY DEF RegisterBuffer, Give
<1>7. EmptyBound'
  <2>1. Emptying' = IF ptr[t] = EMPTY THEN Emptying \ {t} ELSE Emptying
    BY <1>1, <1>2 DEF Emptying, Allocating
  <2>2. ptr[t] = EMPTY => t \in Emptying
    BY <1>1 DEF Emptying
  <2>3. /\ IsFiniteSet(Emptying) /\ Cardinality(Emptying) \in Nat
        /\ ptr[t] = EMPTY => /\ IsFiniteSet(Emptying \ {t})
                             /\ Cardinality(Emptying \ {t}) = Cardinality(Emptying) - 1
    BY <2>2, FS_RemoveElement, FS_CardinalityType DEF Inv, EmptyBound
  <2>4. empties \in Nat
    BY DEF Inv, TypeOK
  <2> QED  BY <1>6, <2>1, <2>3, <2>4, EmptyAssumption DEF Inv, EmptyBound
<1>8. TypeOK'
  <2>1. empties' \in 0..MaxEmpty
    <3>1. IsFiniteSet(Emptying') /\ Cardinality(Emptying') \in Nat /\ empties' \in Nat
      BY <1>6, <1>7, FS_CardinalityType DEF EmptyBound, Inv, TypeOK
    <3> QED  BY <1>7, <3>1, EmptyAssumption DEF EmptyBound
  <2> QED  BY <1>1, <1>3, <1>6, <2>1 DEF RegisterBuffer, Return, Inv, TypeOK, Become, Blocks
<1>9. RegistryExact'
  <2>1. {ptr'[u] : u \in Freeing} = {ptr[u] : u \in Freeing}
    BY <1>1, <1>2 DEF Freeing
  <2>2. ptr[t] # EMPTY => ptr[t] \in Addresses /\ ptr[t] \notin DOMAIN manifests \cup buffers
    BY <1>3, <1>4 DEF InRegistry, Registered, Blocks
  <2>3. EMPTY \notin DOMAIN manifests /\ EMPTY \notin Addresses
    BY AddressesAssumption DEF Inv, TypeOK
  <2>4. /\ DOMAIN manifests' = DOMAIN manifests
        /\ {ptr'[u] : u \in Freeing'} = {ptr[u] : u \in Freeing}
        /\ DOMAIN manifests' \cap buffers' = {}
    <3>1. DOMAIN manifests \cap buffers' = {}
      BY <1>1, <2>2, <2>3 DEF Inv, RegistryExact
    <3> QED  BY <1>1, <1>2, <2>1, <3>1
  <2> DEFINE returned == {ptr[u] : u \in Freeing} \cap Addresses
  <2>5. /\ (DOMAIN manifests \cup buffers) \ {EMPTY} = held \cup returned
        /\ held \cap returned = {}
    BY DEF Inv, RegistryExact
  <2>6. returned' = returned /\ returned \subseteq DOMAIN manifests \cup buffers
    BY <2>3, <2>4, <2>5
  <2> HIDE DEF returned
  <2>7. (DOMAIN manifests \cup buffers') \ {EMPTY} = held' \cup returned
    BY <1>1, <1>6, <2>5
  <2>8. held' \cap returned = {}
    BY <1>6, <2>2, <2>5, <2>6
  <2> QED  BY <2>4, <2>6, <2>7, <2>8 DEF RegistryExact, returned
<1>10. MemoryAccounted'
  <2>1. {ptr[u] : u \in Allocating} = {ptr'[u] : u \in Allocating'} \cup {ptr[t]}
    BY <1>1, <1>2 DEF Allocating
  <2>2. {files[u] : u \in Allocating} = {files'[u] : u \in Allocating'} \cup {EMPTY}
    BY <1>1, <1>2
  <2>3. {manifests'[q] : q \in DOMAIN manifests'} = {manifests[q] : q \in DOMAIN manifests}
    BY <1>1
  <2>4. DOMAIN manifests' = DOMAIN manifests /\ mem' = mem /\ fault' = fault
    BY <1>1
  <2> QED  BY ONLY Inv, <1>1, <2>1, <2>2, <2>3, <2>4 DEF Inv, MemoryAccounted
<1>11. ThreadsOK'
  BY <1>1, <1>2 DEF Inv, ThreadsOK
<1>12. Exclusive'
  <2>1. \A u \in Allocating' : Pending(u)' = Pending(u)
    BY <1>1, <1>2 DEF Pending, Allocating
  <2>2. InRegistry' = InRegistry \cup ({ptr[t]} \ {EMPTY})
    BY <1>1, <1>5 DEF InRegistry, Behind
  <2>3. \A p \in DOMAIN manifests : manifests[p] # EMPTY => manifests[p] \in InRegistry
    BY DEF InRegistry, Behind
  <2>4. \A p \in DOMAIN manifests : manifests[p] \notin Registered'
    BY <1>4, <1>5, <2>3 DEF Inv, Exclusive
  <2>5. \A u \in Allocating' : Pending(u) \cap InRegistry' = {}
    BY <1>2, <1>4, <2>2 DEF Inv, Exclusive
  <2> QED  BY <1>1, <1>2, <2>1, <2>4, <2>5 DEF Inv, Exclusive
<1>13. FreedOnce'
  BY <1>1, <1>2 DEF Inv, FreedOnce, Freeing
<1> QED  BY <1>7, <1>8, <1>9, <1>10, <1>11, <1>12, <1>13 DEF Inv

LEMMA ReadIndexInv ==
  ASSUME Inv, NEW t \in Threads, ReadIndex(t)
  PROVE  Inv'
<1> PICK f \in Free, p \in Free :
         /\ p # EMPTY /\ p # f
         /\ Take({p, f})
         /\ Become(t, "manifest", p)
         /\ files' = [files EXCEPT ![t] = f]
  BY DEF ReadIndex
<1>1. /\ pc[t] = "idle" /\ t \notin Allocating /\ t \notin Freeing
      /\ UNCHANGED <<manifests, buffers, held, empties, fault>>
  BY DEF ReadIndex, Allocating, Freeing
<1>2. /\ \A u \in Threads : u # t => /\ pc'[u] = pc[u] /\ ptr'[u] = ptr[u]
                                     /\ files'[u] = files[u]
      /\ pc'[t] = "manifest" /\ ptr'[t] = p /\ files'[t] = f
      /\ Allocating' = Allocating \cup {t} /\ Freeing' = Freeing
  <2>1. files'[t] = f /\ \A u \in Threads : u # t => files'[u] = files[u]
    BY DEF Inv, TypeOK
  <2> QED  BY <1>1, <2>1, ThreadSets DEF Inv
<1>3. UNCHANGED <<Registered, InRegistry>>
  BY <1>1 DEF Registered, InRegistry, Behind
<1>4. p \in Addresses /\ f \in Blocks
  BY DEF Free, Blocks
<1>5. \A a \in {p, f} \ {EMPTY} : /\ a \in Addresses /\ a \notin InRegistry
                                  /\ \A u \in Allocating : a \notin Pending(u)
  BY FreeIsNew DEF Inv
<1>6. TypeOK'
  BY <1>1, <1>4 DEF Inv, TypeOK, Become, Take, Blocks
<1>7. RegistryExact'
  <2>1. {ptr'[u] : u \in Freeing} = {ptr[u] : u \in Freeing}
    BY <1>1, <1>2 DEF Freeing
  <2> QED  BY <1>1, <1>2, <2>1 DEF Inv, RegistryExact
<1>8. MemoryAccounted'
  <2>1. {ptr'[u] : u \in Allocating'} = {ptr[u] : u \in Allocating} \cup {p}
    BY <1>1, <1>2 DEF Allocating
  <2>2. {files'[u] : u \in Allocating'} = {files[u] : u \in Allocating} \cup {f}
    BY <1>1, <1>2 DEF Allocating
  <2> QED  BY <1>1, <2>1, <2>2 DEF Inv, MemoryAccounted, Take
<1>9. ThreadsOK'
  BY <1>1, <1>2, <1>4 DEF Inv, ThreadsOK
<1>10. Exclusive'
  <2>1. \A u \in Allocating : Pending(u)' = Pending(u)
    BY <1>1, <1>2 DEF Pending, Allocating
  <2>2. Pending(t)' = {p, f} \ {EMPTY}
    BY <1>1, <1>2 DEF Pending
  <2> QED  BY <1>1, <1>2, <1>3, <1>5, <2>1, <2>2 DEF Inv, Exclusive
<1>11. FreedOnce'
  BY <1>1, <1>2 DEF Inv, FreedOnce, Freeing
<1>12. EmptyBound'
  <2>1. Emptying' = Emptying
    BY <1>1, <1>2 DEF Emptying, Allocating
  <2> QED  BY <1>1, <2>1 DEF Inv, EmptyBound
<1> QED  BY <1>6, <1>7, <1>8, <1>9, <1>10, <1>11, <1>12 DEF Inv

LEMMA RegisterManifestInv ==
  ASSUME Inv, NEW t \in Threads, RegisterManifest(t)
  PROVE  Inv'
<1> DEFINE p == ptr[t]
           f == files[t]
<1>1. /\ pc[t] = "manifest" /\ t \in Allocating /\ t \notin Freeing /\ t \notin Emptying
      /\ p \in Addresses /\ f \in Blocks /\ f # p /\ p # EMPTY
      /\ UNCHANGED <<buffers, mem, fault>>
  BY AddressesAssumption
     DEF RegisterManifest, Inv, TypeOK, ThreadsOK, Allocating, Freeing, Emptying
<1>2. /\ \A u \in Threads : u # t => /\ pc'[u] = pc[u] /\ ptr'[u] = ptr[u]
                                     /\ files'[u] = files[u]
      /\ pc'[t] = "idle" /\ ptr'[t] = EMPTY /\ files'[t] = EMPTY
      /\ Allocating' = Allocating \ {t} /\ Freeing' = Freeing
  <2>1. files'[t] = EMPTY /\ \A u \in Threads : u # t => files'[u] = files[u]
    BY DEF RegisterManifest, Inv, TypeOK
  <2>2. Become(t, "idle", EMPTY)
    BY DEF RegisterManifest, Return
  <2> QED  BY <1>1, <2>1, <2>2, ThreadSets DEF Inv
<1>3. held' = held \cup {p} /\ empties' = empties
  BY <1>1 DEF RegisterManifest, Give
<1>4. /\ p \in Pending(t) /\ p \notin InRegistry
      /\ f # EMPTY => f \in Pending(t) /\ f \notin InRegistry
      /\ \A u \in Allocating \ {t} : {p, f} \cap Pending(u) = {}
  BY <1>1 DEF Inv, Exclusive, Pending
<1>5. /\ DOMAIN manifests' = DOMAIN manifests \cup {p}
      /\ \A q \in DOMAIN manifests : manifests'[q] = manifests[q]
      /\ manifests'[p] = f
      /\ p \notin DOMAIN manifests
  BY <1>1, <1>4 DEF RegisterManifest, InRegistry, Registered
<1>6. Registered' = Registered \cup {p}
  BY <1>1, <1>5 DEF Registered
<1>7. TypeOK'
  <2>1. files' \in [Threads -> Blocks]
    BY DEF RegisterManifest, Inv, TypeOK, Blocks
  <2>2. pc' \in [Threads -> {"idle", "buffer", "manifest", "free1", "free2"}]
        /\ ptr' \in [Threads -> Blocks \cup {FOREIGN}]
    BY DEF RegisterManifest, Return, Become, Inv, TypeOK, Blocks
  <2> QED  BY <1>1, <1>3, <1>5, <2>1, <2>2 DEF Inv, TypeOK
<1>8. RegistryExact'
  <2>1. {ptr'[u] : u \in Freeing} = {ptr[u] : u \in Freeing}
    BY <1>1, <1>2 DEF Freeing
  <2>2. p \notin DOMAIN manifests \cup buffers
    BY <1>1, <1>4 DEF InRegistry, Registered
  <2> DEFINE returned == {ptr[u] : u \in Freeing} \cap Addresses
  <2>3. /\ (DOMAIN manifests \cup buffers) \ {EMPTY} = held \cup returned
        /\ DOMAIN manifests \cap buffers = {} /\ held \cap returned = {}
    BY DEF Inv, RegistryExact
  <2>4. returned' = returned
    BY <1>2, <2>1
  <2> HIDE DEF returned
  <2>5. /\ (DOMAIN manifests' \cup buffers') \ {EMPTY} = held' \cup returned'
        /\ DOMAIN manifests' \cap buffers' = {} /\ held' \cap returned' = {}
    BY <1>1, <1>3, <1>5, <2>2, <2>3, <2>4
  <2> QED  BY <2>5 DEF RegistryExact, returned
<1>9. MemoryAccounted'
  <2>1. {ptr[u] : u \in Allocating} = {ptr'[u] : u \in Allocating'} \cup {p}
    BY <1>1, <1>2 DEF Allocating
  <2>2. {files[u] : u \in Allocating} = {files'[u] : u \in Allocating'} \cup {f}
    BY <1>1, <1>2 DEF Allocating
  <2>3. {manifests'[q] : q \in DOMAIN manifests'} = {manifests[q] : q \in DOMAIN manifests} \cup {f}
    BY <1>5
  <2> QED  BY <1>1, <1>5, <2>1, <2>2, <2>3 DEF Inv, MemoryAccounted
<1>10. ThreadsOK'
  BY <1>1, <1>2 DEF Inv, ThreadsOK
<1>11. Exclusive'
  <2>1. \A u \in Allocating' : Pending(u)' = Pending(u)
    BY <1>1, <1>2 DEF Pending, Allocating
  <2>2. InRegistry' = InRegistry \cup ({p, f} \ {EMPTY})
    BY <1>1, <1>5, <1>6 DEF InRegistry, Behind
  <2>3. \A q \in DOMAIN manifests : manifests[q] # EMPTY => manifests[q] \in InRegistry
    BY DEF InRegistry, Behind
  <2>4. \A q \in DOMAIN manifests : manifests[q] \notin Registered'
    BY <1>1, <1>4, <1>6, <2>3 DEF Inv, Exclusive
  <2>5. f \notin Registered'
    BY <1>1, <1>4, <1>6 DEF InRegistry, Registered
  <2>6. \A q, r \in DOMAIN manifests' :
           manifests'[q] = manifests'[r] /\ manifests'[q] # EMPTY => q = r
    BY <1>4, <1>5, <2>3 DEF Inv, Exclusive
  <2>7. \A u \in Allocating' : Pending(u) \cap InRegistry' = {}
    BY <1>2, <1>4, <2>2 DEF Inv, Exclusive
  <2> QED  BY <1>2, <1>5, <2>1, <2>4, <2>5, <2>6, <2>7 DEF Inv, Exclusive
<1>12. FreedOnce'
  BY <1>1, <1>2 DEF Inv, FreedOnce, Freeing
<1>13. EmptyBound'
  <2>1. Emptying' = Emptying
    BY <1>1, <1>2 DEF Emptying, Allocating
  <2> QED  BY <1>3, <2>1 DEF Inv, EmptyBound
<1> QED  BY <1>7, <1>8, <1>9, <1>10, <1>11, <1>12, <1>13 DEF Inv

LEMMA CallFreeInv ==
  ASSUME Inv, NEW t \in Threads, CallFree(t)
  PROVE  Inv'
<1>1. /\ pc[t] = "idle" /\ t \notin Allocating /\ t \notin Freeing
      /\ UNCHANGED <<manifests, buffers, mem, files, fault>>
  BY DEF CallFree, Allocating, Freeing
<1>2. PICK p \in Blocks \cup {FOREIGN} :
         /\ Become(t, "free1", p)
         /\ \/ p \in held /\ held' = held \ {p} /\ empties' = empties
            \/ p = EMPTY /\ empties > 0 /\ empties' = empties - 1 /\ held' = held
            \/ p = FOREIGN /\ UNCHANGED <<held, empties>>
  BY DEF CallFree, Inv, TypeOK, Blocks
<1>3. /\ \A u \in Threads : u # t => pc'[u] = pc[u] /\ ptr'[u] = ptr[u]
      /\ pc'[t] = "free1" /\ ptr'[t] = p
      /\ Allocating' = Allocating /\ Freeing' = Freeing \cup {t}
  BY <1>1, <1>2, ThreadSets DEF Inv
<1>4. UNCHANGED <<Registered, InRegistry>>
  BY <1>1 DEF Registered, InRegistry, Behind
<1>5. p \in Addresses => p \in held /\ \A u \in Freeing : ptr[u] # p
  BY <1>2, AddressesAssumption DEF Inv, RegistryExact
<1>6. TypeOK'
  <2>1. empties' \in 0..MaxEmpty
    BY <1>2, EmptyAssumption DEF Inv, TypeOK
  <2> QED  BY <1>1, <1>2, <2>1 DEF Inv, TypeOK, Become
<1>7. RegistryExact'
  <2> DEFINE returned == {ptr[u] : u \in Freeing} \cap Addresses
  <2>1. /\ (DOMAIN manifests \cup buffers) \ {EMPTY} = held \cup returned
        /\ DOMAIN manifests \cap buffers = {} /\ held \cap returned = {}
    BY DEF Inv, RegistryExact
  <2>2. returned' = returned \cup ({p} \cap Addresses)
    BY <1>1, <1>3 DEF Freeing
  <2>3. held' = held \ ({p} \cap Addresses)
    BY <1>2, AddressesAssumption DEF Inv, TypeOK
  <2> HIDE DEF returned
  <2>4. /\ (DOMAIN manifests' \cup buffers') \ {EMPTY} = held' \cup returned'
        /\ DOMAIN manifests' \cap buffers' = {} /\ held' \cap returned' = {}
    BY <1>1, <1>5, <2>1, <2>2, <2>3
  <2> QED  BY <2>4 DEF RegistryExact, returned
<1>8. MemoryAccounted'
  <2>1. {ptr'[u] : u \in Allocating'} = {ptr[u] : u \in Allocating}
    BY <1>1, <1>3 DEF Allocating
  <2>2. {files'[u] : u \in Allocating'} = {files[u] : u \in Allocating}
    BY <1>1, <1>3
  <2> QED  BY <1>1, <2>1, <2>2, MemoryKept DEF Inv
<1>9. ThreadsOK'
  BY <1>1, <1>3 DEF Inv, ThreadsOK
<1>10. Exclusive'
  <2>1. \A u \in Allocating : Pending(u)' = Pending(u)
    BY <1>1, <1>3 DEF Pending, Allocating
  <2> QED  BY <1>1, <1>3, <1>4, <2>1 DEF Inv, Exclusive
<1>11. FreedOnce'
  BY <1>1, <1>3, <1>5 DEF Inv, FreedOnce, Freeing
<1>12. EmptyBound'
  <2>1. Emptying' = Emptying
    BY <1>1, <1>3 DEF Emptying, Allocating
  <2>2. IsFiniteSet(Emptying) /\ Cardinality(Emptying) \in Nat /\ empties \in Nat
    BY FS_CardinalityType DEF Inv, EmptyBound, TypeOK
  <2> QED  BY <1>2, <2>1, <2>2, EmptyAssumption DEF Inv, EmptyBound
<1> QED  BY <1>6, <1>7, <1>8, <1>9, <1>10, <1>11, <1>12 DEF Inv

\* What is registered is in use, and so is what is behind it.
LEMMA RegisteredInUse ==
  ASSUME Inv
  PROVE  /\ Registered \subseteq mem
         /\ \A p \in DOMAIN manifests : Behind(p) \subseteq mem
<1>1. Registered \subseteq InRegistry \ {EMPTY}
  BY DEF Registered, InRegistry
<1>2. \A p \in DOMAIN manifests : Behind(p) \subseteq InRegistry \ {EMPTY}
  BY DEF Behind, InRegistry
<1> QED  BY <1>1, <1>2, MemElem DEF Inv

\* The block that is passed back leaves the registry, and leaves it exact.
LEMMA RemovedExact ==
  ASSUME Inv, NEW t \in Freeing, TypeOK',
         \A u \in Freeing \ {t} : ptr'[u] = ptr[u],
         Freeing' = Freeing \ {t}, held' = held,
         DOMAIN manifests' = DOMAIN manifests \ {ptr[t]}, buffers' = buffers \ {ptr[t]}
  PROVE  RegistryExact'
<1> DEFINE returned == {ptr[u] : u \in Freeing} \cap Addresses
<1>1. /\ (DOMAIN manifests \cup buffers) \ {EMPTY} = held \cup returned
      /\ DOMAIN manifests \cap buffers = {} /\ held \cap returned = {}
  BY DEF Inv, RegistryExact
<1>2. returned' = returned \ {ptr[t]}
  BY DEF Inv, FreedOnce
<1>3. ptr[t] \notin held
  <2>1. ptr[t] \in Addresses => ptr[t] \in returned
    OBVIOUS
  <2> QED  BY <1>1, <2>1 DEF Inv, TypeOK
<1> HIDE DEF returned
<1>4. /\ (DOMAIN manifests' \cup buffers') \ {EMPTY} = held' \cup returned'
      /\ DOMAIN manifests' \cap buffers' = {} /\ held' \cap returned' = {}
  BY <1>1, <1>2, <1>3
<1> QED  BY <1>4 DEF RegistryExact, returned

LEMMA FreeManifestInv ==
  ASSUME Inv, NEW t \in Threads, FreeManifest(t)
  PROVE  Inv'
<1> DEFINE p == ptr[t]
           f == manifests[p]
<1>1. /\ pc[t] = "free1" /\ t \notin Allocating /\ t \in Freeing
      /\ UNCHANGED <<buffers, held, empties, files>>
  BY DEF FreeManifest, Allocating, Freeing
<1>2. CASE p \in DOMAIN manifests
  <2>1. /\ Drop({p, f}) /\ Become(t, "idle", EMPTY)
        /\ manifests' = [q \in DOMAIN manifests \ {p} |-> manifests[q]]
    BY <1>2 DEF FreeManifest, ManifestBoxes, RemoveManifest, Return
  <2>2. /\ \A u \in Threads : u # t => pc'[u] = pc[u] /\ ptr'[u] = ptr[u]
        /\ pc'[t] = "idle" /\ ptr'[t] = EMPTY
        /\ Allocating' = Allocating /\ Freeing' = Freeing \ {t}
    BY <1>1, <2>1, ThreadSets DEF Inv
  <2>3. /\ DOMAIN manifests' = DOMAIN manifests \ {p}
        /\ \A q \in DOMAIN manifests' : manifests'[q] = manifests[q]
    BY <2>1
  <2>4. /\ p \in Addresses /\ p # EMPTY /\ p \in Registered /\ f \in Blocks /\ f \notin Registered
        /\ {p, f} \subseteq InRegistry \cup {EMPTY}
        /\ \A q \in DOMAIN manifests' : manifests[q] = f => f = EMPTY
        /\ \A q \in DOMAIN manifests' : manifests[q] # p
    BY <1>2, <2>3, AddressesAssumption
       DEF Inv, TypeOK, Exclusive, Registered, InRegistry, Behind
  <2>5. \A u \in Allocating : {p, f} \cap Pending(u) = {}
    BY <2>4 DEF Inv, Exclusive, Pending
  <2>6. Registered' = Registered \ {p}
    <3>1. p \notin buffers
      BY <1>2 DEF Inv, RegistryExact
    <3> QED  BY <1>1, <2>3, <3>1 DEF Registered
  <2>7. mem' = mem \ {p, f} /\ fault' = FALSE
    <3>1. {p, f} \subseteq mem \cup {EMPTY}
      BY <1>2, RegisteredInUse DEF Behind
    <3> QED  BY <2>1, <3>1 DEF Drop, Inv, MemoryAccounted
  <2>8. TypeOK'
    BY <1>1, <2>1, <2>3, <2>7 DEF Inv, TypeOK, Become, Blocks
  <2>9. RegistryExact'
    <3>1. p \notin buffers
      BY <1>2 DEF Inv, RegistryExact
    <3>2. buffers' = buffers \ {p} /\ \A u \in Freeing \ {t} : ptr'[u] = ptr[u]
      BY <1>1, <2>2, <3>1 DEF Freeing
    <3> QED  BY <1>1, <2>2, <2>3, <2>8, <3>2, RemovedExact
  <2>10. MemoryAccounted'
    <3> DEFINE lists == {manifests[q] : q \in DOMAIN manifests}
               made == {ptr[u] : u \in Allocating} \cup {files[u] : u \in Allocating}
    <3>1. mem = (Registered \cup lists \cup made) \ {EMPTY}
      BY DEF Inv, MemoryAccounted, Registered
    <3>2. lists' \ {EMPTY} = lists \ {f, EMPTY}
      BY <1>2, <2>3, <2>4
    <3>3. made' = made
      BY <1>1, <2>2 DEF Allocating
    <3>4. p \notin lists /\ f \notin Registered
      BY <1>2, <2>4 DEF Inv, Exclusive
    <3>5. p \notin made /\ (f # EMPTY => f \notin made)
      BY <2>4, <2>5 DEF Pending
    <3> HIDE DEF lists, made
    <3>6. mem' = (Registered' \cup lists' \cup made') \ {EMPTY}
      BY <2>4, <2>6, <2>7, <3>1, <3>2, <3>3, <3>4, <3>5
    <3> QED  BY <2>7, <3>6 DEF MemoryAccounted, Registered, lists, made
  <2>11. ThreadsOK'
    BY <1>1, <2>2 DEF Inv, ThreadsOK
  <2>12. Exclusive'
    <3>1. \A u \in Allocating : Pending(u)' = Pending(u)
      BY <1>1, <2>2 DEF Pending, Allocating
    <3>2. InRegistry' \subseteq InRegistry
      BY <2>3, <2>6 DEF InRegistry, Behind
    <3> QED  BY <2>2, <2>3, <2>6, <3>1, <3>2 DEF Inv, Exclusive
  <2>13. FreedOnce'
    BY <2>2 DEF Inv, FreedOnce, Freeing
  <2>14. EmptyBound'
    <3>1. Emptying' = Emptying
      BY <1>1, <2>2 DEF Emptying, Allocating
    <3> QED  BY <1>1, <3>1 DEF Inv, EmptyBound
  <2> QED  BY <2>8, <2>9, <2>10, <2>11, <2>12, <2>13, <2>14 DEF Inv
<1>3. CASE p \notin DOMAIN manifests
  <2>1. Become(t, "free2", p) /\ UNCHANGED <<manifests, mem, fault>>
    BY <1>3 DEF FreeManifest
  <2>2. /\ \A u \in Threads : u # t => pc'[u] = pc[u] /\ ptr'[u] = ptr[u]
        /\ pc'[t] = "free2" /\ ptr'[t] = p
        /\ Allocating' = Allocating /\ Freeing' = Freeing
    BY <1>1, <2>1, ThreadSets DEF Inv
  <2>3. /\ {ptr'[u] : u \in Freeing} = {ptr[u] : u \in Freeing}
        /\ {ptr'[u] : u \in Allocating} = {ptr[u] : u \in Allocating}
        /\ Emptying' = Emptying /\ \A u \in Allocating : Pending(u)' = Pending(u)
    BY <1>1, <2>2 DEF Allocating, Freeing, Emptying, Pending
  <2>4. UNCHANGED <<Registered, InRegistry>>
    BY <1>1, <2>1 DEF Registered, InRegistry, Behind
  <2>5. TypeOK'
    BY <1>1, <2>1 DEF Inv, TypeOK, Become
  <2>6. RegistryExact' /\ MemoryAccounted'
    <3>1. RegistryExact'
      BY <1>1, <2>1, <2>2, <2>3 DEF Inv, RegistryExact
    <3>2. MemoryAccounted'
      <4>1. {ptr'[u] : u \in Allocating'} = {ptr[u] : u \in Allocating}
        BY <2>2, <2>3
      <4>2. {files'[u] : u \in Allocating'} = {files[u] : u \in Allocating}
        BY <1>1, <2>2
      <4> QED  BY <1>1, <2>1, <4>1, <4>2, MemoryKept DEF Inv
    <3> QED  BY <3>1, <3>2
  <2>7. p \in Addresses => p \in buffers
    BY <1>1, <1>3, AddressesAssumption DEF Inv, RegistryExact
  <2>8. ThreadsOK'
    BY <1>1, <2>2, <2>7 DEF Inv, ThreadsOK
  <2>9. Exclusive' /\ FreedOnce' /\ EmptyBound'
    BY <1>1, <2>1, <2>2, <2>3, <2>4 DEF Inv, Exclusive, FreedOnce, EmptyBound, Freeing
  <2> QED  BY <2>5, <2>6, <2>8, <2>9 DEF Inv
<1> QED  BY <1>2, <1>3

LEMMA FreeBufferInv ==
  ASSUME Inv, NEW t \in Threads, FreeBuffer(t)
  PROVE  Inv'
<1> DEFINE p == ptr[t]
<1>1. /\ pc[t] = "free2" /\ t \notin Allocating /\ t \in Freeing
      /\ Become(t, "idle", EMPTY)
      /\ UNCHANGED <<manifests, held, empties, files>>
  BY DEF FreeBuffer, Return, Allocating, Freeing
<1>2. /\ \A u \in Threads : u # t => pc'[u] = pc[u] /\ ptr'[u] = ptr[u]
      /\ pc'[t] = "idle" /\ ptr'[t] = EMPTY
      /\ Allocating' = Allocating /\ Freeing' = Freeing \ {t}
  BY <1>1, ThreadSets DEF Inv
<1>3. p \notin DOMAIN manifests
  <2>1. p \in Addresses => p \in buffers
    BY <1>1 DEF Inv, ThreadsOK
  <2> QED  BY <2>1 DEF Inv, RegistryExact, TypeOK
<1>4. p \notin buffers => p \notin Addresses
  BY <1>1 DEF Inv, ThreadsOK
<1>5. buffers' = buffers \ {p} /\ Registered' = Registered \ {p}
  <2>1. buffers' = buffers \ {p}
    BY DEF FreeBuffer, Drop
  <2> QED  BY <1>1, <1>3, <2>1 DEF Registered
<1>6. mem' = mem \ {p} /\ fault' = FALSE
  <2>1. CASE p \in buffers
    <3>1. {p} \subseteq mem \cup {EMPTY}
      BY <2>1, RegisteredInUse DEF Registered
    <3> QED  BY <2>1, <3>1 DEF FreeBuffer, Drop, Inv, MemoryAccounted
  <2>2. CASE p \notin buffers
    BY <1>4, <2>2 DEF FreeBuffer, Inv, TypeOK, MemoryAccounted
  <2> QED  BY <2>1, <2>2
<1>7. p # EMPTY /\ p \in buffers =>
         /\ p \in InRegistry
         /\ \A q \in DOMAIN manifests : manifests[q] # p
         /\ \A u \in Allocating : p \notin Pending(u)
  BY DEF Inv, Exclusive, Registered, InRegistry
<1>8. TypeOK'
  BY <1>1, <1>5, <1>6 DEF Inv, TypeOK, Become, Blocks
<1>9. RegistryExact'
  <2>1. \A u \in Freeing \ {t} : ptr'[u] = ptr[u]
    BY <1>2 DEF Freeing
  <2> QED  BY <1>1, <1>2, <1>3, <1>5, <1>8, <2>1, RemovedExact
<1>10. MemoryAccounted'
  <2> DEFINE others == {manifests[q] : q \in DOMAIN manifests}
                       \cup {ptr[u] : u \in Allocating} \cup {files[u] : u \in Allocating}
  <2>1. mem = (Registered \cup others) \ {EMPTY}
    BY DEF Inv, MemoryAccounted, Registered
  <2>2. others' = others
    BY <1>1, <1>2 DEF Allocating
  <2>3. p # EMPTY /\ p \in others => p \notin buffers
    BY <1>7 DEF Pending
  <2>4. p \in mem => p \in Addresses
    BY DEF Inv, TypeOK
  <2> HIDE DEF others
  <2>5. mem' = (Registered' \cup others') \ {EMPTY}
    BY <1>4, <1>5, <1>6, <2>1, <2>2, <2>3, <2>4
  <2> QED  BY <1>6, <2>5 DEF MemoryAccounted, Registered, others
<1>11. ThreadsOK'
  BY <1>1, <1>2, <1>5 DEF Inv, ThreadsOK, FreedOnce, Freeing
<1>12. Exclusive'
  <2>1. \A u \in Allocating : Pending(u)' = Pending(u)
    BY <1>1, <1>2 DEF Pending, Allocating
  <2>2. InRegistry' \subseteq InRegistry
    BY <1>1, <1>5 DEF InRegistry, Behind
  <2> QED  BY <1>1, <1>2, <1>5, <2>1, <2>2 DEF Inv, Exclusive
<1>13. FreedOnce'
  BY <1>2 DEF Inv, FreedOnce, Freeing
<1>14. EmptyBound'
  <2>1. Emptying' = Emptying
    BY <1>1, <1>2 DEF Emptying, Allocating
  <2> QED  BY <1>1, <2>1 DEF Inv, EmptyBound
<1> QED  BY <1>8, <1>9, <1>10, <1>11, <1>12, <1>13, <1>14 DEF Inv

LEMMA NextInv == Inv /\ [Next]_vars => Inv'
<1> SUFFICES ASSUME Inv, [Next]_vars PROVE Inv'
  OBVIOUS
<1>1. CASE UNCHANGED vars
  <2>1. /\ UNCHANGED <<Registered, InRegistry, Allocating, Freeing, Emptying>>
        /\ \A t : Pending(t)' = Pending(t)
    BY <1>1 DEF vars, Registered, InRegistry, Behind, Pending, Allocating, Freeing, Emptying
  <2>2. TypeOK' /\ RegistryExact'
    BY <1>1, <2>1 DEF vars, Inv, TypeOK, RegistryExact
  <2>3. MemoryAccounted'
    BY <1>1, <2>1 DEF vars, Inv, MemoryAccounted
  <2>4. ThreadsOK' /\ Exclusive' /\ FreedOnce' /\ EmptyBound'
    BY <1>1, <2>1 DEF vars, Inv, ThreadsOK, Exclusive, FreedOnce, EmptyBound
  <2> QED  BY <2>2, <2>3, <2>4 DEF Inv
<1>2. ASSUME NEW t \in Threads, Step(t) PROVE Inv'
  BY <1>2, DecodeInv, RegisterBufferInv, ReadIndexInv, RegisterManifestInv,
     CallFreeInv, FreeManifestInv, FreeBufferInv DEF Step
<1> QED  BY <1>1, <1>2 DEF Next

LEMMA Invariance == Spec => []Inv
BY InitInv, NextInv, PTL DEF Spec

------------------------------------------------------------------------------
\* The state of the C interface keeps its types, and the empty buffers held stay
\* within their bound.
THEOREM TypeCorrect == Spec => []TypeOK
<1> Inv => TypeOK
  BY DEF Inv
<1> QED  BY Invariance, PTL

\* The registry of ffi.rs holds exactly the blocks C has or has just passed back,
\* however many threads take and free them and however soon addresses are reused.
THEOREM RegistryIsExact == Spec => []RegistryExact
<1> Inv => RegistryExact
  BY DEF Inv
<1> QED  BY Invariance, PTL

\* No allocation of ffi.rs is lost, and none is dropped twice.
THEOREM NoMemoryIsLost == Spec => []MemoryAccounted
<1> Inv => MemoryAccounted
  BY DEF Inv
<1> QED  BY Invariance, PTL

------------------------------------------------------------------------------
\* The registry implements Handles.

\* The memory a caller owns with each pointer, and the pointer each thread has
\* asked to be freed: the mapping of H.
owned == [p \in Registered |-> IF p \in DOMAIN manifests
                               THEN {p, manifests[p]} \ {EMPTY} ELSE {p}]
asked == [t \in Threads |-> IF t \in Freeing THEN {ptr[t]} ELSE {}]

\* A step that changes neither the registry nor what is being freed is a stutter.
LEMMA Stutter ==
  ASSUME UNCHANGED <<manifests, buffers>>, Freeing' = Freeing,
         \A t \in Freeing : ptr'[t] = ptr[t]
  PROVE  UNCHANGED H!vars
<1>1. owned' = owned
  BY DEF owned, Registered
<1>2. asked' = asked
  BY DEF asked
<1> QED  BY <1>1, <1>2 DEF H!vars, owned, asked

\* What a thread asks for when it begins or ends a call of yuris_free.
LEMMA AskedSteps ==
  ASSUME Inv, NEW t \in Threads, NEW p, NEW state, Become(t, state, p)
  PROVE  /\ pc[t] = "idle" /\ state = "free1" => asked' = [asked EXCEPT ![t] = {p}]
         /\ t \in Freeing /\ state = "idle" => asked' = [asked EXCEPT ![t] = {}]
         /\ t \notin Freeing /\ state \in {"buffer", "manifest", "idle"} => asked' = asked
<1>1. /\ \A u \in Threads : u # t => ptr'[u] = ptr[u]
      /\ ptr'[t] = p
      /\ Freeing' = IF state \in {"free1", "free2"} THEN Freeing \cup {t} ELSE Freeing \ {t}
  BY ThreadSets DEF Inv
<1>2. /\ asked = [u \in Threads |-> IF u \in Freeing THEN {ptr[u]} ELSE {}]
      /\ asked' = [u \in Threads |-> IF u \in Freeing' THEN {ptr'[u]} ELSE {}]
  BY DEF asked
<1>3. ASSUME pc[t] = "idle", state = "free1" PROVE asked' = [asked EXCEPT ![t] = {p}]
  <2>1. \A u \in Threads : asked'[u] = IF u = t THEN {p} ELSE asked[u]
    BY <1>1, <1>2, <1>3
  <2> QED  BY <1>2, <2>1
<1>4. ASSUME t \in Freeing, state = "idle" PROVE asked' = [asked EXCEPT ![t] = {}]
  <2>1. \A u \in Threads : asked'[u] = IF u = t THEN {} ELSE asked[u]
    BY <1>1, <1>2, <1>4
  <2> QED  BY <1>2, <2>1
<1>5. ASSUME t \notin Freeing, state \in {"buffer", "manifest", "idle"} PROVE asked' = asked
  <2>1. \A u \in Threads : asked'[u] = asked[u]
    BY <1>1, <1>2, <1>5
  <2> QED  BY <1>2, <2>1
<1> QED  BY <1>3, <1>4, <1>5

\* Registering a block is a call that returns it, with memory that nobody owned.
LEMMA RegisterImplements ==
  ASSUME Inv, NEW t \in Threads, NEW p \in Blocks, NEW q \in Blocks,
         t \in Allocating, Become(t, "idle", EMPTY), p # EMPTY,
         {p, q} = Pending(t),
         Registered' = Registered \cup {p},
         \A r \in Registered : owned'[r] = owned[r],
         owned'[p] = {p, q}
  PROVE  H!Return(t, p, {p, q})
<1>1. t \notin Freeing
  BY DEF Allocating, Freeing
<1>2. asked' = asked /\ asked[t] = {}
  BY <1>1, AskedSteps DEF asked
<1>3. DOMAIN owned = Registered
  BY DEF owned
<1>4. Pending(t) \cap InRegistry = {}
  BY DEF Inv, Exclusive
<1>5. p \notin Registered
  BY <1>4 DEF Pending, InRegistry
<1>6. \A r \in Registered : owned[r] \subseteq InRegistry
  BY DEF owned, InRegistry, Behind
<1>7. owned' = [r \in DOMAIN owned \cup {p} |-> IF r = p THEN {p, q} ELSE owned[r]]
  <2>1. owned' = [r \in Registered' |-> owned'[r]]
    BY DEF owned
  <2> QED  BY <1>3, <1>5, <2>1
<1> QED  BY <1>2, <1>3, <1>4, <1>5, <1>6, <1>7 DEF H!Return, owned, asked

\* yuris_free has done what it was asked to.
LEMMA FreeImplements ==
  ASSUME Inv, NEW t \in Freeing, Become(t, "idle", EMPTY),
         Registered' = Registered \ {ptr[t]},
         \A r \in Registered' : owned'[r] = owned[r]
  PROVE  H!Free(t)
<1>1. t \in Threads /\ asked[t] = {ptr[t]} /\ asked' = [asked EXCEPT ![t] = {}]
  BY AskedSteps DEF asked, Freeing
<1>2. DOMAIN owned = Registered
  BY DEF owned
<1>3. owned' = [r \in DOMAIN owned \ asked[t] |-> owned[r]]
  <2>1. owned' = [r \in Registered' |-> owned'[r]]
    BY DEF owned
  <2> QED  BY <1>1, <1>2, <2>1
<1> QED  BY <1>1, <1>3 DEF H!Free, owned, asked

LEMMA InitImplements == Init => H!Init
<1> SUFFICES ASSUME Init PROVE H!Init
  OBVIOUS
<1>1. Registered = {} /\ Freeing = {}
  BY DEF Init, Registered, Freeing
<1>2. asked = [t \in Threads |-> {}]
  BY <1>1 DEF asked
<1>3. owned = << >>
  BY <1>1 DEF owned
<1> QED  BY <1>2, <1>3 DEF H!Init, owned, asked

LEMMA StepImplements == Inv /\ Inv' /\ [Next]_vars => [H!Next]_(H!vars)
<1> SUFFICES ASSUME Inv, Inv', [Next]_vars PROVE H!Next \/ UNCHANGED H!vars
  OBVIOUS
<1> DEFINE Pointers == Blocks \cup {FOREIGN}
<1>1. CASE UNCHANGED vars
  BY <1>1, Stutter DEF vars, Freeing
<1> SUFFICES ASSUME NEW t \in Threads, Step(t) PROVE H!Next \/ UNCHANGED H!vars
  BY <1>1 DEF Next
<1>2. CASE Decode(t) \/ ReadIndex(t)
  <2>1. PICK state \in {"buffer", "manifest"} : \E p : Become(t, state, p)
    BY <1>2 DEF Decode, ReadIndex
  <2>2. t \notin Freeing /\ UNCHANGED <<manifests, buffers>>
    BY <1>2 DEF Decode, ReadIndex, Freeing
  <2>3. Freeing' = Freeing /\ \A u \in Freeing : ptr'[u] = ptr[u]
    BY <2>1, <2>2, ThreadSets DEF Inv, Freeing
  <2> QED  BY <2>2, <2>3, Stutter
<1>3. CASE RegisterBuffer(t)
  <2> PICK p : p = ptr[t]
    OBVIOUS
  <2>1. /\ t \in Allocating /\ t \notin Freeing /\ files[t] = EMPTY /\ p \in Blocks
        /\ Become(t, "idle", EMPTY)
        /\ buffers' = buffers \cup {p} /\ UNCHANGED manifests
    BY <1>3 DEF RegisterBuffer, Return, Allocating, Freeing, Inv, ThreadsOK
  <2>2. Registered' = Registered \cup ({p} \ {EMPTY})
    BY <2>1 DEF Registered
  <2>3. CASE p = EMPTY
    <3>1. Freeing' = Freeing /\ \A u \in Freeing : ptr'[u] = ptr[u]
      BY <2>1, ThreadSets DEF Inv, Freeing
    <3>2. asked' = asked
      BY <2>1, AskedSteps
    <3>3. owned' = owned
      BY <2>1, <2>2, <2>3 DEF owned
    <3> QED  BY <3>2, <3>3 DEF H!vars, owned, asked
  <2>4. CASE p # EMPTY
    <3>1. {p, p} = Pending(t) /\ p \notin Registered
      BY <2>1, <2>4 DEF Pending, Inv, Exclusive, InRegistry
    <3>2. p \notin DOMAIN manifests
      BY <2>4, <3>1 DEF Registered
    <3>3. owned'[p] = {p, p} /\ \A r \in Registered : owned'[r] = owned[r]
      BY <2>1, <2>2, <2>4, <3>2 DEF owned
    <3>4. Registered' = Registered \cup {p}
      BY <2>2, <2>4
    <3>5. H!Return(t, p, {p, p})
      BY <2>1, <2>4, <3>1, <3>3, <3>4, RegisterImplements
    <3>6. p \in Pointers
      BY <2>1
    <3> QED  BY <3>5, <3>6 DEF H!Next
  <2> QED  BY <2>3, <2>4
<1>4. CASE RegisterManifest(t)
  <2> PICK p, f, q : p = ptr[t] /\ f = files[t] /\ q = IF f = EMPTY THEN p ELSE f
    OBVIOUS
  <2>1. /\ t \in Allocating /\ p \in Blocks /\ p # EMPTY /\ f \in Blocks /\ q \in Blocks
        /\ Become(t, "idle", EMPTY) /\ UNCHANGED buffers
    BY <1>4, AddressesAssumption
       DEF RegisterManifest, Return, Allocating, Inv, ThreadsOK, TypeOK, Blocks
  <2>2. /\ DOMAIN manifests' = DOMAIN manifests \cup {p} /\ manifests'[p] = f
        /\ \A r \in DOMAIN manifests : r # p => manifests'[r] = manifests[r]
    BY <1>4 DEF RegisterManifest
  <2>3. {p, q} = Pending(t) /\ p \notin Registered
    BY <2>1 DEF Pending, Inv, Exclusive, InRegistry
  <2>4. Registered' = Registered \cup {p}
    BY <2>1, <2>2 DEF Registered
  <2>5. owned'[p] = {p, q} /\ \A r \in Registered : owned'[r] = owned[r]
    <3>1. owned'[p] = {p, f} \ {EMPTY}
      BY <2>2, <2>4 DEF owned
    <3>2. ASSUME NEW r \in Registered PROVE owned'[r] = owned[r]
      BY <2>2, <2>3, <2>4 DEF owned
    <3> QED  BY <2>1, <3>1, <3>2
  <2>6. H!Return(t, p, {p, q})
    BY <2>1, <2>3, <2>4, <2>5, RegisterImplements
  <2> QED  BY <2>1, <2>6 DEF H!Next, Blocks
<1>5. CASE CallFree(t)
  <2>1. pc[t] = "idle" /\ UNCHANGED <<manifests, buffers>>
    BY <1>5 DEF CallFree
  <2>2. PICK p \in Pointers : /\ Become(t, "free1", p)
                              /\ p \in held \/ p \in {EMPTY, FOREIGN}
    BY <1>5 DEF CallFree, Inv, TypeOK, Blocks
  <2>3. asked[t] = {} /\ asked' = [asked EXCEPT ![t] = {p}]
    BY <2>1, <2>2, AskedSteps DEF asked, Freeing
  <2>4. owned' = owned /\ DOMAIN owned = Registered
    BY <2>1 DEF owned, Registered
  <2>5. ASSUME p \in Registered, NEW u \in Threads PROVE asked[u] # {p}
    <3>1. p \in held /\ p \in Addresses
      BY <2>2, <2>5, AddressesAssumption DEF Registered, Inv, TypeOK, Blocks
    <3>2. u \in Freeing => ptr[u] # p
      BY <3>1 DEF Inv, RegistryExact
    <3> QED  BY <3>2 DEF asked
  <2>6. H!Ask(t, p)
    BY <2>3, <2>4, <2>5 DEF H!Ask, owned, asked
  <2> QED  BY <2>2, <2>6 DEF H!Next
<1>6. CASE FreeManifest(t)
  <2> DEFINE p == ptr[t]
  <2>1. t \in Freeing /\ UNCHANGED buffers
    BY <1>6 DEF FreeManifest, Freeing
  <2>2. CASE p \in DOMAIN manifests
    <3>1. /\ Become(t, "idle", EMPTY)
          /\ manifests' = [q \in DOMAIN manifests \ {p} |-> manifests[q]]
      BY <1>6, <2>2 DEF FreeManifest, RemoveManifest, Return
    <3>2. p \notin buffers
      BY <2>2 DEF Inv, RegistryExact
    <3>3. Registered' = Registered \ {p}
      BY <2>1, <3>1, <3>2 DEF Registered
    <3>4. \A r \in Registered' : owned'[r] = owned[r]
      BY <3>1, <3>3 DEF owned
    <3> QED  BY <2>1, <3>1, <3>3, <3>4, FreeImplements DEF H!Next, Freeing
  <2>3. CASE p \notin DOMAIN manifests
    <3>1. Become(t, "free2", p) /\ UNCHANGED manifests
      BY <1>6, <2>3 DEF FreeManifest
    <3>2. Freeing' = Freeing /\ \A u \in Freeing : ptr'[u] = ptr[u]
      BY <2>1, <3>1, ThreadSets DEF Inv, Freeing
    <3> QED  BY <2>1, <3>1, <3>2, Stutter
  <2> QED  BY <2>2, <2>3
<1>7. CASE FreeBuffer(t)
  <2> DEFINE p == ptr[t]
  <2>1. t \in Freeing /\ UNCHANGED manifests /\ Become(t, "idle", EMPTY) /\ buffers' = buffers \ {p}
    BY <1>7 DEF FreeBuffer, Return, Drop, Freeing
  <2>2. p \notin DOMAIN manifests
    <3>1. p \in Addresses => p \in buffers
      BY <1>7 DEF FreeBuffer, Inv, ThreadsOK
    <3> QED  BY <3>1 DEF Inv, RegistryExact, TypeOK
  <2>3. Registered' = Registered \ {p}
    BY <2>1, <2>2 DEF Registered
  <2>4. \A r \in Registered' : owned'[r] = owned[r]
    BY <2>1, <2>3 DEF owned
  <2> QED  BY <2>1, <2>3, <2>4, FreeImplements DEF H!Next, Freeing
<1> QED  BY <1>2, <1>3, <1>4, <1>5, <1>6, <1>7 DEF Step

\* The C interface is what libyuris.h promises: to its callers each function is one
\* step, no two pointers they own share memory, and yuris_free frees what it is
\* asked to, and only that.
THEOREM ImplementsHandles == Spec => HandlesSpec
BY InitImplements, StepImplements, Invariance, PTL DEF Spec, HandlesSpec, H!Spec

------------------------------------------------------------------------------
(* Archives.  The lengths of names, and where an index ends.               *)

\* The pairs of Swaps.
LEMMA SwapPairs ==
  ASSUME NEW v, NEW s \in Swaps(v)
  PROVE  \E x \in 0..255, y \in 0..255 : x # y /\ s = {x, y}
<1> DEFINE N == 0..255
           Pair(p) == \E x \in N, y \in N : x # y /\ p = {x, y}
<1>1. /\ 3 \in N /\ 6 \in N /\ 9 \in N /\ 10 \in N /\ 11 \in N /\ 12 \in N /\ 13 \in N
      /\ 16 \in N /\ 17 \in N /\ 19 \in N /\ 20 \in N /\ 21 \in N /\ 24 \in N /\ 25 \in N
      /\ 27 \in N /\ 28 \in N /\ 30 \in N /\ 32 \in N /\ 35 \in N /\ 38 \in N /\ 41 \in N
      /\ 44 \in N /\ 46 \in N /\ 47 \in N /\ 50 \in N /\ 53 \in N /\ 72 \in N
  OBVIOUS
<1>2. /\ 6 # 53 /\ 9 # 11 /\ 12 # 16 /\ 13 # 19 /\ 21 # 27 /\ 28 # 30 /\ 32 # 35
      /\ 38 # 41 /\ 44 # 47 /\ 3 # 10 /\ 17 # 24 /\ 20 # 46 /\ 3 # 72 /\ 17 # 25 /\ 46 # 50
  OBVIOUS
<1> HIDE DEF N
<1>3. \A x, y \in N : x # y => Pair({x, y})
  OBVIOUS
<1> HIDE DEF Pair
<1>4. /\ Pair({6, 53}) /\ Pair({9, 11}) /\ Pair({12, 16}) /\ Pair({13, 19}) /\ Pair({21, 27})
      /\ Pair({28, 30}) /\ Pair({32, 35}) /\ Pair({38, 41}) /\ Pair({44, 47})
      /\ Pair({3, 10}) /\ Pair({17, 24}) /\ Pair({20, 46})
      /\ Pair({3, 72}) /\ Pair({17, 25}) /\ Pair({46, 50})
  BY <1>1, <1>2, <1>3
<1>5. Pair(s)
  <2>1. \A p \in NL_SWAPS : Pair(p)
    BY <1>4 DEF NL_SWAPS
  <2>2. \A p \in {{3, 10}, {17, 24}, {20, 46}} \cup {{3, 72}, {17, 25}, {46, 50}} : Pair(p)
    BY <1>4
  <2> QED  BY <2>1, <2>2 DEF Swaps
<1>6. QED
  BY <1>5 DEF Pair, N

\* A length is exchanged with one other.
LEMMA SwapsApart ==
  ASSUME NEW v, NEW b, NEW c, NEW d, {b, c} \in Swaps(v), {b, d} \in Swaps(v)
  PROVE  c = d
BY DEF Swaps, NL_SWAPS

\* Who is in a pair has another there.
LEMMA SwapHasOther ==
  ASSUME NEW v, NEW b \in UNION Swaps(v)
  PROVE  \E c \in 0..255 : c # b /\ {b, c} \in Swaps(v)
<1>1. PICK s \in Swaps(v) : b \in s
  OBVIOUS
<1>2. PICK x \in 0..255, y \in 0..255 : x # y /\ s = {x, y}
  BY SwapPairs
<1>3. CASE b = x
  BY <1>2, <1>3
<1>4. CASE b = y
  <2>1. {y, x} = s
    BY <1>2
  <2>2. QED
    BY <1>2, <1>4, <2>1
<1>5. QED
  BY <1>1, <1>2, <1>3, <1>4

LEMMA NlTransType ==
  ASSUME NEW v, NEW b \in 0..255
  PROVE  nl_trans(v, b) \in 0..255
<1>1. CASE b \in UNION Swaps(v)
  <2>1. \E c \in 0..255 : c # b /\ {b, c} \in Swaps(v)
    BY <1>1, SwapHasOther
  <2>2. QED
    BY <1>1, <2>1 DEF nl_trans
<1>2. CASE b \notin UNION Swaps(v)
  BY <1>2 DEF nl_trans
<1>3. QED
  BY <1>1, <1>2

\* What an archive is made of.
LEMMA ArchiveFacts ==
  ASSUME NEW a \in Archives
  PROVE  /\ a.version \in Nat /\ a.len \in Nat
         /\ a.entries \in Seq(Entry)
         /\ Len(a.entries) \in Nat /\ DOMAIN a.entries = 1..Len(a.entries)
         /\ \A i \in DOMAIN a.entries : a.entries[i] \in Entry
<1>1. a \in Archive
  BY ArchivesAssumption
<1>2. a.version \in Nat /\ a.len \in Nat /\ a.entries \in Seq(Entry)
  BY <1>1 DEF Archive
<1>3. Len(a.entries) \in Nat /\ DOMAIN a.entries = 1..Len(a.entries)
  BY <1>2, LenProperties
<1>4. \A i \in DOMAIN a.entries : a.entries[i] \in Entry
  BY <1>2, SeqDomain
<1>5. QED
  BY <1>2, <1>3, <1>4

\* A byte that is inverted is a byte.
LEMMA InvertedByte ==
  ASSUME NEW b \in 0..255
  PROVE  255 - b \in 0..255 /\ b \in Nat
OBVIOUS

\* The decoded length of a name, and the size of its entry.
LEMMA NameSizeType ==
  ASSUME NEW v, NEW e \in Entry
  PROVE  transform_name_size(v, e.name_size) \in Nat
<1>1. e.name_size \in 0..255
  BY DEF Entry
<1>2. nl_trans(v, 255 - e.name_size) \in 0..255
  BY <1>1, InvertedByte, NlTransType
<1>3. nl_trans(v, 255 - e.name_size) \in Nat
  BY <1>2, InvertedByte
<1>4. QED
  BY <1>3 DEF transform_name_size

LEMMA EntrySizeType ==
  ASSUME NEW v, NEW e \in Entry
  PROVE  EntrySize(v, e) \in Nat
<1> DEFINE t == transform_name_size(v, e.name_size)
<1>1. EntrySize(v, e) \in {5 + t + 22, 5 + t + 18}
  BY DEF EntrySize
<1>2. t \in Nat
  BY NameSizeType
<1> HIDE DEF t
<1>3. QED
  BY <1>1, <1>2

\* An index is longer than its header.
LEMMA IndexEndFacts ==
  ASSUME NEW a \in Archives
  PROVE  IndexEnd(a) \in Nat /\ 32 <= IndexEnd(a)
<1> DEFINE sizes == [i \in DOMAIN a.entries |-> EntrySize(a.version, a.entries[i])]
<1>1. \A i \in 1..Len(a.entries) : sizes[i] \in Nat
  <2>1. ASSUME NEW i \in 1..Len(a.entries)  PROVE sizes[i] \in Nat
    <3>1. i \in DOMAIN a.entries /\ a.entries[i] \in Entry
      BY ArchiveFacts
    <3>2. EntrySize(a.version, a.entries[i]) \in Nat
      BY <3>1, EntrySizeType
    <3>3. QED
      BY <3>1, <3>2
  <2>2. QED
    BY <2>1
<1>2. Len(a.entries) \in Nat
  BY ArchiveFacts
<1> HIDE DEF sizes
<1>3. SumTo(sizes, Len(a.entries)) \in Nat
  BY <1>1, <1>2, SumToNat
<1>4. IndexEnd(a) = 32 + SumTo(sizes, Len(a.entries))
  BY DEF IndexEnd, sizes
<1>5. QED
  BY <1>3, <1>4

\* More of an archive does not spoil its index, and all of the index is enough.
LEMMA IndexOkGrows ==
  ASSUME NEW a \in Archives, NEW m \in Nat, NEW n \in Nat, IndexOk(a, m), IndexEnd(a) <= n
  PROVE  IndexOk(a, n)
BY IndexEndFacts DEF IndexOk

\* The bytes the player reads are bytes of the archive.
LEMMA PrefixFacts ==
  ASSUME NEW a \in Archives
  PROVE  /\ Prefix(a) \in Nat /\ Prefix(a) <= a.len
         /\ \A n \in Nat : n <= a.len /\ n <= ReadSize => n <= Prefix(a)
BY ArchiveFacts, SizesAssumption DEF Prefix

\* What decode_entry returns.
LEMMA DecodeType ==
  ASSUME NEW base \in Nat, NEW len \in Nat, NEW e \in Entry, NEW offset \in Nat
  PROVE  /\ decode_entry(base, len, e, offset) \in Data \cup {ERROR}
         /\ ERROR \notin Data /\ NULL \notin Data
         /\ decode_entry(base, len, e, offset) = ERROR
              <=> \/ offset + e.compressed_len > len
                  \/ e.compressed /\ e.inflated # e.uncompressed_len
         /\ decode_entry(base, len, e, offset) # ERROR
              => decode_entry(base, len, e, offset)
                   = [at |-> base + offset, len |-> e.compressed_len, zlib |-> e.compressed]
<1>1. ERROR \notin Data /\ NULL \notin Data
  BY AnswersAssumption
<1>2. [at |-> base + offset, len |-> e.compressed_len, zlib |-> e.compressed] \in Data
  <2>1. base + offset \in Nat /\ e.compressed_len \in Nat /\ e.compressed \in BOOLEAN
    BY DEF Entry
  <2>2. QED
    BY <2>1 DEF Data
<1>3. QED
  BY <1>1, <1>2 DEF decode_entry

\* What Ypf::parse makes of a file.
LEMMA DecodedType ==
  ASSUME NEW a \in Archives, NEW e \in Entry
  PROVE  /\ Decoded(a, e) \in Data \cup {ERROR}
         /\ ERROR \notin Data
         /\ Decoded(a, e) = ERROR <=> \/ e.offset + e.compressed_len > a.len
                                      \/ e.compressed /\ e.inflated # e.uncompressed_len
         /\ Decoded(a, e) # ERROR
              => Decoded(a, e) = [at |-> e.offset, len |-> e.compressed_len,
                                  zlib |-> e.compressed]
<1>1. ERROR \notin Data
  BY AnswersAssumption
<1>2. [at |-> e.offset, len |-> e.compressed_len, zlib |-> e.compressed] \in Data
  <2>1. e.offset \in Nat /\ e.compressed_len \in Nat /\ e.compressed \in BOOLEAN
    BY DEF Entry
  <2>2. QED
    BY <2>1 DEF Data
<1>3. QED
  BY <1>1, <1>2 DEF Decoded

\* A length that is exchanged twice is itself.
LEMMA NlTransTwice ==
  ASSUME NEW v, NEW b \in 0..255
  PROVE  nl_trans(v, nl_trans(v, b)) = b
<1> DEFINE c == nl_trans(v, b)
<1>1. CASE b \in UNION Swaps(v)
  <2>1. c \in 0..255 /\ c # b /\ {b, c} \in Swaps(v)
    <3>1. PICK x \in 0..255 : x # b /\ {b, x} \in Swaps(v)
      BY <1>1, SwapHasOther
    <3>2. QED
      BY <1>1, <3>1 DEF nl_trans
  <2> HIDE DEF c
  <2>2. {c, b} \in Swaps(v) /\ c \in UNION Swaps(v)
    <3>1. {c, b} = {b, c} /\ c \in {b, c}
      OBVIOUS
    <3>2. QED
      BY <2>1, <3>1
  <2>3. /\ nl_trans(v, c) # c
        /\ {c, nl_trans(v, c)} \in Swaps(v)
    BY <2>1, <2>2 DEF nl_trans
  <2>4. nl_trans(v, c) = b
    BY <2>2, <2>3, SwapsApart
  <2>5. QED
    BY <2>4 DEF c
<1>2. CASE b \notin UNION Swaps(v)
  BY <1>2 DEF nl_trans
<1>3. QED
  BY <1>1, <1>2

\* No two stored lengths of a name stand for the same length, in any version: the
\* exchanges that build_nl_trans makes one after another do not undo each other.
THEOREM NameSizesApart ==
  ASSUME NEW v, NEW b \in 0..255, NEW c \in 0..255,
         transform_name_size(v, b) = transform_name_size(v, c)
  PROVE  b = c
<1>1. nl_trans(v, nl_trans(v, 255 - b)) = 255 - b /\ nl_trans(v, nl_trans(v, 255 - c)) = 255 - c
  BY InvertedByte, NlTransTwice
<1>2. nl_trans(v, 255 - b) = nl_trans(v, 255 - c)
  BY DEF transform_name_size
<1>3. 255 - b = 255 - c
  BY <1>1, <1>2
<1>4. QED
  BY <1>3, InvertedByte

------------------------------------------------------------------------------
(* What is returned of an archive.  Every answer is a function of the      *)
(* archive, so the inductive invariant only says which answers were given. *)

\* The answers of yuris_get_manifest and of archive_file_get for an archive.
ListOf(a) == [version |-> probe_version(a),
              files |-> [i \in DOMAIN a.entries |-> YurisFile(a.entries[i])]]
ManifestOf(a) ==
  IF Prefix(a) < 8 \/ probe_version(a) = NULL \/ ~IndexOk(a, Prefix(a)) THEN NULL ELSE ListOf(a)

FileOf(a, e) ==
  IF \/ e.compressed_len = 0 \/ e.offset + e.compressed_len > a.len
     \/ yuris_file_read(e) = ERROR
  THEN NULL ELSE yuris_file_read(e)

\* Every answer is that for the archive on disk.
YpfInv ==
  /\ archive \in Archives
  /\ whole \in {NONE} \cup parse(archive)
  /\ manifest \in {NONE, ManifestOf(archive)}
  /\ DOMAIN reads \subseteq DOMAIN archive.entries
  /\ \A i \in DOMAIN reads : reads[i] = FileOf(archive, archive.entries[i])

LEMMA ManifestFacts ==
  ASSUME NEW a \in Archives
  PROVE  /\ ManifestOf(a) \in Manifest \cup {NULL}
         /\ NULL \notin Manifest /\ NONE \notin Manifest
         /\ probe_version(a) # NULL => ListOf(a) # NULL
         /\ ManifestOf(a) # NULL =>
              /\ IndexOk(a, Prefix(a))
              /\ DOMAIN ManifestOf(a).files = DOMAIN a.entries
              /\ Len(ManifestOf(a).files) = Len(a.entries)
              /\ \A i \in DOMAIN a.entries :
                    ManifestOf(a).files[i] = YurisFile(a.entries[i])
<1> DEFINE fs == [i \in DOMAIN a.entries |-> YurisFile(a.entries[i])]
           m == ListOf(a)
<1>1. NULL \notin Manifest /\ NONE \notin Manifest
  BY AnswersAssumption
<1>2. fs \in Seq(Listed) /\ Len(fs) = Len(a.entries)
  <2>1. ASSUME NEW i \in DOMAIN a.entries  PROVE YurisFile(a.entries[i]) \in Listed
    <3>1. a.entries[i] \in Entry
      BY ArchiveFacts
    <3> DEFINE n == a.entries[i].utf8
    <3>2. n \in Nat
      BY <3>1 DEF Entry
    <3> HIDE DEF n
    <3>3. NameKept(n) \in 0..(NameLen - 1)
      BY <3>2, SizesAssumption DEF NameKept
    <3>4. a.entries[i].offset \in Nat /\ a.entries[i].compressed_len \in Nat
      BY <3>1 DEF Entry
    <3>5. QED
      BY <3>3, <3>4 DEF YurisFile, Listed, n
  <2>2. Len(a.entries) \in Nat /\ DOMAIN a.entries = 1..Len(a.entries)
    BY ArchiveFacts
  <2>3. fs \in [1..Len(a.entries) -> Listed]
    BY <2>1, <2>2
  <2> HIDE DEF fs
  <2>4. fs \in Seq(Listed) /\ DOMAIN fs = 1..Len(a.entries)
    BY <2>2, <2>3, FunctionIsSeq
  <2>5. QED
    BY <2>2, <2>4, LenProperties
<1>3. probe_version(a) # NULL => probe_version(a) \in Version
  <2>1. a.version \in Nat
    BY ArchiveFacts
  <2>2. QED
    BY <2>1 DEF probe_version, Version
<1>4. ManifestOf(a) # NULL => ManifestOf(a) = m /\ probe_version(a) # NULL /\ IndexOk(a, Prefix(a))
  BY DEF ManifestOf
<1>5. m.files = fs /\ DOMAIN fs = DOMAIN a.entries
      /\ \A i \in DOMAIN a.entries : fs[i] = YurisFile(a.entries[i])
  BY DEF ListOf
<1>6. probe_version(a) # NULL => m \in Manifest
  <2>1. m = [version |-> probe_version(a), files |-> fs]
    BY DEF ListOf
  <2> HIDE DEF fs, m
  <2>2. QED
    BY <1>2, <1>3, <2>1 DEF Manifest
<1>7. m = ListOf(a)
  OBVIOUS
<1> HIDE DEF fs, m
<1>8. QED
  BY <1>1, <1>2, <1>4, <1>5, <1>6, <1>7

\* What extracting all of an archive returns.
LEMMA ParseFacts ==
  ASSUME NEW a \in Archives, NEW w \in parse(a)
  PROVE  /\ w \in Seq(Data) \cup {ERROR, PANIC}
         /\ {NONE, NULL, ERROR, PANIC} \cap Seq(Data) = {}
         /\ w \notin {ERROR, PANIC} =>
              /\ IndexOk(a, a.len)
              /\ DOMAIN w = DOMAIN a.entries
              /\ \A i \in DOMAIN a.entries : w[i] = Decoded(a, a.entries[i]) /\ w[i] # ERROR
         /\ w \in {ERROR, PANIC} =>
              ~IndexOk(a, a.len) \/ \E i \in DOMAIN a.entries : Decoded(a, a.entries[i]) = ERROR
<1> DEFINE ds == [i \in DOMAIN a.entries |-> Decoded(a, a.entries[i])]
           Bad == {i \in DOMAIN a.entries : Decoded(a, a.entries[i]) = ERROR}
<1>1. {NONE, NULL, ERROR, PANIC} \cap Seq(Data) = {}
  BY AnswersAssumption
<1>2. \/ w = ds /\ IndexOk(a, a.len) /\ Bad = {}
      \/ w \in {ERROR, PANIC} /\ (~IndexOk(a, a.len) \/ Bad # {})
  BY DEF parse
<1>3. ASSUME Bad = {}  PROVE ds \in Seq(Data)
  <2>1. ASSUME NEW i \in DOMAIN a.entries  PROVE Decoded(a, a.entries[i]) \in Data
    <3>1. a.entries[i] \in Entry
      BY ArchiveFacts
    <3>2. Decoded(a, a.entries[i]) \in Data \cup {ERROR}
      BY <3>1, DecodedType
    <3>3. QED
      BY <1>3, <3>2
  <2>2. Len(a.entries) \in Nat /\ DOMAIN a.entries = 1..Len(a.entries)
    BY ArchiveFacts
  <2>3. ds \in [1..Len(a.entries) -> Data]
    BY <2>1, <2>2
  <2> HIDE DEF ds
  <2>4. QED
    BY <2>2, <2>3, FunctionIsSeq
<1>4. CASE w = ds /\ IndexOk(a, a.len) /\ Bad = {}
  <2>1. w \in Seq(Data) /\ w \notin {ERROR, PANIC}
    BY <1>1, <1>3, <1>4
  <2>2. DOMAIN w = DOMAIN a.entries /\ \A i \in DOMAIN a.entries : w[i] = Decoded(a, a.entries[i])
    BY <1>4
  <2>3. \A i \in DOMAIN a.entries : Decoded(a, a.entries[i]) # ERROR
    BY <1>4
  <2>4. QED
    BY <1>1, <1>4, <2>1, <2>2, <2>3
<1>5. CASE w \in {ERROR, PANIC} /\ (~IndexOk(a, a.len) \/ Bad # {})
  BY <1>1, <1>5
<1>6. QED
  BY <1>2, <1>4, <1>5

\* A file that is found in the archive is found in its own bytes, and one that is not
\* cannot be read.
LEMMA FileOfGood ==
  ASSUME NEW a \in Archives, NEW e \in Entry, Decoded(a, e) # ERROR
  PROVE  FileOf(a, e) = IF Decoded(a, e).len = 0 THEN NULL ELSE Decoded(a, e)
<1> DEFINE d == Decoded(a, e)
           r == yuris_file_read(e)
<1>1. e.offset \in Nat /\ e.compressed_len \in Nat
  BY DEF Entry
<1>2. /\ ~(e.offset + e.compressed_len > a.len)
      /\ ~(e.compressed /\ e.inflated # e.uncompressed_len)
      /\ d = [at |-> e.offset, len |-> e.compressed_len, zlib |-> e.compressed]
  BY DecodedType
<1>3. r = decode_entry(e.offset, e.compressed_len, e, 0)
  BY DEF yuris_file_read
<1>4. ~(0 + e.compressed_len > e.compressed_len)
  BY <1>1
<1> HIDE DEF d, r
<1>5. r # ERROR /\ r = [at |-> e.offset + 0, len |-> e.compressed_len,
                        zlib |-> e.compressed]
  BY <1>1, <1>2, <1>3, <1>4, DecodeType
<1>6. e.offset + 0 = e.offset
  BY <1>1
<1>7. r = d /\ d.len = e.compressed_len
  BY <1>2, <1>5, <1>6
<1>8. QED
  BY <1>2, <1>5, <1>7 DEF FileOf, d, r

LEMMA FileOfBad ==
  ASSUME NEW a \in Archives, NEW e \in Entry, Decoded(a, e) = ERROR
  PROVE  FileOf(a, e) = NULL
<1>1. \/ e.offset + e.compressed_len > a.len
      \/ e.compressed /\ e.inflated # e.uncompressed_len
  BY DecodedType
<1>2. e.compressed /\ e.inflated # e.uncompressed_len => yuris_file_read(e) = ERROR
  BY DEF yuris_file_read, decode_entry
<1>3. QED
  BY <1>1, <1>2 DEF FileOf

LEMMA YpfInitInv == YpfInit => YpfInv
BY DEF YpfInit, YpfInv

LEMMA YpfNextInv == YpfInv /\ [YpfNext]_YpfVars => YpfInv'
<1> SUFFICES ASSUME YpfInv, [YpfNext]_YpfVars  PROVE YpfInv'
  OBVIOUS
<1>1. CASE Extract
  BY <1>1 DEF YpfInv, Extract
<1>2. CASE yuris_get_manifest
  <2>1. manifest' = ManifestOf(archive)
    BY <1>2 DEF yuris_get_manifest, ManifestOf, ListOf
  <2>2. UNCHANGED <<archive, whole, reads>>
    BY <1>2 DEF yuris_get_manifest
  <2>3. QED
    BY <2>1, <2>2 DEF YpfInv
<1>3. ASSUME NEW i \in DOMAIN archive.entries, Get(i)  PROVE YpfInv'
  <2>1. UNCHANGED <<archive, whole, manifest>>
    BY <1>3 DEF Get
  <2>2. manifest = ManifestOf(archive) /\ manifest # NULL
    BY <1>3 DEF YpfInv, Get
  <2>3. manifest.files[i] = YurisFile(archive.entries[i])
    BY <2>2, ManifestFacts DEF YpfInv
  <2>4. /\ manifest.files[i].stored_size = archive.entries[i].compressed_len
        /\ manifest.files[i].offset = archive.entries[i].offset
    BY <2>3 DEF YurisFile
  <2>5. reads' = [j \in DOMAIN reads \cup {i} |->
                    IF j # i THEN reads[j] ELSE FileOf(archive, archive.entries[i])]
    BY <1>3, <2>4 DEF Get, FileOf
  <2>6. QED
    BY <2>1, <2>5 DEF YpfInv
<1>4. CASE UNCHANGED YpfVars
  BY <1>4 DEF YpfVars, YpfInv
<1>5. QED
  BY <1>1, <1>2, <1>3, <1>4 DEF YpfNext

LEMMA YpfInvariance == YpfSpec => []YpfInv
BY YpfInitInv, YpfNextInv, PTL DEF YpfSpec

\* What either way of reading an archive returns is what its caller declares:
\* regions of the archive, or one of the errors; a name that is listed leaves room
\* for its terminator.
THEOREM YpfTypeCorrect == YpfSpec => []YpfTypeOK
<1>1. YpfInv => YpfTypeOK
  <2> SUFFICES ASSUME YpfInv  PROVE YpfTypeOK
    OBVIOUS
  <2>1. archive \in Archives /\ DOMAIN reads \subseteq DOMAIN archive.entries
    BY DEF YpfInv
  <2>2. whole \in Seq(Data) \cup {NONE, ERROR, PANIC}
    BY <2>1, ParseFacts DEF YpfInv
  <2>3. manifest \in Manifest \cup {NONE, NULL}
    BY <2>1, ManifestFacts DEF YpfInv
  <2>4. ASSUME NEW i \in DOMAIN reads  PROVE reads[i] \in Data \cup {NULL}
    <3>1. archive.entries[i] \in Entry
      BY <2>1, ArchiveFacts
    <3>2. archive.entries[i].offset \in Nat /\ archive.entries[i].compressed_len \in Nat
      BY <3>1 DEF Entry
    <3>3. yuris_file_read(archive.entries[i]) \in Data \cup {ERROR}
      BY <3>1, <3>2, DecodeType DEF yuris_file_read
    <3>4. reads[i] = FileOf(archive, archive.entries[i])
      BY DEF YpfInv
    <3>5. QED
      BY <3>3, <3>4 DEF FileOf
  <2>5. QED
    BY <2>1, <2>2, <2>3, <2>4 DEF YpfTypeOK
<1>2. QED
  BY <1>1, YpfInvariance, PTL

\* A good archive whose index the player has read is listed with all its files,
\* for any size of the part it reads.
THEOREM ManifestIsComplete == YpfSpec => []ManifestComplete
<1>1. YpfInv => ManifestComplete
  <2> SUFFICES ASSUME YpfInv, Extracted, manifest # NONE, IndexEnd(archive) <= ReadSize
               PROVE  /\ manifest # NULL
                      /\ Len(manifest.files) = Len(archive.entries)
                      /\ \A i \in DOMAIN whole :
                           LET f == manifest.files[i]
                               n == archive.entries[i].utf8
                           IN  /\ <<f.offset, f.stored_size>> = <<whole[i].at, whole[i].len>>
                               /\ n < NameLen => f.name = n
    BY DEF ManifestComplete
  <2>1. archive \in Archives /\ manifest = ManifestOf(archive) /\ whole \in parse(archive)
        /\ whole \notin {ERROR, PANIC}
    BY DEF YpfInv, Extracted
  <2>2. /\ IndexOk(archive, archive.len)
        /\ DOMAIN whole = DOMAIN archive.entries
        /\ \A i \in DOMAIN archive.entries : whole[i] = Decoded(archive, archive.entries[i]) /\ whole[i] # ERROR
    BY <2>1, ParseFacts
  <2>3. IndexEnd(archive) <= Prefix(archive)
    <3>1. IndexEnd(archive) \in Nat /\ IndexEnd(archive) <= archive.len
      BY <2>1, <2>2, IndexEndFacts DEF IndexOk
    <3>2. QED
      BY <2>1, <3>1, PrefixFacts
  <2>4. IndexOk(archive, Prefix(archive))
    BY <2>1, <2>2, <2>3, ArchiveFacts, PrefixFacts, IndexOkGrows
  <2>5. ManifestOf(archive) # NULL
    <3>1. Prefix(archive) \in Nat /\ ~(Prefix(archive) < 8)
      BY <2>1, <2>4, PrefixFacts DEF IndexOk
    <3>2. archive.magic = "YPF" /\ check_version(archive.version)
      BY <2>4 DEF IndexOk
    <3>3. probe_version(archive) # NULL
      <4>1. archive.version \in Nat
        BY <2>1, ArchiveFacts
      <4>2. probe_version(archive) \in Version
        BY <3>2, <4>1 DEF probe_version, Version
      <4>3. QED
        BY <4>2, AnswersAssumption
    <3>4. QED
      BY <2>1, <2>4, <3>1, <3>3, ManifestFacts DEF ManifestOf
  <2>6. Len(manifest.files) = Len(archive.entries)
    BY <2>1, <2>5, ManifestFacts
  <2>7. ASSUME NEW i \in DOMAIN whole
        PROVE  LET f == manifest.files[i]
                   n == archive.entries[i].utf8
               IN  /\ <<f.offset, f.stored_size>> = <<whole[i].at, whole[i].len>>
                   /\ n < NameLen => f.name = n
    <3> DEFINE e == archive.entries[i]
               n == e.utf8
    <3>1. i \in DOMAIN archive.entries /\ e \in Entry /\ archive.len \in Nat
      BY <2>1, <2>2, ArchiveFacts
    <3>2. e.offset \in Nat /\ n \in Nat
      BY <3>1 DEF Entry
    <3>3. manifest.files[i] = YurisFile(e)
      BY <2>1, <2>5, <3>1, ManifestFacts
    <3>4. whole[i] = Decoded(archive, e) /\ whole[i] # ERROR
      BY <2>2, <3>1
    <3> HIDE DEF e
    <3>5. whole[i] = [at |-> e.offset, len |-> e.compressed_len, zlib |-> e.compressed]
      BY <2>1, <3>1, <3>4, DecodedType
    <3>6. n < NameLen => NameKept(n) = n
      BY <3>2, SizesAssumption DEF NameKept
    <3>7. QED
      BY <3>2, <3>3, <3>5, <3>6 DEF YurisFile, e
  <2>8. QED
    BY <2>1, <2>5, <2>6, <2>7
<1>2. QED
  BY <1>1, YpfInvariance, PTL

\* File by file the player has the data that extracting the whole archive gives,
\* and where that fails there is a file it cannot read.
THEOREM ReadsAreThoseExtracted == YpfSpec => []ReadsAgree
<1>1. YpfInv => ReadsAgree
  <2> SUFFICES ASSUME YpfInv, manifest \notin {NONE, NULL}, DOMAIN reads = DOMAIN manifest.files
               PROVE  /\ Extracted => \A i \in DOMAIN reads :
                                        reads[i] = IF whole[i].len = 0 THEN NULL ELSE whole[i]
                      /\ whole \in {ERROR, PANIC} => \E i \in DOMAIN reads : reads[i] = NULL
    BY DEF ReadsAgree
  <2>1. archive \in Archives /\ manifest = ManifestOf(archive)
    BY DEF YpfInv
  <2>2. IndexOk(archive, Prefix(archive)) /\ DOMAIN reads = DOMAIN archive.entries
    BY <2>1, ManifestFacts
  <2>3. IndexOk(archive, archive.len)
    <3>1. IndexEnd(archive) \in Nat /\ IndexEnd(archive) <= archive.len
      BY <2>1, <2>2, ArchiveFacts, IndexEndFacts, PrefixFacts DEF IndexOk
    <3>2. QED
      BY <2>1, <2>2, <3>1, ArchiveFacts, PrefixFacts, IndexOkGrows
  <2>4. ASSUME NEW i \in DOMAIN reads
        PROVE  /\ reads[i] = FileOf(archive, archive.entries[i])
               /\ archive.entries[i] \in Entry
    BY <2>1, <2>2, ArchiveFacts DEF YpfInv
  <2>5. ASSUME Extracted, NEW i \in DOMAIN reads
        PROVE  reads[i] = IF whole[i].len = 0 THEN NULL ELSE whole[i]
    <3>1. whole \in parse(archive) /\ whole \notin {ERROR, PANIC}
      BY <2>5 DEF YpfInv, Extracted
    <3>2. whole[i] = Decoded(archive, archive.entries[i]) /\ whole[i] # ERROR
      BY <2>1, <2>2, <3>1, ParseFacts
    <3>3. QED
      BY <2>1, <2>4, <3>2, ArchiveFacts, FileOfGood
  <2>6. ASSUME whole \in {ERROR, PANIC}
        PROVE  \E i \in DOMAIN reads : reads[i] = NULL
    <3>1. whole \in parse(archive)
      BY <2>6, AnswersAssumption DEF YpfInv
    <3>2. PICK i \in DOMAIN archive.entries : Decoded(archive, archive.entries[i]) = ERROR
      BY <2>1, <2>3, <2>6, <3>1, ParseFacts
    <3>3. QED
      BY <2>1, <2>2, <2>4, <3>2, ArchiveFacts, FileOfBad
  <2>7. QED
    BY <2>5, <2>6
<1>2. QED
  BY <1>1, YpfInvariance, PTL
==============================================================================
