CONSTANTS
  t1 = t1
  t2 = t2
  t3 = t3
  a1 = a1
  a2 = a2
  a3 = a3
  a4 = a4
  EMPTY = EMPTY
  FOREIGN = FOREIGN
  MaxEmpty = 2
  Threads <- MCThreads
  Addresses <- MCAddresses
SPECIFICATION Spec
SYMMETRY Symmetry
INVARIANTS
  TypeOK
  RegistryExact
  MemoryAccounted
PROPERTIES
  HandlesSpec
