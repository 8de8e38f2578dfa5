SPECIFICATION Spec
CONSTANTS
  Id = {0, 1, 2, 3}
  Addr = {p1, p2, p3}
  Dist = {1, 9999}
  Free = Free
  MaxEdges = 3
CONSTRAINT FewEdges
SYMMETRY AddrSymmetry
INVARIANTS
  ListOwnsNodes
  UniqueIds
  NoDuplicateEdge
  NoDanglingEdge
  ZeroIsolated
PROPERTIES
  ImplementsNet
