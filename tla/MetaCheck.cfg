\* Every graph on three fields: which configurations are accepted and refused
\* (no symmetry: liveness).
SPECIFICATION FairSpec
CONSTANTS
  Name = {a, b, c}
  MaxFields = 2
INVARIANTS
  MetaTypeOK
  AcceptedAcyclic
PROPERTIES
  RefusedForCycle
  AcyclicAccepted
CHECK_DEADLOCK FALSE
