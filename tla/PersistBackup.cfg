\* Stops, crashes inside and outside a dump, fields added between runs, and a key
\* too wide to be loaded: what the next start makes of the file.
SPECIFICATION Spec
CONSTANTS
  Key = {k1, k2, wide}
  WideKey = {wide}
  Value = {0, 1}
  Zero = 0
  MaxFields = 2
SYMMETRY KeySymmetry
INVARIANTS
  PersistTypeOK
PROPERTIES
  ImplementsBackup
CHECK_DEADLOCK FALSE
