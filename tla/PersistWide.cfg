\* Keys of 33 to 64 bytes, which SET accepts and dump writes.
SPECIFICATION Spec
CONSTANTS
  Key = {k1, wide}
  WideKey = {wide}
  Value = {0, 1}
  Zero = 0
  MaxFields = 1
INVARIANTS
  KeysLoad
CHECK_DEADLOCK FALSE
