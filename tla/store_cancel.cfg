SPECIFICATION Spec
CONSTANTS
  Editors = {e1, e2}
  Readers = {c1, c2}
  None = None
  MaxStatus = 1
  MaxEdit = 3
  MaxRestart = 1
  MaxCancel = 1
INVARIANTS SerializedSaves
