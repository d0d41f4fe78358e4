SPECIFICATION Spec
SYMMETRY ValueSymmetry
CONSTANTS
  Values = {v1, v2}
  None = None
  MaxSaves = 3
INVARIANTS TypeOK NeverRestoresTorn SavesSpareNewest
PROPERTIES ImplementsCell
