SPECIFICATION Spec
CONSTANTS
  u1 = u1
  u2 = u2
  u3 = u3
  g1 = g1
  g2 = g2
  Absent = Absent
  Uids <- MCUids
  Bodies = {b1, b2}
  Groups <- MCGroups
  Folders <- MCFolders
  GroupOf <- MCGroupOf
  FolderOf <- MCFolderOf
  Retries = 2
  MaxRestarts = 0
  MaxEdits = 1
  FolderFaults = TRUE
SYMMETRY MCSymmetry
PROPERTIES OnlyUnnamedDeleted
CHECK_DEADLOCK FALSE
