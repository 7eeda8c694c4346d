SPECIFICATION Spec
CONSTANTS
  u1 = u1
  u2 = u2
  u3 = u3
  g1 = g1
  g2 = g2
  Absent = Absent
  Uids <- MCUidsTwo
  Bodies = {b1, b2}
  Groups <- MCGroups
  Folders <- MCFolders
  GroupOf <- MCGroupOfTwo
  FolderOf <- MCFolderOf
  Retries = 2
  MaxRestarts = 1
  MaxEdits = 1
  FolderFaults = FALSE
PROPERTIES SyncSpec RunEnds
CHECK_DEADLOCK FALSE
