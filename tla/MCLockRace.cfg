SPECIFICATION Spec
CONSTANTS
  p1 = p1  p2 = p2  i1 = i1  i2 = i2  i3 = i3
  Proc = {p1, p2}
  Inode = {i1, i2, i3}
  NoFile = NoFile
  NoPID = NoPID
  MaxAttempts = 0
INVARIANTS MutualExclusion
