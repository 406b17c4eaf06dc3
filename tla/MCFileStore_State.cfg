SPECIFICATION StoreSpec
CONSTANTS
  Writers = {w1, w2}
  Values = {a, b}
  Inodes = {i1, i2, i3, i4, i5}
  NoInode = noInode
  Nil = nil
  Idle = idle
  Done = done
  Shared = FALSE
  Synced = TRUE
  PowerCuts = TRUE
SYMMETRY InodeSymmetry
PROPERTY Implements
