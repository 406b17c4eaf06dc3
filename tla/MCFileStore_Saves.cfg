SPECIFICATION StoreSpec
CONSTANTS
  Writers = {w1, w2}
  Values = {a, b}
  Inodes = {i1, i2, i3}
  NoInode = noInode
  Nil = nil
  Idle = idle
  Done = done
  Shared = TRUE
  Synced = FALSE
  PowerCuts = FALSE
INVARIANT NeverTruncated
