SPECIFICATION Spec
CONSTANTS
  PowerUp = 2
  InitBytes = 1
  Slow = 2
  Fast = 1
  BlockLen = 3
  RamTop = 5
  Ram <- MCRam
  Unwritten = {2}
  Blocks = 2
  Disk <- MCDisk
  Buffers = {1}
  Delays = {0, 5}
  Busy = {0, 2}
  MaxPolls = 1
INVARIANTS InStep BlockCopied
PROPERTIES InitEnds TransferEnds
