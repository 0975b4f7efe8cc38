SPECIFICATION Spec
CONSTANTS
  PowerUp = 2
  InitBytes = 1
  Slow = 2
  Fast = 1
  BlockLen = 2
  RamTop = 4
  Ram <- MCRam
  Unwritten = {1}
  Blocks = 2
  Disk <- MCDisk
  Buffers = {1}
  Delays = {6}
  Busy = {0, 2}
  MaxPolls = 1
PROPERTIES
  InitEnds
