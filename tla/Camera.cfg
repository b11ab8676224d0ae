SPECIFICATION Spec
CONSTANTS
  rom = rom  booted = booted  l1 = l1  l2 = l2  None = None
  Devices = {rom, booted}
  Booted = {booted}
  Links = {l1, l2}
  MaxPlugs = 4
INVARIANTS OneOpening LinkReleased
CHECK_DEADLOCK FALSE
