SPECIFICATION Spec
CONSTANT MaxFaults = 1
INVARIANTS ChatInv AloneIsRight PhotoOnDisk
