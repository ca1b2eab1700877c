\* Three interchangeable processes, as many inodes.
CONSTANTS
  Procs = {p1, p2, p3}
  Inodes = {i1, i2, i3}
  NoInode = NoInode
  NoOne = NoOne
  Empty = Empty
SYMMETRY Symmetry
SPECIFICATION InstancesSpec
INVARIANTS
  SingleOwner
  PidNamesOwner
  LiveSocketKept
