SPECIFICATION FairSpec
CONSTANTS
  None = None
  t1 = t1  t2 = t2
  w1 = w1  w2 = w2  w3 = w3
  v1 = v1  v2 = v2  v3 = v3
  n1 = n1  n2 = n2  n3 = n3
  h1 = h1  h2 = h2  h3 = h3
  Threads = {t1, t2}
  Vdcs = {w1}
  Names = {v1}
  Vms = {n1}
  Hrefs = {h1, h2}
  HomeVdc <- OneVdc
  VmVdc <- AllInW1
  Sizes = {1}
  ReservedUnits = {8}
  ForeignUnits <- NoForeignUnits
  Faults = {"api", "lost", "crash"}
  MaxOrphans = 1
INVARIANT RequestsSerialized
PROPERTY CallsReturn
