SPECIFICATION NodeSpec
CONSTANTS
  None = None
  v1 = v1  v2 = v2  boot = boot
  t1 = t1  t2 = t2
  Volumes = {v1, v2}
  Mode <- Modes
  Locals = {boot}
  LocalUnit <- BootUnit
  Reserved = {8, 9}
  MaxVolumesPerNode = 2
  Threads = {t1, t2}
  Contexts <- TwoContexts
  Repeats = {"Stage", "Unstage", "Unpublish"}
SYMMETRY Symmetry
INVARIANTS NodeTypeOK MountsOwnDisk PublishedIsMounted
PROPERTIES DataNeverFormatted ImplementsNodeVolumes
