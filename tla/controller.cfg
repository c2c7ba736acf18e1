SPECIFICATION FairControllerSpec
CONSTANTS
  None = None
  t1 = t1  t2 = t2
  v1 = v1  v2 = v2
  n1 = n1  n2 = n2
  Threads = {t1, t2}
  Names = {v1}
  Vms = {n1}
  Units = {0, 8}
  Requests <- DriverCalls
  Errs <- Errors
  SureDelete = TRUE
  MaxLeft = 1
  MiB = 2
  Minimum = 2
  Default = 4
  Maximum = 6
  CreateRanges <- OneMb
  Ranges <- AnyRange
  Patient = TRUE
  Crashes = TRUE
INVARIANTS ControllerTypeOK ExpandedIsLarge PublishedUnit CapacityAnswered
PROPERTIES ExpandNeverShrinks RpcsAnswered
