CONSTANTS
  child_ep = child_ep
  root_ep = root_ep
  Threads = {child_ep, root_ep}
  Childs = {child_ep}
  Monitor = monitor
  Nobody = nobody
  Absent = absent
  FreshPointers <- NullOnly
  Parallel = FALSE
  MaxSessions = 4
  MaxCalls = 1
  Name <- MCName
  Config <- MCConfig
  Budget <- MCBudget
  Labels <- MCLabels
  Announced = {"timer"}
  Requests <- MCRequests
  ModuleServices = {"pd", "cpu", "timer"}
  ParentServices = {"pd", "cpu", "rm", "rom", "log"}
  Services = {"pd", "timer", "other"}
SPECIFICATION ChildSpec
CHECK_DEADLOCK FALSE
INVARIANTS
  OneInfoPerName
  PointersAreOpen
  SoleSessionIsRegistered
  FaultsHaveACause
  RegisteredIsCheckpointed
  NotifiedMeansGiven
