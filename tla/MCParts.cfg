CONSTANTS
  NoActor = NoActor
  People = {p1, p2}
  Groups = {g1}
  Listings <- NumberAndLid
  Requests = {x1, x2}
  MaxRequests = 2
  MaxMessages = 1
  MaxDirErrors = 1
  Cats = {c1, c2, c3}
  Top = Top
  Keep = Keep
  SeedParent <- OneUnderOther
  SeedKind <- Expenses
  Patches = {x1, x2}
  MaxPatches = 3
  MaxCatErrors = 1
  Processes = {x1, x2}
  NoProcess = NoProcess
  LastVersion = 3
  FinanceVersion = 3
  Binaries <- Deploys
  MaxRuns = 3
  MaxBreaks = 1
  Flows = {x1, x2}
  NoFlow = NoFlow
  MaxRestarts = 2
  MaxCodes = 2
  MaxLogouts = 1
  MaxTrouble = 1
  Logins = {x1, x2}
  Addresses = {"home", "phone"}
  SessionTTL = 2
  LoginWindow = 2
  Cooldown = 1
  MaxPerIP = 2
  MaxGlobal = 3
  MaxAddresses = 1
  MaxTime = 3
  MaxCookies = 2
  MaxTries = 3
  MaxRestart = 1
  Workspaces = {w1}
  Categories = {food, home}
  Touches <- ChildAndParent
  MaxLines = 1
  Faults <- AllFaults
  MaxChanges = 2
  MaxPanel = 1
  MaxFaults = 1
  MaxCrashes = 1
  food = food
  lunch = lunch
  ana = ana
  None = None
  BookCategories = {food, lunch}
  ParentOf <- FoodOverLunch
  EssentialityOf <- Essentialities
  Payers = {ana}
  Entries <- SomeEntries
  CalendarDays <- SomeDays
  BusyDays <- BusyMarch
  MaxEntries = 2
  w1 = w1
  home = home
  p1 = p1
  p2 = p2
  g1 = g1
  x1 = x1
  x2 = x2
  c1 = c1
  c2 = c2
  c3 = c3
SYMMETRY Interchangeable
SPECIFICATION PartsSpec
INVARIANTS PartsTypeOK MapFollowsTable OnePersonPerRow SplitIsExcused CategoriesAgree StatusHolds SchemaGrowsInOrder ShownCodeIsLatest LinkedStaysOnline SessionsEnd LimiterCounts ReportsAgree DatesHold LevelsRise SummaryOnce MarkedIsSaid
CHECK_DEADLOCK FALSE
