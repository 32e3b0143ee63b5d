CONSTANTS
  food = food
  lunch = lunch
  ana = ana
  None = None
  BookCategories = {food, lunch}
  ParentOf <- FoodOverLunch
  EssentialityOf <- Essentialities
  Payers = {ana}
  Entries <- SomeEntries
  CalendarDays <- SomeDays
  BusyDays <- BusyMarch
  MaxEntries = 2
SPECIFICATION ReportsSpec
INVARIANT IncomeBucketsAlike
CHECK_DEADLOCK FALSE
