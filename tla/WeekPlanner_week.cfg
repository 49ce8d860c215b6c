CONSTANTS
  a1 = a1
  a2 = a2
  a3 = a3
  b1 = b1
  Menus <- MCMenus
  GenreOf <- MCGenreOf
  WeekLength = 4
  StreakLimit = 2
  Filters <- MCFilters
  Histories <- MCHistories
  NoMenu = NoMenu
  NoDay = NoDay
SPECIFICATION Spec
INVARIANTS RelaxedOnlyIfForced NeverStuck
PROPERTIES RerollFresh LeastRelaxed
