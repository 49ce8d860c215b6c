CONSTANTS
  m1 = m1
  m2 = m2
  m3 = m3
  i1 = i1
  i2 = i2
  NoId = NoId
  NoWeek = NoWeek
  WeekLength = 2
  Menus = {m1, m2, m3}
  SavedIds = {i1, i2}
SPECIFICATION SpecPage
INVARIANTS SavedIdUnlessMixed DistinctUnlessCrossed
