CONSTANTS
  Null = Null
  m1 = m1
  m2 = m2
  m3 = m3
  Base = Base
  Deriv = Deriv
  Alias = Alias
  Modules = {m1, m2, m3}
  Interps = {tcl, other}
  Names = {Base}
  Data = {}
  TypeInitial <- BaseOnly
  CastInitial <- BaseCast
  Converters = {}
  StaticData <- NoData
SPECIFICATION Spec
INVARIANT ListsLeadBack
