CONSTANTS
  Null = Null
  m1 = m1
  m2 = m2
  m3 = m3
  Base = Base
  Deriv = Deriv
  Alias = Alias
  Modules = {m1, m2, m3}
  Interps = {tcl}
  Names = {Base, Deriv, Alias}
  Data = {d}
  TypeInitial <- MCTypeInitial
  CastInitial <- MCCastInitial
  Converters <- MCConverters
  StaticData <- MCStaticData
SPECIFICATION Spec
INVARIANTS
  TypeOK
  WellLinked
  PrevIsThere
  OneStructPerType
  CastsComplete
  ClientDataPropagated
  CircularList
PROPERTY CallsReturn
