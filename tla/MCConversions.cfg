SPECIFICATION MCSpec
CONSTANTS
  MaxVersion = 3
  Shipped = 2
  MaxStops = 3
INVARIANTS
  NamesAreTrue
  RecordsResolve
PROPERTIES
  CarriesAll
  MovesEnd
