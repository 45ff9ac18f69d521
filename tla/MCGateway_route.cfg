CONSTANTS
  mini = mini
  local = local
  large = large
  Catalog <- MCCatalog
  ComplexityFloor <- MCFloor
  MaxCandidates = 2
SPECIFICATION GatewaySpec
PROPERTIES
  PlacesKept
  RouteIsCheapestFirst
