\* Six filters, three loads in flight.
SPECIFICATION FairSpec
CONSTANTS
  Items <- MCItems
  Filters <- MCFilters
  Loads = {l1, l2, l3}
INVARIANT TypeOK
PROPERTY ViewSpec
PROPERTY ReloadEnds
