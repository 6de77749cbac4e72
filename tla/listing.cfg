SPECIFICATION Spec
CONSTANTS
  Accounts = {a1}
  Clients = {c1, c2, c3}
  CacheTTL = 1
  MaxTime = 3
  MaxListings = 3
SYMMETRY ClientSymmetry
INVARIANTS OneListingInFlight ViewsMoveForward HiddenOnTheHostsWord
CHECK_DEADLOCK FALSE
