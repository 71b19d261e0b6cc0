SPECIFICATION FairSpec
CONSTANTS
  Grants = {g1, g2}
  Revokes = {v1}
  Notes = {n1, n2}
  Unfit = {n2}
  AboutOrders = {}
  AboutOthers = {g2}
  Absent = Absent
  Torn = Torn
  MaxCrashes = 1
  MaxFaults = 1
  Inventory = "inventory"
  Pairs <- MCPairs
  Registered <- MCPairs
  Matrix <- MCMatrix
  PairOf <- MCPairOf
  InitialFiles <- MCInitialFiles
INVARIANTS ReadsAreDurable AnswersAreTrue
PROPERTIES FileStaysReadable RegrantsAreNew ImplementsContract EveryRequestSettles

