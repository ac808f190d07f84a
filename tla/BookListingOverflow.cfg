SPECIFICATION Spec
CONSTANTS
  Id <- MCId
  Title <- MCTitle
  PageRequest <- AllPages
  SizeRequest = {3}
  MaxPageSize = 3
  IntBits = 4
PROPERTIES
  PageHoldsItsBooks
