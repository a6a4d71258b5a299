CONSTANTS
  Files = {1}
  Triples <- AllTriples
  Flags = {0, 1}
  Largest = 12
  Inputs <- AllData
  Length = 4
  ItemValues = {1, 2, 3}
  Counts <- Arguments
  Numbers = {1, 2, 3, 4, 5, 6, 8, 9, 10, 12, 13, 15, 16, 18}
  Letters = 2
  Characters = {64, 65, 66, 67, 96, 97, 98, 99}
  Texts = {0, 1, 2, 3, 4}
  Cipher <- Exchange
  Room = 4
  Values <- AroundZero
  Starts <- ProgramOrSorter
SPECIFICATION Spec
PROPERTIES
  OrderedEnds
CHECK_DEADLOCK FALSE
