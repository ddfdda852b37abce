CONSTANTS
  Capacity = 4
  Word = 8
  Requests = {1, 3}
SPECIFICATION LiveSpec
INVARIANTS FillStaysBounded DisjointCopies
PROPERTIES ImplementsQueue EveryCallReturns
CHECK_DEADLOCK FALSE
