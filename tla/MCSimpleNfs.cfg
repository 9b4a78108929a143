\* The simple server: two clients, two files of at most three bytes.
SPECIFICATION Spec
CONSTANTS
  c1 = c1
  c2 = c2
  Client = {c1, c2}
  NInode = 4
  LOGSIZE = 1
  BlockSize = 3
  Byte = {0, 1}
  Requests <- MCRequests
  None = None
INVARIANTS ReadsAreDurable
PROPERTY ImplementsSimpleSpec
