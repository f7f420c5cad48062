SPECIFICATION Spec
CONSTANTS
  t1 = t1
  t2 = t2
  a = a
  b = b
  c = c
  None = None
  Turns = {t1, t2}
  Ids = {a, b, c}
  MaxCache = 2
  MaxInput = 5
SYMMETRY Interchangeable
INVARIANTS
  TypeOK
  InStep
  MessagesKept
  WholeConversation
CHECK_DEADLOCK FALSE
