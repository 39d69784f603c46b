SPECIFICATION StreamSpec
CONSTANTS
  Senders = {a, b, c}
  Sizes = {1, 2}
  Initial = 2
  MaxFlush = 2
INVARIANTS WindowInv NobodyForgotten
PROPERTIES CallsAreServed
CHECK_DEADLOCK FALSE
