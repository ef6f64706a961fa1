SPECIFICATION Spec
CONSTANTS
  Strings = {1, 2}
  Blocks = {"b1", "b2", "b3"}
  InlineCapacity = 1
  Sizes = {1, 2}
  MaxSize = 4
INVARIANT TextsKept
CHECK_DEADLOCK FALSE
