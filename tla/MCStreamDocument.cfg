CONSTANTS
  Inputs <- SomeInputs
  Namespaces = {"x"}
  Number <- NumberOf
SPECIFICATION Spec
INVARIANTS EachInItsPlace FormatsAgree
CHECK_DEADLOCK FALSE
