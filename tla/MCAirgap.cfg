\* Two operators import two plans that share a blob, and collect the store.
SPECIFICATION FairAirgapSpec
CONSTANTS
  o1 = o1
  o2 = o2
  first = first
  second = second
  Operators = {o1, o2}
  Plans = {first, second}
  Digests = {"a", "b"}
  Needs <- MCNeeds
  Sequence <- MCSequence
  MaxFaults = 1
CHECK_DEADLOCK FALSE
INVARIANTS
  AirgapSound
PROPERTIES
  ImportConverges
