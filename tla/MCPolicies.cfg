SPECIFICATION PoliciesSpec
CONSTANTS
  h1 = h1
  h2 = h2
  h3 = h3
  op = op
  guest = guest
  even = even
  odd = odd
  Handlers = {h1, h2}
  Keys = {op, guest}
  Shares = {even, odd}
  OperatorKey = op
  MaxVersion = 3
  MaxCommits = 5
SYMMETRY HandlerSymmetry
CHECK_DEADLOCK FALSE
INVARIANTS
  PoliciesSound
PROPERTIES
  TrustKept
