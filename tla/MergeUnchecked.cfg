\* One pull request is pushed to while it is in the queue.
CONSTANTS
  Calls = {c1, c2}
  Prs = {p1}
  MaxDepth = 1
  MaxHead = 1
  MaxCalls = 3
  MaxDeaths = 0
  None = None
SPECIFICATION Spec
INVARIANT MergedIsChecked
SYMMETRY Symmetry
