\* Two pull requests are pushed to, closed, admitted, merged and removed by two
\* calls at a time; the queue holds one or two entries.
CONSTANTS
  Calls = {c1, c2}
  Prs = {p1, p2}
  MaxDepth = 2
  MaxHead = 1
  MaxCalls = 4
  MaxDeaths = 1
  None = None
SPECIFICATION Spec
INVARIANTS
  TypeOK
  
  MergedMeansMerged
  QuietRemovalIsFinal
  QueueIsInOrder
SYMMETRY Symmetry
