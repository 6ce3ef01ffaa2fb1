SPECIFICATION Spec
CONSTANTS
  Slot = {s1, s2}
  Id = {a}
  Name = {n1, n2}
  Inject = {v}
  Hash = {h1, h2}
  Unpinned = Unpinned
  Free = Free
  Malformed = Malformed
  Missing = Missing
  Proc = {p1}
  MaxCommands = 2
  MaxNew = 1
INVARIANTS
  ResolvesExactlyOne
