\* Three servers with three, one and no tables; up to 3 clicks.
SPECIFICATION Spec
CONSTANTS
  full = full
  other = other
  empty = empty
  local = local
  archive = archive
  odd = odd
  Servers = {full, other, empty}
  Tables = {local, archive, odd}
  NoTable = NoTable
  None = None
  Default = local
  Listed <- MCListed
  Odd = {odd}
  Columns <- MCColumns
  Pages = 2
  MaxClicks = 3
INVARIANT ShownIsCurrent
INVARIANT SelectionExists
CHECK_DEADLOCK FALSE
