\* One request with a session context whose date, or id, is a number.
SPECIFICATION Spec
CONSTANTS
  r1 = r1
  r2 = r2
  r3 = r3
  a1 = a1
  a2 = a2
  Requests = {r1, r2, r3}
  Agents = {a1, a2}
  NoObject = NoObject
  NoBody = NoBody
  Slots = 2
  Sizes = {0, 1, 2}
  Loads <- MCBadValues
INVARIANT BadValuesDoNotAbort
CHECK_DEADLOCK FALSE
