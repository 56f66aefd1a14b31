SPECIFICATION Spec
CONSTANTS
  work = work
  part = part
  rest = rest
  TaskId = {work, part, rest}
  Above <- MCAbove
  MenuSize = 2
  MaxWrites = 3
INVARIANTS
  DesktopTypeOK
  CommandsHitTheSelection
  WindowTellsTruth
