\* Two tabs, two patterns, two commands, two submissions, one error of the server.
CONSTANTS
  p1 = p1
  p2 = p2
  x = x
  xy = xy
  xyz = xyz
  u1 = u1
  Pattern = {p1, p2}
  NoText = notext
  TagPath = {x, xy, xyz}
  Suggested <- MCSuggested
  Url = {u1, u2}
  NoUrl = nourl
  Above <- MCAbove
  AtServer <- MCAtServer
  MaxCommands = 2
  MaxEdits = 4
  MaxSubmits = 2
  MaxErrors = 1
SPECIFICATION Spec
CHECK_DEADLOCK FALSE
INVARIANTS
  OnePage
  FormIsForTab
  SavedAsMeant
  TypedIsAsked
