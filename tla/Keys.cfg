\* Two requests at a time of two Google users with three addresses.
CONSTANTS
  Request = {p, q}
  Google = {g, h}
  Email = {e1, e2, e3}
  UserId = {u1, u2, u3}
  Bookmark = {b1, b2, b3}
  Url = {x, y}
  EmptyUrl = empty
  NoRow = noRow
  Deleted = deleted
  Nobody = nobody
  SameUrlAtOnce = FALSE
SYMMETRY Symmetry
SPECIFICATION Spec
INVARIANTS
  AccountsAreWhole
  TokensOpenAccounts
  UrlsDistinct
PROPERTIES
  LoginFailsForAReason
