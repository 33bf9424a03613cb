\* A delete request overlapping another request of an admin.
SPECIFICATION SpecCodesSent
CONSTANTS
  Names = {n1, n2}
  Emails = {e1, e2}
  Passwords = {p1}
  Codes = {k1}
  MaxUsers = 2
  MaxCodes = 2
  MaxTime = 0
  CodeTTL = 2
  ZoneOffset = 0
  StoreFails = FALSE
  Nil = Nil
  Handlers = {h1, h2}
  Clis = {}
  Ops = {"register", "delete", "promote"}
  DayLimit = 2
  DayWindow = 4
  ShortWindow = 1
  MailOutcomes = {"delivered", "refused"}
  CodesCollide = TRUE
  Crashes = FALSE
PROPERTIES
  DeleteSparesAdmins
