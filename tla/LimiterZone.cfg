\* One request at a time, on a server whose local time is ahead of UTC.
SPECIFICATION Spec
CONSTANTS
  Names = {n1}
  Emails = {e1}
  Passwords = {p1}
  Codes = {k1}
  MaxUsers = 1
  MaxCodes = 2
  MaxTime = 1
  CodeTTL = 2
  ZoneOffset = 1
  StoreFails = FALSE
  Nil = Nil
  Handlers = {h1}
  Clis = {}
  Ops = {"send_code"}
  DayLimit = 2
  DayWindow = 4
  ShortWindow = 1
  MailOutcomes = {"delivered"}
  CodesCollide = TRUE
  Crashes = FALSE
INVARIANTS
  OneCodePerMinute
