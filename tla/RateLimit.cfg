\* Two overlapping send-code requests for one address; statements and mails fail, the
\* server dies, and the answer of the mail server is the truth.
SPECIFICATION Spec
CONSTANTS
  Names = {n1}
  Emails = {e1}
  Passwords = {p1}
  Codes = {k1, k2, k3, k4}
  MaxUsers = 1
  MaxCodes = 4
  MaxTime = 4
  CodeTTL = 3
  ZoneOffset = 0
  StoreFails = TRUE
  Nil = Nil
  Handlers = {h1, h2}
  Clis = {}
  Ops = {"send_code"}
  DayLimit = 2
  DayWindow = 4
  ShortWindow = 2
  MailOutcomes = {"delivered", "refused"}
  CodesCollide = FALSE
  Crashes = TRUE
SYMMETRY CodeSymmetry
INVARIANTS
  AccountTypeOK
  SpacedUnlessOverlapping
  DayBound
  MailedCodeIsValid
