\* Every request comes to an end, or to the mail server, under every fault.
SPECIFICATION FairSpec
CONSTANTS
  Names = {n1}
  Emails = {e1}
  Passwords = {p1}
  Codes = {k1}
  MaxUsers = 1
  MaxCodes = 2
  MaxTime = 0
  CodeTTL = 2
  ZoneOffset = 0
  StoreFails = TRUE
  Nil = Nil
  Handlers = {h1}
  Clis = {c1}
  Ops = {"send_code", "register", "login", "ban", "unban", "delete", "promote", "create_admin"}
  DayLimit = 2
  DayWindow = 4
  ShortWindow = 1
  MailOutcomes = {"delivered", "refused", "lost_ack"}
  CodesCollide = TRUE
  Crashes = TRUE
PROPERTIES
  AnsweredUnlessMailing
