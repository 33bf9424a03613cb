\* Tokens and relays of two accounts, past their lifetimes.
SPECIFICATION SpecTokens
CONSTANTS
  Tokens = {t1, t2}
  Media = {"exhigh", "higher", "standard", "song_url", "dash", "dash_backup", "durl"}
  Cookies = {u1, u2}
  TTL = 1
  MaxTime = 3
  Pause = 1
  None = None
  Handlers = {h1, h2}
  Providers = {"netease", "bilibili"}
  Levels = {"exhigh", "higher", "standard"}
  Modes = {TRUE}
  Flaky = FALSE
  ClientTimeout = 1
SYMMETRY PlaySymmetry
INVARIANTS
  NeteaseUrlPlays
  BilibiliUrlPlays
  RelaysItsToken
PROPERTIES
  LeaseSpec
  HandOutCleans
