\* Both modes of Netease and Bilibili, every set of media they may have, calls that fail.
SPECIFICATION FairSpec
CONSTANTS
  Tokens = {t1}
  Media = {"lossless", "exhigh", "higher", "standard", "song_url", "dash", "dash_backup", "durl"}
  Cookies = {u1}
  TTL = 1
  MaxTime = 0
  Pause = 0
  None = None
  Handlers = {h1}
  Providers = {"netease", "bilibili"}
  Levels = {"lossless", "exhigh", "higher", "standard"}
  Modes = {TRUE, FALSE}
  Flaky = TRUE
  ClientTimeout = 1
INVARIANTS
  PlaybackTypeOK
  ServesTheBest
PROPERTIES
  PlaybackAnswered
