\* Favourites, playlists and QR logins, two requests at once, calls that fail.
SPECIFICATION FairSpec
CONSTANTS
  Handlers = {h1, h2}
  Accounts = {a1}
  Songs = {s1}
  MaxPlaylists = 2
  MaxKeys = 1
  Modes = {TRUE, FALSE}
  Flaky = TRUE
  None = None
INVARIANTS
  NeteaseTypeOK
  OnePlaylistUnlessDisturbed
  WordIsKept
  ConfirmationIsReported
PROPERTIES
  NeteaseAnswered
