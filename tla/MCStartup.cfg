\* Miners' startup with a session cookie: the server list is fetched beside
\* the tasks that load the game.
SPECIFICATION FairSpec
CONSTANTS
  HasCookie = TRUE
  Task <- MinersTask
  First = "CreateLogo"
  Last = "CreateTiledBackground"
  Follow <- MinersFollow
  MayFail <- MinersMayFail
  Fetcher = {"LoadDefaultSkin"}
  Lister = {"ClassicGetList"}
INVARIANTS TypeOK AssertionsHold EndsOnce GameStartsLoaded ClosedOnce
PROPERTY StartupEnds
CHECK_DEADLOCK FALSE
