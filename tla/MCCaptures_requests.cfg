\* A Suno capture of up to two clips with two cookies; a SoundCloud account of up to four
\* pages; two browser commands; collections of up to four items in pages of two;
\* Chrome writes its bookmarks three times while they are read.
SPECIFICATION Spec
CONSTANTS
  Parts = {"suno", "soundcloud", "browser", "discovery", "snapshot"}
  None = None
  Cookies = {1, 2}
  MaxExpiries = 1
  MaxEnds = 1
  MaxErrors = 1
  MaxClips = 2
  AssetKinds = {1}
  MaxHops = 3
  MaxCaptures = 1
  MaxRetries = 3
  PageCap = 3
  MaxListingPages = 4
  MaxFailures = 3
  Browsers = {1, 2}
  MaxEvents = 2
  Loops = {"suno-list", "soundcloud-tracks", "suno-project", "distrokid"}
  Items = {1, 2, 3, 4}
  PageSize = 2
  Cursors = {1, 2}
  MaxPages = 3
  Endpoints = 2
  Limits = {None, 2}
  MaxRemovals = 1
  MaxFailedRequests = 2
  Another = Another
  Attempts = 3
  MaxWrites = 3
  Cut = Cut
\* Every part is bounded.
CHECK_DEADLOCK FALSE
INVARIANTS
  CredentialsScoped
  CompleteMeansArchived
  SurvivesExpiry
  ExitZeroMeansAll
  EndpointFresh
  ChromeReaped
  CompleteMeansAll
PROPERTIES
  DiscoveryEnds
  SnapshotConsistent
