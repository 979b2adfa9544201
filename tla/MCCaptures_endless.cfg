\* The pages of a Suno project, from a provider that answers anything.
SPECIFICATION Spec
CONSTANTS
  Parts = {"discovery"}
  None = None
  Cookies = {1, 2}
  MaxExpiries = 1
  MaxEnds = 1
  MaxErrors = 1
  MaxClips = 2
  AssetKinds = {1}
  MaxHops = 3
  MaxCaptures = 1
  MaxRetries = 3
  PageCap = 3
  MaxListingPages = 4
  MaxFailures = 3
  Browsers = {1, 2}
  MaxEvents = 2
  Loops = {"suno-project"}
  Items = {1, 2, 3, 4}
  PageSize = 2
  Cursors = {1, 2}
  MaxPages = 3
  Endpoints = 2
  Limits = {None, 2}
  MaxRemovals = 1
  MaxFailedRequests = 2
  Another = Another
  Attempts = 3
  MaxWrites = 3
  Cut = Cut
CHECK_DEADLOCK FALSE
PROPERTY
  ProjectPagesEnd
