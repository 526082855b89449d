SPECIFICATION Spec
CONSTANTS
  r1 = r1
  r2 = r2
  r3 = r3
  k1 = k1
  k2 = k2
  Methods = {"CRAWLER", "API", "BYPASS", "DOWNLOAD"}
  Row = {r1, r2, r3}
  Linkless = {r3}
  Address <- MCAddress
  Listings <- MCListings
  Setups <- MCSetups
  PageSize = 1
  MaxPages = 3
  MaxEdit = 2
  MaxDay = 2
  Rec = {1, 2, 3, 4}
  Answers <- MCAnswers
  Cap = 2
  ApiSetups <- MCApiSetups
  ApiPageSize = 1
  MaxChange = 1
  MaxState = 2
  MaxApiDay = 2
  Popup = {k1, k2}
  Recipes <- MCRecipes
  MaxListPages = 3
  SitePages = 3
  MaxVersion = 2
  MaxRun = 2
  Resolvers = {"static", "link_text", "json_list_filter"}
  MaxEdition = 3
  Chunks = 2
  Attempts = 3
  MaxDownload = 2
INVARIANTS ListOnlyIsJustified HandedIsWhole PublishedIsWhole DownloadIsOneAnswer
PROPERTIES ImplementsAtomicCrawl StableSourceIsWhole EndpointSnapshotIsOneMoment
CHECK_DEADLOCK FALSE
