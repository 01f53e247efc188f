SPECIFICATION Spec
SYMMETRY Symmetry
CONSTRAINTS FewRepeats FewRetries
CONSTANTS
  Checks <- Registry
  Letter <- LetterOf
  Weight <- WeightOf
  Method <- MethodOf
  FixType <- FixOf
  GeoNumber <- GeoOf
  MaxRedirects = 1
  Workloads <- Jobs
  Snapshots <- Results
  Client = {"own", "own2"}
  Worlds <- Sites
  Answers <- Said
  LocalFamily <- Family
  LocalPacks <- Packs
  SiteHosts = {"own"}
  BrandTerms = {"Own"}
  CrawlOnly = {"j5"}
  Cap = 9
  Estimate = 6
  Prices = {3, 10}
  MAX_RETRIES = 1
  Revised = {"a1"}
  MaxVersion = 2
  MaxAttempts = 2
  RobotsLines <- FileLines
  MaxLines = 5
  Crawlers <- Bots
  Googlebot <- TheGooglebot
  AiCrawlers <- TheAiBots
  EveryCrawler <- AnyBot
  SitemapSites <- SiteMaps
  Declarations <- Declared
  DefaultSitemap = "default"
  IndexSitemap = "index"
  Target = "target"
  MAX_INDEX_DEPTH = 1
  MAX_SUBSITEMAPS_PER_INDEX = 2
  SAMPLE_SIZE = 3
  FILE_LIMIT = 1
  Sights <- Seen
  NoClicks = none
  Buyers = {b1}
  Keywords <- Ranked
  Present = {}
  Ranking <- Rows
  ClientHosts = {"own"}
  Denied = {}
  Limits = {1, 11}
  Lists <- Named
  Domains = {"a"}
  SnoozeDays = 1
  LastDay = 3
  Items = {i}
  Workers = {w1, w2}
  LoopAttempts = 2
  MaxLost = 1
  MaxRepeats = 2
  Served <- Pages
  Costs = {0, 5}
INVARIANTS
  DoneIsWhole
  UnbookedIsBounded
  FallIsAccountedFor
  NoFailureDropped
  VerdictsFollowTheRfc
  MissingMeansMissing
  DraftsAreASequence
  StatusHasItsTrail
PROPERTIES
  OperatorDecisionsStand
  ReviewOnlyAfterALoss
CHECK_DEADLOCK FALSE
