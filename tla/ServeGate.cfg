\* Three handlers compete for two slots beside a scrape.
CONSTANTS
  h1 = h1
  h2 = h2
  h3 = h3
  tcp = tcp
  Nobody = Nobody
  Handlers = {h1, h2, h3}
  Listeners = {tcp}
  MaxConc = 2
  NumBuckets = 2
  MaxRequests = 3
  MaxScrapes = 1
  HdrCkMax = 3
  Many = 5
  Samples <- MCSamples
SPECIFICATION Spec
SYMMETRY Symmetry
INVARIANTS
  TypeOK
  EveryRequestCounted
  SumsAreOfTheMessage
  ScrapeIsConsistent
PROPERTIES
  BusyOnlyWhenFull
  VerdictsAreTrue
