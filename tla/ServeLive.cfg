\* Two handlers that share the mutex with a scrape, two listeners.
CONSTANTS
  h1 = h1
  h2 = h2
  tcp = tcp
  unix = unix
  Nobody = Nobody
  Handlers = {h1, h2}
  Listeners = {tcp, unix}
  MaxConc = 2
  NumBuckets = 1
  MaxRequests = 2
  MaxScrapes = 1
  HdrCkMax = 3
  Many = 5
  Samples <- MCSample
SPECIFICATION FairSpec
PROPERTIES
  RequestsEnd
  OneFailureEndsAll
