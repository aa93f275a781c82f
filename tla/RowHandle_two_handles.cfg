SPECIFICATION Spec
CONSTANTS
  page = page
  turn = turn
  seeded = seeded
  shared = shared
  own = own
  queue = queue
  v = v
  Handle = {page, turn}
  Key = {seeded, shared, own, queue}
  Bookkeeping = {queue}
  Audited = {shared, own}
  Content = {v, w, big}
  Oversized = {big}
  Gone = gone
  Base <- SeedAndSubgraph
  Dropping = {}
  Retrying = {page}
  MaxTouched = 2
  MaxMutations = 2
  MaxFailures = 1
INVARIANTS
  TypeOK
  ReadsWhatAFreshHandleWould
  OnlySessionRowsAreWritten
PROPERTIES
  OnlyMeantRowsMove
