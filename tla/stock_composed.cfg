SPECIFICATION Spec
CONSTANTS
  p1 = p1  w1 = w1  w2 = w2  o1 = o1  o2 = o2  inv1 = inv1  inv2 = inv2  d1 = d1
  a1 = a1  a2 = a2  i1 = i1  i2 = i2  r1 = r1  box = box
  Product = {p1}
  Warehouse = {w1, w2}
  Order = {o1, o2}
  DocId = {o1, o2, inv1, inv2, d1}
  NoWarehouse = NoWarehouse
  NoDoc = NoDoc
  FeedLimit = 200
  NoWorker = NoWorker
  NoEntry = NoEntry
  Faults = {}
  Opening <- TwoInW1
  OrderWorker = {c1}
  InvoiceWorker = {s1}
  OrderMsg = {a1, a2}
  InvoiceMsg = {i1, i2}
  Body <- Messages
  Kits <- NoKits
  Backlog <- NoBacklog
  MaxDeliveries = 1
  NoMsg = NoMsg
  NoTicket = NoTicket
  Requester = {r1}
  InboundConsumer = {}
  Request <- Requests
  Catalogue <- Units
  InAssemblies = {}
  MaxTries = 1
  NoTag = NoTag
  NoUnit = NoUnit
  DefaultUnit = DefaultUnit
INVARIANTS LedgerExact CacheShowsStock PromisesKept
PROPERTIES OpenReservationsHold
CHECK_DEADLOCK FALSE
