SPECIFICATION Spec
CONSTANTS
  p1 = p1  p2 = p2  p3 = p3  w1 = w1  w2 = w2  r1 = r1  r2 = r2  r3 = r3  r4 = r4  r5 = r5
  d1 = d1  d2 = d2  d3 = d3  box = box  kilo = kilo
  Product = {p1, p2, p3}
  Warehouse = {w1, w2}
  Order = {}
  DocId = {d1, d2, d3}
  NoWarehouse = NoWarehouse
  NoDoc = NoDoc
  FeedLimit = 200
  Worker = {r1, r2}
  Holder = {r1, r2}
  NoWorker = NoWorker
  NoEntry = NoEntry
  Faults = {}
  NoUnit = NoUnit
  DefaultUnit = DefaultUnit
  Request <- TwiceReceived
  InboundConsumer = {}
  Catalogue <- Units
  InAssemblies = {}
  Opening <- NoStock
  MaxTries = 1
  NoTag = NoTag
INVARIANT ReceivedOnce
CHECK_DEADLOCK FALSE
