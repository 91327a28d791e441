SPECIFICATION Spec
CONSTANTS
  p1 = p1  p2 = p2  p3 = p3  w1 = w1  o1 = o1  o2 = o2  inv1 = inv1  inv2 = inv2  inv3 = inv3
  a1 = a1  a2 = a2  a3 = a3  a4 = a4  i1 = i1  i2 = i2  i3 = i3
  Product = {p1, p2}
  Warehouse = {w1}
  Order = {o1, o2}
  DocId = {o1, o2, inv1, inv2}
  NoWarehouse = NoWarehouse
  NoDoc = NoDoc
  FeedLimit = 3
  Worker = {c1, s1}
  Holder = {c1, s1}
  OrderWorker = {c1}
  InvoiceWorker = {s1}
  NoWorker = NoWorker
  NoEntry = NoEntry
  Faults = {"expiry"}
  OrderMsg = {a1, a2}
  InvoiceMsg = {i1, i2, i3}
  Body <- Updated
  Kits <- NoKits
  Opening <- Stock21
  Backlog <- LegacyBacklog
  MaxDeliveries = 2
  NoMsg = NoMsg
  NoTicket = NoTicket
INVARIANTS InvoiceSoldOnce LedgerExact LocksReturned
PROPERTIES TicketLife
CHECK_DEADLOCK FALSE
