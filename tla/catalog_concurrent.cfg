SPECIFICATION Spec
CONSTANTS
  p1 = p1  p2 = p2  p3 = p3  k1 = k1  k2 = k2  h1 = h1  h2 = h2  h3 = h3
  kilo = kilo  box = box
  u1 = u1  u2 = u2  u3 = u3  u4 = u4  u5 = u5  u6 = u6  u7 = u7  u8 = u8  u9 = u9  u10 = u10  u11 = u11
  Product = {p1, p2, p3}
  Assembly = {k1, k2}
  WarehouseId = {h1, h2, h3}
  Worker = {u1, u2, u3, u4, u5, u6, u7, u8, u9, u10, u11}
  Holder = {u1, u2, u3, u4, u5, u6, u7, u8, u9, u10, u11}
  Unreliable = {u4, u9}
  Request <- Requests
  Products0 <- SomeProducts
  Assemblies0 <- SomeKits
  Warehouses0 <- SomeWarehouses
  NoUnit = NoUnit
  DefaultUnit = DefaultUnit
  NoProduct = NoProduct
  LastSku = 2
  MaxMargin = 10000
  MaxRequests = 4
INVARIANTS TypeOK StoredProductsConvert KitPriced PriceKept HistoryTruthful AppliedPriceShown DrawnCodesDiffer
CHECK_DEADLOCK FALSE
