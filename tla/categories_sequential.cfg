SPECIFICATION Spec
CONSTANTS
  a = a  b = b  c = c  w1 = w1  w2 = w2
  Category = {a, b, c}
  Product = {p1}
  Root = Root
  Worker = {w1}
  Holder = {w1}
  May <- OneServesAll
  Tree <- Chain
  MaxRequests = 4
  NoRequest = NoRequest
INVARIANTS EveryCategoryShown NothingDangles
CHECK_DEADLOCK FALSE
