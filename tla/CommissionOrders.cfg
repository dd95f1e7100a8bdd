SPECIFICATION FairSpec
CONSTANTS
  Orders = {o1, o2}
  Buyers = {b1}
  NoBuyer = NoBuyer
  Capacities = {1, 2}
  MaxOpenPair = 2
  RequestTtl = 1
  PaymentTtl = 1
  MinQuoteTtl = 1
  MaxQuoteTtl = 1
  MaxAge = 1
  MaxQuotes = 1
  MaxAccounts = 2
INVARIANTS
  OrdersAgree
PROPERTIES
  CapacityRespected
  ImplementsLifecycle
  GuardsAccept
  PendingOrderEnds
CHECK_DEADLOCK FALSE
