SPECIFICATION Spec
CONSTANTS
  Names = {n1, n2}
  NoName = NoName
  Passwords = {p1}
  Tabs = {t1, t2}
  Here = t1
  MaxUsers = 2
  Tables = {"history"}
  MaxClicks = 2
  Stocks = {"AAPL", "IBM"}
  DefaultStock = "AAPL"
  NoStock = NoStock
  MaxBlurs = 2
INVARIANTS TypeOK  NeverReinitialised 
PROPERTIES OwnRow RefreshShows MessageFetched ChartCatchesUp
