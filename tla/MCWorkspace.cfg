SPECIFICATION Spec
CONSTANTS
  IdsKeys = {a, b}
  IdsMaxId = 11
  IdsMaxRestarts = 1
  SnapUncorrelated = {"orders_end"}
  SnapBudgets <- MCSnap
  SnapMaxQueue = 2
  IncScenarios <- MCInc
  CryptoUnits = 2
  CryptoMaxOrders = 3
  CryptoBudgets <- MCCrypto
  FXMaxOrders = 3
  FXBudgets <- MCFx
  WfRuns = {"r1", "r2"}
  WfActors = {"a", "b"}
  WfBudgets <- MCWf
  StockShares = 3
  StockPrices = {1, 2}
  StockBudgets <- MCStock
  AdapterQuantity = 2
  AdapterCallbackIds = {"c1", "c2"}
  AdapterBudgets <- MCAdapter
  StratRuns = {"r1", "r2"}
  StratBudgets <- MCStrat
  BrkSetups <- MCBrk
  SimOrders = {"a", "b"}
  SimSetups <- MCSim
  FeedsSetups <- MCFeeds
  RepSetups <- MCTapes
  CreditRuns = {"r1", "r2"}
  CreditSetups <- MCCredit
  ArmRuns = {"r1", "r2"}
  ArmContracts = {"c1", "c2"}
  ArmActions = {"a1", "a2"}
  ArmSetups <- MCArms
INVARIANTS TypeOK SellsAreCovered TradesAgree OthersAgree
PROPERTIES TradesAct OthersAct WorkIsSettled
CHECK_DEADLOCK FALSE
