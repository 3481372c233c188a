SPECIFICATION Spec
CONSTANTS
  Names = {a}
  Configured = {}
  Clients = {}
  Operators = {o1}
  Viewers = {}
  Tickers = {t1}
  Renamers = {}
  Deleters = {}
  StoreFails = FALSE
  MaxVersion = 4
INVARIANT KillsPersist
