SPECIFICATION Spec
CONSTANTS
  Names = {a}
  Configured = {}
  Clients = {c1, c2}
  Operators = {o1}
  Viewers = {}
  Tickers = {t1}
  Renamers = {}
  Deleters = {d1}
  StoreFails = FALSE
  MaxVersion = 4
INVARIANT DeletedLeavesNothing
