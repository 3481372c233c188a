SPECIFICATION Spec
CONSTANTS
  Names = {a, b}
  Configured = {}
  Clients = {c1}
  Operators = {}
  Viewers = {v1}
  Tickers = {t1}
  Renamers = {n1}
  Deleters = {d1}
  StoreFails = FALSE
  MaxVersion = 3
INVARIANT ChangesLand
