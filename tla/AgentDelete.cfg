SPECIFICATION Spec
CONSTANTS
  Names = {a, b}
  Configured = {b}
  Clients = {c1}
  Operators = {o1}
  Viewers = {v1}
  Tickers = {t1}
  Renamers = {}
  Deleters = {d1}
  StoreFails = TRUE
  MaxVersion = 4
INVARIANT DeletedStateStaysGone
