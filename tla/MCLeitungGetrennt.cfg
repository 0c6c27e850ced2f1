SPECIFICATION SpecGetrennt
CONSTANTS
  a = a
  b = b
  c = c
  d = d
  e = e
  Validator <- FuenfValidatoren
  StartLeiter = a
  Niemand = Niemand
  Leiterfaehig = {a, b, c}
  Abgebende = {a, b}
  LeaseDauer = 1
  FolgerFrist = 1
  Zeitfenster = 5
  Neustartende = {}
  MaxTerm = 3
  MaxZeit = 2
INVARIANT NieZweiAnnehmende
CHECK_DEADLOCK FALSE
