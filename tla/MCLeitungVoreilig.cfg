SPECIFICATION Spec
CONSTANTS
  a = a
  b = b
  c = c
  d = d
  e = e
  Validator <- DreiValidatoren
  StartLeiter = a
  Niemand = Niemand
  Leiterfaehig = {b}
  Abgebende = {}
  LeaseDauer = 1
  FolgerFrist = 2
  Zeitfenster = 5
  Neustartende = {}
  MaxTerm = 2
  MaxZeit = 3
INVARIANT NieZweiAnnehmende
CHECK_DEADLOCK FALSE
