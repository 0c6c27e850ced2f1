SPECIFICATION Spec
CONSTANTS
  a = a
  b = b
  c = c
  d = d
  e = e
  Validator <- ZweiValidatoren
  StartLeiter = a
  Niemand = Niemand
  Leiterfaehig = {a, b}
  Abgebende = {a, b}
  LeaseDauer = 1
  FolgerFrist = 1
  Zeitfenster = 1
  Neustartende = {a, b}
  MaxTerm = 3
  MaxZeit = 3
INVARIANTS NieZweiAnnehmende 
CHECK_DEADLOCK FALSE
