SPECIFICATION Spec
CONSTANTS
  a = a
  b = b
  c = c
  d = d
  e = e
  Validator <- DreiValidatoren
  StartLeiter = a
  Niemand = Niemand
  Leiterfaehig = {b}
  Abgebende = {a}
  LeaseDauer = 1
  FolgerFrist = 1
  Zeitfenster = 5
  Neustartende = {a, b, c}
  MaxTerm = 2
  MaxZeit = 3
ACTION_CONSTRAINT LetzterMoment
INVARIANTS TypeOK OhneVoreiligeEinAnnehmender
PROPERTY TermBindet
CHECK_DEADLOCK FALSE
