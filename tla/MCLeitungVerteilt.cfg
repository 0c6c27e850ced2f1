SPECIFICATION Spec
CONSTANTS
  a = a
  b = b
  c = c
  Validator <- DreiValidatoren
  Zuteilung <- Ring
  StartLeiter = a
  Niemand = Niemand
  LeaseDauer = 2
  FolgerFrist = 4
  Ruhezeit = 2
  Verzug = 1
  Abgebende = {a}
  Annehmende = {b}
  Gestoerte = {a, b}
  Spaete = {b}
  Trennungen <- EinKnoten
  Stoerungen = 2
  MaxTerm = 2
INVARIANTS EinAnnehmenderJeKonto  
CHECK_DEADLOCK FALSE
