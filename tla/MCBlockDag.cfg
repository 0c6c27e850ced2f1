SPECIFICATION SpecFair
CONSTANTS
  x1 = x1
  x2 = x2
  x3 = x3
  l1 = l1
  l2 = l2
  Block <- Bloecke
  Eltern <- DachEltern
  Hoehe <- DachHoehe
  Rang <- Reihe
  Laeufer <- Zwei
  MaxAbstuerze = 1
  MaxFehler = 1
INVARIANTS TypeOK VermerkHeisstWirkung NichtDoppelt KeineSpitzeUeberSpitze NachAussenAngewandt
PROPERTIES ElternZuerst JederBlockKommtAn
CHECK_DEADLOCK FALSE
