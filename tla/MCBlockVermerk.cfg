SPECIFICATION Spec
CONSTANTS
  x1 = x1
  x2 = x2
  x3 = x3
  l1 = l1
  l2 = l2
  Block <- Bloecke
  Eltern <- KetteEltern
  Hoehe <- KetteHoehe
  Rang <- Reihe
  Laeufer <- Zwei
  MaxAbstuerze = 0
  MaxFehler = 1
SYMMETRY Tausch
INVARIANT WirkungMitVermerk
CHECK_DEADLOCK FALSE
