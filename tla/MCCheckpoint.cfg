SPECIFICATION Spec
CONSTANTS
  a = a
  b = b
  c = c
  d = d
  p = p
  q = q
  r = r
  Validator <- VierValidatoren
  Block <- DreiBloecke
  Keiner = Keiner
  Zeit <- BlockZeit
  Eltern <- BlockEltern
  Komitee <- AlleImKomitee
  Leitende = {a, d}
  Rueckweg <- Wege
  Stoerbar = {a}
  SlotLaenge = 2
  RueckToleranz = 2
  WahlMindestAlt = 2
  HoechstensAlt = 2
  MindestKomitee = 4
  Gleichzeitig = 1
  MaxZeit = 6
  MaxStoerungen = 1
SYMMETRY Tausch
INVARIANTS TypeOK KeinDoppelsignieren EinZertifikatJeSlot KetteJeKnoten
PROPERTY SlotsVorwaerts
CHECK_DEADLOCK FALSE
