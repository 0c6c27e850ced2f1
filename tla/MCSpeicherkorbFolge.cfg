SPECIFICATION SpecFair
CONSTANTS
  s1 = s1
  s2 = s2
  s3 = s3
  z1 = z1
  z2 = z2
  Schnell <- ZweiSchnelle
  Langsam <- EineLangsame
  Konten <- GemeinsameKonten
  Deckel = 2
  MaxAbstuerze = 1
  MaxFehler = 1
  Kuerzt = FALSE
  Ueberholt = FALSE
PROPERTIES HaeltAusgangsfolge Kommt ZeileKommt
