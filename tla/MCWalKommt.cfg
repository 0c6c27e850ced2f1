SPECIFICATION SpecFair
CONSTANTS
  a = a
  b = b
  c = c
  t1 = t1
  t2 = t2
  t3 = t3
  Konten <- DreiKonten
  Schnell <- T1T2
  Seriell <- NurT1
  Von <- VonKette
  Nach <- NachKette
  Nonce <- NonceKette
  Buendel = 1
  Arbeiter = 2
  Abstand = 1
  Wechsel <- BleibtOderAus
  Nacheinander = FALSE
  MaxAbstuerze = 1
  MaxFehler = 1
  MaxFrist = 0
  MaxErsatz = 1
  MaxKuerzungen = 1
  ErsatzUnterbrochen = FALSE
INVARIANTS NichtDoppelt
PROPERTIES QuittiertesKommt
CHECK_DEADLOCK FALSE
