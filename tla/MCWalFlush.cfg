SPECIFICATION Spec
CONSTANTS
  a = a
  b = b
  c = c
  t1 = t1
  t2 = t2
  t3 = t3
  Konten <- DreiKonten
  Schnell <- Alle
  Seriell <- NurT2
  Von <- VonKette
  Nach <- NachKette
  Nonce <- NonceKette
  Buendel = 1
  Arbeiter = 2
  Abstand = 1
  Wechsel <- BleibtOderAus
  Nacheinander = TRUE
  MaxAbstuerze = 1
  MaxFehler = 1
  MaxFrist = 1
  MaxErsatz = 0
  MaxKuerzungen = 1
  ErsatzUnterbrochen = FALSE
INVARIANTS TypeOK NichtDoppelt GanzOderGarNicht QuittiertesWirkt GenauEinAusgang SeqSagtSaldo NonceReiheOhneAbsturz NonceVerbraucht StartVerweigertNurBeiSchaden
CHECK_DEADLOCK FALSE
