SPECIFICATION Spec
CONSTANTS
  s1 = s1
  s2 = s2
  a1 = a1
  a2 = a2
  b1 = b1
  Sources <- MCSources
  Alerts <- MCAlerts
  SourceOf <- MCSourceOf
  Severity <- MCSeverity
  Refreshers = {t1}
  MaxProfiles = 2
  MaxEvents = 2
  Blank = Blank
INVARIANTS TypeOK ToldOnce BaselineWasTold IconIsWorst
