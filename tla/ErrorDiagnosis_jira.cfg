SPECIFICATION Spec
CONSTANTS
  a1 = a1
  a2 = a2
  w1 = w1
  Runs = {r1, r2}
  Apps <- MCApps
  Spikes <- MCSpikeBoth
  KeyLen = 3
  Headlines = {h1}
  Keywords = {w1}
  KeywordOf <- MCKeywordOf
  Quoted = {}
  Mangled = {w1}
  Alike <- MCAlike
  Shapes = {"ok", "noPerApp", "nullApp"}
  Cooldown = 2
  HistoryMax = 2
  MaxTime = 0
  MaxRestarts = 0
  MaxCloses = 1
  Never = Never
INVARIANTS TypeOK HistoryTruthful TicketsNotDuplicated
SYMMETRY MCSymmetry
CHECK_DEADLOCK FALSE
