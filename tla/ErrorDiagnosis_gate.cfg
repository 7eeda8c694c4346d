SPECIFICATION Spec
CONSTANTS
  a1 = a1
  a2 = a2
  w1 = w1
  Runs = {r1, r2, r3}
  Apps <- MCApps
  Spikes <- MCSpikes
  KeyLen = 1
  Headlines = {h1}
  Keywords = {w1}
  KeywordOf <- MCKeywordOf
  Quoted = {}
  Mangled = {}
  Alike <- MCAlike
  Shapes = {"notDict"}
  Cooldown = 2
  HistoryMax = 2
  MaxTime = 3
  MaxRestarts = 1
  MaxCloses = 0
  Never = Never
SYMMETRY MCSymmetry
INVARIANTS CooldownKept SuppressionExplained HistoryComplete
CHECK_DEADLOCK FALSE
