\* Turns repeated within and across sessions, refused, replayed and lost.
SPECIFICATION Spec
CONSTANTS
  Sessions = {s1, s2}
  Texts = {t1, t2, t3, ok}
  Noise = {ok}
  FingerprintCap = 2
  DelegationEnabled = TRUE
  MaxQueue = 2
  MaxTurns = 3
  MaxEvents = 3
INVARIANTS TypeOK NoDoubleWrite BackstopCapturesTexts
\* The host may stop.
CHECK_DEADLOCK FALSE
