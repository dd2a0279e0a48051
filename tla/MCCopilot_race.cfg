SPECIFICATION FairSpec
CONSTANTS
  a1 = a1 a2 = a2 q1 = q1 q2 = q2 q3 = q3 p1 = p1 p2 = p2
  NoPlan = NoPlan
  Action = {a1} Plan = {p1, p2} Slip = {a1}
  Request = {q1, q2, q3} Mortal = {q1, q2}
INVARIANTS EffectAtMostOnce RecordedMeansDone AnswerIsTrue TaughtOnce
PROPERTIES KeepsPromise ClaimSettles
