SPECIFICATION MCSpec
CONSTANTS
  c1 = c1
  c2 = c2
  c3 = c3
  r1 = r1
  r2 = r2
  a1 = a1
  a2 = a2
  a3 = a3
  path = path
  whole = whole
  Calls = {c1, c2, c3}
  Runs = {r1, r2}
  Scopes = {path, whole}
  Whole = whole
  RunOf <- RunOfCall
  ScopeOf <- ScopeOfCall
  Asks = {a1, a2, a3}
  RunOfAsk <- RunOfAnAsk
  Timed = {a1}
  Faults = {a3}
  Corrections = {c3}
  Escalated = {c2}
  Cautious = {c2}
  SelfApproving = {}
  MaxAsks = 2
  Policies = {"risk", "deny"}
  Modes = {"auto", "approve"}
INVARIANTS
  RepliesAreSound
  AsksAreBounded
  RepliesAreOwn
PROPERTIES
  NeverAskedAgain
  DialogsAreCleared
  CardsAreCleared
CHECK_DEADLOCK FALSE
