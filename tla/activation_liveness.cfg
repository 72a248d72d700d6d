SPECIFICATION ActivationLiveSpec
CONSTANTS
  w1 = w1
  w2 = w2
  a1 = a1
  a2 = a2
  s1 = s1
  s2 = s2
  Web = {w1}
  Workers = {k1}
  Reconcilers = {r1}
  Users = {u1}
  Attempts = {a1}
  Sessions = {s1}
  NoUser = NoUser
  NoCheckout = NoCheckout
  NoSession = NoSession
  WORKER_MAX_ATTEMPTS = 2
  MaxOutages = 2
  MaxKills = 1
  MaxChanges = 2
CHECK_DEADLOCK FALSE
PROPERTIES
  ActivationSettles
