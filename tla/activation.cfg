SPECIFICATION ActivationSpec
CONSTANTS
  w1 = w1
  w2 = w2
  k1 = k1
  k2 = k2
  a1 = a1
  a2 = a2
  s1 = s1
  s2 = s2
  Web = {w1, w2}
  Workers = {k1, k2}
  Reconcilers = {}
  Users = {u1}
  Attempts = {a1, a2}
  Sessions = {s1, s2}
  NoUser = NoUser
  NoCheckout = NoCheckout
  NoSession = NoSession
  WORKER_MAX_ATTEMPTS = 1
  MaxOutages = 2
  MaxKills = 0
  MaxChanges = 1
SYMMETRY Interchangeable
INVARIANTS
  ActivationIsSound
  PaidIsRecoverable
CHECK_DEADLOCK FALSE
