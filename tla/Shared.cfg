\* Four callers of the guard over two slots; three borrowers, pools of one to
\* two connections; three dispatchers, a check may take as long as an entry lives;
\* three threads that embed.
SPECIFICATION Spec
CONSTANTS
  t1 = t1
  t2 = t2
  t3 = t3
  t4 = t4
  Callers = {t1, t2, t3, t4}
  MaxPending = 2
  Borrowers = {t1, t2, t3}
  NoPool = NoPool
  MinConn = 1
  MaxConn = 2
  Dispatchers = {t1, t2, t3}
  Ttl = 2
  Timeout = 2
  MaxTime = 4
  Embedders = {t1, t2, t3}
  NoModel = NoModel
SYMMETRY ThreadSymmetry
INVARIANTS
  SharedTypeOK
  CountsHolders
  LentIsHeld
  VerdictIsRecent
  EmbedsAlike
PROPERTIES
  ImplementsSlots
