SPECIFICATION Spec
CONSTANTS
  master = master  vip = vip  m1 = m1  m2 = m2
  g1 = g1  g2 = g2
  Sender = {master, vip}
  Master = master
  Vip = {vip}
  Msg = {m1, m2}
  From <- MCFrom
  Form <- MCForm
  Caller = {g1, g2}
  Capacity = 1
  Cooldown = 1
  DedupTTL = 1
  EchoCap = 1
  MaxTime = 2
  MaxEntries = 2
  MaxBoots = 1
  MaxEchoes = 1
  NoItem = NoItem
SYMMETRY CallerSymmetry
INVARIANTS
  OnceInWindow
  EchoesIgnored
  AlertSpacing
  NobodyGhosted
CHECK_DEADLOCK FALSE
