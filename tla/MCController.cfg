SPECIFICATION Spec
CONSTANTS
  a1 = a1
  a2 = a2
  a3 = a3
  b1 = b1
  b2 = b2
  Addr = {a1, a2, a3}
  Bucket = {b1, b2}
  Hash <- MCHash
  Mac = {m1, m2}
  PermAddr = m1
  NoMac = NoMac
  MeMac = MeMac
  RarEntries = 3
INVARIANTS
  ReturnedOnce
  FiltersKept
