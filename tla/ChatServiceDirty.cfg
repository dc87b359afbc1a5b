CONSTANTS
  r1 = r1  r2 = r2  r3 = r3
  a1 = a1  a2 = a2  s1 = s1
  Requests = {r1, r2, r3}
  Conns = {c1, c2}
  Tools = {t1}
  Agencies = {a1, a2}
  AgencyOf <- MCAgencyOf
  SessionOf <- MCSessionOf
  Nobody = Nobody
  Public = public
  MaxFaults = 2
SPECIFICATION Spec
INVARIANTS CleanInPool
CHECK_DEADLOCK FALSE
