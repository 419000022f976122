\* A server with two addresses, the first of them bad.
SPECIFICATION Spec
CONSTANTS
  s1 = s1
  s2 = s2
  a1 = a1
  a2 = a2
  a3 = a3
  g1 = g1
  g2 = g2
  Servers = {s1, s2}
  Daos = {d1}
  Addresses = {a1, a2, a3}
  Groups = {g1, g2}
  Requests = {r1, r2}
  MaxFree = 1
  Confs <- MCConfs
PROPERTY SentToGoodAddress
