SPECIFICATION Spec
CONSTANTS
  None = None
  Gateways = {g1, g2}
  Calls = {c1, c2}
  Urls = {u1, u2}
  Headers = {h1}
  Clients = {k1}
  Secrets = {s1, s2}
SYMMETRY Symmetry
INVARIANTS TypeOK LastChangeStands 
