SPECIFICATION SettleSpec
CONSTANTS
  h1 = h1
  h2 = h2
  h3 = h3
  c1 = c1
  c2 = c2
  c3 = c3
  c4 = c4
  c5 = c5
  NoHost = NoHost
  Hosts = {h1, h2, h3}
  Configs = {c1, c2, c3, c4, c5}
PROPERTY EventuallySettled
