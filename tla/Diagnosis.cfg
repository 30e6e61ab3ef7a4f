CONSTANTS
  Servers = {s1, s2, s3}
  Speeds = {0, 10, 40, 400, 600}
SPECIFICATION Spec
SYMMETRY Symmetry
INVARIANTS TypeOK  DnsOutageIsNamed UdpProbesAgree
