CONSTANTS
  DnsCallers = {dns1, dns2}
  ProxyCallers = {proxy}
  DnsLists = {d1}
  Interfaces = {if1, if2}
  Environments = {{"exit"}, {"exit", "tool_raises"}, {"exit", "roams", "bare", "read_fails", "load_fails", "save_fails", "tool_ignored", "tool_raises"}, {"exit", "overlap", "load_fails", "save_fails"}}
SPECIFICATION Spec
SYMMETRY Symmetry
INVARIANTS TypeOK DnsRestorable 
PROPERTY RecoveryRestoresDns
