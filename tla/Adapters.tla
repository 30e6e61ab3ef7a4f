------------------------------ MODULE Adapters ------------------------------
(***************************************************************************)
(* The strategies (strategies/base.py, strategies/registry.py and          *)
(* strategies/adapters): which program carries a candidate, the            *)
(* configuration prepare() writes for it and the commands processes()      *)
(* answers.  Of a configuration the local listeners and the way of the     *)
(* traffic are kept: outbounds with their tags, which of them comes first, *)
(* what each dials through, and the tags the routing rules name.           *)
(*                                                                         *)
(* all_configs is None in every call of the program, so the chains and the *)
(* balancer of XrayStrategy are never built.                               *)
(***************************************************************************)
EXTENDS Links

\* The registry: the program that carries a protocol.
Program(protocol) ==
  CASE protocol \in {"vless", "trojan", "vmess", "ss", "shadowtls", "warp",
                     "cloudflare_worker", "dnstt"}  -> "xray"
    [] protocol \in {"tor_proxy", "tor_snowflake"} -> "tor"
    [] protocol \in {"hysteria2", "hy2"}           -> "hysteria"
    [] protocol \in {"naive", "naive+https"}       -> "naive"
    [] protocol \in {"tuic", "psiphon"}            -> protocol

\* prepare() answered None.
NoFile == [program |-> "none"]

\* An outbound dials its server itself, or through another outbound.
Direct == "itself"
Outbound(tag, security, dialer) == [tag |-> tag, security |-> security, dialer |-> dialer]
Plain(tag) == Outbound(tag, "none", Direct)

\* apply_fragmentation, apply_tcp_nodelay.
Fragmented(security) == Outbound("proxy", security, "fragment-out")
NoDelay(security) == Outbound("proxy", security, Direct)

\* Mutation: the branch for TCP leaves TLS out.
VlessTcpPlain(creds) ==
  CASE creds.security = "reality" -> {Fragmented("reality")}
    [] creds.security = "tls" /\ creds.transport \in {"ws", "grpc"} -> {Fragmented("tls")}
    [] creds.transport \in {"ws", "grpc", "tcp"} -> {NoDelay("none")}
    [] OTHER -> {}

\* VLESS: REALITY comes first, whatever the transport; a transport without a
\* branch gives nothing.
VlessOutbound(creds) ==
  CASE creds.security = "reality" -> {Fragmented("reality")}
    [] creds.security = "tls" /\ creds.transport \in {"ws", "grpc", "tcp"} -> {Fragmented("tls")}
    [] creds.security = "none" /\ creds.transport \in {"ws", "grpc", "tcp"} -> {NoDelay("none")}
    [] OTHER -> {}

\* The other protocols of links.
TrojanOutbound == Fragmented("tls")
ShadowtlsOutbound == Fragmented("tls")
VmessOutbound(creds) == IF creds.security = "tls" THEN Fragmented("tls") ELSE NoDelay("none")
SsOutbound == NoDelay("none")

\* make_outbound_for: the outbound "proxy" of a link, or none.
LinkOutbound(creds) ==
  CASE creds.protocol = "vless"     -> VlessOutbound(creds)
    [] creds.protocol = "trojan"    -> {TrojanOutbound}
    [] creds.protocol = "shadowtls" -> {ShadowtlsOutbound}
    [] creds.protocol = "vmess"     -> {VmessOutbound(creds)}
    [] creds.protocol = "ss"        -> {SsOutbound}

\* The rules every Xray configuration has: LAN noise, DNS, domestic sites.
RuleTags == {"block", "dns-out", "direct"}

XrayFile(first, others) ==
  [program |-> "xray", listens |-> {"socks", "http"}, rules |-> RuleTags,
   first |-> first, outbounds |-> {first} \cup others]

\* Mutation: the fragmenter is left out where nothing is chained.
LinkFileBare(creds) ==
  IF LinkOutbound(creds) = {} THEN NoFile
  ELSE XrayFile(CHOOSE o \in LinkOutbound(creds) : TRUE,
                {Plain("dns-out"), Plain("direct"), Plain("block")})

\* A link: its outbound, the fragmenter and the three the rules name.
LinkFile(creds) ==
  IF LinkOutbound(creds) = {} THEN NoFile
  ELSE XrayFile(CHOOSE o \in LinkOutbound(creds) : TRUE,
                {Plain("fragment-out"), Plain("dns-out"), Plain("direct"), Plain("block")})

\* WARP: WireGuard to the registered peer.
WarpFile == XrayFile(Plain("proxy"), {Plain("dns-out"), Plain("direct")})

\* A Cloudflare worker: VLESS over WebSocket and TLS to a clean address, if the
\* scan found one.
WorkerFile(cleanAddress) ==
  IF cleanAddress THEN XrayFile(Fragmented("tls"), {Plain("fragment-out")}) ELSE NoFile

\* DNSTT: Xray in front of a client that listens on a port of its own; there are
\* no rules.
DnsttFile ==
  [XrayFile(Outbound("proxy", "none", "dnstt-client"), {Plain("dns-out"), Plain("direct")})
     EXCEPT !.rules = {}]

\* The other programs have one way, to their server; naive has no SOCKS listener.
OwnFile(program, listens, security) ==
  LET only == Outbound("proxy", security, Direct)
  IN [program |-> program, listens |-> listens, rules |-> {}, first |-> only, outbounds |-> {only}]
HysteriaFile == OwnFile("hysteria", {"socks", "http"}, "tls")
TuicFile     == OwnFile("tuic", {"socks", "http"}, "tls")
NaiveFile    == OwnFile("naive", {"http"}, "tls")
PsiphonFile  == OwnFile("psiphon", {"socks", "http"}, "none")

\* Tor; a bridge needs one of the two transports.
TorFile(creds, binaries) ==
  IF creds.protocol = "tor_snowflake" /\ binaries \cap {"snowflake", "lyrebird"} = {} THEN NoFile
  ELSE OwnFile("tor", {"socks", "http"}, "none")

\* prepare() of the strategy of a candidate.
Prepared(creds, binaries, cleanAddress) ==
  LET protocol == creds.protocol IN
  CASE protocol \in {"vless", "trojan", "vmess", "ss", "shadowtls"} -> LinkFile(creds)
    [] protocol = "warp"              -> WarpFile
    [] protocol = "cloudflare_worker" -> WorkerFile(cleanAddress)
    [] protocol = "dnstt"             -> DnsttFile
    [] protocol = "hysteria2"         -> HysteriaFile
    [] protocol = "tuic"              -> TuicFile
    [] protocol = "naive"             -> NaiveFile
    [] protocol = "psiphon"           -> PsiphonFile
    [] protocol \in {"tor_proxy", "tor_snowflake"} -> TorFile(creds, binaries)

\* processes(): the programs started for a candidate; without a binary there are
\* none, and DNSTT needs both.
Commands(creds, binaries) ==
  LET programs == {Program(creds.protocol)}
                    \cup (IF creds.protocol = "dnstt" THEN {"dnstt-client"} ELSE {})
  IN IF programs \subseteq binaries THEN programs ELSE {}

-----------------------------------------------------------------------------
Tags(file) == {o.tag : o \in file.outbounds}

\* Traffic no rule is for takes the first outbound; it arrives if that is the
\* tunnel, and what it dials through is in the file and dials itself, or is
\* another program of the strategy.
Carries(file, programs) ==
  /\ file.first.tag = "proxy"
  /\ \/ file.first.dialer \in {Direct} \cup programs
     \/ Outbound(file.first.dialer, "none", Direct) \in file.outbounds

=============================================================================
