------------------------------- MODULE Links -------------------------------
(***************************************************************************)
(* Config links (vless://..., trojan://...) and what the parser makes of   *)
(* them (core/utils.py).  A link is what its text says: the scheme,        *)
(* whether the mandatory parts are there, the transport and the security   *)
(* it asks for.  Credentials keep what the adapters branch on.             *)
(***************************************************************************)

\* The transports some adapter has a branch for, and one that none has.
Transports == {"tcp", "ws", "grpc", "http", "xhttp"}
Securities == {"none", "tls", "reality"}

\* A link; VMess links name their security in a field of their own, where "reality"
\* is accepted like any other word.
Link == [scheme : STRING, complete : BOOLEAN, transport : Transports, security : Securities]

Creds(protocol, transport, security) ==
  [protocol |-> protocol, transport |-> transport, security |-> security]

Unsupported == [protocol |-> "unsupported"]

\* Two schemes leave transport and security to the link.
ParseVless(link) == Creds("vless", link.transport, link.security)
ParseVmess(link) == Creds("vmess", link.transport, link.security)

\* Shadowsocks has its own encryption.
ParseSs(link) == Creds("ss", "tcp", "none")

\* The schemes that imply TLS, with the protocol their parser answers.
TlsProtocols ==
  [trojan |-> "trojan", shadowtls |-> "shadowtls", hysteria2 |-> "hysteria2",
   hy2 |-> "hysteria2", tuic |-> "tuic", naive |-> "naive"]

\* parse_config_link: an unknown scheme or a missing part is "unsupported".
Parse(link) ==
  IF ~link.complete THEN Unsupported
  ELSE CASE link.scheme = "vless" -> ParseVless(link)
         [] link.scheme = "vmess" -> ParseVmess(link)
         [] link.scheme = "ss"    -> ParseSs(link)
         [] link.scheme \in DOMAIN TlsProtocols ->
              Creds(TlsProtocols[link.scheme], "tcp", "tls")
         [] OTHER -> Unsupported

\* The protocols a link can have.
LinkProtocols == {"vless", "vmess", "ss"} \cup {TlsProtocols[s] : s \in DOMAIN TlsProtocols}

=============================================================================
