---------------------------- MODULE SelectionMC ----------------------------
(***************************************************************************)
(* Small instances of Selection for TLC.                                   *)
(***************************************************************************)
EXTENDS Selection

\* One observation per branch of the score and of the rules.
SomeObservations ==
  [dns : {"dns_ok", "dns_hijacked"}, dpi : {"dpi_none", "dpi_aggressive", "dpi_unknown"},
   speed : {"speed_ok", "throttled_intl"}, udp : {"udp_ok", "udp_dropped"}]

To(scheme, transport, security) ==
  [scheme |-> scheme, complete |-> TRUE, transport |-> transport, security |-> security]

\* Links for every kind of capabilities and every branch of the adapters, one
\* that no adapter carries and one that cannot be parsed.
PersonalLinks ==
  <<To("trojan", "tcp", "tls"), To("vless", "tcp", "tls"), To("vless", "xhttp", "tls"),
    To("hy2", "tcp", "tls"), [To("vless", "tcp", "none") EXCEPT !.complete = FALSE]>>
CollectedLinks ==
  <<To("vmess", "ws", "tls"), To("vmess", "tcp", "reality"), To("vless", "grpc", "reality"), To("vless", "ws", "none"),
    To("tuic", "tcp", "tls"), To("ss", "tcp", "none"), To("naive", "tcp", "tls")>>

AllExtras == {"cloudflare_worker", "warp", "dnstt"}

Complete == {"xray", "hysteria", "tor", "snowflake", "tuic", "naive", "psiphon", "dnstt-client"}
Installed == {Complete, {"xray", "tor", "dnstt-client"}}

=============================================================================
