---------------------------- MODULE MCConfigGen ----------------------------
EXTENDS ConfigGen

(* Words that stand for an encoded text.                                   *)
MCBase64 ==
  ("b64(aes:pw)" :> <<"aes-128-gcm", ":", "pw">>) @@
  ("b64(aes:pw@h:443)" :>
     <<"aes-128-gcm", ":", "pw", "@", "h", ":", "443">>) @@
  ("b64(auto:uuid@h:443)" :> <<"auto", ":", "uuid", "@", "h", ":", "443">>) @@
  ("b64(json)" :> <<"{json}">>) @@ ("b64(bad)" :> <<"{bad}">>) @@
  ("b64(none)" :> <<"{none}">>)
MCPercent == ("%2Fws" :> <<"/ws">>) @@ ("%3B" :> <<";">>) @@ ("%3D" :> <<"=">>) @@
             ("%3A" :> <<":">>)
MCDigits == [w \in {"0", "1", "443", "65535", "65536"} |->
               CASE w = "0" -> 0 [] w = "1" -> 1 [] w = "443" -> 443
                 [] w = "65535" -> 65535 [] OTHER -> 65536]
VmessObject ==
  ("add" :> Word("h")) @@ ("port" :> Num(443)) @@ ("id" :> Word("uuid")) @@
  ("ps" :> Word("HK")) @@ ("net" :> Word("ws")) @@ ("path" :> Word("/ws")) @@
  ("host" :> Word("cdn")) @@ ("tls" :> Word("tls"))
MCJson == ("{json}" :> Map(VmessObject)) @@
          ("{bad}" :> Map(("port" :> Word("0")) @@ VmessObject)) @@
          ("{none}" :> Map(("add" :> Str(<<>>)) @@ VmessObject))
MCJSON == {Num(0), Word("0"), Str(<<>>)} \union ToSet(<<MCJson["{json}"],
           MCJson["{bad}"], MCJson["{none}"]>>)
          \union {VmessObject[k] : k \in DOMAIN VmessObject}
MCLower == "VLESS" :> "vless"
MCDashed == "skip_cert_verify" :> "skip-cert-verify"
MCCiphers == {"aes-128-gcm", "auto", "none"}

(* Nodes as the converters' comments write them.                           *)
V6 == <<"fe80", ":", ":", "1">>
Url(scheme, user, said, host, port) ==
  [scheme |-> scheme, user |-> user, said |-> said, host |-> host,
   port |-> port, whole |-> None, slash |-> FALSE, params |-> <<>>,
   query |-> <<>>, name |-> None, obfs |-> "none"]
With(n, params) ==
  [n EXCEPT !.params = params,
            !.query = Tail(FlattenSeq([i \in DOMAIN params |->
                                         <<"&">> \o Part(params[i])]))]
Called(n) == [n EXCEPT !.name = Some(<<"N">>)]
Par(key, value) == [key |-> key, value |-> Some(<<value>>)]
Flag(key) == [key |-> key, value |-> None]
Ws == <<Par("type", "ws"), Par("path", "%2Fws"), Par("sni", "s")>>
Aes == <<<<"aes-128-gcm">>, <<"pw">>>>
Obfs == [key |-> "plugin",
         value |-> Some(<<"obfs-local", "%3B", "obfs", "%3D", "http">>)]

MCNodes ==
  {Called(With(Url("vless", <<"uuid">>, <<"uuid">>, <<"h">>, "443"), Ws)),
   [With(Url("trojan", <<"pw">>, <<"pw">>, V6, "65535"), Ws)
      EXCEPT !.slash = TRUE],
   With(Url("hysteria2", <<"pw">>, <<"pw">>, <<"h">>, "1"),
        <<Par("insecure", "0"), Par("insecure", "1")>>),
   Called([With(Url("ss", <<"b64(aes:pw)">>, Aes, V6, "443"), <<Obfs>>)
             EXCEPT !.obfs = "http"]),
   Called([Url("ss", <<"aes-128-gcm", ":", "pw">>, Aes, <<"h">>, "443")
             EXCEPT !.whole = Some("b64(aes:pw@h:443)")]),
   [scheme |-> "vmess", word |-> "b64(json)"],
   Url("http", <<"u", ":", "pw">>, <<<<"u">>, <<"pw">>>>, <<"h">>, "443"),
   With(Url("socks5", <<"u", "%3A", "pw">>, <<<<"u">>, <<"pw">>>>, <<"h">>, "1"),
        <<Flag("udp"), Par("skip_cert_verify", "1")>>)}
  \union
  {\* of the refused formats
   Url("https", <<"u", ":", "pw">>, <<<<"u">>, <<"pw">>>>, <<"h">>, "443"),
   Called(Url("socks", <<"u", ":", "pw">>, <<<<"u">>, <<"pw">>>>, V6, "1")),
   [With(Url("vless", <<"auto", ":", "uuid">>, <<"uuid">>, <<"h">>, "443"),
         <<Par("remarks", "N"), Flag("tls")>>)
      EXCEPT !.whole = Some("b64(auto:uuid@h:443)")]}

At(host, port) == <<"@">> \o host \o <<":", port>>

(* Lines that are refused, or not quite what they look like.               *)
Odd == {Node("vless", <<"uuid">> \o At(<<"h">>, "0")),
        Node("trojan", <<"pw">> \o At(<<"h">>, "65536")),
        Node("http", <<"h">>), Node("https", At(<<"h">>, "443")),
        Node("VLESS", <<"uuid">> \o At(<<"h">>, "1")),
        Node("vmess", <<"b64(bad)">>), Node("tuic", <<"x">>),
        Node("vmess", <<"b64(none)">>),
        Node("vless", <<"uuid">> \o At(<<"[", "]">>, "443") \o <<"?">>),
        Node("trojan", <<"pw">> \o At(<<"[", "]">>, "443")),
        Node("ss", <<"b64(aes:pw)">> \o At(<<"h">>, "443") \o
             <<"?", "v2ray-plugin", "=", "b64(json)", "&", "uot">>)}

Proxies == "proxies" :> List(<<Map(("name" :> Word("p")) @@
                                   ("type" :> Word("direct")))>>)
MCDocs ==
  {Proxies,
   "message" :> Word("no valid node"),
   ("rules" :> List(<<Word("MATCH,DIRECT")>>)) @@ Proxies @@
     ("port" :> Num(7890)) @@ ("external-controller" :> Word(":9090")) @@
     ("hosts" :> Map(<<"a">> :> Word("1.1.1.1"))) @@
     ("tun" :> Map(("device" :> Word("mine")) @@ ("mtu" :> Num(1500)))),
   ("proxy-groups" :> List(<<Map("name" :> Word("G"))>>)) @@ Proxies @@
     ("dns" :> Map(("nameserver" :> List(<<>>)) @@
                   ("use-hosts" :> Bool(FALSE)) @@
                   ("fake-ip-filter" :> List(<<Word("*.lan")>>)))) @@
     ("hosts" :> Word("none")),
   Proxies @@ ("dns" :> Map("fake-ip-filter-mode" :> Word("rule")))}

MCTexts ==
  {[yaml |-> d] : d \in MCDocs}
  \union {[base64 |-> [yaml |-> Proxies]], [base64 |-> [other |-> TRUE]],
          [empty |-> TRUE], [lines |-> <<Comment, Blank>>]}
  \union {[lines |-> <<Comment, LineOf(n)>>] : n \in WRITTEN}
  \union {[lines |-> <<LineOf(n), Blank, LineOf(m)>>] :
            n \in WRITTEN, m \in {CHOOSE m \in WRITTEN : ~Refused(m)}}
  \union {[lines |-> <<l>>] : l \in Odd}
  \union {[base64 |-> [lines |-> <<LineOf(n), Blank, l>>]] :
            n \in {CHOOSE n \in WRITTEN : ~Refused(n)}, l \in Odd}

Default ==
  [mode |-> <<"rule">>, mixed_port |-> 7890, tun_enabled |-> FALSE,
   tun_stack |-> <<>>, dns_hijack |-> <<>>, tun_dns_mode |-> <<"fake-ip">>,
   route_exclude_address |-> <<>>, strict_route |-> FALSE,
   auto_redirect |-> FALSE, dns_fake_ip_filter_mode |-> <<>>,
   dns_fake_ip_filter |-> <<>>, dns_use_hosts |-> TRUE,
   dns_use_system_hosts |-> TRUE, dns_nameserver_policy |-> <<>>,
   dns_hosts |-> <<>>, dns_nameserver |-> <<>>, dns_default_nameserver |-> <<>>]
MCSettings ==
  {Default, [Default EXCEPT !.tun_enabled = TRUE],
   [Default EXCEPT !.mode = <<" ">>, !.mixed_port = 1,
      !.dns_hosts = <<<<"b", "=", " ", "2.2.2.2">>, <<"c">>>>],
   [Default EXCEPT !.tun_enabled = TRUE, !.tun_dns_mode = <<"redir-host">>,
      !.dns_use_hosts = FALSE, !.dns_use_system_hosts = FALSE,
      !.dns_nameserver = <<<<"9.9.9.9">>>>,
      !.dns_nameserver_policy =
         <<<<"d", "=", "1.1.1.1", ",", "8.8.8.8">>, <<"e", "=">>,
           <<"f", "=", "1.1.1.1">>>>],
   [Default EXCEPT !.tun_enabled = TRUE,
      !.dns_fake_ip_filter_mode = <<"rule">>,
      !.dns_fake_ip_filter = <<<<"DOMAIN", ",", "x", ",", "real-ip">>>>]}

MCLogLevel == <<"warning">>
=============================================================================
