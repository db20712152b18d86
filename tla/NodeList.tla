------------------------------ MODULE NodeList ------------------------------
(***************************************************************************)
(* Conversion of a list of node URIs into mihomo proxy entries: the        *)
(* functions of clard-config/src/config_gen/convert.                       *)
(*                                                                         *)
(* A text is a sequence of tokens: a separator (":", "@", "?", ...) or a   *)
(* word.  What the decoders do to a word is given by constants, so that a  *)
(* base64 word and the text it stands for are different texts.  An         *)
(* Option<T> is a sequence of at most one element.  A YAML or JSON value   *)
(* is a record with one field that names its kind.                         *)
(***************************************************************************)
EXTENDS Rows, SequencesExt

CONSTANTS
  Base64,  \* base64 word -> text
  Percent, \* percent-escaped word -> text
  Digits,  \* word of digits -> its value
  JSON,    \* the JSON values there are, with the values they are made of
  Json,    \* word that is a JSON text -> JSON value
  Lower,   \* scheme written with capitals -> in lower case
  Dashed,  \* query key written with '_' -> with '-'
  CIPHERS  \* the ciphers get_cipher knows

ASSUME JsonAssumption ==
  /\ Json \in [DOMAIN Json -> JSON]
  /\ \A v \in JSON :
       /\ "map" \in DOMAIN v => \A k \in DOMAIN v.map : v.map[k] \in JSON
       /\ "list" \in DOMAIN v => \A i \in DOMAIN v.list : v.list[i] \in JSON

None == <<>>
Some(x) == <<x>>
IsSome(o) == o # None
OrElse(o, p) == IF IsSome(o) THEN o ELSE p
Or(o, x) == OrElse(o, Some(x))[1]

Str(t) == [str |-> t]
Num(n) == [num |-> n]
Bool(b) == [bool |-> b]
Map(m) == [map |-> m]
List(q) == [list |-> q]
Word(w) == Str(<<w>>)

\* A mapping over another one: what f has is f's.
Over(f, g) ==
  [k \in DOMAIN f \union DOMAIN g |-> IF k \in DOMAIN f THEN f[k] ELSE g[k]]
f ++ g == Over(f, g)

\* Mapping::insert of one <<key, value>> after the other, those at the
\* positions I: the last one for a key stays.
Inserted(es, I) ==
  LET Latest(k) == CHOOSE i \in I :
                     es[i][1] = k /\ \A j \in I : es[j][1] = k => j <= i
  IN  [k \in {es[i][1] : i \in I} |-> es[Latest(k)][2]]

\* Mapping::insert under kv and kv_opt.
Kv(k, v) == [x \in {k} |-> v]
KvOpt(k, o) == IF IsSome(o) THEN Kv(k, Str(o[1])) ELSE <<>>
KvIf(cond, k, v) == IF cond THEN Kv(k, v) ELSE <<>>
\* `if !wo.is_empty()`.
KvMap(k, m) == KvIf(DOMAIN m # {}, k, Map(m))

Ok(m) == [ok |-> m]
Err(e) == [err |-> e]
Invalid == Err("InvalidNode")
IsOk(r) == "ok" \in DOMAIN r

-----------------------------------------------------------------------------
(* Cutting texts.                                                          *)

CutAt(s, i, none) ==
  IF i = 0 THEN none
  ELSE <<SubSeq(s, 1, i - 1), Some(SubSeq(s, i + 1, Len(s)))>>

\* split_once and rsplit_once: <<before, Option after>>.
SplitOnce(s, c) == CutAt(s, SelectInSeq(s, LAMBDA x : x = c), <<s, None>>)
SplitLast(s, c) == CutAt(s, SelectLastInSeq(s, LAMBDA x : x = c), <<s, None>>)

Split(s, c) ==
  LET cuts == InOrder({i \in DOMAIN s : s[i] = c})
      ends == <<0>> \o cuts \o <<Len(s) + 1>>
  IN  [k \in 1 .. Len(cuts) + 1 |-> SubSeq(s, ends[k] + 1, ends[k + 1] - 1)]

\* safe_decode_uri_component.
Decoded(s) ==
  FlattenSeq([i \in DOMAIN s |->
    IF s[i] \in DOMAIN Percent THEN Percent[s[i]] ELSE <<s[i]>>])

\* decode_and_trim: blank is nothing.
DecodeAndTrim(o) ==
  IF ~IsSome(o) THEN None
  ELSE LET t == SelectSeq(Decoded(o[1]), LAMBDA x : x # " ")
       IN  IF t = <<>> THEN None ELSE Some(t)

\* decode_base64_or_original: white space does not count, what does not
\* decode to printable text stays as it is.
DecodeBase64(s) ==
  LET t == SelectSeq(s, LAMBDA x : x # " ")
  IN  IF Len(t) = 1 /\ t[1] \in DOMAIN Base64 THEN Base64[t[1]] ELSE s

NotBlank(o) == IF IsSome(o) /\ o[1] # <<>> THEN o ELSE None

Ports == 1 .. 65535
IsNumber(t) == Len(t) = 1 /\ t[1] \in DOMAIN Digits

\* parse_required_port and parse_port_or_default.
RequiredPort(t) ==
  IF IsNumber(t) /\ Digits[t[1]] \in Ports THEN Some(Digits[t[1]]) ELSE None

PortOrDefault(o, dft) ==
  IF IsSome(o) THEN Or(RequiredPort(o[1]), dft) ELSE dft

\* parse_bool and parse_bool_or_presence.
ParseBool(t) == t \in {<<"true">>, <<"1">>}
BoolOrPresence(o) == ~IsSome(o) \/ o[1] = <<>> \/ ParseBool(o[1])

\* get_cipher.
Cipher(o) ==
  IF ~IsSome(o) THEN <<"none">>
  ELSE IF o[1] = <<"chacha20-poly1305">> THEN <<"chacha20-ietf-poly1305">>
  ELSE IF Len(o[1]) = 1 /\ o[1][1] \in CIPHERS THEN o[1] ELSE <<"auto">>

\* parse_vless_flow: one word, and not "none".
VlessFlow(o) ==
  IF IsSome(o) /\ Len(o[1]) = 1 /\ o[1] # <<"none">> THEN o ELSE None

-----------------------------------------------------------------------------
(* Query::parse and parse_url_like.                                        *)

Key(t) ==
  LET k == IF Len(t) = 1 THEN t[1] ELSE ""
  IN  IF k \in DOMAIN Dashed THEN Dashed[k] ELSE k

Query(o) ==
  LET parts == IF IsSome(o) THEN Split(o[1], "&") ELSE <<>>
      kv == [i \in DOMAIN parts |-> SplitOnce(parts[i], "=")]
  IN  Inserted([i \in DOMAIN kv |->
                  <<Key(kv[i][1]), IF IsSome(kv[i][2])
                                   THEN Some(Decoded(kv[i][2][1])) ELSE None>>],
               {i \in DOMAIN kv : kv[i][1] # <<>>})

Has(q, k) == k \in DOMAIN q
Get(q, k) == IF Has(q, k) THEN q[k] ELSE None
GetEither(q, j, k) == OrElse(Get(q, j), Get(q, k))
\* `if q.has(..) { kv(.., parse_bool_or_presence(..)) }`.
KvFlag(q, k, name) == KvIf(Has(q, k), name, Bool(BoolOrPresence(Get(q, k))))
KvAlpn(q) ==
  IF IsSome(Get(q, "alpn"))
  THEN LET words == Split(Get(q, "alpn")[1], ",")
       IN  Kv("alpn", List([i \in DOMAIN words |-> Str(words[i])]))
  ELSE <<>>

Unbracketed(h) ==
  IF Len(h) >= 2 /\ h[1] = "[" /\ h[Len(h)] = "]" THEN SubSeq(h, 2, Len(h) - 1)
  ELSE h

\* Mutant of ParseUrlLike's port: the first colon instead of the last one.
HostPortFirst(rest) ==
  LET cut == SplitOnce(rest, ":")
  IN  IF IsSome(cut[2]) /\ IsNumber(cut[2][1]) THEN cut ELSE <<rest, None>>

\* host and optional port: what follows the last colon, if it is a number.
HostPort(rest) ==
  LET cut == SplitLast(rest, ":")
  IN  IF IsSome(cut[2]) /\ IsNumber(cut[2][1]) THEN cut ELSE <<rest, None>>

ParseUrlLike(s) ==
  LET f == SplitOnce(s, "#")
      q == SplitOnce(f[1], "?")
      n == Len(q[1])
      before == IF n > 0 /\ q[1][n] = "/" THEN SubSeq(q[1], 1, n - 1) ELSE q[1]
      a == SplitLast(before, "@")
      hp == HostPort(Or(a[2], before))
  IN  IF hp[1] = <<>> THEN None
      ELSE Some([auth |-> IF IsSome(a[2]) THEN Some(a[1]) ELSE None,
                 host |-> Unbracketed(hp[1]), port |-> hp[2],
                 query |-> q[2], fragment |-> f[2]])

-----------------------------------------------------------------------------
(* Transports shared in shape by vless, vmess and trojan.                  *)

HostHeader(o) ==
  IF IsSome(o) THEN Kv("headers", Map(KvOpt("Host", o))) ELSE <<>>
HttpUpgrade(on) ==
  IF on THEN Kv("v2ray-http-upgrade", Bool(TRUE)) ++
             Kv("v2ray-http-upgrade-fast-open", Bool(TRUE))
  ELSE <<>>
WsOpts(host, path, upgrade) ==
  KvMap("ws-opts", KvOpt("path", path) ++ HostHeader(host) ++
                   HttpUpgrade(upgrade))
GrpcOpts(service) == KvMap("grpc-opts", KvOpt("grpc-service-name", service))
H2Opts(host, path) ==
  KvMap("h2-opts", KvOpt("host", host) ++ KvOpt("path", path))
OneOf(o) == IF IsSome(o) THEN Some(List(<<Str(o[1])>>)) ELSE None
HttpOpts(host, paths) ==
  LET hd == OneOf(host)
  IN  KvMap("http-opts",
        (IF IsSome(paths) THEN Kv("path", paths[1]) ELSE <<>>) ++
        (IF IsSome(hd) THEN Kv("headers", Map(Kv("Host", hd[1]))) ELSE <<>>))

\* Type, name, server and port of an entry; the default name is made of the
\* label, the server and the port.
Entry(type, name, label, server, port) ==
  Kv("type", Word(type)) ++
  Kv("name", Str(Or(name, <<label, " ">> \o server \o <<":">>))) ++
  Kv("server", Str(server)) ++ Kv("port", Num(port))

-----------------------------------------------------------------------------
(* One function per protocol; `rest` is the line after "scheme://".        *)

\* vless.rs: the fields of a checked address.
VlessEntry(u, port, uuid) ==
  LET q == Query(u.query)
      name == OrElse(DecodeAndTrim(u.fragment),
                     GetEither(q, "remarks", "remark"))
      security == Or(Get(q, "security"), <<"none">>)
      type == Get(q, "type")
      network ==
        IF Get(q, "headerType") = Some(<<"http">>) THEN "http"
        ELSE IF type \in {Some(<<"websocket">>), Some(<<"ws">>),
                          Some(<<"httpupgrade">>)} THEN "ws"
        ELSE IF type \in {Some(<<t>>) : t \in {"http", "grpc", "h2", "xhttp"}}
             THEN type[1][1] ELSE "tcp"
      host == GetEither(q, "host", "obfsParam")
      path == Get(q, "path")
      upgrade == type \in {Some(<<"ws">>), Some(<<"httpupgrade">>)}
      transport ==
        CASE network = "ws" -> WsOpts(host, path, upgrade)
          [] network = "grpc" -> GrpcOpts(OrElse(Get(q, "serviceName"), path))
          [] network = "h2" -> H2Opts(host, path)
          [] network = "http" -> HttpOpts(host, OneOf(path))
          [] network = "xhttp" ->
               KvMap("xhttp-opts", KvOpt("host", host) ++ KvOpt("path", path)
                                   ++ KvOpt("mode", Get(q, "mode")))
          [] OTHER -> <<>>
      tls == security # <<"none">>
      sni == GetEither(q, "sni", "peer")
  IN  Entry("vless", name, "VLESS", u.host, port)
      ++ Kv("uuid", Str(uuid)) ++ Kv("udp", Bool(TRUE))
      ++ KvIf(Or(Get(q, "encryption"), <<"none">>) # <<"none">>,
              "encryption", Str(Or(Get(q, "encryption"), <<>>)))
      ++ Kv("tls", Bool(tls))
      ++ KvOpt("servername",
               IF tls THEN OrElse(sni, Get(q, "host")) ELSE sni)
      ++ KvOpt("flow", VlessFlow(Get(q, "flow")))
      ++ KvOpt("client-fingerprint", Get(q, "fp"))
      ++ KvAlpn(q) ++ KvFlag(q, "allowInsecure", "skip-cert-verify")
      ++ (IF security = <<"reality">>
          THEN KvMap("reality-opts", KvOpt("public-key", Get(q, "pbk")) ++
                                     KvOpt("short-id", Get(q, "sid")))
          ELSE <<>>)
      ++ Kv("network", Word(network)) ++ transport

\* The checks.  The fallback for a base64 address drops the "?" between the
\* decoded part and the query and puts it at the end.
Vless(rest) ==
  LET plain == ParseUrlLike(rest)
      direct == IsSome(plain) /\ IsSome(plain[1].port)
      cut == SplitOnce(rest, "?")
      rebuilt == DecodeBase64(cut[1]) \o Or(cut[2], <<>>) \o <<"?">>
      parsed == IF direct THEN plain
                ELSE IF IsSome(cut[2]) THEN ParseUrlLike(rebuilt) ELSE None
      port == IF IsSome(parsed) /\ IsSome(parsed[1].port)
              THEN RequiredPort(parsed[1].port[1]) ELSE None
      auth == IF IsSome(parsed) THEN Or(parsed[1].auth, <<>>) ELSE <<>>
      uuid == Decoded(IF direct THEN auth
                      ELSE Or(SplitLast(auth, ":")[2], auth))
  IN  IF ~IsSome(port) \/ parsed[1].host = <<>> \/ uuid = <<>> THEN Invalid
      ELSE Ok(VlessEntry(parsed[1], port[1], uuid))

\* trojan.rs.
TrojanEntry(u) ==
  LET q == Query(u.query)
      network == IF Get(q, "type") \in
                      {Some(<<t>>) : t \in {"ws", "grpc", "h2", "tcp"}}
                 THEN Get(q, "type") ELSE None
      mix == Split(Or(Get(q, "encryption"), <<>>), ";")
      transport ==
        CASE network = Some(<<"ws">>) ->
               WsOpts(Get(q, "host"), Get(q, "path"), FALSE)
          [] network = Some(<<"grpc">>) -> GrpcOpts(Get(q, "path"))
          [] OTHER -> <<>>
  IN  Entry("trojan", DecodeAndTrim(u.fragment), "Trojan", u.host,
            PortOrDefault(u.port, 443))
      ++ Kv("password", Str(Decoded(u.auth[1])))
      ++ KvOpt("network", network) ++ KvAlpn(q)
      ++ KvOpt("sni", Get(q, "sni"))
      ++ KvFlag(q, "skip-cert-verify", "skip-cert-verify")
      ++ KvOpt("fingerprint", GetEither(q, "fingerprint", "fp"))
      ++ (IF Len(mix) = 3
          THEN Kv("ss-opts", Map(Kv("enabled", Bool(TRUE)) ++
                 Kv("method", Str(mix[2])) ++ Kv("password", Str(mix[3]))))
          ELSE <<>>)
      ++ KvOpt("client-fingerprint", Get(q, "client-fingerprint"))
      ++ transport

Trojan(rest) ==
  LET parsed == ParseUrlLike(rest)
  IN  IF ~IsSome(parsed) \/ ~IsSome(parsed[1].auth) THEN Invalid
      ELSE Ok(TrojanEntry(parsed[1]))

\* hysteria2.rs, for both spellings of the scheme.
Hysteria2Entry(u) ==
  LET q == Query(u.query)
      obfs == Get(q, "obfs")
  IN  Entry("hysteria2", DecodeAndTrim(u.fragment), "Hysteria2", u.host,
            PortOrDefault(u.port, 443))
      ++ Kv("password", Str(Decoded(u.auth[1])))
      ++ KvOpt("sni", GetEither(q, "sni", "peer"))
      ++ KvOpt("obfs", IF obfs = Some(<<"none">>) THEN None ELSE obfs)
      ++ KvOpt("ports", Get(q, "mport"))
      ++ KvOpt("obfs-password", Get(q, "obfs-password"))
      ++ KvFlag(q, "insecure", "skip-cert-verify")
      ++ KvFlag(q, "fastopen", "tfo")
      ++ KvOpt("fingerprint", Get(q, "pinSHA256"))

Hysteria2(rest) ==
  LET parsed == ParseUrlLike(rest)
  IN  IF ~IsSome(parsed) \/ ~IsSome(parsed[1].auth) THEN Invalid
      ELSE Ok(Hysteria2Entry(parsed[1]))

\* http_socks.rs: the part http and socks5 share.
ProxyEntry(type, label, u) ==
  LET q == Query(Some(Or(u.query, <<>>)))
      login == SplitOnce(Decoded(Or(u.auth, <<>>)), ":")
  IN  Entry(type, DecodeAndTrim(u.fragment), label, u.host,
            PortOrDefault(u.port, 443))
      ++ (IF IsSome(login[2])
          THEN Kv("username", Str(login[1])) ++
               Kv("password", Str(login[2][1]))
          ELSE <<>>)
      ++ KvFlag(q, "tls", "tls")
      ++ KvOpt("fingerprint", Get(q, "fingerprint"))
      ++ KvFlag(q, "skip-cert-verify", "skip-cert-verify")
      ++ KvOpt("ip-version", Get(q, "ip-version"))
      ++ (IF type = "socks5" THEN KvFlag(q, "udp", "udp") ELSE <<>>)

Proxy(type, label, rest) ==
  LET parsed == ParseUrlLike(rest)
  IN  IF ~IsSome(parsed) THEN Invalid
      ELSE Ok(ProxyEntry(type, label, parsed[1]))

\* ss.rs: the fields of ?plugin=name;key=value;...
PluginOpts(parts) ==
  LET kv == [i \in DOMAIN parts |-> SplitOnce(parts[i], "=")]
  IN  Inserted([i \in DOMAIN kv |->
                  <<kv[i][1], IF Or(kv[i][2], <<>>) = <<>> THEN <<"true">>
                              ELSE kv[i][2][1]>>],
               {i \in DOMAIN kv : kv[i][1] # <<>> /\ IsSome(kv[i][2])})

PluginOf(parts) ==
  LET opts == PluginOpts(Tail(parts))
      Opt(k) == IF <<k>> \in DOMAIN opts THEN Some(opts[<<k>>]) ELSE None
  IN  CASE parts[1] \in {<<"obfs-local">>, <<"simple-obfs">>} ->
             Ok(Kv("plugin", Word("obfs")) ++
                KvMap("plugin-opts", KvOpt("mode", Opt("obfs")) ++
                                     KvOpt("host", Opt("obfs-host"))))
        [] parts[1] = <<"v2ray-plugin">> ->
             Ok(Kv("plugin", Word("v2ray-plugin")) ++
                KvMap("plugin-opts",
                  Kv("mode", Word("websocket")) ++
                  KvOpt("host", OrElse(Opt("obfs-host"), Opt("host"))) ++
                  KvOpt("path", Opt("path")) ++
                  KvIf(IsSome(Opt("tls")), "tls", Bool(TRUE))))
        [] OTHER -> Invalid

SsPlugin(param) == PluginOf(Split(param, ";"))

\* json_to_mapping: a number that is not an integer becomes 0.
JsonToMapping[v \in JSON] ==
  CASE "map" \in DOMAIN v ->
         Map([k \in DOMAIN v.map |-> JsonToMapping[v.map[k]]])
    [] "list" \in DOMAIN v ->
         List([i \in DOMAIN v.list |-> JsonToMapping[v.list[i]]])
    [] "float" \in DOMAIN v -> Num(0)
    [] OTHER -> v

\* ss.rs: the fields of a checked address.
SsEntry(q, plugin, name, server, port, cipher, password) ==
  LET v2ray == IF IsSome(Get(q, "v2ray-plugin"))
               THEN DecodeBase64(Get(q, "v2ray-plugin")[1]) ELSE <<>>
      Flag(k, key) == KvIf(Has(q, k) /\ BoolOrPresence(Get(q, k)),
                           key, Bool(TRUE))
  IN  Flag("uot", "udp-over-tcp") ++ Flag("tfo", "tfo")
      ++ (IF Len(v2ray) = 1 /\ v2ray[1] \in DOMAIN Json
          THEN Kv("plugin", Word("v2ray-plugin")) ++
               Kv("plugin-opts", JsonToMapping[Json[v2ray[1]]])
          ELSE <<>>)
      ++ plugin
      ++ Entry("ss", name, "SS", server, port)
      ++ Kv("cipher", Str(Cipher(Some(cipher))))
      ++ Kv("password", Str(password))

Ss(rest) ==
  LET f == SplitOnce(rest, "#")
      cut == SplitOnce(f[1], "?")
      q == Query(cut[2])
      main == IF Contains(cut[1], "@") THEN cut[1] ELSE DecodeBase64(cut[1])
      at == SplitLast(main, "@")
      hp == SplitLast(Split(at[2][1], "/")[1], ":")
      server == Unbracketed(hp[1])
      port == RequiredPort(hp[2][1])
      user == SplitOnce(DecodeBase64(at[1]), ":")
      plugin == IF IsSome(Get(q, "plugin")) THEN SsPlugin(Get(q, "plugin")[1])
                ELSE Ok(<<>>)
  IN  IF \/ ~IsSome(at[2]) \/ ~IsSome(hp[2]) \/ ~IsSome(port)
         \/ server = <<>> \/ Or(user[2], <<>>) = <<>> \/ ~IsOk(plugin)
      THEN Invalid
      ELSE Ok(SsEntry(q, plugin.ok, DecodeAndTrim(f[2]), server, port[1],
                      user[1], user[2][1]))

\* vmess.rs: the strings of a JSON object, and its values as texts.
Field(obj, k) == IF k \in DOMAIN obj THEN obj[k] ELSE [null |-> TRUE]
GetStr(obj, k) ==
  IF "str" \in DOMAIN Field(obj, k) THEN Some(Field(obj, k).str) ELSE None
AnyStr(v) ==
  CASE "str" \in DOMAIN v -> v.str
    [] "num" \in DOMAIN v ->
         <<CHOOSE w \in DOMAIN Digits : Digits[w] = v.num>>
    [] v = Bool(TRUE) -> <<"true">>
    [] OTHER -> <<"other">>

\* No "network" is written.
VmessEntry(obj, server, port, uuid) ==
  LET Text(k) == GetStr(obj, k)
      tls == Field(obj, "tls") \in {Bool(TRUE), Num(1), Word("tls"),
                                    Word("1"), Word("true")}
      net == OrElse(Text("net"), OrElse(Text("obfs"), Text("type")))
      network ==
        IF net \in {Some(<<t>>) : t \in {"ws", "websocket", "httpupgrade"}}
        THEN "ws"
        ELSE IF net \in {Some(<<t>>) : t \in {"http", "grpc", "h2"}}
        THEN net[1][1] ELSE "tcp"
      host == OrElse(Text("host"), Text("obfsParam"))
      path == Text("path")
      transport ==
        CASE network = "ws" ->
               WsOpts(host, path, net = Some(<<"httpupgrade">>))
          [] network = "grpc" -> GrpcOpts(path)
          [] network = "h2" -> H2Opts(host, path)
          [] network = "http" -> HttpOpts(host, OneOf(Some(Or(path, <<"/">>))))
          [] OTHER -> <<>>
  IN  Entry("vmess",
            OrElse(Text("ps"), OrElse(Text("remarks"), Text("remark"))),
            "VMess", server, port)
      ++ Kv("uuid", Str(uuid))
      ++ Kv("cipher", Str(Cipher(Some(Or(Text("scy"), <<"auto">>)))))
      ++ Kv("alterId", IF "num" \in DOMAIN Field(obj, "aid")
                       THEN Field(obj, "aid") ELSE Num(0))
      ++ Kv("tls", Bool(tls))
      ++ (IF tls
          THEN KvOpt("servername", OrElse(Text("sni"),
                       IF network = "tcp" THEN None ELSE host))
          ELSE <<>>)
      ++ (IF "verify_cert" \in DOMAIN obj
          THEN Kv("skip-cert-verify",
                  Bool(~ParseBool(AnyStr(obj["verify_cert"]))))
          ELSE <<>>)
      ++ transport

Vmess(rest) ==
  LET content == DecodeBase64(rest)
      json == IF Len(content) = 1 /\ content[1] \in DOMAIN Json
              THEN Json[content[1]] ELSE Bool(FALSE)
      obj == json.map
      port == IF "port" \in DOMAIN obj THEN RequiredPort(AnyStr(obj["port"]))
              ELSE None
  IN  IF "map" \notin DOMAIN json THEN Invalid
      ELSE IF \/ ~IsSome(GetStr(obj, "add")) \/ ~IsSome(GetStr(obj, "id"))
              \/ ~IsSome(port)
      THEN Invalid
      ELSE Ok(VmessEntry(obj, GetStr(obj, "add")[1], port[1],
                         GetStr(obj, "id")[1]))

-----------------------------------------------------------------------------
(* A line is a scheme and the text after "://"; a list is its lines, blank *)
(* and comment lines included.                                             *)

KNOWN_SCHEMES ==
  {"vless", "vmess", "ss", "trojan", "hysteria2", "hy2", "tuic", "wireguard",
   "wg", "ssr", "anytls", "hysteria", "hy", "socks5", "socks", "http", "https"}

\* A scheme in lower case is not written with capitals.
ASSUME LowerAssumption == KNOWN_SCHEMES \cap DOMAIN Lower = {}

Blank == [blank |-> TRUE]
Comment == [comment |-> TRUE]
Node(scheme, rest) == [scheme |-> scheme, rest |-> rest]
Nodes(lines) ==
  RowsAt(lines, {i \in DOMAIN lines : lines[i] \notin {Blank, Comment}})

\* convert_node.  The scheme that picks the function is in lower case, the
\* prefix each function asks for is not: the one it was written for, exactly.
ConvertNode(line) ==
  LET s == line.scheme
      low == IF s \in DOMAIN Lower THEN Lower[s] ELSE s
  IN  CASE low = "vless" ->
             IF s = low /\ line.rest # <<>> THEN Vless(line.rest) ELSE Invalid
        [] low = "vmess" -> IF s = low THEN Vmess(line.rest) ELSE Invalid
        [] low = "ss" -> IF s = low THEN Ss(line.rest) ELSE Invalid
        [] low = "trojan" -> IF s = low THEN Trojan(line.rest) ELSE Invalid
        [] low \in {"http", "https"} ->
             IF s = "http" THEN Proxy("http", "HTTP", line.rest) ELSE Invalid
        [] low \in {"socks5", "socks"} ->
             IF s = "socks5" THEN Proxy("socks5", "SOCKS5", line.rest)
             ELSE Invalid
        [] low \in {"hysteria2", "hy2"} ->
             IF s = low THEN Hysteria2(line.rest) ELSE Invalid
        [] OTHER -> Err("UnsupportedScheme")

LooksLikeNodeList(lines) ==
  Nodes(lines) # <<>> /\ Nodes(lines)[1].scheme \in KNOWN_SCHEMES

\* node_list_to_yaml: the first line that does not convert fails the list.
NodeListToYaml(lines) ==
  LET results == [i \in DOMAIN Nodes(lines) |-> ConvertNode(Nodes(lines)[i])]
      bad == {i \in DOMAIN results : ~IsOk(results[i])}
  IN  IF bad # {} THEN results[CHOOSE i \in bad : \A j \in bad : i <= j]
      ELSE IF results = <<>> THEN Err("NotAConfig")
      ELSE Ok(Kv("proxies", List([i \in DOMAIN results |->
                                    Map(results[i].ok)])))
=============================================================================
