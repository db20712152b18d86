----------------------------- MODULE ConfigGen -----------------------------
(***************************************************************************)
(* From the text of a subscription to the configuration the core runs:     *)
(* clard-config/src/config_gen (generate, deep_merge, inject and the       *)
(* default routing) and the ends of it in clard-helper/src/config.rs       *)
(* (options_from, validate_runtime, verify_runtime).                       *)
(*                                                                         *)
(* A subscription is [yaml |-> mapping], [lines |-> node list],            *)
(* [base64 |-> either] or [other |-> ...]; a list setting is a sequence of *)
(* texts.  The transaction around a failed generation is the subject of    *)
(* ConfigStore: here a failure leaves settings and runtime as they were.   *)
(***************************************************************************)
EXTENDS NodeFormats

CONSTANTS
  TEXTS,    \* the subscriptions a server may answer with
  SETTINGS, \* the settings a user may arrive at
  LOG_LEVEL \* log level of helper.toml

\* The fields of clard.toml that shape a configuration; a port is a u16.
Settings ==
  [mode : Seq(STRING), mixed_port : {0} \union Ports, tun_enabled : BOOLEAN,
   tun_stack : Seq(STRING), dns_hijack : Seq(Seq(STRING)),
   tun_dns_mode : Seq(STRING), route_exclude_address : Seq(Seq(STRING)),
   strict_route : BOOLEAN, auto_redirect : BOOLEAN,
   dns_fake_ip_filter_mode : Seq(STRING),
   dns_fake_ip_filter : Seq(Seq(STRING)), dns_use_hosts : BOOLEAN,
   dns_use_system_hosts : BOOLEAN, dns_nameserver_policy : Seq(Seq(STRING)),
   dns_hosts : Seq(Seq(STRING)), dns_nameserver : Seq(Seq(STRING)),
   dns_default_nameserver : Seq(Seq(STRING))]

ASSUME SettingsAssumption == SETTINGS \subseteq Settings

VARIABLES
  text,     \* the last subscription downloaded
  answer,   \* what its conversion returned
  stored,   \* Option of the profile in the store
  settings, \* clard.toml
  runtime   \* Option of the configuration generated last

genVars == <<text, answer, stored, settings, runtime>>

-----------------------------------------------------------------------------
(* Reading a subscription.                                                 *)

IsMap(v) == "map" \in DOMAIN v
IsList(v) == "list" \in DOMAIN v
\* get(k).and_then(as_mapping) and get(k).and_then(as_sequence).
SubMap(m, k) == IF k \in DOMAIN m /\ IsMap(m[k]) THEN m[k].map ELSE <<>>
SubList(m, k) == IF k \in DOMAIN m /\ IsList(m[k]) THEN m[k].list ELSE <<>>

\* normalize.
Normalize(t) == IF "base64" \in DOMAIN t THEN t.base64 ELSE t

\* parse_subscription.
ParseSubscription(t) ==
  CASE "yaml" \in DOMAIN t -> Ok(t.yaml)
    [] "lines" \in DOMAIN t ->
         IF LooksLikeNodeList(t.lines) THEN NodeListToYaml(t.lines)
         ELSE Err("NotAConfig")
    [] "empty" \in DOMAIN t -> Err("Empty")
    [] OTHER -> Err("NotAConfig")

SubscriptionToYaml(t) == ParseSubscription(Normalize(t))

\* A text is one thing: a mapping, lines, nothing, or neither; lines and the
\* lists of a mapping are sequences.
ASSUME TextAssumption ==
  \A t \in TEXTS :
    LET n == Normalize(t)
        IsSequence(q) == q \in Seq(ToSet(q))
    IN  /\ \E kind \in {"yaml", "lines", "empty", "other"} : DOMAIN n = {kind}
        /\ "lines" \in DOMAIN n => IsSequence(n.lines)
        /\ "yaml" \in DOMAIN n =>
             \A k \in DOMAIN n.yaml :
               IsList(n.yaml[k]) => IsSequence(n.yaml[k].list)

HasProxies(m) == SubList(m, "proxies") # <<>>

-----------------------------------------------------------------------------
(* Settings to options.                                                    *)

DEFAULT_ROUTE_EXCLUDE == <<<<"10.0.0.0/8">>, <<"fe80::/10">>>>
DEFAULT_NAMESERVER == <<<<"tls://223.5.5.5">>, <<"tls://1.12.12.12">>>>
DEFAULT_DNS_NAMESERVER == <<<<"223.5.5.5">>, <<"119.29.29.29">>>>
DEFAULT_HIJACK == <<<<"any:53">>, <<"tcp://any:53">>>>
ControllerUnix == Word("/run/clard/core.sock")

Trim(t) == SelectSeq(t, LAMBDA x : x # " ")
IfEmpty(t, dft) == IF t = <<>> THEN dft ELSE t
Strings(q) == List([i \in DOMAIN q |-> Str(q[i])])

\* options_from: the settings as they are, blank ones replaced.
OptionsFrom(s, level) ==
  [s EXCEPT
     !.mode = IfEmpty(Trim(s.mode), <<"rule">>),
     !.tun_stack = IfEmpty(s.tun_stack, <<"gvisor">>),
     !.dns_hijack = IfEmpty(s.dns_hijack, DEFAULT_HIJACK),
     !.tun_dns_mode = IfEmpty(s.tun_dns_mode, <<"fake-ip">>),
     !.route_exclude_address =
        IfEmpty(s.route_exclude_address, DEFAULT_ROUTE_EXCLUDE),
     !.dns_fake_ip_filter_mode =
        IfEmpty(s.dns_fake_ip_filter_mode, <<"blacklist">>)]
  ++ [log_level |-> IfEmpty(Trim(level), <<"info">>)]

-----------------------------------------------------------------------------
(* inject: the managed fields.                                             *)

\* The pairs that lack neither half.
Pairs(es) ==
  Inserted(es, {i \in DOMAIN es : es[i][1] # <<>> /\ es[i][2] # <<>>})

\* policy_mapping: "domain=dns1,dns2".
PolicyMapping(entries) ==
  LET Values(v) == SelectSeq(LET w == Split(v, ",")
                             IN  [i \in DOMAIN w |-> Trim(w[i])],
                             LAMBDA t : t # <<>>)
      m == Pairs([i \in DOMAIN entries |->
                       LET kv == SplitOnce(entries[i], "=")
                       IN  <<Trim(kv[1]), Values(Or(kv[2], <<>>))>>])
  IN  Map([k \in DOMAIN m |-> IF Len(m[k]) = 1 THEN Str(m[k][1])
                              ELSE Strings(m[k])])

\* apply_dns_overlay, force_defaults being true wherever it is called.
ApplyDnsOverlay(dns, o) ==
  KvIf(o.dns_nameserver_policy # <<>>, "nameserver-policy",
       PolicyMapping(o.dns_nameserver_policy))
  ++ KvIf(~o.dns_use_system_hosts, "use-system-hosts", Bool(FALSE))
  ++ KvIf(~o.dns_use_hosts, "use-hosts", Bool(FALSE))
  ++ KvIf(o.dns_fake_ip_filter # <<>>, "fake-ip-filter",
          Strings(o.dns_fake_ip_filter))
  ++ KvIf(o.dns_fake_ip_filter_mode # <<"blacklist">>, "fake-ip-filter-mode",
          Str(o.dns_fake_ip_filter_mode))
  ++ Kv("nameserver", Strings(IfEmpty(o.dns_nameserver, DEFAULT_NAMESERVER)))
  ++ Kv("default-nameserver",
        Strings(IfEmpty(o.dns_default_nameserver, DEFAULT_DNS_NAMESERVER)))
  ++ dns

DnsBlock(doc, o) ==
  Map(ApplyDnsOverlay(
    KvIf(o.tun_dns_mode = <<"fake-ip">>, "fake-ip-range",
         Word("198.18.0.1/16"))
    ++ Kv("enhanced-mode", Str(o.tun_dns_mode)) ++ Kv("enable", Bool(TRUE))
    ++ SubMap(doc, "dns"), o))

TunBlock(o) ==
  Map(Kv("enable", Bool(TRUE)) ++ Kv("device", Word("clard0"))
    ++ Kv("stack", Str(o.tun_stack)) ++ Kv("auto-route", Bool(TRUE))
    ++ Kv("auto-detect-interface", Bool(TRUE))
    ++ Kv("dns-hijack", Strings(o.dns_hijack))
    ++ Kv("iproute2-table-index", Num(2023))
    ++ Kv("iproute2-rule-index", Num(9100))
    ++ Kv("strict-route", Bool(o.strict_route))
    ++ Kv("auto-redirect", Bool(o.auto_redirect))
    ++ Kv("route-exclude-address", Strings(o.route_exclude_address)))

\* Mutant of InjectHosts: the entries replace what the profile has.
InjectHostsAlone(doc, entries) ==
  KvIf(entries # <<>>, "hosts", PolicyMapping(entries))

\* inject_hosts: "domain=ip" entries over the profile's own ones.
InjectHosts(doc, entries) ==
  LET m == Pairs([i \in DOMAIN entries |->
                       LET kv == SplitOnce(entries[i], "=")
                       IN  <<Trim(kv[1]), Trim(Or(kv[2], <<>>))>>])
  IN  KvIf(entries # <<>>, "hosts",
           Map([k \in DOMAIN m |-> Str(m[k])] ++ SubMap(doc, "hosts")))

\* The entrances of the core other than mixed-port.
ENTRANCES == {"port", "socks-port", "redir-port", "tproxy-port"}

\* Mutant of Closed: only the controller is closed.
ClosedController == Kv("external-controller", Str(<<>>))

\* They and the TCP controller are shut.
Closed == [k \in ENTRANCES |-> Num(0)]
          ++ Kv("external-controller", Str(<<>>))

TunPart(doc, o) ==
  IF o.tun_enabled THEN Kv("tun", TunBlock(o)) ++ Kv("dns", DnsBlock(doc, o))
  ELSE Kv("tun", Map(Kv("enable", Bool(FALSE))))

\* inject.
Managed(doc, o) ==
  InjectHosts(doc, o.dns_hosts) ++ TunPart(doc, o)
  ++ Kv("mixed-port", Num(o.mixed_port))
  ++ Kv("bind-address", Word("127.0.0.1")) ++ Kv("allow-lan", Bool(FALSE))
  ++ Kv("log-level", Str(o.log_level)) ++ Kv("mode", Str(o.mode))
  ++ Closed ++ Kv("external-controller-unix", ControllerUnix)
  ++ Kv("geo-auto-update", Bool(FALSE))

Inject(doc, o) == Managed(doc, o) ++ doc

-----------------------------------------------------------------------------
(* ensure_default_routing: groups and rules for a profile without rules.   *)

Named(ps) == {i \in DOMAIN ps : /\ IsMap(ps[i]) /\ "name" \in DOMAIN ps[i].map
                                /\ "str" \in DOMAIN ps[i].map["name"]}
NamesOf(ps) == LET named == RowsAt(ps, Named(ps))
               IN  [i \in DOMAIN named |-> named[i].map["name"]]
Names(m) == NamesOf(SubList(m, "proxies"))

GlobalGroup(names) ==
  Map(Kv("name", Word("GLOBAL")) ++ Kv("type", Word("select")) ++
      Kv("proxies", List(names \o <<Word("DIRECT")>>)))

DefaultRules == List(<<Word("GEOIP,private,DIRECT,no-resolve"),
                       Word("GEOIP,CN,DIRECT"), Word("MATCH,GLOBAL")>>)

\* Mutant of EnsureDefaultRouting: groups only, the rules forgotten.
EnsureGroupOnly(m) ==
  IF SubList(m, "rules") # <<>> \/ Names(m) = <<>> THEN m
  ELSE Kv("proxy-groups", List(<<GlobalGroup(Names(m))>>)) ++ m

EnsureDefaultRouting(m) ==
  IF SubList(m, "rules") # <<>> \/ Names(m) = <<>> THEN m
  ELSE Kv("rules", DefaultRules) ++
       KvIf(SubList(m, "proxy-groups") = <<>>, "proxy-groups",
            List(<<GlobalGroup(Names(m))>>)) ++ m

\* generate.  The helper passes no global base to merge the profile over.
Generate(doc, o) == EnsureDefaultRouting(Inject(doc, o))

-----------------------------------------------------------------------------
(* R3 and R6.                                                              *)

\* Under fake-ip-filter-mode rule every entry ends in an action.
LegalFilter(dns) ==
  ("fake-ip-filter-mode" \in DOMAIN dns
     /\ dns["fake-ip-filter-mode"] = Word("rule"))
  => \A i \in DOMAIN SubList(dns, "fake-ip-filter") :
       LET e == SubList(dns, "fake-ip-filter")[i]
           parts == Split(IF "str" \in DOMAIN e THEN e.str ELSE <<>>, ",")
       IN  parts[Len(parts)] \in {<<"fake-ip">>, <<"real-ip">>}

Is(m, k, v) == k \in DOMAIN m /\ m[k] = v

\* validate_runtime.
ValidateRuntime(m, s) ==
  /\ Is(m, "external-controller-unix", ControllerUnix)
  /\ Is(m, "mixed-port", Num(s.mixed_port))
  /\ LET tun == SubMap(m, "tun")
     IN  s.tun_enabled => /\ Is(tun, "device", Word("clard0"))
                          /\ Is(tun, "iproute2-table-index", Num(2023))
                          /\ Is(tun, "iproute2-rule-index", Num(9100))
  /\ LegalFilter(SubMap(m, "dns"))

\* What the core reports for a configuration it was given: a port that
\* another entrance of the same file has taken is reported as 0.
Reported(m) ==
  LET taken == \E k \in ENTRANCES : Is(m, k, m["mixed-port"])
  IN  Kv("mixed-port", IF taken THEN Num(0) ELSE m["mixed-port"])
      ++ [k \in {"log-level"} |-> m[k]]
      ++ Kv("tun", Map(Kv("enable", SubMap(m, "tun")["enable"])))

\* verify_runtime, its comparison with GET /configs.
VerifyRuntime(cfg, s, level) ==
  /\ cfg["mixed-port"] = Num(s.mixed_port)
  /\ cfg["log-level"] = Str(IfEmpty(Trim(level), <<"info">>))
  /\ cfg["tun"] = Map(Kv("enable", Bool(s.tun_enabled)))

-----------------------------------------------------------------------------
(* The steps: a subscription arrives, or a setting changes.                *)

Assembled(doc, s) == Generate(doc, OptionsFrom(s, LOG_LEVEL))

GenInit ==
  /\ text = [empty |-> TRUE] /\ answer = Err("Empty")
  /\ stored = None /\ runtime = None
  /\ settings \in SETTINGS

\* An accepted text becomes the profile if the runtime made of it is valid.
Store(t, converted, accepted) ==
  LET valid == accepted /\ ValidateRuntime(Assembled(converted.ok, settings),
                                           settings)
  IN  /\ text' = t /\ answer' = converted
      /\ stored' = IF valid THEN Some(converted.ok) ELSE stored
      /\ runtime' = IF valid THEN Some(Assembled(converted.ok, settings))
                    ELSE runtime
      /\ UNCHANGED settings

\* ProfileImport of the current profile: nodes or not.
Import(t) ==
  LET converted == SubscriptionToYaml(t)
  IN  Store(t, converted, IsOk(converted))

\* The timer: a text without nodes is not stored.
AutoUpdate(t) ==
  LET converted == SubscriptionToYaml(t)
  IN  Store(t, converted, IsOk(converted) /\ HasProxies(converted.ok))

\* SettingsSet with a profile in place.
SettingsSet(s) ==
  /\ IsSome(stored)
  /\ ValidateRuntime(Assembled(stored[1], s), s)
  /\ settings' = s
  /\ runtime' = Some(Assembled(stored[1], s))
  /\ UNCHANGED <<text, answer, stored>>

GenNext ==
  \/ \E t \in TEXTS : Import(t) \/ AutoUpdate(t)
  \/ \E s \in SETTINGS : SettingsSet(s)

GenSpec == GenInit /\ [][GenNext]_genVars

-----------------------------------------------------------------------------
(* Properties.                                                             *)

Lines == IF "lines" \in DOMAIN Normalize(text)
         THEN Nodes(Normalize(text).lines) ELSE <<>>
Entries == SubList(answer.ok, "proxies")

(* Every line that is neither blank nor a comment has its entry, with a    *)
(* port; only vless and ss refuse an address of empty brackets, and vmess  *)
(* an empty one not at all.                                                *)
ListIsWhole ==
  IsOk(answer) /\ Lines # <<>> =>
    /\ Len(Entries) = Len(Lines)
    /\ \A i \in DOMAIN Entries :
         /\ Entries[i].map["port"].num \in Ports
         /\ Entries[i].map["type"] \in {Word("vless"), Word("ss")} =>
              Entries[i].map["server"].str # <<>>

(* A list of well-written nodes is accepted, and each entry has all that   *)
(* its line says, unless a node is of one of the three refused formats:    *)
(* that one fails the list as a whole.                                     *)
NodesAsWritten ==
  Lines # <<>> /\ ToSet(Lines) \subseteq {LineOf(n) : n \in WRITTEN} =>
    IF \E n \in WRITTEN : Refused(n) /\ LineOf(n) \in ToSet(Lines)
    THEN answer = Invalid
    ELSE /\ IsOk(answer)
         /\ \A i \in DOMAIN Lines, n \in WRITTEN :
              LineOf(n) = Lines[i] =>
                \A saying \in Sayings(n) : Holds(Entries[i].map, saying)

(* A node list is converted whole or not at all, and as it was written:    *)
(* no line is dropped on the way, every entry has a port, and the nodes of *)
(* the formats in the converters' comments keep what they say, however     *)
(* they were spelt, but for https, socks and Shadowrocket vless, which the *)
(* comments name too and no converter reads (node_list_to_yaml, the port   *)
(* parsers, and the converters against the formats in their comments).     *)
ListsConvert == ListIsWhole /\ NodesAsWritten

(* What validate_runtime let through agrees with what the core will        *)
(* report of it: none of the entrances a profile may open (Reported knows  *)
(* port, socks-port, redir-port and tproxy-port) takes the mixed port and  *)
(* so makes verify_runtime roll a good setting back.  (Its check of the    *)
(* TUN device looks at the machine and is not in the formula.)             *)
ReadBackAgrees ==
  IsSome(runtime) =>
    VerifyRuntime(Reported(runtime[1]), settings, LOG_LEVEL)

MANAGED == {"mixed-port", "bind-address", "allow-lan", "log-level", "mode",
            "external-controller-unix", "geo-auto-update", "tun"}
           \union ENTRANCES \union {"external-controller"}

(* What is not managed is the profile's, whatever settings came and went:  *)
(* its own rules, groups and hosts stay, and its DNS is back when TUN is   *)
(* off.                                                                    *)
ProfileIsKept ==
  IsSome(runtime) =>
    LET p == stored[1]
        r == runtime[1]
    IN  /\ \A k \in DOMAIN p \ (MANAGED \union
                                {"dns", "hosts", "rules", "proxy-groups"}) :
             r[k] = p[k]
        /\ ~settings.tun_enabled /\ "dns" \in DOMAIN p => r["dns"] = p["dns"]
        /\ \A h \in DOMAIN SubMap(p, "hosts") : h \in DOMAIN SubMap(r, "hosts")
        /\ \A k \in {"rules", "proxy-groups"} :
             SubList(p, k) # <<>> => r[k] = p[k]

(* A profile with nodes has rules to route by, its own or the default ones *)
(* (what its own say is not judged), and when it has neither rules nor     *)
(* groups every node is in GLOBAL (ensure_default_routing).                *)
NodesAreRouted ==
  IsSome(runtime) /\ Names(stored[1]) # <<>> =>
    LET r == runtime[1]
    IN  /\ SubList(r, "rules") # <<>>
        /\ SubList(stored[1], "rules") = <<>> /\
           SubList(stored[1], "proxy-groups") = <<>> =>
             \A i \in DOMAIN Names(r) :
               Names(r)[i] \in
                 ToSet(SubList(SubList(r, "proxy-groups")[1].map, "proxies"))

=============================================================================
