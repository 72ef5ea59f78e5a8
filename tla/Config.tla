------------------------------- MODULE Config -------------------------------
(***************************************************************************)
(* The resolution of the exporter configuration: config.go, env.go and     *)
(* datadog.go, and what exporters.go and devsink_lotel.go make of it: the  *)
(* address that is dialled, the URL path, the dev sink's configuration.    *)
(*                                                                         *)
(* A setting that is missing or blank is the empty set, one that is there  *)
(* is a singleton.  An endpoint is the record of its parts.  Headers are   *)
(* their names; the operator's are any but the one of the API key.  Init   *)
(* is enabled, and its resource can be built.                              *)
(***************************************************************************)
EXTENDS Integers

CONSTANTS
  Inputs,     \* what Init may be given, and find in the environment
  Protocols,  \* names of protocols
  Hosts, Paths,
  HeaderNames,
  Milli,      \* time.Millisecond
  Half        \* an int64 is in -Half..Half-1

VARIABLES
  input,      \* [explicit, env, preset, exportTimeout, devSink]
  step,       \* the signal at which Init is, in Order
  pc,         \* "resolve", "dial", "exporters", "done"
  cfg,        \* resolvedConfig: a setting, or none yet, for each signal
  dev,        \* the same of the dev sink
  clients,    \* what the clients of the collectors are told
  outcome,    \* "none", "config_error", "noop" or "live"
  refused     \* history: a collector did not answer

vars == <<input, step, pc, cfg, dev, clients, outcome, refused>>

Order == <<"traces", "metrics", "logs">>
Signals == {"traces", "metrics", "logs"}

Schemes == {"", "http", "https", "ftp"}
Endpoint(scheme, host, port, path) ==
  [scheme |-> scheme, host |-> host, port |-> port, path |-> path, space |-> FALSE]

\* A port is missing, a number in 1..65535, or something else.
Ports == {"", "ok", "bad"}

EndpointType ==
  [scheme : Schemes, host : Hosts, port : Ports, path : Paths, space : BOOLEAN]
ApiKey == "dd-api-key"
Headers == SUBSET (HeaderNames \ {ApiKey})

AtMostOne(S) == {set \in SUBSET S : \A x, y \in set : x = y}

\* What one source says about one signal.
Settings ==
  [endpoint : AtMostOne(EndpointType), protocol : AtMostOne(Protocols),
   headers : AtMostOne(Headers), insecure : AtMostOne(BOOLEAN),
   timeout : AtMostOne(-Half..(Half - 1))]
Presets == [endpoint : AtMostOne(EndpointType), apiKey : BOOLEAN, headers : Headers]
InputType ==
  [explicit : [Signals -> Settings], env : [Signals \cup {"general"} -> Settings],
   preset : AtMostOne(Presets), exportTimeout : -Half..(Half - 1),
   devSink : AtMostOne(AtMostOne(EndpointType))]

\* The names that the code writes itself.
Supported == {"grpc", "http/protobuf"}
ASSUME NamesAssumption ==
  /\ Supported \subseteq Protocols
  /\ "localhost" \in Hosts
  /\ "" \in Paths
  /\ {ApiKey, "dd-otlp-source"} \subseteq HeaderNames

ASSUME NumbersAssumption == Milli \in Nat \ {0} /\ Half \in Nat \ {0}
ASSUME InputsAssumption == \A in \in Inputs : in \in InputType

defaultGRPCEndpoint == Endpoint("", "localhost", "ok", "")
defaultHTTPEndpoint == Endpoint("http", "localhost", "ok", "")

-----------------------------------------------------------------------------

OrElse(set, other) == IF set # {} THEN set ELSE other
The(set) == CHOOSE x \in set : TRUE

\* The endpoint, the headers and the protocol of the preset.  Headers are its own,
\* the API key if there is one, and the source.
datadogTraceDefaults(in) ==
  IF in.preset = {} THEN [endpoint |-> {}, headers |-> {}, protocol |-> {}]
  ELSE LET preset == The(in.preset)
       IN [endpoint |-> preset.endpoint, protocol |-> {"http/protobuf"},
           headers |-> {preset.headers \cup (IF preset.apiKey THEN {ApiKey} ELSE {})
                          \cup {"dd-otlp-source"}}]

\* Each setting has a cascade of its own.
resolveProtocol(in, sig) ==
  The(OrElse(in.explicit[sig].protocol,
      OrElse(in.env[sig].protocol,
      OrElse(in.env["general"].protocol,
      OrElse(IF sig = "traces" THEN datadogTraceDefaults(in).protocol ELSE {},
             {"grpc"})))))

resolveEndpoint(in, sig, protocol) ==
  The(OrElse(in.explicit[sig].endpoint,
      OrElse(in.env[sig].endpoint,
      OrElse(in.env["general"].endpoint,
      OrElse(IF sig = "traces" THEN datadogTraceDefaults(in).endpoint ELSE {},
             {IF protocol = "http/protobuf" THEN defaultHTTPEndpoint
              ELSE defaultGRPCEndpoint})))))

\* FALSE is what the option has when it is not set.
resolveInsecure(in, sig, endpoint) ==
  CASE endpoint.scheme = "http" -> TRUE
    [] endpoint.scheme = "https" -> FALSE
    [] OTHER ->
         The(OrElse(in.explicit[sig].insecure \cap {TRUE},
             OrElse(in.env[sig].insecure,
             OrElse(in.env["general"].insecure, {FALSE}))))

\* Headers that cannot be parsed are the empty set, and still win.  Mutant: the
\* general variable before the signal's.
resolveHeaders_GeneralFirst(in, sig) ==
  The(OrElse(in.explicit[sig].headers \ {{}},
      OrElse(in.env["general"].headers,
      OrElse(in.env[sig].headers,
      OrElse(IF sig = "traces" THEN datadogTraceDefaults(in).headers ELSE {}, {{}})))))
resolveHeaders(in, sig) ==
  The(OrElse(in.explicit[sig].headers \ {{}},
      OrElse(in.env[sig].headers,
      OrElse(in.env["general"].headers,
      OrElse(IF sig = "traces" THEN datadogTraceDefaults(in).headers ELSE {}, {{}})))))

\* An accepted timeout in nanoseconds, as an int64.  Mutant: no wrap.
Int64_Exact(n) == n
Int64(n) == ((n + Half) % (2 * Half)) - Half
parseTimeout(ms) == IF ms < 0 THEN {} ELSE {Int64(ms * Milli)}

Positive(set) == {t \in set : t > 0}

\* {} when the variable is rejected.
resolveTimeout(in, sig) ==
  LET explicit == Positive(in.explicit[sig].timeout)
      own == in.env[sig].timeout
      general == in.env["general"].timeout
  IN IF explicit # {} THEN explicit
     ELSE IF own # {} THEN parseTimeout(The(own))
     ELSE IF general # {} THEN parseTimeout(The(general))
     ELSE OrElse(Positive({in.exportTimeout}), {0})

-----------------------------------------------------------------------------
\* Endpoints

\* validateHostPortEndpoint: no scheme, no path, no white space.
HostPort(e) == e.scheme = "" /\ e.host # "" /\ e.port = "ok" /\ e.path = "" /\ ~e.space

Accepted(e, insecure) == {[endpoint |-> e, insecure |-> insecure]}

\* Strip http:// or https://, which decide about TLS.  Mutant: the setting does.
SchemeInsecure_Setting(e, insecure) == insecure
SchemeInsecure(e, insecure) ==
  CASE e.scheme = "http" -> TRUE [] e.scheme = "https" -> FALSE [] OTHER -> insecure

normalizeGRPCEndpoint(e, insecure) ==
  LET bare == IF e.scheme \in {"http", "https"} THEN [e EXCEPT !.scheme = ""] ELSE e
  IN IF HostPort(bare) THEN Accepted(bare, SchemeInsecure(e, insecure)) ELSE {}

\* What a bare host:port becomes.
AddScheme(insecure) == IF insecure THEN "http" ELSE "https"

\* Host of a URL is the name with the port, so that a port will do.
normalizeHTTPEndpoint(e, insecure) ==
  IF e.scheme = ""
    THEN IF HostPort(e)
           THEN Accepted([e EXCEPT !.scheme = AddScheme(insecure)], insecure)
           ELSE {}
    ELSE IF /\ e.scheme \in {"http", "https"}
            /\ e.host # "" \/ e.port # ""
            /\ e.port # "bad" /\ ~e.space
           THEN Accepted(e, SchemeInsecure(e, insecure))
           ELSE {}

normalizeEndpoint(e, protocol, insecure) ==
  IF protocol = "grpc" THEN normalizeGRPCEndpoint(e, insecure)
  ELSE normalizeHTTPEndpoint(e, insecure)

\* {} is a ConfigValidationError.
resolveExporterConfig(in, sig) ==
  LET protocol == resolveProtocol(in, sig)
      e == resolveEndpoint(in, sig, protocol)
      norm == normalizeEndpoint(e, protocol, resolveInsecure(in, sig, e))
  IN IF protocol \in Supported
       THEN {[endpoint |-> n.endpoint, insecure |-> n.insecure, protocol |-> protocol,
              headers |-> resolveHeaders(in, sig), timeout |-> t] :
                n \in norm, t \in resolveTimeout(in, sig)}
       ELSE {}

\* The dev sink has no headers; mutant: those of the primary exporter.
DevHeaders_Primary(primary) == primary.headers
DevHeaders(primary) == {}

\* {} when there is no dev sink or its endpoint is malformed.
devSinkEndpoint(in) ==
  IF The(in.devSink) = {} THEN defaultGRPCEndpoint ELSE The(The(in.devSink))
resolveDevSinkExporter(in, primary) ==
  LET e == devSinkEndpoint(in)
      protocol == IF e.scheme \in {"http", "https"} THEN "http/protobuf" ELSE "grpc"
  IN IF in.devSink = {} THEN {}
     ELSE {[endpoint |-> n.endpoint, insecure |-> n.insecure, protocol |-> protocol,
            headers |-> DevHeaders(primary), timeout |-> primary.timeout] :
              n \in normalizeEndpoint(e, protocol, TRUE)}

\* dialEndpoint needs a port, and does not add the one of the scheme.
CanDial(c) == c.endpoint.port # ""

\* A path for a URL that has none.
defaultHTTPPath(e, sig) == IF e.path \in {"", "/"} THEN {sig} ELSE {}

\* What the processor of a signal is told, beside the interval of Init: no timeout
\* that is not positive, which leaves it the SDK's own.
batchOptions(c) == IF c.timeout > 0 THEN {c.timeout} ELSE {}

\* What the client of a collector is told.  It may be told to be insecure, never to
\* be secure: what it is not told it decides itself, an HTTP client from its URL and
\* a gRPC client from the variables the SDK reads.
clientOptions(c, sig) ==
  [protocol |-> c.protocol, endpoint |-> c.endpoint,
   path |-> IF c.protocol = "grpc" THEN {} ELSE defaultHTTPPath(c.endpoint, sig),
   insecure |-> {c.insecure} \cap {TRUE},
   headers |-> IF c.headers = {} THEN {} ELSE {c.headers},
   timeout |-> IF c.timeout > 0 THEN {c.timeout} ELSE {}]

\* The client of the dev sink, and that of the primary collector with the
\* processor before it.
Exporter(c, devs, sig) ==
  [primary |-> clientOptions(c, sig), dev |-> {clientOptions(d, sig) : d \in devs},
   processor |-> batchOptions(c)]

-----------------------------------------------------------------------------

ResolvedType ==
  [endpoint : EndpointType, insecure : BOOLEAN, protocol : Supported,
   headers : SUBSET HeaderNames, timeout : -Half..(Half - 1)]

Timeouts == 1..(Half - 1)
ClientType ==
  [protocol : Supported, endpoint : EndpointType, path : SUBSET Signals,
   insecure : SUBSET {TRUE}, headers : SUBSET SUBSET HeaderNames, timeout : SUBSET Timeouts]
ExporterType ==
  [primary : ClientType, dev : SUBSET ClientType, processor : SUBSET Timeouts]

TypeOK ==
  /\ input \in InputType
  /\ step \in 1..3
  /\ pc \in {"resolve", "dial", "exporters", "done"}
  /\ cfg \in [Signals -> SUBSET ResolvedType]
  /\ dev \in [Signals -> SUBSET ResolvedType]
  /\ clients \in [Signals -> SUBSET ExporterType]
  /\ outcome \in {"none", "config_error", "noop", "live"}
  /\ refused \in BOOLEAN

Init ==
  /\ input \in Inputs
  /\ step = 1
  /\ pc = "resolve"
  /\ cfg = [sig \in Signals |-> {}]
  /\ dev = [sig \in Signals |-> {}]
  /\ clients = [sig \in Signals |-> {}]
  /\ outcome = "none"
  /\ refused = FALSE

Here == Order[step]
Goto(next) ==
  /\ pc' = IF step = 3 THEN next ELSE pc
  /\ step' = IF step = 3 THEN 1 ELSE step + 1
End(result) == pc' = "done" /\ outcome' = result /\ UNCHANGED step

\* resolveConfig, one signal; the first error ends Init.
Resolve ==
  /\ pc = "resolve"
  /\ LET c == resolveExporterConfig(input, Here)
     IN /\ cfg' = IF c = {} THEN [sig \in Signals |-> {}] ELSE [cfg EXCEPT ![Here] = c]
        /\ IF c = {} THEN End("config_error") ELSE Goto("dial") /\ UNCHANGED outcome
  /\ UNCHANGED <<input, dev, clients, refused>>

DialAnswered ==
  /\ pc = "dial" /\ CanDial(The(cfg[Here]))
  /\ Goto("exporters")
  /\ UNCHANGED <<input, cfg, dev, clients, outcome, refused>>

\* No answer, or no address that could be dialled.  (The failure of an exporter's
\* constructor, with the same outcome, is Bootstrap's.)
DialFails ==
  /\ pc = "dial"
  /\ refused' = CanDial(The(cfg[Here]))
  /\ End("noop")
  /\ UNCHANGED <<input, cfg, dev, clients>>

\* The exporter of a signal is made, with the dev sink's if that can be dialled
\* and answers.
MakeExporter ==
  /\ pc = "exporters"
  /\ Goto("done")
  /\ \/ dev' = [dev EXCEPT ![Here] =
          {c \in resolveDevSinkExporter(input, The(cfg[Here])) : CanDial(c)}]
     \/ UNCHANGED dev
  /\ clients' = [clients EXCEPT ![Here] = {Exporter(The(cfg[Here]), dev'[Here], Here)}]
  /\ outcome' = IF step = 3 THEN "live" ELSE outcome
  /\ UNCHANGED <<input, cfg, refused>>

Finished == pc = "done" /\ UNCHANGED vars

Next == Resolve \/ DialAnswered \/ DialFails \/ MakeExporter \/ Finished

Spec == Init /\ [][Next]_vars

-----------------------------------------------------------------------------
\* Properties

Configs == UNION {cfg[sig] : sig \in Signals}
DevConfigs == UNION {dev[sig] : sig \in Signals}

\* Who may say something about a signal, first who counts most: the options, of which
\* a FALSE, an empty map and a timeout that is not positive do not count, the variables
\* of the signal, the general ones (docs/bootstrap-design.md:71-86).
Ranks(in, sig) ==
  LET InMillis(s) == [s EXCEPT !.timeout = {Int64(t * Milli) : t \in @}]
  IN <<[in.explicit[sig] EXCEPT !.headers = @ \ {{}}, !.insecure = @ \ {FALSE},
                                !.timeout = {t \in @ : t > 0}],
       InMillis(in.env[sig]), InMillis(in.env["general"])>>

\* What is said about a setting by those before whom all are silent.
Given(in, sig, setting) ==
  LET Says(n) == Ranks(in, sig)[n][setting]
  IN UNION {Says(n) : n \in {n \in 1..3 : \A m \in 1..3 : m < n => Says(m) = {}}}

\* A gRPC exporter gets host:port and nothing else, an HTTP one a URL with a
\* host, or with a port only, which is the host the operator wrote.
EndpointsUsable ==
  \A c \in Configs \cup DevConfigs :
    LET e == c.endpoint
    IN /\ ~e.space
       /\ c.protocol = "grpc" =>
            e.scheme = "" /\ e.host # "" /\ e.port = "ok" /\ e.path = ""
       /\ c.protocol = "http/protobuf" =>
            /\ e.scheme \in {"http", "https"} /\ e.port # "bad"
            /\ e.host = "" => e.port = "ok"

\* What a client is told for the endpoint e, when said is what was said of plain text.
Agrees(client, e, said) ==
  LET Told == client.insecure = {TRUE}
  IN /\ e.scheme = "http" => Told
     /\ e.scheme = "https" => ~Told
     /\ e.scheme = "" => (Told <=> TRUE \in said)
     /\ client.protocol = "http/protobuf" => (Told <=> client.endpoint.scheme = "http")

\* TLS.  An http endpoint, of the operator, the preset or the dev sink, makes a client
\* insecure and an https one never does, whatever the setting; without a scheme the
\* operator's first word decides, and the dev sink is insecure.  The URL of an HTTP
\* client agrees: the scheme is looked at in two places, and only in one of them for
\* the dev sink.  (A gRPC client that is told nothing asks the SDK's variables: that
\* it uses TLS is not claimed.)
PlaintextAgrees ==
  \A sig \in Signals : \A x \in clients[sig] :
    /\ Agrees(x.primary, resolveEndpoint(input, sig, x.primary.protocol),
              Given(input, sig, "insecure"))
    /\ \A d \in x.dev : Agrees(d, devSinkEndpoint(input), {TRUE})

\* What passed validation an exporter can use as it is, and its client is told to use
\* plain text where the scheme or the operator has it so and nowhere else
\* (docs/bootstrap-design.md:94-104, docs/env-vars.md:105-121).
ExportersGetUsable == EndpointsUsable /\ PlaintextAgrees

\* The API key of the preset goes to the client of the trace collector alone: to
\* no other signal, and not to the dev sink.
KeyStaysWithTraces ==
  LET Sends(client) == ApiKey \in UNION client.headers
  IN \A sig \in Signals : \A x \in clients[sig] :
       /\ Sends(x.primary) => sig = "traces"
       /\ \A d \in x.dev : ~Sends(d)

PresetFor(sig) == IF sig = "traces" THEN input.preset ELSE {}

ProtocolFollows(sig, protocol) ==
  LET given == Given(input, sig, "protocol")
  IN IF given # {} THEN protocol \in given
     ELSE protocol = IF PresetFor(sig) # {} THEN "http/protobuf" ELSE "grpc"

HeadersFollow(sig, headers) ==
  LET given == Given(input, sig, "headers")
  IN IF given # {} THEN headers \in given
     ELSE /\ PresetFor(sig) = {} => headers = {}
          /\ \A p \in PresetFor(sig) : /\ p.headers \cup {"dd-otlp-source"} \subseteq headers
                                       /\ ApiKey \in headers <=> p.apiKey = TRUE

EndpointFollows(sig, endpoint) ==
  LET given == Given(input, sig, "endpoint")
      Goes(e) == /\ endpoint.host = e.host
                 /\ endpoint.port = e.port
                 /\ endpoint.path = e.path
  IN IF given # {} THEN \E e \in given : Goes(e)
     ELSE \/ \E p \in PresetFor(sig) : \E e \in p.endpoint : Goes(e)
          \/ (\A p \in PresetFor(sig) : p.endpoint = {}) /\ Goes(defaultGRPCEndpoint)

TimeoutFollows(sig, timeout) ==
  LET given == Given(input, sig, "timeout")
  IN IF given # {} THEN timeout \in given
     ELSE timeout = IF input.exportTimeout > 0 THEN input.exportTimeout ELSE 0

\* Five cascades, one order: a setting is what the first source says that has one,
\* and where the operator is silent the preset's, for traces only, then the default
\* (docs/bootstrap-design.md:71-86, 141-146).  An endpoint keeps host, port and path.
PrecedenceFollowed ==
  \A sig \in Signals : \A c \in cfg[sig] :
    /\ ProtocolFollows(sig, c.protocol)
    /\ HeadersFollow(sig, c.headers)
    /\ EndpointFollows(sig, c.endpoint)
    /\ TimeoutFollows(sig, c.timeout)

\* Two signals that share a collector, primary or dev sink, over HTTP are told
\* apart by the path, unless the operator wrote one.
PathsTellSignals ==
  LET Bare(client) == client.endpoint.scheme # "" /\ client.endpoint.path \in {"", "/"}
      Apart(c, d) == Bare(c) /\ Bare(d) => c.path # d.path
  IN \A s, t \in Signals : \A x \in clients[s], y \in clients[t] :
       s # t => Apart(x.primary, y.primary) /\ \A c \in x.dev, d \in y.dev : Apart(c, d)

\* What belongs to one signal stays with it (datadog.go:21-37, devsink_lotel.go:58-80,
\* exporters.go:132-223,287-302).
SignalsKeptApart == KeyStaysWithTraces /\ PathsTellSignals

\* docs/env-vars.md:141-145 "Direct Datadog intake example": an https URL without
\* a port is a collector like any other, so that only a collector that does not
\* answer makes Init fall back.
NoopOnlyWhenRefused == outcome = "noop" => refused

\* env.go:316 "timeout must be non-negative".
TimeoutNonNegative == \A c \in Configs : c.timeout >= 0
=============================================================================
