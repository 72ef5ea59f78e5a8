------------------------------ MODULE MCConfig ------------------------------
(***************************************************************************)
(* Config on two families of inputs: one general endpoint in every shape,  *)
(* and every mixture of the sources of a setting.                          *)
(***************************************************************************)
EXTENDS Config

MCMilli == 10
MCHalf == 256
MCProtocols == Supported \cup {"http/json"}
MCHosts ==
  {"", "localhost", "collector", "intake", "dev", "explicit", "traces", "metrics", "general"}
MCPaths == {"", "/", "/v1/traces"}
MCHeaderNames ==
  {ApiKey, "dd-otlp-source", "team", "explicit", "traces", "metrics", "general"}

Unset == [endpoint |-> {}, protocol |-> {}, headers |-> {}, insecure |-> {}, timeout |-> {}]

In(explicit, traces, metrics, general, preset, devSink) ==
  [explicit |-> [sig \in Signals |-> IF sig = "traces" THEN explicit ELSE Unset],
   env |-> [source \in Signals \cup {"general"} |->
              CASE source = "traces" -> traces [] source = "metrics" -> metrics
                [] source = "logs" -> Unset [] source = "general" -> general],
   preset |-> preset, exportTimeout |-> 3, devSink |-> devSink]

NoPreset == {}
PresetAlone == {[endpoint |-> {}, apiKey |-> TRUE, headers |-> {}]}
PresetRouted ==
  {[endpoint |-> {Endpoint("https", "intake", "ok", "/v1/traces")}, apiKey |-> TRUE,
    headers |-> {"team"}]}
NoDevSink == {}

\* A blank endpoint is one that is not set.
Endpoints ==
  ({Endpoint(scheme, host, port, path) :
     scheme \in Schemes, host \in {"", "collector"}, port \in Ports,
     path \in MCPaths}
    \ {Endpoint("", "", "", "")})
  \cup {[Endpoint(scheme, "collector", "ok", "") EXCEPT !.space = TRUE] : scheme \in Schemes}

\* One general endpoint for the three signals, and no timeout.
MCEndpoints ==
  {[In(Unset, Unset, Unset,
       [Unset EXCEPT !.endpoint = {e}, !.protocol = protocol, !.insecure = insecure],
       preset, devSink) EXCEPT !.exportTimeout = -1] :
     devSink \in {NoDevSink, {{Endpoint("https", "dev", "ok", "")}}}, e \in Endpoints,
     protocol \in {{}} \cup {{p} : p \in MCProtocols},
     insecure \in {{}, {TRUE}}, preset \in {NoPreset, PresetAlone}}

\* What one source may say; its name is the host and the header it sets.
Says(name) ==
  {Unset,
   [Unset EXCEPT !.endpoint = {Endpoint("", name, "ok", "")}],
   [Unset EXCEPT !.endpoint = {Endpoint("https", name, "ok", "/v1/traces")},
                 !.protocol = {"http/protobuf"}],
   [Unset EXCEPT !.headers = {{name}}, !.insecure = {TRUE}],
   [Unset EXCEPT !.protocol = {"http/protobuf"}, !.timeout = {7}]}

\* Only an option can hold values that do not count.
OptionSays(name) ==
  Says(name) \cup {[Unset EXCEPT !.headers = {{}}, !.insecure = {FALSE}, !.timeout = {-1}]}

\* Only a variable can hold what cannot be parsed, or a number out of range.
EnvSays(name) ==
  Says(name) \cup
    {[Unset EXCEPT !.headers = {{}}], [Unset EXCEPT !.timeout = {26}],
     [Unset EXCEPT !.timeout = {-1}], [Unset EXCEPT !.insecure = {FALSE}],
     [Unset EXCEPT !.protocol = {"grpc"}]}

MetricsSay ==
  {Unset, [Unset EXCEPT !.endpoint = {Endpoint("http", "metrics", "ok", "")},
                        !.headers = {{"metrics"}}]}

\* None, the default one, one over HTTP, and one that is malformed.
DevSinks ==
  {NoDevSink, {{}}, {{Endpoint("http", "dev", "ok", "")}}, {{Endpoint("ftp", "dev", "ok", "")}}}

MCSources ==
  {In(explicit, traces, metrics, general, preset, devSink) :
     explicit \in OptionSays("explicit"), traces \in EnvSays("traces"), metrics \in MetricsSay,
     general \in EnvSays("general"), preset \in {NoPreset, PresetAlone, PresetRouted},
     devSink \in DevSinks}

MCInputs == MCEndpoints \cup MCSources
=============================================================================
