---------------------------- MODULE ConfigProofs ----------------------------
(***************************************************************************)
(* The safety properties of Config, proved for any inputs of InputType:    *)
(* any hosts, paths and names of headers, any timeouts, any combination of *)
(* sources and presets.                                                    *)
(***************************************************************************)
EXTENDS Config, TLAPS

-----------------------------------------------------------------------------
\* Choices

LEMMA TheIn == ASSUME NEW S, S # {} PROVE The(S) \in S
PROOF
  BY DEF The

LEMMA OrElseIn ==
  ASSUME NEW T, NEW a \in SUBSET T, NEW b \in SUBSET T
  PROVE  OrElse(a, b) \in SUBSET T
PROOF
  BY DEF OrElse

LEMMA OrElseThe ==
  ASSUME NEW T, NEW a \in SUBSET T, NEW b \in SUBSET T, b # {}
  PROVE  The(OrElse(a, b)) \in T
PROOF
  <1>1. OrElse(a, b) # {} BY DEF OrElse
  <1> QED BY <1>1, OrElseIn, TheIn

\* A setting is what the first source that has one says, and what comes after the
\* three sources of the operator when they are silent.
LEMMA CascadeIs ==
  ASSUME NEW a, NEW b, NEW c, NEW d, NEW e, NEW given,
         given = OrElse(a, OrElse(b, c)), e # {}
  PROVE  LET v == The(OrElse(a, OrElse(b, OrElse(c, OrElse(d, e)))))
         IN /\ given # {} => v \in given
            /\ given = {} /\ d # {} => v \in d
            /\ given = {} /\ d = {} => v \in e
PROOF
  <1>1. given # {} => OrElse(a, OrElse(b, OrElse(c, OrElse(d, e)))) = given BY DEF OrElse
  <1>2. given = {} => a = {} /\ b = {} /\ c = {} BY DEF OrElse
  <1>3. given = {} => OrElse(a, OrElse(b, OrElse(c, OrElse(d, e)))) = OrElse(d, e)
    BY <1>2 DEF OrElse
  <1> QED BY <1>1, <1>3, TheIn DEF OrElse

LEMMA CascadeIn ==
  ASSUME NEW T, NEW a \in SUBSET T, NEW b \in SUBSET T, NEW c \in SUBSET T,
         NEW d \in SUBSET T, NEW e \in SUBSET T, e # {}
  PROVE  The(OrElse(a, OrElse(b, OrElse(c, OrElse(d, e))))) \in T
PROOF
  <1>1. OrElse(d, e) \in SUBSET T /\ OrElse(d, e) # {} BY DEF OrElse
  <1>2. OrElse(c, OrElse(d, e)) \in SUBSET T /\ OrElse(c, OrElse(d, e)) # {}
    BY <1>1 DEF OrElse
  <1>3. PICK rest \in SUBSET T : rest = OrElse(c, OrElse(d, e)) /\ rest # {} BY <1>2
  <1>4. OrElse(b, rest) \in SUBSET T /\ OrElse(b, rest) # {} BY <1>3 DEF OrElse
  <1> QED BY <1>3, <1>4, OrElseThe

LEMMA NumbersAre == Milli \in Nat /\ Milli > 0 /\ Half \in Nat /\ Half > 0
PROOF
  BY NumbersAssumption

\* An int64 is what is left of a number modulo two halves (env.go:318).
LEMMA Int64In == ASSUME NEW n \in Int PROVE Int64(n) \in -Half..(Half - 1)
PROOF
  <1>1. PICK m \in Int : m = n + Half BY NumbersAre
  <1>2. PICK w \in Nat : w = 2 * Half /\ w > 0 BY NumbersAre
  <1>3. m % w \in Int /\ 0 <= m % w /\ m % w < w BY <1>2
  <1>4. PICK d \in Int : d = m % w BY <1>3
  <1>5. Int64(n) = d - Half BY <1>1, <1>2, <1>4 DEF Int64
  <1> QED BY <1>2, <1>3, <1>4, <1>5, NumbersAre

-----------------------------------------------------------------------------
\* What the cascades return

LEMMA SettingsAre ==
  ASSUME NEW s \in Settings
  PROVE  /\ s["endpoint"] \in SUBSET EndpointType
         /\ s["protocol"] \in SUBSET Protocols
         /\ s["headers"] \in SUBSET Headers
         /\ s["insecure"] \in SUBSET BOOLEAN
         /\ s["timeout"] \in SUBSET (-Half..(Half - 1))
         /\ \A x, y \in s["insecure"] : x = y
PROOF
  BY DEF Settings, AtMostOne

LEMMA InputsAre ==
  ASSUME NEW in \in InputType, NEW sig \in Signals
  PROVE  /\ in.explicit[sig] \in Settings
         /\ in.env[sig] \in Settings
         /\ in.env["general"] \in Settings
         /\ in.preset \in SUBSET Presets
         /\ \A x, y \in in.preset : x = y
         /\ in.exportTimeout \in -Half..(Half - 1)
         /\ in.devSink \in SUBSET (SUBSET EndpointType)
PROOF
  BY DEF InputType, AtMostOne

LEMMA RanksAre ==
  ASSUME NEW in \in InputType, NEW sig \in Signals
  PROVE  LET ranks == Ranks(in, sig)
             explicit == in.explicit[sig]
             own == in.env[sig]
             general == in.env["general"]
         IN /\ \A setting \in {"endpoint", "protocol"} :
                 /\ ranks[1][setting] = explicit[setting]
                 /\ ranks[2][setting] = own[setting]
                 /\ ranks[3][setting] = general[setting]
            /\ ranks[1]["headers"] = explicit.headers \ {{}}
            /\ ranks[2]["headers"] = own.headers
            /\ ranks[3]["headers"] = general.headers
            /\ ranks[1]["insecure"] = explicit.insecure \ {FALSE}
            /\ ranks[2]["insecure"] = own.insecure
            /\ ranks[3]["insecure"] = general.insecure
            /\ ranks[1]["timeout"] = {t \in explicit.timeout : t > 0}
            /\ ranks[2]["timeout"] = {Int64(t * Milli) : t \in own.timeout}
            /\ ranks[3]["timeout"] = {Int64(t * Milli) : t \in general.timeout}
PROOF
  <1>1. PICK explicit \in Settings : explicit = in.explicit[sig] BY InputsAre
  <1>2. PICK own \in Settings : own = in.env[sig] BY InputsAre
  <1>3. PICK general \in Settings : general = in.env["general"] BY InputsAre
  <1>4. Ranks(in, sig) =
          <<[explicit EXCEPT !.headers = @ \ {{}}, !.insecure = @ \ {FALSE},
                             !.timeout = {t \in @ : t > 0}],
            [own EXCEPT !.timeout = {Int64(t * Milli) : t \in @}],
            [general EXCEPT !.timeout = {Int64(t * Milli) : t \in @}]>>
    BY <1>1, <1>2, <1>3 DEF Ranks
  <1>5. PICK first : first = [explicit EXCEPT !.headers = @ \ {{}}, !.insecure = @ \ {FALSE},
                                              !.timeout = {t \in @ : t > 0}]
    OBVIOUS
  <1>6. PICK second : second = [own EXCEPT !.timeout = {Int64(t * Milli) : t \in @}] OBVIOUS
  <1>7. PICK third : third = [general EXCEPT !.timeout = {Int64(t * Milli) : t \in @}]
    OBVIOUS
  <1>8. Ranks(in, sig) = <<first, second, third>> BY <1>4, <1>5, <1>6, <1>7
  <1>9. /\ first["endpoint"] = explicit.endpoint /\ first["protocol"] = explicit.protocol
        /\ first["headers"] = explicit.headers \ {{}}
        /\ first["insecure"] = explicit.insecure \ {FALSE}
        /\ first["timeout"] = {t \in explicit.timeout : t > 0}
    BY <1>5 DEF Settings
  <1>10. /\ second["endpoint"] = own.endpoint /\ second["protocol"] = own.protocol
         /\ second["headers"] = own.headers /\ second["insecure"] = own.insecure
         /\ second["timeout"] = {Int64(t * Milli) : t \in own.timeout}
    BY <1>6 DEF Settings
  <1>11. /\ third["endpoint"] = general.endpoint /\ third["protocol"] = general.protocol
         /\ third["headers"] = general.headers /\ third["insecure"] = general.insecure
         /\ third["timeout"] = {Int64(t * Milli) : t \in general.timeout}
    BY <1>7 DEF Settings
  <1>12. /\ Ranks(in, sig)[1] = first /\ Ranks(in, sig)[2] = second
         /\ Ranks(in, sig)[3] = third
    BY <1>8
  <1> QED BY <1>1, <1>2, <1>3, <1>9, <1>10, <1>11, <1>12

\* What is given is what the first of the three says who says anything.
LEMMA GivenIs ==
  ASSUME NEW in, NEW sig, NEW setting
  PROVE  Given(in, sig, setting) =
           OrElse(Ranks(in, sig)[1][setting],
                  OrElse(Ranks(in, sig)[2][setting], Ranks(in, sig)[3][setting]))
PROOF
  <1> DEFINE Says(n) == Ranks(in, sig)[n][setting]
             heard == {n \in 1..3 : \A m \in 1..3 : m < n => Says(m) = {}}
  <1>1. Given(in, sig, setting) = UNION {Says(n) : n \in heard} BY DEF Given
  <1>2. \A n : n \in 1..3 <=> n = 1 \/ n = 2 \/ n = 3 OBVIOUS
  <1>3. /\ 1 \in heard
        /\ 2 \in heard <=> Says(1) = {}
        /\ 3 \in heard <=> Says(1) = {} /\ Says(2) = {}
    BY <1>2
  <1>4. \A n \in heard : n = 1 \/ n = 2 \/ n = 3 BY <1>2
  <1> HIDE DEF Says, heard
  <1>5. \A x : x \in UNION {Says(n) : n \in heard} <=>
          x \in OrElse(Says(1), OrElse(Says(2), Says(3)))
    BY <1>3, <1>4 DEF OrElse
  <1>6. UNION {Says(n) : n \in heard} = OrElse(Says(1), OrElse(Says(2), Says(3)))
    BY <1>5
  <1> QED BY <1>1, <1>6 DEF Says

LEMMA DefaultsAre ==
  /\ defaultGRPCEndpoint \in EndpointType
  /\ defaultHTTPEndpoint \in EndpointType
PROOF
  BY NamesAssumption
  DEF defaultGRPCEndpoint, defaultHTTPEndpoint, Endpoint, EndpointType, Schemes, Ports

\* What the preset contributes to the traces (datadog.go:16-38).
LEMMA PresetIs ==
  ASSUME NEW in \in InputType
  PROVE  LET d == datadogTraceDefaults(in)
         IN /\ d.endpoint \in SUBSET EndpointType
            /\ d.headers \in SUBSET (SUBSET HeaderNames)
            /\ in.preset = {} => d.protocol = {} /\ d.headers = {} /\ d.endpoint = {}
            /\ \A p \in in.preset :
                 /\ d.protocol = {"http/protobuf"} /\ d.endpoint = p.endpoint
                 /\ d.headers = {p.headers \cup (IF p.apiKey THEN {ApiKey} ELSE {})
                                   \cup {"dd-otlp-source"}}
                 /\ p.headers \in Headers /\ p.apiKey \in BOOLEAN
PROOF
  <1>1. CASE in.preset = {} BY <1>1 DEF datadogTraceDefaults
  <1>2. CASE in.preset # {}
    <2>1. PICK p : p = The(in.preset) OBVIOUS
    <2>2. p \in in.preset /\ \A q \in in.preset : q = p BY <1>2, <2>1, TheIn, InputsAre DEF Signals
    <2>3. p \in Presets BY <2>2, InputsAre DEF Signals
    <2>4. p.endpoint \in SUBSET EndpointType /\ p.headers \in Headers /\ p.apiKey \in BOOLEAN
      BY <2>3 DEF Presets, AtMostOne
    <2>5. PICK h : h = p.headers \cup (IF p.apiKey THEN {ApiKey} ELSE {})
                         \cup {"dd-otlp-source"}
      OBVIOUS
    <2>6. h \in SUBSET HeaderNames BY <2>4, <2>5, NamesAssumption DEF Headers
    <2>7. datadogTraceDefaults(in) =
            [endpoint |-> p.endpoint, protocol |-> {"http/protobuf"}, headers |-> {h}]
      BY <1>2, <2>1, <2>5 DEF datadogTraceDefaults
    <2> QED BY <1>2, <2>2, <2>4, <2>5, <2>6, <2>7
  <1> QED BY <1>1, <1>2

LEMMA EndpointIn ==
  ASSUME NEW in \in InputType, NEW sig \in Signals, NEW protocol
  PROVE  resolveEndpoint(in, sig, protocol) \in EndpointType
PROOF
  <1>1. PICK d \in SUBSET EndpointType :
          d = IF sig = "traces" THEN datadogTraceDefaults(in).endpoint ELSE {}
    BY PresetIs
  <1>2. PICK e \in SUBSET EndpointType :
          e = {IF protocol = "http/protobuf" THEN defaultHTTPEndpoint ELSE defaultGRPCEndpoint}
    BY DefaultsAre
  <1>3. /\ in.explicit[sig].endpoint \in SUBSET EndpointType
        /\ in.env[sig].endpoint \in SUBSET EndpointType
        /\ in.env["general"].endpoint \in SUBSET EndpointType
    BY InputsAre, SettingsAre
  <1>4. e # {} BY <1>2
  <1>5. resolveEndpoint(in, sig, protocol) =
          The(OrElse(in.explicit[sig].endpoint, OrElse(in.env[sig].endpoint,
              OrElse(in.env["general"].endpoint, OrElse(d, e)))))
    BY <1>1, <1>2 DEF resolveEndpoint
  <1> QED BY <1>3, <1>4, <1>5, CascadeIn

LEMMA HeadersIn ==
  ASSUME NEW in \in InputType, NEW sig \in Signals
  PROVE  /\ resolveHeaders(in, sig) \in SUBSET HeaderNames
         /\ sig # "traces" => ApiKey \notin resolveHeaders(in, sig)
PROOF
  <1>1. PICK T : T = IF sig = "traces" THEN SUBSET HeaderNames ELSE Headers OBVIOUS
  <1>2. Headers \subseteq T /\ T \subseteq SUBSET HeaderNames /\ {} \in T
    BY <1>1 DEF Headers
  <1>3. PICK d \in SUBSET T :
          d = IF sig = "traces" THEN datadogTraceDefaults(in).headers ELSE {}
    BY <1>1, PresetIs
  <1>4. PICK a \in SUBSET T : a = in.explicit[sig].headers \ {{}}
    BY <1>2, InputsAre, SettingsAre
  <1>5. in.env[sig].headers \in SUBSET T /\ in.env["general"].headers \in SUBSET T
    BY <1>2, InputsAre, SettingsAre
  <1>6. PICK none \in SUBSET T : none = {{}} BY <1>2
  <1>7. resolveHeaders(in, sig) =
          The(OrElse(a, OrElse(in.env[sig].headers,
              OrElse(in.env["general"].headers, OrElse(d, none)))))
    BY <1>3, <1>4, <1>6 DEF resolveHeaders
  <1>8. resolveHeaders(in, sig) \in T BY <1>5, <1>6, <1>7, CascadeIn
  <1> QED BY <1>1, <1>2, <1>8 DEF Headers

\* An endpoint without a scheme is insecure when the operator's first word is
\* (env.go:69-86).
LEMMA InsecureIn ==
  ASSUME NEW in \in InputType, NEW sig \in Signals, NEW e \in EndpointType
  PROVE  /\ resolveInsecure(in, sig, e) \in BOOLEAN
         /\ e.scheme = "" =>
              (resolveInsecure(in, sig, e) = TRUE <=> TRUE \in Given(in, sig, "insecure"))
PROOF
  <1>1. PICK a \in SUBSET BOOLEAN : a = in.explicit[sig].insecure \cap {TRUE} OBVIOUS
  <1>2. PICK b \in SUBSET BOOLEAN : b = in.env[sig].insecure BY InputsAre, SettingsAre
  <1>3. PICK c \in SUBSET BOOLEAN : c = in.env["general"].insecure BY InputsAre, SettingsAre
  <1>4. PICK v : v = The(OrElse(a, OrElse(b, OrElse(c, {FALSE})))) OBVIOUS
  <1>5. OrElse(c, {FALSE}) \in SUBSET BOOLEAN /\ OrElse(c, {FALSE}) # {} BY DEF OrElse
  <1>6. PICK rest \in SUBSET BOOLEAN : rest = OrElse(c, {FALSE}) /\ rest # {} BY <1>5
  <1>7. OrElse(b, rest) \in SUBSET BOOLEAN /\ OrElse(b, rest) # {} BY <1>6 DEF OrElse
  <1>8. v \in OrElse(a, OrElse(b, rest)) /\ v \in BOOLEAN
    BY <1>4, <1>6, <1>7, OrElseThe, TheIn DEF OrElse
  <1>9. Given(in, sig, "insecure") = OrElse(a, OrElse(b, c))
    <2>1. in.explicit[sig].insecure \ {FALSE} = a BY <1>1, InputsAre, SettingsAre
    <2> QED BY <1>2, <1>3, <2>1, GivenIs, RanksAre
  <1>10. \A x, y \in OrElse(a, OrElse(b, c)) : x = y
    BY <1>1, <1>2, <1>3, InputsAre, SettingsAre DEF OrElse
  <1>11. v <=> TRUE \in OrElse(a, OrElse(b, c))
    <2>1. CASE OrElse(a, OrElse(b, c)) = {}
      BY <1>6, <1>8, <2>1 DEF OrElse
    <2>2. CASE OrElse(a, OrElse(b, c)) # {}
      <3>1. v \in OrElse(a, OrElse(b, c)) BY <1>6, <1>8, <2>2 DEF OrElse
      <3> QED BY <1>8, <1>10, <3>1
    <2> QED BY <2>1, <2>2
  <1>12. resolveInsecure(in, sig, e) =
           CASE e.scheme = "http" -> TRUE [] e.scheme = "https" -> FALSE [] OTHER -> v
    BY <1>1, <1>2, <1>3, <1>4 DEF resolveInsecure
  <1> QED BY <1>8, <1>9, <1>11, <1>12

\* A timeout is what the first source says, from a variable in milliseconds, or else
\* the ExportTimeout if that is positive (env.go:105-119).
LEMMA TimeoutIn ==
  ASSUME NEW in \in InputType, NEW sig \in Signals, NEW t \in resolveTimeout(in, sig)
  PROVE  /\ t \in -Half..(Half - 1)
         /\ Given(in, sig, "timeout") # {} => t \in Given(in, sig, "timeout")
         /\ Given(in, sig, "timeout") = {} =>
              t = IF in.exportTimeout > 0 THEN in.exportTimeout ELSE 0
PROOF
  <1> DEFINE Int64s == -Half..(Half - 1)
             Wrapped(set) == {Int64(ms * Milli) : ms \in set}
  <1>1. PICK a \in SUBSET Int64s : a = Positive(in.explicit[sig].timeout)
    BY InputsAre, SettingsAre DEF Positive
  <1>2. PICK b \in SUBSET Int64s : b = in.env[sig].timeout BY InputsAre, SettingsAre
  <1>3. PICK c \in SUBSET Int64s : c = in.env["general"].timeout BY InputsAre, SettingsAre
  <1>4. ASSUME NEW set \in SUBSET Int64s, set # {}, t \in parseTimeout(The(set))
        PROVE  t \in Wrapped(set) /\ t \in Int64s
    <2>1. The(set) \in set BY <1>4, TheIn
    <2>2. The(set) \in -Half..(Half - 1) BY <2>1
    <2>3. PICK ms \in Int : ms = The(set) /\ ms \in set BY <2>1, <2>2, NumbersAre
    <2>4. t = Int64(ms * Milli) BY <1>4, <2>3 DEF parseTimeout
    <2>5. ms * Milli \in Int BY <2>3, NumbersAre
    <2> QED BY <2>3, <2>4, <2>5, Int64In
  <1>5. Given(in, sig, "timeout") = OrElse(a, OrElse(Wrapped(b), Wrapped(c)))
    BY <1>1, <1>2, <1>3, GivenIs, RanksAre DEF Positive
  <1>6. t \in IF a # {} THEN a
              ELSE IF b # {} THEN parseTimeout(The(b))
              ELSE IF c # {} THEN parseTimeout(The(c))
              ELSE OrElse(Positive({in.exportTimeout}), {0})
    BY <1>1, <1>2, <1>3 DEF resolveTimeout
  <1>7. in.exportTimeout \in Int64s BY InputsAre
  <1>8. t \in OrElse(Positive({in.exportTimeout}), {0}) =>
          /\ t = IF in.exportTimeout > 0 THEN in.exportTimeout ELSE 0
          /\ t \in Int64s
    BY <1>7, NumbersAre DEF OrElse, Positive
  <1>9. \A set : Wrapped(set) = {} <=> set = {} OBVIOUS
  <1> HIDE DEF Int64s, Wrapped
  <1>10. CASE a # {} BY <1>1, <1>5, <1>6, <1>10 DEF OrElse, Int64s
  <1>11. CASE a = {} /\ b # {} BY <1>2, <1>4, <1>5, <1>6, <1>9, <1>11 DEF OrElse, Int64s
  <1>12. CASE a = {} /\ b = {} /\ c # {}
    BY <1>3, <1>4, <1>5, <1>6, <1>9, <1>12 DEF OrElse, Int64s
  <1>13. CASE a = {} /\ b = {} /\ c = {}
    BY <1>5, <1>6, <1>8, <1>9, <1>13 DEF OrElse, Int64s
  <1> QED BY <1>10, <1>11, <1>12, <1>13

-----------------------------------------------------------------------------
\* What normalization returns

\* What a normalized endpoint n is for the endpoint e it was made from
\* (env.go:121-185).
Normal(n, e, protocol) ==
  /\ n.endpoint \in EndpointType /\ n.insecure \in BOOLEAN
  /\ n.endpoint.host = e.host /\ n.endpoint.port = e.port /\ n.endpoint.path = e.path
  /\ e.scheme = "https" => ~n.insecure
  /\ e.scheme = "http" => n.insecure
  /\ protocol = "grpc" => HostPort(n.endpoint)
  /\ protocol = "http/protobuf" =>
       /\ n.endpoint.scheme \in {"http", "https"} /\ ~n.endpoint.space
       /\ n.endpoint.port # "bad" /\ (n.endpoint.host = "" => n.endpoint.port = "ok")
       /\ n.insecure <=> n.endpoint.scheme = "http"

LEMMA AcceptedIs ==
  ASSUME NEW e, NEW insecure, NEW n \in Accepted(e, insecure)
  PROVE  n.endpoint = e /\ n.insecure = insecure
PROOF
  BY DEF Accepted

LEMMA GRPCNormal ==
  ASSUME NEW e \in EndpointType, NEW insecure \in BOOLEAN,
         NEW n \in normalizeGRPCEndpoint(e, insecure)
  PROVE  Normal(n, e, "grpc") /\ (e.scheme = "" => n.insecure = insecure)
PROOF
  <1>1. PICK bare : bare = IF e.scheme \in {"http", "https"} THEN [e EXCEPT !.scheme = ""] ELSE e
    OBVIOUS
  <1>2. /\ bare \in EndpointType
        /\ bare.host = e.host /\ bare.port = e.port /\ bare.path = e.path
    BY <1>1 DEF EndpointType, Schemes
  <1>3. HostPort(bare) /\ n \in Accepted(bare, SchemeInsecure(e, insecure))
    BY <1>1 DEF normalizeGRPCEndpoint
  <1>4. n.endpoint = bare /\ n.insecure = SchemeInsecure(e, insecure)
    BY <1>3, AcceptedIs
  <1>5. /\ SchemeInsecure(e, insecure) \in BOOLEAN
        /\ e.scheme = "https" => ~SchemeInsecure(e, insecure)
        /\ e.scheme = "http" => SchemeInsecure(e, insecure)
        /\ e.scheme = "" => SchemeInsecure(e, insecure) = insecure
    BY DEF SchemeInsecure
  <1> QED BY <1>2, <1>3, <1>4, <1>5 DEF Normal

LEMMA HTTPNormal ==
  ASSUME NEW e \in EndpointType, NEW insecure \in BOOLEAN,
         NEW n \in normalizeHTTPEndpoint(e, insecure)
  PROVE  Normal(n, e, "http/protobuf") /\ (e.scheme = "" => n.insecure = insecure)
PROOF
  <1>1. CASE e.scheme = ""
    <2>1. PICK full : full = [e EXCEPT !.scheme = AddScheme(insecure)] OBVIOUS
    <2>2. HostPort(e) /\ n \in Accepted(full, insecure)
      BY <1>1, <2>1 DEF normalizeHTTPEndpoint
    <2>3. n.endpoint = full /\ n.insecure = insecure BY <2>2, AcceptedIs
    <2>4. AddScheme(insecure) \in {"http", "https"} /\ (insecure <=> AddScheme(insecure) = "http")
      BY DEF AddScheme
    <2>5. /\ full \in EndpointType /\ full.host = e.host /\ full.path = e.path
          /\ full.port = e.port /\ full.space = e.space /\ full.scheme = AddScheme(insecure)
      BY <2>1, <2>4 DEF EndpointType, Schemes
    <2> QED BY <1>1, <2>2, <2>3, <2>4, <2>5 DEF Normal, HostPort
  <1>2. CASE e.scheme # ""
    <2>1. /\ e.scheme \in {"http", "https"} /\ ~e.space
          /\ e.port # "bad" /\ (e.host = "" => e.port = "ok")
      BY <1>2 DEF normalizeHTTPEndpoint, EndpointType, Ports
    <2>2. n.endpoint = e /\ n.insecure = SchemeInsecure(e, insecure)
      <3>1. n \in Accepted(e, SchemeInsecure(e, insecure))
        BY <1>2 DEF normalizeHTTPEndpoint
      <3> QED BY <3>1, AcceptedIs
    <2>3. /\ SchemeInsecure(e, insecure) \in BOOLEAN
          /\ SchemeInsecure(e, insecure) <=> e.scheme = "http"
      BY <2>1 DEF SchemeInsecure
    <2> QED BY <1>2, <2>1, <2>2, <2>3 DEF Normal
  <1> QED BY <1>1, <1>2

LEMMA EndpointNormal ==
  ASSUME NEW e \in EndpointType, NEW insecure \in BOOLEAN, NEW protocol \in Supported,
         NEW n \in normalizeEndpoint(e, protocol, insecure)
  PROVE  Normal(n, e, protocol) /\ (e.scheme = "" => n.insecure = insecure)
PROOF
  <1>1. CASE protocol = "grpc" BY <1>1, GRPCNormal DEF normalizeEndpoint
  <1>2. CASE protocol = "http/protobuf" BY <1>2, HTTPNormal DEF normalizeEndpoint
  <1> QED BY <1>1, <1>2 DEF Supported

\* What a resolved setting is (config.go:83-109).
LEMMA ResolvedIs ==
  ASSUME NEW in \in InputType, NEW sig \in Signals,
         NEW c \in resolveExporterConfig(in, sig)
  PROVE  /\ c \in ResolvedType
         /\ c.protocol = resolveProtocol(in, sig)
         /\ c.headers = resolveHeaders(in, sig)
         /\ c.timeout \in resolveTimeout(in, sig)
         /\ LET e == resolveEndpoint(in, sig, c.protocol)
            IN /\ Normal(c, e, c.protocol)
               /\ e.scheme = "" => c.insecure = resolveInsecure(in, sig, e)
PROOF
  <1> DEFINE protocol == resolveProtocol(in, sig)
             e == resolveEndpoint(in, sig, protocol)
             insecure == resolveInsecure(in, sig, e)
  <1>1. e \in EndpointType /\ insecure \in BOOLEAN
    BY EndpointIn, InsecureIn
  <1>2. /\ protocol \in Supported
        /\ \E n \in normalizeEndpoint(e, protocol, insecure), t \in resolveTimeout(in, sig) :
             c = [endpoint |-> n.endpoint, insecure |-> n.insecure, protocol |-> protocol,
                  headers |-> resolveHeaders(in, sig), timeout |-> t]
    BY DEF resolveExporterConfig
  <1>3. PICK n \in normalizeEndpoint(e, protocol, insecure), t \in resolveTimeout(in, sig) :
          c = [endpoint |-> n.endpoint, insecure |-> n.insecure, protocol |-> protocol,
               headers |-> resolveHeaders(in, sig), timeout |-> t]
    BY <1>2
  <1>4. Normal(n, e, protocol) /\ (e.scheme = "" => n.insecure = insecure)
    BY <1>1, <1>2, EndpointNormal
  <1>5. t \in -Half..(Half - 1) BY TimeoutIn
  <1>6. resolveHeaders(in, sig) \in SUBSET HeaderNames BY HeadersIn
  <1>7. /\ c.endpoint = n.endpoint /\ c.insecure = n.insecure /\ c.protocol = protocol
        /\ c.headers = resolveHeaders(in, sig) /\ c.timeout = t
    BY <1>3
  <1>8. Normal(c, e, protocol) BY <1>4, <1>7 DEF Normal
  <1>9. c \in ResolvedType BY <1>2, <1>3, <1>4, <1>5, <1>6 DEF Normal, ResolvedType
  <1> QED BY <1>4, <1>7, <1>8, <1>9

LEMMA DevEndpointIn ==
  ASSUME NEW in \in InputType, in.devSink # {}
  PROVE  devSinkEndpoint(in) \in EndpointType
PROOF
  <1>1. in.devSink \in SUBSET (SUBSET EndpointType) BY InputsAre DEF Signals
  <1>2. The(in.devSink) \in SUBSET EndpointType BY <1>1, TheIn
  <1>3. The(in.devSink) # {} => The(The(in.devSink)) \in EndpointType BY <1>2, TheIn
  <1> QED BY <1>3, DefaultsAre DEF devSinkEndpoint

\* What a setting of the dev sink is (devsink_lotel.go:58-80).
LEMMA DevResolvedIs ==
  ASSUME NEW in \in InputType, NEW primary \in ResolvedType,
         NEW c \in resolveDevSinkExporter(in, primary)
  PROVE  /\ c \in ResolvedType
         /\ c.headers = {}
         /\ Normal(c, devSinkEndpoint(in), c.protocol)
         /\ devSinkEndpoint(in).scheme = "" => c.insecure = TRUE
PROOF
  <1> DEFINE e == devSinkEndpoint(in)
             protocol == IF e.scheme \in {"http", "https"} THEN "http/protobuf" ELSE "grpc"
  <1>1. in.devSink # {} BY DEF resolveDevSinkExporter
  <1>2. e \in EndpointType BY <1>1, DevEndpointIn
  <1>3. protocol \in Supported BY DEF Supported
  <1>4. PICK n \in normalizeEndpoint(e, protocol, TRUE) :
          c = [endpoint |-> n.endpoint, insecure |-> n.insecure, protocol |-> protocol,
               headers |-> {}, timeout |-> primary.timeout]
    BY <1>1 DEF resolveDevSinkExporter, DevHeaders
  <1>5. Normal(n, e, protocol) /\ (e.scheme = "" => n.insecure = TRUE)
    BY <1>2, <1>3, EndpointNormal
  <1>6. /\ c.endpoint = n.endpoint /\ c.insecure = n.insecure /\ c.protocol = protocol
        /\ c.headers = {}
    BY <1>4
  <1>7. Normal(c, e, protocol) BY <1>5, <1>6 DEF Normal
  <1>8. primary.timeout \in -Half..(Half - 1) BY DEF ResolvedType
  <1>9. c \in ResolvedType BY <1>3, <1>4, <1>5, <1>8 DEF Normal, ResolvedType
  <1> QED BY <1>5, <1>6, <1>7, <1>9

\* What a client is told is in its type (exporters.go:132-256).
LEMMA ClientIn ==
  ASSUME NEW c \in ResolvedType, NEW sig \in Signals
  PROVE  clientOptions(c, sig) \in ClientType
PROOF
  <1>1. defaultHTTPPath(c.endpoint, sig) \in SUBSET Signals BY DEF defaultHTTPPath
  <1>2. c.timeout \in -Half..(Half - 1) BY DEF ResolvedType
  <1>3. c.timeout > 0 => c.timeout \in Timeouts BY <1>2, NumbersAre DEF Timeouts
  <1>4. /\ c.endpoint \in EndpointType /\ c.protocol \in Supported
        /\ c.headers \in SUBSET HeaderNames
    BY DEF ResolvedType
  <1> QED BY <1>1, <1>3, <1>4 DEF clientOptions, ClientType

LEMMA ExporterIn ==
  ASSUME NEW c \in ResolvedType, NEW devs \in SUBSET ResolvedType, NEW sig \in Signals
  PROVE  Exporter(c, devs, sig) \in ExporterType
PROOF
  <1>1. clientOptions(c, sig) \in ClientType BY ClientIn
  <1>2. {clientOptions(d, sig) : d \in devs} \in SUBSET ClientType BY ClientIn
  <1>3. c.timeout \in -Half..(Half - 1) BY DEF ResolvedType
  <1>4. c.timeout > 0 => c.timeout \in Timeouts BY <1>3, NumbersAre DEF Timeouts
  <1>5. batchOptions(c) \in SUBSET Timeouts BY <1>4 DEF batchOptions
  <1> QED BY <1>1, <1>2, <1>5 DEF Exporter, ExporterType

-----------------------------------------------------------------------------
\* The invariant

\* A resolved setting is what its input resolves to (config.go:83-109).
CfgInv ==
  \A sig \in Signals : cfg[sig] = {} \/ cfg[sig] = resolveExporterConfig(input, sig)

\* Nothing is dialled or made before every signal is resolved (bootstrap.go:42-44,
\* exporters.go:24-60).
OrderInv ==
  /\ pc = "resolve" => \A n \in 1..3 : n < step => cfg[Order[n]] # {}
  /\ pc \in {"dial", "exporters"} => \A sig \in Signals : cfg[sig] # {}
  /\ pc \in {"resolve", "dial"} =>
       \A sig \in Signals : dev[sig] = {} /\ clients[sig] = {}

\* The dev sink of a signal stands beside a setting of that signal, from which it
\* has the timeout (devsink_lotel.go:58-80).
DevInv ==
  \A sig \in Signals : dev[sig] # {} =>
    /\ cfg[sig] # {}
    /\ dev[sig] \subseteq resolveDevSinkExporter(input, The(cfg[sig]))

\* The clients of a signal are told its own settings (exporters.go:132-223).
ClientInv ==
  \A sig \in Signals : clients[sig] # {} =>
    /\ cfg[sig] # {}
    /\ clients[sig] = {Exporter(The(cfg[sig]), dev[sig], sig)}

IInv == TypeOK /\ CfgInv /\ OrderInv /\ DevInv /\ ClientInv

LEMMA InitInv == Init => IInv
PROOF
  <1> SUFFICES ASSUME Init PROVE IInv OBVIOUS
  <1>1. TypeOK
    <2>1. \A T : [sig \in Signals |-> {}] \in [Signals -> SUBSET T] OBVIOUS
    <2>2. input \in InputType BY InputsAssumption DEF Init
    <2>3. /\ cfg = [sig \in Signals |-> {}] /\ dev = [sig \in Signals |-> {}]
          /\ clients = [sig \in Signals |-> {}]
      BY DEF Init
    <2>4. /\ cfg \in [Signals -> SUBSET ResolvedType]
          /\ dev \in [Signals -> SUBSET ResolvedType]
          /\ clients \in [Signals -> SUBSET ExporterType]
      BY <2>1, <2>3
    <2>5. step \in 1..3 BY DEF Init
    <2>6. pc = "resolve" /\ outcome = "none" /\ refused = FALSE BY DEF Init
    <2> QED BY <2>2, <2>4, <2>5, <2>6 DEF TypeOK
  <1>2. \A sig \in Signals : cfg[sig] = {} /\ dev[sig] = {} /\ clients[sig] = {} BY DEF Init
  <1>3. pc = "resolve" /\ step = 1 BY DEF Init
  <1>4. CfgInv /\ DevInv /\ ClientInv BY <1>2 DEF CfgInv, DevInv, ClientInv
  <1>5. OrderInv BY <1>2, <1>3 DEF OrderInv
  <1> QED BY <1>1, <1>4, <1>5 DEF IInv

LEMMA OrderIs ==
  /\ \A n \in 1..3 : Order[n] \in Signals
  /\ \A sig \in Signals : \E n \in 1..3 : Order[n] = sig
  /\ \A m, n \in 1..3 : Order[m] = Order[n] => m = n
  /\ \A n \in 1..3 : n < 3 => n + 1 \in 1..3
PROOF
  <1>1. Order[1] = "traces" /\ Order[2] = "metrics" /\ Order[3] = "logs" BY DEF Order
  <1>2. \A n \in 1..3 : n = 1 \/ n = 2 \/ n = 3 OBVIOUS
  <1>3. 1 \in 1..3 /\ 2 \in 1..3 /\ 3 \in 1..3 OBVIOUS
  <1> QED BY <1>1, <1>2, <1>3 DEF Signals

LEMMA ResolveInv == IInv /\ Resolve => IInv'
PROOF
  <1> SUFFICES ASSUME IInv, Resolve PROVE IInv' OBVIOUS
  <1>1. TypeOK /\ CfgInv /\ OrderInv BY DEF IInv
  <1>2. pc = "resolve" /\ UNCHANGED <<input, dev, clients, refused>> BY DEF Resolve
  <1>3. step \in 1..3 /\ Here \in Signals /\ input \in InputType
    BY <1>1, OrderIs DEF TypeOK, Here
  <1>4. \A sig \in Signals : dev[sig] = {} /\ clients[sig] = {} BY <1>1, <1>2 DEF OrderInv
  <1>5. DevInv' /\ ClientInv' BY <1>2, <1>4 DEF DevInv, ClientInv
  <1>6. PICK c : c = resolveExporterConfig(input, Here) OBVIOUS
  <1>7. c \in SUBSET ResolvedType BY <1>3, <1>6, ResolvedIs
  <1>8. cfg \in [Signals -> SUBSET ResolvedType] BY <1>1 DEF TypeOK
  <1>9. CASE c = {}
    <2>1. cfg' = [sig \in Signals |-> {}] /\ pc' = "done" /\ outcome' = "config_error"
            /\ step' = step
      BY <1>6, <1>9 DEF Resolve, End
    <2>2. TypeOK' BY <1>1, <1>2, <2>1 DEF TypeOK
    <2>3. CfgInv' /\ OrderInv' BY <2>1 DEF CfgInv, OrderInv
    <2> QED BY <1>5, <2>2, <2>3 DEF IInv
  <1>10. CASE c # {}
    <2>1. /\ cfg' = [cfg EXCEPT ![Here] = c] /\ outcome' = outcome
          /\ pc' = IF step = 3 THEN "dial" ELSE pc
          /\ step' = IF step = 3 THEN 1 ELSE step + 1
      BY <1>6, <1>10 DEF Resolve, Goto
    <2>2. step' \in 1..3 BY <1>3, <2>1
    <2>3. cfg' \in [Signals -> SUBSET ResolvedType] BY <1>3, <1>7, <1>8, <2>1
    <2>4. TypeOK' BY <1>1, <1>2, <2>1, <2>2, <2>3 DEF TypeOK
    <2>5. \A sig \in Signals : cfg'[sig] = IF sig = Here THEN c ELSE cfg[sig]
      BY <1>3, <1>8, <2>1
    <2>6. CfgInv' BY <1>1, <1>2, <1>6, <2>5 DEF CfgInv
    <2>7. \A n \in 1..3 : n <= step => cfg'[Order[n]] # {}
      <3> SUFFICES ASSUME NEW n \in 1..3, n <= step PROVE cfg'[Order[n]] # {} OBVIOUS
      <3>1. Order[n] \in Signals BY OrderIs
      <3>2. CASE n = step BY <1>10, <2>5, <3>1, <3>2 DEF Here
      <3>3. CASE n # step
        <4>1. n < step BY <1>3, <3>3
        <4> QED BY <1>1, <1>2, <1>10, <2>5, <3>1, <4>1 DEF OrderInv
      <3> QED BY <3>2, <3>3
    <2>8. CASE step = 3
      <3>1. \A sig \in Signals : cfg'[sig] # {} BY <2>7, <2>8, OrderIs
      <3> QED BY <1>2, <1>4, <1>5, <2>1, <2>4, <2>6, <2>8, <3>1 DEF OrderInv, IInv
    <2>9. CASE step # 3
      <3>1. pc' = "resolve" /\ step' = step + 1 BY <1>2, <2>1, <2>9
      <3>2. \A n \in 1..3 : n < step' => n <= step BY <1>3, <3>1
      <3> QED BY <1>2, <1>4, <1>5, <2>4, <2>6, <2>7, <3>1, <3>2 DEF OrderInv, IInv
    <2> QED BY <2>8, <2>9
  <1> QED BY <1>9, <1>10

LEMMA DialAnsweredInv == IInv /\ DialAnswered => IInv'
PROOF
  <1> SUFFICES ASSUME IInv, DialAnswered PROVE IInv' OBVIOUS
  <1>1. /\ pc = "dial" /\ UNCHANGED <<input, cfg, dev, clients, outcome, refused>>
        /\ pc' = IF step = 3 THEN "exporters" ELSE pc
        /\ step' = IF step = 3 THEN 1 ELSE step + 1
    BY DEF DialAnswered, Goto
  <1>2. step' \in 1..3 BY <1>1 DEF IInv, TypeOK
  <1>3. TypeOK' BY <1>1, <1>2 DEF IInv, TypeOK
  <1>4. CfgInv' /\ DevInv' /\ ClientInv' BY <1>1 DEF IInv, CfgInv, DevInv, ClientInv
  <1>5. OrderInv' BY <1>1 DEF IInv, OrderInv
  <1> QED BY <1>3, <1>4, <1>5 DEF IInv

LEMMA DialFailsInv == IInv /\ DialFails => IInv'
PROOF
  <1> SUFFICES ASSUME IInv, DialFails PROVE IInv' OBVIOUS
  <1>1. pc' = "done" /\ outcome' = "noop" /\ step' = step
          /\ UNCHANGED <<input, cfg, dev, clients>>
    BY DEF DialFails, End
  <1>2. refused' \in BOOLEAN BY DEF DialFails, CanDial
  <1>3. TypeOK' BY <1>1, <1>2 DEF IInv, TypeOK
  <1>4. CfgInv' /\ DevInv' /\ ClientInv' BY <1>1 DEF IInv, CfgInv, DevInv, ClientInv
  <1>5. OrderInv' BY <1>1 DEF OrderInv
  <1> QED BY <1>3, <1>4, <1>5 DEF IInv

LEMMA MakeExporterInv == IInv /\ MakeExporter => IInv'
PROOF
  <1> SUFFICES ASSUME IInv, MakeExporter PROVE IInv' OBVIOUS
  <1>1. TypeOK /\ CfgInv /\ OrderInv /\ DevInv /\ ClientInv BY DEF IInv
  <1>2. /\ pc = "exporters" /\ UNCHANGED <<input, cfg, refused>>
        /\ pc' = IF step = 3 THEN "done" ELSE pc
        /\ step' = IF step = 3 THEN 1 ELSE step + 1
        /\ outcome' = IF step = 3 THEN "live" ELSE outcome
    BY DEF MakeExporter, Goto
  <1>3. step \in 1..3 /\ Here \in Signals BY <1>1, OrderIs DEF TypeOK, Here
  <1>4. cfg[Here] # {} BY <1>1, <1>2, <1>3 DEF OrderInv
  <1>5. PICK c : c = The(cfg[Here]) OBVIOUS
  <1>6. c \in ResolvedType BY <1>1, <1>3, <1>4, <1>5, TheIn DEF TypeOK
  <1>7. PICK found : found = {d \in resolveDevSinkExporter(input, c) : CanDial(d)} OBVIOUS
  <1>8. found \in SUBSET ResolvedType BY <1>1, <1>6, <1>7, DevResolvedIs DEF TypeOK
  <1>9. dev' = [dev EXCEPT ![Here] = found] \/ dev' = dev
    BY <1>5, <1>7 DEF MakeExporter
  <1>10. dev \in [Signals -> SUBSET ResolvedType] BY <1>1 DEF TypeOK
  <1>11. dev' \in [Signals -> SUBSET ResolvedType] BY <1>8, <1>9, <1>10
  <1>12. \A sig \in Signals : sig # Here => dev'[sig] = dev[sig] BY <1>9, <1>10
  <1>13. dev'[Here] = found \/ dev'[Here] = dev[Here] BY <1>3, <1>9, <1>10
  <1>14. dev'[Here] \subseteq resolveDevSinkExporter(input, c)
    BY <1>1, <1>3, <1>5, <1>7, <1>13 DEF DevInv
  <1>15. PICK devs \in SUBSET ResolvedType : devs = dev'[Here] BY <1>3, <1>11
  <1>16. PICK sig \in Signals : sig = Here BY <1>3
  <1>17. PICK x \in ExporterType : x = Exporter(c, devs, sig) BY <1>6, ExporterIn
  <1>18. clients' = [clients EXCEPT ![sig] = {x}] BY <1>5, <1>15, <1>16, <1>17 DEF MakeExporter
  <1>19. clients \in [Signals -> SUBSET ExporterType] BY <1>1 DEF TypeOK
  <1>20. clients' \in [Signals -> SUBSET ExporterType] BY <1>18, <1>19
  <1>21. step' \in 1..3 BY <1>2, <1>3
  <1>22. TypeOK' BY <1>1, <1>2, <1>11, <1>20, <1>21 DEF TypeOK
  <1>23. CfgInv' BY <1>1, <1>2 DEF CfgInv
  <1>24. OrderInv' BY <1>1, <1>2 DEF OrderInv
  <1>25. DevInv'
    <2> SUFFICES ASSUME NEW s \in Signals, dev'[s] # {}
                 PROVE  /\ cfg[s] # {}
                        /\ dev'[s] \subseteq resolveDevSinkExporter(input, The(cfg[s]))
      BY <1>2 DEF DevInv
    <2>1. CASE s = sig BY <1>4, <1>5, <1>14, <1>16, <2>1
    <2>2. CASE s # sig BY <1>1, <1>12, <1>16, <2>2 DEF DevInv
    <2> QED BY <2>1, <2>2
  <1>26. ClientInv'
    <2> SUFFICES ASSUME NEW s \in Signals, clients'[s] # {}
                 PROVE  /\ cfg[s] # {}
                        /\ clients'[s] = {Exporter(The(cfg[s]), dev'[s], s)}
      BY <1>2 DEF ClientInv
    <2>1. CASE s = sig BY <1>4, <1>5, <1>15, <1>16, <1>17, <1>18, <1>19, <2>1
    <2>2. CASE s # sig
      <3>1. clients'[s] = clients[s] /\ dev'[s] = dev[s] BY <1>12, <1>16, <1>18, <1>19, <2>2
      <3> QED BY <1>1, <3>1 DEF ClientInv
    <2> QED BY <2>1, <2>2
  <1> QED BY <1>22, <1>23, <1>24, <1>25, <1>26 DEF IInv

LEMMA StutterInv == IInv /\ UNCHANGED vars => IInv'
PROOF
  BY DEF IInv, vars, TypeOK, CfgInv, OrderInv, DevInv, ClientInv

-----------------------------------------------------------------------------
\* The theorems

\* IInv holds in every state.
THEOREM Invariance == Spec => []IInv
PROOF
  <1>1. IInv /\ [Next]_vars => IInv'
    BY ResolveInv, DialAnsweredInv, DialFailsInv, MakeExporterInv, StutterInv
    DEF Next, Finished
  <1> QED BY <1>1, InitInv, PTL DEF Spec

\* Every variable keeps to its type: a timeout stays an int64, whatever number of
\* milliseconds was given, and nothing that is not positive is told to a client or
\* a processor.
THEOREM TypeCorrect == Spec => []TypeOK
PROOF
  <1>1. IInv => TypeOK BY DEF IInv
  <1> QED BY <1>1, Invariance, PTL

\* The settings of the signals and of their dev sinks, as they come from the input.
LEMMA SettingsStand ==
  ASSUME IInv, NEW sig \in Signals
  PROVE  /\ input \in InputType
         /\ \A c \in cfg[sig] : c \in resolveExporterConfig(input, sig)
         /\ \A c \in dev[sig] : \E primary \in ResolvedType :
              c \in resolveDevSinkExporter(input, primary)
PROOF
  <1>1. input \in InputType /\ cfg[sig] \in SUBSET ResolvedType BY DEF IInv, TypeOK
  <1>2. \A c \in cfg[sig] : c \in resolveExporterConfig(input, sig) BY DEF IInv, CfgInv
  <1>3. ASSUME NEW c \in dev[sig]
        PROVE  \E primary \in ResolvedType : c \in resolveDevSinkExporter(input, primary)
    <2>1. cfg[sig] # {} /\ c \in resolveDevSinkExporter(input, The(cfg[sig]))
      BY <1>3 DEF IInv, DevInv
    <2>2. The(cfg[sig]) \in ResolvedType BY <1>1, <2>1, TheIn
    <2> QED BY <2>1, <2>2
  <1> QED BY <1>1, <1>2, <1>3

\* The settings that clients are told of (exporters.go:132-223).
LEMMA ClientsAre ==
  ASSUME IInv, NEW sig \in Signals, NEW x \in clients[sig]
  PROVE  /\ \E c \in cfg[sig] : x.primary = clientOptions(c, sig)
         /\ \A client \in x.dev : \E d \in dev[sig] : client = clientOptions(d, sig)
PROOF
  <1>1. cfg[sig] # {} /\ x = Exporter(The(cfg[sig]), dev[sig], sig) BY DEF IInv, ClientInv
  <1>2. The(cfg[sig]) \in cfg[sig] BY <1>1, TheIn
  <1>3. PICK c \in cfg[sig] : c = The(cfg[sig]) BY <1>2
  <1>4. PICK devs : devs = dev[sig] OBVIOUS
  <1>5. x = Exporter(c, devs, sig) BY <1>1, <1>3, <1>4
  <1>6. /\ x.primary = clientOptions(c, sig)
        /\ x.dev = {clientOptions(d, sig) : d \in devs}
    BY <1>5 DEF Exporter
  <1> QED BY <1>4, <1>6

LEMMA CfgIs ==
  ASSUME IInv, NEW sig \in Signals, NEW c \in cfg[sig]
  PROVE  /\ c \in ResolvedType
         /\ LET e == resolveEndpoint(input, sig, c.protocol)
            IN /\ Normal(c, e, c.protocol)
               /\ e.scheme = "" => c.insecure = resolveInsecure(input, sig, e)
PROOF
  BY SettingsStand, ResolvedIs

LEMMA DevIs ==
  ASSUME IInv, NEW sig \in Signals, NEW d \in dev[sig]
  PROVE  /\ d \in ResolvedType
         /\ Normal(d, devSinkEndpoint(input), d.protocol)
         /\ devSinkEndpoint(input).scheme = "" => d.insecure = TRUE
PROOF
  BY SettingsStand, DevResolvedIs

\* The client of a setting that is normal is told what the setting is.
LEMMA ToldIs ==
  ASSUME NEW c \in ResolvedType, NEW e, Normal(c, e, c.protocol), NEW sig,
         NEW client, client = clientOptions(c, sig)
  PROVE  /\ client.protocol = c.protocol
         /\ e.scheme = "http" => client.insecure = {TRUE}
         /\ e.scheme = "https" => client.insecure # {TRUE}
         /\ client.insecure = {TRUE} <=> c.insecure = TRUE
         /\ client.protocol = "http/protobuf" =>
              (client.insecure = {TRUE} <=> client.endpoint.scheme = "http")
PROOF
  <1>1. /\ client.protocol = c.protocol /\ client.endpoint = c.endpoint
        /\ client.insecure = {c.insecure} \cap {TRUE}
    BY DEF clientOptions
  <1>2. c.insecure \in BOOLEAN BY DEF ResolvedType
  <1>3. client.insecure = {TRUE} <=> c.insecure = TRUE BY <1>1, <1>2
  <1> QED BY <1>1, <1>3 DEF Normal

\* What passed validation an exporter can use as it is, and its client is told to use
\* plain text where the scheme or the operator has it so and nowhere else
\* (env.go:69-86, 121-185, devsink_lotel.go:58-80, exporters.go:132-223).
THEOREM ValidIsUsable == Spec => []ExportersGetUsable
PROOF
  <1>1. IInv => EndpointsUsable
    <2> SUFFICES ASSUME IInv, NEW c \in Configs \cup DevConfigs
                 PROVE  /\ ~c.endpoint.space
                        /\ c.protocol = "grpc" =>
                             /\ c.endpoint.scheme = "" /\ c.endpoint.host # ""
                             /\ c.endpoint.port = "ok" /\ c.endpoint.path = ""
                        /\ c.protocol = "http/protobuf" =>
                             /\ c.endpoint.scheme \in {"http", "https"}
                             /\ c.endpoint.port # "bad"
                             /\ c.endpoint.host = "" => c.endpoint.port = "ok"
      BY DEF EndpointsUsable
    <2>1. \E e : c \in ResolvedType /\ Normal(c, e, c.protocol)
      BY CfgIs, DevIs DEF Configs, DevConfigs
    <2>2. c.protocol = "grpc" \/ c.protocol = "http/protobuf"
      BY <2>1 DEF ResolvedType, Supported
    <2> QED BY <2>1, <2>2 DEF Normal, HostPort
  <1>2. IInv => PlaintextAgrees
    <2> SUFFICES ASSUME IInv PROVE PlaintextAgrees OBVIOUS
    <2>1. input \in InputType BY DEF IInv, TypeOK
    <2>2. ASSUME NEW sig \in Signals, NEW x \in clients[sig]
          PROVE  Agrees(x.primary, resolveEndpoint(input, sig, x.primary.protocol),
                        Given(input, sig, "insecure"))
      <3>1. PICK c \in cfg[sig] : x.primary = clientOptions(c, sig) BY ClientsAre
      <3>2. PICK client : client = clientOptions(c, sig) OBVIOUS
      <3>3. client.protocol = c.protocol BY <3>2 DEF clientOptions
      <3>4. PICK e : e = resolveEndpoint(input, sig, c.protocol) OBVIOUS
      <3>5. e \in EndpointType BY <2>1, <3>4, EndpointIn
      <3>6. c \in ResolvedType /\ Normal(c, e, c.protocol) BY <3>4, CfgIs
      <3>7. /\ e.scheme = "http" => client.insecure = {TRUE}
            /\ e.scheme = "https" => client.insecure # {TRUE}
            /\ client.insecure = {TRUE} <=> c.insecure = TRUE
            /\ client.protocol = "http/protobuf" =>
                 (client.insecure = {TRUE} <=> client.endpoint.scheme = "http")
        BY <3>2, <3>6, ToldIs
      <3>8. e.scheme = "" =>
              (c.insecure = TRUE <=> TRUE \in Given(input, sig, "insecure"))
        BY <2>1, <3>4, <3>5, CfgIs, InsecureIn
      <3> QED BY <3>1, <3>2, <3>3, <3>4, <3>7, <3>8 DEF Agrees
    <2>3. ASSUME NEW sig \in Signals, NEW x \in clients[sig], NEW client \in x.dev
          PROVE  Agrees(client, devSinkEndpoint(input), {TRUE})
      <3>1. PICK d \in dev[sig] : client = clientOptions(d, sig) BY ClientsAre
      <3>2. PICK e : e = devSinkEndpoint(input) OBVIOUS
      <3>3. d \in ResolvedType /\ Normal(d, e, d.protocol) /\ (e.scheme = "" => d.insecure = TRUE)
        BY <3>2, DevIs
      <3> QED BY <3>1, <3>2, <3>3, ToldIs DEF Agrees
    <2> QED BY <2>2, <2>3 DEF PlaintextAgrees
  <1>3. IInv => ExportersGetUsable BY <1>1, <1>2 DEF ExportersGetUsable
  <1> QED BY <1>3, Invariance, PTL

-----------------------------------------------------------------------------
\* Precedence, one lemma for each setting

LEMMA ProtocolIs ==
  ASSUME input \in InputType, NEW sig \in Signals
  PROVE  ProtocolFollows(sig, resolveProtocol(input, sig))
PROOF
  <1>1. PICK in \in InputType : in = input OBVIOUS
  <1>2. PICK d : d = IF sig = "traces" THEN datadogTraceDefaults(in).protocol ELSE {}
    OBVIOUS
  <1>3. d = IF PresetFor(sig) # {} THEN {"http/protobuf"} ELSE {}
    BY <1>1, <1>2, PresetIs DEF PresetFor
  <1>4. PICK e : e = {"grpc"} OBVIOUS
  <1>5. resolveProtocol(in, sig) =
          The(OrElse(in.explicit[sig].protocol, OrElse(in.env[sig].protocol,
              OrElse(in.env["general"].protocol, OrElse(d, e)))))
    BY <1>2, <1>4 DEF resolveProtocol
  <1>6. PICK given : given = Given(in, sig, "protocol") OBVIOUS
  <1>7. given = OrElse(in.explicit[sig].protocol,
                       OrElse(in.env[sig].protocol, in.env["general"].protocol))
    BY <1>6, GivenIs, RanksAre
  <1>8. /\ given # {} => resolveProtocol(in, sig) \in given
        /\ given = {} /\ d # {} => resolveProtocol(in, sig) \in d
        /\ given = {} /\ d = {} => resolveProtocol(in, sig) \in e
    BY <1>4, <1>5, <1>7, CascadeIs
  <1> QED BY <1>1, <1>3, <1>4, <1>6, <1>8 DEF ProtocolFollows

LEMMA HeadersAre ==
  ASSUME input \in InputType, NEW sig \in Signals
  PROVE  HeadersFollow(sig, resolveHeaders(input, sig))
PROOF
  <1>1. PICK in \in InputType : in = input OBVIOUS
  <1>2. PICK d : d = IF sig = "traces" THEN datadogTraceDefaults(in).headers ELSE {}
    OBVIOUS
  <1>3. PICK a : a = in.explicit[sig].headers \ {{}} OBVIOUS
  <1>4. PICK b, c : b = in.env[sig].headers /\ c = in.env["general"].headers OBVIOUS
  <1>5. PICK e : e = {{}} OBVIOUS
  <1>6. PICK h : h = resolveHeaders(in, sig) OBVIOUS
  <1>7. h = The(OrElse(a, OrElse(b, OrElse(c, OrElse(d, e)))))
    BY <1>2, <1>3, <1>4, <1>5, <1>6 DEF resolveHeaders
  <1>8. PICK given : given = Given(in, sig, "headers") OBVIOUS
  <1>9. given = OrElse(a, OrElse(b, c)) BY <1>3, <1>4, <1>8, GivenIs, RanksAre
  <1>10. e # {} BY <1>5
  <1>11. /\ given # {} => h \in given
         /\ given = {} /\ d # {} => h \in d
         /\ given = {} /\ d = {} => h \in e
    BY <1>7, <1>9, <1>10, CascadeIs
  <1>12. given = {} /\ PresetFor(sig) = {} => h = {}
    <2>1. PresetFor(sig) = {} => d = {} BY <1>1, <1>2, PresetIs DEF PresetFor
    <2> QED BY <1>5, <1>11, <2>1
  <1>13. ASSUME NEW p \in PresetFor(sig), given = {}
         PROVE  /\ p.headers \cup {"dd-otlp-source"} \subseteq h
                /\ ApiKey \in h <=> p.apiKey = TRUE
    <2>1. p \in in.preset /\ sig = "traces" BY <1>1 DEF PresetFor
    <2>2. p.headers \in Headers /\ p.apiKey \in BOOLEAN BY <2>1, PresetIs
    <2>3. d = {p.headers \cup (IF p.apiKey THEN {ApiKey} ELSE {}) \cup {"dd-otlp-source"}}
      BY <1>2, <2>1, PresetIs
    <2>4. h = p.headers \cup (IF p.apiKey THEN {ApiKey} ELSE {}) \cup {"dd-otlp-source"}
      BY <1>11, <1>13, <2>3
    <2> QED BY <2>2, <2>4 DEF Headers, ApiKey
  <1> QED BY <1>1, <1>6, <1>8, <1>11, <1>12, <1>13 DEF HeadersFollow

LEMMA EndpointIs ==
  ASSUME input \in InputType, NEW sig \in Signals, NEW protocol
  PROVE  EndpointFollows(sig, resolveEndpoint(input, sig, protocol))
PROOF
  <1>1. PICK in \in InputType : in = input OBVIOUS
  <1>2. PICK d : d = IF sig = "traces" THEN datadogTraceDefaults(in).endpoint ELSE {}
    OBVIOUS
  <1>3. PICK e : e = {IF protocol = "http/protobuf" THEN defaultHTTPEndpoint
                      ELSE defaultGRPCEndpoint}
    OBVIOUS
  <1>4. PICK v : v = resolveEndpoint(in, sig, protocol) OBVIOUS
  <1>5. v = The(OrElse(in.explicit[sig].endpoint, OrElse(in.env[sig].endpoint,
                OrElse(in.env["general"].endpoint, OrElse(d, e)))))
    BY <1>2, <1>3, <1>4 DEF resolveEndpoint
  <1>6. PICK given : given = Given(in, sig, "endpoint") OBVIOUS
  <1>7. given = OrElse(in.explicit[sig].endpoint,
                       OrElse(in.env[sig].endpoint, in.env["general"].endpoint))
    BY <1>6, GivenIs, RanksAre
  <1>8. /\ given # {} => v \in given
        /\ given = {} /\ d # {} => v \in d
        /\ given = {} /\ d = {} => v \in e
    BY <1>3, <1>5, <1>7, CascadeIs
  <1>9. (PresetFor(sig) = {} => d = {}) /\ \A p \in PresetFor(sig) : d = p.endpoint
    BY <1>1, <1>2, PresetIs DEF PresetFor
  <1>10. ASSUME v \in e
         PROVE  /\ v.host = defaultGRPCEndpoint.host
                /\ v.port = defaultGRPCEndpoint.port
                /\ v.path = defaultGRPCEndpoint.path
    <2>1. v = defaultHTTPEndpoint \/ v = defaultGRPCEndpoint BY <1>3, <1>10
    <2>2. /\ defaultHTTPEndpoint.host = defaultGRPCEndpoint.host
          /\ defaultHTTPEndpoint.port = defaultGRPCEndpoint.port
          /\ defaultHTTPEndpoint.path = defaultGRPCEndpoint.path
      BY DEF defaultHTTPEndpoint, defaultGRPCEndpoint, Endpoint
    <2> QED BY <2>1, <2>2
  <1>11. given # {} => \E x \in given : v.host = x.host /\ v.port = x.port /\ v.path = x.path
    BY <1>8
  <1>12. given = {} /\ d # {} =>
           \E p \in PresetFor(sig) : \E x \in p.endpoint :
             v.host = x.host /\ v.port = x.port /\ v.path = x.path
    BY <1>8, <1>9
  <1>13. d = {} => \A p \in PresetFor(sig) : p.endpoint = {} BY <1>9
  <1> QED BY <1>1, <1>4, <1>6, <1>8, <1>10, <1>11, <1>12, <1>13 DEF EndpointFollows

\* Every setting is what the first source says that has one, then the preset's, for
\* traces only, then the default (env.go:28-119, datadog.go:16-38).
THEOREM FirstSourceWins == Spec => []PrecedenceFollowed
PROOF
  <1>1. IInv => PrecedenceFollowed
    <2> SUFFICES ASSUME IInv, NEW sig \in Signals, NEW c \in cfg[sig]
                 PROVE  /\ ProtocolFollows(sig, c.protocol)
                        /\ HeadersFollow(sig, c.headers)
                        /\ EndpointFollows(sig, c.endpoint)
                        /\ TimeoutFollows(sig, c.timeout)
      BY DEF PrecedenceFollowed
    <2>1. input \in InputType BY SettingsStand
    <2>2. c \in resolveExporterConfig(input, sig) BY SettingsStand
    <2>3. PICK e : e = resolveEndpoint(input, sig, c.protocol) OBVIOUS
    <2>4. /\ c.protocol = resolveProtocol(input, sig)
          /\ c.headers = resolveHeaders(input, sig)
          /\ c.timeout \in resolveTimeout(input, sig)
          /\ Normal(c, e, c.protocol)
      BY <2>1, <2>2, <2>3, ResolvedIs
    <2>5. ProtocolFollows(sig, c.protocol) BY <2>1, <2>4, ProtocolIs
    <2>6. HeadersFollow(sig, c.headers) BY <2>1, <2>4, HeadersAre
    <2>7. EndpointFollows(sig, c.endpoint)
      <3>1. EndpointFollows(sig, e) BY <2>1, <2>3, EndpointIs
      <3>2. /\ c.endpoint.host = e.host /\ c.endpoint.port = e.port
            /\ c.endpoint.path = e.path
        BY <2>4 DEF Normal
      <3> QED BY <3>1, <3>2 DEF EndpointFollows
    <2>8. TimeoutFollows(sig, c.timeout)
      BY <2>1, <2>4, TimeoutIn DEF TimeoutFollows
    <2> QED BY <2>5, <2>6, <2>7, <2>8
  <1> QED BY <1>1, Invariance, PTL

LEMMA Kept ==
  ASSUME IInv PROVE KeyStaysWithTraces
PROOF
  <1> SUFFICES ASSUME NEW sig \in Signals, NEW x \in clients[sig]
               PROVE  /\ ApiKey \in UNION x.primary.headers => sig = "traces"
                      /\ \A d \in x.dev : ApiKey \notin UNION d.headers
    BY DEF KeyStaysWithTraces
  <1>1. /\ cfg[sig] # {}
        /\ x = Exporter(The(cfg[sig]), dev[sig], sig)
    BY DEF IInv, ClientInv
  <1>2. PICK c : c = The(cfg[sig]) OBVIOUS
  <1>3. PICK devs : devs = dev[sig] OBVIOUS
  <1>4. x = Exporter(c, devs, sig) BY <1>1, <1>2, <1>3
  <1>5. /\ x.primary = clientOptions(c, sig)
        /\ x.dev = {clientOptions(d, sig) : d \in devs}
    BY <1>4 DEF Exporter
  <1>6. ASSUME NEW d PROVE UNION clientOptions(d, sig).headers = d.headers
    BY DEF clientOptions
  <1>7. c.headers = resolveHeaders(input, sig)
    <2>1. c \in resolveExporterConfig(input, sig) BY <1>1, <1>2, TheIn, SettingsStand
    <2> QED BY <2>1, SettingsStand, ResolvedIs
  <1>8. sig # "traces" => ApiKey \notin c.headers BY <1>7, SettingsStand, HeadersIn
  <1>9. \A d \in devs : d.headers = {}
    BY <1>3, SettingsStand, DevResolvedIs
  <1>10. \A d \in x.dev : UNION d.headers = {} BY <1>5, <1>6, <1>9
  <1> QED BY <1>5, <1>6, <1>8, <1>10

LEMMA Apart ==
  ASSUME IInv PROVE PathsTellSignals
PROOF
  <1>1. ASSUME NEW c \in ResolvedType, NEW e, Normal(c, e, c.protocol), NEW sig \in Signals,
               clientOptions(c, sig).endpoint.scheme # "",
               clientOptions(c, sig).endpoint.path \in {"", "/"}
        PROVE  clientOptions(c, sig).path = {sig}
    <2>1. /\ clientOptions(c, sig).endpoint = c.endpoint
          /\ clientOptions(c, sig).path =
               IF c.protocol = "grpc" THEN {} ELSE defaultHTTPPath(c.endpoint, sig)
      BY DEF clientOptions
    <2>2. c.protocol # "grpc" BY <1>1, <2>1 DEF Normal, HostPort
    <2> QED BY <1>1, <2>1, <2>2 DEF defaultHTTPPath
  <1> DEFINE Bare(client) ==
               client.endpoint.scheme # "" /\ client.endpoint.path \in {"", "/"}
  <1>2. ASSUME NEW sig \in Signals, NEW x \in clients[sig]
        PROVE  /\ Bare(x.primary) => x.primary.path = {sig}
               /\ \A d \in x.dev : Bare(d) => d.path = {sig}
    <2>1. cfg[sig] # {} /\ x = Exporter(The(cfg[sig]), dev[sig], sig)
      BY <1>2 DEF IInv, ClientInv
    <2>2. PICK c : c = The(cfg[sig]) OBVIOUS
    <2>3. PICK devs : devs = dev[sig] OBVIOUS
    <2>4. x = Exporter(c, devs, sig) BY <2>1, <2>2, <2>3
    <2>5. /\ x.primary = clientOptions(c, sig)
          /\ x.dev = {clientOptions(d, sig) : d \in devs}
      BY <2>4 DEF Exporter
    <2>6. c \in resolveExporterConfig(input, sig) BY <2>1, <2>2, TheIn, SettingsStand
    <2>7. \E e : c \in ResolvedType /\ Normal(c, e, c.protocol)
      BY <2>6, SettingsStand, ResolvedIs
    <2>8. \A d \in devs : \E e : d \in ResolvedType /\ Normal(d, e, d.protocol)
      BY <2>3, SettingsStand, DevResolvedIs
    <2>9. Bare(x.primary) => x.primary.path = {sig}
      <3>1. PICK e : c \in ResolvedType /\ Normal(c, e, c.protocol) BY <2>7
      <3> QED BY <1>1, <2>5, <3>1
    <2>10. ASSUME NEW client \in x.dev, Bare(client) PROVE client.path = {sig}
      <3>1. PICK d \in devs : client = clientOptions(d, sig) BY <2>5
      <3>2. PICK e : d \in ResolvedType /\ Normal(d, e, d.protocol) BY <2>8
      <3> QED BY <1>1, <2>10, <3>1, <3>2
    <2> QED BY <2>9, <2>10
  <1>3. \A s, t : s # t => {s} # {t} OBVIOUS
  <1> HIDE DEF Bare
  <1>4. ASSUME NEW s \in Signals, NEW t \in Signals, s # t,
               NEW x \in clients[s], NEW y \in clients[t]
        PROVE  /\ Bare(x.primary) /\ Bare(y.primary) => x.primary.path # y.primary.path
               /\ \A c \in x.dev, d \in y.dev : Bare(c) /\ Bare(d) => c.path # d.path
    BY <1>2, <1>3, <1>4
  <1>5. ASSUME NEW s \in Signals, NEW t \in Signals, s # t,
               NEW x \in clients[s], NEW y \in clients[t]
        PROVE  Bare(x.primary) /\ Bare(y.primary) => x.primary.path # y.primary.path
    BY <1>4, <1>5
  <1>6. ASSUME NEW s \in Signals, NEW t \in Signals, s # t,
               NEW x \in clients[s], NEW y \in clients[t],
               NEW c \in x.dev, NEW d \in y.dev
        PROVE  Bare(c) /\ Bare(d) => c.path # d.path
    BY <1>4, <1>6
  <1> QED BY <1>5, <1>6, Zenon DEF PathsTellSignals, Bare

\* The API key goes to the trace collector alone, and signals that share a collector
\* over HTTP are told apart (datadog.go:21-37, devsink_lotel.go:58-80,
\* exporters.go:132-223, 287-302).
THEOREM SignalsDoNotMix == Spec => []SignalsKeptApart
PROOF
  <1>1. IInv => SignalsKeptApart BY Kept, Apart DEF SignalsKeptApart
  <1> QED BY <1>1, Invariance, PTL
=============================================================================
