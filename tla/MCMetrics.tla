----------------------------- MODULE MCMetrics -----------------------------
(***************************************************************************)
(* Metrics on a few concurrent calls.  The requests are one or two of each *)
(* recorder, with token counts that are negative, zero and positive, and   *)
(* free attributes that are allowed, prohibited, prohibited by prefix and  *)
(* unknown, alone and in a row.                                            *)
(***************************************************************************)
EXTENDS Metrics, TLC

CONSTANTS c1, c2

MCCalls == {c1, c2}
MCSymmetry == Permutations(Calls)

R(op, labels, extra, metric, available, input, output) ==
  [op |-> op, labels |-> labels, extra |-> extra, metric |-> metric,
   available |-> available, input |-> input, output |-> output]

LatencyRequests ==
  {R("latency", labels, <<>>, "", FALSE, 0, 0) :
     labels \in {{}, {"provider", "model", "operation", "error"}}}

UsageRequests ==
  {R("usage", {"model", "error"}, <<>>, "", available, n[1], n[2]) :
     available \in BOOLEAN, n \in {<<1, 1>>, <<1, 0>>, <<-1, 1>>, <<1, -1>>}}
  \cup {R(op, {"provider"}, <<>>, "", FALSE, n, n) :
          op \in {"inputTokens", "outputTokens"}, n \in {-1, 0}}

ErrorRequests == {R("providerError", {"provider", "error"}, <<>>, "", FALSE, 0, 0)}

FallbackRequests ==
  {R("fallback", {"provider", "from"}, extra, "", FALSE, 0, 0) :
     extra \in {<<>>, <<"session">>, <<"tool.input/a", "to">>,
                <<"error", "issue", "provider">>}}

FilterRequests ==
  {R("filter", {}, extra, metric, FALSE, 0, 0) :
     metric \in {"duration", "errors", "nowhere"},
     extra \in {<<>>, <<"provider", "session">>, <<"unknown", "session", "error">>,
                <<"tool.input/a", "model", "tool.input/a">>}}

MCRequests ==
  LatencyRequests \cup UsageRequests \cup ErrorRequests \cup FallbackRequests
    \cup FilterRequests
MCModes == {"log_and_drop", "strict", "disabled"}
MCLogging == {"log_and_drop"}
=============================================================================
