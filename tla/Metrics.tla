------------------------------ MODULE Metrics ------------------------------
(***************************************************************************)
(* The metric recorders of instruments.go and usage.go and the cardinality *)
(* filter of cardinality.go: what a recorder hands to an instrument, what  *)
(* it reports to its caller and what the filter reports to its logger,     *)
(* with any number of goroutines recording at once.                        *)
(*                                                                         *)
(* A label is its key.  The map of the violations already logged is not    *)
(* guarded by anything: between two goroutines it can lose an insertion,   *)
(* and the Go runtime may stop the process when it sees the two meet.      *)
(***************************************************************************)
EXTENDS Integers, Sequences, FiniteSets

CONSTANTS
  Calls,      \* calls of a recorder, or of Filter on a validator of one's own
  Requests,   \* what they may be given
  Modes       \* the cardinality modes tried

VARIABLES
  via,        \* "instruments", "nil" for nil *Instruments, "direct" for Filter
  mode,       \* mode of the validator
  hasLogger,  \* whether it was given a ViolationLogger
  req,        \* the request of each call
  pc,         \* where each call is
  todo,       \* the points it has yet to record, the current one first
  pos,        \* the position of the filter in the labels of that point
  kept,       \* filtered, of Filter
  firstErr,   \* firstErr, of Filter
  out,        \* the points that went to the instrument, or came back from Filter
  err,        \* the error it returned
  seen,       \* seen, of the validator
  log,        \* the calls of the logger
  raced,      \* history: two calls were inside the unguarded part of log
  crashed     \* the Go runtime has stopped the process

validator == <<via, mode, hasLogger>>
mapVars == <<seen, log, raced, crashed>>
vars == <<validator, req, pc, todo, pos, kept, firstErr, out, err, mapVars>>

-----------------------------------------------------------------------------
\* The tables

Allowed ==
  [duration |-> {"provider", "model", "operation", "error"},
   usage    |-> {"provider", "model", "operation", "token"},
   errors   |-> {"provider", "error"},
   fallback |-> {"provider", "from", "to"}]
Metrics == DOMAIN Allowed

ProhibitedKeys ==
  {"issue", "session", "thread", "turn", "run_attempt", "input_messages",
   "output_messages", "system_instructions", "tool_definitions"}
ToolInputKeys == {"tool.input/a", "tool.input/b"}   \* keys with the prefix
Labels == UNION {Allowed[m] : m \in Metrics}
Keys == Labels \cup ProhibitedKeys \cup ToolInputKeys \cup {"unknown"}

\* An error names the metric, the label and the reason, as a violation does.
Rejects(metric, key, reason) == [metric |-> metric, key |-> key, reason |-> reason]
NoError == Rejects("", "", "none")
Negative == Rejects("", "", "negative")
Reasons == {"prohibited", "unknown_key", "unknown_metric"}

IsProhibitedKey(key) == key \in ProhibitedKeys \cup ToolInputKeys

\* Why Filter drops a label, "" to keep it.
Reason(metric, key) ==
  IF IsProhibitedKey(key) THEN "prohibited"
  ELSE IF key \notin Allowed[metric] THEN "unknown_key" ELSE ""

\* CheckAllowedLabels: the error for the first label it refuses.
CheckAllowedLabels(metric, keys) ==
  IF metric \notin Metrics THEN Rejects(metric, "", "unknown_metric")
  ELSE LET Refused(n) == IsProhibitedKey(keys[n]) \/ keys[n] \notin Allowed[metric]
           bad == {n \in DOMAIN keys : Refused(n)}
           first == CHOOSE n \in bad : \A m \in bad : n <= m
       IN IF bad = {} THEN NoError
          ELSE Rejects(metric, keys[first],
                       IF IsProhibitedKey(keys[first]) THEN "prohibited"
                       ELSE "unknown_key")

-----------------------------------------------------------------------------
\* What the recorders build.  "labels" of a request holds the fields that are
\* not empty, "extra" the free attributes of a Fallback or of a direct Filter.

Label(labels, key) == IF key \in labels THEN <<key>> ELSE <<>>
modelBaseAttrs(labels) ==
  Label(labels, "operation") \o Label(labels, "provider") \o Label(labels, "model")

tokenUsageAttrs(labels) == modelBaseAttrs(labels) \o <<"token">>

Point(metric, keys, value) == [metric |-> metric, keys |-> keys, value |-> value]
TokenPoint(r, value) == Point("usage", tokenUsageAttrs(r.labels), value)

UsageMetricPoints(r) ==
  IF r.available THEN <<TokenPoint(r, "input"), TokenPoint(r, "output")>> ELSE <<>>

Points(r) ==
  CASE r.op = "latency" ->
         <<Point("duration",
                 modelBaseAttrs(r.labels) \o Label(r.labels, "error"), "")>>
    [] r.op = "usage" -> UsageMetricPoints(r)
    [] r.op = "inputTokens" -> <<TokenPoint(r, "input")>>
    [] r.op = "outputTokens" -> <<TokenPoint(r, "output")>>
    [] r.op = "providerError" ->
         <<Point("errors", Label(r.labels, "provider") \o Label(r.labels, "error"), "")>>
    [] r.op = "fallback" ->
         <<Point("fallback", Label(r.labels, "provider") \o Label(r.labels, "from")
                               \o Label(r.labels, "to") \o r.extra, "")>>
    [] r.op = "filter" -> <<Point(r.metric, r.extra, "")>>

\* Validate, and the check of recordUsageTokens.
TooSmall(r) ==
  \/ r.op \in {"usage", "inputTokens"} /\ r.input < 0
  \/ r.op \in {"usage", "outputTokens"} /\ r.output < 0

-----------------------------------------------------------------------------

MetricNames == Metrics \cup {"", "nowhere"}
RequestType ==
  [op : {"latency", "usage", "inputTokens", "outputTokens", "providerError",
         "fallback", "filter"},
   labels : SUBSET Labels, extra : Seq(Keys), metric : MetricNames,
   available : BOOLEAN, input : Int, output : Int]
PointType == [metric : MetricNames, keys : Seq(Keys), value : {"", "input", "output"}]
ErrorType ==
  [metric : MetricNames, key : Keys \cup {""}, reason : Reasons \cup {"none", "negative"}]

ASSUME RequestsAssumption ==
  Requests \subseteq RequestType /\ Modes \subseteq {"log_and_drop", "strict", "disabled"}

TypeOK ==
  /\ via \in {"instruments", "nil", "direct"}
  /\ mode \in {"log_and_drop", "strict", "disabled"}
  /\ hasLogger \in BOOLEAN
  /\ req \in [Calls -> Requests]
  /\ pc \in [Calls -> {"idle", "filter", "label", "look", "mark", "log", "record", "done"}]
  /\ todo \in [Calls -> Seq(PointType)]
  /\ pos \in [Calls -> Nat]
  /\ \A p \in Calls :
       pos[p] \in 1..(IF todo[p] = <<>> THEN 1 ELSE Len(todo[p][1].keys) + 1)
  /\ kept \in [Calls -> Seq(Keys)]
  /\ out \in [Calls -> Seq(PointType)]
  /\ firstErr \in [Calls -> ErrorType] /\ err \in [Calls -> ErrorType]
  /\ seen \subseteq ErrorType
  /\ log \in Seq(ErrorType)
  /\ raced \in BOOLEAN /\ crashed \in BOOLEAN

\* newInstruments gives its validator no logger; a nil *Instruments has none.
Init ==
  /\ via \in {"instruments", "nil", "direct"}
  /\ mode \in Modes
  /\ hasLogger \in (IF via = "direct" THEN BOOLEAN ELSE {FALSE})
  /\ req \in [Calls -> {r \in Requests : (r.op = "filter") <=> (via = "direct")}]
  /\ pc = [p \in Calls |-> "idle"]
  /\ todo = [p \in Calls |-> <<>>]
  /\ pos = [p \in Calls |-> 1]
  /\ kept = [p \in Calls |-> <<>>]
  /\ firstErr = [p \in Calls |-> NoError]
  /\ out = [p \in Calls |-> <<>>]
  /\ err = [p \in Calls |-> NoError]
  /\ seen = {}
  /\ log = <<>>
  /\ raced = FALSE
  /\ crashed = FALSE

Goto(p, from, to) == ~crashed /\ pc[p] = from /\ pc' = [pc EXCEPT ![p] = to]

Here(p) == todo[p][1]
Key(p) == Here(p).keys[pos[p]]

\* The loop over the labels is over; mutant: one label early.
AtEnd_OneEarly(p) == pos[p] >= Len(Here(p).keys)
AtEnd(p) == pos[p] > Len(Here(p).keys)

\* A strict validator's error is the first.
Remember(p, e) == IF firstErr[p] = NoError THEN [firstErr EXCEPT ![p] = e] ELSE firstErr

\* The violation the call is about to report.
Violation(p) ==
  IF Here(p).metric \in Metrics
    THEN Rejects(Here(p).metric, Key(p), Reason(Here(p).metric, Key(p)))
    ELSE Rejects(Here(p).metric, "", "unknown_metric")

\* The violation has been logged; mutant: the metric is not part of the key.
Seen_AnyMetric(v) == \E w \in seen : w.key = v.key /\ w.reason = v.reason
Seen(v) == v \in seen

-----------------------------------------------------------------------------

\* A recorder on nil *Instruments does nothing, except for RecordUsage, which
\* looks at the counts first.
Call(p) ==
  LET refused == TooSmall(req[p]) /\ (via # "nil" \/ req[p].op = "usage")
      points == IF refused \/ via = "nil" THEN <<>> ELSE Points(req[p])
  IN /\ Goto(p, "idle", IF points = <<>> THEN "done" ELSE "filter")
     /\ todo' = [todo EXCEPT ![p] = points]
     /\ err' = [err EXCEPT ![p] = IF refused THEN Negative ELSE NoError]
     /\ UNCHANGED <<validator, req, pos, kept, firstErr, out, mapVars>>

\* Filter of a validator that is nil or disabled hands the labels back.
Bypass(p) ==
  /\ mode = "disabled"
  /\ Goto(p, "filter", "record")
  /\ kept' = [kept EXCEPT ![p] = Here(p).keys]
  /\ UNCHANGED <<validator, req, todo, pos, firstErr, out, err, mapVars>>

UnknownMetric(p) ==
  /\ Goto(p, "filter", IF hasLogger THEN "look" ELSE "done")
  /\ mode # "disabled" /\ Here(p).metric \notin Metrics
  /\ err' = [err EXCEPT ![p] = Violation(p)]
  /\ UNCHANGED <<validator, req, todo, pos, kept, firstErr, out, mapVars>>

KnownMetric(p) ==
  /\ Goto(p, "filter", "label")
  /\ mode # "disabled" /\ Here(p).metric \in Metrics
  /\ pos' = [pos EXCEPT ![p] = 1]
  /\ kept' = [kept EXCEPT ![p] = <<>>]
  /\ firstErr' = [firstErr EXCEPT ![p] = NoError]
  /\ UNCHANGED <<validator, req, todo, out, err, mapVars>>

KeepLabel(p) ==
  /\ Goto(p, "label", "label")
  /\ ~AtEnd(p) /\ Reason(Here(p).metric, Key(p)) = ""
  /\ kept' = [kept EXCEPT ![p] = Append(@, Key(p))]
  /\ pos' = [pos EXCEPT ![p] = @ + 1]
  /\ UNCHANGED <<validator, req, todo, firstErr, out, err, mapVars>>

DropLabel(p) ==
  /\ pc[p] = "label" /\ ~AtEnd(p) /\ Reason(Here(p).metric, Key(p)) # ""
  /\ Goto(p, "label", IF hasLogger THEN "look" ELSE "label")
  /\ firstErr' = Remember(p, Violation(p))
  /\ pos' = [pos EXCEPT ![p] = IF hasLogger THEN @ ELSE @ + 1]
  /\ UNCHANGED <<validator, req, todo, kept, out, err, mapVars>>

\* log: whether the map has the violation, its insertion, the logger.
InMap(p) == pc[p] \in {"look", "mark"}
Meets(p) == \E q \in Calls \ {p} : InMap(q)

\* After log: the next label, or the end of a call on an unknown metric.
\* Mutant: the label after it is skipped.
AfterLog_SkipsNext(p) == pos' = [pos EXCEPT ![p] = @ + 2]
AfterLog(p) ==
  IF Here(p).metric \in Metrics
    THEN pos' = [pos EXCEPT ![p] = @ + 1]
    ELSE UNCHANGED pos
AfterLogPC(p) == IF Here(p).metric \in Metrics THEN "label" ELSE "done"

Look(p) ==
  /\ pc[p] = "look"
  /\ raced' = (raced \/ Meets(p))
  /\ IF Seen(Violation(p))
       THEN Goto(p, "look", AfterLogPC(p)) /\ AfterLog(p)
       ELSE Goto(p, "look", "mark") /\ UNCHANGED pos
  /\ UNCHANGED <<validator, req, todo, kept, firstErr, out, err, seen, log, crashed>>

Mark(p) ==
  /\ Goto(p, "mark", "log")
  /\ \/ seen' = seen \cup {Violation(p)}
     \/ (\E q \in Calls \ {p} : pc[q] = "mark") /\ UNCHANGED seen
  /\ UNCHANGED <<validator, req, todo, pos, kept, firstErr, out, err, log, raced, crashed>>

CallLogger(p) ==
  /\ Goto(p, "log", AfterLogPC(p))
  /\ log' = Append(log, Violation(p))
  /\ AfterLog(p)
  /\ UNCHANGED <<validator, req, todo, kept, firstErr, out, err, seen, raced, crashed>>

\* "concurrent map writes", or a read and a write: the runtime stops everything.
MapsMeet(p) ==
  /\ ~crashed /\ pc[p] = "mark" /\ Meets(p)
  /\ crashed' = TRUE
  /\ UNCHANGED <<validator, req, pc, todo, pos, kept, firstErr, out, err, seen, log, raced>>

\* A strict validator's error ends a recorder; Filter returns it with the rest.
Refuse(p) ==
  /\ pc[p] = "label" /\ AtEnd(p) /\ mode = "strict" /\ firstErr[p] # NoError
  /\ Goto(p, "label", IF via = "direct" THEN "record" ELSE "done")
  /\ err' = [err EXCEPT ![p] = firstErr[p]]
  /\ UNCHANGED <<validator, req, todo, pos, kept, firstErr, out, mapVars>>

Accept(p) ==
  /\ pc[p] = "label" /\ AtEnd(p) /\ ~(mode = "strict" /\ firstErr[p] # NoError)
  /\ Goto(p, "label", "record")
  /\ UNCHANGED <<validator, req, todo, pos, kept, firstErr, out, err, mapVars>>

\* The instrument records, and RecordUsage goes on to its next point.
Record(p) ==
  /\ Goto(p, "record", IF Len(todo[p]) > 1 THEN "filter" ELSE "done")
  /\ out' = [out EXCEPT ![p] = Append(@, Point(Here(p).metric, kept[p], Here(p).value))]
  /\ todo' = [todo EXCEPT ![p] = Tail(@)]
  /\ pos' = [pos EXCEPT ![p] = 1]
  /\ UNCHANGED <<validator, req, kept, firstErr, err, mapVars>>

Advance(p) ==
  \/ Call(p)
  \/ Bypass(p)
  \/ UnknownMetric(p)
  \/ KnownMetric(p)
  \/ KeepLabel(p)
  \/ DropLabel(p)
  \/ Look(p)
  \/ Mark(p)
  \/ CallLogger(p)
  \/ MapsMeet(p)
  \/ Refuse(p)
  \/ Accept(p)
  \/ Record(p)

AllDone == \A p \in Calls : pc[p] = "done"
Quiescent == (crashed \/ AllDone) /\ UNCHANGED vars

Next == (\E p \in Calls : Advance(p)) \/ Quiescent

Spec == Init /\ [][Next]_vars

-----------------------------------------------------------------------------
\* Properties

Over(p) == pc[p] = "done"

\* The list is what "keys" has at the positions "chosen", in order: the one of
\* position n has as many before it as there are chosen ones before n.
Selection(list, keys, chosen) ==
  /\ Len(list) = Cardinality(chosen)
  /\ \A n \in chosen : list[Cardinality({m \in chosen : m <= n})] = keys[n]

\* A point keeps exactly the labels CheckAllowedLabels, the helper behind the lint
\* tests, accepts one by one, in order.
ExportsWhatLintAccepts ==
  mode # "disabled" => \A p \in Calls : \A n \in DOMAIN out[p] :
    LET source == Points(req[p])[n]
        Fine(key) == CheckAllowedLabels(source.metric, <<key>>) = NoError
        fine == {m \in DOMAIN source.keys : Fine(source.keys[m])}
    IN /\ out[p][n].metric = source.metric /\ out[p][n].value = source.value
       /\ Selection(out[p][n].keys, source.keys, fine)
       /\ source.metric \in Metrics

\* A strict validator gives the error of the helper, the first, and a recorder that
\* returns it has recorded nothing.
StrictIsLint ==
  \A p \in Calls : Over(p) /\ mode = "strict" /\ via # "nil" /\ ~TooSmall(req[p]) =>
    LET refused == {n \in DOMAIN Points(req[p]) :
          CheckAllowedLabels(Points(req[p])[n].metric, Points(req[p])[n].keys) # NoError}
    IN /\ refused = {} => err[p] = NoError
       /\ \A n \in refused : err[p] =
            CheckAllowedLabels(Points(req[p])[n].metric, Points(req[p])[n].keys)
       /\ refused # {} /\ via = "instruments" => out[p] = <<>>

\* The typed recorders, which have no free attributes, never run into the
\* filter: what they build fits the table of their metric.
TypedRecordersFit ==
  \A p \in Calls : via = "instruments" /\ req[p].op # "fallback" =>
    firstErr[p] = NoError /\ err[p] \in {NoError, Negative}

\* RecordUsage records both token counts or neither: neither only when usage is
\* not available or a count is negative.
UsageIsWhole ==
  \A p \in Calls : Over(p) /\ req[p].op = "usage" /\ via = "instruments" =>
    LET r == req[p]
        values == {out[p][n].value : n \in DOMAIN out[p]}
    IN /\ values \in {{}, {"input", "output"}}
       /\ values = {} <=> ~r.available \/ r.input < 0 \/ r.output < 0
       /\ err[p] = Negative <=> r.input < 0 \/ r.output < 0

\* What is recorded is what should be: the labels the lint helper accepts, which
\* decides in code of its own, on what the recorders build, in code of their own, of
\* a usage all or nothing (docs/cardinality-runtime.md:103-115,119-121,
\* instruments.go:44-56).  Labels are keys here: what line 116 says of empty values is
\* not part of it.
RecordsWhatLintAccepts ==
  ExportsWhatLintAccepts /\ StrictIsLint /\ TypedRecordersFit /\ UsageIsWhole

Repeated == \E m, n \in DOMAIN log : m # n /\ log[m] = log[n]

Logged(v) == \E n \in DOMAIN log : log[n] = v

\* Every label the filter drops of what p records, and a metric it does not know.
Reported(p) ==
  \A point \in {Points(req[p])[n] : n \in DOMAIN Points(req[p])} :
    IF point.metric \notin Metrics
      THEN Logged(Rejects(point.metric, "", "unknown_metric"))
      ELSE \A key \in {point.keys[n] : n \in DOMAIN point.keys} :
             \/ Reason(point.metric, key) = ""
             \/ Logged(Rejects(point.metric, key, Reason(point.metric, key)))

\* A validator with a logger is never silent: when nobody is recording, every
\* violation of any call has been logged, even if another call was logging the
\* same one at the time; and if no two calls met in the map, each only once, whoever
\* commits it (cardinality.go:235-240,252-267).
ViolationsLogged ==
  /\ hasLogger /\ mode # "disabled" /\ AllDone =>
       \A p \in Calls : Reported(p)
  /\ ~raced => ~Repeated

\* docs/cardinality-runtime.md:125 "Log each cardinality violation once per
\* process per (metric, key, reason)".
LoggedOncePerProcess == ~Repeated
=============================================================================
