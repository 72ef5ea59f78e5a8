----------------------------- MODULE Bootstrap -----------------------------
(***************************************************************************)
(* Init of bootstrap.go, with the exporter construction of exporters.go    *)
(* and the dev sink composition of devsink_lotel.go: what it builds, what  *)
(* it falls back to, what it undoes on the way and what it installs as the *)
(* process-wide OpenTelemetry providers, for any number of concurrent      *)
(* calls; and the stop of what it built through the handle it returns.     *)
(*                                                                         *)
(* Collectors come and go at any time, so a dial or the construction of an *)
(* exporter may succeed or fail each time it is tried; so does an expired  *)
(* context.                                                                *)
(***************************************************************************)
EXTENDS Integers, Sequences

CONSTANTS
  Inits,    \* calls of Init
  NoInit    \* in a global slot: the provider the process started with

ASSUME InitsAssumption == NoInit \notin Inits

VARIABLES
  opts,       \* what each call is given and what it will find wrong with it
  pc,         \* where each call is
  k,          \* the signal it is building, or the global slot it is setting
  exporter,   \* its primary exporters
  dev,        \* its dev sink exporters
  provider,   \* its providers
  stops,      \* what it has still to stop, in this order: Init, or its handle
  result,     \* "live", "noop" or "error", once it is known
  global,     \* the call whose provider each process-wide slot holds
  outage,     \* history: a primary dial or exporter construction failed
  torn        \* history: two calls set the slots at the same time

callVars == <<opts, k, exporter, dev, provider, stops, result, outage>>
vars == <<callVars, pc, global, torn>>

BuildOrder == <<"traces", "metrics", "logs">>
Signals == {BuildOrder[n] : n \in DOMAIN BuildOrder}
SlotOrder == <<"tracer", "meter", "logger", "propagator">>
Slots == {SlotOrder[n] : n \in DOMAIN SlotOrder}

\* Enabled, SkipGlobalInstall and DevSink of Options, and whether resolveConfig,
\* the resource merge and the instrument registration accept the rest of it.
Options == [enabled : BOOLEAN, skipGlobal : BOOLEAN, devSink : BOOLEAN,
            configOK : BOOLEAN, resourceOK : BOOLEAN, instrumentsOK : BOOLEAN]

PCs == {"idle", "config", "resource", "dial", "exporter", "devDial", "devNew",
        "provider", "instruments", "unwind", "install", "done"}

TypeOK ==
  /\ opts \in [Inits -> Options]
  /\ pc \in [Inits -> PCs]
  /\ k \in [Inits -> 1..4]
  /\ exporter \in [Inits -> [Signals -> {"none", "open", "closed"}]]
  /\ dev \in [Inits -> [Signals -> {"none", "open", "closed"}]]
  /\ provider \in [Inits -> [Signals -> {"none", "running", "stopped"}]]
  /\ stops \in [Inits -> Seq(Signals)]
  /\ result \in [Inits -> {"none", "live", "noop", "error"}]
  /\ global \in [Slots -> Inits \cup {NoInit}]
  /\ outage \in [Inits -> BOOLEAN]
  /\ torn \in BOOLEAN

Nothing == [s \in Signals |-> "none"]

Init ==
  /\ opts \in [Inits -> Options]
  /\ pc = [i \in Inits |-> "idle"]
  /\ k = [i \in Inits |-> 1]
  /\ exporter = [i \in Inits |-> Nothing]
  /\ dev = [i \in Inits |-> Nothing]
  /\ provider = [i \in Inits |-> Nothing]
  /\ stops = [i \in Inits |-> <<>>]
  /\ result = [i \in Inits |-> "none"]
  /\ global = [s \in Slots |-> NoInit]
  /\ outage = [i \in Inits |-> FALSE]
  /\ torn = FALSE

-----------------------------------------------------------------------------

Sig(i) == BuildOrder[k[i]]
Last(i) == k[i] = Len(BuildOrder)

\* Each exit of a failed start has a list of its own, written out by hand, of what it
\* stops in which order before it returns: no-op providers or an error.  Mutants: an
\* exit that returns nil providers without an error, one that returns an error when a
\* collector is not there, one that forgets a provider.
DialExit_Nil == [stops |-> <<>>, result |-> "nil"]
DialExit == [stops |-> <<>>, result |-> "noop"]
TraceExit == [stops |-> <<>>, result |-> "noop"]
MetricExit == [stops |-> <<"traces">>, result |-> "noop"]
LogExit_Error == [stops |-> <<"metrics", "traces">>, result |-> "error"]
LogExit_NotTracer == [stops |-> <<"metrics">>, result |-> "noop"]
LogExit == [stops |-> <<"metrics", "traces">>, result |-> "noop"]
InstrumentExit == [stops |-> <<"logs", "metrics", "traces">>, result |-> "error"]
OptionsExit == [stops |-> <<>>, result |-> "error"]

ExporterExit(s) ==
  CASE s = "traces" -> TraceExit
    [] s = "metrics" -> MetricExit
    [] s = "logs" -> LogExit

\* The hooks of the handle, written out once more; mutant: in the order in which the
\* providers were built.
Hooks_BuildOrder == <<"traces", "metrics", "logs">>
Hooks == <<"logs", "metrics", "traces">>

\* A primary failure at this point makes Init fall back to no-op providers;
\* mutant: so does a dev sink failure.
AfterDevFailure_FallsBack(i) == "unwind"
AfterDevFailure(i) == "provider"

\* The slots set by installGlobalProviders; mutant: not all for a no-op result.
LastSlot_NoLogger(i) == IF result[i] = "noop" THEN 2 ELSE Len(SlotOrder)
LastSlot(i) == Len(SlotOrder)

\* Init after a failed dial goes on to its fallback; mutant: it starts again.
AfterDialFailure_Retry(i) == "config"
AfterDialFailure(i) == "unwind"

\* An error leaves the globals alone.
AfterUnwind(i) == IF result[i] = "error" THEN "done" ELSE "install"

-----------------------------------------------------------------------------

Goto(i, from, to) == pc[i] = from /\ pc' = [pc EXCEPT ![i] = to]

\* Give up: undo what has been built so far, if anything.
Fail(i, from, exit) ==
  /\ Goto(i, from, "unwind")
  /\ result' = [result EXCEPT ![i] = exit.result]
  /\ stops' = [stops EXCEPT ![i] = exit.stops]

CallInit(i) ==
  /\ Goto(i, "idle", IF opts[i].enabled THEN "config" ELSE "resource")
  /\ UNCHANGED <<callVars, global, torn>>

ResolveConfig(i) ==
  /\ IF opts[i].configOK
       THEN Goto(i, "config", "resource") /\ UNCHANGED <<result, stops>>
       ELSE Fail(i, "config", OptionsExit)
  /\ UNCHANGED <<opts, k, exporter, dev, provider, outage, global, torn>>

\* Without Enabled the no-op providers are the result.
BuildResource(i) ==
  /\ CASE ~opts[i].resourceOK -> Fail(i, "resource", OptionsExit)
       [] opts[i].resourceOK /\ opts[i].enabled ->
            Goto(i, "resource", "dial") /\ UNCHANGED <<result, stops>>
       [] OTHER -> /\ Goto(i, "resource", "install")
                   /\ result' = [result EXCEPT ![i] = "noop"]
                   /\ UNCHANGED stops
  /\ UNCHANGED <<opts, k, exporter, dev, provider, outage, global, torn>>

\* exporterEndpointsReachable: every primary endpoint is dialled, traces first.
DialReachable(i) ==
  /\ Goto(i, "dial", IF Last(i) THEN "exporter" ELSE "dial")
  /\ k' = [k EXCEPT ![i] = IF Last(i) THEN 1 ELSE @ + 1]
  /\ UNCHANGED <<opts, exporter, dev, provider, stops, result, outage, global, torn>>

DialUnreachable(i) ==
  /\ Goto(i, "dial", AfterDialFailure(i))
  /\ result' = [result EXCEPT ![i] = DialExit.result]
  /\ stops' = [stops EXCEPT ![i] = DialExit.stops]
  /\ outage' = [outage EXCEPT ![i] = TRUE]
  /\ UNCHANGED <<opts, k, exporter, dev, provider, global, torn>>

NewExporter(i) ==
  /\ Goto(i, "exporter", IF opts[i].devSink THEN "devDial" ELSE "provider")
  /\ exporter' = [exporter EXCEPT ![i][Sig(i)] = "open"]
  /\ UNCHANGED <<opts, k, dev, provider, stops, result, outage, global, torn>>

NewExporterFails(i) ==
  /\ Fail(i, "exporter", ExporterExit(Sig(i)))
  /\ outage' = [outage EXCEPT ![i] = TRUE]
  /\ UNCHANGED <<opts, k, exporter, dev, provider, global, torn>>

\* compose: the dev sink answers the dial.
DevSinkReachable(i) ==
  /\ Goto(i, "devDial", "devNew")
  /\ UNCHANGED <<callVars, global, torn>>

\* compose: the dev sink is misconfigured or unreachable, or its exporter cannot
\* be made: the primary exporter is used alone.
DevSinkMissing(i) ==
  /\ pc[i] \in {"devDial", "devNew"}
  /\ pc' = [pc EXCEPT ![i] = AfterDevFailure(i)]
  /\ result' = [result EXCEPT ![i] = IF AfterDevFailure(i) = "unwind" THEN "noop" ELSE @]
  /\ UNCHANGED <<opts, k, exporter, dev, provider, stops, outage, global, torn>>

NewDevExporter(i) ==
  /\ Goto(i, "devNew", "provider")
  /\ dev' = [dev EXCEPT ![i][Sig(i)] = "open"]
  /\ UNCHANGED <<opts, k, exporter, provider, stops, result, outage, global, torn>>

NewProvider(i) ==
  /\ Goto(i, "provider", IF Last(i) THEN "instruments" ELSE "exporter")
  /\ provider' = [provider EXCEPT ![i][Sig(i)] = "running"]
  /\ k' = [k EXCEPT ![i] = IF Last(i) THEN @ ELSE @ + 1]
  /\ UNCHANGED <<opts, exporter, dev, stops, result, outage, global, torn>>

NewInstruments(i) ==
  /\ IF opts[i].instrumentsOK
       THEN /\ Goto(i, "instruments", "install")
            /\ result' = [result EXCEPT ![i] = "live"]
            /\ stops' = [stops EXCEPT ![i] = Hooks]
            /\ k' = [k EXCEPT ![i] = 1]
       ELSE Fail(i, "instruments", InstrumentExit) /\ UNCHANGED k
  /\ UNCHANGED <<opts, exporter, dev, provider, outage, global, torn>>

\* The next on the list is shut down: a provider's Shutdown closes its exporter, the
\* dev sink's with it.
StopNext(i) ==
  /\ stops[i] # <<>>
  /\ provider' = [provider EXCEPT ![i][Head(stops[i])] = "stopped"]
  /\ exporter' = [exporter EXCEPT ![i][Head(stops[i])] = "closed"]
  /\ dev' = [dev EXCEPT ![i][Head(stops[i])] = IF @ = "open" THEN "closed" ELSE @]
  /\ stops' = [stops EXCEPT ![i] = Tail(@)]

Unwind(i) ==
  /\ pc[i] = "unwind"
  /\ StopNext(i)
  /\ UNCHANGED <<opts, pc, k, result, outage, global, torn>>

Unwound(i) ==
  /\ stops[i] = <<>>
  /\ Goto(i, "unwind", AfterUnwind(i))
  /\ k' = [k EXCEPT ![i] = 1]
  /\ UNCHANGED <<opts, exporter, dev, provider, stops, result, outage, global, torn>>

SkipInstall(i) ==
  /\ opts[i].skipGlobal
  /\ Goto(i, "install", "done")
  /\ UNCHANGED <<callVars, global, torn>>

\* Setting the slots: another call may set them in between.
Installing(i) == pc[i] = "install" /\ k[i] > 1

InstallSlot(i) ==
  /\ ~opts[i].skipGlobal
  /\ Goto(i, "install", IF k[i] = LastSlot(i) THEN "done" ELSE "install")
  /\ global' = [global EXCEPT ![SlotOrder[k[i]]] = i]
  /\ k' = [k EXCEPT ![i] = IF k[i] = LastSlot(i) THEN 1 ELSE @ + 1]
  /\ torn' = (torn \/ \E j \in Inits \ {i} : Installing(j))
  /\ UNCHANGED <<opts, exporter, dev, provider, stops, result, outage>>

\* The caller uses the handle of a live result: one hook of Cleanup returns.
HandleStops(i) ==
  /\ pc[i] = "done" /\ result[i] = "live"
  /\ StopNext(i)
  /\ UNCHANGED <<opts, pc, k, result, outage, global, torn>>

Advance(i) ==
  \/ CallInit(i)
  \/ ResolveConfig(i)
  \/ BuildResource(i)
  \/ DialReachable(i)
  \/ DialUnreachable(i)
  \/ NewExporter(i)
  \/ NewExporterFails(i)
  \/ DevSinkReachable(i)
  \/ DevSinkMissing(i)
  \/ NewDevExporter(i)
  \/ NewProvider(i)
  \/ NewInstruments(i)
  \/ Unwind(i)
  \/ Unwound(i)
  \/ SkipInstall(i)
  \/ InstallSlot(i)

Quiescent ==
  /\ \A i \in Inits : pc[i] = "done"
  /\ UNCHANGED vars

Next == (\E i \in Inits : Advance(i) \/ HandleStops(i)) \/ Quiescent

\* Every step of Init ends: a dial has a timeout, and the rest does not wait.
Fairness == \A i \in Inits : WF_vars(Advance(i))

Spec == Init /\ [][Next]_vars /\ Fairness

-----------------------------------------------------------------------------
\* Properties

Open(i, s) == exporter[i][s] = "open" \/ dev[i][s] = "open"

\* No exit of Init leaks what it opened: an exporter that is still open belongs
\* to a running provider, which the live handle can stop (exporters.go:25-94).
NoOrphan ==
  \A i \in Inits : pc[i] = "done" => \A s \in Signals :
    /\ provider[i][s] = "running" => result[i] = "live"
    /\ Open(i, s) => provider[i][s] = "running"

\* Fail-open: the absence of any collector is never an error, only what is
\* wrong with the options is (docs/bootstrap-design.md:121-129).
OutageIsNoError ==
  \A i \in Inits : result[i] = "error" =>
    \/ opts[i].enabled /\ ~opts[i].configOK
    \/ ~opts[i].resourceOK
    \/ opts[i].enabled /\ ~opts[i].instrumentsOK

\* Nothing the dev sink does, at any of its three signals, turns an enabled
\* Init with healthy primaries into a no-op (docs/bootstrap-design.md:156-160).
DevSinkNeverDecides ==
  \A i \in Inits :
    pc[i] = "done" /\ opts[i].enabled /\ result[i] = "noop" => outage[i]

\* The caller of a live handle has all three providers, and they stop with
\* traces last, whichever exit of Init undoes a partial start or the handle stops them
\* (exporters.go:42,53-54,64-66,89-93).
TracesStopLast ==
  \A i \in Inits :
    /\ pc[i] = "done" /\ result[i] = "live" =>
         \A s \in Signals : provider[i][s] # "none"
    /\ provider[i]["metrics"] = "stopped" => provider[i]["logs"] # "running"
    /\ provider[i]["traces"] = "stopped" =>
         provider[i]["metrics"] # "running" /\ provider[i]["logs"] # "running"

\* A process-wide slot is only ever given to a call that went on to return
\* providers without error, never to one that undid them.
GlobalsUsable ==
  \A s \in Slots : global[s] # NoInit => result[global[s]] \in {"live", "noop"}

\* Unless two calls set them at the same time, the four slots agree whenever
\* nobody is setting them, whatever the calls built (bootstrap.go:45-47,72-80).
GlobalsAgree ==
  ~torn /\ (\A i \in Inits : ~Installing(i)) =>
    \A s, t \in Slots : global[s] = global[t]

\* Init returns although no collector ever answers.
InitReturns == \A i \in Inits : (pc[i] # "idle") ~> (pc[i] = "done")
=============================================================================
