-------------------------- MODULE BootstrapProofs --------------------------
(***************************************************************************)
(* Proofs about Bootstrap, for any number of concurrent calls of Init.     *)
(***************************************************************************)
EXTENDS Bootstrap, TLAPS

Positions == 1..3

Empty(i, s) ==
  provider[i][s] = "none" /\ exporter[i][s] = "none" /\ dev[i][s] = "none"

\* How far each call has come: the signals before k have a provider, k itself
\* may have its exporters, those after it have nothing.
StageOf(i) ==
  /\ pc[i] # "install" => k[i] \in Positions
  /\ pc[i] = "install" /\ opts[i].skipGlobal => k[i] = 1
  /\ pc[i] \in {"idle", "config", "resource"} => k[i] = 1
  /\ \A n \in Positions :
       /\ pc[i] \in {"idle", "config", "resource", "dial"} =>
            Empty(i, BuildOrder[n])
       /\ pc[i] \in {"exporter", "devDial", "devNew", "provider"} =>
            /\ n < k[i] => provider[i][BuildOrder[n]] = "running"
            /\ n = k[i] => provider[i][BuildOrder[n]] = "none"
            /\ n = k[i] /\ pc[i] = "exporter" => Empty(i, BuildOrder[n])
            /\ n > k[i] => Empty(i, BuildOrder[n])
       /\ pc[i] = "instruments" => provider[i][BuildOrder[n]] = "running"
InvStage == \A i \in Inits : StageOf(i)

\* The result is known exactly from the moment the call stops building.
ResultOf(i) ==
  /\ pc[i] \in {"unwind", "install", "done"} <=> result[i] # "none"
  /\ pc[i] = "unwind" => result[i] \in {"noop", "error"}
  /\ pc[i] = "install" => result[i] \in {"live", "noop"}
  /\ pc[i] = "config" => opts[i].enabled
  /\ pc[i] \in {"dial", "exporter", "devDial", "devNew", "provider", "instruments"}
       => opts[i].enabled
InvResult == \A i \in Inits : ResultOf(i)

\* What is open is owned by a running provider, except while it is being made;
\* nothing runs once a call has given up.
OwnedBy(i) ==
  \A s \in Signals :
    /\ Open(i, s) =>
         \/ provider[i][s] = "running"
         \/ pc[i] \in {"devDial", "devNew", "provider"} /\ s = Sig(i)
    /\ pc[i] \in {"install", "done"} /\ result[i] # "live" =>
         provider[i][s] # "running"
    /\ result[i] = "live" => provider[i][s] # "none"
InvOwned == \A i \in Inits : OwnedBy(i)

\* A stopped provider has no running one after it in build order, and nothing
\* is stopped while the call is building.
OrderOf(i) ==
  /\ \A m, n \in Positions :
       m > n /\ provider[i][BuildOrder[n]] = "stopped" =>
         provider[i][BuildOrder[m]] # "running"
  /\ pc[i] \notin {"unwind", "install", "done"} =>
       \A s \in Signals : provider[i][s] # "stopped"
InvOrder == \A i \in Inits : OrderOf(i)

\* Once the call has stopped building, what runs is what is still on its list.
FromTraces == <<"traces">>
FromMetrics == <<"metrics", "traces">>
FromLogs == <<"logs", "metrics", "traces">>
Runs(running, list) ==
  /\ list \in {<<>>, FromTraces, FromMetrics, FromLogs}
  /\ "logs" \in running <=> list = FromLogs
  /\ "metrics" \in running <=> list \in {FromLogs, FromMetrics}
  /\ "traces" \in running <=> list \in {FromLogs, FromMetrics, FromTraces}
Running(i) == {s \in Signals : provider[i][s] = "running"}
StopsOf(i) ==
  IF pc[i] \in {"unwind", "install", "done"} THEN Runs(Running(i), stops[i])
                                            ELSE stops[i] = <<>>
InvStops == \A i \in Inits : StopsOf(i)

\* The reasons for a no-op and for an error.
ReasonOf(i) ==
  /\ result[i] = "noop" => outage[i] \/ ~opts[i].enabled
  /\ result[i] = "error" =>
       \/ opts[i].enabled /\ ~opts[i].configOK
       \/ ~opts[i].resourceOK
       \/ opts[i].enabled /\ ~opts[i].instrumentsOK
InvReason == \A i \in Inits : ReasonOf(i)

\* Without overlap one call at most is setting the slots: those before its
\* position are its own, the others agree.
InvGlobal ==
  /\ \A s \in Slots : global[s] # NoInit =>
       /\ global[s] \in Inits
       /\ pc[global[s]] \in {"install", "done"}
       /\ result[global[s]] \in {"live", "noop"}
  /\ ~torn => \A i, j \in Inits : Installing(i) /\ Installing(j) => i = j
  /\ ~torn => \A i \in Inits : Installing(i) => \A m, n \in 1..4 :
       /\ m < k[i] => global[SlotOrder[m]] = i
       /\ m >= k[i] /\ n >= k[i] => global[SlotOrder[m]] = global[SlotOrder[n]]
  /\ ~torn /\ (\A i \in Inits : ~Installing(i)) =>
       \A m, n \in 1..4 : global[SlotOrder[m]] = global[SlotOrder[n]]

IInv ==
  /\ TypeOK
  /\ InvStage
  /\ InvResult
  /\ InvOwned
  /\ InvOrder
  /\ InvReason
  /\ InvGlobal
  /\ InvStops

-----------------------------------------------------------------------------
\* The three positions of BuildOrder, and the four of SlotOrder.
LEMMA Order ==
  /\ DOMAIN BuildOrder = Positions /\ Len(BuildOrder) = 3
  /\ BuildOrder[1] = "traces" /\ BuildOrder[2] = "metrics" /\ BuildOrder[3] = "logs"
  /\ Signals = {"traces", "metrics", "logs"}
  /\ \A n \in Positions : BuildOrder[n] \in Signals
  /\ \A s \in Signals : \E n \in Positions : s = BuildOrder[n]
  /\ \A m, n \in Positions : BuildOrder[m] = BuildOrder[n] => m = n
<1>1. Len(BuildOrder) = 3 /\ DOMAIN BuildOrder = Positions
  BY DEF BuildOrder, Positions
<1>2. /\ BuildOrder[1] = "traces" /\ BuildOrder[2] = "metrics"
      /\ BuildOrder[3] = "logs"
  BY DEF BuildOrder
<1>3. Positions = {1, 2, 3} BY DEF Positions
<1>4. Signals = {"traces", "metrics", "logs"}
  BY <1>1, <1>2, <1>3 DEF Signals
<1> QED BY <1>1, <1>2, <1>3, <1>4

LEMMA SlotFacts ==
  /\ Len(SlotOrder) = 4
  /\ \A n \in 1..4 : SlotOrder[n] \in Slots
  /\ \A s \in Slots : \E n \in 1..4 : s = SlotOrder[n]
  /\ \A m, n \in 1..4 : SlotOrder[m] = SlotOrder[n] => m = n
<1>1. Len(SlotOrder) = 4 /\ DOMAIN SlotOrder = 1..4 BY DEF SlotOrder
<1>2. \A m, n \in 1..4 : SlotOrder[m] = SlotOrder[n] => m = n
  BY DEF SlotOrder
<1> QED BY <1>1, <1>2 DEF Slots

\* What the lists of the exits and of the handle are, one after the other.
LEMMA Lists ==
  /\ Head(FromTraces) = "traces" /\ Tail(FromTraces) = <<>>
  /\ Head(FromMetrics) = "metrics" /\ Tail(FromMetrics) = FromTraces
  /\ Head(FromLogs) = "logs" /\ Tail(FromLogs) = FromMetrics
  /\ <<>> \notin {FromTraces, FromMetrics, FromLogs}
  /\ FromTraces # FromMetrics /\ FromMetrics # FromLogs /\ FromLogs # FromTraces
  /\ {<<>>, FromTraces, FromMetrics, FromLogs} \subseteq Seq(Signals)
<1>1. "traces" \in Signals /\ "metrics" \in Signals /\ "logs" \in Signals BY Order
<1>2. {<<>>, FromTraces, FromMetrics, FromLogs} \subseteq Seq(Signals)
  BY <1>1 DEF FromTraces, FromMetrics, FromLogs
<1>3. /\ Head(FromTraces) = "traces" /\ Head(FromMetrics) = "metrics"
      /\ Head(FromLogs) = "logs"
  BY DEF FromTraces, FromMetrics, FromLogs
<1>4. Tail(FromTraces) = <<>> /\ Tail(FromMetrics) = FromTraces /\ Tail(FromLogs) = FromMetrics
  BY DEF FromTraces, FromMetrics, FromLogs
<1>5. <<>> \notin {FromTraces, FromMetrics, FromLogs}
  BY DEF FromTraces, FromMetrics, FromLogs
<1>6. FromTraces # FromMetrics /\ FromMetrics # FromLogs /\ FromLogs # FromTraces
  BY DEF FromTraces, FromMetrics, FromLogs
<1> QED BY <1>2, <1>3, <1>4, <1>5, <1>6

LEMMA Exits ==
  /\ OptionsExit.stops = <<>> /\ OptionsExit.result = "error"
  /\ DialExit.stops = <<>> /\ DialExit.result = "noop"
  /\ TraceExit.stops = <<>> /\ TraceExit.result = "noop"
  /\ MetricExit.stops = FromTraces /\ MetricExit.result = "noop"
  /\ LogExit.stops = FromMetrics /\ LogExit.result = "noop"
  /\ InstrumentExit.stops = FromLogs /\ InstrumentExit.result = "error"
  /\ Hooks = FromLogs
BY DEF OptionsExit, DialExit, TraceExit, MetricExit, LogExit, InstrumentExit, Hooks,
       FromTraces, FromMetrics, FromLogs

\* The initial states satisfy the invariant.
LEMMA InitInv == Init => IInv
<1> SUFFICES ASSUME Init PROVE IInv OBVIOUS
<1> USE Order, SlotFacts, InitsAssumption DEF Init, Nothing
<1>1. TypeOK
  <2>1. k \in [Inits -> 1..4] BY SMT
  <2>2. stops \in [Inits -> Seq(Signals)] BY Lists
  <2> QED BY <2>1, <2>2 DEF TypeOK, PCs, Options
<1>2. InvStage
  <2> SUFFICES ASSUME NEW i \in Inits PROVE StageOf(i) BY DEF InvStage
  <2>1. k[i] = 1 /\ pc[i] = "idle" OBVIOUS
  <2>2. \A n \in Positions : Empty(i, BuildOrder[n]) BY DEF Empty
  <2> QED BY <2>1, <2>2 DEF StageOf, Positions
<1>3. InvResult /\ InvReason BY DEF InvResult, ResultOf, InvReason, ReasonOf
<1>4. InvOwned BY DEF InvOwned, OwnedBy, Open
<1>5. InvOrder BY DEF InvOrder, OrderOf
<1>6. InvGlobal BY DEF InvGlobal, Installing
<1>7. InvStops BY DEF InvStops, StopsOf
<1> QED BY <1>1, <1>2, <1>3, <1>4, <1>5, <1>6, <1>7 DEF IInv

\* A step of a call that sets no slot and is not between two slots, before or
\* after it.
LEMMA GlobalKept ==
  ASSUME IInv, NEW i \in Inits, global' = global, torn' = torn,
         \A j \in Inits \ {i} :
           pc'[j] = pc[j] /\ k'[j] = k[j] /\ result'[j] = result[j],
         ~Installing(i), ~Installing(i)',
         pc[i] \in {"install", "done"} =>
           pc'[i] \in {"install", "done"} /\ result'[i] = result[i]
  PROVE InvGlobal'
<1> USE DEF IInv
<1>1. \A j \in Inits : Installing(j)' <=> Installing(j) BY DEF Installing
<1>2. \A j \in Inits : Installing(j) => j # i /\ k'[j] = k[j] BY DEF Installing
<1>3. \A s \in Slots : global'[s] # NoInit =>
        /\ global'[s] \in Inits
        /\ pc'[global'[s]] \in {"install", "done"}
        /\ result'[global'[s]] \in {"live", "noop"}
  <2> SUFFICES ASSUME NEW s \in Slots, global[s] # NoInit
               PROVE /\ global[s] \in Inits
                     /\ pc'[global[s]] \in {"install", "done"}
                     /\ result'[global[s]] \in {"live", "noop"}
    OBVIOUS
  <2>1. /\ global[s] \in Inits
        /\ pc[global[s]] \in {"install", "done"}
        /\ result[global[s]] \in {"live", "noop"}
    BY DEF InvGlobal
  <2>2. CASE global[s] = i BY <2>1, <2>2
  <2>3. CASE global[s] # i BY <2>1, <2>3
  <2> QED BY <2>2, <2>3
<1>4. ~torn' => \A j, l \in Inits : Installing(j)' /\ Installing(l)' => j = l
  BY <1>1 DEF InvGlobal
<1>5. ~torn' => \A j \in Inits : Installing(j)' => \A m, n \in 1..4 :
        /\ m < k'[j] => global'[SlotOrder[m]] = j
        /\ m >= k'[j] /\ n >= k'[j] => global'[SlotOrder[m]] = global'[SlotOrder[n]]
  BY <1>1, <1>2 DEF InvGlobal
<1>6. ~torn' /\ (\A j \in Inits : ~Installing(j)') =>
        \A m, n \in 1..4 : global'[SlotOrder[m]] = global'[SlotOrder[n]]
  BY <1>1 DEF InvGlobal
<1> QED BY <1>3, <1>4, <1>5, <1>6 DEF InvGlobal

\* A step of a call that is building disturbs no provider: the order in which
\* providers stop is kept.
LEMMA OrderKept ==
  ASSUME IInv, NEW i \in Inits, provider' = provider,
         \A j \in Inits \ {i} : pc'[j] = pc[j],
         pc[i] \notin {"unwind", "install", "done"}
  PROVE InvOrder'
<1> SUFFICES ASSUME NEW j \in Inits PROVE OrderOf(j)' BY DEF InvOrder
<1>1. OrderOf(j) BY DEF IInv, InvOrder
<1>2. CASE j = i BY <1>1, <1>2 DEF OrderOf
<1>3. CASE j # i
  <2>1. pc'[j] = pc[j] BY <1>3
  <2> QED BY <1>1, <2>1 DEF OrderOf
<1> QED BY <1>2, <1>3

\* The list of a call stays what runs as long as both stay,
LEMMA StopsKept ==
  ASSUME IInv, NEW i \in Inits, provider' = provider, stops' = stops,
         \A j \in Inits \ {i} : pc'[j] = pc[j],
         pc[i] \in {"unwind", "install", "done"} <=> pc'[i] \in {"unwind", "install", "done"}
  PROVE  InvStops'
<1> SUFFICES ASSUME NEW j \in Inits PROVE StopsOf(j)' BY DEF InvStops
<1>1. StopsOf(j) BY DEF IInv, InvStops
<1>2. pc[j] \in {"unwind", "install", "done"} <=> pc'[j] \in {"unwind", "install", "done"}
  OBVIOUS
<1>3. Running(j)' = Running(j) BY DEF Running
<1> QED BY <1>1, <1>2, <1>3 DEF StopsOf

\* and when the call gets the list of its exit, or of its handle, if that is what runs.
LEMMA StopsGiven ==
  ASSUME IInv, NEW i \in Inits, provider' = provider,
         \A j \in Inits \ {i} : pc'[j] = pc[j] /\ stops'[j] = stops[j],
         pc'[i] \in {"unwind", "install", "done"}, Runs(Running(i), stops'[i])
  PROVE  InvStops'
<1> SUFFICES ASSUME NEW j \in Inits PROVE StopsOf(j)' BY DEF InvStops
<1>1. Running(j)' = Running(j) BY DEF Running
<1>2. CASE j = i BY <1>1, <1>2 DEF StopsOf
<1>3. CASE j # i
  <2>1. StopsOf(j) BY DEF IInv, InvStops
  <2>2. pc'[j] = pc[j] /\ stops'[j] = stops[j] BY <1>3
  <2> QED BY <1>1, <2>1, <2>2 DEF StopsOf
<1> QED BY <1>2, <1>3

\* What runs when the call fails at its signals, or after them.
LEMMA RunsAt ==
  ASSUME IInv, NEW i \in Inits
  PROVE  /\ pc[i] \in {"idle", "config", "resource", "dial"} => Runs(Running(i), <<>>)
         /\ pc[i] = "exporter" => Runs(Running(i), ExporterExit(Sig(i)).stops)
         /\ pc[i] = "instruments" => Runs(Running(i), FromLogs)
<1>1. StageOf(i) BY DEF IInv, InvStage
<1>2. /\ 1 \in Positions /\ 2 \in Positions /\ 3 \in Positions
      /\ k[i] \in Positions => k[i] = 1 \/ k[i] = 2 \/ k[i] = 3
  BY DEF Positions
<1>3. \A s \in Signals : s \in Running(i) <=> provider[i][s] = "running" BY DEF Running
<1>4. "traces" \in Signals /\ "metrics" \in Signals /\ "logs" \in Signals BY Order
<1>5. ASSUME pc[i] \in {"idle", "config", "resource", "dial"}
      PROVE  Runs(Running(i), <<>>)
  <2>1. \A n \in Positions : provider[i][BuildOrder[n]] = "none"
    BY <1>1, <1>5 DEF StageOf, Empty
  <2>2. \A s \in Signals : s \notin Running(i) BY <1>3, <2>1, Order
  <2> QED BY <1>4, <2>2, Lists DEF Runs
<1>6. ASSUME pc[i] = "exporter"
      PROVE  Runs(Running(i), ExporterExit(Sig(i)).stops)
  <2>1. /\ k[i] \in Positions
        /\ \A n \in Positions :
             /\ n < k[i] => provider[i][BuildOrder[n]] = "running"
             /\ n >= k[i] => provider[i][BuildOrder[n]] = "none"
    BY <1>1, <1>6 DEF StageOf, Empty, Positions
  <2>2. CASE k[i] = 1
    <3>1. Sig(i) = "traces" BY <2>2, Order DEF Sig
    <3>2. \A s \in Signals : s \notin Running(i) BY <1>2, <1>3, <2>1, <2>2, Order
    <3> QED BY <1>4, <3>1, <3>2, Exits, Lists DEF Runs, ExporterExit
  <2>3. CASE k[i] = 2
    <3>1. Sig(i) = "metrics" BY <2>3, Order DEF Sig
    <3>2. "traces" \in Running(i) /\ "metrics" \notin Running(i) /\ "logs" \notin Running(i)
      BY <1>2, <1>3, <1>4, <2>1, <2>3, Order
    <3>3. ExporterExit("metrics") = MetricExit BY DEF ExporterExit
    <3> QED BY <3>1, <3>2, <3>3, Exits, Lists DEF Runs
  <2>4. CASE k[i] = 3
    <3>1. Sig(i) = "logs" BY <2>4, Order DEF Sig
    <3>2. "traces" \in Running(i) /\ "metrics" \in Running(i) /\ "logs" \notin Running(i)
      BY <1>2, <1>3, <1>4, <2>1, <2>4, Order
    <3>3. ExporterExit("logs") = LogExit BY DEF ExporterExit
    <3> QED BY <3>1, <3>2, <3>3, Exits, Lists DEF Runs
  <2> QED BY <1>2, <2>1, <2>2, <2>3, <2>4
<1>7. ASSUME pc[i] = "instruments" PROVE Runs(Running(i), FromLogs)
  <2>1. \A n \in Positions : provider[i][BuildOrder[n]] = "running"
    BY <1>1, <1>7 DEF StageOf
  <2>2. \A s \in Signals : s \in Running(i) BY <1>3, <2>1, Order
  <2> QED BY <1>4, <2>2 DEF Runs
<1> QED BY <1>5, <1>6, <1>7

\* An exit that an exporter leads to has a list, and falls back.
LEMMA ExporterExits ==
  \A s \in Signals :
    /\ ExporterExit(s).stops \in Seq(Signals)
    /\ ExporterExit(s).result = "noop"
<1> TAKE s \in Signals
<1>1. CASE s = "traces"
  <2>1. ExporterExit(s) = TraceExit BY <1>1 DEF ExporterExit
  <2> QED BY <2>1, Exits, Lists
<1>2. CASE s = "metrics"
  <2>1. ExporterExit(s) = MetricExit BY <1>2 DEF ExporterExit
  <2> QED BY <2>1, Exits, Lists
<1>3. CASE s = "logs"
  <2>1. ExporterExit(s) = LogExit BY <1>3 DEF ExporterExit
  <2> QED BY <2>1, Exits, Lists
<1> QED BY <1>1, <1>2, <1>3, Order

\* The next on the list runs, and with it gone the rest of the list does.
LEMMA NextStops ==
  ASSUME IInv, NEW i \in Inits, StopNext(i), pc[i] \in {"unwind", "install", "done"}
  PROVE  /\ stops'[i] \in Seq(Signals)
         /\ stops' = [stops EXCEPT ![i] = stops'[i]]
         /\ \E s \in Signals :
              /\ provider[i][s] = "running"
              /\ provider' = [provider EXCEPT ![i][s] = "stopped"]
              /\ exporter' = [exporter EXCEPT ![i][s] = "closed"]
              /\ dev' = [dev EXCEPT ![i][s] = IF @ = "open" THEN "closed" ELSE @]
              /\ \A m, n \in Positions :
                   BuildOrder[n] = s /\ m > n => provider[i][BuildOrder[m]] # "running"
         /\ pc' = pc => InvStops'
<1>1. Runs(Running(i), stops[i]) BY DEF IInv, InvStops, StopsOf
<1>2. /\ stops \in [Inits -> Seq(Signals)]
      /\ provider \in [Inits -> [Signals -> {"none", "running", "stopped"}]]
  BY DEF IInv, TypeOK
<1>3. PICK list, s : list = stops[i] /\ s = Head(list) OBVIOUS
<1>4. list \in {FromTraces, FromMetrics, FromLogs} BY <1>1, <1>3 DEF Runs, StopNext
<1>5. /\ list = FromTraces => s = "traces" /\ Tail(list) = <<>>
      /\ list = FromMetrics => s = "metrics" /\ Tail(list) = FromTraces
      /\ list = FromLogs => s = "logs" /\ Tail(list) = FromMetrics
  BY <1>3, Lists
<1>6. s \in Signals BY <1>4, <1>5, Order
<1>7. s \in Running(i) BY <1>1, <1>3, <1>4, <1>5 DEF Runs
<1>8. /\ provider' = [provider EXCEPT ![i][s] = "stopped"]
      /\ exporter' = [exporter EXCEPT ![i][s] = "closed"]
      /\ dev' = [dev EXCEPT ![i][s] = IF @ = "open" THEN "closed" ELSE @]
      /\ stops' = [stops EXCEPT ![i] = Tail(list)]
  BY <1>3 DEF StopNext
<1>9. stops'[i] = Tail(list) /\ Tail(list) \in Seq(Signals)
  BY <1>2, <1>4, <1>5, <1>8, Lists
<1>10. Running(i)' = Running(i) \ {s} BY <1>2, <1>6, <1>8 DEF Running
<1>11. Runs(Running(i)', stops'[i])
  <2>1. CASE list = FromTraces
    BY <1>1, <1>3, <1>5, <1>9, <1>10, <2>1, Lists DEF Runs
  <2>2. CASE list = FromMetrics
    BY <1>1, <1>3, <1>5, <1>9, <1>10, <2>2, Lists DEF Runs
  <2>3. CASE list = FromLogs
    BY <1>1, <1>3, <1>5, <1>9, <1>10, <2>3, Lists DEF Runs
  <2> QED BY <1>4, <2>1, <2>2, <2>3
<1>12. ASSUME pc' = pc PROVE InvStops'
  <2> SUFFICES ASSUME NEW j \in Inits PROVE StopsOf(j)' BY DEF InvStops
  <2>1. CASE j = i BY <1>11, <1>12, <2>1 DEF StopsOf
  <2>2. CASE j # i
    <3>1. StopsOf(j) BY DEF IInv, InvStops
    <3>2. stops'[j] = stops[j] /\ provider'[j] = provider[j] BY <1>2, <1>8, <2>2
    <3>3. Running(j)' = Running(j) BY <3>2 DEF Running
    <3> QED BY <1>12, <3>1, <3>2, <3>3 DEF StopsOf
  <2> QED BY <2>1, <2>2
<1>13. ASSUME NEW m \in Positions, NEW n \in Positions, BuildOrder[n] = s, m > n
       PROVE  provider[i][BuildOrder[m]] # "running"
  <2>1. /\ n = 1 => s = "traces"
        /\ n = 2 => s = "metrics"
        /\ n = 3 => s = "logs"
    BY <1>13, Order
  <2>2. (n = 1 /\ (m = 2 \/ m = 3)) \/ (n = 2 /\ m = 3) BY <1>13 DEF Positions
  <2>3. BuildOrder[m] \in Signals BY Order
  <2>4. BuildOrder[m] \notin Running(i)
    <3>1. CASE n = 1 /\ m = 2
      <4>1. list = FromTraces BY <1>4, <1>5, <1>13, <3>1, Order
      <4> QED BY <1>1, <1>3, <3>1, <4>1, Order, Lists DEF Runs
    <3>2. CASE n = 1 /\ m = 3
      <4>1. list = FromTraces BY <1>4, <1>5, <1>13, <3>2, Order
      <4> QED BY <1>1, <1>3, <3>2, <4>1, Order, Lists DEF Runs
    <3>3. CASE n = 2 /\ m = 3
      <4>1. list = FromMetrics BY <1>4, <1>5, <1>13, <3>3, Order
      <4> QED BY <1>1, <1>3, <3>3, <4>1, Order, Lists DEF Runs
    <3> QED BY <2>2, <3>1, <3>2, <3>3
  <2> QED BY <2>3, <2>4 DEF Running
<1> QED BY <1>6, <1>7, <1>8, <1>9, <1>12, <1>13 DEF Running

\* One lemma per action: it preserves the invariant, conjunct by conjunct.
LEMMA CallInitInv ==
  ASSUME IInv, NEW i \in Inits, CallInit(i)
  PROVE IInv'
<1> USE Order DEF IInv, TypeOK, CallInit, Goto, callVars
<1>1. TypeOK'
  <2>1. pc' \in [Inits -> PCs]
    <3>1. CASE opts[i].enabled BY <3>1 DEF PCs
    <3>2. CASE ~opts[i].enabled BY <3>2 DEF PCs
    <3> QED BY <3>1, <3>2
  <2>2. k' \in [Inits -> 1..4] OBVIOUS
  <2> QED BY <2>1, <2>2
<1>2. InvStage' BY DEF InvStage, StageOf, Empty
<1>3. InvResult' BY DEF InvResult, ResultOf
<1>4. InvOwned' BY DEF InvOwned, OwnedBy, Open, Sig
<1>5. InvOrder'
  <2>1. pc[i] \notin {"unwind", "install", "done"} OBVIOUS
  <2> QED BY <2>1 DEF InvOrder, OrderOf
<1>6. InvReason' BY DEF InvReason, ReasonOf
<1>7. InvGlobal'
  <2>1. ~Installing(i) /\ ~Installing(i)'
    BY DEF Installing, InvStage, StageOf
  <2>2. pc[i] \in {"install", "done"} =>
          pc'[i] \in {"install", "done"} /\ result'[i] = result[i]
    OBVIOUS
  <2> QED BY <2>1, <2>2, GlobalKept
<1>8. InvStops'
  <2>1. provider' = provider /\ stops' = stops /\ \A j \in Inits \ {i} : pc'[j] = pc[j]
    OBVIOUS
  <2>2. pc[i] \in {"unwind", "install", "done"} <=> pc'[i] \in {"unwind", "install", "done"}
    OBVIOUS
  <2> QED BY <2>1, <2>2, StopsKept
<1> QED BY <1>1, <1>2, <1>3, <1>4, <1>5, <1>6, <1>7, <1>8

LEMMA ResolveConfigInv ==
  ASSUME IInv, NEW i \in Inits, ResolveConfig(i)
  PROVE IInv'
<1>9. /\ OptionsExit.stops = <<>> /\ OptionsExit.result = "error" /\ <<>> \in Seq(Signals)
      /\ {"resource", "unwind"} \subseteq PCs
  BY Exits, Lists DEF PCs
<1>10. \/ /\ opts[i].configOK /\ pc' = [pc EXCEPT ![i] = "resource"]
          /\ result' = result /\ stops' = stops
       \/ /\ ~opts[i].configOK /\ pc' = [pc EXCEPT ![i] = "unwind"]
          /\ result' = [result EXCEPT ![i] = "error"] /\ stops' = [stops EXCEPT ![i] = <<>>]
  BY <1>9 DEF ResolveConfig, Fail, Goto
<1>11. /\ pc[i] = "config"
       /\ UNCHANGED <<opts, k, exporter, dev, provider, outage, global, torn>>
  BY DEF ResolveConfig, Fail, Goto
<1> USE Order, <1>11 DEF IInv, TypeOK
<1>12. PICK to, res, st :
         /\ pc' = [pc EXCEPT ![i] = to] /\ to \in {"resource", "unwind"}
         /\ result' = [result EXCEPT ![i] = res] /\ res \in {"none", "error"}
         /\ stops' = [stops EXCEPT ![i] = st] /\ st \in Seq(Signals)
  <2>1. result[i] = "none" BY DEF InvResult, ResultOf
  <2>2. result = [result EXCEPT ![i] = "none"] /\ stops = [stops EXCEPT ![i] = stops[i]]
    BY <2>1
  <2>3. CASE opts[i].configOK
    <3>1. pc' = [pc EXCEPT ![i] = "resource"] /\ result' = result /\ stops' = stops
      BY <1>10, <2>3
    <3>2. stops[i] \in Seq(Signals) OBVIOUS
    <3> HIDE DEF IInv, TypeOK
    <3> QED BY <2>2, <3>1, <3>2
  <2>4. CASE ~opts[i].configOK
    <3>1. /\ pc' = [pc EXCEPT ![i] = "unwind"] /\ result' = [result EXCEPT ![i] = "error"]
          /\ stops' = [stops EXCEPT ![i] = <<>>]
      BY <1>10, <2>4
    <3> HIDE DEF IInv, TypeOK
    <3> QED BY <1>9, <3>1
  <2> QED BY <2>3, <2>4
<1>1. TypeOK' BY <1>9, <1>12
<1>2. InvStage' BY <1>10 DEF InvStage, StageOf, Empty
<1>3. InvResult' BY <1>10 DEF InvResult, ResultOf
<1>4. InvOwned'
  <2> SUFFICES ASSUME NEW j \in Inits PROVE OwnedBy(j)' BY DEF InvOwned
  <2>1. OwnedBy(j) BY DEF InvOwned
  <2>2. /\ \/ pc'[j] = pc[j] /\ result'[j] = result[j]
           \/ pc[j] = "config" /\ pc'[j] \in {"resource", "unwind"} /\ result'[j] # "live"
    BY <1>12
  <2> QED BY <2>1, <2>2 DEF OwnedBy, Open, Sig
<1>5. InvOrder'
  <2>1. \A j \in Inits \ {i} : pc'[j] = pc[j] BY <1>10
  <2> HIDE DEF IInv, TypeOK
  <2> QED BY <2>1, OrderKept
<1>6. InvReason' BY <1>10 DEF InvReason, ReasonOf, InvResult, ResultOf
<1>7. InvGlobal'
  <2>1. ~Installing(i) /\ ~Installing(i)' BY <1>10 DEF Installing
  <2>2. \A j \in Inits \ {i} : pc'[j] = pc[j] /\ result'[j] = result[j] BY <1>10
  <2> HIDE DEF IInv, TypeOK
  <2> QED BY <2>1, <2>2, GlobalKept
<1>8. InvStops'
  <2>1. CASE opts[i].configOK
    <3>1. stops' = stops /\ \A j \in Inits \ {i} : pc'[j] = pc[j] BY <1>10, <2>1
    <3>2. pc[i] \in {"unwind", "install", "done"} <=> pc'[i] \in {"unwind", "install", "done"}
      BY <1>10, <2>1
    <3> QED BY <3>1, <3>2, StopsKept
  <2>2. CASE ~opts[i].configOK
    <3>1. /\ pc'[i] = "unwind" /\ stops'[i] = <<>>
          /\ \A j \in Inits \ {i} : pc'[j] = pc[j] /\ stops'[j] = stops[j]
      BY <1>10, <2>2
    <3>2. Runs(Running(i), stops'[i]) BY <3>1, RunsAt
    <3> QED BY <3>1, <3>2, StopsGiven
  <2> QED BY <2>1, <2>2
<1> QED BY <1>1, <1>2, <1>3, <1>4, <1>5, <1>6, <1>7, <1>8

LEMMA BuildResourceInv ==
  ASSUME IInv, NEW i \in Inits, BuildResource(i)
  PROVE IInv'
<1> USE Order DEF IInv, TypeOK, BuildResource, Fail, Goto
<1>1. TypeOK'
  <2>1. pc' \in [Inits -> PCs]
    <3>1. CASE ~opts[i].resourceOK
      <4>1. pc' = [pc EXCEPT ![i] = "unwind"] BY <3>1
      <4> HIDE DEF BuildResource
      <4> QED BY <4>1 DEF PCs
    <3>2. CASE opts[i].resourceOK /\ opts[i].enabled
      <4>1. pc' = [pc EXCEPT ![i] = "dial"] BY <3>2
      <4> HIDE DEF BuildResource
      <4> QED BY <4>1 DEF PCs
    <3>3. CASE opts[i].resourceOK /\ ~opts[i].enabled
      <4>1. pc' = [pc EXCEPT ![i] = "install"] BY <3>3
      <4> HIDE DEF BuildResource
      <4> QED BY <4>1 DEF PCs
    <3> QED BY <3>1, <3>2, <3>3
  <2>3. result' \in [Inits -> {"none", "live", "noop", "error"}]
    <3>1. CASE ~opts[i].resourceOK
      <4>1. result' = [result EXCEPT ![i] = "error"] BY <3>1, Exits
      <4> HIDE DEF BuildResource
      <4> QED BY <4>1
    <3>2. CASE opts[i].resourceOK /\ opts[i].enabled BY <3>2
    <3>3. CASE opts[i].resourceOK /\ ~opts[i].enabled
      <4>1. result' = [result EXCEPT ![i] = "noop"] BY <3>3
      <4> HIDE DEF BuildResource
      <4> QED BY <4>1
    <3> QED BY <3>1, <3>2, <3>3
  <2>4. stops' \in [Inits -> Seq(Signals)]
    <3>1. CASE ~opts[i].resourceOK
      <4>1. stops' = [stops EXCEPT ![i] = <<>>] BY <3>1, Exits
      <4>2. <<>> \in Seq(Signals) BY Lists
      <4> HIDE DEF BuildResource
      <4> QED BY <4>1, <4>2
    <3>2. CASE opts[i].resourceOK BY <3>2
    <3> QED BY <3>1, <3>2
  <2>2. k' \in [Inits -> 1..4] OBVIOUS
  <2> QED BY <2>1, <2>2, <2>3, <2>4
<1>2. InvStage' BY DEF InvStage, StageOf, Empty
<1>3. InvResult'
  <2>1. CASE ~opts[i].resourceOK BY <2>1, Exits DEF InvResult, ResultOf
  <2>2. CASE opts[i].resourceOK /\ opts[i].enabled BY <2>2 DEF InvResult, ResultOf
  <2>3. CASE opts[i].resourceOK /\ ~opts[i].enabled BY <2>3 DEF InvResult, ResultOf
  <2> QED BY <2>1, <2>2, <2>3
<1>4. InvOwned'
  BY Exits DEF InvOwned, OwnedBy, Open, Sig, InvStage, StageOf, Empty, Positions,
         InvResult, ResultOf
<1>5. InvOrder'
  <2>1. pc[i] \notin {"unwind", "install", "done"} OBVIOUS
  <2>2. provider' = provider OBVIOUS
  <2>3. \A j \in Inits \ {i} : pc'[j] = pc[j] OBVIOUS
  <2> HIDE DEF IInv, TypeOK, BuildResource
  <2> QED BY <2>1, <2>2, <2>3, OrderKept
<1>6. InvReason' BY Exits DEF InvReason, ReasonOf
<1>7. InvGlobal'
  <2>1. ~Installing(i) /\ ~Installing(i)'
    BY DEF Installing, InvStage, StageOf
  <2>2. pc[i] \in {"install", "done"} =>
          pc'[i] \in {"install", "done"} /\ result'[i] = result[i]
    OBVIOUS
  <2> QED BY <2>1, <2>2, GlobalKept
<1>8. InvStops'
  <2>1. CASE opts[i].resourceOK /\ opts[i].enabled
    <3>1. /\ provider' = provider /\ stops' = stops
          /\ pc[i] = "resource" /\ pc' = [pc EXCEPT ![i] = "dial"]
      BY <2>1
    <3> HIDE DEF BuildResource
    <3>2. provider' = provider /\ stops' = stops /\ \A j \in Inits \ {i} : pc'[j] = pc[j]
      BY <3>1
    <3>3. pc[i] \in {"unwind", "install", "done"} <=> pc'[i] \in {"unwind", "install", "done"}
      BY <3>1
    <3> QED BY <3>2, <3>3, StopsKept
  <2>2. CASE ~(opts[i].resourceOK /\ opts[i].enabled)
    <3>1. pc[i] = "resource" /\ stops[i] = <<>>
      BY <2>2 DEF InvStops, StopsOf
    <3>2. /\ provider' = provider
          /\ stops' = [stops EXCEPT ![i] = <<>>]
          /\ pc' = [pc EXCEPT ![i] = IF opts[i].resourceOK THEN "install" ELSE "unwind"]
      BY <2>2, <3>1, Exits
    <3> HIDE DEF BuildResource
    <3>3. Runs(Running(i), stops'[i]) BY <3>1, <3>2, RunsAt
    <3> QED BY <3>2, <3>3, StopsGiven
  <2> QED BY <2>1, <2>2
<1> QED BY <1>1, <1>2, <1>3, <1>4, <1>5, <1>6, <1>7, <1>8

LEMMA DialReachableInv ==
  ASSUME IInv, NEW i \in Inits, DialReachable(i)
  PROVE IInv'
<1> USE Order DEF IInv, TypeOK, DialReachable, Last, Goto
<1>1. TypeOK'
  <2>1. pc' \in [Inits -> PCs] BY DEF PCs
  <2>2. k' \in [Inits -> 1..4]
    <3>1. k[i] \in 1..3 BY DEF InvStage, StageOf, Positions
    <3>2. (IF Last(i) THEN 1 ELSE k[i] + 1) \in 1..4 BY <3>1
    <3> HIDE DEF Last
    <3> QED BY <3>2
  <2> QED BY <2>1, <2>2
<1>2. InvStage' BY DEF InvStage, StageOf, Empty
<1>3. InvResult' BY DEF InvResult, ResultOf
<1>4. InvOwned' BY DEF InvOwned, OwnedBy, Open, Sig
<1>5. InvOrder' BY DEF InvOrder, OrderOf
<1>6. InvReason' BY DEF InvReason, ReasonOf
<1>7. InvGlobal'
  <2>1. ~Installing(i) /\ ~Installing(i)'
    BY DEF Installing, InvStage, StageOf
  <2>2. pc[i] \in {"install", "done"} =>
          pc'[i] \in {"install", "done"} /\ result'[i] = result[i]
    OBVIOUS
  <2> QED BY <2>1, <2>2, GlobalKept
<1>8. InvStops'
  <2>1. provider' = provider /\ stops' = stops /\ \A j \in Inits \ {i} : pc'[j] = pc[j]
    OBVIOUS
  <2>2. pc[i] \in {"unwind", "install", "done"} <=> pc'[i] \in {"unwind", "install", "done"}
    OBVIOUS
  <2> QED BY <2>1, <2>2, StopsKept
<1> QED BY <1>1, <1>2, <1>3, <1>4, <1>5, <1>6, <1>7, <1>8

LEMMA DialUnreachableInv ==
  ASSUME IInv, NEW i \in Inits, DialUnreachable(i)
  PROVE IInv'
<1> USE Order DEF IInv, TypeOK, DialUnreachable, AfterDialFailure, Goto
<1>9. DialExit.stops = <<>> /\ DialExit.result = "noop" /\ <<>> \in Seq(Signals)
  BY Exits, Lists
<1>1. TypeOK'
  <2>1. pc' \in [Inits -> PCs] BY DEF PCs
  <2>2. k' \in [Inits -> 1..4] OBVIOUS
  <2> QED BY <1>9, <2>1, <2>2
<1>2. InvStage' BY DEF InvStage, StageOf, Empty
<1>3. InvResult' BY <1>9 DEF InvResult, ResultOf
<1>4. InvOwned' BY <1>9 DEF InvOwned, OwnedBy, Open, Sig
<1>5. InvOrder' BY DEF InvOrder, OrderOf
<1>6. InvReason' BY <1>9 DEF InvReason, ReasonOf
<1>7. InvGlobal'
  <2>1. ~Installing(i) /\ ~Installing(i)'
    BY DEF Installing, InvStage, StageOf
  <2>2. pc[i] \in {"install", "done"} =>
          pc'[i] \in {"install", "done"} /\ result'[i] = result[i]
    OBVIOUS
  <2> QED BY <2>1, <2>2, GlobalKept
<1>8. InvStops'
  <2>1. /\ provider' = provider /\ stops' = [stops EXCEPT ![i] = <<>>]
        /\ pc[i] = "dial" /\ pc' = [pc EXCEPT ![i] = "unwind"]
    BY <1>9
  <2> HIDE DEF DialUnreachable
  <2>2. Runs(Running(i), stops'[i]) BY <2>1, RunsAt
  <2> QED BY <2>1, <2>2, StopsGiven
<1> QED BY <1>1, <1>2, <1>3, <1>4, <1>5, <1>6, <1>7, <1>8

LEMMA NewExporterInv ==
  ASSUME IInv, NEW i \in Inits, NewExporter(i)
  PROVE IInv'
<1> USE Order DEF IInv, TypeOK, NewExporter, Goto
<1>1. TypeOK'
  <2>1. pc' \in [Inits -> PCs] BY DEF PCs
  <2>2. k' \in [Inits -> 1..4] OBVIOUS
  <2> QED BY <2>1, <2>2
<1>2. InvStage' BY DEF InvStage, StageOf, Empty, Positions, Sig
<1>3. InvResult' BY DEF InvResult, ResultOf
<1>4. InvOwned' BY DEF InvOwned, OwnedBy, Open, Sig
<1>5. InvOrder' BY DEF InvOrder, OrderOf
<1>6. InvReason' BY DEF InvReason, ReasonOf
<1>7. InvGlobal'
  <2>1. ~Installing(i) /\ ~Installing(i)'
    BY DEF Installing, InvStage, StageOf
  <2>2. pc[i] \in {"install", "done"} =>
          pc'[i] \in {"install", "done"} /\ result'[i] = result[i]
    OBVIOUS
  <2> QED BY <2>1, <2>2, GlobalKept
<1>8. InvStops'
  <2>1. provider' = provider /\ stops' = stops /\ \A j \in Inits \ {i} : pc'[j] = pc[j]
    OBVIOUS
  <2>2. pc[i] \in {"unwind", "install", "done"} <=> pc'[i] \in {"unwind", "install", "done"}
    OBVIOUS
  <2> QED BY <2>1, <2>2, StopsKept
<1> QED BY <1>1, <1>2, <1>3, <1>4, <1>5, <1>6, <1>7, <1>8

LEMMA NewExporterFailsInv ==
  ASSUME IInv, NEW i \in Inits, NewExporterFails(i)
  PROVE IInv'
<1> USE Order DEF IInv, TypeOK, NewExporterFails, Fail, Goto
<1>9. PICK exit :
        /\ exit = ExporterExit(Sig(i))
        /\ exit.stops \in Seq(Signals) /\ exit.result = "noop"
  <2>1. Sig(i) \in Signals BY DEF InvStage, StageOf, Sig
  <2> QED BY <2>1, ExporterExits
<1>1. TypeOK'
  <2>1. pc' \in [Inits -> PCs] BY DEF PCs
  <2>2. k' \in [Inits -> 1..4] OBVIOUS
  <2> QED BY <1>9, <2>1, <2>2
<1>2. InvStage' BY DEF InvStage, StageOf, Empty
<1>3. InvResult' BY <1>9 DEF InvResult, ResultOf
<1>4. InvOwned' BY <1>9 DEF InvOwned, OwnedBy, Open, Sig
<1>5. InvOrder' BY DEF InvOrder, OrderOf
<1>6. InvReason' BY <1>9 DEF InvReason, ReasonOf
<1>7. InvGlobal'
  <2>1. ~Installing(i) /\ ~Installing(i)'
    BY DEF Installing, InvStage, StageOf
  <2>2. pc[i] \in {"install", "done"} =>
          pc'[i] \in {"install", "done"} /\ result'[i] = result[i]
    OBVIOUS
  <2> QED BY <2>1, <2>2, GlobalKept
<1>8. InvStops'
  <2>1. /\ provider' = provider /\ stops' = [stops EXCEPT ![i] = exit.stops]
        /\ pc[i] = "exporter" /\ pc' = [pc EXCEPT ![i] = "unwind"]
    BY <1>9
  <2> HIDE DEF NewExporterFails
  <2>2. Runs(Running(i), stops'[i]) BY <1>9, <2>1, RunsAt
  <2> QED BY <2>1, <2>2, StopsGiven
<1> QED BY <1>1, <1>2, <1>3, <1>4, <1>5, <1>6, <1>7, <1>8

LEMMA DevSinkReachableInv ==
  ASSUME IInv, NEW i \in Inits, DevSinkReachable(i)
  PROVE IInv'
<1> USE Order DEF IInv, TypeOK, DevSinkReachable, Goto, callVars
<1>1. TypeOK'
  <2>1. pc' \in [Inits -> PCs] BY DEF PCs
  <2>2. k' \in [Inits -> 1..4] OBVIOUS
  <2> QED BY <2>1, <2>2
<1>2. InvStage' BY DEF InvStage, StageOf, Empty
<1>3. InvResult' BY DEF InvResult, ResultOf
<1>4. InvOwned' BY DEF InvOwned, OwnedBy, Open, Sig
<1>5. InvOrder' BY DEF InvOrder, OrderOf
<1>6. InvReason' BY DEF InvReason, ReasonOf
<1>7. InvGlobal'
  <2>1. ~Installing(i) /\ ~Installing(i)'
    BY DEF Installing, InvStage, StageOf
  <2>2. pc[i] \in {"install", "done"} =>
          pc'[i] \in {"install", "done"} /\ result'[i] = result[i]
    OBVIOUS
  <2> QED BY <2>1, <2>2, GlobalKept
<1>8. InvStops'
  <2>1. provider' = provider /\ stops' = stops /\ \A j \in Inits \ {i} : pc'[j] = pc[j]
    OBVIOUS
  <2>2. pc[i] \in {"unwind", "install", "done"} <=> pc'[i] \in {"unwind", "install", "done"}
    OBVIOUS
  <2> QED BY <2>1, <2>2, StopsKept
<1> QED BY <1>1, <1>2, <1>3, <1>4, <1>5, <1>6, <1>7, <1>8

LEMMA DevSinkMissingInv ==
  ASSUME IInv, NEW i \in Inits, DevSinkMissing(i)
  PROVE IInv'
<1> USE Order DEF IInv, TypeOK, DevSinkMissing, AfterDevFailure
<1>1. TypeOK'
  <2>1. pc' \in [Inits -> PCs] BY DEF PCs
  <2>2. k' \in [Inits -> 1..4] OBVIOUS
  <2> QED BY <2>1, <2>2
<1>2. InvStage' BY DEF InvStage, StageOf, Empty
<1>3. InvResult' BY DEF InvResult, ResultOf
<1>4. InvOwned' BY DEF InvOwned, OwnedBy, Open, Sig
<1>5. InvOrder' BY DEF InvOrder, OrderOf
<1>6. InvReason' BY DEF InvReason, ReasonOf
<1>7. InvGlobal'
  <2>1. ~Installing(i) /\ ~Installing(i)'
    BY DEF Installing, InvStage, StageOf
  <2>2. pc[i] \in {"install", "done"} =>
          pc'[i] \in {"install", "done"} /\ result'[i] = result[i]
    OBVIOUS
  <2> QED BY <2>1, <2>2, GlobalKept
<1>8. InvStops'
  <2>1. provider' = provider /\ stops' = stops /\ \A j \in Inits \ {i} : pc'[j] = pc[j]
    OBVIOUS
  <2>2. pc[i] \in {"unwind", "install", "done"} <=> pc'[i] \in {"unwind", "install", "done"}
    OBVIOUS
  <2> QED BY <2>1, <2>2, StopsKept
<1> QED BY <1>1, <1>2, <1>3, <1>4, <1>5, <1>6, <1>7, <1>8

LEMMA NewDevExporterInv ==
  ASSUME IInv, NEW i \in Inits, NewDevExporter(i)
  PROVE IInv'
<1> USE Order DEF IInv, TypeOK, NewDevExporter, Goto
<1>1. TypeOK'
  <2>1. pc' \in [Inits -> PCs] BY DEF PCs
  <2>2. k' \in [Inits -> 1..4] OBVIOUS
  <2> QED BY <2>1, <2>2
<1>2. InvStage' BY DEF InvStage, StageOf, Empty, Positions, Sig
<1>3. InvResult' BY DEF InvResult, ResultOf
<1>4. InvOwned' BY DEF InvOwned, OwnedBy, Open, Sig
<1>5. InvOrder' BY DEF InvOrder, OrderOf
<1>6. InvReason' BY DEF InvReason, ReasonOf
<1>7. InvGlobal'
  <2>1. ~Installing(i) /\ ~Installing(i)'
    BY DEF Installing, InvStage, StageOf
  <2>2. pc[i] \in {"install", "done"} =>
          pc'[i] \in {"install", "done"} /\ result'[i] = result[i]
    OBVIOUS
  <2> QED BY <2>1, <2>2, GlobalKept
<1>8. InvStops'
  <2>1. provider' = provider /\ stops' = stops /\ \A j \in Inits \ {i} : pc'[j] = pc[j]
    OBVIOUS
  <2>2. pc[i] \in {"unwind", "install", "done"} <=> pc'[i] \in {"unwind", "install", "done"}
    OBVIOUS
  <2> QED BY <2>1, <2>2, StopsKept
<1> QED BY <1>1, <1>2, <1>3, <1>4, <1>5, <1>6, <1>7, <1>8

LEMMA NewProviderInv ==
  ASSUME IInv, NEW i \in Inits, NewProvider(i)
  PROVE IInv'
<1> USE Order DEF IInv, TypeOK, NewProvider, Last, Goto
<1>1. TypeOK'
  <2>1. pc' \in [Inits -> PCs] BY DEF PCs
  <2>2. k' \in [Inits -> 1..4]
    <3>1. k[i] \in 1..3 BY DEF InvStage, StageOf, Positions
    <3>2. PICK n : n = IF Last(i) THEN k[i] ELSE k[i] + 1 OBVIOUS
    <3>3. n \in 1..4 BY <3>1, <3>2
    <3>4. k' = [k EXCEPT ![i] = n] BY <3>2
    <3> HIDE DEF NewProvider
    <3> QED BY <3>3, <3>4
  <2> QED BY <2>1, <2>2
<1>2. InvStage' BY DEF InvStage, StageOf, Empty, Positions, Sig
<1>3. InvResult' BY DEF InvResult, ResultOf
<1>4. InvOwned' BY DEF InvOwned, OwnedBy, Open, Sig
<1>5. InvOrder' BY DEF InvOrder, OrderOf
<1>6. InvReason' BY DEF InvReason, ReasonOf
<1>7. InvGlobal'
  <2>1. ~Installing(i) /\ ~Installing(i)'
    BY DEF Installing, InvStage, StageOf
  <2>2. pc[i] \in {"install", "done"} =>
          pc'[i] \in {"install", "done"} /\ result'[i] = result[i]
    OBVIOUS
  <2> QED BY <2>1, <2>2, GlobalKept
<1>8. InvStops'
  <2>1. /\ stops' = stops /\ pc[i] = "provider" /\ pc'[i] \in {"instruments", "exporter"}
        /\ \A j \in Inits \ {i} : pc'[j] = pc[j] /\ provider'[j] = provider[j]
    OBVIOUS
  <2> SUFFICES ASSUME NEW j \in Inits PROVE StopsOf(j)' BY DEF InvStops
  <2>2. StopsOf(j) BY DEF InvStops
  <2> HIDE DEF IInv, TypeOK, NewProvider
  <2>3. CASE j = i BY <2>1, <2>2, <2>3 DEF StopsOf
  <2>4. CASE j # i
    <3>1. Running(j)' = Running(j) BY <2>1, <2>4 DEF Running
    <3> QED BY <2>1, <2>2, <2>4, <3>1 DEF StopsOf
  <2> QED BY <2>3, <2>4
<1> QED BY <1>1, <1>2, <1>3, <1>4, <1>5, <1>6, <1>7, <1>8

LEMMA NewInstrumentsInv ==
  ASSUME IInv, NEW i \in Inits, NewInstruments(i)
  PROVE IInv'
<1>9. /\ InstrumentExit.stops = FromLogs /\ Hooks = FromLogs
      /\ InstrumentExit.result = "error" /\ FromLogs \in Seq(Signals)
      /\ {"install", "unwind"} \subseteq PCs
  BY Exits, Lists DEF PCs
<1>10. \/ /\ opts[i].instrumentsOK /\ pc' = [pc EXCEPT ![i] = "install"]
          /\ result' = [result EXCEPT ![i] = "live"] /\ k' = [k EXCEPT ![i] = 1]
       \/ /\ ~opts[i].instrumentsOK /\ pc' = [pc EXCEPT ![i] = "unwind"]
          /\ result' = [result EXCEPT ![i] = "error"] /\ k' = k
  BY <1>9 DEF NewInstruments, Fail, Goto
<1>11. /\ pc[i] = "instruments" /\ stops' = [stops EXCEPT ![i] = FromLogs]
       /\ UNCHANGED <<opts, exporter, dev, provider, outage, global, torn>>
  BY <1>9 DEF NewInstruments, Fail, Goto
<1> USE Order, <1>11 DEF IInv, TypeOK
<1>12. PICK to, res, n :
         /\ pc' = [pc EXCEPT ![i] = to] /\ to \in {"install", "unwind"}
         /\ result' = [result EXCEPT ![i] = res] /\ res \in {"live", "error"}
         /\ k' = [k EXCEPT ![i] = n] /\ n \in 1..4
  <2>1. k = [k EXCEPT ![i] = k[i]] /\ k[i] \in 1..4 OBVIOUS
  <2> QED BY <1>10, <2>1
<1>1. TypeOK' BY <1>9, <1>12
<1>2. InvStage' BY <1>10 DEF InvStage, StageOf, Empty
<1>3. InvResult' BY <1>10 DEF InvResult, ResultOf
<1>4. InvOwned'
  BY <1>10 DEF InvOwned, OwnedBy, Open, Sig, InvStage, StageOf, Empty, Positions,
               InvResult, ResultOf
<1>5. InvOrder'
  <2>1. \A j \in Inits \ {i} : pc'[j] = pc[j] BY <1>10
  <2> HIDE DEF IInv, TypeOK
  <2> QED BY <2>1, OrderKept
<1>6. InvReason' BY <1>10 DEF InvReason, ReasonOf, InvResult, ResultOf
<1>7. InvGlobal'
  <2>1. ~Installing(i) /\ ~Installing(i)' BY <1>10 DEF Installing
  <2>2. \A j \in Inits \ {i} : pc'[j] = pc[j] /\ k'[j] = k[j] /\ result'[j] = result[j]
    BY <1>10
  <2> HIDE DEF IInv, TypeOK
  <2> QED BY <2>1, <2>2, GlobalKept
<1>8. InvStops'
  <2>1. /\ pc'[i] \in {"install", "unwind"} /\ stops'[i] = FromLogs
        /\ \A j \in Inits \ {i} : pc'[j] = pc[j] /\ stops'[j] = stops[j]
    BY <1>10
  <2>2. Runs(Running(i), stops'[i]) BY <2>1, RunsAt
  <2> QED BY <2>1, <2>2, StopsGiven
<1> QED BY <1>1, <1>2, <1>3, <1>4, <1>5, <1>6, <1>7, <1>8

LEMMA UnwindInv ==
  ASSUME IInv, NEW i \in Inits, Unwind(i)
  PROVE IInv'
<1> USE Order DEF IInv, TypeOK, Unwind
<1>9. /\ stops'[i] \in Seq(Signals) /\ stops' = [stops EXCEPT ![i] = stops'[i]]
      /\ pc[i] = "unwind" /\ pc' = pc /\ InvStops'
  BY NextStops DEF Unwind
<1>10. PICK s \in Signals :
         /\ provider[i][s] = "running"
         /\ provider' = [provider EXCEPT ![i][s] = "stopped"]
         /\ exporter' = [exporter EXCEPT ![i][s] = "closed"]
         /\ dev' = [dev EXCEPT ![i][s] = IF @ = "open" THEN "closed" ELSE @]
         /\ \A m, n \in Positions :
              BuildOrder[n] = s /\ m > n => provider[i][BuildOrder[m]] # "running"
  <2>1. pc[i] \in {"unwind", "install", "done"} /\ StopNext(i) OBVIOUS
  <2> HIDE DEF IInv, TypeOK
  <2> QED BY <2>1, NextStops
<1>1. TypeOK'
  <2>1. pc' = pc /\ k' = k OBVIOUS
  <2>2. stops' \in [Inits -> Seq(Signals)] BY <1>9
  <2>3. /\ provider' \in [Inits -> [Signals -> {"none", "running", "stopped"}]]
        /\ exporter' \in [Inits -> [Signals -> {"none", "open", "closed"}]]
    BY <1>10
  <2>4. dev' \in [Inits -> [Signals -> {"none", "open", "closed"}]] BY <1>10
  <2> QED BY <2>1, <2>2, <2>3, <2>4
<1>2. InvStage' BY <1>9, <1>10 DEF InvStage, StageOf, Empty
<1>3. InvResult' BY DEF InvResult, ResultOf
<1>4. InvOwned' BY <1>9, <1>10 DEF InvOwned, OwnedBy, Open, Sig
<1>5. InvOrder' BY <1>9, <1>10 DEF InvOrder, OrderOf
<1>6. InvReason' BY DEF InvReason, ReasonOf
<1>7. InvGlobal'
  <2>1. ~Installing(i) /\ ~Installing(i)'
    BY DEF Installing, InvStage, StageOf
  <2>2. pc[i] \in {"install", "done"} =>
          pc'[i] \in {"install", "done"} /\ result'[i] = result[i]
    OBVIOUS
  <2> QED BY <2>1, <2>2, GlobalKept
<1> QED BY <1>1, <1>2, <1>3, <1>4, <1>5, <1>6, <1>7, <1>9

LEMMA UnwoundInv ==
  ASSUME IInv, NEW i \in Inits, Unwound(i)
  PROVE IInv'
<1> USE Order DEF IInv, TypeOK, Unwound, AfterUnwind, Goto
<1>1. TypeOK'
  <2>1. pc' \in [Inits -> PCs] BY DEF PCs
  <2>2. k' \in [Inits -> 1..4] OBVIOUS
  <2> QED BY <2>1, <2>2
<1>2. InvStage' BY DEF InvStage, StageOf, Empty
<1>3. InvResult' BY DEF InvResult, ResultOf
<1>4. InvOwned'
  <2>1. \A s \in Signals : provider[i][s] # "running"
    <3>1. Runs(Running(i), <<>>) BY DEF InvStops, StopsOf
    <3>2. \A s \in Signals : s \notin Running(i) BY <3>1, Lists DEF Runs
    <3> QED BY <3>2 DEF Running
  <2> QED BY <2>1 DEF InvOwned, OwnedBy, Open, Sig
<1>5. InvOrder' BY DEF InvOrder, OrderOf
<1>6. InvReason' BY DEF InvReason, ReasonOf
<1>7. InvGlobal'
  <2>1. ~Installing(i) /\ ~Installing(i)'
    BY DEF Installing, InvStage, StageOf
  <2>2. pc[i] \in {"install", "done"} =>
          pc'[i] \in {"install", "done"} /\ result'[i] = result[i]
    OBVIOUS
  <2> QED BY <2>1, <2>2, GlobalKept
<1>8. InvStops'
  <2>1. provider' = provider /\ stops' = stops /\ \A j \in Inits \ {i} : pc'[j] = pc[j]
    OBVIOUS
  <2>2. pc[i] \in {"unwind", "install", "done"} <=> pc'[i] \in {"unwind", "install", "done"}
    OBVIOUS
  <2> QED BY <2>1, <2>2, StopsKept
<1> QED BY <1>1, <1>2, <1>3, <1>4, <1>5, <1>6, <1>7, <1>8

LEMMA SkipInstallInv ==
  ASSUME IInv, NEW i \in Inits, SkipInstall(i)
  PROVE IInv'
<1> USE Order DEF IInv, TypeOK, SkipInstall, Goto, callVars
<1>1. TypeOK'
  <2>1. pc' \in [Inits -> PCs] BY DEF PCs
  <2>2. k' \in [Inits -> 1..4] OBVIOUS
  <2> QED BY <2>1, <2>2
<1>2. InvStage' BY DEF InvStage, StageOf, Empty
<1>3. InvResult' BY DEF InvResult, ResultOf
<1>4. InvOwned' BY DEF InvOwned, OwnedBy, Open, Sig
<1>5. InvOrder' BY DEF InvOrder, OrderOf
<1>6. InvReason' BY DEF InvReason, ReasonOf
<1>7. InvGlobal'
  <2>1. ~Installing(i) /\ ~Installing(i)'
    BY DEF Installing, InvStage, StageOf
  <2>2. pc[i] \in {"install", "done"} =>
          pc'[i] \in {"install", "done"} /\ result'[i] = result[i]
    OBVIOUS
  <2> QED BY <2>1, <2>2, GlobalKept
<1>8. InvStops'
  <2>1. provider' = provider /\ stops' = stops /\ \A j \in Inits \ {i} : pc'[j] = pc[j]
    OBVIOUS
  <2>2. pc[i] \in {"unwind", "install", "done"} <=> pc'[i] \in {"unwind", "install", "done"}
    OBVIOUS
  <2> QED BY <2>1, <2>2, StopsKept
<1> QED BY <1>1, <1>2, <1>3, <1>4, <1>5, <1>6, <1>7, <1>8

LEMMA InstallSlotInv ==
  ASSUME IInv, NEW i \in Inits, InstallSlot(i)
  PROVE IInv'
<1> USE Order DEF IInv, TypeOK, InstallSlot, LastSlot, Goto
<1>1. TypeOK'
  <2>1. pc' \in [Inits -> PCs] BY DEF PCs
  <2>2. k' \in [Inits -> 1..4]
    <3>1. PICK n : n = IF k[i] = 4 THEN 1 ELSE k[i] + 1 OBVIOUS
    <3>2. k' = [k EXCEPT ![i] = n] /\ k \in [Inits -> 1..4] BY <3>1, SlotFacts
    <3> HIDE DEF IInv, TypeOK, InstallSlot, LastSlot, Goto
    <3>3. k[i] \in 1..4 BY <3>2
    <3>4. n \in 1..4 BY <3>1, <3>3, SMT
    <3> QED BY <3>2, <3>4
  <2> QED BY <2>1, <2>2
<1>2. InvStage' BY DEF InvStage, StageOf, Empty
<1>3. InvResult' BY DEF InvResult, ResultOf
<1>4. InvOwned' BY DEF InvOwned, OwnedBy, Open, Sig
<1>5. InvOrder' BY DEF InvOrder, OrderOf
<1>6. InvReason' BY DEF InvReason, ReasonOf
<1> DEFINE here == SlotOrder[k[i]]
<1>7. /\ k[i] \in 1..4 /\ here \in Slots
      /\ global' = [global EXCEPT ![here] = i]
      /\ pc[i] = "install" /\ pc'[i] \in {"install", "done"}
      /\ result[i] \in {"live", "noop"} /\ result' = result
  BY SlotFacts DEF InvResult, ResultOf
<1>8. \A j \in Inits \ {i} : pc'[j] = pc[j] /\ k'[j] = k[j]
  OBVIOUS
<1>9. \A j \in Inits \ {i} : Installing(j)' <=> Installing(j)
  BY <1>8 DEF Installing
<1>10. \A s \in Slots : global'[s] # NoInit =>
         /\ global'[s] \in Inits
         /\ pc'[global'[s]] \in {"install", "done"}
         /\ result'[global'[s]] \in {"live", "noop"}
  <2> SUFFICES ASSUME NEW s \in Slots, global'[s] # NoInit
               PROVE /\ global'[s] \in Inits
                     /\ pc'[global'[s]] \in {"install", "done"}
                     /\ result'[global'[s]] \in {"live", "noop"}
    OBVIOUS
  <2>1. CASE s = here
    <3>1. global'[s] = i BY <2>1, <1>7
    <3> QED BY <3>1, <1>7
  <2>2. CASE s # here
    <3>1. global'[s] = global[s] BY <2>2, <1>7
    <3>2. /\ global[s] \in Inits
          /\ pc[global[s]] \in {"install", "done"}
          /\ result[global[s]] \in {"live", "noop"}
      BY <3>1 DEF InvGlobal
    <3> QED BY <3>1, <3>2, <1>7, <1>8
  <2> QED BY <2>1, <2>2
<1>11. ~torn' => ~torn /\ \A j \in Inits \ {i} : ~Installing(j)
  OBVIOUS
<1>12. ~torn' => \A m, n \in 1..4 :
         /\ m < k[i] => global[SlotOrder[m]] = i
         /\ m >= k[i] /\ n >= k[i] => global[SlotOrder[m]] = global[SlotOrder[n]]
  <2> SUFFICES ASSUME ~torn' PROVE \A m, n \in 1..4 :
         /\ m < k[i] => global[SlotOrder[m]] = i
         /\ m >= k[i] /\ n >= k[i] => global[SlotOrder[m]] = global[SlotOrder[n]]
    OBVIOUS
  <2>1. CASE k[i] > 1
    <3>1. Installing(i) BY <2>1, <1>7 DEF Installing
    <3> QED BY <3>1, <1>11 DEF InvGlobal
  <2>2. CASE k[i] = 1
    <3>1. \A j \in Inits : ~Installing(j) BY <2>2, <1>11 DEF Installing
    <3>2. \A m, n \in 1..4 : global[SlotOrder[m]] = global[SlotOrder[n]]
      BY <3>1, <1>11 DEF InvGlobal
    <3> QED BY <3>2, <2>2, SMT
  <2> QED BY <2>1, <2>2, <1>7
<1>13. \A m \in 1..4 : global'[SlotOrder[m]] =
         IF m = k[i] THEN i ELSE global[SlotOrder[m]]
  BY <1>7, SlotFacts
<1>14. ~torn' => \A j \in Inits : Installing(j)' => j = i
  BY <1>9, <1>11
<1>15. InvGlobal'
  <2>1. CASE k[i] = 4
    <3>1. ~Installing(i)' BY <2>1, SlotFacts DEF Installing
    <3>2. ~torn' => \A m \in 1..4 : global'[SlotOrder[m]] = i
      BY <1>12, <1>13, <2>1, SMT
    <3>3. \A j, l \in Inits : ~torn' /\ Installing(j)' /\ Installing(l)' => j = l
      BY <1>14
    <3>4. ~torn' => \A j \in Inits : ~Installing(j)' BY <1>14, <3>1
    <3>5. ~torn' => \A m, n \in 1..4 :
            global'[SlotOrder[m]] = global'[SlotOrder[n]]
      BY <3>2
    <3> HIDE Order DEF IInv, TypeOK, InstallSlot, LastSlot, Goto, here
    <3> QED BY <1>10, <3>3, <3>4, <3>5 DEF InvGlobal
  <2>2. CASE k[i] # 4
    <3>1. k'[i] = k[i] + 1 /\ pc'[i] = "install" BY <2>2, SlotFacts
    <3>2. Installing(i)' BY <3>1, <1>7 DEF Installing
    <3>3. ~torn' => \A m, n \in 1..4 :
            /\ m < k'[i] => global'[SlotOrder[m]] = i
            /\ m >= k'[i] /\ n >= k'[i] =>
                 global'[SlotOrder[m]] = global'[SlotOrder[n]]
      <4>1. \A m \in 1..4 : (m < k'[i] <=> m < k[i] \/ m = k[i])
                            /\ (m >= k'[i] <=> m >= k[i] /\ m # k[i])
        BY <3>1, <1>7, SMT
      <4> HIDE DEF InstallSlot, here
      <4> QED BY <4>1, <1>12, <1>13
    <3>4. \A j, l \in Inits : ~torn' /\ Installing(j)' /\ Installing(l)' => j = l
      BY <1>14
    <3>5. ~torn' => \A j \in Inits : Installing(j)' => \A m, n \in 1..4 :
            /\ m < k'[j] => global'[SlotOrder[m]] = j
            /\ m >= k'[j] /\ n >= k'[j] =>
                 global'[SlotOrder[m]] = global'[SlotOrder[n]]
      <4> HIDE Order DEF IInv, TypeOK, InstallSlot, LastSlot, Goto, here
      <4> SUFFICES ASSUME ~torn', NEW j \in Inits, Installing(j)'
                   PROVE  \A m, n \in 1..4 :
                     /\ m < k'[j] => global'[SlotOrder[m]] = j
                     /\ m >= k'[j] /\ n >= k'[j] =>
                          global'[SlotOrder[m]] = global'[SlotOrder[n]]
        OBVIOUS
      <4>1. j = i BY <1>14
      <4> QED BY <3>3, <4>1
    <3> HIDE Order DEF IInv, TypeOK, InstallSlot, LastSlot, Goto, here
    <3> QED BY <1>10, <3>2, <3>4, <3>5 DEF InvGlobal
  <2> QED BY <2>1, <2>2
<1>16. InvStops'
  <2>1. provider' = provider /\ stops' = stops /\ \A j \in Inits \ {i} : pc'[j] = pc[j]
    OBVIOUS
  <2>2. pc[i] \in {"unwind", "install", "done"} <=> pc'[i] \in {"unwind", "install", "done"}
    OBVIOUS
  <2> QED BY <2>1, <2>2, StopsKept
<1> QED BY <1>1, <1>2, <1>3, <1>4, <1>5, <1>6, <1>15, <1>16

LEMMA HandleStopsInv ==
  ASSUME IInv, NEW i \in Inits, HandleStops(i)
  PROVE IInv'
<1> USE Order DEF IInv, TypeOK, HandleStops
<1>9. /\ stops'[i] \in Seq(Signals) /\ stops' = [stops EXCEPT ![i] = stops'[i]]
      /\ pc[i] = "done" /\ pc' = pc /\ InvStops'
  BY NextStops DEF HandleStops
<1>10. PICK s \in Signals :
         /\ provider[i][s] = "running"
         /\ provider' = [provider EXCEPT ![i][s] = "stopped"]
         /\ exporter' = [exporter EXCEPT ![i][s] = "closed"]
         /\ dev' = [dev EXCEPT ![i][s] = IF @ = "open" THEN "closed" ELSE @]
         /\ \A m, n \in Positions :
              BuildOrder[n] = s /\ m > n => provider[i][BuildOrder[m]] # "running"
  <2>1. pc[i] \in {"unwind", "install", "done"} /\ StopNext(i) OBVIOUS
  <2> HIDE DEF IInv, TypeOK
  <2> QED BY <2>1, NextStops
<1>1. TypeOK'
  <2>1. pc' = pc /\ k' = k OBVIOUS
  <2>2. stops' \in [Inits -> Seq(Signals)] BY <1>9
  <2>3. /\ provider' \in [Inits -> [Signals -> {"none", "running", "stopped"}]]
        /\ exporter' \in [Inits -> [Signals -> {"none", "open", "closed"}]]
    BY <1>10
  <2>4. dev' \in [Inits -> [Signals -> {"none", "open", "closed"}]] BY <1>10
  <2> QED BY <2>1, <2>2, <2>3, <2>4
<1>2. InvStage' BY <1>9, <1>10 DEF InvStage, StageOf, Empty
<1>3. InvResult' BY DEF InvResult, ResultOf
<1>4. InvOwned' BY <1>9, <1>10 DEF InvOwned, OwnedBy, Open, Sig
<1>5. InvOrder' BY <1>9, <1>10 DEF InvOrder, OrderOf
<1>6. InvReason' BY DEF InvReason, ReasonOf
<1>7. InvGlobal'
  <2>1. ~Installing(i) /\ ~Installing(i)'
    BY DEF Installing, InvStage, StageOf
  <2>2. pc[i] \in {"install", "done"} =>
          pc'[i] \in {"install", "done"} /\ result'[i] = result[i]
    OBVIOUS
  <2> QED BY <2>1, <2>2, GlobalKept
<1> QED BY <1>1, <1>2, <1>3, <1>4, <1>5, <1>6, <1>7, <1>9

\* Every step preserves the invariant, stuttering included.
LEMMA StepInv == IInv /\ [Next]_vars => IInv'
<1> SUFFICES ASSUME IInv, [Next]_vars PROVE IInv' OBVIOUS
<1>1. CASE UNCHANGED vars
  <2> USE <1>1 DEF vars, callVars
  <2>1. TypeOK' BY DEF IInv, TypeOK
  <2>2. InvStage' BY DEF IInv, InvStage, StageOf, Empty
  <2>3. InvResult' BY DEF IInv, InvResult, ResultOf
  <2>4. InvOwned' BY DEF IInv, InvOwned, OwnedBy, Open, Sig
  <2>5. InvOrder' BY DEF IInv, InvOrder, OrderOf
  <2>6. InvReason' BY DEF IInv, InvReason, ReasonOf
  <2>7. InvGlobal' BY DEF IInv, InvGlobal, Installing
  <2>8. InvStops' BY DEF IInv, InvStops, StopsOf, Running
  <2> QED BY <2>1, <2>2, <2>3, <2>4, <2>5, <2>6, <2>7, <2>8 DEF IInv
<1>2. ASSUME NEW i \in Inits, Advance(i) PROVE IInv'
  BY <1>2, CallInitInv, ResolveConfigInv, BuildResourceInv, DialReachableInv,
     DialUnreachableInv, NewExporterInv, NewExporterFailsInv,
     DevSinkReachableInv, DevSinkMissingInv, NewDevExporterInv, NewProviderInv,
     NewInstrumentsInv, UnwindInv, UnwoundInv, SkipInstallInv, InstallSlotInv
     DEF Advance
<1>3. ASSUME NEW i \in Inits, HandleStops(i) PROVE IInv'
  BY <1>3, HandleStopsInv
<1> QED BY <1>1, <1>2, <1>3 DEF Next, Quiescent

\* The inductive invariant holds in every behaviour.
THEOREM Invariance == Spec => []IInv
<1> QED BY InitInv, StepInv, PTL DEF Spec

-----------------------------------------------------------------------------
\* Every variable keeps its type, for any number of concurrent calls of Init.
THEOREM TypeCorrect == Spec => []TypeOK
<1>1. IInv => TypeOK BY DEF IInv
<1> QED BY <1>1, Invariance, PTL

\* Whatever fails, and in whichever order, a call of Init that is over has left
\* no exporter open that a running provider of its live handle does not own.
THEOREM NeverOrphan == Spec => []NoOrphan
<1>1. IInv => NoOrphan
  <2> SUFFICES ASSUME IInv, NEW i \in Inits, pc[i] = "done", NEW s \in Signals
               PROVE /\ provider[i][s] = "running" => result[i] = "live"
                     /\ Open(i, s) => provider[i][s] = "running"
    BY DEF NoOrphan
  <2> QED BY DEF IInv, InvOwned, OwnedBy
<1> QED BY <1>1, Invariance, PTL

\* Init is fail-open: only its options can make it return an error.
THEOREM FailOpen == Spec => []OutageIsNoError
<1>1. IInv => OutageIsNoError
  BY DEF IInv, InvReason, ReasonOf, OutageIsNoError
<1> QED BY <1>1, Invariance, PTL

\* The dev sink never decides what an enabled Init returns.
THEOREM DevSinkSecondary == Spec => []DevSinkNeverDecides
<1>1. IInv => DevSinkNeverDecides
  BY DEF IInv, InvReason, ReasonOf, DevSinkNeverDecides
<1> QED BY <1>1, Invariance, PTL

\* Traces stop last, in the unwinding of a failed start as in the live handle.
THEOREM StopOrder == Spec => []TracesStopLast
<1>1. IInv => TracesStopLast
  <2> SUFFICES ASSUME IInv, NEW i \in Inits
               PROVE /\ pc[i] = "done" /\ result[i] = "live" =>
                          \A s \in Signals : provider[i][s] # "none"
                     /\ provider[i]["metrics"] = "stopped" =>
                          provider[i]["logs"] # "running"
                     /\ provider[i]["traces"] = "stopped" =>
                          /\ provider[i]["metrics"] # "running"
                          /\ provider[i]["logs"] # "running"
    BY DEF TracesStopLast
  <2>1. result[i] = "live" => \A s \in Signals : provider[i][s] # "none"
    BY DEF IInv, InvOwned, OwnedBy
  <2>2. \A m, n \in Positions :
          m > n /\ provider[i][BuildOrder[n]] = "stopped" =>
            provider[i][BuildOrder[m]] # "running"
    BY DEF IInv, InvOrder, OrderOf
  <2>3. 1 \in Positions /\ 2 \in Positions /\ 3 \in Positions /\ 3 > 2 /\ 3 > 1 /\ 2 > 1
    BY DEF Positions
  <2> QED BY <2>1, <2>2, <2>3, Order
<1> QED BY <1>1, Invariance, PTL

\* A process-wide provider is never one of a call that gave up.
THEOREM InstalledIsUsable == Spec => []GlobalsUsable
<1>1. IInv => GlobalsUsable BY DEF IInv, InvGlobal, GlobalsUsable
<1> QED BY <1>1, Invariance, PTL

\* Calls of Init that do not overlap while they install leave slots that agree.
THEOREM InstalledTogether == Spec => []GlobalsAgree
<1>1. IInv => GlobalsAgree
  <2> SUFFICES ASSUME IInv, ~torn, \A i \in Inits : ~Installing(i),
                      NEW s \in Slots, NEW t \in Slots
               PROVE global[s] = global[t]
    BY DEF GlobalsAgree
  <2>1. PICK m \in 1..4 : s = SlotOrder[m] BY SlotFacts
  <2>2. PICK n \in 1..4 : t = SlotOrder[n] BY SlotFacts
  <2> QED BY <2>1, <2>2 DEF IInv, InvGlobal
<1> QED BY <1>1, Invariance, PTL
-----------------------------------------------------------------------------
(***************************************************************************)
(* Init takes a bounded number of steps, and is never stuck before the     *)
(* last: with the fairness of Spec, that is why it returns.                *)
(***************************************************************************)
\* The steps that Init may still take, at most: four at each signal it builds, a
\* stop for each provider it undoes, one for each slot.
Undo(i, s) == IF provider[i][s] = "running" THEN 1 ELSE 0
StepsLeft(i) ==
  CASE pc[i] = "idle" -> 27
    [] pc[i] = "config" -> 26
    [] pc[i] = "resource" -> 25
    [] pc[i] = "dial" -> 25 - k[i]
    [] pc[i] = "exporter" -> 25 - 4 * k[i]
    [] pc[i] = "devDial" -> 24 - 4 * k[i]
    [] pc[i] = "devNew" -> 23 - 4 * k[i]
    [] pc[i] = "provider" -> 22 - 4 * k[i]
    [] pc[i] = "instruments" -> 9
    [] pc[i] = "unwind" -> 5 + Undo(i, "traces") + Undo(i, "metrics") + Undo(i, "logs")
    [] pc[i] = "install" -> 5 - k[i]
    [] OTHER -> 0

\* No attempt is made twice: each step of Init is one of the few it has left, and
\* nothing another call or the handle does gives it more, so that a start
\* with every collector down costs no timeout twice (bootstrap.go:20-50,
\* exporters.go:30-81).
EachStepCounts ==
  \A i \in Inits : /\ StepsLeft(i)' <= StepsLeft(i)
                   /\ Advance(i) => StepsLeft(i)' < StepsLeft(i)
InitIsBounded == [][EachStepCounts]_vars

\* The steps left, by where the call is.
LeftBy(i) ==
  /\ pc[i] = "idle" => StepsLeft(i) = 27
  /\ pc[i] = "config" => StepsLeft(i) = 26
  /\ pc[i] = "resource" => StepsLeft(i) = 25
  /\ pc[i] = "dial" => StepsLeft(i) = 25 - k[i]
  /\ pc[i] = "exporter" => StepsLeft(i) = 25 - 4 * k[i]
  /\ pc[i] = "devDial" => StepsLeft(i) = 24 - 4 * k[i]
  /\ pc[i] = "devNew" => StepsLeft(i) = 23 - 4 * k[i]
  /\ pc[i] = "provider" => StepsLeft(i) = 22 - 4 * k[i]
  /\ pc[i] = "instruments" => StepsLeft(i) = 9
  /\ pc[i] = "unwind" => StepsLeft(i) \in 5..8
  /\ pc[i] = "install" => StepsLeft(i) = 5 - k[i]
  /\ pc[i] = "done" => StepsLeft(i) = 0

LEMMA LeftNow == \A i \in Inits : LeftBy(i)
<1> TAKE i \in Inits
<1>1. \A s \in Signals : Undo(i, s) \in {0, 1} BY DEF Undo
<1>2. PICK a, b, c : /\ a = Undo(i, "traces") /\ b = Undo(i, "metrics") /\ c = Undo(i, "logs")
                     /\ a \in 0..1 /\ b \in 0..1 /\ c \in 0..1
  BY <1>1, Order
<1>3. pc[i] = "unwind" => StepsLeft(i) \in 5..8
  <2>1. pc[i] = "unwind" => StepsLeft(i) = 5 + a + b + c BY <1>2 DEF StepsLeft
  <2>2. 5 + a + b + c \in 5..8 BY <1>2
  <2> QED BY <2>1, <2>2
<1> QED BY <1>3 DEF LeftBy, StepsLeft

LEMMA LeftThen == \A i \in Inits : LeftBy(i)'
<1> TAKE i \in Inits
<1>1. \A s \in Signals : Undo(i, s)' \in {0, 1} BY DEF Undo
<1>2. PICK a, b, c : /\ a = Undo(i, "traces")' /\ b = Undo(i, "metrics")' /\ c = Undo(i, "logs")'
                     /\ a \in 0..1 /\ b \in 0..1 /\ c \in 0..1
  BY <1>1, Order
<1>3. pc'[i] = "unwind" => StepsLeft(i)' \in 5..8
  <2>1. pc'[i] = "unwind" => StepsLeft(i)' = 5 + a + b + c BY <1>2 DEF StepsLeft
  <2>2. 5 + a + b + c \in 5..8 BY <1>2
  <2> QED BY <2>1, <2>2
<1> QED BY <1>3 DEF LeftBy, StepsLeft

\* Another call leaves a call what it had.
LEMMA LeftAlone ==
  ASSUME NEW i \in Inits, pc'[i] = pc[i], k'[i] = k[i], provider'[i] = provider[i]
  PROVE  StepsLeft(i)' = StepsLeft(i)
BY DEF StepsLeft, Undo

LEMMA OneCallMoves ==
  ASSUME IInv, NEW i \in Inits, Advance(i) \/ HandleStops(i), NEW j \in Inits, j # i
  PROVE  StepsLeft(j)' = StepsLeft(j)
<1>1. /\ pc \in [Inits -> PCs] /\ k \in [Inits -> 1..4]
      /\ provider \in [Inits -> [Signals -> {"none", "running", "stopped"}]]
  BY DEF IInv, TypeOK
<1> USE <1>1 DEF Goto, Fail, StopNext, callVars
<1>2. pc'[j] = pc[j]
  <2>1. CASE ResolveConfig(i) BY <2>1 DEF ResolveConfig
  <2>2. CASE BuildResource(i) BY <2>2 DEF BuildResource
  <2>3. CASE NewInstruments(i) BY <2>3 DEF NewInstruments
  <2>4. CASE CallInit(i) \/ DialReachable(i) \/ DialUnreachable(i) \/ NewExporter(i)
    BY <2>4 DEF CallInit, DialReachable, DialUnreachable, NewExporter
  <2>5. CASE NewExporterFails(i) \/ DevSinkReachable(i) \/ DevSinkMissing(i) \/ NewDevExporter(i)
    BY <2>5 DEF NewExporterFails, DevSinkReachable, DevSinkMissing, NewDevExporter
  <2>6. CASE NewProvider(i) \/ Unwind(i) \/ Unwound(i)
    BY <2>6 DEF NewProvider, Unwind, Unwound
  <2>7. CASE SkipInstall(i) \/ InstallSlot(i) \/ HandleStops(i)
    BY <2>7 DEF SkipInstall, InstallSlot, HandleStops
  <2> QED BY <2>1, <2>2, <2>3, <2>4, <2>5, <2>6, <2>7 DEF Advance
<1>3. k'[j] = k[j]
  <2>1. CASE ResolveConfig(i) BY <2>1 DEF ResolveConfig
  <2>2. CASE BuildResource(i) BY <2>2 DEF BuildResource
  <2>3. CASE NewInstruments(i) BY <2>3 DEF NewInstruments
  <2>4. CASE CallInit(i) \/ DialReachable(i) \/ DialUnreachable(i) \/ NewExporter(i)
    BY <2>4 DEF CallInit, DialReachable, DialUnreachable, NewExporter
  <2>5. CASE NewExporterFails(i) \/ DevSinkReachable(i) \/ DevSinkMissing(i) \/ NewDevExporter(i)
    BY <2>5 DEF NewExporterFails, DevSinkReachable, DevSinkMissing, NewDevExporter
  <2>6. CASE NewProvider(i) \/ Unwind(i) \/ Unwound(i)
    BY <2>6 DEF NewProvider, Unwind, Unwound
  <2>7. CASE SkipInstall(i) \/ InstallSlot(i) \/ HandleStops(i)
    BY <2>7 DEF SkipInstall, InstallSlot, HandleStops
  <2> QED BY <2>1, <2>2, <2>3, <2>4, <2>5, <2>6, <2>7 DEF Advance
<1>4. provider'[j] = provider[j]
  <2>1. CASE ResolveConfig(i) \/ BuildResource(i) \/ NewInstruments(i)
    BY <2>1 DEF ResolveConfig, BuildResource, NewInstruments
  <2>4. CASE CallInit(i) \/ DialReachable(i) \/ DialUnreachable(i) \/ NewExporter(i)
    BY <2>4 DEF CallInit, DialReachable, DialUnreachable, NewExporter
  <2>5. CASE NewExporterFails(i) \/ DevSinkReachable(i) \/ DevSinkMissing(i) \/ NewDevExporter(i)
    BY <2>5 DEF NewExporterFails, DevSinkReachable, DevSinkMissing, NewDevExporter
  <2>6. CASE NewProvider(i) BY <2>6 DEF NewProvider
  <2>7. CASE Unwind(i) BY <2>7 DEF Unwind
  <2>8. CASE HandleStops(i) BY <2>8 DEF HandleStops
  <2>9. CASE Unwound(i) \/ SkipInstall(i) \/ InstallSlot(i)
    BY <2>9 DEF Unwound, SkipInstall, InstallSlot
  <2> QED BY <2>1, <2>4, <2>5, <2>6, <2>7, <2>8, <2>9 DEF Advance
<1> QED BY <1>2, <1>3, <1>4, LeftAlone

\* Each step of a call is one of those it has left.
LEMMA StepCounts ==
  ASSUME IInv, NEW i \in Inits, Advance(i)
  PROVE  StepsLeft(i)' < StepsLeft(i)
<1>1. LeftBy(i) /\ LeftBy(i)' BY LeftNow, LeftThen
<1>2. k[i] \in 1..4 /\ (pc[i] # "install" => k[i] \in 1..3)
  BY DEF IInv, TypeOK, InvStage, StageOf, Positions
<1>3. Last(i) <=> k[i] = 3 BY Order DEF Last
<1>4. /\ pc \in [Inits -> PCs] /\ k \in [Inits -> 1..4]
      /\ provider \in [Inits -> [Signals -> {"none", "running", "stopped"}]]
  BY DEF IInv, TypeOK
<1> USE <1>4 DEF Goto, Fail, callVars
<1>5. CASE CallInit(i)
  <2>1. pc[i] = "idle" /\ pc'[i] \in {"config", "resource"} BY <1>5 DEF CallInit
  <2> QED BY <1>1, <2>1 DEF LeftBy
<1>6. CASE ResolveConfig(i)
  <2>1. pc[i] = "config" /\ pc'[i] \in {"resource", "unwind"}
    BY <1>6 DEF ResolveConfig
  <2> QED BY <1>1, <2>1 DEF LeftBy
<1>7. CASE BuildResource(i)
  <2>1. /\ pc[i] = "resource" /\ pc'[i] \in {"unwind", "dial", "install"}
        /\ k'[i] = k[i]
    BY <1>7 DEF BuildResource
  <2> QED BY <1>1, <1>2, <2>1 DEF LeftBy
<1>8. CASE DialReachable(i)
  <2>1. /\ pc[i] = "dial"
        /\ k[i] = 3 => pc'[i] = "exporter" /\ k'[i] = 1
        /\ k[i] # 3 => pc'[i] = "dial" /\ k'[i] = k[i] + 1
    BY <1>3, <1>8 DEF DialReachable
  <2> QED BY <1>1, <1>2, <2>1 DEF LeftBy
<1>9. CASE DialUnreachable(i)
  <2>1. pc[i] = "dial" /\ pc'[i] = "unwind"
    BY <1>9 DEF DialUnreachable, AfterDialFailure
  <2> QED BY <1>1, <1>2, <2>1 DEF LeftBy
<1>10. CASE NewExporter(i)
  <2>1. pc[i] = "exporter" /\ pc'[i] \in {"devDial", "provider"} /\ k'[i] = k[i]
    BY <1>10 DEF NewExporter
  <2> QED BY <1>1, <1>2, <2>1 DEF LeftBy
<1>11. CASE NewExporterFails(i)
  <2>1. pc[i] = "exporter" /\ pc'[i] = "unwind" BY <1>11 DEF NewExporterFails
  <2> QED BY <1>1, <1>2, <2>1 DEF LeftBy
<1>12. CASE DevSinkReachable(i)
  <2>1. pc[i] = "devDial" /\ pc'[i] = "devNew" /\ k'[i] = k[i]
    BY <1>12 DEF DevSinkReachable
  <2> QED BY <1>1, <1>2, <2>1 DEF LeftBy
<1>13. CASE DevSinkMissing(i)
  <2>1. pc[i] \in {"devDial", "devNew"} /\ pc'[i] = "provider" /\ k'[i] = k[i]
    BY <1>13 DEF DevSinkMissing, AfterDevFailure
  <2> QED BY <1>1, <1>2, <2>1 DEF LeftBy
<1>14. CASE NewDevExporter(i)
  <2>1. pc[i] = "devNew" /\ pc'[i] = "provider" /\ k'[i] = k[i]
    BY <1>14 DEF NewDevExporter
  <2> QED BY <1>1, <1>2, <2>1 DEF LeftBy
<1>15. CASE NewProvider(i)
  <2>1. /\ pc[i] = "provider"
        /\ k[i] = 3 => pc'[i] = "instruments"
        /\ k[i] # 3 => pc'[i] = "exporter" /\ k'[i] = k[i] + 1
    BY <1>3, <1>15 DEF NewProvider
  <2> QED BY <1>1, <1>2, <2>1 DEF LeftBy
<1>16. CASE NewInstruments(i)
  <2>1. /\ pc[i] = "instruments"
        /\ \/ pc'[i] = "unwind"
           \/ pc'[i] = "install" /\ k'[i] = 1
    BY <1>16 DEF NewInstruments
  <2> QED BY <1>1, <2>1 DEF LeftBy
<1>17. CASE Unwind(i)
  <2>1. PICK s \in Signals :
          /\ provider[i][s] = "running"
          /\ provider' = [provider EXCEPT ![i][s] = "stopped"]
    BY <1>17, NextStops DEF Unwind
  <2>2. pc[i] = "unwind" /\ pc'[i] = "unwind" BY <1>17 DEF Unwind
  <2>3. Undo(i, s) = 1 /\ Undo(i, s)' = 0 BY <2>1 DEF Undo
  <2>4. \A t \in Signals : t # s => Undo(i, t)' = Undo(i, t) BY <2>1 DEF Undo
  <2>5. \A t \in Signals : Undo(i, t) \in 0..1 BY DEF Undo
  <2>6. /\ StepsLeft(i) = 5 + Undo(i, "traces") + Undo(i, "metrics") + Undo(i, "logs")
        /\ StepsLeft(i)' = 5 + Undo(i, "traces")' + Undo(i, "metrics")' + Undo(i, "logs")'
    BY <2>2 DEF StepsLeft
  <2>7. CASE s = "traces" BY <2>3, <2>4, <2>5, <2>6, <2>7, Order
  <2>8. CASE s = "metrics" BY <2>3, <2>4, <2>5, <2>6, <2>8, Order
  <2>9. CASE s = "logs" BY <2>3, <2>4, <2>5, <2>6, <2>9, Order
  <2> QED BY <2>7, <2>8, <2>9, Order
<1>18. CASE Unwound(i)
  <2>1. pc[i] = "unwind" /\ pc'[i] \in {"done", "install"} /\ k'[i] = 1
    BY <1>18 DEF Unwound, AfterUnwind
  <2> QED BY <1>1, <2>1 DEF LeftBy
<1>19. CASE SkipInstall(i)
  <2>1. pc[i] = "install" /\ pc'[i] = "done" BY <1>19 DEF SkipInstall
  <2> QED BY <1>1, <1>2, <2>1 DEF LeftBy
<1>20. CASE InstallSlot(i)
  <2>1. /\ pc[i] = "install"
        /\ \/ pc'[i] = "done"
           \/ pc'[i] = "install" /\ k'[i] = k[i] + 1
    BY <1>20 DEF InstallSlot
  <2> QED BY <1>1, <1>2, <2>1 DEF LeftBy
<1> QED BY <1>5, <1>6, <1>7, <1>8, <1>9, <1>10, <1>11, <1>12, <1>13, <1>14,
           <1>15, <1>16, <1>17, <1>18, <1>19, <1>20 DEF Advance

\* From 27 down to none.
LEMMA LeftIsNumber ==
  ASSUME IInv, NEW i \in Inits
  PROVE  StepsLeft(i) \in 0..27
<1>1. LeftBy(i) BY LeftNow
<1>2. /\ pc[i] \in PCs /\ k[i] \in 1..4
      /\ pc[i] # "install" => k[i] \in 1..3
  BY DEF IInv, TypeOK, InvStage, StageOf, Positions
<1> QED BY <1>1, <1>2 DEF LeftBy, PCs

\* A start takes at most 27 steps whatever fails, and makes no attempt twice.
THEOREM StartIsBounded == Spec => InitIsBounded
<1>1. IInv /\ [Next]_vars => [EachStepCounts]_vars
  <2> SUFFICES ASSUME IInv, Next, vars' # vars, NEW j \in Inits
               PROVE  /\ StepsLeft(j)' <= StepsLeft(j)
                      /\ Advance(j) => StepsLeft(j)' < StepsLeft(j)
    BY DEF EachStepCounts
  <2>1. StepsLeft(j) \in Int BY LeftIsNumber
  <2>2. StepsLeft(j)' \in Int
    <3>1. IInv' BY StepInv
    <3>2. pc'[j] \in PCs /\ k'[j] \in 1..4 BY <3>1 DEF IInv, TypeOK
    <3> QED BY <3>2, LeftThen DEF LeftBy, PCs
  <2>3. Advance(j) => StepsLeft(j)' < StepsLeft(j) BY StepCounts
  <2>4. PICK i \in Inits : Advance(i) \/ HandleStops(i) BY DEF Next, Quiescent
  <2>5. CASE i # j
    <3>1. StepsLeft(j)' = StepsLeft(j) BY <2>4, <2>5, OneCallMoves
    <3> QED BY <2>1, <2>3, <3>1
  <2>6. CASE i = j /\ Advance(j) BY <2>1, <2>2, <2>3, <2>6
  <2>7. CASE i = j /\ HandleStops(j)
    <3>1. pc[j] = "done" /\ pc'[j] = "done" BY <2>7 DEF HandleStops
    <3>2. StepsLeft(j)' = 0 /\ StepsLeft(j) = 0 BY <3>1, LeftNow, LeftThen DEF LeftBy
    <3> QED BY <2>3, <3>2
  <2> QED BY <2>4, <2>5, <2>6, <2>7
<1> QED BY <1>1, Invariance, PTL DEF Spec, InitIsBounded

\* What the next step of a call depends on: a signal to build, a provider
\* that still runs when its exit comes to stop it, a slot to set.
CanGoOn(i) ==
  /\ pc[i] \in {"dial", "exporter", "devDial", "devNew", "provider"} => Sig(i) \in Signals
  /\ pc[i] = "unwind" /\ stops[i] # <<>> =>
       Head(stops[i]) \in Signals /\ provider[i][Head(stops[i])] = "running"
  /\ pc[i] = "install" => k[i] \in DOMAIN SlotOrder
AllGoOn == \A i \in Inits : CanGoOn(i)

\* A call of Init always finds what its next step needs, whatever has failed before and
\* whatever the others do (bootstrap.go:20-50, exporters.go:30-81).
THEOREM NeverStuck == Spec => []AllGoOn
<1>1. ASSUME IInv, NEW i \in Inits PROVE CanGoOn(i)
  <2>1. pc[i] # "install" => Sig(i) \in Signals
    BY <1>1, Order DEF IInv, InvStage, StageOf, Sig
  <2>2. k[i] \in DOMAIN SlotOrder
    <3>1. k[i] \in 1..4 BY <1>1 DEF IInv, TypeOK
    <3>2. DOMAIN SlotOrder = 1..4 BY DEF SlotOrder
    <3> QED BY <3>1, <3>2
  <2>3. ASSUME pc[i] = "unwind", stops[i] # <<>>
        PROVE  Head(stops[i]) \in Signals /\ provider[i][Head(stops[i])] = "running"
    <3>1. Runs(Running(i), stops[i]) BY <1>1, <2>3 DEF IInv, InvStops, StopsOf
    <3>2. stops[i] \in {FromTraces, FromMetrics, FromLogs} BY <2>3, <3>1 DEF Runs
    <3>3. PICK s : s = Head(stops[i]) OBVIOUS
    <3>4. s \in Running(i) BY <3>1, <3>2, <3>3, Lists DEF Runs
    <3> QED BY <3>3, <3>4 DEF Running
  <2> QED BY <2>1, <2>2, <2>3 DEF CanGoOn
<1>2. IInv => AllGoOn BY <1>1 DEF AllGoOn
<1> QED BY <1>2, Invariance, PTL
=============================================================================
