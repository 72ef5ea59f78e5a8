---------------------------- MODULE LotelHelper ----------------------------
(***************************************************************************)
(* test/integration/lotelhelper: the tests of a package share a collector, *)
(* a process of the machine, which the first one starts when it does not   *)
(* run and the last one stops when the package started it.  Packages are   *)
(* processes of their own that know nothing of each other.                 *)
(*                                                                         *)
(* The collector and lotel-cli are external.  Any command may fail by its  *)
(* timeout: a health check of a collector that runs, which the package     *)
(* then starts and takes for its own, and a start or a stop that may have  *)
(* happened or not.                                                        *)
(***************************************************************************)
EXTENDS Integers, FiniteSets

CONSTANTS
  Tests,      \* the tests that call Start, each once
  Packages,
  PackageOf,  \* the package of a test
  Nobody

ASSUME TestsAssumption == IsFiniteSet(Tests)
ASSUME PackagesAssumption == PackageOf \in [Tests -> Packages]
ASSUME NobodyAssumption == Nobody \notin Tests \cup Packages \cup {"outside"}
ASSUME OutsideAssumption == "outside" \notin Packages

VARIABLES
  pc,         \* where each test is
  collector,  \* who started the collector that runs: a package, "outside" or Nobody
  refs,       \* pkgRefs
  started,    \* pkgStarted
  startupMu,  \* the test that holds it, or Nobody
  ingestMu,   \* the same
  late,       \* the deadline of a test's WaitFor has passed
  met,        \* history: a stop met somebody who needs the collector
  failed,     \* history: a start or a stop failed
  missed      \* history: the packages a health check of a running collector failed

pkgVars == <<refs, started>>
vars == <<pc, collector, refs, started, startupMu, ingestMu, late, met, failed, missed>>

Of(p) == {t \in Tests : PackageOf[t] = p}
At(pcs) == {t \in Tests : pc[t] \in pcs}

\* In ensureRunning, past the lock ("ingest1" where startedHere is true, "ingest0"
\* where it is not); with a helper; with a stop under way.
Startup == {"first", "health", "start", "ingest0", "ingest1", "undo", "undone", "count"}
Using == {"use", "poll", "ingest", "query", "close"}
Stopping == {"stop", "stopped", "undo"}
PCs == {"idle", "lock", "done"} \cup Startup \cup Using \cup Stopping

TypeOK ==
  /\ pc \in [Tests -> PCs]
  /\ collector \in Packages \cup {"outside", Nobody}
  /\ refs \in [Packages -> 0..Cardinality(Tests)]
  /\ started \in [Packages -> BOOLEAN]
  /\ startupMu \in [Packages -> Tests \cup {Nobody}]
  /\ ingestMu \in [Packages -> Tests \cup {Nobody}]
  /\ late \in [Tests -> BOOLEAN]
  /\ met \in BOOLEAN
  /\ failed \in BOOLEAN
  /\ missed \subseteq Packages

Init ==
  /\ pc = [t \in Tests |-> "idle"]
  /\ collector \in {"outside", Nobody}
  /\ refs = [p \in Packages |-> 0]
  /\ started = [p \in Packages |-> FALSE]
  /\ startupMu = [p \in Packages |-> Nobody]
  /\ ingestMu = [p \in Packages |-> Nobody]
  /\ late = [t \in Tests |-> FALSE]
  /\ met = FALSE
  /\ failed = FALSE
  /\ missed = {}

\* A stop is under way, of s, and t is about to use the collector, or uses it and
\* is of another package, whose references s does not see.
Meet(s, t, pcs) ==
  /\ s # t /\ pcs[s] \in Stopping
  /\ \/ pcs[t] \in Startup
     \/ pcs[t] \in Using /\ PackageOf[s] # PackageOf[t]

Goto(t, from, to) ==
  /\ pc[t] = from
  /\ pc' = [pc EXCEPT ![t] = to]
  /\ met' = (met \/ \E s, u \in Tests : Meet(s, u, [pc EXCEPT ![t] = to]))

Unlock(t) == startupMu' = [startupMu EXCEPT ![PackageOf[t]] = Nobody]

-----------------------------------------------------------------------------
\* Start

\* Without a lotel-cli the test is skipped.
Start(t) ==
  /\ Goto(t, "idle", "lock") \/ Goto(t, "idle", "done")
  /\ UNCHANGED <<collector, pkgVars, startupMu, ingestMu, late, failed, missed>>

LockStartup(t) ==
  /\ startupMu[PackageOf[t]] = Nobody
  /\ startupMu' = [startupMu EXCEPT ![PackageOf[t]] = t]
  /\ Goto(t, "lock", "first")
  /\ UNCHANGED <<collector, pkgVars, ingestMu, late, failed, missed>>

\* Only the first test of a package looks at the collector.
First(n) == n = 0
ReadRefs(t) ==
  /\ Goto(t, "first", IF First(refs[PackageOf[t]]) THEN "health" ELSE "count")
  /\ UNCHANGED <<collector, pkgVars, startupMu, ingestMu, late, failed, missed>>

\* What pkgStarted becomes when the collector runs already; mutant: ours.
FoundRunning_Ours(t) == [started EXCEPT ![PackageOf[t]] = TRUE]
FoundRunning(t) == [started EXCEPT ![PackageOf[t]] = FALSE]

\* Healthy, or not: no collector runs, or the check failed.
Health(t) ==
  /\ \/ /\ collector # Nobody
        /\ Goto(t, "health", "ingest0")
        /\ started' = FoundRunning(t)
        /\ UNCHANGED missed
     \/ /\ Goto(t, "health", "start")
        /\ missed' = IF collector = Nobody THEN missed ELSE missed \cup {PackageOf[t]}
        /\ UNCHANGED started
  /\ UNCHANGED <<collector, refs, startupMu, ingestMu, late, failed>>

\* The ports are fixed: there is one collector on the machine, and a start that
\* succeeds beside it leaves it alone.
StartCollector(t) ==
  /\ Goto(t, "start", "ingest1")
  /\ collector' = IF collector = Nobody THEN PackageOf[t] ELSE collector
  /\ started' = [started EXCEPT ![PackageOf[t]] = TRUE]
  /\ UNCHANGED <<refs, startupMu, ingestMu, late, failed, missed>>

StartCollectorFails(t) ==
  /\ Goto(t, "start", "done")
  /\ collector' \in {collector, IF collector = Nobody THEN PackageOf[t] ELSE collector}
  /\ failed' = TRUE
  /\ Unlock(t)
  /\ UNCHANGED <<pkgVars, ingestMu, late, missed>>

\* The ingest of ensureRunning, without ingestMu.
FirstIngest(t) ==
  /\ \/ Goto(t, "ingest0", "count") /\ UNCHANGED startupMu
     \/ Goto(t, "ingest1", "count") /\ UNCHANGED startupMu
     \/ Goto(t, "ingest1", "undo") /\ UNCHANGED startupMu
     \/ Goto(t, "ingest0", "done") /\ Unlock(t)
  /\ UNCHANGED <<collector, pkgVars, ingestMu, late, failed, missed>>

\* A stop: whoever started the collector, it is gone, unless the command fails.
Stop == collector' = Nobody /\ UNCHANGED failed
StopFails == collector' \in {collector, Nobody} /\ failed' = TRUE

Undo(t) ==
  /\ Goto(t, "undo", "undone")
  /\ Stop \/ StopFails
  /\ UNCHANGED <<pkgVars, startupMu, ingestMu, late, missed>>

Skip(t) ==
  /\ Goto(t, "undone", "done")
  /\ started' = [started EXCEPT ![PackageOf[t]] = FALSE]
  /\ Unlock(t)
  /\ UNCHANGED <<collector, refs, ingestMu, late, failed, missed>>

\* Mutant: the first is not counted.
Counted_NotFirst(n) == IF n = 0 THEN 0 ELSE n + 1
Counted(n) == n + 1
Count(t) ==
  /\ Goto(t, "count", "use")
  /\ refs' = [refs EXCEPT ![PackageOf[t]] = Counted(@)]
  /\ Unlock(t)
  /\ UNCHANGED <<collector, started, ingestMu, late, failed, missed>>

-----------------------------------------------------------------------------
\* WaitForTraces, WaitForMetrics, WaitForLogs; a test may call none of them.

Test(t) ==
  /\ Goto(t, "use", "poll") \/ Goto(t, "use", "close")
  /\ UNCHANGED <<collector, pkgVars, startupMu, ingestMu, late, failed, missed>>

Deadline(t) ==
  /\ pc[t] \in {"poll", "ingest", "query"} /\ ~late[t]
  /\ late' = [late EXCEPT ![t] = TRUE]
  /\ UNCHANGED <<pc, collector, pkgVars, startupMu, ingestMu, met, failed, missed>>

LockIngest(t) ==
  /\ ingestMu[PackageOf[t]] = Nobody
  /\ ingestMu' = [ingestMu EXCEPT ![PackageOf[t]] = t]
  /\ Goto(t, "poll", "ingest")
  /\ UNCHANGED <<collector, pkgVars, startupMu, late, failed, missed>>

\* An ingest that fails ends the test.
Ingest(t) ==
  /\ Goto(t, "ingest", "query") \/ Goto(t, "ingest", "close")
  /\ ingestMu' = [ingestMu EXCEPT ![PackageOf[t]] = Nobody]
  /\ UNCHANGED <<collector, pkgVars, startupMu, late, failed, missed>>

\* Too few records, the deadline not passed: once more.  Mutant: whatever the
\* deadline.
Again_Always(t) == "poll"
Again(t) == IF late[t] THEN "close" ELSE "poll"

\* The records are there, or the query fails, or there are too few of them.
Query(t) ==
  /\ Goto(t, "query", "close") \/ Goto(t, "query", Again(t))
  /\ UNCHANGED <<collector, pkgVars, startupMu, ingestMu, late, failed, missed>>

-----------------------------------------------------------------------------
\* cleanup

\* Mutants: every test stops the collector of its package; the last but one does.
ShouldStop_NotLast(p, n) == started[p]
ShouldStop_OneEarly(p, n) == n = 1 /\ started[p]
ShouldStop(p, n) == n = 0 /\ started[p]

Release(t) ==
  LET p == PackageOf[t]
  IN /\ Goto(t, "close", IF ShouldStop(p, refs[p] - 1) THEN "stop" ELSE "done")
     /\ refs' = [refs EXCEPT ![p] = @ - 1]
     /\ UNCHANGED <<collector, started, startupMu, ingestMu, late, failed, missed>>

StopCollector(t) ==
  /\ \/ Goto(t, "stop", "stopped") /\ Stop
     \/ Goto(t, "stop", "done") /\ StopFails
  /\ UNCHANGED <<pkgVars, startupMu, ingestMu, late, missed>>

Stopped(t) ==
  /\ Goto(t, "stopped", "done")
  /\ started' = [started EXCEPT ![PackageOf[t]] = FALSE]
  /\ UNCHANGED <<collector, refs, startupMu, ingestMu, late, failed, missed>>

AllDone == \A t \in Tests : pc[t] = "done"
Finished == AllDone /\ UNCHANGED vars

Step(t) ==
  \/ LockStartup(t) \/ ReadRefs(t) \/ Health(t)
  \/ StartCollector(t) \/ StartCollectorFails(t)
  \/ FirstIngest(t) \/ Undo(t) \/ Skip(t) \/ Count(t)
  \/ Test(t) \/ LockIngest(t) \/ Ingest(t) \/ Query(t)
  \/ Release(t) \/ StopCollector(t) \/ Stopped(t)

Next == (\E t \in Tests : Start(t) \/ Step(t) \/ Deadline(t)) \/ Finished

\* Go schedules the goroutine of every test, every command has a timeout, every
\* deadline passes.
Spec == Init /\ [][Next]_vars /\ \A t \in Tests : WF_vars(Step(t)) /\ WF_vars(Deadline(t))

-----------------------------------------------------------------------------
\* Properties

\* A collector that ran before the packages came is stopped by one that has taken it
\* for its own after a health check failed (lotelhelper.go:205-216, 309-312), and by
\* nobody else, whatever fails and however tests and packages overlap.
OutsideStoppedOnlyWhenMissed ==
  [][collector = "outside" /\ collector' # "outside" =>
       \E t \in Tests :
         /\ pc[t] \in {"stop", "undo"} /\ pc'[t] # pc[t]
         /\ PackageOf[t] \in missed]_vars

\* While a test has a helper the collector runs, unless a stop met it: one decided
\* before the test was counted (cleanup does not take startupMu), or one of another
\* package, which counts its own tests only.
RunningWhileUsed == ~met /\ At(Using) # {} => collector # Nobody

\* When all tests are over and no start or stop has failed or met anybody, the
\* machine is as it was: the collector a package started is stopped
\* (lotelhelper.go:269-280).
NothingLeft == AllDone /\ ~met /\ ~failed => collector \in {Nobody, "outside"}

\* Nobody waits for ever on startupMu, on ingestMu or for records: Start gives a
\* helper or skips the test, and a test that waits for records gets them or fails.
CallsReturn ==
  \A t \in Tests :
    /\ pc[t] = "lock" ~> pc[t] \in Using \cup {"done"}
    /\ pc[t] = "poll" ~> pc[t] = "close"
=============================================================================
