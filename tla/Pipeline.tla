------------------------------ MODULE Pipeline ------------------------------
(***************************************************************************)
(* What Init of exporters.go assembles, at work: per signal a processor of *)
(* the SDK with a bounded buffer and a worker, behind it the fan-out       *)
(* exporter of devsink_lotel.go, behind that the primary collector (a      *)
(* Receiver) and, where the dev sink was dialled, the dev sink; and the    *)
(* goroutine that calls ForceFlush and Shutdown of the handle.             *)
(*                                                                         *)
(* The processors are the SDK's: they are modelled by what their users may *)
(* rely on.  An exporter that is asked takes the request, refuses it, or    *)
(* stays silent until its context is done (the collector hangs, or the     *)
(* exporter retries against one it cannot reach), differently each time.   *)
(* Time passes only while something is silent: every timeout is long       *)
(* compared with an answer.                                                *)
(***************************************************************************)
EXTENDS Receiver, FiniteSets

CONSTANTS
  Compositions, \* for which signals the dev sink may have been dialled
  Flushable,    \* the signals whose exporter has a ForceFlush
  MaxRecords,   \* MaxRecords[s]: bound on what is recorded
  QueueSize,    \* bound of a processor's buffer
  BatchSize,    \* records per request
  MaxFlushes    \* bound on the calls of ForceFlush

ASSUME PipelineAssumption ==
  /\ Compositions \subseteq SUBSET SignalSet
  /\ Flushable \subseteq SignalSet
  /\ MaxRecords \in [SignalSet -> Nat]
  /\ \A s \in SignalSet : 1..MaxRecords[s] \subseteq Records
  /\ {QueueSize, BatchSize} \subseteq Nat \ {0}
  /\ MaxFlushes \in Nat

VARIABLES
  composed,  \* the signals whose exporter is a pair: the dev sink was dialled
  fate,      \* fate[s][r]: what has become of a record
  job,       \* job[s]: the call of the exporter of s that is under way
  stopped,   \* the signals whose processor takes nothing any more
  closed,    \* closed[s]: which of its exporters have been shut down
  devAsked,  \* devAsked[s]: what the dev sink has been asked to take
  call,      \* the call of ForceFlush or Shutdown that is under way
  blame,     \* history: the signals whose primary failed during the call
  vouched    \* history: what the last call vouches for

exportVars == <<composed, fate, job, stopped, closed, devAsked, blame, vouched>>
pipelineVars == <<exportVars, call>>
vars == <<receiverVars, pipelineVars>>

Fates == {"unborn", "waiting", "taken", "answered", "refused", "dropped"}
Idle == [stage |-> "idle", op |-> "export", batch |-> {}, err |-> FALSE, time |-> "left"]
Jobs == [stage : {"idle", "primary", "dev"}, op : {"export", "flush", "stop"},
         batch : SUBSET Records, err : BOOLEAN, time : {"left", "passing", "up"}]
Invocations ==
  [op : {"none", "flush", "shutdown", "over"}, at : Nat \ {0},
   hook : {"out", "drain", "settle"}, goal : SUBSET Records, errs : SUBSET SignalSet,
   late : BOOLEAN, flushes : Nat, before : [SignalSet -> SUBSET Records]]
Nobody == [s \in SignalSet |-> {}]
NoCall == [op |-> "none", at |-> 1, hook |-> "out", goal |-> {}, errs |-> {},
           late |-> FALSE, flushes |-> 0,
           before |-> Nobody]

TypeOK ==
  /\ ReceiverTypeOK
  /\ composed \in SUBSET SignalSet
  /\ fate \in [SignalSet -> [Records -> Fates]]
  /\ job \in [SignalSet -> Jobs]
  /\ \A s \in SignalSet : job[s].stage = "dev" => s \in composed
  /\ stopped \in SUBSET SignalSet
  /\ closed \in [SignalSet -> SUBSET {"primary", "dev"}]
  /\ devAsked \in [SignalSet -> SUBSET Records]
  /\ call \in Invocations
  /\ blame \in SUBSET SignalSet
  /\ vouched \in [SignalSet -> SUBSET Records]

Init ==
  /\ ReceiverInit
  /\ composed \in Compositions
  /\ fate = [s \in SignalSet |-> [r \in Records |-> "unborn"]]
  /\ job = [s \in SignalSet |-> Idle]
  /\ stopped = {}
  /\ closed = Nobody
  /\ devAsked = Nobody
  /\ call = NoCall
  /\ blame = {}
  /\ vouched = Nobody

-----------------------------------------------------------------------------

Born(s) == {r \in Records : fate[s][r] # "unborn"}
With(s, f) == {r \in Records : fate[s][r] = f}
Become(s, batch, f) ==
  [fate EXCEPT ![s] = [r \in Records |-> IF r \in batch THEN f ELSE @[r]]]
Waiting(s) == With(s, "waiting")

\* The records that the primary exporter of s has answered for.
Asked(s) ==
  With(s, "answered") \cup With(s, "refused")
    \cup (IF job[s].stage = "dev" THEN job[s].batch ELSE {})

\* The providers whose methods are the hooks, in order; mutant: the third is
\* missing from the lists.
HookedSignals_NoTraces == SubSeq(Signals, 1, Len(Signals) - 1)
HookedSignals == Signals

AtHook(s) ==
  call.hook # "out" /\ call.at \in DOMAIN HookedSignals /\ HookedSignals[call.at] = s

\* A method of a pair goes on to the dev sink; mutants: of a primary alone too, and
\* not if the primary has failed.
GoesToDev_Always(s, op, err) == TRUE
GoesToDev_Unfailed(s, op, err) == s \in composed /\ ~err
GoesToDev(s, op, err) == s \in composed

\* What a method of a pair returns; mutant: the dev sink's error too.
PairError_Joined(err, devErr) == err \/ devErr
PairError(err, devErr) == err

\* The processor is given an export timeout, which is the context of both
\* exporters; mutants: there is none, and the dev sink runs without it.
Limited_Never(s) == FALSE
Limited_PrimaryOnly(s) == job[s].stage = "primary"
Limited(s) == TRUE

\* The exporter that was asked has not answered, and its context is not done.
Silent(s) == job[s].time = "passing"
Late(s) == job[s].time = "up"

-----------------------------------------------------------------------------
(***************************************************************************)
(* The processor of the SDK.                                               *)
(***************************************************************************)

\* The application records: a full buffer drops the new record or an older one,
\* a stopped processor drops it.
Record(s) ==
  LET r == Cardinality(Born(s)) + 1
      full == Cardinality(Waiting(s)) >= QueueSize
  IN
  /\ r <= MaxRecords[s]
  /\ IF s \in stopped THEN fate' = Become(s, {r}, "dropped")
     ELSE IF ~full THEN fate' = Become(s, {r}, "waiting")
     ELSE \E victim \in Waiting(s) \cup {r} :
            fate' = [fate EXCEPT ![s][r] = "waiting", ![s][victim] = "dropped"]
  /\ UNCHANGED <<receiverVars, composed, job, stopped, closed, devAsked, call,
                 blame, vouched>>

\* The oldest records, as many as a request holds.
NextBatch(s) ==
  {r \in Waiting(s) : Cardinality({q \in Waiting(s) : q < r}) < BatchSize}

\* By its interval, by a full batch, or for a hook, the worker starts an export.
TakeBatch(s) ==
  /\ job[s].stage = "idle"
  /\ closed[s] = {}
  /\ Waiting(s) # {}
  /\ job' = [job EXCEPT ![s] = [Idle EXCEPT !.stage = "primary", !.batch = NextBatch(s)]]
  /\ fate' = Become(s, NextBatch(s), "taken")
  /\ call' = IF AtHook(s) THEN [call EXCEPT !.goal = @ \ NextBatch(s)] ELSE call
  /\ UNCHANGED <<receiverVars, composed, stopped, closed, devAsked,
                 blame, vouched>>

\* WithExportTimeout: the context of the export is done.
ExportExpires(s) ==
  /\ Limited(s)
  /\ Silent(s)
  /\ job' = [job EXCEPT ![s].time = "up"]
  /\ UNCHANGED <<receiverVars, composed, fate, stopped, closed, devAsked, call,
                 blame, vouched>>

-----------------------------------------------------------------------------
(***************************************************************************)
(* The fan-out exporters: Export, ForceFlush and Shutdown of a pair, or of *)
(* the primary alone.                                                      *)
(***************************************************************************)

\* What the primary may do: whether it fails, and whether it keeps the request;
\* one that was not answered in time may have been kept all the same.
PrimaryAnswers(s) ==
  CASE job[s].op = "flush" -> {<<FALSE, FALSE>>}
    [] job[s].op = "stop" -> {<<FALSE, FALSE>>, <<TRUE, FALSE>>}
    [] Late(s) -> {<<TRUE, FALSE>>, <<TRUE, TRUE>>}
    [] OTHER -> {<<FALSE, TRUE>>, <<TRUE, FALSE>>}

\* The exporter asked for an export does not answer.
FallsSilent(s) ==
  /\ job[s].stage # "idle"
  /\ job[s].op = "export"
  /\ job[s].time = "left"
  /\ job' = [job EXCEPT ![s].time = "passing"]
  /\ UNCHANGED <<receiverVars, composed, fate, stopped, closed, devAsked, call, blame,
                 vouched>>

Leave(errs) == [call EXCEPT !.hook = "out", !.at = @ + 1, !.goal = {},
                            !.errs = @ \cup errs]

\* return err.  The processor tells the hook it works for of a failed export, or
\* reports it elsewhere; the exporter's ForceFlush or Shutdown ends the hook.
Conclude(s, err) ==
  LET mine == IF err THEN {s} ELSE {} IN
  /\ job' = [job EXCEPT ![s] = Idle]
  /\ IF job[s].op = "export"
       THEN /\ fate' = Become(s, job[s].batch, IF err THEN "refused" ELSE "answered")
            /\ \E told \in {{}, mine} :
                 call' = IF AtHook(s) THEN [call EXCEPT !.errs = @ \cup told] ELSE call
       ELSE /\ fate' = fate
            /\ call' = IF AtHook(s) /\ call.hook = "settle" THEN Leave(mine) ELSE call

Close(s, exporter) ==
  closed' = IF job[s].op = "stop"
              THEN [closed EXCEPT ![s] = @ \cup {exporter}] ELSE closed

\* err := e.primary.Export(ctx, ...), ForceFlush(ctx) or Shutdown(ctx)
AskPrimary(s) ==
  /\ job[s].stage = "primary"
  /\ ~Silent(s)
  /\ \E a \in PrimaryAnswers(s) :
       LET failed == a[1]  keeps == a[2] IN
       /\ IF keeps THEN AppendRequest(s, job[s].batch) ELSE kept' = kept
       /\ blame' = IF failed THEN blame \cup {s} ELSE blame
       /\ IF GoesToDev(s, job[s].op, failed)
            THEN /\ job' = [job EXCEPT ![s].stage = "dev", ![s].err = failed]
                 /\ UNCHANGED <<fate, call>>
            ELSE Conclude(s, failed)
  /\ Close(s, "primary")
  /\ UNCHANGED <<waiter, composed, stopped, devAsked, vouched>>

\* _ = e.dev.Export(ctx, ...), ForceFlush(ctx) or Shutdown(ctx)
AskDev(s) ==
  /\ job[s].stage = "dev"
  /\ ~Silent(s)
  /\ \E devErr \in IF Late(s) THEN {TRUE} ELSE BOOLEAN :
       Conclude(s, PairError(job[s].err, devErr))
  /\ devAsked' = [devAsked EXCEPT ![s] = @ \cup job[s].batch]
  /\ Close(s, "dev")
  /\ UNCHANGED <<receiverVars, composed, stopped, blame, vouched>>

-----------------------------------------------------------------------------
(***************************************************************************)
(* ForceFlush and Shutdown of the handle: the providers' hooks in order,   *)
(* with one context.                                                       *)
(***************************************************************************)

Start(op, flushes) ==
  /\ call.op = "none"
  /\ call' = [NoCall EXCEPT !.op = op, !.flushes = flushes,
                           !.before = [s \in SignalSet |-> Born(s)]]
  /\ blame' = {s \in SignalSet : job[s].err}
  /\ vouched' = Nobody
  /\ UNCHANGED <<kept, composed, fate, job, stopped, closed, devAsked>>

CallForceFlush ==
  /\ waiter.at = "idle" /\ waiter' = waiter
  /\ call.flushes < MaxFlushes
  /\ Start("flush", call.flushes + 1)

\* A test shuts down when it has done with what it waited for.
CallShutdown ==
  /\ waiter.at \in {"idle", "done"}
  /\ waiter' = NotWaiting
  /\ Start("shutdown", 0)

Running == call.op \in {"flush", "shutdown"}

\* callAll calls the next hook: the processor takes stock, and with Shutdown
\* takes no more.
EnterHook ==
  /\ Running
  /\ call.hook = "out"
  /\ call.at \in DOMAIN HookedSignals
  /\ LET s == HookedSignals[call.at] IN
     /\ call' = [call EXCEPT !.hook = "drain", !.goal = Waiting(s)]
     /\ stopped' = IF call.op = "shutdown" THEN stopped \cup {s} ELSE stopped
  /\ UNCHANGED <<receiverVars, composed, fate, job, closed, devAsked,
                 blame, vouched>>

\* Everything that was waiting has been exported: the exporter is flushed or
\* shut down.  A trace exporter has nothing to flush.
SettleHook(s) ==
  /\ AtHook(s)
  /\ call.hook = "drain"
  /\ job[s].stage = "idle"
  /\ call.goal \cap Waiting(s) = {}
  /\ IF call.op = "flush" /\ s \notin Flushable
       THEN call' = Leave({}) /\ job' = job
       ELSE /\ call' = [call EXCEPT !.hook = "settle"]
            /\ job' = [job EXCEPT ![s] = [Idle EXCEPT !.stage = "primary",
                         !.op = IF call.op = "flush" THEN "flush" ELSE "stop"]]
  /\ UNCHANGED <<receiverVars, composed, fate, stopped, closed, devAsked,
                 blame, vouched>>

\* The context is done: the hook returns its error, whatever is still to do.
GiveUpHook ==
  /\ call.late
  /\ call.hook # "out"
  /\ call' = Leave({HookedSignals[call.at]})
  /\ UNCHANGED <<receiverVars, exportVars>>

\* A processor whose Shutdown was given up goes on stopping in the background.
StopInBackground(s) ==
  /\ s \in stopped
  /\ ~AtHook(s)
  /\ job[s].stage = "idle"
  /\ closed[s] = {}
  /\ job' = [job EXCEPT ![s] = [Idle EXCEPT !.stage = "primary", !.op = "stop"]]
  /\ UNCHANGED <<receiverVars, composed, fate, stopped, closed, devAsked, call,
                 blame, vouched>>

\* The hooks are through: the joined error is returned.
EndCall ==
  /\ Running
  /\ call.hook = "out"
  /\ call.at \notin DOMAIN HookedSignals
  /\ call' = [NoCall EXCEPT !.flushes = call.flushes, !.late = call.late,
                           !.op = IF call.op = "flush" THEN "none" ELSE "over"]
  /\ vouched' = IF call.errs = {} \/ (call.op = "shutdown" /\ ~call.late)
                   THEN call.before ELSE Nobody
  /\ blame' = {}
  /\ UNCHANGED <<receiverVars, composed, fate, job, stopped, closed, devAsked>>

\* The deadline of the caller's context, if it has one, passes while something
\* is silent.
CallExpires ==
  /\ Running
  /\ ~call.late
  /\ \E s \in SignalSet : Silent(s)
  /\ call' = [call EXCEPT !.late = TRUE]
  /\ UNCHANGED <<receiverVars, exportVars>>

-----------------------------------------------------------------------------
(***************************************************************************)
(* A test, which waits for what the primary has kept.                      *)
(***************************************************************************)

\* After its ForceFlush a test waits for everything recorded.
TestWaits ==
  /\ call.op = "none" /\ call.flushes > 0
  /\ CallWaitFor([s \in SignalSet |-> Born(s)])
  /\ UNCHANGED pipelineVars

TestGoesOn ==
  /\ Look \/ GiveUp
  /\ UNCHANGED pipelineVars

Worker(s) ==
  \/ Record(s)
  \/ TakeBatch(s)
  \/ ExportExpires(s)
  \/ FallsSilent(s)
  \/ AskPrimary(s)
  \/ AskDev(s)
  \/ SettleHook(s)
  \/ StopInBackground(s)

Next ==
  \/ \E s \in SignalSet : Worker(s)
  \/ CallForceFlush
  \/ CallShutdown
  \/ EnterHook
  \/ GiveUpHook
  \/ EndCall
  \/ CallExpires
  \/ TestWaits
  \/ TestGoesOn

(***************************************************************************)
(* Goroutines run and export timeouts pass; a deadline of the caller need  *)
(* not.  The interval starts an export while the processor lives, and a    *)
(* hook has what it waits for exported; after a hook was given up nothing  *)
(* is sure.                                                                *)
(***************************************************************************)
Fairness ==
  /\ \A s \in SignalSet :
       /\ WF_vars((s \notin stopped \/ AtHook(s)) /\ TakeBatch(s))
       /\ WF_vars(ExportExpires(s) \/ AskPrimary(s) \/ AskDev(s))
       /\ WF_vars(SettleHook(s))
  /\ WF_vars(EnterHook \/ GiveUpHook \/ EndCall)

Spec == Init /\ [][Next]_vars /\ Fairness

-----------------------------------------------------------------------------
\* Properties

\* The dev sink is asked to take exactly what the primary has answered for,
\* never before it, and whatever the primary answered.
DevFollowsPrimary ==
  \A s \in SignalSet :
    /\ devAsked[s] \subseteq Asked(s)
    /\ s \in composed /\ job[s].stage = "idle" => devAsked[s] = Asked(s)

\* Neither ForceFlush nor Shutdown reports an error for which no primary exporter
\* is to blame, unless the deadline has passed: whatever the dev sink does, its
\* errors stop at the pair (devsink_lotel.go:89-151, docs/env-vars.md:188).
OnlyPrimaryFails == call.errs # {} => call.late \/ call.errs \subseteq blame

\* A ForceFlush without error and a Shutdown in time vouch for what was recorded
\* before them, on every signal: the primary was asked to take it or the full
\* buffer dropped it, never is it forgotten in a processor; and what an exporter
\* reports as delivered is there (exporters.go:83-94).
CallsVouch ==
  \A s \in SignalSet :
    /\ vouched[s] \subseteq Asked(s) \cup With(s, "dropped")
    /\ With(s, "answered") \subseteq Contents(kept[s])

\* A Shutdown of a pair reaches both exporters though the primary's fails, and
\* a Shutdown of the handle that was in time leaves no exporter at work.
StopReachesBoth ==
  \A s \in SignalSet :
    /\ closed[s] # {} /\ job[s].stage = "idle" =>
         closed[s] = IF s \in composed THEN {"primary", "dev"} ELSE {"primary"}
    /\ call.op = "over" /\ ~call.late =>
         closed[s] # {} /\ job[s].stage = "idle"

\* Both exporters of a pair are asked, whatever the primary answers, from the first
\* request to the Shutdown, the dev sink perhaps with a context that has ended
\* (devsink_lotel.go:87-151).
PairStaysTogether == DevFollowsPrimary /\ StopReachesBoth

\* Every ForceFlush and Shutdown returns, also without a deadline and with
\* collectors that never answer: no export outlives its timeout
\* (exporters.go:225-256).
CallsReturn == Running ~> ~Running

\* A hung dev sink delays the primary but does not starve it: whatever waits in
\* a live processor is put to the primary in the end, or dropped by a full
\* buffer (exporters.go:225-256, devsink_lotel.go:87).
PrimaryIsAsked ==
  \A s \in SignalSet : \A r \in 1..MaxRecords[s] :
    (fate[s][r] = "waiting") ~>
      (r \in Asked(s) \/ fate[s][r] = "dropped" \/ s \in stopped)
=============================================================================
