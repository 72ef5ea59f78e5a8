------------------------------ MODULE Cleanup ------------------------------
(***************************************************************************)
(* The lifecycle handle of cleanup.go: a Shutdown holds two lists of hooks *)
(* (one ForceFlush and one Shutdown method per OpenTelemetry provider), a  *)
(* mutex, and a "has been shut down" flag with the error of the first run. *)
(*                                                                         *)
(* Any number of goroutines use one handle.  Each element of Calls is one  *)
(* invocation of ForceFlush or Shutdown; a goroutine that calls twice is   *)
(* two elements, the second of which starts after the first has returned.  *)
(*                                                                         *)
(* An error joined by errors.Join is the set of the components whose hook  *)
(* failed; the nil error is the empty set.                                 *)
(***************************************************************************)
EXTENDS Integers, Sequences

CONSTANTS
  Calls,          \* invocations of the two methods
  Bounded,        \* the invocations whose context has a deadline
  NoCall,         \* no invocation: the mutex is free, the flag is not set
  Components,     \* the providers behind the hooks
  NilHook,        \* a nil function in a list of hooks
  FlushHooks,     \* Shutdown.forceFlush
  ShutdownHooks   \* Shutdown.shutdown

ASSUME CallsAssumption == Bounded \subseteq Calls /\ NoCall \notin Calls

ASSUME HooksAssumption ==
  /\ NilHook \notin Components
  /\ FlushHooks \in Seq(Components \cup {NilHook})
  /\ ShutdownHooks \in Seq(Components \cup {NilHook})

Distinct(list) ==
  \A i, j \in DOMAIN list : list[i] = list[j] /\ list[i] # NilHook => i = j

\* exporters.go:83-94 hands over one hook of each kind per provider.
ASSUME DistinctAssumption == Distinct(FlushHooks) /\ Distinct(ShutdownHooks)

VARIABLES
  handle,       \* "live", or "nil" for the nil *Shutdown a failed Init returns
  mu,           \* the invocation that holds s.mu, or NoCall
  shutDown,     \* s.shutDown
  shutdownErr,  \* s.shutdownErr
  op,           \* the method each invocation runs
  pc,           \* where each invocation is
  idx,          \* the position of its callAll loop
  err,          \* the error it has joined so far and, once done, returns
  expired,      \* whether its context is done
  answer,       \* answer[p][c]: what the hook of c told invocation p
  drainer,      \* history: the invocation that set the flag
  prior         \* history: the invocations that had returned when p started

handleVars == <<handle, shutDown, shutdownErr, drainer>>
callVars == <<op, idx, err, expired, answer, prior>>
vars == <<handleVars, mu, pc, callVars>>

Ops == {"none", "flush", "shutdown"}
PCs == {"idle", "lock", "check", "call", "wait", "relock", "publish", "done"}
Answers == {"none", "open", "ok", "failed"}

TypeOK ==
  /\ handle \in {"live", "nil"}
  /\ mu \in Calls \cup {NoCall}
  /\ shutDown \in BOOLEAN
  /\ shutdownErr \in SUBSET Components
  /\ op \in [Calls -> Ops]
  /\ pc \in [Calls -> PCs]
  /\ idx \in [Calls -> Nat \ {0}]
  /\ err \in [Calls -> SUBSET Components]
  /\ expired \in [Calls -> BOOLEAN]
  /\ answer \in [Calls -> [Components -> Answers]]
  /\ drainer \in Calls \cup {NoCall}
  /\ prior \in [Calls -> SUBSET Calls]

Init ==
  /\ handle \in {"live", "nil"}
  /\ mu = NoCall
  /\ shutDown = FALSE
  /\ shutdownErr = {}
  /\ op = [p \in Calls |-> "none"]
  /\ pc = [p \in Calls |-> "idle"]
  /\ idx = [p \in Calls |-> 1]
  /\ err = [p \in Calls |-> {}]
  /\ expired = [p \in Calls |-> FALSE]
  /\ answer = [p \in Calls |-> [c \in Components |-> "none"]]
  /\ drainer = NoCall
  /\ prior = [p \in Calls |-> {}]

-----------------------------------------------------------------------------

Reverse(s) == [i \in DOMAIN s |-> s[Len(s) + 1 - i]]

\* The list callAll goes through; mutant: last in, first out.
Hooks_Reversed(p) == Reverse(IF op[p] = "flush" THEN FlushHooks ELSE ShutdownHooks)
Hooks(p) == IF op[p] = "flush" THEN FlushHooks ELSE ShutdownHooks

\* The loop is over; mutant: it stops at the first error.
AtEnd_FirstError(p) == idx[p] \notin DOMAIN Hooks(p) \/ err[p] # {}
AtEnd(p) == idx[p] \notin DOMAIN Hooks(p)

\* The hook at the loop's position is nil; mutant: nobody looks.
AtNil_Unchecked(p) == FALSE
AtNil(p) == Hooks(p)[idx[p]] = NilHook

\* s.mu can be locked; mutant: it is held across the shutdown hooks.
Unlocked_AcrossHooks ==
  mu = NoCall /\ \A q \in Calls : op[q] = "shutdown" => pc[q] \notin {"call", "wait"}
Unlocked == mu = NoCall

\* The hooks are this call's to run; mutant: whatever the flag says.
Claimable_Always == TRUE
Claimable == ~shutDown

\* What a call that finds the flag set returns; mutant: what the running call has
\* joined so far.
StoredAnswer_Partial == err[drainer]
StoredAnswer == shutdownErr

\* The context has a deadline; mutant: ForceFlush drops its context.
HasDeadline_ShutdownOnly(p) == p \in Bounded /\ op[p] = "shutdown"
HasDeadline(p) == p \in Bounded

-----------------------------------------------------------------------------

Goto(p, from, to) == pc[p] = from /\ pc' = [pc EXCEPT ![p] = to]

\* An invocation starts; on a nil handle both methods return at once.
Start(p, method, first) ==
  /\ Goto(p, "idle", IF handle = "nil" THEN "done" ELSE first)
  /\ op' = [op EXCEPT ![p] = method]
  /\ prior' = [prior EXCEPT ![p] = {q \in Calls : pc[q] = "done"}]
  /\ UNCHANGED <<handleVars, mu, idx, err, expired, answer>>

CallForceFlush(p) == Start(p, "flush", "call")
CallShutdown(p) == Start(p, "shutdown", "lock")

Lock(p, from, to) ==
  /\ Unlocked
  /\ mu' = p
  /\ Goto(p, from, to)
  /\ UNCHANGED <<handleVars, callVars>>

\* s.mu.Lock() before the flag is read, and before the error is stored.
Acquire(p) == Lock(p, "lock", "check")
Reacquire(p) == Lock(p, "relock", "publish")

\* The flag is set: return the stored error, whatever it holds by now.
AlreadyShutDown(p) ==
  /\ shutDown
  /\ Goto(p, "check", "done")
  /\ err' = [err EXCEPT ![p] = StoredAnswer]
  /\ mu' = NoCall
  /\ UNCHANGED <<handleVars, op, idx, expired, answer, prior>>

\* The flag is not set: set it and unlock before calling any hook.
ClaimShutdown(p) ==
  /\ Claimable
  /\ Goto(p, "check", "call")
  /\ shutDown' = TRUE
  /\ drainer' = p
  /\ mu' = NoCall
  /\ UNCHANGED <<handle, shutdownErr, callVars>>

\* callAll: a nil hook is skipped.
SkipNilHook(p) ==
  /\ pc[p] = "call" /\ ~AtEnd(p) /\ AtNil(p)
  /\ idx' = [idx EXCEPT ![p] = @ + 1]
  /\ UNCHANGED <<handleVars, mu, pc, op, err, expired, answer, prior>>

\* callAll: the next hook is called.
EnterHook(p) ==
  /\ ~AtEnd(p) /\ ~AtNil(p)
  /\ Goto(p, "call", "wait")
  /\ answer' = [answer EXCEPT ![p][Hooks(p)[idx[p]]] = "open"]
  /\ UNCHANGED <<handleVars, mu, op, idx, err, expired, prior>>

\* callAll: the hook returns; an error is joined and the loop goes on.
HookReturns(p) ==
  /\ Goto(p, "wait", "call")
  /\ \E result \in {"ok", "failed"} :
       LET c == Hooks(p)[idx[p]] IN
       /\ answer' = [answer EXCEPT ![p][c] = result]
       /\ err' = [err EXCEPT ![p] = IF result = "failed" THEN @ \cup {c} ELSE @]
  /\ idx' = [idx EXCEPT ![p] = @ + 1]
  /\ UNCHANGED <<handleVars, mu, op, expired, prior>>

\* callAll has gone through its list.
EndOfHooks(p) ==
  /\ AtEnd(p)
  /\ Goto(p, "call", IF op[p] = "flush" THEN "done" ELSE "relock")
  /\ UNCHANGED <<handleVars, mu, callVars>>

\* Store the error, unlock, return it.
Publish(p) ==
  /\ Goto(p, "publish", "done")
  /\ shutdownErr' = err[p]
  /\ mu' = NoCall
  /\ UNCHANGED <<handle, shutDown, drainer, callVars>>

\* The deadline of a context passes while the invocation runs.
Expire(p) ==
  /\ HasDeadline(p)
  /\ pc[p] \notin {"idle", "done"}
  /\ ~expired[p]
  /\ expired' = [expired EXCEPT ![p] = TRUE]
  /\ UNCHANGED <<handleVars, mu, pc, op, idx, err, answer, prior>>

\* The code between two blocking points; it never waits.
Run(p) ==
  \/ AlreadyShutDown(p)
  \/ ClaimShutdown(p)
  \/ SkipNilHook(p)
  \/ EnterHook(p)
  \/ EndOfHooks(p)
  \/ Publish(p)

\* Every call has returned: nothing is left to do.
Quiescent ==
  /\ \A p \in Calls : pc[p] = "done"
  /\ UNCHANGED vars

Step(p) ==
  \/ CallForceFlush(p)
  \/ CallShutdown(p)
  \/ Acquire(p)
  \/ Reacquire(p)
  \/ Run(p)
  \/ HookReturns(p)
  \/ Expire(p)

Next == (\E p \in Calls : Step(p)) \/ Quiescent

(***************************************************************************)
(* Go schedules every runnable goroutine and hands the mutex to every      *)
(* waiter in the end (sync.Mutex's starvation mode).  A hook is only sure  *)
(* to return once its context is done: with an unreachable collector and   *)
(* no deadline it may hang for ever.  A deadline passes.                   *)
(***************************************************************************)
Fairness ==
  \A p \in Calls :
    /\ WF_vars(Run(p) \/ Expire(p) \/ (expired[p] /\ HookReturns(p)))
    /\ SF_vars(Acquire(p) \/ Reacquire(p))

Spec == Init /\ [][Next]_vars /\ Fairness

-----------------------------------------------------------------------------
\* Properties

Failed(p) == {c \in Components : answer[p][c] = "failed"}
Returned(p, method) == handle = "live" /\ op[p] = method /\ pc[p] = "done"
Published == drainer # NoCall /\ pc[drainer] = "done"

\* No provider's Shutdown is ever entered on behalf of two invocations, however
\* the callers interleave around the two critical sections (cleanup.go:39-47).
ShutdownHooksRunOnce ==
  \A p, q \in Calls : \A c \in Components :
    /\ op[p] = "shutdown" /\ answer[p][c] # "none"
    /\ op[q] = "shutdown" /\ answer[q][c] # "none"
    => p = q

\* Logs, metrics, traces in that order: a hook is called only when every hook
\* before it in its list has returned, failed or not (cleanup.go:26,34,58-66).
HooksInOrder ==
  \A p \in Calls :
    LET list == IF op[p] = "flush" THEN FlushHooks ELSE ShutdownHooks IN
    \A i, j \in DOMAIN list :
      /\ i < j
      /\ list[i] # NilHook
      /\ list[j] # NilHook
      /\ answer[p][list[j]] # "none"
      => answer[p][list[i]] \in {"ok", "failed"}

\* An early failure or an exhausted deadline never makes callAll skip a later
\* provider, and no failure is lost from the joined error: a flush reports all
\* of its failures, and the stored error is all of the failures of the one
\* shutdown run (cleanup.go:49-53,58-66).
NothingSkipped ==
  /\ \A p \in Calls : Returned(p, "flush") =>
       /\ err[p] = Failed(p)
       /\ \A i \in DOMAIN FlushHooks :
            FlushHooks[i] # NilHook => answer[p][FlushHooks[i]] \in {"ok", "failed"}
  /\ Published =>
       /\ shutdownErr = Failed(drainer)
       /\ \A i \in DOMAIN ShutdownHooks :
            ShutdownHooks[i] # NilHook =>
              answer[drainer][ShutdownHooks[i]] \in {"ok", "failed"}

\* The idempotence that does hold: a Shutdown that starts after the one that
\* ran the hooks has returned gets exactly that one's error.
LaterCallSameError ==
  \A p \in Calls :
    Returned(p, "shutdown") /\ drainer \in prior[p] => err[p] = err[drainer]

\* What a Shutdown returns without running the hooks is either nothing or the
\* whole joined error, never a part of it, even while the hooks are running.
NeverPartialError ==
  \A p \in Calls :
    Returned(p, "shutdown") => err[p] \in {{}, Failed(drainer)}

\* Once the shutdown run has been published, no step changes the stored error,
\* re-arms the flag or calls a shutdown hook again.
FinalStep ==
  Published =>
    /\ UNCHANGED <<shutDown, shutdownErr, drainer>>
    /\ \A p \in Calls : op'[p] = "shutdown" => answer'[p] = answer[p]
FinalIsFinal == [][FinalStep]_vars

\* The mutex is not held across the hooks, so a second Shutdown returns even
\* when the first hangs for ever in a hook without a deadline.
LateShutdownNeverBlocks ==
  \A p \in Calls : (pc[p] = "lock" /\ shutDown) ~> (pc[p] = "done")

\* A call whose context has a deadline returns, whatever the hooks of the other
\* calls do.
BoundedCallReturns ==
  \A p \in Bounded : (pc[p] # "idle") ~> (pc[p] = "done")

\* docs/bootstrap-design.md:250 "Methods are idempotent and return the same
\* joined error on repeated calls."
RepeatedCallsSameError ==
  \A p, q \in Calls :
    Returned(p, "shutdown") /\ Returned(q, "shutdown") => err[p] = err[q]
-----------------------------------------------------------------------------
(***************************************************************************)
(* Refinement: the handle as OneShutdown sees it.                          *)
(***************************************************************************)
PhaseOf ==
  IF handle = "nil" THEN "absent"
  ELSE IF ~shutDown THEN "open"
  ELSE IF Published THEN "closed" ELSE "draining"

OutcomeOf ==
  [c \in Components |->
    IF drainer # NoCall /\ answer[drainer][c] \in {"ok", "failed"}
      THEN answer[drainer][c] ELSE "none"]

RepliedOf == {p \in Calls : op[p] = "shutdown" /\ pc[p] = "done"}

ReplyOf == [p \in Calls |-> IF p \in RepliedOf THEN err[p] ELSE {}]

Once == INSTANCE OneShutdown
  WITH phase <- PhaseOf, outcome <- OutcomeOf,
       replied <- RepliedOf, reply <- ReplyOf

\* The mutex, the flag and the loop implement the promise of OneShutdown: the
\* two critical sections and the unlocked hooks between them behave as one
\* ordered shutdown run and an atomic reply per caller (cleanup.go:35-67).
ImplementsOneShutdown == Once!ASpec
=============================================================================
