------------------------------ MODULE Receiver ------------------------------
(***************************************************************************)
(* The in-process collector of internal/otlptest/receiver.go: a gRPC       *)
(* server that keeps every request it is sent, per signal, and a test that *)
(* waits until what has been kept satisfies its predicate.  A server that  *)
(* has been stopped (Receiver.Shutdown) is one of the collectors that      *)
(* refuse, which Pipeline has.                                             *)
(*                                                                         *)
(* A request is the set of the records in it.  A predicate asks for        *)
(* certain records; want[s] are the ones of signal s.                      *)
(***************************************************************************)
EXTENDS Integers, Sequences, SequencesExt

CONSTANTS
  Signals,   \* logs, metrics and traces, in the order of the handle's hooks
  Records    \* what can be recorded, numbered per signal

VARIABLES
  kept,     \* kept[s]: Receiver.traces, .metrics or .logs
  waiter    \* the test's WaitFor

receiverVars == <<kept, waiter>>

SignalSet == ToSet(Signals)

\* A signal has one provider (exporters.go:83-94).
ASSUME SignalsAssumption == Signals \in Seq(SignalSet) /\ IsInjective(Signals)

Nothing == [s \in SignalSet |-> <<>>]

ReceiverTypeOK ==
  /\ kept \in [SignalSet -> Seq(SUBSET Records)]
  /\ waiter \in [at : {"idle", "look", "select", "done"},
                 want : [SignalSet -> SUBSET Records],
                 snap : [SignalSet -> Seq(SUBSET Records)],
                 err : BOOLEAN, sure : BOOLEAN]

\* No WaitFor is under way.  sure is history: the predicate held at the call.
NotWaiting == [at |-> "idle", want |-> [s \in SignalSet |-> {}], snap |-> Nothing,
               err |-> FALSE, sure |-> FALSE]

ReceiverInit ==
  /\ kept = Nothing
  /\ waiter = NotWaiting

\* The records in the requests of one signal.
Contents(requests) == UNION ToSet(requests)

\* The predicate of a test.
Satisfied(want, snap) == \A s \in SignalSet : want[s] \subseteq Contents(snap[s])

\* Export appends the request and then answers; Pipeline says who calls it.
AppendRequest(s, request) == kept' = [kept EXCEPT ![s] = Append(@, request)]

\* Snapshot copies all three slices under the lock.
Snapshot == kept

\* Where the loop finds out that the context is done, which may be at any time;
\* mutant: before it has looked.
GivesUp_First == waiter.at \in {"look", "select"}
GivesUp == waiter.at = "select"

-----------------------------------------------------------------------------

\* A test calls WaitFor.
CallWaitFor(want) ==
  /\ waiter.at = "idle"
  /\ waiter' = [waiter EXCEPT !.at = "look", !.want = want,
                              !.sure = Satisfied(want, kept)]
  /\ UNCHANGED kept

\* One round, the first or after the ticker: copy, and evaluate the predicate on
\* the copy.  With ticker and context both ready, either case is taken.
Look ==
  /\ waiter.at \in {"look", "select"}
  /\ waiter' = [waiter EXCEPT !.snap = Snapshot,
                              !.at = IF Satisfied(waiter.want, Snapshot)
                                       THEN "done" ELSE "select"]
  /\ UNCHANGED kept

\* select: the context is done; the copy of this round is returned with it.
GiveUp ==
  /\ GivesUp
  /\ waiter' = [waiter EXCEPT !.at = "done", !.err = TRUE]
  /\ UNCHANGED kept

-----------------------------------------------------------------------------
\* Properties

\* What WaitFor returns is true of the receiver: without an error the copy holds
\* what was asked for and is a copy of what was received, in order; with one the
\* records were not all there at the call, so that a test that asks for what is
\* known to have arrived never fails, not even with a context that is done
\* already (receiver.go:93-109).
WaitTellsTruth ==
  waiter.at = "done" =>
    /\ \A s \in SignalSet : IsPrefix(waiter.snap[s], kept[s])
    /\ ~waiter.err => Satisfied(waiter.want, waiter.snap)
    /\ waiter.err => ~waiter.sure
=============================================================================
