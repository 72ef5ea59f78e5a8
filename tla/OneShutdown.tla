---------------------------- MODULE OneShutdown ----------------------------
(***************************************************************************)
(* What the handle of cleanup.go promises the callers of Shutdown, without *)
(* its mutex, its flag or the loop of callAll: the providers are stopped   *)
(* once, in the order of the hooks, every one of them whatever the others  *)
(* answer; a caller that runs the hooks, or asks afterwards, is told every *)
(* failure; one that asks meanwhile is told nothing.                       *)
(***************************************************************************)
EXTENDS Integers, Sequences

CONSTANTS Calls, Components, NilHook, ShutdownHooks

VARIABLES
  phase,    \* "absent" for a nil handle, else "open", "draining", "closed"
  outcome,  \* outcome[c]: how the one Shutdown of provider c ended
  replied,  \* the calls that have returned
  reply     \* the error each of them returned

avars == <<phase, outcome, replied, reply>>

AInit ==
  /\ phase \in {"absent", "open"}
  /\ outcome = [c \in Components |-> "none"]
  /\ replied = {}
  /\ reply = [p \in Calls |-> {}]

Verdict == {c \in Components : outcome[c] = "failed"}

Answer(p, e) ==
  /\ p \notin replied
  /\ replied' = replied \cup {p}
  /\ reply' = [reply EXCEPT ![p] = e]

Begin ==
  /\ phase = "open"
  /\ phase' = "draining"
  /\ UNCHANGED <<outcome, replied, reply>>

Ended(i) == ShutdownHooks[i] = NilHook \/ outcome[ShutdownHooks[i]] # "none"

Stop(i) ==
  /\ phase = "draining"
  /\ ~Ended(i)
  /\ \A j \in DOMAIN ShutdownHooks : j < i => Ended(j)
  /\ \E result \in {"ok", "failed"} :
       outcome' = [outcome EXCEPT ![ShutdownHooks[i]] = result]
  /\ UNCHANGED <<phase, replied, reply>>

\* The call that ran the hooks returns, and the verdict becomes final.
Close(p) ==
  /\ phase = "draining"
  /\ \A i \in DOMAIN ShutdownHooks : Ended(i)
  /\ phase' = "closed"
  /\ Answer(p, Verdict)
  /\ UNCHANGED outcome

\* Any other call returns, with the verdict only if there is one.
Reply(p) ==
  /\ phase # "open"
  /\ Answer(p, IF phase = "closed" THEN Verdict ELSE {})
  /\ UNCHANGED <<phase, outcome>>

ANext ==
  \/ Begin
  \/ \E i \in DOMAIN ShutdownHooks : Stop(i)
  \/ \E p \in Calls : Close(p) \/ Reply(p)

ASpec == AInit /\ [][ANext]_avars
=============================================================================
