--------------------------- MODULE PipelineProofs ---------------------------
(***************************************************************************)
(* Proofs about Pipeline and Receiver, for any signals, records, sizes of  *)
(* buffer and request, and any number of flushes.                          *)
(***************************************************************************)
EXTENDS Pipeline, FiniteSetTheorems, TLAPS

\* The records of which the processor of s is rid.
Gone(s) == With(s, "answered") \cup With(s, "refused") \cup With(s, "dropped")

Exporters(s) == IF s \in composed THEN {"primary", "dev"} ELSE {"primary"}

\* Records are born in their order, so that the next one is new.
InvBorn == \A s \in SignalSet : \E n \in Nat : Born(s) = 1..n

\* The batch of an export is what has been taken and not concluded; once the
\* primary has taken it, and what is reported as delivered, is with the receiver.
InvJob ==
  \A s \in SignalSet :
    /\ With(s, "taken") = job[s].batch
    /\ job[s].op # "export" => job[s].batch = {}
    /\ job[s].stage = "idle" => job[s] = Idle
    /\ job[s].stage = "dev" /\ ~job[s].err => job[s].batch \subseteq Contents(kept[s])
    /\ With(s, "answered") \subseteq Contents(kept[s])

\* The dev sink has been asked for what is concluded, where there is one.
InvDev ==
  \A s \in SignalSet :
    devAsked[s] = IF s \in composed THEN With(s, "answered") \cup With(s, "refused")
                                    ELSE {}

\* An exporter is closed with its pair, or the dev sink is next.
InvClosed ==
  \A s \in SignalSet :
    IF job[s].stage = "dev" /\ job[s].op = "stop"
      THEN closed[s] \in {{"primary"}, Exporters(s)}
      ELSE closed[s] \in {{}, Exporters(s)}

\* The hooks that the call has behind it.
Passed(s) == \E i \in DOMAIN Signals : i < call.at /\ Signals[i] = s

\* A hook that settles waits for the method of the exporter that it has called.
InvCall ==
  /\ call.hook # "out" => Running /\ call.at \in DOMAIN Signals
  /\ \A s \in SignalSet : AtHook(s) /\ call.hook = "settle" =>
       /\ job[s].stage # "idle"
       /\ job[s].op = IF call.op = "flush" THEN "flush" ELSE "stop"

\* Who has failed and is still at work is to blame for the call under way.
InvBlame ==
  /\ OnlyPrimaryFails
  /\ \A s \in SignalSet : job[s].err /\ Running => s \in blame

\* Of what was recorded before the call, hooks that are through have left nothing
\* unless they were given up, and the one at work only what it still waits for.
InvVouch ==
  \A s \in SignalSet :
    /\ vouched[s] \subseteq Gone(s)
    /\ call.before[s] \subseteq Born(s)
    /\ AtHook(s) /\ call.hook = "drain" =>
         call.before[s] \subseteq
           (call.goal \cap Waiting(s)) \cup With(s, "taken") \cup Gone(s)
    /\ AtHook(s) /\ call.hook = "settle" => call.before[s] \subseteq Gone(s)
    /\ Passed(s) /\ (call.errs = {} \/ ~call.late) => call.before[s] \subseteq Gone(s)

\* What a Shutdown in time has passed is closed for good.
InvStop ==
  \A s \in SignalSet :
    \/ call.op = "shutdown" /\ ~call.late /\ Passed(s)
    \/ call.op = "over" /\ ~call.late
    => closed[s] # {} /\ job[s].stage = "idle"

\* A test knows what it waits for at each point of its loop.
InvWaiter ==
  /\ \A s \in SignalSet : IsPrefix(waiter.snap[s], kept[s])
  /\ waiter.at # "done" => ~waiter.err
  /\ waiter.at = "look" /\ waiter.sure => Satisfied(waiter.want, kept)
  /\ waiter.at = "select" => ~waiter.sure
  /\ WaitTellsTruth

IInv ==
  /\ TypeOK
  /\ InvBorn
  /\ InvJob
  /\ InvDev
  /\ InvClosed
  /\ InvCall
  /\ InvBlame
  /\ InvVouch
  /\ InvStop
  /\ InvWaiter
-----------------------------------------------------------------------------
\* The list of hooks names each signal once.
LEMMA HookFacts ==
  /\ HookedSignals = Signals
  /\ Len(Signals) \in Nat
  /\ DOMAIN Signals = 1..Len(Signals)
  /\ \A i \in DOMAIN Signals : Signals[i] \in SignalSet
  /\ \A s \in SignalSet : \E i \in DOMAIN Signals : Signals[i] = s
  /\ \A i, j \in DOMAIN Signals : Signals[i] = Signals[j] => i = j
BY SignalsAssumption DEF HookedSignals, SignalSet, ToSet, IsInjective

\* One hook is at work, those before it are behind the call, and when it is over
\* it joins them.
LEMMA HookMoves ==
  /\ call.hook = call'.hook /\ call.at = call'.at =>
       \A s \in SignalSet : (AtHook(s)' <=> AtHook(s)) /\ (Passed(s)' <=> Passed(s))
  /\ call.at \in Nat =>
       \A s \in SignalSet :
         AtHook(s) /\ call'.at = call.at + 1 =>
           \A t \in SignalSet : Passed(t)' <=> Passed(t) \/ t = s
  /\ call.at \in Nat => \A s \in SignalSet : AtHook(s) => ~Passed(s)
<1> USE HookFacts DEF AtHook, Passed
<1>1. call.hook = call'.hook /\ call.at = call'.at =>
       \A s \in SignalSet : (AtHook(s)' <=> AtHook(s)) /\ (Passed(s)' <=> Passed(s))
  OBVIOUS
<1>2. ASSUME call.at \in Nat, NEW s \in SignalSet, AtHook(s), call'.at = call.at + 1,
             NEW t \in SignalSet
      PROVE  Passed(t)' <=> Passed(t) \/ t = s
  <2>1. \A i \in DOMAIN Signals : i < call.at + 1 <=> i < call.at \/ i = call.at
    BY <1>2
  <2> QED BY <1>2, <2>1
<1>3. ASSUME call.at \in Nat, NEW s \in SignalSet, AtHook(s)
      PROVE  ~Passed(s)
  BY <1>3
<1> QED BY <1>1, <1>2, <1>3

\* A request that is appended is kept with all that was kept before.
LEMMA AppendKeeps ==
  ASSUME NEW requests \in Seq(SUBSET Records), NEW request \in SUBSET Records
  PROVE  /\ Append(requests, request) \in Seq(SUBSET Records)
         /\ Contents(Append(requests, request)) = Contents(requests) \cup request
         /\ \A snap \in Seq(SUBSET Records) :
              IsPrefix(snap, requests) => IsPrefix(snap, Append(requests, request))
<1> DEFINE longer == Append(requests, request)
<1>1. /\ longer \in Seq(SUBSET Records)
      /\ Len(longer) = Len(requests) + 1
      /\ DOMAIN longer = 1..(Len(requests) + 1)
      /\ \A i \in 1..Len(requests) : longer[i] = requests[i]
      /\ longer[Len(requests) + 1] = request
      /\ DOMAIN requests = 1..Len(requests)
      /\ Len(requests) \in Nat
  OBVIOUS
<1>2. ToSet(longer) = ToSet(requests) \cup {request}
  BY <1>1 DEF ToSet
<1>3. ASSUME NEW snap \in Seq(SUBSET Records), IsPrefix(snap, requests)
      PROVE  IsPrefix(snap, longer)
  <2>1. Len(snap) \in Nat /\ Len(snap) <= Len(requests)
    BY <1>3 DEF IsPrefix
  <2>2. SubSeq(longer, 1, Len(snap)) = SubSeq(requests, 1, Len(snap))
    BY <1>1, <2>1
  <2> QED BY <1>1, <1>3, <2>1, <2>2 DEF IsPrefix
<1>4. Contents(longer) = Contents(requests) \cup request
  BY <1>2 DEF Contents
<1> QED BY <1>1, <1>3, <1>4

LEMMA PrefixOfItself ==
  ASSUME NEW requests \in Seq(SUBSET Records)
  PROVE  IsPrefix(requests, requests) /\ IsPrefix(<<>>, requests)
<1>1. SubSeq(requests, 1, 0) = SubSeq(<<>>, 1, 0) /\ Len(requests) >= 0 /\ Len(requests) \in Nat
  OBVIOUS
<1> QED BY <1>1 DEF IsPrefix

\* What becomes of each record.
LEMMA BecomeFate ==
  ASSUME TypeOK, NEW s \in SignalSet, NEW batch \in SUBSET Records, NEW f \in Fates,
         fate' = Become(s, batch, f)
  PROVE  /\ fate' \in [SignalSet -> [Records -> Fates]]
         /\ \A t \in SignalSet \ {s} : fate'[t] = fate[t]
         /\ \A r \in batch : fate'[s][r] = f
         /\ \A r \in Records \ batch : fate'[s][r] = fate[s][r]
<1>1. fate \in [SignalSet -> [Records -> Fates]] BY DEF TypeOK
<1> QED BY <1>1 DEF Become

\* The record that Record records is new, and the next one is free.
LEMMA NextRecord ==
  ASSUME TypeOK, InvBorn, NEW s \in SignalSet,
         NEW r, r = Cardinality(Born(s)) + 1, r <= MaxRecords[s]
  PROVE  /\ r \in Records
         /\ r \notin Born(s)
         /\ \E n \in Nat : Born(s) \cup {r} = 1..n
<1>1. PICK n \in Nat : Born(s) = 1..n BY DEF InvBorn
<1>2. Cardinality(1..n) = n BY FS_Interval
<1>3. r = n + 1 /\ r \notin 1..n /\ 1..n \cup {r} = 1..r /\ r \in Nat BY <1>1, <1>2
<1>4. MaxRecords[s] \in Nat /\ 1..MaxRecords[s] \subseteq Records
  BY PipelineAssumption
<1>5. r \in Records BY <1>3, <1>4
<1> QED BY <1>1, <1>3, <1>5

LEMMA InitInv == Init => IInv
<1> SUFFICES ASSUME Init PROVE IInv OBVIOUS
<1> USE DEF Init, ReceiverInit, Nothing, NotWaiting, NoCall, Nobody, Idle
<1>1. TypeOK
  <2>1. ReceiverTypeOK BY DEF ReceiverTypeOK
  <2>2. composed \in SUBSET SignalSet BY PipelineAssumption
  <2>3. fate \in [SignalSet -> [Records -> Fates]] BY DEF Fates
  <2>4. job \in [SignalSet -> Jobs] BY DEF Jobs
  <2>5. closed \in [SignalSet -> SUBSET {"primary", "dev"}] OBVIOUS
  <2>6. call \in Invocations BY DEF Invocations
  <2> QED BY <2>1, <2>2, <2>3, <2>4, <2>5, <2>6 DEF TypeOK
<1>2. InvBorn
  <2>1. \A s \in SignalSet : Born(s) = 1..0 BY DEF Born
  <2> QED BY <2>1 DEF InvBorn
<1>3. InvJob
  <2>1. \A s \in SignalSet : With(s, "taken") = {} /\ With(s, "answered") = {}
    BY DEF With
  <2> QED BY <2>1 DEF InvJob
<1>4. InvDev /\ InvClosed BY DEF InvDev, InvClosed, With
<1>5. InvCall /\ InvBlame BY DEF InvCall, InvBlame, OnlyPrimaryFails, Running, AtHook
<1>6. InvVouch /\ InvStop BY HookFacts DEF InvVouch, InvStop, AtHook, Passed
<1>7. InvWaiter
  <2>1. <<>> \in Seq(SUBSET Records) OBVIOUS
  <2>2. IsPrefix(<<>>, <<>>) BY <2>1, PrefixOfItself
  <2> QED BY <2>2 DEF InvWaiter, WaitTellsTruth
<1> QED BY <1>1, <1>2, <1>3, <1>4, <1>5, <1>6, <1>7 DEF IInv

\* What is not touched stays as it is.
LEMMA ReceiverUnchanged ==
  ASSUME InvWaiter, UNCHANGED receiverVars
  PROVE  InvWaiter'
BY DEF InvWaiter, WaitTellsTruth, Satisfied, receiverVars

LEMMA ExportersUnchanged ==
  ASSUME InvBorn, InvJob, InvDev, InvClosed,
         UNCHANGED <<kept, composed, fate, job, closed, devAsked>>
  PROVE  InvBorn' /\ InvJob' /\ InvDev' /\ InvClosed'
<1>1. InvBorn' BY DEF InvBorn, Born
<1>2. InvJob' BY DEF InvJob, With
<1>3. InvDev' BY DEF InvDev, With
<1>4. InvClosed' BY DEF InvClosed, Exporters
<1> QED BY <1>1, <1>2, <1>3, <1>4

\* What Record records is new, and it or something that waits may be dropped.
RecordsOne(s, r, victim) ==
  /\ fate' \in [SignalSet -> [Records -> Fates]]
  /\ \A t \in SignalSet \ {s} : fate'[t] = fate[t]
  /\ \A q \in Records \ {r, victim} : fate'[s][q] = fate[s][q]
  /\ fate'[s][r] \in {"waiting", "dropped"}
  /\ victim # r => fate'[s][victim] = "dropped"

LEMMA RecordEffect ==
  ASSUME TypeOK, InvBorn, NEW s \in SignalSet, Record(s)
  PROVE  \E r \in Records :
           /\ r = Cardinality(Born(s)) + 1
           /\ r \notin Born(s)
           /\ \E n \in Nat : Born(s) \cup {r} = 1..n
           /\ \E victim \in Waiting(s) \cup {r} : RecordsOne(s, r, victim)
<1>1. PICK r \in Records :
        /\ r = Cardinality(Born(s)) + 1
        /\ r \notin Born(s)
        /\ \E n \in Nat : Born(s) \cup {r} = 1..n
  BY NextRecord DEF Record
<1>2. \E victim \in Waiting(s) \cup {r} : RecordsOne(s, r, victim)
  <2> USE DEF RecordsOne
  <2>1. fate \in [SignalSet -> [Records -> Fates]] /\ {"waiting", "dropped"} \subseteq Fates
    BY DEF TypeOK, Fates
  <2>2. ASSUME NEW f \in {"dropped", "waiting"}, fate' = Become(s, {r}, f)
        PROVE  RecordsOne(s, r, r)
    <3>1. fate' = [fate EXCEPT ![s] = [q \in Records |-> IF q = r THEN f ELSE @[q]]]
      BY <2>2 DEF Become
    <3> QED BY <2>1, <3>1
  <2>3. ASSUME NEW victim \in Waiting(s) \cup {r},
               fate' = [fate EXCEPT ![s][r] = "waiting", ![s][victim] = "dropped"]
        PROVE  RecordsOne(s, r, victim)
    <3>1. victim \in Records BY DEF Waiting, With
    <3> QED BY <2>1, <2>3, <3>1
  <2>4. \/ \E f \in {"dropped", "waiting"} : fate' = Become(s, {r}, f)
        \/ \E victim \in Waiting(s) \cup {r} :
             fate' = [fate EXCEPT ![s][r] = "waiting", ![s][victim] = "dropped"]
    BY <1>1 DEF Record
  <2> QED BY <2>2, <2>3, <2>4
<1> QED BY <1>1, <1>2

LEMMA RecordInv ==
  ASSUME IInv, NEW s \in SignalSet, Record(s)
  PROVE  IInv'
<1> USE DEF IInv
<1>1. PICK r \in Records :
        /\ r \notin Born(s)
        /\ \E n \in Nat : Born(s) \cup {r} = 1..n
        /\ \E victim \in Waiting(s) \cup {r} : RecordsOne(s, r, victim)
  BY RecordEffect
<1>2. PICK victim \in Waiting(s) \cup {r} :
        /\ fate' \in [SignalSet -> [Records -> Fates]]
        /\ \A t \in SignalSet \ {s} : fate'[t] = fate[t]
        /\ \A q \in Records \ {r, victim} : fate'[s][q] = fate[s][q]
        /\ fate'[s][r] \in {"waiting", "dropped"}
        /\ victim # r => fate'[s][victim] = "dropped"
  BY <1>1 DEF RecordsOne
<1>3. fate[s][r] = "unborn" BY <1>1 DEF Born
<1>4. \A q \in Waiting(s) : fate[s][q] = "waiting" BY DEF Waiting, With
<1>5. UNCHANGED <<receiverVars, composed, job, stopped, closed, devAsked, call, blame, vouched>>
  BY DEF Record
<1>6. TypeOK' BY <1>2, <1>5 DEF TypeOK, ReceiverTypeOK, receiverVars
<1>7. /\ Born(s)' = Born(s) \cup {r}
      /\ \A t \in SignalSet : t # s => Born(t)' = Born(t)
  BY <1>1, <1>2, <1>3, <1>4 DEF Born
<1>8. InvBorn' BY <1>1, <1>7 DEF InvBorn
<1>9. \A t \in SignalSet :
        /\ With(t, "taken")' = With(t, "taken")
        /\ With(t, "answered")' = With(t, "answered")
        /\ With(t, "refused")' = With(t, "refused")
        /\ With(t, "dropped") \subseteq With(t, "dropped")'
        /\ Waiting(t) \subseteq Waiting(t)' \cup With(t, "dropped")'
  <2>1. ASSUME NEW t \in SignalSet \ {s}, NEW f
        PROVE  With(t, f)' = With(t, f)
    BY <1>2, <2>1 DEF With
  <2>2. \A q \in Records : fate'[s][q] = fate[s][q]
          \/ (fate[s][q] \in {"unborn", "waiting"} /\ fate'[s][q] \in {"waiting", "dropped"})
    <3>1. PICK before, after : before = fate[s] /\ after = fate'[s] OBVIOUS
    <3>2. before[r] = "unborn" /\ after[r] \in {"waiting", "dropped"} BY <1>2, <1>3, <3>1
    <3>3. victim # r => before[victim] = "waiting" /\ after[victim] = "dropped"
      BY <1>2, <1>4, <3>1
    <3>4. \A x \in Records : x # r /\ x # victim => after[x] = before[x] BY <1>2, <3>1
    <3>5. ASSUME NEW q \in Records
          PROVE  after[q] = before[q]
            \/ (before[q] \in {"unborn", "waiting"} /\ after[q] \in {"waiting", "dropped"})
      <4>1. CASE q = r BY <3>2, <4>1
      <4>2. CASE q # r /\ q = victim BY <3>3, <4>2
      <4>3. CASE q # r /\ q # victim BY <3>4, <4>3
      <4> QED BY <4>1, <4>2, <4>3
    <3> QED BY <3>1, <3>5
  <2>3. \A f \in {"taken", "answered", "refused"} : With(s, f)' = With(s, f)
    BY <2>2 DEF With
  <2>4. /\ With(s, "dropped") \subseteq With(s, "dropped")'
        /\ With(s, "waiting") \subseteq With(s, "waiting")' \cup With(s, "dropped")'
    BY <2>2 DEF With
  <2> QED BY <2>1, <2>3, <2>4 DEF Waiting
<1>10. InvJob' BY <1>5, <1>9 DEF InvJob, receiverVars
<1>11. InvDev' /\ InvClosed' BY <1>5, <1>9 DEF InvDev, InvClosed, Exporters
<1>12. InvCall' /\ InvBlame' /\ InvStop'
  BY <1>5 DEF InvCall, InvBlame, InvStop, OnlyPrimaryFails, Running, AtHook, Passed
<1>13. InvVouch'
  <2>1. \A t \in SignalSet : Gone(t) \subseteq Gone(t)' BY <1>9 DEF Gone
  <2>2. \A t \in SignalSet :
          /\ (AtHook(t)' <=> AtHook(t)) /\ (Passed(t)' <=> Passed(t))
          /\ With(t, "dropped")' \subseteq Gone(t)'
    BY <1>5, HookMoves DEF Gone
  <2> QED BY <1>5, <1>7, <1>9, <2>1, <2>2 DEF InvVouch
<1>14. InvWaiter' BY <1>5, ReceiverUnchanged
<1> QED BY <1>6, <1>8, <1>10, <1>11, <1>12, <1>13, <1>14

LEMMA TakeBatchInv ==
  ASSUME IInv, NEW s \in SignalSet, TakeBatch(s)
  PROVE  IInv'
<1> USE DEF IInv
<1>1. PICK batch \in SUBSET Records : batch = NextBatch(s) /\ batch \subseteq Waiting(s)
  BY DEF NextBatch, Waiting, With
<1>2. \A r \in batch : fate[s][r] = "waiting" BY <1>1 DEF Waiting, With
<1>3. /\ job[s] = Idle
      /\ job' = [job EXCEPT ![s] = [Idle EXCEPT !.stage = "primary", !.batch = batch]]
      /\ fate' = Become(s, batch, "taken")
      /\ call' = IF AtHook(s) THEN [call EXCEPT !.goal = @ \ batch] ELSE call
      /\ UNCHANGED <<receiverVars, composed, stopped, closed, devAsked, blame, vouched>>
  BY <1>1 DEF TakeBatch, InvJob
<1>4. /\ fate' \in [SignalSet -> [Records -> Fates]]
      /\ \A t \in SignalSet \ {s} : fate'[t] = fate[t]
      /\ \A r \in batch : fate'[s][r] = "taken"
      /\ \A r \in Records \ batch : fate'[s][r] = fate[s][r]
  <2>1. "taken" \in Fates BY DEF Fates
  <2> QED BY <1>1, <1>3, <2>1, BecomeFate
<1>5. TypeOK'
  <2>1. job' \in [SignalSet -> Jobs] BY <1>1, <1>3 DEF TypeOK, Jobs, Idle
  <2>2. call' \in Invocations BY <1>3 DEF TypeOK, Invocations
  <2> QED BY <1>3, <1>4, <2>1, <2>2 DEF TypeOK, ReceiverTypeOK, receiverVars, Idle
<1>6. \A t \in SignalSet :
        /\ Born(t)' = Born(t)
        /\ With(t, "answered")' = With(t, "answered")
        /\ With(t, "refused")' = With(t, "refused")
        /\ Gone(t)' = Gone(t)
        /\ t # s => With(t, "taken")' = With(t, "taken") /\ Waiting(t)' = Waiting(t)
  BY <1>2, <1>4 DEF Born, Gone, With, Waiting
<1>7. With(s, "taken")' = batch /\ Waiting(s)' = Waiting(s) \ batch
  BY <1>2, <1>3, <1>4 DEF InvJob, With, Waiting, Idle
<1>8. \A t \in SignalSet \ {s} : job'[t] = job[t] BY <1>3 DEF TypeOK
<1>9. /\ job'[s].stage = "primary" /\ job'[s].op = "export"
      /\ job'[s].batch = batch /\ job'[s].err = FALSE
  BY <1>3 DEF TypeOK, Idle
<1>10. InvBorn' BY <1>6 DEF InvBorn
<1>11. InvJob' BY <1>3, <1>6, <1>7, <1>8, <1>9 DEF InvJob, receiverVars
<1>12. InvDev' BY <1>3, <1>6 DEF InvDev
<1>13. InvClosed' BY <1>3, <1>8, <1>9 DEF InvClosed, Exporters, TakeBatch, Idle
<1>14. /\ call'.op = call.op /\ call'.at = call.at /\ call'.hook = call.hook
       /\ call'.errs = call.errs /\ call'.late = call.late /\ call'.before = call.before
       /\ call'.goal = IF AtHook(s) THEN call.goal \ batch ELSE call.goal
  BY <1>3 DEF TypeOK, Invocations
<1>15. \A t \in SignalSet : (AtHook(t)' <=> AtHook(t)) /\ (Passed(t)' <=> Passed(t))
  BY <1>14, HookMoves
<1>16. InvCall'
  <2>1. AtHook(s) => call.hook # "settle" BY <1>3 DEF InvCall, Idle
  <2> QED BY <1>8, <1>14, <1>15, <2>1 DEF InvCall, Running
<1>17. InvBlame' BY <1>3, <1>8, <1>9, <1>14 DEF InvBlame, OnlyPrimaryFails, Running
<1>18. InvVouch'
  <2>1. With(s, "taken") = {} BY <1>3 DEF InvJob, Idle
  <2>2. \A t \in SignalSet : AtHook(s) /\ AtHook(t) => t = s BY DEF AtHook
  <2> QED BY <1>3, <1>6, <1>7, <1>14, <1>15, <2>1, <2>2 DEF InvVouch
<1>19. InvStop'
  <2>1. closed[s] = {} BY DEF TakeBatch
  <2> QED BY <1>3, <1>8, <1>14, <1>15, <2>1 DEF InvStop
<1>20. InvWaiter' BY <1>3, ReceiverUnchanged
<1> QED BY <1>5, <1>10, <1>11, <1>12, <1>13, <1>16, <1>17, <1>18, <1>19,
           <1>20

\* The time an exporter has left is no concern of the invariant.
LEMMA TimeInv ==
  ASSUME IInv, NEW s \in SignalSet, NEW time \in {"passing", "up"},
         job[s].stage # "idle",
         job' = [job EXCEPT ![s].time = time],
         UNCHANGED <<receiverVars, composed, fate, stopped, closed, devAsked, call,
                     blame, vouched>>
  PROVE  IInv'
<1> USE DEF IInv
<1>1. \A t \in SignalSet :
        /\ job'[t].stage = job[t].stage /\ job'[t].op = job[t].op
        /\ job'[t].batch = job[t].batch /\ job'[t].err = job[t].err
        /\ t # s => job'[t] = job[t]
  BY DEF TypeOK, Jobs
<1>2. TypeOK'
  <2>1. [job[s] EXCEPT !.time = time] \in Jobs
    <3>1. job[s] \in Jobs BY DEF TypeOK
    <3> QED BY <3>1 DEF Jobs
  <2>2. job' \in [SignalSet -> Jobs] BY <2>1 DEF TypeOK
  <2> QED BY <1>1, <2>2 DEF TypeOK, ReceiverTypeOK, receiverVars
<1>3. InvBorn' BY DEF InvBorn, Born
<1>4. InvJob' BY <1>1 DEF InvJob, With, receiverVars
<1>5. InvDev' /\ InvClosed'
  <2>1. InvDev' BY DEF InvDev, With
  <2>2. InvClosed' BY <1>1 DEF InvClosed, Exporters
  <2> QED BY <2>1, <2>2
<1>6. InvCall' BY <1>1 DEF InvCall, Running, AtHook
<1>7. InvBlame' BY <1>1 DEF InvBlame, OnlyPrimaryFails, Running
<1>8. InvVouch' BY DEF InvVouch, Gone, Born, With, Waiting, AtHook, Passed
<1>9. InvStop' BY <1>1 DEF InvStop, Passed
<1>10. InvWaiter' BY ReceiverUnchanged
<1> QED BY <1>2, <1>3, <1>4, <1>5, <1>6, <1>7, <1>8, <1>9, <1>10

LEMMA ExportExpiresInv ==
  ASSUME IInv, NEW s \in SignalSet, ExportExpires(s)
  PROVE  IInv'
<1>1. job[s].stage # "idle" BY DEF ExportExpires, Silent, IInv, InvJob, Idle
<1> QED BY <1>1, TimeInv DEF ExportExpires

LEMMA FallsSilentInv ==
  ASSUME IInv, NEW s \in SignalSet, FallsSilent(s)
  PROVE  IInv'
BY TimeInv DEF FallsSilent

\* The receiver never loses anything, so that a waiting test is not misled.
LEMMA KeptGrows ==
  ASSUME TypeOK, InvWaiter, NEW s \in SignalSet, NEW batch \in SUBSET Records,
         AppendRequest(s, batch) \/ kept' = kept, waiter' = waiter
  PROVE  /\ kept' \in [SignalSet -> Seq(SUBSET Records)]
         /\ \A t \in SignalSet : Contents(kept[t]) \subseteq Contents(kept'[t])
         /\ AppendRequest(s, batch) => batch \subseteq Contents(kept'[s])
         /\ InvWaiter'
<1>1. /\ kept \in [SignalSet -> Seq(SUBSET Records)]
      /\ waiter.snap \in [SignalSet -> Seq(SUBSET Records)]
  BY DEF TypeOK, ReceiverTypeOK
<1>2. /\ kept' \in [SignalSet -> Seq(SUBSET Records)]
      /\ \A t \in SignalSet :
           /\ Contents(kept[t]) \subseteq Contents(kept'[t])
           /\ IsPrefix(waiter.snap[t], kept[t]) => IsPrefix(waiter.snap[t], kept'[t])
      /\ AppendRequest(s, batch) => batch \subseteq Contents(kept'[s])
  <2>1. CASE kept' = kept /\ ~AppendRequest(s, batch) BY <1>1, <2>1
  <2>2. CASE AppendRequest(s, batch)
    <3>1. kept' = [kept EXCEPT ![s] = Append(kept[s], batch)]
      BY <2>2 DEF AppendRequest
    <3>2. /\ Append(kept[s], batch) \in Seq(SUBSET Records)
          /\ Contents(Append(kept[s], batch)) = Contents(kept[s]) \cup batch
          /\ IsPrefix(waiter.snap[s], kept[s])
               => IsPrefix(waiter.snap[s], Append(kept[s], batch))
      BY <1>1, AppendKeeps
    <3> QED BY <1>1, <3>1, <3>2
  <2> QED BY <2>1, <2>2
<1>3. Satisfied(waiter.want, kept) => Satisfied(waiter.want, kept')
  BY <1>2 DEF Satisfied
<1>4. InvWaiter' BY <1>2, <1>3 DEF InvWaiter, WaitTellsTruth, Satisfied
<1> QED BY <1>2, <1>4

\* A hook that is over.
LEMMA LeaveCall ==
  ASSUME TypeOK, NEW errs \in SUBSET SignalSet, call' = Leave(errs)
  PROVE  /\ call' \in Invocations
         /\ call'.op = call.op /\ call'.at = call.at + 1 /\ call'.hook = "out"
         /\ call'.goal = {} /\ call'.errs = call.errs \cup errs
         /\ call'.late = call.late /\ call'.before = call.before
<1>1. call \in Invocations BY DEF TypeOK
<1>2. call.errs \cup errs \in SUBSET SignalSet /\ call.at + 1 \in Nat \ {0}
  BY <1>1 DEF Invocations
<1> QED BY <1>1, <1>2 DEF Leave, Invocations

\* A method that has returned is through with its batch; the hook that waits for it
\* is over.
Told(s, err) == {{}, IF err /\ AtHook(s) THEN {s} ELSE {}}
Reports(s, told) ==
  call' = IF AtHook(s) /\ call.hook = "settle" THEN Leave(told)
          ELSE [call EXCEPT !.errs = @ \cup told]

LEMMA ConcludeEffect ==
  ASSUME IInv, NEW s \in SignalSet, NEW err \in BOOLEAN, Conclude(s, err)
  PROVE  /\ job' = [job EXCEPT ![s] = Idle]
         /\ fate' \in [SignalSet -> [Records -> Fates]]
         /\ \A t \in SignalSet \ {s} : fate'[t] = fate[t]
         /\ \A r \in job[s].batch :
              fate[s][r] = "taken" /\ fate'[s][r] = IF err THEN "refused" ELSE "answered"
         /\ \A r \in Records \ job[s].batch :
              fate[s][r] # "taken" /\ fate'[s][r] = fate[s][r]
         /\ \E told \in Told(s, err) : Reports(s, told)
<1> USE DEF IInv, Told, Reports
<1> DEFINE f == IF err THEN "refused" ELSE "answered"
<1>1. job[s].batch \in SUBSET Records /\ With(s, "taken") = job[s].batch
  BY DEF TypeOK, Jobs, InvJob
<1>2. \A r \in Records : r \in job[s].batch <=> fate[s][r] = "taken" BY <1>1 DEF With
<1>3. fate \in [SignalSet -> [Records -> Fates]] /\ f \in Fates BY DEF TypeOK, Fates
<1>4. call = [call EXCEPT !.errs = call.errs \cup {}] BY DEF TypeOK, Invocations
<1>5. CASE job[s].op = "export"
  <2>1. fate' = Become(s, job[s].batch, f) BY <1>5 DEF Conclude
  <2>2. PICK batch \in SUBSET Records : batch = job[s].batch BY <1>1
  <2>3. /\ fate' \in [SignalSet -> [Records -> Fates]]
        /\ \A t \in SignalSet \ {s} : fate'[t] = fate[t]
        /\ \A r \in batch : fate'[s][r] = f
        /\ \A r \in Records \ batch : fate'[s][r] = fate[s][r]
    BY <1>3, <2>1, <2>2 DEF Become
  <2>4. ~(AtHook(s) /\ call.hook = "settle")
    BY <1>5 DEF InvCall
  <2>5. PICK told \in {{}, IF err THEN {s} ELSE {}} :
          call' = IF AtHook(s) THEN [call EXCEPT !.errs = @ \cup told] ELSE call
    BY <1>5 DEF Conclude
  <2> QED BY <1>1, <1>2, <1>4, <2>2, <2>3, <2>4, <2>5 DEF Conclude
<1>6. CASE job[s].op # "export"
  <2>1. job[s].batch = {} BY <1>6 DEF InvJob
  <2>2. fate' = fate BY <1>6 DEF Conclude
  <2>3. call' = IF AtHook(s) /\ call.hook = "settle"
                  THEN Leave(IF err THEN {s} ELSE {}) ELSE call
    BY <1>6 DEF Conclude
  <2> QED BY <1>1, <1>2, <1>3, <1>4, <2>1, <2>2, <2>3 DEF Conclude
<1> QED BY <1>5, <1>6

LEMMA ConcludeInv ==
  ASSUME IInv, NEW s \in SignalSet, NEW err \in BOOLEAN, Conclude(s, err),
         job[s].stage # "idle",
         UNCHANGED <<composed, stopped, vouched>>,
         kept' \in [SignalSet -> Seq(SUBSET Records)],
         \A t \in SignalSet : Contents(kept[t]) \subseteq Contents(kept'[t]),
         ~err => job[s].batch \subseteq Contents(kept'[s]),
         waiter' = waiter,
         InvWaiter',
         blame \subseteq blame', blame' \subseteq SignalSet,
         err /\ Running => s \in blame',
         devAsked' = [devAsked EXCEPT ![s] = IF s \in composed THEN @ \cup job[s].batch ELSE @],
         closed' = IF job[s].op = "stop" THEN [closed EXCEPT ![s] = Exporters(s)] ELSE closed
  PROVE  IInv'
<1> DEFINE batch == job[s].batch
           leaves == AtHook(s) /\ call.hook = "settle"
<1>1. /\ job' = [job EXCEPT ![s] = Idle]
      /\ fate' \in [SignalSet -> [Records -> Fates]]
      /\ \A t \in SignalSet \ {s} : fate'[t] = fate[t]
      /\ \A r \in batch :
           fate[s][r] = "taken" /\ fate'[s][r] = IF err THEN "refused" ELSE "answered"
      /\ \A r \in Records \ batch : fate[s][r] # "taken" /\ fate'[s][r] = fate[s][r]
  BY ConcludeEffect
<1>2. PICK told \in {{}, IF err /\ AtHook(s) THEN {s} ELSE {}} :
        call' = IF leaves THEN Leave(told) ELSE [call EXCEPT !.errs = @ \cup told]
  <2>1. \E told \in Told(s, err) : Reports(s, told) BY ConcludeEffect
  <2> QED BY <2>1 DEF Told, Reports
<1> USE DEF IInv
<1>3. batch \in SUBSET Records BY DEF TypeOK, Jobs
<1>4. /\ call'.op = call.op /\ call'.late = call.late /\ call'.before = call.before
      /\ call'.errs = call.errs \cup told
      /\ leaves => call'.hook = "out" /\ call'.at = call.at + 1
      /\ ~leaves => call'.hook = call.hook /\ call'.at = call.at /\ call'.goal = call.goal
      /\ call.at \in Nat \ {0}
  <2>1. told \in SUBSET SignalSet OBVIOUS
  <2>2. CASE leaves BY <1>2, <2>1, <2>2, LeaveCall DEF TypeOK, Invocations
  <2>3. CASE ~leaves BY <1>2, <2>3 DEF TypeOK, Invocations
  <2> QED BY <2>2, <2>3
<1>5. TypeOK'
  <2>1. job' \in [SignalSet -> Jobs] BY <1>1 DEF TypeOK, Jobs, Idle
  <2>2. devAsked' \in [SignalSet -> SUBSET Records] BY <1>3 DEF TypeOK
  <2>3. closed' \in [SignalSet -> SUBSET {"primary", "dev"}] BY DEF TypeOK, Exporters
  <2>4. told \subseteq SignalSet OBVIOUS
  <2>5. call' \in Invocations
    <3>1. CASE leaves BY <1>2, <2>4, <3>1, LeaveCall
    <3>2. CASE ~leaves
      <4>1. call.errs \cup told \in SUBSET SignalSet BY <2>4 DEF TypeOK, Invocations
      <4> QED BY <1>2, <3>2, <4>1 DEF TypeOK, Invocations
    <3> QED BY <3>1, <3>2
  <2>6. \A t \in SignalSet : job'[t].stage = "dev" => t \in composed'
    BY <1>1 DEF TypeOK, Idle
  <2> QED BY <1>1, <2>1, <2>2, <2>3, <2>5, <2>6 DEF TypeOK, ReceiverTypeOK
<1> HIDE DEF batch
<1>6. \A t \in SignalSet :
        /\ Born(t)' = Born(t) /\ Waiting(t)' = Waiting(t)
        /\ t # s => /\ With(t, "taken")' = With(t, "taken")
                    /\ With(t, "answered")' = With(t, "answered")
                    /\ With(t, "refused")' = With(t, "refused")
                    /\ Gone(t)' = Gone(t)
  <2>1. \A q \in Records : fate'[s][q] = fate[s][q] \/
          (fate[s][q] = "taken" /\ fate'[s][q] \in {"refused", "answered"})
    <3>1. PICK before, after : before = fate[s] /\ after = fate'[s] OBVIOUS
    <3>2. \A q \in batch : after[q] \in {"refused", "answered"} BY <1>1, <3>1
    <3>3. \A q \in batch : before[q] = "taken" BY <1>1, <3>1
    <3>4. \A x \in Records : x \notin batch => after[x] = before[x] BY <1>1, <3>1
    <3>5. ASSUME NEW q \in Records
          PROVE  after[q] = before[q] \/
                   (before[q] = "taken" /\ after[q] \in {"refused", "answered"})
      <4>1. CASE q \in batch BY <3>2, <3>3, <4>1
      <4>2. CASE q \notin batch BY <3>4, <4>2
      <4> QED BY <4>1, <4>2
    <3> QED BY <3>1, <3>5
  <2>2. Born(s)' = Born(s) /\ Waiting(s)' = Waiting(s) BY <2>1 DEF Born, With, Waiting
  <2>3. ASSUME NEW t \in SignalSet \ {s}
        PROVE  Born(t)' = Born(t) /\ \A f : With(t, f)' = With(t, f)
    BY <1>1, <2>3 DEF Born, With
  <2> QED BY <2>2, <2>3 DEF Waiting, Gone
<1>7. /\ With(s, "taken") = batch /\ With(s, "taken")' = {}
      /\ With(s, "answered")' = With(s, "answered") \cup (IF err THEN {} ELSE batch)
      /\ With(s, "refused")' = With(s, "refused") \cup (IF err THEN batch ELSE {})
      /\ Gone(s)' = Gone(s) \cup batch
  <2>1. With(s, "taken") = batch /\ With(s, "taken")' = {} BY <1>1, <1>3 DEF With
  <2>2. With(s, "dropped")' = With(s, "dropped") BY <1>1, <1>3 DEF With
  <2>3. CASE err
    <3>1. With(s, "answered")' = With(s, "answered") BY <1>1, <1>3, <2>3 DEF With
    <3>2. With(s, "refused")' = With(s, "refused") \cup batch BY <1>1, <1>3, <2>3 DEF With
    <3> QED BY <2>1, <2>2, <2>3, <3>1, <3>2 DEF Gone
  <2>4. CASE ~err
    <3>1. With(s, "answered")' = With(s, "answered") \cup batch
      BY <1>1, <1>3, <2>4 DEF With
    <3>2. With(s, "refused")' = With(s, "refused") BY <1>1, <1>3, <2>4 DEF With
    <3> QED BY <2>1, <2>2, <2>4, <3>1, <3>2 DEF Gone
  <2> QED BY <2>3, <2>4
<1>8. /\ \A t \in SignalSet \ {s} : job'[t] = job[t]
      /\ job'[s] = Idle
  BY <1>1 DEF TypeOK
<1>9. InvBorn' BY <1>6 DEF InvBorn
<1>10. InvJob'
  <2>1. \A t \in SignalSet : With(t, "answered")' \subseteq Contents(kept'[t])
    BY <1>6, <1>7 DEF InvJob, batch
  <2>2. With(s, "taken")' = {} BY <1>7
  <2>3. \A t \in SignalSet \ {s} :
          With(t, "taken")' = job'[t].batch /\ Contents(kept[t]) \subseteq Contents(kept'[t])
    BY <1>6, <1>8 DEF InvJob
  <2>4. ASSUME NEW t \in SignalSet
        PROVE  /\ With(t, "taken")' = job'[t].batch
               /\ job'[t].op # "export" => job'[t].batch = {}
               /\ job'[t].stage = "idle" => job'[t] = Idle
               /\ job'[t].stage = "dev" /\ ~job'[t].err
                    => job'[t].batch \subseteq Contents(kept'[t])
               /\ With(t, "answered")' \subseteq Contents(kept'[t])
    <3>1. CASE t = s
      <4>1. job'[t] = Idle BY <1>8, <3>1
      <4>2. With(t, "taken")' = {} BY <2>2, <3>1
      <4> QED BY <2>1, <4>1, <4>2 DEF Idle
    <3>2. CASE t # s BY <1>8, <2>1, <2>3, <3>2 DEF InvJob
    <3> QED BY <3>1, <3>2
  <2> QED BY <2>4 DEF InvJob, Idle
<1>11. InvDev' BY <1>6, <1>7 DEF InvDev, TypeOK, batch
<1>12. InvClosed' BY <1>8 DEF InvClosed, Exporters, Idle, TypeOK
<1>13. \A t \in SignalSet :
         /\ AtHook(t)' <=> AtHook(t) /\ ~leaves
         /\ Passed(t)' <=> Passed(t) \/ (leaves /\ t = s)
         /\ leaves /\ AtHook(t) => t = s
  <2>1. CASE leaves BY <1>4, <2>1, HookMoves DEF AtHook
  <2>2. CASE ~leaves BY <1>4, <2>2, HookMoves
  <2> QED BY <2>1, <2>2
<1>14. leaves <=> AtHook(s) /\ call.hook = "settle" OBVIOUS
<1>15. told # {} => told = {s} /\ Running /\ err BY DEF AtHook, InvCall
<1> HIDE DEF leaves
<1>16. InvCall' BY <1>4, <1>8, <1>13, <1>14 DEF InvCall, Running
<1>17. InvBlame' BY <1>4, <1>8, <1>15 DEF InvBlame, OnlyPrimaryFails, Running, Idle
<1>18. InvVouch' BY <1>4, <1>6, <1>7, <1>13, <1>14 DEF InvVouch
<1>19. InvStop'
  <2>1. call.op # "over" \/ call.late BY DEF InvStop
  <2>2. leaves /\ call.op = "shutdown" => closed'[s] # {}
    BY <1>14 DEF InvCall, TypeOK, Exporters
  <2>3. \A t \in SignalSet \ {s} : closed'[t] = closed[t] BY DEF TypeOK
  <2>4. call.op = "shutdown" /\ ~call.late => ~Passed(s) BY DEF InvStop
  <2> SUFFICES ASSUME NEW t \in SignalSet,
                      \/ call'.op = "shutdown" /\ ~call'.late /\ Passed(t)'
                      \/ call'.op = "over" /\ ~call'.late
               PROVE  closed'[t] # {} /\ job'[t].stage = "idle"
    BY DEF InvStop
  <2>5. call.op = "shutdown" /\ ~call.late /\ Passed(t)' BY <1>4, <2>1
  <2>6. CASE t = s
    <3>1. leaves BY <1>13, <2>4, <2>5, <2>6
    <3>2. job'[s].stage = "idle" BY <1>8 DEF Idle
    <3> QED BY <2>2, <2>5, <2>6, <3>1, <3>2
  <2>7. CASE t # s
    <3>1. Passed(t) BY <1>13, <2>5, <2>7
    <3>2. closed[t] # {} /\ job[t].stage = "idle" BY <2>5, <3>1 DEF InvStop
    <3>3. job'[t] = job[t] BY <1>8, <2>7
    <3> QED BY <2>3, <2>7, <3>2, <3>3
  <2> QED BY <2>6, <2>7
<1> QED BY <1>5, <1>9, <1>10, <1>11, <1>12, <1>16, <1>17, <1>18, <1>19

LEMMA AskPrimaryInv ==
  ASSUME IInv, NEW s \in SignalSet, AskPrimary(s)
  PROVE  IInv'
<1> USE DEF IInv
<1>1. PICK failed \in BOOLEAN, keeps \in BOOLEAN :
        /\ <<failed, keeps>> \in PrimaryAnswers(s)
        /\ IF keeps THEN AppendRequest(s, job[s].batch) ELSE kept' = kept
        /\ blame' = IF failed THEN blame \cup {s} ELSE blame
        /\ IF GoesToDev(s, job[s].op, failed)
             THEN /\ job' = [job EXCEPT ![s].stage = "dev", ![s].err = failed]
                  /\ UNCHANGED <<fate, call>>
             ELSE Conclude(s, failed)
  <2>1. \A a \in PrimaryAnswers(s) : \E failed \in BOOLEAN, keeps \in BOOLEAN : a = <<failed, keeps>>
    BY DEF PrimaryAnswers
  <2>2. \A failed \in BOOLEAN, keeps \in BOOLEAN :
          <<failed, keeps>>[1] = failed /\ <<failed, keeps>>[2] = keeps
    OBVIOUS
  <2>3. PICK a \in PrimaryAnswers(s) :
          /\ IF a[2] THEN AppendRequest(s, job[s].batch) ELSE kept' = kept
          /\ blame' = IF a[1] THEN blame \cup {s} ELSE blame
          /\ IF GoesToDev(s, job[s].op, a[1])
               THEN /\ job' = [job EXCEPT ![s].stage = "dev", ![s].err = a[1]]
                    /\ UNCHANGED <<fate, call>>
               ELSE Conclude(s, a[1])
    BY DEF AskPrimary
  <2>4. PICK failed \in BOOLEAN, keeps \in BOOLEAN : a = <<failed, keeps>> BY <2>1
  <2>5. a[1] = failed /\ a[2] = keeps /\ <<failed, keeps>> \in PrimaryAnswers(s)
    BY <2>2, <2>4
  <2> QED BY <2>3, <2>5
<1>2. ~failed => keeps \/ job[s].op # "export"
  BY <1>1 DEF PrimaryAnswers
<1>3. /\ job[s].stage = "primary"
      /\ closed' = IF job[s].op = "stop"
                     THEN [closed EXCEPT ![s] = closed[s] \cup {"primary"}] ELSE closed
      /\ UNCHANGED <<waiter, composed, stopped, devAsked, vouched>>
  BY DEF AskPrimary, Close
<1>4. PICK batch \in SUBSET Records : batch = job[s].batch BY DEF TypeOK, Jobs
<1>5. /\ kept' \in [SignalSet -> Seq(SUBSET Records)]
      /\ \A t \in SignalSet : Contents(kept[t]) \subseteq Contents(kept'[t])
      /\ keeps => job[s].batch \subseteq Contents(kept'[s])
      /\ InvWaiter'
  BY <1>1, <1>3, <1>4, KeptGrows
<1>6. ~failed => job[s].batch \subseteq Contents(kept'[s])
  BY <1>2, <1>5 DEF InvJob
<1>7. blame \subseteq blame' /\ blame' \subseteq SignalSet /\ (failed => s \in blame')
  BY <1>1 DEF TypeOK
<1>8. CASE s \notin composed
  <2>1. Conclude(s, failed) BY <1>1, <1>8 DEF GoesToDev
  <2>2. closed[s] \cup {"primary"} = Exporters(s) BY <1>3, <1>8 DEF InvClosed, Exporters
  <2>3. devAsked' = [devAsked EXCEPT ![s] =
                       IF s \in composed THEN @ \cup job[s].batch ELSE @]
    BY <1>3, <1>8 DEF TypeOK
  <2> QED BY <1>3, <1>5, <1>6, <1>7, <2>1, <2>2, <2>3, ConcludeInv
<1>9. CASE s \in composed
  <2>1. /\ job' = [job EXCEPT ![s].stage = "dev", ![s].err = failed]
        /\ UNCHANGED <<fate, call>>
    BY <1>1, <1>9 DEF GoesToDev
  <2>2. \A t \in SignalSet :
          /\ job'[t].op = job[t].op /\ job'[t].batch = job[t].batch
          /\ t # s => job'[t] = job[t]
    BY <2>1 DEF TypeOK, Jobs
  <2>3. job'[s].stage = "dev" /\ job'[s].err = failed BY <2>1 DEF TypeOK, Jobs
  <2>4. TypeOK'
    <3>1. [job[s] EXCEPT !.stage = "dev", !.err = failed] \in Jobs
      <4>1. job[s] \in Jobs BY DEF TypeOK
      <4> QED BY <4>1 DEF Jobs
    <3>2. job' \in [SignalSet -> Jobs] BY <2>1, <3>1 DEF TypeOK
    <3>3. closed' \in [SignalSet -> SUBSET {"primary", "dev"}] BY <1>3 DEF TypeOK
    <3> QED BY <1>3, <1>5, <1>7, <1>9, <2>1, <2>2, <3>2, <3>3 DEF TypeOK, ReceiverTypeOK
  <2>5. InvBorn' BY <2>1 DEF InvBorn, Born
  <2>6. InvJob'
    <3>1. \A t \in SignalSet, f \in Fates : With(t, f)' = With(t, f) BY <2>1 DEF With
    <3>2. \A t \in SignalSet : job'[t].stage = "idle" => job'[t] = Idle
      BY <2>2, <2>3 DEF InvJob
    <3>3. \A t \in SignalSet : job'[t].stage = "dev" /\ ~job'[t].err =>
            job'[t].batch \subseteq Contents(kept'[t])
      <4>1. \A t \in SignalSet \ {s} : job[t].stage = "dev" /\ ~job[t].err =>
              job[t].batch \subseteq Contents(kept[t])
        BY DEF InvJob
      <4>2. \A t \in SignalSet \ {s} : job'[t].stage = "dev" /\ ~job'[t].err =>
              job'[t].batch \subseteq Contents(kept'[t])
        BY <1>5, <2>2, <4>1
      <4>3. ~failed => job'[s].batch \subseteq Contents(kept'[s]) BY <1>6, <2>2
      <4> QED BY <2>3, <4>2, <4>3
    <3>4. \A t \in SignalSet :
            /\ With(t, "taken")' = job'[t].batch
            /\ job'[t].op # "export" => job'[t].batch = {}
      BY <2>2, <3>1 DEF InvJob, Fates
    <3>5. \A t \in SignalSet : With(t, "answered")' \subseteq Contents(kept'[t])
      BY <1>5, <3>1 DEF InvJob, Fates
    <3> QED BY <3>2, <3>3, <3>4, <3>5 DEF InvJob
  <2>7. InvDev' BY <1>3, <2>1 DEF InvDev, With
  <2>8. InvClosed'
    <3>1. \A t \in SignalSet \ {s} : closed'[t] = closed[t] BY <1>3 DEF TypeOK
    <3>2. job[s].op = "stop" => closed'[s] = closed[s] \cup {"primary"}
      BY <1>3 DEF TypeOK
    <3>3. job[s].op # "stop" => closed'[s] = closed[s] BY <1>3
    <3> QED BY <1>3, <1>9, <2>2, <2>3, <3>1, <3>2, <3>3 DEF InvClosed, Exporters
  <2>9. InvCall'
    <3>1. call' = call /\ \A t \in SignalSet : AtHook(t)' <=> AtHook(t)
      BY <2>1 DEF AtHook
    <3>2. job'[s].stage # "idle" /\ job[s].stage # "idle" BY <1>3, <2>3
    <3>3. \A t \in SignalSet : job[t].stage # "idle" => job'[t].stage # "idle"
      BY <2>2, <3>2
    <3> QED BY <2>2, <3>1, <3>3 DEF InvCall, Running
  <2>10. InvBlame' BY <1>7, <2>1, <2>2, <2>3 DEF InvBlame, OnlyPrimaryFails, Running
  <2>11. InvVouch' BY <1>3, <2>1 DEF InvVouch, Gone, Born, With, Waiting, AtHook, Passed
  <2>12. InvStop'
    <3>1. \A t \in SignalSet \ {s} : closed'[t] = closed[t] BY <1>3 DEF TypeOK
    <3> QED BY <1>3, <2>1, <2>2, <3>1 DEF InvStop, Passed
  <2> QED BY <1>5, <2>4, <2>5, <2>6, <2>7, <2>8, <2>9, <2>10, <2>11, <2>12
<1> QED BY <1>8, <1>9

LEMMA AskDevInv ==
  ASSUME IInv, NEW s \in SignalSet, AskDev(s)
  PROVE  IInv'
<1> USE DEF IInv
<1>1. /\ job[s].stage = "dev" /\ s \in composed
      /\ devAsked' = [devAsked EXCEPT ![s] = @ \cup job[s].batch]
      /\ closed' = IF job[s].op = "stop"
                     THEN [closed EXCEPT ![s] = closed[s] \cup {"dev"}] ELSE closed
      /\ UNCHANGED <<receiverVars, composed, stopped, blame, vouched>>
  BY DEF AskDev, Close, TypeOK
<1>2. Conclude(s, job[s].err) BY DEF AskDev, PairError
<1>3. PICK err \in BOOLEAN : err = job[s].err BY DEF TypeOK, Jobs
<1>4. job[s].op = "stop" => closed[s] \cup {"dev"} = Exporters(s)
  BY <1>1 DEF InvClosed, Exporters
<1>5. kept' = kept /\ waiter' = waiter /\ InvWaiter' BY <1>1, ReceiverUnchanged DEF receiverVars
<1>6. kept \in [SignalSet -> Seq(SUBSET Records)] /\ blame \subseteq SignalSet
  BY DEF TypeOK, ReceiverTypeOK
<1>7. ~err => job[s].batch \subseteq Contents(kept[s]) BY <1>1, <1>3 DEF InvJob
<1>8. err /\ Running => s \in blame BY <1>3 DEF InvBlame
<1>9. /\ devAsked' = [devAsked EXCEPT ![s] =
                        IF s \in composed THEN @ \cup job[s].batch ELSE @]
      /\ closed' = IF job[s].op = "stop" THEN [closed EXCEPT ![s] = Exporters(s)] ELSE closed
  BY <1>1, <1>4
<1> QED BY <1>1, <1>2, <1>3, <1>5, <1>6, <1>7, <1>8, <1>9, ConcludeInv

\* Nothing is behind a call that begins, and no hook is at work.
LEMMA FreshCall ==
  ASSUME call'.hook = "out", call'.at = 1
  PROVE  \A s \in SignalSet : ~AtHook(s)' /\ ~Passed(s)'
BY HookFacts DEF AtHook, Passed

LEMMA StartInv ==
  ASSUME IInv, NEW method \in {"flush", "shutdown"}, NEW flushes \in Nat,
         Start(method, flushes),
         waiter' = waiter \/ waiter' = NotWaiting
  PROVE  IInv'
<1> USE DEF IInv
<1>1. /\ call' = [NoCall EXCEPT !.op = method, !.flushes = flushes,
                                !.before = [s \in SignalSet |-> Born(s)]]
      /\ blame' = {s \in SignalSet : job[s].err}
      /\ vouched' = Nobody
      /\ UNCHANGED <<kept, composed, fate, job, stopped, closed, devAsked>>
  BY DEF Start
<1>2. /\ call'.op = method /\ call'.at = 1 /\ call'.hook = "out" /\ call'.errs = {}
      /\ call'.late = FALSE /\ call'.before = [s \in SignalSet |-> Born(s)]
  BY <1>1 DEF NoCall
<1>3. InvWaiter'
  <2>1. CASE waiter' = waiter BY <1>1, <2>1, ReceiverUnchanged DEF receiverVars
  <2>2. CASE waiter' = NotWaiting
    <3>1. \A s \in SignalSet : IsPrefix(<<>>, kept[s])
      BY PrefixOfItself DEF TypeOK, ReceiverTypeOK
    <3> QED BY <1>1, <2>2, <3>1 DEF InvWaiter, WaitTellsTruth, NotWaiting, Nothing
  <2> QED BY <2>1, <2>2
<1>4. TypeOK'
  <2>1. ReceiverTypeOK'
    <3>1. NotWaiting \in [at : {"idle", "look", "select", "done"},
                          want : [SignalSet -> SUBSET Records],
                          snap : [SignalSet -> Seq(SUBSET Records)],
                          err : BOOLEAN, sure : BOOLEAN]
      BY DEF NotWaiting, Nothing
    <3> QED BY <1>1, <3>1 DEF TypeOK, ReceiverTypeOK
  <2>2. \A s \in SignalSet : Born(s) \in SUBSET Records BY DEF Born
  <2>3. PICK before \in [SignalSet -> SUBSET Records] : before = [s \in SignalSet |-> Born(s)]
    BY <2>2
  <2>4. call' \in Invocations
    <3>1. call' = [NoCall EXCEPT !.op = method, !.flushes = flushes, !.before = before]
      BY <1>1, <2>3
    <3>2. call' = [op |-> method, at |-> 1, hook |-> "out", goal |-> {}, errs |-> {},
                   late |-> FALSE, flushes |-> flushes, before |-> before]
      BY <3>1 DEF NoCall
    <3> QED BY <3>2 DEF Invocations
  <2> QED BY <1>1, <2>1, <2>4 DEF TypeOK, Nobody
<1>5. InvBorn' /\ InvJob' /\ InvDev' /\ InvClosed' BY <1>1, ExportersUnchanged
<1>6. \A s \in SignalSet : ~AtHook(s)' /\ ~Passed(s)' BY <1>2, FreshCall
<1>7. InvCall' BY <1>2, <1>6 DEF InvCall
<1>8. InvBlame' BY <1>1, <1>2 DEF InvBlame, OnlyPrimaryFails
<1>9. InvVouch'
  <2>1. \A s \in SignalSet : Born(s)' = Born(s) BY <1>1 DEF Born
  <2> QED BY <1>1, <1>2, <1>6, <2>1 DEF InvVouch, Nobody
<1>10. InvStop' BY <1>2, <1>6 DEF InvStop
<1> QED BY <1>3, <1>4, <1>5, <1>7, <1>8, <1>9, <1>10

LEMMA CallForceFlushInv == IInv /\ CallForceFlush => IInv'
<1> SUFFICES ASSUME IInv, CallForceFlush PROVE IInv' OBVIOUS
<1>1. PICK flushes \in Nat : flushes = call.flushes + 1
  BY DEF IInv, TypeOK, Invocations
<1> QED BY <1>1, StartInv DEF CallForceFlush

LEMMA CallShutdownInv == IInv /\ CallShutdown => IInv'
<1> SUFFICES ASSUME IInv, CallShutdown PROVE IInv' OBVIOUS
<1>1. 0 \in Nat OBVIOUS
<1> QED BY <1>1, StartInv DEF CallShutdown

LEMMA EnterHookInv == IInv /\ EnterHook => IInv'
<1> SUFFICES ASSUME IInv, EnterHook PROVE IInv' OBVIOUS
<1> USE DEF IInv
<1>1. Running /\ call.hook = "out" /\ call.at \in DOMAIN Signals
  BY HookFacts DEF EnterHook
<1>2. PICK s \in SignalSet : s = Signals[call.at] BY <1>1, HookFacts
<1>3. /\ call' = [call EXCEPT !.hook = "drain", !.goal = Waiting(s)]
      /\ stopped' \subseteq stopped \cup {s}
      /\ UNCHANGED <<receiverVars, composed, fate, job, closed, devAsked, blame, vouched>>
  BY <1>2, HookFacts DEF EnterHook
<1>4. /\ call'.op = call.op /\ call'.at = call.at /\ call'.hook = "drain"
      /\ call'.goal = Waiting(s) /\ call'.errs = call.errs /\ call'.late = call.late
      /\ call'.before = call.before
  BY <1>3 DEF TypeOK, Invocations
<1>5. \A t \in SignalSet : (AtHook(t)' <=> t = s) /\ (Passed(t)' <=> Passed(t))
  BY <1>1, <1>2, <1>4, HookFacts DEF AtHook, Passed
<1>6. TypeOK'
  <2>1. Waiting(s) \in SUBSET Records BY DEF Waiting, With
  <2>2. call' \in Invocations BY <1>3, <2>1 DEF TypeOK, Invocations
  <2> QED BY <1>3, <2>2 DEF TypeOK, ReceiverTypeOK, receiverVars
<1>7. InvWaiter' BY <1>3, ReceiverUnchanged
<1>8. InvBorn' /\ InvJob' /\ InvDev' /\ InvClosed'
  BY <1>3, ExportersUnchanged DEF receiverVars
<1>9. InvCall' BY <1>1, <1>4 DEF InvCall, Running
<1>10. InvBlame' BY <1>3, <1>4 DEF InvBlame, OnlyPrimaryFails, Running
<1>11. InvVouch'
  <2>1. \A t \in SignalSet :
          /\ Gone(t)' = Gone(t) /\ Born(t)' = Born(t) /\ Waiting(t)' = Waiting(t)
          /\ With(t, "taken")' = With(t, "taken")
    BY <1>3 DEF Gone, Born, Waiting, With
  <2>2. Born(s) \subseteq Waiting(s) \cup With(s, "taken") \cup Gone(s)
    BY DEF TypeOK, Fates, Born, Waiting, With, Gone
  <2> QED BY <1>3, <1>4, <1>5, <2>1, <2>2 DEF InvVouch
<1>12. InvStop' BY <1>3, <1>4, <1>5 DEF InvStop
<1> QED BY <1>6, <1>7, <1>8, <1>9, <1>10, <1>11, <1>12

\* A method of the exporter is called: with no batch, by a hook or in the background.
LEMMA AskToStop ==
  ASSUME IInv, NEW s \in SignalSet, job[s].stage = "idle", NEW method \in {"flush", "stop"},
         job' = [job EXCEPT ![s] = [Idle EXCEPT !.stage = "primary", !.op = method]],
         UNCHANGED <<kept, composed, fate, closed, devAsked>>
  PROVE  /\ job' \in [SignalSet -> Jobs]
         /\ \A t \in SignalSet \ {s} : job'[t] = job[t]
         /\ job'[s].stage = "primary" /\ job'[s].op = method /\ ~job'[s].err
         /\ InvBorn' /\ InvJob' /\ InvDev' /\ InvClosed'
<1> USE DEF IInv
<1>1. job' \in [SignalSet -> Jobs] BY DEF TypeOK, Jobs, Idle
<1>2. \A t \in SignalSet \ {s} : job'[t] = job[t] BY DEF TypeOK
<1>3. /\ job'[s].stage = "primary" /\ job'[s].op = method /\ job'[s].err = FALSE
      /\ job'[s].batch = {}
  BY DEF TypeOK, Idle
<1>4. InvBorn' BY DEF InvBorn, Born
<1>5. InvJob'
  <2>1. With(s, "taken") = {} BY DEF InvJob, Idle
  <2>2. \A t \in SignalSet :
          With(t, "taken")' = With(t, "taken") /\ With(t, "answered")' = With(t, "answered")
    BY DEF With
  <2> QED BY <1>2, <1>3, <2>1, <2>2 DEF InvJob
<1>6. InvDev' BY DEF InvDev, With
<1>7. InvClosed' BY <1>2, <1>3 DEF InvClosed, Exporters
<1> QED BY <1>1, <1>2, <1>3, <1>4, <1>5, <1>6, <1>7

LEMMA SettleHookInv ==
  ASSUME IInv, NEW s \in SignalSet, SettleHook(s)
  PROVE  IInv'
<1> USE DEF IInv
<1>1. /\ AtHook(s) /\ call.hook = "drain" /\ job[s].stage = "idle"
      /\ call.goal \cap Waiting(s) = {}
      /\ UNCHANGED <<receiverVars, composed, fate, stopped, closed, devAsked, blame, vouched>>
      /\ Running
  BY DEF SettleHook, InvCall
<1>2. call.before[s] \subseteq Gone(s)
  <2>1. With(s, "taken") = {} BY <1>1 DEF InvJob, Idle
  <2> QED BY <1>1, <2>1 DEF InvVouch
<1>3. InvWaiter' BY <1>1, ReceiverUnchanged
<1>4. \A t \in SignalSet :
        /\ Gone(t)' = Gone(t) /\ Born(t)' = Born(t) /\ Waiting(t)' = Waiting(t)
        /\ With(t, "taken")' = With(t, "taken")
  BY <1>1 DEF Gone, Born, Waiting, With
<1>5. \A t \in SignalSet : AtHook(t) => t = s BY <1>1 DEF AtHook
<1>6. CASE call.op = "flush" /\ s \notin Flushable
  <2>1. call' = Leave({}) /\ job' = job BY <1>6 DEF SettleHook
  <2>2. /\ call'.op = call.op /\ call'.at = call.at + 1 /\ call'.hook = "out"
        /\ call'.errs = call.errs /\ call'.late = call.late /\ call'.before = call.before
    BY <2>1, LeaveCall
  <2>3. \A t \in SignalSet : ~AtHook(t)' /\ (Passed(t)' <=> Passed(t) \/ t = s)
    BY <1>1, <2>2, HookMoves DEF AtHook, TypeOK, Invocations
  <2>4. TypeOK' BY <1>1, <2>1, LeaveCall DEF TypeOK, ReceiverTypeOK, receiverVars
  <2>5. InvBorn' /\ InvJob' /\ InvDev' /\ InvClosed'
    BY <1>1, <2>1, ExportersUnchanged DEF receiverVars
  <2>6. InvCall' BY <2>2, <2>3 DEF InvCall
  <2>7. InvBlame' BY <1>1, <2>1, <2>2 DEF InvBlame, OnlyPrimaryFails, Running
  <2>8. InvVouch' BY <1>1, <1>2, <1>4, <2>2, <2>3 DEF InvVouch
  <2>9. InvStop' BY <1>1, <1>6, <2>2 DEF InvStop
  <2> QED BY <1>3, <2>4, <2>5, <2>6, <2>7, <2>8, <2>9
<1>7. CASE ~(call.op = "flush" /\ s \notin Flushable)
  <2>1. PICK method \in {"flush", "stop"} :
          /\ call' = [call EXCEPT !.hook = "settle"]
          /\ job' = [job EXCEPT ![s] = [Idle EXCEPT !.stage = "primary", !.op = method]]
          /\ method = IF call.op = "flush" THEN "flush" ELSE "stop"
    BY <1>7 DEF SettleHook
  <2>2. /\ call'.op = call.op /\ call'.at = call.at /\ call'.hook = "settle"
        /\ call'.errs = call.errs /\ call'.late = call.late /\ call'.before = call.before
    BY <2>1 DEF TypeOK, Invocations
  <2>3. \A t \in SignalSet : (AtHook(t)' <=> AtHook(t)) /\ (Passed(t)' <=> Passed(t))
    BY <1>1, <2>2 DEF AtHook, Passed
  <2>4. /\ job' \in [SignalSet -> Jobs]
        /\ \A t \in SignalSet \ {s} : job'[t] = job[t]
        /\ job'[s].stage = "primary" /\ job'[s].op = method /\ ~job'[s].err
        /\ InvBorn' /\ InvJob' /\ InvDev' /\ InvClosed'
    BY <1>1, <2>1, AskToStop DEF receiverVars
  <2>5. TypeOK'
    <3>1. call' \in Invocations BY <2>1 DEF TypeOK, Invocations
    <3> QED BY <1>1, <2>4, <3>1 DEF TypeOK, ReceiverTypeOK, receiverVars
  <2>6. InvCall'
    <3>1. Running' /\ call'.at \in DOMAIN Signals BY <1>1, <2>2 DEF InvCall, Running
    <3>2. \A t \in SignalSet : AtHook(t)' => t = s BY <1>5, <2>3
    <3>3. job'[s].op = IF call'.op = "flush" THEN "flush" ELSE "stop" BY <2>1, <2>2, <2>4
    <3> QED BY <2>4, <3>1, <3>2, <3>3 DEF InvCall
  <2>7. InvBlame' BY <1>1, <2>2, <2>4 DEF InvBlame, OnlyPrimaryFails, Running
  <2>8. InvVouch' BY <1>1, <1>2, <1>4, <1>5, <2>2, <2>3 DEF InvVouch
  <2>9. InvStop'
    <3>1. ~Passed(s) BY <1>1, HookMoves DEF TypeOK, Invocations
    <3>2. call.op # "over" BY <1>1 DEF Running
    <3> QED BY <1>1, <2>2, <2>3, <2>4, <3>1, <3>2 DEF InvStop
  <2> QED BY <1>3, <2>4, <2>5, <2>6, <2>7, <2>8, <2>9
<1> QED BY <1>6, <1>7

LEMMA GiveUpHookInv == IInv /\ GiveUpHook => IInv'
<1> SUFFICES ASSUME IInv, GiveUpHook PROVE IInv' OBVIOUS
<1> USE DEF IInv
<1>1. Running /\ call.hook # "out" /\ call.late /\ call.at \in DOMAIN Signals
  BY DEF GiveUpHook, InvCall
<1>2. PICK s \in SignalSet : s = Signals[call.at] BY <1>1, HookFacts
<1>3. call' = Leave({s}) /\ UNCHANGED <<receiverVars, exportVars>>
  BY <1>2, HookFacts DEF GiveUpHook
<1>4. /\ call' \in Invocations
      /\ call'.op = call.op /\ call'.hook = "out"
      /\ call'.errs = call.errs \cup {s} /\ call'.late = call.late
      /\ call'.before = call.before
  BY <1>3, LeaveCall
<1>5. TypeOK'
  BY <1>3, <1>4 DEF TypeOK, ReceiverTypeOK, receiverVars, exportVars
<1>6. InvWaiter' BY <1>3, ReceiverUnchanged
<1>7. InvBorn' /\ InvJob' /\ InvDev' /\ InvClosed'
  BY <1>3, ExportersUnchanged DEF receiverVars, exportVars
<1>8. \A t \in SignalSet : ~AtHook(t)' BY <1>4 DEF AtHook
<1>9. InvCall' BY <1>4, <1>8 DEF InvCall
<1>10. InvBlame' BY <1>1, <1>3, <1>4 DEF InvBlame, OnlyPrimaryFails, Running, exportVars
<1>11. InvVouch'
  <2>1. \A t \in SignalSet : Gone(t)' = Gone(t) /\ Born(t)' = Born(t)
    BY <1>3 DEF Gone, Born, With, exportVars
  <2>2. vouched' = vouched BY <1>3 DEF exportVars
  <2> QED BY <1>1, <1>4, <1>8, <2>1, <2>2 DEF InvVouch
<1>12. InvStop' BY <1>1, <1>4 DEF InvStop
<1> QED BY <1>5, <1>6, <1>7, <1>9, <1>10, <1>11, <1>12

LEMMA StopInBackgroundInv ==
  ASSUME IInv, NEW s \in SignalSet, StopInBackground(s)
  PROVE  IInv'
<1> USE DEF IInv
<1>1. /\ ~AtHook(s) /\ job[s].stage = "idle" /\ closed[s] = {}
      /\ job' = [job EXCEPT ![s] = [Idle EXCEPT !.stage = "primary", !.op = "stop"]]
      /\ UNCHANGED <<receiverVars, composed, fate, stopped, closed, devAsked, call,
                     blame, vouched>>
  BY DEF StopInBackground
<1>2. /\ job' \in [SignalSet -> Jobs]
      /\ \A t \in SignalSet \ {s} : job'[t] = job[t]
      /\ job'[s].stage = "primary" /\ ~job'[s].err
      /\ InvBorn' /\ InvJob' /\ InvDev' /\ InvClosed'
  BY <1>1, AskToStop DEF receiverVars
<1>3. TypeOK' BY <1>1, <1>2 DEF TypeOK, ReceiverTypeOK, receiverVars
<1>4. InvWaiter' BY <1>1, ReceiverUnchanged
<1>5. \A t \in SignalSet : (AtHook(t)' <=> AtHook(t)) /\ (Passed(t)' <=> Passed(t))
  BY <1>1, HookMoves
<1>6. InvCall' BY <1>1, <1>2, <1>5 DEF InvCall, Running
<1>7. InvBlame' BY <1>1, <1>2 DEF InvBlame, OnlyPrimaryFails, Running
<1>8. InvVouch'
  <2>1. \A t \in SignalSet :
          /\ Gone(t)' = Gone(t) /\ Born(t)' = Born(t) /\ Waiting(t)' = Waiting(t)
          /\ With(t, "taken")' = With(t, "taken")
    BY <1>1 DEF Gone, Born, Waiting, With
  <2> QED BY <1>1, <1>5, <2>1 DEF InvVouch
<1>9. InvStop' BY <1>1, <1>2, <1>5 DEF InvStop
<1> QED BY <1>2, <1>3, <1>4, <1>6, <1>7, <1>8, <1>9

\* A call that is over has every hook behind it.
LEMMA EndCallInv == IInv /\ EndCall => IInv'
<1> SUFFICES ASSUME IInv, EndCall PROVE IInv' OBVIOUS
<1> USE DEF IInv
<1>1. /\ Running /\ call.hook = "out" /\ call.at \notin DOMAIN Signals
      /\ call' = [NoCall EXCEPT !.flushes = call.flushes, !.late = call.late,
                                !.op = IF call.op = "flush" THEN "none" ELSE "over"]
      /\ vouched' \in {call.before, Nobody}
      /\ vouched' = call.before =>
           call.errs = {} \/ ~call.late \/ call.before = Nobody
      /\ blame' = {}
      /\ UNCHANGED <<receiverVars, composed, fate, job, stopped, closed, devAsked>>
  BY HookFacts DEF EndCall, receiverVars
<1>2. call \in Invocations /\ call.at \in Nat \ {0} /\ call.flushes \in Nat
      /\ call.late \in BOOLEAN /\ call.before \in [SignalSet -> SUBSET Records]
  BY DEF TypeOK, Invocations
<1>3. \A s \in SignalSet : Passed(s)
  BY <1>1, <1>2, HookFacts DEF Passed
<1>4. /\ call'.op = (IF call.op = "flush" THEN "none" ELSE "over")
      /\ call'.at = 1 /\ call'.hook = "out" /\ call'.goal = {} /\ call'.errs = {}
      /\ call'.late = call.late /\ call'.before = Nobody
  BY <1>1 DEF NoCall
<1>5. \A s \in SignalSet : ~AtHook(s)' /\ ~Passed(s)' BY <1>4, FreshCall
<1>6. TypeOK'
  <2>1. call' \in Invocations
    <3>1. PICK op \in {"none", "over"}, late \in BOOLEAN, flushes \in Nat :
            call' = [NoCall EXCEPT !.flushes = flushes, !.late = late, !.op = op]
      BY <1>1, <1>2
    <3>2. PICK before \in [SignalSet -> SUBSET Records] : before = Nobody
      BY DEF Nobody
    <3>3. call' = [op |-> op, at |-> 1, hook |-> "out", goal |-> {}, errs |-> {},
                   late |-> late, flushes |-> flushes, before |-> before]
      BY <3>1, <3>2 DEF NoCall
    <3> QED BY <3>3 DEF Invocations
  <2>2. vouched' \in [SignalSet -> SUBSET Records] BY <1>1, <1>2 DEF Nobody
  <2> QED BY <1>1, <2>1, <2>2 DEF TypeOK, ReceiverTypeOK, receiverVars
<1>7. InvWaiter' BY <1>1, ReceiverUnchanged
<1>8. InvBorn' /\ InvJob' /\ InvDev' /\ InvClosed'
  BY <1>1, ExportersUnchanged DEF receiverVars
<1>9. InvCall' BY <1>4, <1>5 DEF InvCall
<1>10. InvBlame' BY <1>4 DEF InvBlame, OnlyPrimaryFails, Running
<1>11. InvVouch'
  <2>1. \A s \in SignalSet : Gone(s)' = Gone(s) BY <1>1 DEF Gone, With
  <2>2. \A s \in SignalSet : vouched'[s] \subseteq Gone(s)
    <3>1. \A s \in SignalSet : Nobody[s] = {} BY DEF Nobody
    <3> QED BY <1>1, <1>3, <3>1 DEF InvVouch
  <2> QED BY <1>4, <1>5, <2>1, <2>2 DEF InvVouch, Nobody
<1>12. InvStop' BY <1>1, <1>3, <1>4, <1>5 DEF InvStop, Running
<1> QED BY <1>6, <1>7, <1>8, <1>9, <1>10, <1>11, <1>12

LEMMA CallExpiresInv == IInv /\ CallExpires => IInv'
<1> SUFFICES ASSUME IInv, CallExpires PROVE IInv' OBVIOUS
<1> USE DEF IInv
<1>1. /\ ~call.late /\ call' = [call EXCEPT !.late = TRUE]
      /\ UNCHANGED <<receiverVars, exportVars>>
  BY DEF CallExpires
<1>2. /\ call'.op = call.op /\ call'.at = call.at /\ call'.hook = call.hook
      /\ call'.goal = call.goal /\ call'.errs = call.errs /\ call'.late = TRUE
      /\ call'.before = call.before /\ call' \in Invocations
  BY <1>1 DEF TypeOK, Invocations
<1>3. TypeOK' BY <1>1, <1>2 DEF TypeOK, ReceiverTypeOK, receiverVars, exportVars
<1>4. InvWaiter' BY <1>1, ReceiverUnchanged
<1>5. InvBorn' /\ InvJob' /\ InvDev' /\ InvClosed'
  BY <1>1, ExportersUnchanged DEF receiverVars, exportVars
<1>6. \A t \in SignalSet : (AtHook(t)' <=> AtHook(t)) /\ (Passed(t)' <=> Passed(t))
  BY <1>2, HookMoves
<1>7. InvCall' BY <1>1, <1>2, <1>6 DEF InvCall, Running, exportVars
<1>8. InvBlame' BY <1>1, <1>2 DEF InvBlame, OnlyPrimaryFails, Running, exportVars
<1>9. InvVouch'
  <2>1. \A t \in SignalSet :
          /\ Gone(t)' = Gone(t) /\ Born(t)' = Born(t) /\ Waiting(t)' = Waiting(t)
          /\ With(t, "taken")' = With(t, "taken")
    BY <1>1 DEF Gone, Born, Waiting, With, exportVars
  <2>2. vouched' = vouched BY <1>1 DEF exportVars
  <2> QED BY <1>1, <1>2, <1>6, <2>1, <2>2 DEF InvVouch
<1>10. InvStop' BY <1>2 DEF InvStop
<1> QED BY <1>3, <1>4, <1>5, <1>7, <1>8, <1>9, <1>10

\* A test that waits disturbs nothing.
LEMMA PipelineUnchanged ==
  ASSUME IInv, UNCHANGED <<kept, pipelineVars>>, ReceiverTypeOK', InvWaiter'
  PROVE  IInv'
<1> USE DEF IInv, pipelineVars, exportVars
<1>1. TypeOK' BY DEF TypeOK
<1>2. InvBorn' /\ InvJob' /\ InvDev' /\ InvClosed' BY ExportersUnchanged
<1>3. InvCall' BY DEF InvCall, Running, AtHook
<1>4. InvBlame' BY DEF InvBlame, OnlyPrimaryFails, Running
<1>5. InvVouch' BY DEF InvVouch, Gone, Born, Waiting, With, AtHook, Passed
<1>6. InvStop' BY DEF InvStop, Passed
<1> QED BY <1>1, <1>2, <1>3, <1>4, <1>5, <1>6

LEMMA TestWaitsInv == IInv /\ TestWaits => IInv'
<1> SUFFICES ASSUME IInv, TestWaits PROVE IInv' OBVIOUS
<1>1. PICK want \in [SignalSet -> SUBSET Records] : CallWaitFor(want)
  <2>1. \A s \in SignalSet : Born(s) \in SUBSET Records BY DEF Born
  <2>2. [s \in SignalSet |-> Born(s)] \in [SignalSet -> SUBSET Records] BY <2>1
  <2> QED BY <2>2 DEF TestWaits
<1>2. /\ waiter.at = "idle" /\ UNCHANGED <<kept, pipelineVars>>
      /\ waiter' = [waiter EXCEPT !.at = "look", !.want = want,
                                  !.sure = Satisfied(want, kept)]
  BY <1>1 DEF CallWaitFor, TestWaits
<1>3. ReceiverTypeOK /\ InvWaiter BY DEF IInv, TypeOK
<1>4. Satisfied(want, kept) \in BOOLEAN BY DEF Satisfied
<1>5. ReceiverTypeOK'
  BY <1>2, <1>3, <1>4 DEF ReceiverTypeOK
<1>6. /\ waiter'.at = "look" /\ waiter'.want = want /\ waiter'.snap = waiter.snap
      /\ waiter'.err = waiter.err /\ waiter'.sure = Satisfied(want, kept)
  BY <1>2, <1>3 DEF ReceiverTypeOK
<1>7. InvWaiter' BY <1>2, <1>3, <1>6 DEF InvWaiter, WaitTellsTruth, Satisfied
<1> QED BY <1>2, <1>5, <1>7, PipelineUnchanged

LEMMA TestGoesOnInv == IInv /\ TestGoesOn => IInv'
<1> SUFFICES ASSUME IInv, TestGoesOn PROVE IInv' OBVIOUS
<1>1. UNCHANGED <<kept, pipelineVars>> BY DEF TestGoesOn, Look, GiveUp
<1>2. ReceiverTypeOK /\ InvWaiter BY DEF IInv, TypeOK
<1>3. ReceiverTypeOK' /\ InvWaiter'
  <2>1. CASE Look
    <3>1. /\ waiter.at \in {"look", "select"}
          /\ waiter' = [waiter EXCEPT !.snap = kept,
               !.at = IF Satisfied(waiter.want, kept) THEN "done" ELSE "select"]
      BY <2>1 DEF Look, Snapshot
    <3>2. /\ waiter'.at = (IF Satisfied(waiter.want, kept) THEN "done" ELSE "select")
          /\ waiter'.want = waiter.want /\ waiter'.snap = kept
          /\ waiter'.err = waiter.err /\ waiter'.sure = waiter.sure
      BY <1>2, <3>1 DEF ReceiverTypeOK
    <3>3. ReceiverTypeOK' BY <1>1, <1>2, <3>1 DEF ReceiverTypeOK
    <3>4. \A s \in SignalSet : IsPrefix(kept[s], kept[s])
      BY <1>2, PrefixOfItself DEF ReceiverTypeOK
    <3> QED BY <1>1, <1>2, <3>1, <3>2, <3>3, <3>4 DEF InvWaiter, WaitTellsTruth
  <2>2. CASE GiveUp
    <3>1. waiter.at = "select" /\ waiter' = [waiter EXCEPT !.at = "done", !.err = TRUE]
      BY <2>2 DEF GiveUp, GivesUp
    <3>2. /\ waiter'.at = "done" /\ waiter'.want = waiter.want
          /\ waiter'.snap = waiter.snap /\ waiter'.err = TRUE
          /\ waiter'.sure = waiter.sure
      BY <1>2, <3>1 DEF ReceiverTypeOK
    <3>3. ReceiverTypeOK' BY <1>1, <1>2, <3>1 DEF ReceiverTypeOK
    <3> QED BY <1>1, <1>2, <3>1, <3>2, <3>3 DEF InvWaiter, WaitTellsTruth
  <2> QED BY <2>1, <2>2 DEF TestGoesOn
<1> QED BY <1>1, <1>3, PipelineUnchanged

LEMMA NextInv == IInv /\ [Next]_vars => IInv'
<1> SUFFICES ASSUME IInv, [Next]_vars PROVE IInv' OBVIOUS
<1>1. ASSUME NEW s \in SignalSet, Worker(s) PROVE IInv'
  <2>1. CASE Record(s) BY <2>1, RecordInv
  <2>2. CASE TakeBatch(s) BY <2>2, TakeBatchInv
  <2>3. CASE ExportExpires(s) BY <2>3, ExportExpiresInv
  <2>4. CASE FallsSilent(s) BY <2>4, FallsSilentInv
  <2>5. CASE AskPrimary(s) BY <2>5, AskPrimaryInv
  <2>6. CASE AskDev(s) BY <2>6, AskDevInv
  <2>7. CASE SettleHook(s) BY <2>7, SettleHookInv
  <2>8. CASE StopInBackground(s) BY <2>8, StopInBackgroundInv
  <2> QED BY <1>1, <2>1, <2>2, <2>3, <2>4, <2>5, <2>6, <2>7, <2>8 DEF Worker
<1>2. CASE CallForceFlush BY <1>2, CallForceFlushInv
<1>3. CASE CallShutdown BY <1>3, CallShutdownInv
<1>4. CASE EnterHook BY <1>4, EnterHookInv
<1>5. CASE GiveUpHook BY <1>5, GiveUpHookInv
<1>6. CASE EndCall BY <1>6, EndCallInv
<1>7. CASE CallExpires BY <1>7, CallExpiresInv
<1>8. CASE TestWaits BY <1>8, TestWaitsInv
<1>9. CASE TestGoesOn BY <1>9, TestGoesOnInv
<1>10. CASE UNCHANGED vars
  <2>1. ReceiverTypeOK /\ InvWaiter BY DEF IInv, TypeOK
  <2>2. ReceiverTypeOK' BY <1>10, <2>1 DEF ReceiverTypeOK, vars, receiverVars
  <2>3. InvWaiter' BY <1>10, <2>1, ReceiverUnchanged DEF vars
  <2> QED BY <1>10, <2>2, <2>3, PipelineUnchanged DEF vars, receiverVars
<1> QED BY <1>1, <1>2, <1>3, <1>4, <1>5, <1>6, <1>7, <1>8, <1>9, <1>10 DEF Next

-----------------------------------------------------------------------------
\* The invariant that the properties below follow from holds of every behaviour of
\* the pipeline: of the SDK's processors, the fan-out exporters of
\* devsink_lotel.go and the calls of the handle, in any interleaving.
THEOREM Invariance == Spec => []IInv
<1>1. Init => IInv BY InitInv
<1>2. IInv /\ [Next]_vars => IInv' BY NextInv
<1> QED BY <1>1, <1>2, PTL DEF Spec

\* Every variable keeps to its type; in particular only a pair asks a dev sink.
THEOREM TypeCorrect == Spec => []TypeOK
<1>1. IInv => TypeOK BY DEF IInv
<1> QED BY <1>1, Invariance, PTL

\* The exporters of a pair share one fate: the dev sink is asked for what the
\* primary has answered for, before and whatever it answered, and a Shutdown
\* reaches both though the first fails (devsink_lotel.go:87-151).
THEOREM PairTogether == Spec => []PairStaysTogether
<1>1. IInv => PairStaysTogether
  <2> SUFFICES ASSUME IInv PROVE PairStaysTogether OBVIOUS
  <2> USE DEF IInv
  <2>1. DevFollowsPrimary
    BY DEF DevFollowsPrimary, InvDev, Asked
  <2>2. StopReachesBoth
    BY DEF StopReachesBoth, InvClosed, InvStop, Exporters
  <2> QED BY <2>1, <2>2 DEF PairStaysTogether
<1> QED BY <1>1, Invariance, PTL

\* An error of a ForceFlush or Shutdown in time names a signal whose primary
\* exporter failed during the call, never one whose dev sink alone did
\* (devsink_lotel.go:89-151).
THEOREM PrimaryAlone == Spec => []OnlyPrimaryFails
<1>1. IInv => OnlyPrimaryFails BY DEF IInv, InvBlame
<1> QED BY <1>1, Invariance, PTL

\* A ForceFlush without error and a Shutdown in time have put to the primary, or
\* lost to a full buffer, all that was recorded before them on every signal, and
\* what an exporter reports as delivered is with the collector
\* (exporters.go:83-94, cleanup.go:27-67).
THEOREM CallsVouchForAll == Spec => []CallsVouch
<1>1. IInv => CallsVouch
  <2> SUFFICES ASSUME IInv, NEW s \in SignalSet
      PROVE  /\ vouched[s] \subseteq Asked(s) \cup With(s, "dropped")
             /\ With(s, "answered") \subseteq Contents(kept[s])
    BY DEF CallsVouch
  <2>1. Gone(s) \subseteq Asked(s) \cup With(s, "dropped") BY DEF Gone, Asked
  <2>2. vouched[s] \subseteq Gone(s) BY DEF IInv, InvVouch
  <2>3. With(s, "answered") \subseteq Contents(kept[s]) BY DEF IInv, InvJob
  <2> QED BY <2>1, <2>2, <2>3
<1> QED BY <1>1, Invariance, PTL

\* What the WaitFor of a test returns is true of the collector, also when the
\* context was done before it looked (internal/otlptest/receiver.go:95-111).
THEOREM WaitForIsRight == Spec => []WaitTellsTruth
<1>1. IInv => WaitTellsTruth BY DEF IInv, InvWaiter
<1> QED BY <1>1, Invariance, PTL

-----------------------------------------------------------------------------
(***************************************************************************)
(* No hook waits for what cannot come.                                     *)
(***************************************************************************)
\* The exporter of s has been asked to stop.
Stops(s) == closed[s] # {} \/ job[s].op = "stop"

\* Only Shutdown stops a processor, at its hook, and only a stopped processor stops
\* its exporter; a hook that still has records to export finds it untouched.
InvHook ==
  /\ stopped # {} => call.op \in {"shutdown", "over"}
  /\ \A s \in SignalSet :
       /\ s \in stopped /\ call.op = "shutdown" => Passed(s) \/ AtHook(s)
       /\ AtHook(s) /\ call.op = "shutdown" => s \in stopped
       /\ Stops(s) => s \in stopped
       /\ AtHook(s) /\ call.hook = "drain" => ~Stops(s)

LEMMA InitHook == Init => InvHook
BY DEF Init, InvHook, Stops, NoCall, Nobody, Idle, AtHook

\* What neither moves the call nor stops an exporter disturbs nothing.
Calm == call'.op = call.op /\ call'.hook = call.hook /\ call'.at = call.at
NoneStops == UNCHANGED stopped /\ \A s \in SignalSet : Stops(s)' => Stops(s)

LEMMA CalmHook ==
  ASSUME InvHook, Calm, NoneStops
  PROVE  InvHook'
<1>1. \A s \in SignalSet : (AtHook(s)' <=> AtHook(s)) /\ (Passed(s)' <=> Passed(s))
  BY HookMoves DEF Calm
<1> QED BY <1>1 DEF InvHook, Calm, NoneStops

\* A hook that is over is behind the call.
LEMMA LeaveHook ==
  ASSUME TypeOK, InvHook, NoneStops, NEW s \in SignalSet, AtHook(s),
         call'.op = call.op, call'.at = call.at + 1, call'.hook = "out"
  PROVE  InvHook'
<1>1. call.at \in Nat BY DEF TypeOK, Invocations
<1>2. \A t \in SignalSet : Passed(t)' <=> Passed(t) \/ t = s BY <1>1, HookMoves
<1>3. \A t \in SignalSet : ~AtHook(t)' /\ (AtHook(t) => t = s) BY DEF AtHook
<1> QED BY <1>2, <1>3 DEF InvHook, NoneStops

\* A step of the exporter of s stops nothing if it was not asked to, and closes
\* only what stops.
LEMMA ExporterStops ==
  ASSUME NEW s \in SignalSet, UNCHANGED stopped,
         \A t \in SignalSet \ {s} : job'[t] = job[t] /\ closed'[t] = closed[t],
         job'[s].op \in {job[s].op, "export", "flush"},
         closed'[s] = closed[s] \/ job[s].op = "stop"
  PROVE  NoneStops
<1>1. Stops(s)' => Stops(s) BY DEF Stops
<1>2. \A t \in SignalSet \ {s} : Stops(t)' => Stops(t) BY DEF Stops
<1> QED BY <1>1, <1>2 DEF NoneStops

\* The exporter is closed by the method that stops it.
Closes(s, exporter) ==
  closed' = IF job[s].op = "stop" THEN [closed EXCEPT ![s] = @ \cup {exporter}] ELSE closed

LEMMA ClosesWhatStops ==
  ASSUME TypeOK, NEW s \in SignalSet, NEW exporter, Closes(s, exporter)
  PROVE  /\ \A t \in SignalSet \ {s} : closed'[t] = closed[t]
         /\ closed'[s] = closed[s] \/ job[s].op = "stop"
BY DEF TypeOK, Closes

LEMMA ConcludeHook ==
  ASSUME IInv, InvHook, NEW s \in SignalSet, NEW err \in BOOLEAN, Conclude(s, err),
         UNCHANGED stopped, NEW exporter, Closes(s, exporter)
  PROVE  InvHook'
<1>1. TypeOK BY DEF IInv
<1>2. job' = [job EXCEPT ![s] = Idle] BY ConcludeEffect
<1>3. PICK told \in Told(s, err) : Reports(s, told) BY ConcludeEffect
<1>4. /\ \A t \in SignalSet \ {s} : job'[t] = job[t]
      /\ job'[s].op = "export"
  BY <1>1, <1>2 DEF TypeOK, Idle
<1>5. NoneStops
  <2>1. /\ \A t \in SignalSet \ {s} : closed'[t] = closed[t]
        /\ closed'[s] = closed[s] \/ job[s].op = "stop"
    BY <1>1, ClosesWhatStops
  <2> QED BY <1>4, <2>1, ExporterStops
<1>6. told \in SUBSET SignalSet BY <1>3 DEF Told
<1>7. CASE AtHook(s) /\ call.hook = "settle"
  <2>1. call' = Leave(told) BY <1>3, <1>7 DEF Reports
  <2>2. call'.op = call.op /\ call'.at = call.at + 1 /\ call'.hook = "out"
    BY <1>1, <1>6, <2>1, LeaveCall
  <2> QED BY <1>1, <1>5, <1>7, <2>2, LeaveHook
<1>8. CASE ~(AtHook(s) /\ call.hook = "settle")
  <2>1. call' = [call EXCEPT !.errs = @ \cup told] BY <1>3, <1>8 DEF Reports
  <2>2. Calm BY <1>1, <2>1 DEF Calm, TypeOK, Invocations
  <2> QED BY <1>5, <2>2, CalmHook
<1> QED BY <1>7, <1>8

LEMMA AskPrimaryHook ==
  ASSUME IInv, InvHook, NEW s \in SignalSet, AskPrimary(s)
  PROVE  InvHook'
<1>1. TypeOK BY DEF IInv
<1>2. UNCHANGED stopped BY DEF AskPrimary
<1>3. Closes(s, "primary") BY DEF AskPrimary, Close, Closes
<1>4. PICK a \in PrimaryAnswers(s) :
        IF GoesToDev(s, job[s].op, a[1])
          THEN /\ job' = [job EXCEPT ![s].stage = "dev", ![s].err = a[1]]
               /\ UNCHANGED <<fate, call>>
          ELSE Conclude(s, a[1])
  BY DEF AskPrimary
<1>5. CASE GoesToDev(s, job[s].op, a[1])
  <2>1. /\ job' = [job EXCEPT ![s].stage = "dev", ![s].err = a[1]]
        /\ UNCHANGED call
    BY <1>4, <1>5
  <2>2. /\ \A t \in SignalSet \ {s} : job'[t] = job[t]
        /\ job'[s].op = job[s].op
    BY <1>1, <2>1 DEF TypeOK, Jobs
  <2>3. NoneStops BY <1>1, <1>2, <1>3, <2>2, ClosesWhatStops, ExporterStops
  <2> QED BY <2>1, <2>3, CalmHook DEF Calm
<1>6. CASE ~GoesToDev(s, job[s].op, a[1])
  <2>1. Conclude(s, a[1]) BY <1>4, <1>6
  <2>2. a[1] \in BOOLEAN
    <3>1. PICK failed \in BOOLEAN, keeps \in BOOLEAN : a = <<failed, keeps>>
      BY DEF PrimaryAnswers
    <3>2. <<failed, keeps>>[1] = failed OBVIOUS
    <3> QED BY <3>1, <3>2
  <2> QED BY <1>2, <1>3, <2>1, <2>2, ConcludeHook
<1> QED BY <1>5, <1>6

LEMMA AskDevHook ==
  ASSUME IInv, InvHook, NEW s \in SignalSet, AskDev(s)
  PROVE  InvHook'
<1>1. UNCHANGED stopped BY DEF AskDev
<1>2. Closes(s, "dev") BY DEF AskDev, Close, Closes
<1>3. job[s].err \in BOOLEAN BY DEF IInv, TypeOK, Jobs
<1>4. Conclude(s, job[s].err) BY DEF AskDev, PairError
<1> QED BY <1>1, <1>2, <1>3, <1>4, ConcludeHook

\* The worker takes what waits, and falls silent, without stopping anything.
LEMMA WorkerHook ==
  ASSUME IInv, InvHook, NEW s \in SignalSet,
         Record(s) \/ TakeBatch(s) \/ ExportExpires(s) \/ FallsSilent(s)
  PROVE  InvHook'
<1>1. TypeOK BY DEF IInv
<1>2. UNCHANGED <<stopped, closed>>
  BY DEF Record, TakeBatch, ExportExpires, FallsSilent
<1>3. Calm
  <2>1. call' = call \/ call' = [call EXCEPT !.goal = @ \ NextBatch(s)]
    BY DEF Record, TakeBatch, ExportExpires, FallsSilent
  <2> QED BY <1>1, <2>1 DEF Calm, TypeOK, Invocations
<1>4. /\ \A t \in SignalSet \ {s} : job'[t] = job[t]
      /\ job'[s].op \in {job[s].op, "export"}
  <2>1. CASE Record(s) BY <2>1 DEF Record
  <2>2. CASE TakeBatch(s)
    <3>1. job' = [job EXCEPT ![s] = [Idle EXCEPT !.stage = "primary", !.batch = NextBatch(s)]]
      BY <2>2 DEF TakeBatch
    <3> QED BY <1>1, <3>1 DEF TypeOK, Idle
  <2>3. CASE ExportExpires(s) BY <1>1, <2>3 DEF ExportExpires, TypeOK, Jobs
  <2>4. CASE FallsSilent(s) BY <1>1, <2>4 DEF FallsSilent, TypeOK, Jobs
  <2> QED BY <2>1, <2>2, <2>3, <2>4
<1>5. NoneStops BY <1>2, <1>4, ExporterStops
<1> QED BY <1>3, <1>5, CalmHook

LEMMA SettleHookHook ==
  ASSUME IInv, InvHook, NEW s \in SignalSet, SettleHook(s)
  PROVE  InvHook'
<1>1. TypeOK /\ Running BY DEF IInv, InvCall, SettleHook, AtHook
<1>2. /\ AtHook(s) /\ call.hook = "drain" /\ job[s].stage = "idle"
      /\ UNCHANGED <<stopped, closed>>
  BY DEF SettleHook
<1>3. CASE call.op = "flush" /\ s \notin Flushable
  <2>1. call' = Leave({}) /\ job' = job BY <1>3 DEF SettleHook
  <2>2. call'.op = call.op /\ call'.at = call.at + 1 /\ call'.hook = "out"
    BY <1>1, <2>1, LeaveCall
  <2>3. NoneStops BY <1>2, <2>1 DEF NoneStops, Stops
  <2> QED BY <1>1, <1>2, <2>2, <2>3, LeaveHook
<1>4. CASE ~(call.op = "flush" /\ s \notin Flushable)
  <2>1. PICK method \in {"flush", "stop"} :
          /\ call' = [call EXCEPT !.hook = "settle"]
          /\ job' = [job EXCEPT ![s] = [Idle EXCEPT !.stage = "primary", !.op = method]]
          /\ method = IF call.op = "flush" THEN "flush" ELSE "stop"
    BY <1>4 DEF SettleHook
  <2>2. call'.op = call.op /\ call'.at = call.at /\ call'.hook = "settle"
    BY <1>1, <2>1 DEF TypeOK, Invocations
  <2>3. \A t \in SignalSet : (AtHook(t)' <=> AtHook(t)) /\ (Passed(t)' <=> Passed(t))
    BY <1>2, <2>2 DEF AtHook, Passed
  <2>4. /\ \A t \in SignalSet \ {s} : job'[t] = job[t]
        /\ job'[s].op = method
    BY <1>1, <2>1 DEF TypeOK, Idle
  <2>5. \A t \in SignalSet \ {s} : Stops(t)' <=> Stops(t) BY <1>2, <2>4 DEF Stops
  <2>6. Stops(s)' => s \in stopped
    <3>1. CASE call.op = "flush" BY <1>2, <2>1, <2>4, <3>1 DEF Stops, InvHook
    <3>2. CASE call.op = "shutdown" BY <1>2, <3>2 DEF InvHook
    <3> QED BY <1>1, <3>1, <3>2 DEF Running
  <2> QED BY <1>2, <2>2, <2>3, <2>5, <2>6 DEF InvHook
<1> QED BY <1>3, <1>4

LEMMA StopInBackgroundHook ==
  ASSUME IInv, InvHook, NEW s \in SignalSet, StopInBackground(s)
  PROVE  InvHook'
<1>1. /\ s \in stopped /\ ~AtHook(s)
      /\ job' = [job EXCEPT ![s] = [Idle EXCEPT !.stage = "primary", !.op = "stop"]]
      /\ UNCHANGED <<stopped, closed, call>>
  BY DEF StopInBackground
<1>2. \A t \in SignalSet \ {s} : Stops(t)' <=> Stops(t)
  BY <1>1 DEF Stops, IInv, TypeOK
<1>3. \A t \in SignalSet : (AtHook(t)' <=> AtHook(t)) /\ (Passed(t)' <=> Passed(t))
  BY <1>1, HookMoves
<1> QED BY <1>1, <1>2, <1>3 DEF InvHook

LEMMA EnterHookHook == IInv /\ InvHook /\ EnterHook => InvHook'
<1> SUFFICES ASSUME IInv, InvHook, EnterHook PROVE InvHook' OBVIOUS
<1>1. TypeOK BY DEF IInv
<1>2. Running /\ call.hook = "out" /\ call.at \in DOMAIN Signals
  BY HookFacts DEF EnterHook
<1>3. PICK s \in SignalSet : s = Signals[call.at] BY <1>2, HookFacts
<1>4. /\ call' = [call EXCEPT !.hook = "drain", !.goal = Waiting(s)]
      /\ stopped' = IF call.op = "shutdown" THEN stopped \cup {s} ELSE stopped
      /\ UNCHANGED <<job, closed>>
  BY <1>3, HookFacts DEF EnterHook
<1>5. call'.op = call.op /\ call'.at = call.at /\ call'.hook = "drain"
  BY <1>1, <1>4 DEF TypeOK, Invocations
<1>6. \A t \in SignalSet :
        /\ AtHook(t)' <=> t = s
        /\ Passed(t)' <=> Passed(t)
        /\ ~AtHook(t)
  BY <1>2, <1>3, <1>5, HookFacts DEF AtHook, Passed
<1>7. ~Passed(s)
  <2>1. \A i \in DOMAIN Signals : Signals[i] = s => i = call.at BY <1>2, <1>3, HookFacts
  <2>2. call.at \in Nat BY <1>1 DEF TypeOK, Invocations
  <2> QED BY <2>1, <2>2 DEF Passed
<1>8. ~Stops(s)
  <2>1. s \notin stopped BY <1>2, <1>6, <1>7 DEF InvHook, Running
  <2> QED BY <2>1 DEF InvHook
<1>9. \A t \in SignalSet : Stops(t)' <=> Stops(t) BY <1>4 DEF Stops
<1>10. call.op = "shutdown" => s \in stopped' BY <1>4
<1>11. stopped \subseteq stopped' /\ stopped' \subseteq stopped \cup {s}
  BY <1>4
<1>12. stopped' # {} => call.op \in {"shutdown", "over"} BY <1>4 DEF InvHook
<1> QED BY <1>5, <1>6, <1>8, <1>9, <1>10, <1>11, <1>12 DEF InvHook

LEMMA CallsHook ==
  ASSUME IInv, InvHook, CallForceFlush \/ CallShutdown \/ GiveUpHook \/ EndCall
  PROVE  InvHook'
<1>1. TypeOK BY DEF IInv
<1>2. CASE GiveUpHook
  <2>1. Running /\ call.hook # "out" /\ call.at \in DOMAIN Signals
    BY <1>2 DEF GiveUpHook, IInv, InvCall
  <2>2. PICK s \in SignalSet : s = Signals[call.at] BY <2>1, HookFacts
  <2>3. AtHook(s) BY <2>1, <2>2, HookFacts DEF AtHook
  <2>4. call' = Leave({s}) BY <1>2, <2>2, HookFacts DEF GiveUpHook
  <2>5. call'.op = call.op /\ call'.at = call.at + 1 /\ call'.hook = "out"
    BY <1>1, <2>4, LeaveCall
  <2>6. NoneStops BY <1>2 DEF GiveUpHook, exportVars, NoneStops, Stops
  <2> QED BY <1>1, <2>3, <2>5, <2>6, LeaveHook
<1>3. CASE CallForceFlush \/ CallShutdown \/ EndCall
  <2>1. /\ UNCHANGED <<job, closed, stopped>>
        /\ call'.hook = "out"
        /\ stopped # {} => call'.op \notin {"none", "flush", "shutdown"}
        /\ call'.op = "shutdown" => stopped = {}
    <3>1. CASE CallForceFlush \/ CallShutdown
      <4>1. PICK op \in {"flush", "shutdown"} : \E flushes : Start(op, flushes)
        BY <3>1 DEF CallForceFlush, CallShutdown
      <4>2. call.op = "none" BY <4>1 DEF Start
      <4>3. stopped = {} BY <4>2 DEF InvHook
      <4> QED BY <4>1, <4>3 DEF Start, NoCall
    <3>2. CASE EndCall
      <4>1. call'.hook = "out" /\ call'.op = IF call.op = "flush" THEN "none" ELSE "over"
        BY <3>2 DEF EndCall, NoCall
      <4> QED BY <3>2, <4>1 DEF EndCall, InvHook
    <3> QED BY <1>3, <3>1, <3>2
  <2>2. call'.op \in {"none", "flush", "shutdown", "over"}
    <3>1. TypeOK' BY <1>3, CallForceFlushInv, CallShutdownInv, EndCallInv DEF IInv
    <3> QED BY <3>1 DEF TypeOK, Invocations
  <2>3. \A t \in SignalSet : ~AtHook(t)' /\ (Stops(t)' <=> Stops(t))
    BY <2>1 DEF AtHook, Stops
  <2> QED BY <2>1, <2>2, <2>3 DEF InvHook
<1> QED BY <1>2, <1>3

LEMMA NextHook == IInv /\ InvHook /\ [Next]_vars => InvHook'
<1> SUFFICES ASSUME IInv, InvHook, [Next]_vars PROVE InvHook' OBVIOUS
<1>1. ASSUME NEW s \in SignalSet, Worker(s) PROVE InvHook'
  BY <1>1, WorkerHook, AskPrimaryHook, AskDevHook, SettleHookHook, StopInBackgroundHook
     DEF Worker
<1>2. CASE EnterHook BY <1>2, EnterHookHook
<1>3. CASE CallForceFlush \/ CallShutdown \/ GiveUpHook \/ EndCall BY <1>3, CallsHook
<1>4. ASSUME UNCHANGED <<stopped, closed, job>>, Calm PROVE InvHook'
  BY <1>4, CalmHook DEF NoneStops, Stops
<1>5. CASE CallExpires
  <2>1. Calm BY <1>5 DEF CallExpires, Calm, IInv, TypeOK, Invocations
  <2> QED BY <1>4, <1>5, <2>1 DEF CallExpires, exportVars
<1>6. CASE TestWaits \/ TestGoesOn \/ UNCHANGED vars
  BY <1>4, <1>6 DEF TestWaits, TestGoesOn, vars, pipelineVars, exportVars, Calm
<1> QED BY <1>1, <1>2, <1>3, <1>5, <1>6 DEF Next

\* No hook waits for what cannot come: an exporter that is silent has a timeout, and
\* what a hook still has to put to its exporter that one takes, as it was neither
\* flushed nor shut down before; so that who waits waits for somebody who goes on
\* (devsink_lotel.go:87-151, exporters.go:225-256).
HooksGoOn ==
  \A s \in SignalSet :
    /\ Silent(s) => job[s].stage # "idle" /\ Limited(s)
    /\ AtHook(s) /\ job[s].stage = "idle" =>
         call.hook = "drain" /\ (call.goal \cap Waiting(s) = {} \/ closed[s] = {})

\* What a hook waits for comes: the export under way has a timeout, and an exporter
\* that has records to take for a hook has not been stopped (devsink_lotel.go:87-151,
\* exporters.go:225-256).
THEOREM HooksAreServed == Spec => []HooksGoOn
<1>1. IInv /\ InvHook => HooksGoOn
  <2> SUFFICES ASSUME IInv, InvHook, NEW s \in SignalSet
               PROVE  /\ Silent(s) => job[s].stage # "idle" /\ Limited(s)
                      /\ AtHook(s) /\ job[s].stage = "idle" =>
                           /\ call.hook = "drain"
                           /\ call.goal \cap Waiting(s) = {} \/ closed[s] = {}
    BY DEF HooksGoOn
  <2>1. Silent(s) => job[s].stage # "idle" BY DEF IInv, InvJob, Silent, Idle
  <2>2. AtHook(s) /\ job[s].stage = "idle" => call.hook = "drain"
    <3>1. call.hook \in {"out", "drain", "settle"} BY DEF IInv, TypeOK, Invocations
    <3> QED BY <3>1 DEF IInv, InvCall, AtHook
  <2>3. AtHook(s) /\ call.hook = "drain" => closed[s] = {} BY DEF InvHook, Stops
  <2> QED BY <2>1, <2>2, <2>3 DEF Limited
<1>2. Spec => []InvHook BY InitHook, NextHook, Invariance, PTL DEF Spec
<1> QED BY <1>1, <1>2, Invariance, PTL

-----------------------------------------------------------------------------
(***************************************************************************)
(* Every request that a hook's processor makes brings the hook nearer its  *)
(* end.                                                                    *)
(***************************************************************************)
\* Of some numbers one is the least: what is below it is the least of sets.
LEMMA Least ==
  ASSUME NEW n \in Nat, NEW U \in SUBSET (1..n), U # {}
  PROVE  \E m \in U : \A x \in U : m <= x
<1>1. PICK below : below = [g \in U |-> {q \in U : q < g}] OBVIOUS
<1>2. PICK T : T = {below[g] : g \in U} OBVIOUS
<1>3. PICK R : R = StrictSubsetOrdering(1..n) OBVIOUS
<1>4. \A g \in U : g \in Int OBVIOUS
<1>5. T \subseteq FiniteSubsetsOf(1..n)
  <2>1. IsFiniteSet(1..n) BY FS_Interval
  <2>2. FiniteSubsetsOf(1..n) = SUBSET (1..n) BY <2>1, FS_FiniteSubsetsOfFinite
  <2>3. ASSUME NEW g \in U PROVE below[g] \subseteq 1..n
    <3>1. below[g] \subseteq U BY <1>1
    <3> QED BY <3>1
  <2>4. PICK S : S = 1..n OBVIOUS
  <2>5. \A g \in U : below[g] \in SUBSET S BY <2>3, <2>4
  <2>6. T \subseteq SUBSET S BY <1>2, <2>5
  <2> QED BY <2>2, <2>4, <2>6
<1>6. IsWellFoundedOn(R, FiniteSubsetsOf(1..n))
  BY <1>3, FS_StrictSubsetOrderingWellFounded
<1>7. PICK b \in T : \A y \in T : <<y, b>> \notin R
  <2>1. PICK g : g \in U OBVIOUS
  <2>2. below[g] \in T BY <1>2, <2>1
  <2> QED BY <1>5, <1>6, <2>2, WFMin
<1>8. PICK m \in U : b = below[m] BY <1>2, <1>7
<1>9. ASSUME NEW x \in U, x < m PROVE FALSE
  <2>1. below[x] \subseteq below[m]
    <3>1. ASSUME NEW q \in below[x] PROVE q \in below[m]
      <4>1. q \in U /\ q < x BY <1>1
      <4>2. q < m BY <1>4, <1>9, <4>1
      <4> QED BY <1>1, <4>1, <4>2
    <3> QED BY <3>1
  <2>2. x \in below[m] /\ x \notin below[x] BY <1>1, <1>4, <1>9
  <2>4. below[x] \in T BY <1>2
  <2>5. b \in FiniteSubsetsOf(1..n) /\ below[x] \in FiniteSubsetsOf(1..n) BY <1>5, <2>4
  <2>3. <<below[x], b>> \in R
    <3>1. below[x] \in SUBSET (1..n) /\ b \in SUBSET (1..n) BY <2>5 DEF FiniteSubsetsOf
    <3> QED BY <1>3, <1>8, <2>1, <2>2, <3>1 DEF StrictSubsetOrdering
  <2> QED BY <1>7, <2>3, <2>4
<1> QED BY <1>4, <1>9

\* A hook waits for what was recorded before it, which is older than the rest of
\* what waits.
InvDrain ==
  \A s \in SignalSet : AtHook(s) =>
    /\ call.goal \subseteq Born(s)
    /\ \A g \in call.goal \cap Waiting(s), r \in Waiting(s) \ call.goal : g < r

\* The step adds nothing to what the hook of s waits for, nor to what else waits.
Eases(s) ==
  AtHook(s)' =>
    /\ AtHook(s)
    /\ call'.goal \subseteq call.goal
    /\ Born(s) \subseteq Born(s)'
    /\ Waiting(s)' \subseteq Waiting(s)
    /\ Waiting(s)' \ call'.goal \subseteq Waiting(s) \ call.goal

LEMMA EasesDrain ==
  ASSUME InvDrain, \A s \in SignalSet : Eases(s)
  PROVE  InvDrain'
<1> SUFFICES ASSUME NEW s \in SignalSet, AtHook(s)'
             PROVE  /\ call'.goal \subseteq Born(s)'
                    /\ \A g \in call'.goal \cap Waiting(s)', r \in Waiting(s)' \ call'.goal :
                         g < r
  BY DEF InvDrain
<1>1. /\ AtHook(s)
      /\ call'.goal \subseteq call.goal
      /\ Born(s) \subseteq Born(s)'
      /\ Waiting(s)' \subseteq Waiting(s)
      /\ Waiting(s)' \ call'.goal \subseteq Waiting(s) \ call.goal
  BY DEF Eases
<1>2. /\ call.goal \subseteq Born(s)
      /\ \A g \in call.goal \cap Waiting(s), r \in Waiting(s) \ call.goal : g < r
  BY <1>1 DEF InvDrain
<1> QED BY <1>1, <1>2

\* Nor does a step that leaves the records and the goal alone, or ends the hook.
LEMMA RecordsAlone ==
  ASSUME fate' = fate,
         \/ call' = call
         \/ call'.hook = "out"
         \/ call.hook # "out" /\ call'.at = call.at /\ call'.goal = call.goal
  PROVE  \A s \in SignalSet : Eases(s)
BY DEF Eases, AtHook, Born, Waiting, With

LEMMA ConcludeEases ==
  ASSUME IInv, NEW s \in SignalSet, NEW err \in BOOLEAN, Conclude(s, err)
  PROVE  \A t \in SignalSet : Eases(t)
<1>1. TypeOK BY DEF IInv
<1>2. /\ \A t \in SignalSet \ {s} : fate'[t] = fate[t]
      /\ \A r \in job[s].batch :
           fate[s][r] = "taken" /\ fate'[s][r] = IF err THEN "refused" ELSE "answered"
      /\ \A r \in Records \ job[s].batch : fate'[s][r] = fate[s][r]
  BY ConcludeEffect
<1>3. \A t \in SignalSet : Born(t)' = Born(t) /\ Waiting(t)' = Waiting(t)
  BY <1>2 DEF Born, Waiting, With
<1>4. PICK told \in Told(s, err) : Reports(s, told) BY ConcludeEffect
<1>5. told \in SUBSET SignalSet BY <1>4 DEF Told
<1>6. CASE AtHook(s) /\ call.hook = "settle"
  <2>1. call' = Leave(told) BY <1>4, <1>6 DEF Reports
  <2>2. call'.hook = "out" BY <1>1, <1>5, <2>1, LeaveCall
  <2> QED BY <2>2 DEF Eases, AtHook
<1>7. CASE ~(AtHook(s) /\ call.hook = "settle")
  <2>1. call' = [call EXCEPT !.errs = @ \cup told] BY <1>4, <1>7 DEF Reports
  <2>2. call'.hook = call.hook /\ call'.at = call.at /\ call'.goal = call.goal
    BY <1>1, <2>1 DEF TypeOK, Invocations
  <2> QED BY <1>3, <2>2 DEF Eases, AtHook
<1> QED BY <1>6, <1>7

LEMMA AskPrimaryEases ==
  ASSUME IInv, NEW s \in SignalSet, AskPrimary(s)
  PROVE  \A t \in SignalSet : Eases(t)
<1>1. PICK a \in PrimaryAnswers(s) :
        IF GoesToDev(s, job[s].op, a[1])
          THEN UNCHANGED <<fate, call>>
          ELSE Conclude(s, a[1])
  BY DEF AskPrimary
<1>2. a[1] \in BOOLEAN
  <2>1. PICK failed \in BOOLEAN, keeps \in BOOLEAN : a = <<failed, keeps>>
    BY DEF PrimaryAnswers
  <2>2. <<failed, keeps>>[1] = failed OBVIOUS
  <2> QED BY <2>1, <2>2
<1>3. CASE GoesToDev(s, job[s].op, a[1]) BY <1>1, <1>3, RecordsAlone
<1>4. CASE ~GoesToDev(s, job[s].op, a[1])
  <2>1. Conclude(s, a[1]) BY <1>1, <1>4
  <2> QED BY <1>2, <2>1, ConcludeEases
<1> QED BY <1>3, <1>4

\* What is taken leaves the goal and the buffer together.
LEMMA TakeBatchEases ==
  ASSUME IInv, NEW s \in SignalSet, TakeBatch(s)
  PROVE  /\ \A t \in SignalSet : Eases(t)
         /\ AtHook(s) => call'.goal = call.goal \ NextBatch(s)
<1>1. TypeOK BY DEF IInv
<1>2. PICK batch \in SUBSET Records : batch = NextBatch(s) /\ batch \subseteq Waiting(s)
  BY DEF NextBatch, Waiting, With
<1>3. /\ fate' = Become(s, batch, "taken")
      /\ call' = IF AtHook(s) THEN [call EXCEPT !.goal = @ \ batch] ELSE call
  BY <1>2 DEF TakeBatch
<1>4. /\ \A t \in SignalSet \ {s} : fate'[t] = fate[t]
      /\ \A r \in batch : fate'[s][r] = "taken"
      /\ \A r \in Records \ batch : fate'[s][r] = fate[s][r]
  <2>1. "taken" \in Fates BY DEF Fates
  <2>2. /\ fate' \in [SignalSet -> [Records -> Fates]]
        /\ \A t \in SignalSet \ {s} : fate'[t] = fate[t]
        /\ \A r \in batch : fate'[s][r] = "taken"
        /\ \A r \in Records \ batch : fate'[s][r] = fate[s][r]
    BY <1>1, <1>3, <2>1, BecomeFate
  <2> QED BY <2>2
<1>5. \A r \in batch : fate[s][r] = "waiting" BY <1>2 DEF Waiting, With
<1>6. /\ \A t \in SignalSet : Born(t)' = Born(t)
      /\ \A t \in SignalSet \ {s} : Waiting(t)' = Waiting(t)
      /\ Waiting(s)' = Waiting(s) \ batch
  BY <1>2, <1>4, <1>5 DEF Born, Waiting, With
<1>7. /\ call'.hook = call.hook /\ call'.at = call.at
      /\ call'.goal = IF AtHook(s) THEN call.goal \ batch ELSE call.goal
  BY <1>1, <1>3 DEF TypeOK, Invocations
<1>8. \A t \in SignalSet : AtHook(t)' <=> AtHook(t) BY <1>7, HookMoves
<1>9. \A t \in SignalSet : AtHook(s) /\ AtHook(t) => t = s BY DEF AtHook
<1>10. Eases(s) BY <1>6, <1>7, <1>8 DEF Eases
<1>11. ASSUME NEW t \in SignalSet, t # s PROVE Eases(t)
  <2>1. AtHook(t) => call'.goal = call.goal BY <1>7, <1>9, <1>11
  <2> QED BY <1>6, <1>8, <1>11, <2>1 DEF Eases
<1> QED BY <1>2, <1>7, <1>10, <1>11

LEMMA NextEases ==
  ASSUME IInv, [Next]_vars
  PROVE  \/ EnterHook
         \/ \E s \in SignalSet : Record(s)
         \/ \A s \in SignalSet : Eases(s)
<1> DEFINE Ease == \A s \in SignalSet : Eases(s)
<1> HIDE DEF Ease
<1>1. TypeOK BY DEF IInv
<1>2. fate' = fate /\ (call' = call \/ call'.hook = "out") => Ease
  BY RecordsAlone DEF Ease
<1>3. ASSUME NEW s \in SignalSet, Worker(s) PROVE Record(s) \/ Ease
  <2>1. CASE TakeBatch(s) BY <2>1, TakeBatchEases DEF Ease
  <2>2. CASE AskPrimary(s) BY <2>2, AskPrimaryEases DEF Ease
  <2>3. CASE AskDev(s)
    <3>1. job[s].err \in BOOLEAN BY <1>1 DEF TypeOK, Jobs
    <3>2. Conclude(s, job[s].err) BY <2>3 DEF AskDev, PairError
    <3> QED BY <3>1, <3>2, ConcludeEases DEF Ease
  <2>4. CASE SettleHook(s)
    <3>1. fate' = fate /\ call.hook = "drain" BY <2>4 DEF SettleHook
    <3>2. CASE call' = Leave({})
      <4>1. call'.hook = "out" BY <1>1, <3>2, LeaveCall
      <4> QED BY <1>2, <3>1, <4>1
    <3>3. CASE call' = [call EXCEPT !.hook = "settle"]
      <4>1. call'.at = call.at /\ call'.goal = call.goal
        BY <1>1, <3>3 DEF TypeOK, Invocations
      <4> QED BY <3>1, <4>1, RecordsAlone DEF Ease
    <3> QED BY <2>4, <3>2, <3>3 DEF SettleHook
  <2>5. CASE ExportExpires(s) \/ FallsSilent(s) \/ StopInBackground(s)
    <3>1. fate' = fate /\ call' = call
      BY <2>5 DEF ExportExpires, FallsSilent, StopInBackground
    <3> QED BY <1>2, <3>1
  <2> QED BY <1>3, <2>1, <2>2, <2>3, <2>4, <2>5 DEF Worker
<1>4. CASE CallForceFlush \/ CallShutdown
  <2>1. PICK op, flushes : Start(op, flushes) BY <1>4 DEF CallForceFlush, CallShutdown
  <2>2. fate' = fate /\ call'.hook = "out" BY <2>1 DEF Start, NoCall
  <2> QED BY <1>2, <2>2 DEF Ease
<1>5. CASE GiveUpHook
  <2>1. /\ fate' = fate
        /\ call' = Leave({HookedSignals[call.at]})
        /\ HookedSignals[call.at] \in SignalSet
    BY <1>5, HookFacts DEF GiveUpHook, exportVars, IInv, InvCall
  <2>2. call'.hook = "out" BY <1>1, <2>1, LeaveCall
  <2> QED BY <1>2, <2>1, <2>2 DEF Ease
<1>6. CASE EndCall
  <2>1. fate' = fate /\ call'.hook = "out" BY <1>6 DEF EndCall, NoCall
  <2> QED BY <1>2, <2>1 DEF Ease
<1>7. CASE CallExpires
  <2>1. fate' = fate /\ call' = [call EXCEPT !.late = TRUE]
    BY <1>7 DEF CallExpires, exportVars
  <2>2. call'.hook = call.hook /\ call'.at = call.at /\ call'.goal = call.goal
    BY <1>1, <2>1 DEF TypeOK, Invocations
  <2> QED BY <2>1, <2>2, RecordsAlone DEF Ease
<1>8. CASE TestWaits \/ TestGoesOn \/ UNCHANGED vars
  <2>1. fate' = fate /\ call' = call
    BY <1>8 DEF TestWaits, TestGoesOn, vars, pipelineVars, exportVars
  <2> QED BY <1>2, <2>1 DEF Ease
<1> QED BY <1>3, <1>4, <1>5, <1>6, <1>7, <1>8 DEF Next, Ease

\* What is recorded during a hook is younger than all it waits for.
LEMMA RecordDrain ==
  ASSUME IInv, NEW s \in SignalSet, Record(s)
  PROVE  \E r :
           /\ r \notin Born(s)
           /\ \A q \in Born(s) : q < r
           /\ call' = call
           /\ Waiting(s)' \subseteq Waiting(s) \cup {r}
           /\ \A t \in SignalSet : Born(t) \subseteq Born(t)'
           /\ \A t \in SignalSet \ {s} : Waiting(t)' = Waiting(t)
<1>1. TypeOK /\ InvBorn BY DEF IInv
<1>2. PICK r \in Records :
        /\ r = Cardinality(Born(s)) + 1
        /\ r \notin Born(s)
        /\ \E victim \in Waiting(s) \cup {r} : RecordsOne(s, r, victim)
  BY <1>1, RecordEffect
<1>3. PICK victim \in Waiting(s) \cup {r} : RecordsOne(s, r, victim) BY <1>2
<1>4. \A q \in Born(s) : q < r
  <2>1. PICK n \in Nat : Born(s) = 1..n BY <1>1 DEF InvBorn
  <2>2. Cardinality(Born(s)) = n BY <2>1, FS_Interval
  <2>3. r = n + 1 BY <1>2, <2>2
  <2> QED BY <2>1, <2>3
<1>5. \A q \in Records : fate'[s][q] = fate[s][q] \/ q = r
                           \/ (fate[s][q] = "waiting" /\ fate'[s][q] = "dropped")
  BY <1>3 DEF RecordsOne, Waiting, With
<1>6. fate'[s][r] # "unborn" BY <1>3 DEF RecordsOne
<1>7. Waiting(s)' \subseteq Waiting(s) \cup {r} /\ Born(s) \subseteq Born(s)'
  BY <1>5, <1>6 DEF Waiting, Born, With
<1>8. \A t \in SignalSet \ {s} : Born(t)' = Born(t) /\ Waiting(t)' = Waiting(t)
  BY <1>3 DEF RecordsOne, Born, Waiting, With
<1>9. call' = call BY DEF Record
<1> QED BY <1>2, <1>4, <1>7, <1>8, <1>9

LEMMA InitDrain == Init => InvDrain
BY DEF Init, InvDrain, NoCall, AtHook

LEMMA NextDrain == IInv /\ InvDrain /\ [Next]_vars => InvDrain'
<1> SUFFICES ASSUME IInv, InvDrain, [Next]_vars PROVE InvDrain' OBVIOUS
<1>1. CASE EnterHook
  <2>1. TypeOK BY DEF IInv
  <2>2. PICK s \in SignalSet :
          /\ s = HookedSignals[call.at]
          /\ call' = [call EXCEPT !.hook = "drain", !.goal = Waiting(s)]
          /\ fate' = fate
    BY <1>1, HookFacts DEF EnterHook
  <2>3. call'.at = call.at /\ call'.goal = Waiting(s)
    BY <2>1, <2>2 DEF TypeOK, Invocations
  <2>4. \A t \in SignalSet : AtHook(t)' => t = s BY <2>2, <2>3 DEF AtHook
  <2>5. Born(s)' = Born(s) /\ Waiting(s)' = Waiting(s) /\ Waiting(s) \subseteq Born(s)
    BY <2>2 DEF Born, Waiting, With
  <2> QED BY <2>3, <2>4, <2>5 DEF InvDrain
<1>2. ASSUME NEW s \in SignalSet, Record(s) PROVE InvDrain'
  <2>1. PICK r :
          /\ r \notin Born(s)
          /\ \A q \in Born(s) : q < r
          /\ call' = call
          /\ Waiting(s)' \subseteq Waiting(s) \cup {r}
          /\ \A t \in SignalSet : Born(t) \subseteq Born(t)'
          /\ \A t \in SignalSet \ {s} : Waiting(t)' = Waiting(t)
    BY <1>2, RecordDrain
  <2>2. \A t \in SignalSet : AtHook(t)' <=> AtHook(t) BY <2>1, HookMoves
  <2> SUFFICES ASSUME NEW t \in SignalSet, AtHook(t)
               PROVE  /\ call.goal \subseteq Born(t)'
                      /\ \A g \in call.goal \cap Waiting(t)', q \in Waiting(t)' \ call.goal :
                           g < q
    BY <2>1, <2>2 DEF InvDrain
  <2>3. /\ call.goal \subseteq Born(t)
        /\ \A g \in call.goal \cap Waiting(t), q \in Waiting(t) \ call.goal : g < q
    BY DEF InvDrain
  <2>4. CASE t = s BY <2>1, <2>3, <2>4
  <2>5. CASE t # s
    <3>1. Waiting(t)' = Waiting(t) /\ Born(t) \subseteq Born(t)' BY <2>1, <2>5
    <3> QED BY <2>3, <3>1
  <2> QED BY <2>4, <2>5
<1>3. CASE \A s \in SignalSet : Eases(s) BY <1>3, EasesDrain
<1> QED BY <1>1, <1>2, <1>3, NextEases

\* Only these set an exporter to work.
LEMMA SetsToWork ==
  ASSUME IInv, [Next]_vars, NEW s \in SignalSet,
         job[s].stage = "idle", job'[s].stage # "idle"
  PROVE  TakeBatch(s) \/ SettleHook(s) \/ StopInBackground(s)
<1>1. TypeOK BY DEF IInv
<1>2. CASE job' = job BY <1>2
<1>3. ASSUME NEW t \in SignalSet, Worker(t)
      PROVE  TakeBatch(s) \/ SettleHook(s) \/ StopInBackground(s)
  <2>1. CASE t = s
    <3>1. ~(FallsSilent(s) \/ AskPrimary(s) \/ AskDev(s))
      BY DEF FallsSilent, AskPrimary, AskDev
    <3>2. ~ExportExpires(s)
      <4>1. job[s] = Idle BY DEF IInv, InvJob
      <4> QED BY <4>1 DEF ExportExpires, Silent, Idle
    <3>3. ~Record(s) BY DEF Record
    <3> QED BY <1>3, <2>1, <3>1, <3>2, <3>3 DEF Worker
  <2>2. CASE t # s
    <3>1. \/ job' = job
          \/ \E new : job' = [job EXCEPT ![t] = new]
      <4>1. CASE AskPrimary(t)
        BY <4>1 DEF AskPrimary, Conclude
      <4>2. CASE AskDev(t) BY <4>2 DEF AskDev, Conclude
      <4>3. CASE SettleHook(t) BY <4>3 DEF SettleHook
      <4>4. CASE TakeBatch(t) \/ ExportExpires(t) \/ FallsSilent(t) \/ StopInBackground(t)
        BY <4>4 DEF TakeBatch, ExportExpires, FallsSilent, StopInBackground
      <4>5. CASE Record(t) BY <4>5 DEF Record
      <4> QED BY <1>3, <4>1, <4>2, <4>3, <4>4, <4>5 DEF Worker
    <3>2. job'[s] = job[s] BY <1>1, <2>2, <3>1 DEF TypeOK
    <3> QED BY <3>2
  <2> QED BY <2>1, <2>2
<1>4. CASE CallForceFlush \/ CallShutdown \/ EnterHook \/ GiveUpHook \/ EndCall \/ CallExpires
  <2>1. job' = job
    BY <1>4 DEF CallForceFlush, CallShutdown, Start, EnterHook, GiveUpHook, EndCall,
                CallExpires, exportVars
  <2> QED BY <1>2, <2>1
<1>5. CASE TestWaits \/ TestGoesOn \/ UNCHANGED vars
  <2>1. job' = job
    BY <1>5 DEF TestWaits, TestGoesOn, vars, pipelineVars, exportVars
  <2> QED BY <1>2, <2>1
<1> QED BY <1>3, <1>4, <1>5 DEF Next

\* The next request has the oldest record that waits, which a hook waits for if it
\* waits for anything.
LEMMA BatchDrains ==
  ASSUME IInv, InvDrain, NEW s \in SignalSet, AtHook(s), call.goal \cap Waiting(s) # {}
  PROVE  call.goal \cap NextBatch(s) # {}
<1>1. PICK n \in Nat : Born(s) = 1..n BY DEF IInv, InvBorn
<1>2. Waiting(s) \subseteq 1..n
  <2>1. Waiting(s) \subseteq Born(s) BY DEF Waiting, With, Born
  <2> QED BY <1>1, <2>1
<1>3. PICK U \in SUBSET (1..n) : U = call.goal \cap Waiting(s) BY <1>2
<1>4. PICK g \in U : \A x \in U : g <= x BY <1>3, Least
<1>5. \A q \in Waiting(s) : ~(q < g)
  <2> SUFFICES ASSUME NEW q \in Waiting(s), q < g PROVE FALSE OBVIOUS
  <2>1. q \in Int /\ g \in Int BY <1>2, <1>3
  <2>2. CASE q \in call.goal BY <1>3, <1>4, <2>1, <2>2
  <2>3. CASE q \notin call.goal
    <3>1. g < q BY <1>3, <2>3 DEF InvDrain
    <3> QED BY <2>1, <3>1
  <2> QED BY <2>2, <2>3
<1>6. {q \in Waiting(s) : q < g} = {} BY <1>5
<1>7. Cardinality({q \in Waiting(s) : q < g}) < BatchSize
  <2>1. Cardinality({}) = 0 BY FS_EmptySet
  <2>2. BatchSize \in Nat \ {0} BY PipelineAssumption
  <2> QED BY <1>6, <2>1, <2>2
<1>8. g \in NextBatch(s) BY <1>3, <1>7 DEF NextBatch
<1> QED BY <1>3, <1>8

\* What the hook at work has yet to put to its exporter.
Undrained(s) == IF AtHook(s) THEN call.goal \cap Waiting(s) ELSE {}

\* Recording never holds up a ForceFlush or a Shutdown: every request that a
\* hook's processor makes has some of what the hook waits for, however much comes
\* after it, and nothing is added to that (exporters.go:83-94).
DrainStep ==
  \A s \in SignalSet :
    AtHook(s) /\ call.hook = "drain" /\ AtHook(s)' =>
      /\ Undrained(s)' \subseteq Undrained(s)
      /\ Undrained(s) # {} /\ job[s].stage # job'[s].stage /\ job[s].stage = "idle" =>
           Undrained(s)' # Undrained(s)

DrainAdvances == [][DrainStep]_vars

\* A ForceFlush or Shutdown is not held up by what is recorded meanwhile: what its
\* hook waits for never grows, and each request of its processor has some of it
\* (exporters.go:83-94).
THEOREM HooksDrain == Spec => DrainAdvances
<1>1. ASSUME IInv, InvDrain, [Next]_vars, NEW s \in SignalSet,
             AtHook(s), call.hook = "drain", AtHook(s)'
      PROVE  call'.goal \cap Waiting(s)' \subseteq call.goal \cap Waiting(s)
  <2>1. ~EnterHook BY <1>1 DEF EnterHook
  <2>2. ASSUME NEW t \in SignalSet, Record(t)
        PROVE  call'.goal \cap Waiting(s)' \subseteq call.goal \cap Waiting(s)
    <3>1. PICK r :
            /\ r \notin Born(t)
            /\ call' = call
            /\ Waiting(t)' \subseteq Waiting(t) \cup {r}
            /\ \A u \in SignalSet \ {t} : Waiting(u)' = Waiting(u)
      BY <1>1, <2>2, RecordDrain
    <3>2. call.goal \subseteq Born(s) BY <1>1 DEF InvDrain
    <3>3. CASE s = t BY <3>1, <3>2, <3>3
    <3>4. CASE s # t
      <4>1. Waiting(s)' = Waiting(s) BY <3>1, <3>4
      <4> QED BY <3>1, <4>1
    <3> QED BY <3>3, <3>4
  <2>3. CASE \A t \in SignalSet : Eases(t)
    <3>1. call'.goal \subseteq call.goal /\ Waiting(s)' \subseteq Waiting(s)
      BY <1>1, <2>3 DEF Eases
    <3> QED BY <3>1
  <2> QED BY <1>1, <2>1, <2>2, <2>3, NextEases
<1>2. ASSUME IInv, InvDrain, [Next]_vars, NEW s \in SignalSet,
             AtHook(s), AtHook(s)',
             call.goal \cap Waiting(s) # {},
             job[s].stage = "idle", job'[s].stage # "idle"
      PROVE  call'.goal \cap Waiting(s)' # call.goal \cap Waiting(s)
  <2>1. ~SettleHook(s) /\ ~StopInBackground(s)
    BY <1>2 DEF SettleHook, StopInBackground
  <2>2. TakeBatch(s) BY <1>2, <2>1, SetsToWork
  <2>3. call'.goal = call.goal \ NextBatch(s) BY <1>2, <2>2, TakeBatchEases
  <2>4. call.goal \cap NextBatch(s) # {} BY <1>2, BatchDrains
  <2>5. NextBatch(s) \subseteq Waiting(s) BY DEF NextBatch
  <2> QED BY <2>3, <2>4, <2>5
<1>3. IInv /\ InvDrain /\ [Next]_vars => [DrainStep]_vars
  <2> SUFFICES ASSUME IInv, InvDrain, [Next]_vars PROVE DrainStep OBVIOUS
  <2>1. \A s \in SignalSet :
          /\ AtHook(s) => Undrained(s) = call.goal \cap Waiting(s)
          /\ AtHook(s)' => Undrained(s)' = call'.goal \cap Waiting(s)'
    BY DEF Undrained
  <2> QED BY <1>1, <1>2, <2>1 DEF DrainStep
<1>4. Spec => []InvDrain BY InitDrain, NextDrain, Invariance, PTL DEF Spec
<1> QED BY <1>3, <1>4, Invariance, PTL DEF Spec, DrainAdvances
=============================================================================
