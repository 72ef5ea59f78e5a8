--------------------------- MODULE CleanupProofs ---------------------------
(***************************************************************************)
(* Proofs about Cleanup, for any set of invocations, any hooks and any     *)
(* number of them.                                                         *)
(***************************************************************************)
EXTENDS Cleanup, TLAPS

\* The mutex is held exactly inside the two critical sections.
InvLock == \A p \in Calls : mu = p <=> pc[p] \in {"check", "publish"}

\* Only Shutdown uses the mutex; an invocation has a method once it started.
InvMethod ==
  \A p \in Calls :
    /\ pc[p] = "idle" <=> op[p] = "none"
    /\ pc[p] \in {"lock", "check", "relock", "publish"} => op[p] = "shutdown"
    /\ handle = "nil" => pc[p] \in {"idle", "done"}

\* The flag is set iff one Shutdown has claimed the hooks, and no other
\* Shutdown is past the check.
InvDrainer ==
  /\ shutDown <=> drainer # NoCall
  /\ drainer # NoCall =>
       /\ handle = "live"
       /\ op[drainer] = "shutdown"
       /\ pc[drainer] \in {"call", "wait", "relock", "publish", "done"}
  /\ \A p \in Calls :
       op[p] = "shutdown" /\ pc[p] \in {"call", "wait", "relock", "publish"}
       => p = drainer

\* The invocations that go through callAll.
Loops(p) == handle = "live" /\ (op[p] = "flush" \/ p = drainer)

\* Before the loop, and without it, no hook has been called.
NotYet(p) ==
  /\ answer[p] = [c \in Components |-> "none"]
  /\ idx[p] = 1
  /\ pc[p] # "done" => err[p] = {}
  /\ handle = "nil" => err[p] = {}

InvBefore == \A p \in Calls : ~Loops(p) => NotYet(p)

\* The loop: hooks before its position have answered, those after it have not
\* been called, and the joined error is what the answers make it.
InLoop(p) ==
  /\ \A i \in DOMAIN Hooks(p) : Hooks(p)[i] # NilHook =>
       /\ i < idx[p] => answer[p][Hooks(p)[i]] \in {"ok", "failed"}
       /\ i > idx[p] => answer[p][Hooks(p)[i]] = "none"
       /\ i = idx[p] => answer[p][Hooks(p)[i]] =
                          IF pc[p] = "wait" THEN "open" ELSE "none"
  /\ pc[p] = "wait" => idx[p] \in DOMAIN Hooks(p) /\ Hooks(p)[idx[p]] # NilHook
  /\ pc[p] \in {"relock", "publish", "done"} => idx[p] \notin DOMAIN Hooks(p)
  /\ err[p] = Failed(p)

InvLoop == \A p \in Calls : Loops(p) => InLoop(p)

\* The stored error is the drainer's from the moment it has returned; the other
\* Shutdowns return nothing, or that.
InvStored ==
  /\ shutdownErr = IF Published THEN err[drainer] ELSE {}
  /\ \A p \in Calls :
       Returned(p, "shutdown") /\ p # drainer
       => err[p] = {} \/ (Published /\ err[p] = shutdownErr)

\* Whatever returned before p started has returned, and is not p; a Shutdown
\* that started after the drainer returned has its error.
InvPrior ==
  \A p \in Calls :
    /\ \A q \in prior[p] : pc[q] = "done"
    /\ p \notin prior[p]
    /\ pc[p] = "idle" => prior[p] = {}
    /\ Returned(p, "shutdown") /\ drainer \in prior[p] => err[p] = shutdownErr

IInv ==
  /\ TypeOK
  /\ InvLock
  /\ InvMethod
  /\ InvDrainer
  /\ InvBefore
  /\ InvLoop
  /\ InvStored
  /\ InvPrior
-----------------------------------------------------------------------------
\* The list an invocation goes through is a sequence of distinct hooks.
LEMMA HooksType ==
  ASSUME NEW p \in Calls
  PROVE /\ Hooks(p) \in Seq(Components \cup {NilHook})
        /\ DOMAIN Hooks(p) = 1..Len(Hooks(p))
        /\ Len(Hooks(p)) \in Nat
        /\ \A i \in DOMAIN Hooks(p) :
             Hooks(p)[i] # NilHook => Hooks(p)[i] \in Components
        /\ Distinct(Hooks(p))
<1>1. Hooks(p) \in Seq(Components \cup {NilHook}) /\ Distinct(Hooks(p))
  BY HooksAssumption, DistinctAssumption DEF Hooks
<1> QED BY <1>1

LEMMA InitInv == Init => IInv
<1> SUFFICES ASSUME Init PROVE IInv OBVIOUS
<1> USE DEF Init
<1>1. TypeOK
  <2>1. answer \in [Calls -> [Components -> Answers]] BY DEF Answers
  <2>2. idx \in [Calls -> Nat \ {0}] BY SMT
  <2>3. op \in [Calls -> Ops] /\ pc \in [Calls -> PCs] BY DEF Ops, PCs
  <2>4. mu \in Calls \cup {NoCall} /\ drainer \in Calls \cup {NoCall} OBVIOUS
  <2>5. err \in [Calls -> SUBSET Components] /\ prior \in [Calls -> SUBSET Calls]
    OBVIOUS
  <2> QED BY <2>1, <2>2, <2>3, <2>4, <2>5 DEF TypeOK
<1>2. InvLock BY CallsAssumption DEF InvLock
<1>3. InvMethod /\ InvDrainer BY DEF InvMethod, InvDrainer
<1>4. \A p \in Calls : ~Loops(p) BY CallsAssumption DEF Loops
<1>5. InvBefore /\ InvLoop BY <1>4 DEF InvBefore, InvLoop, NotYet
<1>6. InvStored /\ InvPrior BY DEF InvStored, InvPrior, Published, Returned
<1> QED BY <1>1, <1>2, <1>3, <1>5, <1>6 DEF IInv

LEMMA StartInv ==
  ASSUME IInv, NEW p \in Calls, NEW method \in {"flush", "shutdown"}, NEW first \in {"call", "lock"},
         first = "call" <=> method = "flush", Start(p, method, first)
  PROVE IInv'
<1> USE CallsAssumption, HooksType DEF IInv, TypeOK, Start, Goto, handleVars
<1>1. TypeOK' BY DEF Ops, PCs, Answers
<1>2. InvLock' BY DEF InvLock
<1>3. InvMethod' BY DEF InvMethod
<1>4. InvDrainer' BY DEF InvDrainer, InvMethod
<1>5. InvBefore' BY DEF InvBefore, NotYet, Loops, InvMethod, InvDrainer
<1>6. InvLoop'
  <2> SUFFICES ASSUME NEW q \in Calls, Loops(q)' PROVE InLoop(q)'
    BY DEF InvLoop
  <2>1. CASE q # p BY <2>1 DEF InvLoop, InLoop, Loops, Hooks, Failed
  <2>2. CASE q = p
    <3>1. ~Loops(p) /\ pc'[p] = "call"
      BY <2>2 DEF Loops, InvMethod, InvDrainer
    <3>2. answer'[p] = [c \in Components |-> "none"] /\ idx'[p] = 1 /\ err'[p] = {}
      BY <3>1 DEF InvBefore, NotYet
    <3>3. Failed(p)' = {} BY <3>2 DEF Failed
    <3>4. \A i \in DOMAIN Hooks(p)' : Hooks(p)'[i] # NilHook =>
            Hooks(p)'[i] \in Components /\ i \in Nat /\ i >= 1
      BY HooksAssumption DEF Hooks
    <3>5. InLoop(p)' BY <3>1, <3>2, <3>3, <3>4 DEF InLoop
    <3> QED BY <2>2, <3>5 DEF InLoop, Hooks, Failed
  <2> QED BY <2>1, <2>2
<1>7. InvStored' BY DEF InvStored, Published, Returned, InvMethod, InvDrainer
<1>8. InvPrior' BY DEF InvPrior, InvStored, Published, Returned, InvMethod, InvDrainer
<1> QED BY <1>1, <1>2, <1>3, <1>4, <1>5, <1>6, <1>7, <1>8

LEMMA AcquireInv ==
  ASSUME IInv, NEW p \in Calls, Acquire(p)
  PROVE IInv'
<1> USE CallsAssumption, HooksType DEF IInv, TypeOK, Acquire, Lock, Unlocked, Goto, handleVars, callVars
<1>1. TypeOK' BY DEF Ops, PCs, Answers
<1>2. InvLock' BY DEF InvLock
<1>3. InvMethod' BY DEF InvMethod
<1>4. InvDrainer' BY DEF InvDrainer, InvMethod
<1>5. InvBefore' BY DEF InvBefore, NotYet, Loops, InvMethod, InvDrainer
<1>6. InvLoop' BY DEF InvLoop, InLoop, Loops, InvMethod, InvDrainer, InvBefore, Hooks, Failed
<1>7. InvStored' BY DEF InvStored, Published, Returned, InvMethod, InvDrainer
<1>8. InvPrior' BY DEF InvPrior, InvStored, Published, Returned, InvMethod, InvDrainer
<1> QED BY <1>1, <1>2, <1>3, <1>4, <1>5, <1>6, <1>7, <1>8

LEMMA ReacquireInv ==
  ASSUME IInv, NEW p \in Calls, Reacquire(p)
  PROVE IInv'
<1> USE CallsAssumption, HooksType DEF IInv, TypeOK, Reacquire, Lock, Unlocked, Goto, handleVars, callVars
<1>1. TypeOK' BY DEF Ops, PCs, Answers
<1>2. InvLock' BY DEF InvLock
<1>3. InvMethod' BY DEF InvMethod
<1>4. InvDrainer' BY DEF InvDrainer, InvMethod
<1>5. InvBefore' BY DEF InvBefore, NotYet, Loops, InvMethod, InvDrainer
<1>6. InvLoop' BY DEF InvLoop, InLoop, Loops, InvMethod, InvDrainer, InvBefore, Hooks, Failed
<1>7. InvStored' BY DEF InvStored, Published, Returned, InvMethod, InvDrainer
<1>8. InvPrior' BY DEF InvPrior, InvStored, Published, Returned, InvMethod, InvDrainer
<1> QED BY <1>1, <1>2, <1>3, <1>4, <1>5, <1>6, <1>7, <1>8

LEMMA AlreadyShutDownInv ==
  ASSUME IInv, NEW p \in Calls, AlreadyShutDown(p)
  PROVE IInv'
<1> USE CallsAssumption, HooksType DEF IInv, TypeOK, AlreadyShutDown, StoredAnswer, Goto, handleVars
<1>1. TypeOK' BY DEF Ops, PCs, Answers
<1>2. InvLock' BY DEF InvLock
<1>3. InvMethod' BY DEF InvMethod
<1>4. InvDrainer' BY DEF InvDrainer, InvMethod
<1>5. InvBefore' BY DEF InvBefore, NotYet, Loops, InvMethod, InvDrainer
<1>6. InvLoop' BY DEF InvLoop, InLoop, Loops, InvMethod, InvDrainer, InvBefore, Hooks, Failed
<1>7. InvStored' BY DEF InvStored, Published, Returned, InvMethod, InvDrainer
<1>8. InvPrior' BY DEF InvPrior, InvStored, Published, Returned, InvMethod, InvDrainer
<1> QED BY <1>1, <1>2, <1>3, <1>4, <1>5, <1>6, <1>7, <1>8

LEMMA ClaimShutdownInv ==
  ASSUME IInv, NEW p \in Calls, ClaimShutdown(p)
  PROVE IInv'
<1> USE CallsAssumption, HooksType DEF IInv, TypeOK, ClaimShutdown, Claimable, Goto, callVars
<1>1. TypeOK' BY DEF Ops, PCs, Answers
<1>2. InvLock' BY DEF InvLock
<1>3. InvMethod' BY DEF InvMethod
<1>4. InvDrainer' BY DEF InvDrainer, InvMethod
<1>5. InvBefore' BY DEF InvBefore, NotYet, Loops, InvMethod, InvDrainer
<1>6. InvLoop'
  <2> SUFFICES ASSUME NEW q \in Calls, Loops(q)' PROVE InLoop(q)'
    BY DEF InvLoop
  <2>1. CASE q # p
    <3>1. Loops(q) BY <2>1 DEF Loops
    <3> QED BY <2>1, <3>1 DEF InvLoop, InLoop, Hooks, Failed
  <2>2. CASE q = p
    <3>1. ~Loops(p) BY DEF Loops, InvDrainer, InvMethod
    <3>2. answer[p] = [c \in Components |-> "none"] /\ idx[p] = 1 /\ err[p] = {}
      BY <3>1 DEF InvBefore, NotYet
    <3>3. Failed(p)' = {} BY <3>2 DEF Failed
    <3>4. InLoop(p)' BY <3>2, <3>3 DEF InLoop, Hooks
    <3> QED BY <2>2, <3>4 DEF InLoop, Hooks, Failed
  <2> QED BY <2>1, <2>2
<1>7. InvStored' BY DEF InvStored, Published, Returned, InvMethod, InvDrainer
<1>8. InvPrior' BY DEF InvPrior, InvStored, Published, Returned, InvMethod, InvDrainer
<1> QED BY <1>1, <1>2, <1>3, <1>4, <1>5, <1>6, <1>7, <1>8

LEMMA SkipNilHookInv ==
  ASSUME IInv, NEW p \in Calls, SkipNilHook(p)
  PROVE IInv'
<1> USE CallsAssumption, HooksType DEF IInv, TypeOK, SkipNilHook, AtEnd, AtNil, Goto, handleVars
<1>0. Loops(p) /\ Loops(p)' /\ InLoop(p) /\ op[p] \in {"flush", "shutdown"}
  BY DEF Loops, InvMethod, InvDrainer, InvLoop, Ops
<1>1. TypeOK' BY DEF Ops, PCs, Answers
<1>2. InvLock' BY DEF InvLock
<1>3. InvMethod' BY <1>0 DEF InvMethod
<1>4. InvDrainer' BY DEF InvDrainer, InvMethod
<1>5. InvBefore' BY <1>0 DEF InvBefore, NotYet, Loops
<1>6. InvLoop'
  <2> SUFFICES ASSUME NEW q \in Calls, Loops(q)' PROVE InLoop(q)'
    BY DEF InvLoop
  <2>1. CASE q # p BY <2>1 DEF InvLoop, InLoop, Loops, Hooks, Failed
  <2>2. CASE q = p BY <1>0, <2>2 DEF InLoop, Distinct, Hooks, Failed
  <2> QED BY <2>1, <2>2
<1>7. InvStored' BY DEF InvStored, Published, Returned, InvMethod, InvDrainer
<1>8. InvPrior' BY DEF InvPrior, InvStored, Published, Returned, InvMethod, InvDrainer
<1> QED BY <1>1, <1>2, <1>3, <1>4, <1>5, <1>6, <1>7, <1>8

LEMMA EnterHookInv ==
  ASSUME IInv, NEW p \in Calls, EnterHook(p)
  PROVE IInv'
<1> USE CallsAssumption, HooksType DEF IInv, TypeOK, EnterHook, AtEnd, AtNil, Goto, handleVars
<1>0. Loops(p) /\ Loops(p)' /\ InLoop(p) /\ op[p] \in {"flush", "shutdown"}
  BY DEF Loops, InvMethod, InvDrainer, InvLoop, Ops
<1>1. TypeOK' BY DEF Ops, PCs, Answers
<1>2. InvLock' BY DEF InvLock
<1>3. InvMethod' BY <1>0 DEF InvMethod
<1>4. InvDrainer' BY DEF InvDrainer, InvMethod
<1>5. InvBefore' BY <1>0 DEF InvBefore, NotYet, Loops
<1>6. InvLoop'
  <2> SUFFICES ASSUME NEW q \in Calls, Loops(q)' PROVE InLoop(q)'
    BY DEF InvLoop
  <2>1. CASE q # p BY <2>1 DEF InvLoop, InLoop, Loops, Hooks, Failed
  <2>2. CASE q = p BY <1>0, <2>2 DEF InLoop, Distinct, Hooks, Failed
  <2> QED BY <2>1, <2>2
<1>7. InvStored' BY DEF InvStored, Published, Returned, InvMethod, InvDrainer
<1>8. InvPrior' BY DEF InvPrior, InvStored, Published, Returned, InvMethod, InvDrainer
<1> QED BY <1>1, <1>2, <1>3, <1>4, <1>5, <1>6, <1>7, <1>8

LEMMA HookReturnsInv ==
  ASSUME IInv, NEW p \in Calls, HookReturns(p)
  PROVE IInv'
<1> USE CallsAssumption, HooksType DEF IInv, TypeOK, HookReturns, Goto, handleVars
<1>0. Loops(p) /\ Loops(p)' /\ InLoop(p) /\ op[p] \in {"flush", "shutdown"}
  BY DEF Loops, InvMethod, InvDrainer, InvLoop, Ops
<1>1. TypeOK' BY <1>0 DEF InLoop, Ops, PCs, Answers
<1>2. InvLock' BY DEF InvLock
<1>3. InvMethod' BY <1>0 DEF InvMethod
<1>4. InvDrainer' BY DEF InvDrainer, InvMethod
<1>5. InvBefore' BY <1>0 DEF InvBefore, NotYet, Loops
<1>6. InvLoop'
  <2> SUFFICES ASSUME NEW q \in Calls, Loops(q)' PROVE InLoop(q)'
    BY DEF InvLoop
  <2>1. CASE q # p BY <2>1 DEF InvLoop, InLoop, Loops, Hooks, Failed
  <2>2. CASE q = p BY <1>0, <2>2 DEF InLoop, Distinct, Hooks, Failed
  <2> QED BY <2>1, <2>2
<1>7. InvStored' BY DEF InvStored, Published, Returned, InvMethod, InvDrainer
<1>8. InvPrior' BY DEF InvPrior, InvStored, Published, Returned, InvMethod, InvDrainer
<1> QED BY <1>1, <1>2, <1>3, <1>4, <1>5, <1>6, <1>7, <1>8

LEMMA EndOfHooksInv ==
  ASSUME IInv, NEW p \in Calls, EndOfHooks(p)
  PROVE IInv'
<1> USE CallsAssumption, HooksType DEF IInv, TypeOK, EndOfHooks, AtEnd, Goto, handleVars, callVars
<1>0. Loops(p) /\ Loops(p)' /\ InLoop(p) /\ op[p] \in {"flush", "shutdown"}
  <2>1. handle = "live" /\ op[p] \in {"flush", "shutdown"}
    BY DEF InvMethod, Ops
  <2>2. Loops(p) BY <2>1 DEF Loops, InvDrainer
  <2> QED BY <2>1, <2>2 DEF Loops, InvLoop
<1>1. TypeOK' BY DEF Ops, PCs, Answers
<1>2. InvLock' BY DEF InvLock
<1>3. InvMethod' BY <1>0 DEF InvMethod
<1>4. InvDrainer' BY DEF InvDrainer, InvMethod
<1>5. InvBefore' BY <1>0 DEF InvBefore, NotYet, Loops
<1>6. InvLoop'
  <2> SUFFICES ASSUME NEW q \in Calls, Loops(q)' PROVE InLoop(q)'
    BY DEF InvLoop
  <2>1. CASE q # p BY <2>1 DEF InvLoop, InLoop, Loops, Hooks, Failed
  <2>2. CASE q = p BY <1>0, <2>2 DEF InLoop, Distinct, Hooks, Failed
  <2> QED BY <2>1, <2>2
<1>7. InvStored' BY DEF InvStored, Published, Returned, InvMethod, InvDrainer
<1>8. InvPrior' BY DEF InvPrior, InvStored, Published, Returned, InvMethod, InvDrainer
<1> QED BY <1>1, <1>2, <1>3, <1>4, <1>5, <1>6, <1>7, <1>8

LEMMA PublishInv ==
  ASSUME IInv, NEW p \in Calls, Publish(p)
  PROVE IInv'
<1> USE CallsAssumption, HooksType DEF IInv, TypeOK, Publish, Goto, callVars
<1>1. TypeOK' BY DEF Ops, PCs, Answers
<1>2. InvLock' BY DEF InvLock
<1>3. InvMethod' BY DEF InvMethod
<1>4. InvDrainer' BY DEF InvDrainer, InvMethod
<1>5. InvBefore' BY DEF InvBefore, NotYet, Loops, InvMethod, InvDrainer
<1>6. InvLoop' BY DEF InvLoop, InLoop, Loops, InvMethod, InvDrainer, InvBefore, Hooks, Failed
<1>7. InvStored' BY DEF InvStored, Published, Returned, InvMethod, InvDrainer
<1>8. InvPrior' BY DEF InvPrior, InvStored, Published, Returned, InvMethod, InvDrainer
<1> QED BY <1>1, <1>2, <1>3, <1>4, <1>5, <1>6, <1>7, <1>8

LEMMA ExpireInv ==
  ASSUME IInv, NEW p \in Calls, Expire(p)
  PROVE IInv'
<1> USE CallsAssumption, HooksType DEF IInv, TypeOK, Expire, HasDeadline, handleVars
<1>1. TypeOK' BY DEF Ops, PCs, Answers
<1>2. InvLock' BY DEF InvLock
<1>3. InvMethod' BY DEF InvMethod
<1>4. InvDrainer' BY DEF InvDrainer, InvMethod
<1>5. InvBefore' BY DEF InvBefore, NotYet, Loops, InvMethod, InvDrainer
<1>6. InvLoop' BY DEF InvLoop, InLoop, Loops, InvMethod, InvDrainer, InvBefore, Hooks, Failed
<1>7. InvStored' BY DEF InvStored, Published, Returned, InvMethod, InvDrainer
<1>8. InvPrior' BY DEF InvPrior, InvStored, Published, Returned, InvMethod, InvDrainer
<1> QED BY <1>1, <1>2, <1>3, <1>4, <1>5, <1>6, <1>7, <1>8

LEMMA StepInv == IInv /\ [Next]_vars => IInv'
<1> SUFFICES ASSUME IInv, [Next]_vars PROVE IInv' OBVIOUS
<1>1. ASSUME NEW p \in Calls, Step(p) PROVE IInv'
  <2>1. CASE CallForceFlush(p) BY <2>1, StartInv DEF CallForceFlush
  <2>2. CASE CallShutdown(p) BY <2>2, StartInv DEF CallShutdown
  <2>3. CASE Acquire(p) BY <2>3, AcquireInv
  <2>4. CASE Reacquire(p) BY <2>4, ReacquireInv
  <2>5. CASE Run(p)
    BY <2>5, AlreadyShutDownInv, ClaimShutdownInv, SkipNilHookInv,
       EnterHookInv, EndOfHooksInv, PublishInv DEF Run
  <2>6. CASE HookReturns(p) BY <2>6, HookReturnsInv
  <2>7. CASE Expire(p) BY <2>7, ExpireInv
  <2> QED BY <1>1, <2>1, <2>2, <2>3, <2>4, <2>5, <2>6, <2>7 DEF Step
<1>2. CASE UNCHANGED vars
  BY <1>2 DEF vars, handleVars, callVars, IInv, TypeOK, InvLock, InvMethod,
     InvDrainer, InvBefore, NotYet, InvLoop, InLoop, Loops, Hooks, Failed,
     InvStored, Published, Returned, InvPrior
<1> QED BY <1>1, <1>2 DEF Next, Quiescent

\* The inductive invariant holds in every reachable state (cleanup.go:27-67).
THEOREM Invariance == Spec => []IInv
<1> QED BY InitInv, StepInv, PTL DEF Spec

\* Every variable keeps its type, for any number of calls and hooks.
THEOREM TypeCorrect == Spec => []TypeOK
<1>1. IInv => TypeOK BY DEF IInv
<1> QED BY <1>1, Invariance, PTL

\* No provider is shut down on behalf of two invocations (cleanup.go:39-49).
THEOREM RunOnce == Spec => []ShutdownHooksRunOnce
<1>1. IInv => ShutdownHooksRunOnce
  <2> SUFFICES ASSUME IInv, NEW p \in Calls, NEW c \in Components,
                      op[p] = "shutdown", answer[p][c] # "none"
               PROVE p = drainer
    BY DEF ShutdownHooksRunOnce
  <2>1. Loops(p) BY DEF IInv, InvBefore, NotYet
  <2> QED BY <2>1 DEF Loops
<1> QED BY <1>1, Invariance, PTL

\* Every call goes through its hooks in order, each one only after the hooks
\* before it have returned (cleanup.go:58-66).
THEOREM InOrder == Spec => []HooksInOrder
<1>1. IInv => HooksInOrder
  <2> SUFFICES ASSUME IInv, NEW p \in Calls,
                      NEW i \in DOMAIN Hooks(p), NEW j \in DOMAIN Hooks(p),
                      i < j, Hooks(p)[i] # NilHook, Hooks(p)[j] # NilHook,
                      answer[p][Hooks(p)[j]] # "none"
               PROVE answer[p][Hooks(p)[i]] \in {"ok", "failed"}
    BY DEF HooksInOrder, Hooks
  <2>1. Loops(p) BY HooksType DEF IInv, InvBefore, NotYet
  <2>2. InLoop(p) BY <2>1 DEF IInv, InvLoop
  <2>3. idx[p] \in Nat /\ i \in Nat /\ j \in Nat BY HooksType DEF IInv, TypeOK
  <2>4. ~(j > idx[p]) BY <2>2 DEF InLoop
  <2>5. i < idx[p] BY <2>3, <2>4
  <2> QED BY <2>2, <2>5 DEF InLoop
<1> QED BY <1>1, Invariance, PTL

\* No hook is skipped and no error lost, whatever fails (cleanup.go:49-53,58-66).
THEOREM Complete == Spec => []NothingSkipped
<1>1. ASSUME IInv, NEW p \in Calls, Loops(p), pc[p] = "done"
      PROVE /\ err[p] = Failed(p)
            /\ \A i \in DOMAIN Hooks(p) : Hooks(p)[i] # NilHook =>
                 answer[p][Hooks(p)[i]] \in {"ok", "failed"}
  <2>1. InLoop(p) BY <1>1 DEF IInv, InvLoop
  <2>2. idx[p] \notin DOMAIN Hooks(p) BY <1>1, <2>1 DEF InLoop
  <2>3. idx[p] \in Nat \ {0} BY <1>1 DEF IInv, TypeOK
  <2>4. \A i \in DOMAIN Hooks(p) : i < idx[p] BY <2>2, <2>3, HooksType
  <2> QED BY <2>1, <2>4 DEF InLoop
<1>2. ASSUME IInv, NEW p \in Calls, Returned(p, "flush")
      PROVE /\ err[p] = Failed(p)
            /\ \A i \in DOMAIN FlushHooks : FlushHooks[i] # NilHook =>
                 answer[p][FlushHooks[i]] \in {"ok", "failed"}
  BY <1>1, <1>2 DEF Returned, Loops, Hooks
<1>3. ASSUME IInv, Published
      PROVE /\ shutdownErr = Failed(drainer)
            /\ \A i \in DOMAIN ShutdownHooks : ShutdownHooks[i] # NilHook =>
                 answer[drainer][ShutdownHooks[i]] \in {"ok", "failed"}
  <2>1. drainer \in Calls /\ op[drainer] = "shutdown" /\ Loops(drainer)
    BY <1>3 DEF Published, IInv, TypeOK, InvDrainer, Loops
  <2>2. shutdownErr = err[drainer] BY <1>3 DEF IInv, InvStored
  <2> QED BY <1>1, <1>3, <2>1, <2>2 DEF Published, Hooks
<1>4. IInv => NothingSkipped BY <1>2, <1>3 DEF NothingSkipped
<1> QED BY <1>4, Invariance, PTL

\* A Shutdown that starts after the one that ran the hooks returned gets its
\* error (cleanup.go:40-45,51-53).
THEOREM LaterSame == Spec => []LaterCallSameError
<1>1. IInv => LaterCallSameError
  <2> SUFFICES ASSUME IInv, NEW p \in Calls, Returned(p, "shutdown"),
                      drainer \in prior[p]
               PROVE err[p] = err[drainer]
    BY DEF LaterCallSameError
  <2>1. drainer \in Calls BY DEF IInv, TypeOK
  <2>2. Published BY <2>1, CallsAssumption DEF IInv, InvPrior, Published
  <2> QED BY <2>2 DEF IInv, InvPrior, InvStored
<1> QED BY <1>1, Invariance, PTL

\* No Shutdown ever returns a part of the joined error (cleanup.go:40-53).
THEOREM NeverPartial == Spec => []NeverPartialError
<1>1. IInv => NeverPartialError
  <2> SUFFICES ASSUME IInv, NEW p \in Calls, Returned(p, "shutdown")
               PROVE err[p] \in {{}, Failed(drainer)}
    BY DEF NeverPartialError
  <2>1. drainer \in Calls => err[drainer] = Failed(drainer)
    BY CallsAssumption DEF IInv, InvDrainer, InvLoop, InLoop, Loops
  <2>2. CASE p = drainer BY <2>1, <2>2
  <2>3. CASE p # drainer
    <3>1. err[p] = {} \/ (Published /\ err[p] = shutdownErr)
      BY <2>3 DEF IInv, InvStored
    <3>2. Published => drainer \in Calls /\ shutdownErr = err[drainer]
      BY DEF IInv, TypeOK, InvStored, Published
    <3> QED BY <2>1, <3>1, <3>2
  <2> QED BY <2>2, <2>3
<1> QED BY <1>1, Invariance, PTL

\* Once the shutdown run has been published nothing of it ever changes.
THEOREM Final == Spec => FinalIsFinal
<1>1. ASSUME IInv, NEW p \in Calls, Step(p), Published PROVE FinalStep
  <2> USE <1>1 DEF IInv, TypeOK, InvMethod, InvDrainer, Published, FinalStep
  <2>1. CASE CallForceFlush(p) \/ CallShutdown(p)
    BY <2>1 DEF CallForceFlush, CallShutdown, Start, Goto, handleVars
  <2>2. CASE Acquire(p) \/ Reacquire(p)
    BY <2>2 DEF Acquire, Reacquire, Lock, Goto, handleVars, callVars
  <2>3. CASE AlreadyShutDown(p)
    BY <2>3 DEF AlreadyShutDown, Goto, handleVars
  <2>4. CASE ClaimShutdown(p)
    BY <2>4 DEF ClaimShutdown, Claimable, Goto, callVars
  <2>5. CASE SkipNilHook(p) BY <2>5 DEF SkipNilHook, handleVars
  <2>6. CASE EnterHook(p) BY <2>6 DEF EnterHook, Goto, handleVars
  <2>7. CASE HookReturns(p) BY <2>7 DEF HookReturns, Goto, handleVars
  <2>8. CASE EndOfHooks(p) BY <2>8 DEF EndOfHooks, handleVars, callVars
  <2>9. CASE Publish(p) BY <2>9 DEF Publish, Goto, callVars
  <2>10. CASE Expire(p) BY <2>10 DEF Expire, handleVars
  <2> QED BY <2>1, <2>2, <2>3, <2>4, <2>5, <2>6, <2>7, <2>8, <2>9, <2>10
          DEF Step, Run
<1>2. IInv /\ [Next]_vars => [FinalStep]_vars
  <2> SUFFICES ASSUME IInv, Next, Published, vars' # vars PROVE FinalStep
    BY DEF FinalStep
  <2> QED BY <1>1 DEF Next, Quiescent
<1> QED BY <1>2, Invariance, PTL DEF Spec, FinalIsFinal

\* Nobody waits for somebody who waits: whoever is kept from the mutex is kept by
\* an invocation inside a critical section, in which there is no hook and no lock
\* to wait for (cleanup.go:39-47,51-54).
WaitersAreServed ==
  \A p \in Calls :
    pc[p] \in {"lock", "relock"} /\ ~Unlocked => mu # NoCall /\ pc[mu] \in {"check", "publish"}

\* Whoever is kept from the mutex is kept by an invocation inside a critical
\* section, in which there is nothing to wait for (cleanup.go:39-47,51-54).
THEOREM NobodyWaitsForWaiters == Spec => []WaitersAreServed
<1>1. IInv => WaitersAreServed
  <2> SUFFICES ASSUME IInv, mu # NoCall PROVE pc[mu] \in {"check", "publish"}
    BY DEF WaitersAreServed, Unlocked
  <2>1. mu \in Calls BY DEF IInv, TypeOK
  <2> QED BY <2>1 DEF IInv, InvLock
<1> QED BY <1>1, Invariance, PTL

-----------------------------------------------------------------------------
(***************************************************************************)
(* A call takes a bounded number of steps.                                 *)
(***************************************************************************)
\* The steps that an invocation may still take, at most: two for each hook it has
\* not called, one for its deadline.
HooksLeft(p) == 2 * (Len(Hooks(p)) + 1 - idx[p])
StepsLeft(p) ==
  (IF expired[p] THEN 0 ELSE 1) +
  CASE pc[p] = "idle" -> 6 + 2 * Len(FlushHooks) + 2 * Len(ShutdownHooks)
    [] pc[p] = "lock" -> 5 + HooksLeft(p)
    [] pc[p] = "check" -> 4 + HooksLeft(p)
    [] pc[p] = "call" -> 3 + HooksLeft(p)
    [] pc[p] = "wait" -> 2 + HooksLeft(p)
    [] pc[p] = "relock" -> 2
    [] pc[p] = "publish" -> 1
    [] OTHER -> 0

\* callAll calls no hook again, failed or not: each step of an invocation is one of
\* those it has left, and nothing another one does gives it more (cleanup.go:58-66).
EachStepCounts ==
  \A p \in Calls : /\ StepsLeft(p)' <= StepsLeft(p)
                   /\ Step(p) => StepsLeft(p)' < StepsLeft(p)
CallIsBounded == [][EachStepCounts]_vars

\* The loop never runs past the end of its list by more than one.
InRange == \A p \in Calls : idx[p] <= Len(Hooks(p)) + 1

\* Before a call is in the loop its position is the first.
LEMMA AtFirst ==
  ASSUME IInv, NEW p \in Calls, pc[p] \in {"idle", "lock"}
  PROVE  idx[p] = 1
<1>1. ~Loops(p)
  BY CallsAssumption DEF IInv, InvMethod, InvDrainer, Loops
<1> QED BY <1>1 DEF IInv, InvBefore, NotYet

LEMMA InitRange == Init => InRange
<1> SUFFICES ASSUME Init, NEW p \in Calls PROVE idx[p] <= Len(Hooks(p)) + 1
  BY DEF InRange
<1>1. idx[p] = 1 BY DEF Init
<1>2. Len(Hooks(p)) \in Nat BY HooksType
<1> QED BY <1>1, <1>2

\* What a step of p leaves of another invocation.
Apart(p, q) ==
  /\ pc'[q] = pc[q] /\ op'[q] = op[q]
  /\ idx'[q] = idx[q] /\ expired'[q] = expired[q]

LEMMA OneCallMoves ==
  ASSUME IInv, NEW p \in Calls, Step(p), NEW q \in Calls, q # p
  PROVE  Apart(p, q)
<1>1. /\ pc \in [Calls -> PCs] /\ op \in [Calls -> Ops] /\ idx \in [Calls -> Nat \ {0}]
      /\ expired \in [Calls -> BOOLEAN]
  BY DEF IInv, TypeOK
<1> USE <1>1 DEF Goto, callVars, Apart
<1>2. CASE CallForceFlush(p) \/ CallShutdown(p)
  BY <1>2 DEF CallForceFlush, CallShutdown, Start
<1>3. CASE Acquire(p) \/ Reacquire(p) BY <1>3 DEF Acquire, Reacquire, Lock
<1>4. CASE AlreadyShutDown(p) BY <1>4 DEF AlreadyShutDown
<1>5. CASE ClaimShutdown(p) BY <1>5 DEF ClaimShutdown
<1>6. CASE SkipNilHook(p) BY <1>6 DEF SkipNilHook
<1>7. CASE EnterHook(p) BY <1>7 DEF EnterHook
<1>8. CASE HookReturns(p) BY <1>8 DEF HookReturns
<1>9. CASE EndOfHooks(p) \/ Publish(p) BY <1>9 DEF EndOfHooks, Publish
<1>10. CASE Expire(p) BY <1>10 DEF Expire
<1> QED BY <1>2, <1>3, <1>4, <1>5, <1>6, <1>7, <1>8, <1>9, <1>10 DEF Step, Run

\* An invocation that has started stays with its method, and so with its hooks.
Ahead(p) ==
  /\ pc[p] # "idle" => op'[p] = op[p]
  /\ \/ idx'[p] = idx[p]
     \/ idx[p] \in DOMAIN Hooks(p) /\ idx'[p] = idx[p] + 1
  /\ pc[p] = "idle" => idx'[p] = idx[p]

LEMMA StepGoesOn ==
  ASSUME IInv, NEW p \in Calls, Step(p)
  PROVE  Ahead(p)
<1>1. /\ pc \in [Calls -> PCs] /\ op \in [Calls -> Ops] /\ idx \in [Calls -> Nat \ {0}]
  BY DEF IInv, TypeOK
<1> USE <1>1 DEF Goto, callVars, Ahead
<1>2. CASE CallForceFlush(p) \/ CallShutdown(p)
  BY <1>2 DEF CallForceFlush, CallShutdown, Start
<1>3. CASE Acquire(p) \/ Reacquire(p) BY <1>3 DEF Acquire, Reacquire, Lock
<1>4. CASE AlreadyShutDown(p) BY <1>4 DEF AlreadyShutDown
<1>5. CASE ClaimShutdown(p) BY <1>5 DEF ClaimShutdown
<1>6. CASE SkipNilHook(p) BY <1>6 DEF SkipNilHook, AtEnd
<1>7. CASE EnterHook(p) BY <1>7 DEF EnterHook
<1>8. CASE HookReturns(p)
  <2>1. pc[p] = "wait" BY <1>8 DEF HookReturns
  <2>2. op[p] \in {"flush", "shutdown"} /\ handle = "live"
    BY <2>1 DEF IInv, TypeOK, InvMethod, Ops
  <2>3. Loops(p) BY <2>1, <2>2 DEF IInv, InvDrainer, Loops
  <2>4. idx[p] \in DOMAIN Hooks(p) BY <2>1, <2>3 DEF IInv, InvLoop, InLoop
  <2> QED BY <1>8, <2>4 DEF HookReturns
<1>9. CASE EndOfHooks(p) \/ Publish(p) BY <1>9 DEF EndOfHooks, Publish
<1>10. CASE Expire(p) BY <1>10 DEF Expire
<1> QED BY <1>2, <1>3, <1>4, <1>5, <1>6, <1>7, <1>8, <1>9, <1>10 DEF Step, Run

LEMMA HooksTypeNext ==
  ASSUME NEW p \in Calls
  PROVE  /\ Hooks(p)' \in Seq(Components \cup {NilHook})
         /\ Len(Hooks(p)') \in Nat
<1>1. Hooks(p)' \in Seq(Components \cup {NilHook})
  BY HooksAssumption DEF Hooks
<1> QED BY <1>1

LEMMA StepRange == IInv /\ InRange /\ [Next]_vars => InRange'
<1> SUFFICES ASSUME IInv, InRange, [Next]_vars, NEW q \in Calls
             PROVE  idx'[q] <= Len(Hooks(q)') + 1
  BY DEF InRange
<1>1. /\ idx[q] \in Nat /\ idx[q] <= Len(Hooks(q)) + 1 /\ Len(Hooks(q)) \in Nat
      /\ DOMAIN Hooks(q) = 1..Len(Hooks(q))
  BY HooksType DEF IInv, TypeOK, InRange
<1>2. CASE UNCHANGED vars
  <2>1. idx'[q] = idx[q] /\ Hooks(q)' = Hooks(q) BY <1>2 DEF vars, callVars, Hooks
  <2> QED BY <1>1, <2>1
<1>3. ASSUME NEW p \in Calls, Step(p) PROVE idx'[q] <= Len(Hooks(q)') + 1
  <2>1. CASE q # p
    <3>1. idx'[q] = idx[q] /\ Hooks(q)' = Hooks(q)
      BY <1>3, <2>1, OneCallMoves DEF Apart, Hooks
    <3> QED BY <1>1, <3>1
  <2>2. CASE q = p /\ pc[q] = "idle"
    <3>1. idx'[q] = 1 BY <1>3, <2>2, StepGoesOn, AtFirst DEF Ahead
    <3> QED BY <3>1, HooksTypeNext
  <2>3. CASE q = p /\ pc[q] # "idle"
    <3>1. Ahead(q) BY <1>3, <2>3, StepGoesOn
    <3>2. Hooks(q)' = Hooks(q) BY <2>3, <3>1 DEF Ahead, Hooks
    <3> QED BY <1>1, <3>1, <3>2 DEF Ahead
  <2> QED BY <2>1, <2>2, <2>3
<1> QED BY <1>2, <1>3 DEF Next, Quiescent

LEMMA Range == Spec => []InRange
<1> QED BY InitRange, StepRange, Invariance, PTL DEF Spec

\* What an invocation has left, by where it is: d for its deadline, h for its hooks.
Due(p) == IF expired[p] THEN 0 ELSE 1
LeftBy(p) ==
  /\ pc[p] = "idle" => StepsLeft(p) = Due(p) + (6 + 2 * Len(FlushHooks) + 2 * Len(ShutdownHooks))
  /\ pc[p] = "lock" => StepsLeft(p) = Due(p) + (5 + HooksLeft(p))
  /\ pc[p] = "check" => StepsLeft(p) = Due(p) + (4 + HooksLeft(p))
  /\ pc[p] = "call" => StepsLeft(p) = Due(p) + (3 + HooksLeft(p))
  /\ pc[p] = "wait" => StepsLeft(p) = Due(p) + (2 + HooksLeft(p))
  /\ pc[p] = "relock" => StepsLeft(p) = Due(p) + 2
  /\ pc[p] = "publish" => StepsLeft(p) = Due(p) + 1
  /\ pc[p] = "done" => StepsLeft(p) = Due(p) + 0

LEMMA LeftNow == \A p \in Calls : LeftBy(p) /\ Due(p) \in {0, 1}
<1> QED BY DEF LeftBy, StepsLeft, Due

LEMMA LeftThen == \A p \in Calls : LeftBy(p)' /\ Due(p)' \in {0, 1}
<1> QED BY DEF LeftBy, StepsLeft, Due

LEMMA LeftAlone ==
  ASSUME NEW p \in Calls, pc'[p] = pc[p], op'[p] = op[p], idx'[p] = idx[p],
         expired'[p] = expired[p]
  PROVE  StepsLeft(p)' = StepsLeft(p)
<1>1. HooksLeft(p)' = HooksLeft(p) BY DEF HooksLeft, Hooks
<1> QED BY <1>1 DEF StepsLeft

LEMMA LeftIsNumber ==
  ASSUME IInv, InRange, NEW p \in Calls
  PROVE  HooksLeft(p) \in Nat /\ StepsLeft(p) \in Nat
<1>1. PICK n \in Nat : n = Len(Hooks(p)) BY HooksType
<1>2. idx[p] \in Nat /\ idx[p] <= n + 1 BY <1>1 DEF IInv, TypeOK, InRange
<1>3. HooksLeft(p) = 2 * (n + 1 - idx[p]) BY <1>1 DEF HooksLeft
<1>4. PICK h \in Nat : h = HooksLeft(p) BY <1>2, <1>3
<1>5. PICK f \in Nat, g \in Nat : f = Len(FlushHooks) /\ g = Len(ShutdownHooks)
  BY HooksAssumption
<1>6. PICK d \in {0, 1} : d = Due(p) BY LeftNow
<1>7. pc[p] \in PCs BY DEF IInv, TypeOK
<1>8. CASE pc[p] \in {"lock", "check", "call", "wait"}
  BY <1>4, <1>6, <1>8, LeftNow DEF LeftBy
<1>9. CASE pc[p] = "idle" BY <1>4, <1>5, <1>6, <1>9, LeftNow DEF LeftBy
<1>10. CASE pc[p] \in {"relock", "publish", "done"}
  BY <1>4, <1>6, <1>10, LeftNow DEF LeftBy
<1> QED BY <1>7, <1>8, <1>9, <1>10 DEF PCs

LEMMA LeftIsNumberNext ==
  ASSUME IInv', InRange', NEW p \in Calls
  PROVE  HooksLeft(p)' \in Nat /\ StepsLeft(p)' \in Nat
<1>1. PICK n \in Nat : n = Len(Hooks(p)') BY HooksTypeNext
<1>2. idx'[p] \in Nat /\ idx'[p] <= n + 1 BY <1>1 DEF IInv, TypeOK, InRange
<1>3. HooksLeft(p)' = 2 * (n + 1 - idx'[p]) BY <1>1 DEF HooksLeft
<1>4. PICK h \in Nat : h = HooksLeft(p)' BY <1>2, <1>3
<1>5. PICK f \in Nat, g \in Nat : f = Len(FlushHooks) /\ g = Len(ShutdownHooks)
  BY HooksAssumption
<1>6. PICK d \in {0, 1} : d = Due(p)' BY LeftThen
<1>7. pc'[p] \in PCs BY DEF IInv, TypeOK
<1>8. CASE pc'[p] \in {"lock", "check", "call", "wait"}
  BY <1>4, <1>6, <1>8, LeftThen DEF LeftBy
<1>9. CASE pc'[p] = "idle" BY <1>4, <1>5, <1>6, <1>9, LeftThen DEF LeftBy
<1>10. CASE pc'[p] \in {"relock", "publish", "done"}
  BY <1>4, <1>6, <1>10, LeftThen DEF LeftBy
<1> QED BY <1>7, <1>8, <1>9, <1>10 DEF PCs

\* Each step of an invocation is one of those it has left.
LEMMA StepCounts ==
  ASSUME IInv, InRange, IInv', InRange', NEW p \in Calls, Step(p)
  PROVE  StepsLeft(p)' < StepsLeft(p)
<1>1. LeftBy(p) /\ LeftBy(p)' BY LeftNow, LeftThen
<1>2. PICK h \in Nat : h = HooksLeft(p) BY LeftIsNumber
<1>3. PICK g \in Nat : g = HooksLeft(p)' BY LeftIsNumberNext
<1>4. PICK d \in {0, 1} : d = Due(p) BY LeftNow
<1>5. PICK e \in {0, 1} : e = Due(p)' BY LeftThen
<1>6. /\ pc \in [Calls -> PCs] /\ op \in [Calls -> Ops] /\ idx \in [Calls -> Nat \ {0}]
      /\ expired \in [Calls -> BOOLEAN]
  BY DEF IInv, TypeOK
<1>7. ASSUME expired' = expired PROVE e = d BY <1>4, <1>5, <1>7 DEF Due
<1>8. ASSUME op'[p] = op[p], idx'[p] = idx[p] PROVE g = h
  BY <1>2, <1>3, <1>8 DEF HooksLeft, Hooks
<1>9. ASSUME op'[p] = op[p], idx'[p] = idx[p] + 1 PROVE g = h - 2
  <2>1. PICK n \in Nat : n = Len(Hooks(p)) BY HooksType
  <2>2. Hooks(p)' = Hooks(p) BY <1>9 DEF Hooks
  <2>3. h = 2 * (n + 1 - idx[p]) BY <1>2, <2>1 DEF HooksLeft
  <2>4. g = 2 * (n + 1 - (idx[p] + 1)) BY <1>3, <1>9, <2>1, <2>2 DEF HooksLeft
  <2>5. idx[p] \in Nat BY <1>6
  <2> QED BY <2>3, <2>4, <2>5
<1> USE <1>6 DEF Goto, callVars
<1>10. CASE CallForceFlush(p) \/ CallShutdown(p)
  <2>1. /\ pc[p] = "idle" /\ pc'[p] \in {"done", "call", "lock"}
        /\ op'[p] \in {"flush", "shutdown"} /\ idx' = idx /\ expired' = expired
    BY <1>10 DEF CallForceFlush, CallShutdown, Start
  <2>2. idx'[p] = 1 BY <2>1, AtFirst
  <2>3. PICK m \in Nat, n \in Nat : m = Len(FlushHooks) /\ n = Len(ShutdownHooks)
    BY HooksAssumption
  <2>4. PICK k \in {m, n} : k = Len(Hooks(p)') BY <2>3 DEF Hooks
  <2>5. g = 2 * (k + 1 - 1) BY <1>3, <2>2, <2>4 DEF HooksLeft
  <2>6. StepsLeft(p) = d + 6 + 2 * m + 2 * n BY <1>1, <1>4, <2>1, <2>3 DEF LeftBy
  <2>7. \/ StepsLeft(p)' = d + 5 + g
        \/ StepsLeft(p)' = d + 3 + g
        \/ StepsLeft(p)' = d
    BY <1>1, <1>3, <1>5, <1>7, <2>1 DEF LeftBy
  <2> QED BY <2>5, <2>6, <2>7
<1>11. CASE Acquire(p) \/ Reacquire(p)
  <2>1. /\ \/ pc[p] = "lock" /\ pc'[p] = "check"
           \/ pc[p] = "relock" /\ pc'[p] = "publish"
        /\ op' = op /\ idx' = idx /\ expired' = expired
    BY <1>11 DEF Acquire, Reacquire, Lock
  <2>2. g = h /\ e = d BY <1>7, <1>8, <2>1
  <2> QED BY <1>1, <1>2, <1>3, <1>4, <1>5, <2>1, <2>2 DEF LeftBy
<1>12. CASE AlreadyShutDown(p)
  <2>1. pc[p] = "check" /\ pc'[p] = "done" /\ expired' = expired
    BY <1>12 DEF AlreadyShutDown
  <2>2. e = d BY <1>7, <2>1
  <2> QED BY <1>1, <1>2, <1>4, <1>5, <2>1, <2>2 DEF LeftBy
<1>13. CASE ClaimShutdown(p)
  <2>1. /\ pc[p] = "check" /\ pc'[p] = "call"
        /\ op' = op /\ idx' = idx /\ expired' = expired
    BY <1>13 DEF ClaimShutdown
  <2>2. g = h /\ e = d BY <1>7, <1>8, <2>1
  <2> QED BY <1>1, <1>2, <1>3, <1>4, <1>5, <2>1, <2>2 DEF LeftBy
<1>14. CASE SkipNilHook(p)
  <2>1. /\ pc[p] = "call" /\ pc'[p] = "call"
        /\ op' = op /\ idx'[p] = idx[p] + 1 /\ expired' = expired
    BY <1>14 DEF SkipNilHook
  <2>2. g = h - 2 /\ e = d BY <1>7, <1>9, <2>1
  <2> QED BY <1>1, <1>2, <1>3, <1>4, <1>5, <2>1, <2>2 DEF LeftBy
<1>15. CASE EnterHook(p)
  <2>1. /\ pc[p] = "call" /\ pc'[p] = "wait"
        /\ op' = op /\ idx' = idx /\ expired' = expired
    BY <1>15 DEF EnterHook
  <2>2. g = h /\ e = d BY <1>7, <1>8, <2>1
  <2> QED BY <1>1, <1>2, <1>3, <1>4, <1>5, <2>1, <2>2 DEF LeftBy
<1>16. CASE HookReturns(p)
  <2>1. /\ pc[p] = "wait" /\ pc'[p] = "call"
        /\ op' = op /\ idx'[p] = idx[p] + 1 /\ expired' = expired
    BY <1>16 DEF HookReturns
  <2>2. g = h - 2 /\ e = d BY <1>7, <1>9, <2>1
  <2> QED BY <1>1, <1>2, <1>3, <1>4, <1>5, <2>1, <2>2 DEF LeftBy
<1>17. CASE EndOfHooks(p)
  <2>1. pc[p] = "call" /\ pc'[p] \in {"done", "relock"} /\ expired' = expired
    BY <1>17 DEF EndOfHooks
  <2>2. e = d BY <1>7, <2>1
  <2> QED BY <1>1, <1>2, <1>4, <1>5, <2>1, <2>2 DEF LeftBy
<1>18. CASE Publish(p)
  <2>1. pc[p] = "publish" /\ pc'[p] = "done" /\ expired' = expired
    BY <1>18 DEF Publish
  <2>2. e = d BY <1>7, <2>1
  <2> QED BY <1>1, <1>4, <1>5, <2>1, <2>2 DEF LeftBy
<1>19. CASE Expire(p)
  <2>1. /\ pc' = pc /\ op' = op /\ idx' = idx /\ pc[p] \notin {"idle", "done"}
        /\ ~expired[p] /\ expired'[p]
    BY <1>19 DEF Expire
  <2>2. g = h /\ e = 0 /\ d = 1 BY <1>4, <1>5, <1>8, <2>1 DEF Due
  <2>3. pc[p] \in PCs BY <1>6
  <2> QED BY <1>1, <1>2, <1>3, <1>4, <1>5, <2>1, <2>2, <2>3 DEF LeftBy, PCs
<1> QED BY <1>10, <1>11, <1>12, <1>13, <1>14, <1>15, <1>16, <1>17, <1>18, <1>19
        DEF Step, Run

\* An invocation calls each of its hooks at most once and is over after a number of
\* steps that its list of hooks bounds, whatever fails and whoever else is running
\* (cleanup.go:27-67).
THEOREM CallEnds == Spec => CallIsBounded
<1>1. IInv /\ IInv' /\ InRange /\ InRange' /\ [Next]_vars => [EachStepCounts]_vars
  <2> SUFFICES ASSUME IInv, IInv', InRange, InRange', Next, vars' # vars, NEW q \in Calls
               PROVE  /\ StepsLeft(q)' <= StepsLeft(q)
                      /\ Step(q) => StepsLeft(q)' < StepsLeft(q)
    BY DEF EachStepCounts
  <2>1. Step(q) => StepsLeft(q)' < StepsLeft(q) BY StepCounts
  <2>2. StepsLeft(q) \in Nat /\ StepsLeft(q)' \in Nat
    BY LeftIsNumber, LeftIsNumberNext
  <2>3. PICK p \in Calls : Step(p) BY DEF Next, Quiescent
  <2>4. CASE q = p BY <2>1, <2>2, <2>3, <2>4
  <2>5. CASE q # p
    <3>1. StepsLeft(q)' = StepsLeft(q)
      BY <2>3, <2>5, OneCallMoves, LeftAlone DEF Apart
    <3> QED BY <2>1, <2>2, <3>1
  <2> QED BY <2>4, <2>5
<1> QED BY <1>1, Invariance, Range, PTL DEF Spec, CallIsBounded

-----------------------------------------------------------------------------
(***************************************************************************)
(* The refinement of OneShutdown: every step is a step of it or a stutter. *)
(***************************************************************************)
Mapped == <<PhaseOf, OutcomeOf, RepliedOf, ReplyOf>>

LEMMA RefineInit == Init => Once!AInit
<1> SUFFICES ASSUME Init PROVE Once!AInit OBVIOUS
<1>1. PhaseOf \in {"absent", "open"} BY DEF Init, PhaseOf
<1>2. OutcomeOf = [c \in Components |-> "none"] BY DEF Init, OutcomeOf
<1>3. RepliedOf = {} BY DEF Init, RepliedOf
<1>4. ReplyOf = [p \in Calls |-> {}] BY <1>3 DEF ReplyOf
<1> QED BY <1>1, <1>2, <1>3, <1>4 DEF Once!AInit

\* A step that neither moves the drainer's answers nor returns from a Shutdown
\* is a stutter.
LEMMA Stutter ==
  ASSUME IInv,
         UNCHANGED <<handle, shutDown, drainer>>,
         PhaseOf' = PhaseOf,
         drainer # NoCall => \A c \in Components :
           answer'[drainer][c] \in {"ok", "failed"} \/ answer[drainer][c] \in {"ok", "failed"}
             => answer'[drainer][c] = answer[drainer][c],
         RepliedOf' = RepliedOf,
         \A q \in RepliedOf : err'[q] = err[q]
  PROVE  UNCHANGED Mapped
<1>1. OutcomeOf' = OutcomeOf BY DEF OutcomeOf
<1>2. ReplyOf' = ReplyOf BY DEF ReplyOf
<1> QED BY <1>1, <1>2 DEF Mapped

\* A Shutdown that returns adds its error to the replies.
LEMMA NewReply ==
  ASSUME NEW p \in Calls, NEW e,
         p \notin RepliedOf, RepliedOf' = RepliedOf \cup {p},
         err'[p] = e, \A q \in Calls : q # p => err'[q] = err[q]
  PROVE  Once!Answer(p, e)
<1>1. ReplyOf' = [ReplyOf EXCEPT ![p] = e] BY DEF ReplyOf
<1> QED BY <1>1 DEF Once!Answer

LEMMA VerdictIsStored ==
  ASSUME IInv, drainer # NoCall
  PROVE  Once!Verdict = Failed(drainer) /\ err[drainer] = Failed(drainer)
<1>1. Once!Verdict = Failed(drainer) BY DEF Once!Verdict, OutcomeOf, Failed
<1>2. err[drainer] = Failed(drainer)
  BY DEF IInv, TypeOK, InvDrainer, InvLoop, InLoop, Loops
<1> QED BY <1>1, <1>2

\* The facts of the invariant the steps below use.
LEMMA Phases ==
  ASSUME IInv
  PROVE  /\ drainer \in Calls \cup {NoCall} /\ NoCall \notin Calls
         /\ shutDown <=> drainer # NoCall
         /\ handle = "nil" => drainer = NoCall
         /\ PhaseOf = "closed" <=> Published
         /\ PhaseOf = "draining" <=> shutDown /\ ~Published
         /\ PhaseOf = "open" <=> handle = "live" /\ ~shutDown
         /\ PhaseOf = "absent" <=> handle = "nil"
<1> QED BY CallsAssumption DEF IInv, TypeOK, InvDrainer, PhaseOf, Published

LEMMA RefineStart ==
  ASSUME IInv, NEW p \in Calls, CallForceFlush(p) \/ CallShutdown(p)
  PROVE  Once!Reply(p) \/ UNCHANGED Mapped
<1> USE DEF CallForceFlush, CallShutdown, Start, Goto, handleVars
<1>1. p # drainer /\ p \notin RepliedOf /\ ~Loops(p)
  BY CallsAssumption DEF IInv, InvMethod, InvDrainer, RepliedOf, Loops
<1>2. PhaseOf' = PhaseOf /\ OutcomeOf' = OutcomeOf
  BY <1>1, Phases DEF PhaseOf, Published, OutcomeOf, IInv, TypeOK
<1>3. CASE CallShutdown(p) /\ handle = "nil"
  <2>1. RepliedOf' = RepliedOf \cup {p}
    BY <1>3 DEF RepliedOf, IInv, TypeOK
  <2>2. err'[p] = {} BY <1>1, <1>3 DEF IInv, InvBefore, NotYet
  <2>3. Once!Answer(p, {}) BY <1>1, <2>1, <2>2, NewReply
  <2>4. PhaseOf = "absent" BY <1>3, Phases
  <2> QED BY <1>2, <2>3, <2>4 DEF Once!Reply
<1>4. CASE ~(CallShutdown(p) /\ handle = "nil")
  <2>1. RepliedOf' = RepliedOf
    BY <1>4 DEF RepliedOf, IInv, TypeOK
  <2>2. ReplyOf' = ReplyOf BY <2>1 DEF ReplyOf
  <2> QED BY <1>2, <2>1, <2>2 DEF Mapped
<1> QED BY <1>3, <1>4

LEMMA RefineAlready ==
  ASSUME IInv, NEW p \in Calls, AlreadyShutDown(p)
  PROVE  Once!Reply(p)
<1> USE DEF AlreadyShutDown, StoredAnswer, Goto, handleVars
<1>1. op[p] = "shutdown" /\ p \notin RepliedOf
  BY DEF IInv, InvMethod, RepliedOf
<1>2. drainer # NoCall /\ p # drainer BY DEF IInv, InvDrainer
<1>3. PhaseOf' = PhaseOf /\ OutcomeOf' = OutcomeOf
  BY <1>2, Phases DEF PhaseOf, Published, OutcomeOf, IInv, TypeOK
<1>4. RepliedOf' = RepliedOf \cup {p}
  BY <1>1 DEF RepliedOf, IInv, TypeOK
<1>5. Once!Answer(p, shutdownErr)
  <2>1. err'[p] = shutdownErr /\ \A q \in Calls : q # p => err'[q] = err[q]
    BY DEF IInv, TypeOK
  <2> QED BY <1>1, <1>4, <2>1, NewReply
<1>6. shutdownErr = IF PhaseOf = "closed" THEN Once!Verdict ELSE {}
  BY <1>2, Phases, VerdictIsStored DEF IInv, InvStored
<1>7. PhaseOf # "open" BY Phases
<1> QED BY <1>3, <1>5, <1>6, <1>7 DEF Once!Reply

LEMMA RefineClaim ==
  ASSUME IInv, NEW p \in Calls, ClaimShutdown(p)
  PROVE  Once!Begin
<1> USE DEF ClaimShutdown, Claimable, Goto, callVars
<1>1. op[p] = "shutdown" /\ drainer = NoCall /\ handle = "live"
  BY DEF IInv, TypeOK, InvMethod, InvDrainer
<1>2. PhaseOf = "open" /\ PhaseOf' = "draining"
  BY <1>1, CallsAssumption DEF PhaseOf, Published, IInv, TypeOK
<1>3. answer[p] = [c \in Components |-> "none"]
  BY <1>1, CallsAssumption DEF IInv, InvBefore, NotYet, Loops
<1>4. OutcomeOf' = OutcomeOf BY <1>1, <1>3 DEF OutcomeOf
<1>5. RepliedOf' = RepliedOf BY DEF RepliedOf, IInv, TypeOK
<1>6. ReplyOf' = ReplyOf BY <1>5 DEF ReplyOf
<1> QED BY <1>2, <1>4, <1>5, <1>6 DEF Once!Begin

LEMMA RefineHookReturns ==
  ASSUME IInv, NEW p \in Calls, HookReturns(p)
  PROVE  (\E i \in DOMAIN ShutdownHooks : Once!Stop(i)) \/ UNCHANGED Mapped
<1> USE DEF HookReturns, Goto, handleVars
<1>1. PhaseOf' = PhaseOf BY Phases DEF PhaseOf, Published, IInv, TypeOK
<1>2. RepliedOf' = RepliedOf BY DEF RepliedOf, IInv, TypeOK
<1>3. ReplyOf' = ReplyOf
  <2>1. p \notin RepliedOf BY DEF RepliedOf
  <2> QED BY <1>2, <2>1 DEF ReplyOf, RepliedOf, IInv, TypeOK
<1>4. CASE p # drainer
  <2>1. OutcomeOf' = OutcomeOf BY <1>4 DEF OutcomeOf, IInv, TypeOK
  <2> QED BY <1>1, <1>2, <1>3, <2>1 DEF Mapped
<1>5. CASE p = drainer
  <2>1. drainer # NoCall /\ Loops(p) /\ op[p] = "shutdown" /\ PhaseOf = "draining"
    BY <1>5, Phases, CallsAssumption DEF Loops, IInv, InvDrainer, Published
  <2>2. InLoop(p) /\ Hooks(p) = ShutdownHooks
    BY <2>1 DEF IInv, InvLoop, Hooks
  <2> DEFINE i == idx[p]
  <2> DEFINE c == ShutdownHooks[i]
  <2>3. i \in DOMAIN ShutdownHooks /\ c # NilHook /\ answer[p][c] = "open"
    BY <2>2 DEF InLoop
  <2>4. c \in Components BY <2>2, <2>3, HooksType
  <2>5. ~Once!Ended(i) BY <1>5, <2>3, <2>4 DEF Once!Ended, OutcomeOf
  <2>6. \A j \in DOMAIN ShutdownHooks : j < i => Once!Ended(j)
    <3> SUFFICES ASSUME NEW j \in DOMAIN ShutdownHooks, j < i,
                        ShutdownHooks[j] # NilHook
                 PROVE OutcomeOf[ShutdownHooks[j]] # "none"
      BY DEF Once!Ended
    <3>1. answer[p][ShutdownHooks[j]] \in {"ok", "failed"} BY <2>2 DEF InLoop
    <3>2. ShutdownHooks[j] \in Components BY <2>2, HooksType
    <3> QED BY <1>5, <2>1, <3>1, <3>2 DEF OutcomeOf
  <2>7. PICK result \in {"ok", "failed"} :
          answer' = [answer EXCEPT ![p][c] = result]
    BY <2>2
  <2>8. OutcomeOf' = [OutcomeOf EXCEPT ![c] = result]
    BY <1>5, <2>1, <2>4, <2>7 DEF OutcomeOf, IInv, TypeOK
  <2>9. Once!Stop(i)
    BY <1>1, <1>2, <1>3, <2>1, <2>5, <2>6, <2>8 DEF Once!Stop
  <2> QED BY <2>3, <2>9
<1> QED BY <1>4, <1>5

LEMMA RefinePublish ==
  ASSUME IInv, NEW p \in Calls, Publish(p)
  PROVE  Once!Close(p)
<1> USE DEF Publish, Goto, callVars
<1>1. op[p] = "shutdown" /\ p = drainer /\ drainer # NoCall
  BY CallsAssumption DEF IInv, InvMethod, InvDrainer
<1>2. PhaseOf = "draining" /\ PhaseOf' = "closed"
  BY <1>1, Phases DEF PhaseOf, Published, IInv, TypeOK
<1>3. OutcomeOf' = OutcomeOf BY DEF OutcomeOf
<1>4. Loops(p) /\ InLoop(p) /\ Hooks(p) = ShutdownHooks
  BY <1>1 DEF IInv, InvDrainer, InvLoop, Loops, Hooks
<1>5. \A i \in DOMAIN ShutdownHooks : Once!Ended(i)
  <2> SUFFICES ASSUME NEW i \in DOMAIN ShutdownHooks, ShutdownHooks[i] # NilHook
               PROVE OutcomeOf[ShutdownHooks[i]] # "none"
    BY DEF Once!Ended
  <2>1. i < idx[p]
    <3>1. idx[p] \notin DOMAIN Hooks(p) BY <1>4 DEF InLoop
    <3>2. idx[p] \in Nat \ {0} BY DEF IInv, TypeOK
    <3> QED BY <1>4, <3>1, <3>2, HooksType
  <2>2. answer[p][ShutdownHooks[i]] \in {"ok", "failed"}
    BY <1>4, <2>1 DEF InLoop
  <2>3. ShutdownHooks[i] \in Components BY <1>4, HooksType
  <2> QED BY <1>1, <2>2, <2>3 DEF OutcomeOf
<1>6. Once!Answer(p, Once!Verdict)
  <2>1. p \notin RepliedOf /\ RepliedOf' = RepliedOf \cup {p}
    BY <1>1 DEF RepliedOf, IInv, TypeOK
  <2>2. err'[p] = Once!Verdict BY <1>1, VerdictIsStored
  <2> QED BY <2>1, <2>2, NewReply
<1> QED BY <1>2, <1>3, <1>5, <1>6 DEF Once!Close

\* Waiting, locking, skipping, entering a hook and deadlines are not visible.
LEMMA RefineSilent ==
  ASSUME IInv, NEW p \in Calls,
         Acquire(p) \/ Reacquire(p) \/ SkipNilHook(p) \/ EnterHook(p)
           \/ EndOfHooks(p) \/ Expire(p)
  PROVE  UNCHANGED Mapped
<1>1. UNCHANGED <<handle, shutDown, drainer, op, err>>
  BY DEF Acquire, Reacquire, Lock, SkipNilHook, EnterHook, EndOfHooks, Expire,
     handleVars, callVars
<1>2. \A q \in Calls : op[q] = "shutdown" => (pc'[q] = "done" <=> pc[q] = "done")
  BY DEF Acquire, Reacquire, Lock, SkipNilHook, EnterHook, EndOfHooks, Expire,
     Goto, IInv, TypeOK
<1>3. PhaseOf' = PhaseOf
  BY <1>1, <1>2, Phases DEF PhaseOf, Published, IInv, InvDrainer
<1>4. RepliedOf' = RepliedOf BY <1>1, <1>2 DEF RepliedOf
<1>5. ASSUME drainer # NoCall, NEW c \in Components
      PROVE answer'[drainer][c] \in {"ok", "failed"}
              \/ answer[drainer][c] \in {"ok", "failed"}
            => answer'[drainer][c] = answer[drainer][c]
  <2>1. CASE EnterHook(p)
    <3>1. CASE p # drainer BY <2>1, <3>1 DEF EnterHook, IInv, TypeOK
    <3>2. CASE p = drainer
      <4>1. InLoop(p) BY <1>5, <3>2 DEF IInv, InvDrainer, InvLoop, Loops
      <4>2. answer[p][Hooks(p)[idx[p]]] = "none"
        BY <2>1, <4>1 DEF InLoop, EnterHook, Goto, AtEnd, AtNil
      <4> QED BY <2>1, <3>2, <4>2 DEF EnterHook, IInv, TypeOK
    <3> QED BY <3>1, <3>2
  <2>2. CASE ~EnterHook(p)
    <3>1. answer' = answer
      BY <2>2 DEF Acquire, Reacquire, Lock, SkipNilHook, EndOfHooks, Expire,
         callVars
    <3> QED BY <3>1
  <2> QED BY <2>1, <2>2
<1> QED BY <1>1, <1>3, <1>4, <1>5, Stutter

\* The mutex, the flag and callAll implement one ordered shutdown run and an
\* atomic reply per caller (cleanup.go:35-67).
THEOREM Implements == Spec => ImplementsOneShutdown
<1>1. ASSUME IInv, NEW p \in Calls, Step(p)
      PROVE Once!ANext \/ UNCHANGED Mapped
  <2>1. CASE CallForceFlush(p) \/ CallShutdown(p)
    BY <1>1, <2>1, RefineStart DEF Once!ANext
  <2>2. CASE AlreadyShutDown(p) BY <1>1, <2>2, RefineAlready DEF Once!ANext
  <2>3. CASE ClaimShutdown(p) BY <1>1, <2>3, RefineClaim DEF Once!ANext
  <2>4. CASE HookReturns(p) BY <1>1, <2>4, RefineHookReturns DEF Once!ANext
  <2>5. CASE Publish(p) BY <1>1, <2>5, RefinePublish DEF Once!ANext
  <2> QED BY <1>1, <2>1, <2>2, <2>3, <2>4, <2>5, RefineSilent DEF Step, Run
<1>2. ASSUME UNCHANGED vars PROVE UNCHANGED Mapped
  BY <1>2 DEF vars, handleVars, callVars, Mapped, PhaseOf, Published,
     OutcomeOf, RepliedOf, ReplyOf
<1>3. IInv /\ [Next]_vars => [Once!ANext]_(Once!avars)
  BY <1>1, <1>2 DEF Next, Quiescent, Once!avars, Mapped
<1> QED BY <1>3, RefineInit, Invariance, PTL
        DEF Spec, ImplementsOneShutdown, Once!ASpec
=============================================================================
