------------------------- MODULE LotelHelperProofs -------------------------
(***************************************************************************)
(* Proofs about LotelHelper, for any number of packages and of tests.      *)
(***************************************************************************)
EXTENDS LotelHelper, FiniteSetTheorems, TLAPS

\* The tests of a package that have a helper.
Users(p) == {t \in Of(p) : pc[t] \in Using}

\* pkgRefs counts the helpers of the package.
InvRefs == \A p \in Packages : refs[p] = Cardinality(Users(p))

\* startupMu is held by the one test of the package that is in ensureRunning.
InvStartup == \A t \in Tests : pc[t] \in Startup <=> startupMu[PackageOf[t]] = t

\* The test that looks at the collector is the first, and stays it.
InvFirst ==
  \A t \in Tests :
    pc[t] \in {"health", "start", "ingest0", "ingest1", "undo", "undone"} =>
      Users(PackageOf[t]) = {}

\* Only a package that missed a collector of somebody else takes it for its own.
InvOutside ==
  collector = "outside" =>
    /\ \A p \in Packages : started[p] => p \in missed
    /\ \A t \in Tests :
         pc[t] \in {"start", "ingest1", "undo", "stop"} => PackageOf[t] \in missed

InvMet == ~met => \A s, t \in Tests : ~Meet(s, t, pc)

\* One test stops the collector of a package, when no other has a helper.
InvLast ==
  ~met =>
    \A s, t \in Tests :
      /\ s # t /\ PackageOf[s] = PackageOf[t]
      /\ pc[s] \in {"stop", "stopped"}
      => pc[t] \notin Using \cup {"stop", "stopped"}

\* A test that has seen the collector run, or that may rely on one that has.
InvRunning ==
  ~met => \A t \in Tests :
            pc[t] \in Using \cup {"ingest0", "ingest1", "count"} => collector # Nobody

\* Whoever runs with t will see to it that the collector is stopped.
Keeps(t) == pc[t] \in Using \cup {"ingest1", "count", "undo", "stop"}

InvLeft ==
  ~met /\ ~failed =>
    \A p \in Packages : collector = p => started[p] /\ \E t \in Of(p) : Keeps(t)

IInv ==
  /\ TypeOK
  /\ InvRefs
  /\ InvStartup
  /\ InvFirst
  /\ InvOutside
  /\ InvMet
  /\ InvLast
  /\ InvRunning
  /\ InvLeft
-----------------------------------------------------------------------------
\* Where a step leaves the tests; a stop that meets somebody is on record.
LEMMA Moves ==
  ASSUME TypeOK, NEW t \in Tests, NEW from \in PCs, NEW to \in PCs, Goto(t, from, to)
  PROVE  /\ pc[t] = from /\ pc'[t] = to
         /\ \A u \in Tests \ {t} : pc'[u] = pc[u]
         /\ pc' \in [Tests -> PCs]
         /\ met' \in BOOLEAN /\ (met => met')
         /\ ~met' => \A s, u \in Tests : ~Meet(s, u, pc')
BY DEF TypeOK, Goto

\* The tests of a package are finitely many.
LEMMA UsersFinite ==
  \A p \in Packages :
    IsFiniteSet(Users(p)) /\ Cardinality(Users(p)) \in 0..Cardinality(Tests)
<1> TAKE p \in Packages
<1>1. Users(p) \subseteq Tests BY DEF Users, Of
<1>2. IsFiniteSet(Users(p)) /\ Cardinality(Users(p)) <= Cardinality(Tests)
  BY <1>1, TestsAssumption, FS_Subset
<1>3. Cardinality(Users(p)) \in Nat /\ Cardinality(Tests) \in Nat
  BY <1>2, TestsAssumption, FS_CardinalityType
<1> QED BY <1>2, <1>3

LEMMA InitInv == Init => IInv
<1> SUFFICES ASSUME Init PROVE IInv OBVIOUS
<1> USE DEF Init
<1>1. TypeOK
  <2>1. Cardinality(Tests) \in Nat BY TestsAssumption, FS_CardinalityType
  <2>2. pc \in [Tests -> PCs] BY DEF PCs
  <2>3. refs \in [Packages -> 0..Cardinality(Tests)] BY <2>1
  <2> QED BY <2>2, <2>3 DEF TypeOK
<1>2. InvRefs
  <2>1. \A p \in Packages : Users(p) = {} BY DEF Users, Of, Using
  <2> QED BY <2>1, FS_EmptySet DEF InvRefs
<1>3. InvStartup BY PackagesAssumption, NobodyAssumption DEF InvStartup, Startup
<1>4. InvFirst /\ InvOutside /\ InvLast /\ InvRunning
  BY DEF InvFirst, InvOutside, InvLast, InvRunning, Using
<1>5. InvMet BY DEF InvMet, Meet, Stopping
<1>6. InvLeft BY NobodyAssumption, OutsideAssumption DEF InvLeft
<1> QED BY <1>1, <1>2, <1>3, <1>4, <1>5, <1>6 DEF IInv

\* A test that moves on within its call of Start, or with its helper, as far as the
\* others are concerned stays where it was.
LEMMA QuietInv ==
  ASSUME IInv, NEW t \in Tests, NEW from \in PCs, NEW to \in PCs, Goto(t, from, to),
         \/ from = "idle" /\ to \in {"lock", "done"}
         \/ from \in Using /\ to \in Using,
         UNCHANGED <<collector, refs, started, startupMu, failed, missed>>,
         ingestMu' \in [Packages -> Tests \cup {Nobody}],
         late' \in [Tests -> BOOLEAN]
  PROVE  IInv'
<1> USE DEF IInv
<1>1. /\ pc[t] = from /\ pc'[t] = to
      /\ \A u \in Tests \ {t} : pc'[u] = pc[u]
      /\ pc' \in [Tests -> PCs]
      /\ met' \in BOOLEAN /\ (met => met')
      /\ ~met' => \A s, u \in Tests : ~Meet(s, u, pc')
  BY Moves
<1>2. TypeOK' BY <1>1 DEF TypeOK
<1>3. \A u \in Tests :
        /\ pc'[u] \in Using <=> pc[u] \in Using
        /\ pc'[u] \in Startup <=> pc[u] \in Startup
  BY <1>1 DEF Using, Startup
<1>4. \A u \in Tests :
        pc'[u] \notin Using => pc'[u] = pc[u] \/ pc'[u] \in {"lock", "done"}
  BY <1>1 DEF Using
<1>5. \A p \in Packages : Users(p)' = Users(p) BY <1>3 DEF Users, Of
<1>6. InvRefs' BY <1>5 DEF InvRefs
<1>7. InvStartup' BY <1>3 DEF InvStartup
<1>8. InvFirst'
  <2>1. \A u \in Tests :
          pc'[u] \in {"health", "start", "ingest0", "ingest1", "undo", "undone"} => pc'[u] = pc[u]
    BY <1>1 DEF Using
  <2> QED BY <1>5, <2>1, PackagesAssumption DEF InvFirst
<1>9. InvOutside'
  <2>1. \A u \in Tests :
          pc'[u] \in {"start", "ingest1", "undo", "stop"} => pc'[u] = pc[u]
    BY <1>1 DEF Using
  <2> QED BY <2>1 DEF InvOutside
<1>10. InvMet' BY <1>1 DEF InvMet, Meet
<1>11. \A u \in Tests : pc'[u] \in {"stop", "stopped"} <=> pc[u] \in {"stop", "stopped"}
  BY <1>1 DEF Using
<1>12. InvLast'
  <2>1. \A u \in Tests : pc'[u] \in Using \cup {"stop", "stopped"}
                           <=> pc[u] \in Using \cup {"stop", "stopped"}
    BY <1>3, <1>11
  <2> QED BY <1>1, <1>11, <2>1 DEF InvLast
<1>13. InvRunning' BY <1>1, <1>3, <1>4 DEF InvRunning
<1>14. InvLeft'
  <2>1. \A u \in Tests : Keeps(u) => Keeps(u)' BY <1>1, <1>3 DEF Keeps, Using
  <2> QED BY <1>1, <2>1 DEF InvLeft, Of
<1> QED BY <1>2, <1>6, <1>7, <1>8, <1>9, <1>10, <1>12, <1>13, <1>14

\* One test of a package is in ensureRunning at a time.
LEMMA OneInStartup ==
  IInv => \A t, u \in Tests :
            pc[t] \in Startup /\ pc[u] \in Startup /\ PackageOf[t] = PackageOf[u] => t = u
BY DEF IInv, InvStartup

\* What every step of ensureRunning keeps.
LEMMA StartupMoves ==
  ASSUME IInv, NEW t \in Tests,
         NEW from \in {"lock"} \cup Startup, NEW to \in {"done"} \cup Startup,
         Goto(t, from, to), UNCHANGED refs,
         \/ from = "lock" /\ to = "first" /\ startupMu[PackageOf[t]] = Nobody
              /\ startupMu' = [startupMu EXCEPT ![PackageOf[t]] = t]
         \/ from \in Startup /\ to \in Startup /\ UNCHANGED startupMu
         \/ from \in Startup /\ to = "done" /\ Unlock(t)
  PROVE  /\ pc[t] = from /\ pc'[t] = to
         /\ \A u \in Tests \ {t} : pc'[u] = pc[u]
         /\ pc' \in [Tests -> PCs]
         /\ met' \in BOOLEAN /\ (met => met')
         /\ \A p \in Packages : Users(p)' = Users(p)
         /\ startupMu' \in [Packages -> Tests \cup {Nobody}]
         /\ InvRefs' /\ InvStartup' /\ InvMet' /\ InvLast'
<1> USE DEF IInv
<1>1. /\ pc[t] = from /\ pc'[t] = to
      /\ \A u \in Tests \ {t} : pc'[u] = pc[u]
      /\ pc' \in [Tests -> PCs]
      /\ met' \in BOOLEAN /\ (met => met')
      /\ ~met' => \A s, u \in Tests : ~Meet(s, u, pc')
  <2>1. from \in PCs /\ to \in PCs BY DEF PCs
  <2> QED BY <2>1, Moves
<1>2. from \notin Using \cup {"stop", "stopped"} /\ to \notin Using \cup {"stop", "stopped"}
  BY DEF Startup, Using
<1>3. \A p \in Packages : Users(p)' = Users(p) BY <1>1, <1>2 DEF Users, Of
<1>4. InvRefs' BY <1>3 DEF InvRefs
<1>5. PackageOf \in [Tests -> Packages] /\ startupMu \in [Packages -> Tests \cup {Nobody}]
  BY PackagesAssumption DEF TypeOK
<1>6. InvStartup' /\ startupMu' \in [Packages -> Tests \cup {Nobody}]
  <2>1. CASE from = "lock"
    <3>1. from \notin Startup /\ to = "first" /\ to \in Startup BY <2>1 DEF Startup
    <3>2. /\ startupMu[PackageOf[t]] = Nobody
          /\ startupMu' = [startupMu EXCEPT ![PackageOf[t]] = t]
      BY <2>1, <3>1
    <3> QED BY <1>1, <1>5, <3>1, <3>2, NobodyAssumption DEF InvStartup
  <2>2. CASE from \in Startup /\ to \in Startup /\ UNCHANGED startupMu
    BY <1>1, <1>5, <2>2 DEF InvStartup
  <2>3. CASE from \in Startup /\ to = "done" /\ Unlock(t)
    <3>1. to \notin Startup BY <2>3 DEF Startup
    <3> QED BY <1>1, <1>5, <2>3, <3>1, NobodyAssumption DEF InvStartup, Unlock
  <2> QED BY <2>1, <2>2, <2>3
<1>7. InvMet' BY <1>1 DEF InvMet, Meet
<1>8. InvLast' BY <1>1, <1>2 DEF InvLast
<1> QED BY <1>1, <1>3, <1>4, <1>6, <1>7, <1>8

\* A test that finds a collector of its own package is not alone in having an
\* interest in it.
LEMMA NotOurs ==
  ASSUME IInv, ~met, ~failed, NEW t \in Tests, pc[t] \in {"health", "undone"}
  PROVE  collector # PackageOf[t]
<1> USE DEF IInv
<1>1. pc[t] \in Startup BY DEF Startup
<1>2. SUFFICES ASSUME collector = PackageOf[t] PROVE FALSE OBVIOUS
<1>3. PICK u \in Of(PackageOf[t]) : Keeps(u)
  BY <1>2, PackagesAssumption DEF InvLeft
<1>4. u \in Tests /\ PackageOf[u] = PackageOf[t] BY DEF Of
<1>5. pc[u] \notin Using BY <1>4 DEF InvFirst, Users
<1>6. u # t BY <1>3, <1>5 DEF Keeps
<1>7. pc[u] \notin Startup BY <1>1, <1>4, <1>6, OneInStartup
<1>8. pc[u] = "stop" BY <1>3, <1>5, <1>7 DEF Keeps, Startup
<1>9. Meet(u, t, pc) BY <1>1, <1>6, <1>8 DEF Meet, Stopping
<1> QED BY <1>4, <1>9 DEF InvMet

LEMMA LockStartupInv ==
  ASSUME IInv, NEW t \in Tests, LockStartup(t)
  PROVE  IInv'
<1> USE DEF IInv, LockStartup
<1>1. "lock" \in {"lock"} \cup Startup /\ "first" \in {"done"} \cup Startup
  BY DEF Startup
<1>2. /\ pc[t] = "lock" /\ pc'[t] = "first"
      /\ \A u \in Tests \ {t} : pc'[u] = pc[u]
      /\ pc' \in [Tests -> PCs]
      /\ met' \in BOOLEAN /\ (met => met')
      /\ \A p \in Packages : Users(p)' = Users(p)
      /\ startupMu' \in [Packages -> Tests \cup {Nobody}]
      /\ InvRefs' /\ InvStartup' /\ InvMet' /\ InvLast'
  BY <1>1, StartupMoves DEF pkgVars
<1>3. UNCHANGED <<collector, refs, started, failed, missed>> BY DEF pkgVars
<1>4. TypeOK' BY <1>2, <1>3 DEF TypeOK
<1>5. InvFirst' BY <1>2, PackagesAssumption DEF InvFirst
<1>6. InvOutside' BY <1>2, <1>3 DEF InvOutside
<1>7. InvRunning' BY <1>2, <1>3 DEF InvRunning, Using
<1>8. InvLeft'
  <2>1. \A u \in Tests : Keeps(u) => Keeps(u)' BY <1>2, <1>3 DEF Keeps, Using
  <2> QED BY <1>2, <1>3, <2>1 DEF InvLeft, Of
<1> QED BY <1>2, <1>4, <1>5, <1>6, <1>7, <1>8

LEMMA ReadRefsInv ==
  ASSUME IInv, NEW t \in Tests, ReadRefs(t)
  PROVE  IInv'
<1> USE DEF IInv, ReadRefs
<1>1. PICK to \in {"health", "count"} :
        /\ Goto(t, "first", to)
        /\ to = IF refs[PackageOf[t]] = 0 THEN "health" ELSE "count"
  BY DEF First
<1>2. "first" \in Startup /\ to \in Startup BY DEF Startup
<1>3. /\ pc[t] = "first" /\ pc'[t] = to
      /\ \A u \in Tests \ {t} : pc'[u] = pc[u]
      /\ pc' \in [Tests -> PCs]
      /\ met' \in BOOLEAN /\ (met => met')
      /\ \A p \in Packages : Users(p)' = Users(p)
      /\ startupMu' \in [Packages -> Tests \cup {Nobody}]
      /\ InvRefs' /\ InvStartup' /\ InvMet' /\ InvLast'
  BY <1>1, <1>2, StartupMoves DEF pkgVars
<1>4. UNCHANGED <<collector, refs, started, failed, missed>> BY DEF pkgVars
<1>5. TypeOK' BY <1>3, <1>4 DEF TypeOK
<1>6. Users(PackageOf[t]) = {} <=> to = "health"
  <2>1. PackageOf[t] \in Packages BY PackagesAssumption
  <2>2. Cardinality(Users(PackageOf[t])) = 0 <=> Users(PackageOf[t]) = {}
    BY <2>1, UsersFinite, FS_EmptySet
  <2> QED BY <1>1, <2>1, <2>2 DEF InvRefs
<1>7. InvFirst' BY <1>3, <1>6, PackagesAssumption DEF InvFirst
<1>8. InvOutside' BY <1>3, <1>4 DEF InvOutside
<1>9. InvRunning'
  <2>1. to = "count" => \E u \in Tests : pc[u] \in Using BY <1>6 DEF Users, Of
  <2> QED BY <1>3, <1>4, <2>1 DEF InvRunning, Using
<1>10. InvLeft'
  <2>1. \A u \in Tests : Keeps(u) => Keeps(u)' BY <1>3, <1>4 DEF Keeps, Using
  <2> QED BY <1>3, <1>4, <2>1 DEF InvLeft, Of
<1> QED BY <1>3, <1>5, <1>7, <1>8, <1>9, <1>10

LEMMA HealthInv ==
  ASSUME IInv, NEW t \in Tests, Health(t)
  PROVE  IInv'
<1> USE DEF IInv
<1>1. PICK to \in {"start", "ingest0"} :
        /\ Goto(t, "health", to)
        /\ to = "ingest0" =>
             /\ collector # Nobody /\ missed' = missed
             /\ started' = [started EXCEPT ![PackageOf[t]] = FALSE]
        /\ to = "start" =>
             /\ started' = started
             /\ missed' = IF collector = Nobody THEN missed ELSE missed \cup {PackageOf[t]}
  BY DEF Health, FoundRunning
<1>2. "health" \in Startup /\ to \in Startup BY DEF Startup
<1>3. UNCHANGED <<collector, refs, startupMu, ingestMu, late, failed>> BY DEF Health
<1>4. /\ pc[t] = "health" /\ pc'[t] = to
      /\ \A u \in Tests \ {t} : pc'[u] = pc[u]
      /\ pc' \in [Tests -> PCs]
      /\ met' \in BOOLEAN /\ (met => met')
      /\ \A p \in Packages : Users(p)' = Users(p)
      /\ startupMu' \in [Packages -> Tests \cup {Nobody}]
      /\ InvRefs' /\ InvStartup' /\ InvMet' /\ InvLast'
  BY <1>1, <1>2, <1>3, StartupMoves
<1>5. PackageOf[t] \in Packages BY PackagesAssumption
<1>6. TypeOK' BY <1>1, <1>3, <1>4, <1>5 DEF TypeOK
<1>7. InvFirst' BY <1>4, PackagesAssumption DEF InvFirst
<1>8. InvOutside'
  <2>1. CASE to = "ingest0"
    <3>1. \A p \in Packages : started'[p] => started[p] BY <1>1, <2>1 DEF TypeOK
    <3> QED BY <1>1, <1>3, <1>4, <2>1, <3>1 DEF InvOutside
  <2>2. CASE to = "start"
    <3>1. missed \subseteq missed' BY <1>1, <2>2
    <3>2. collector = "outside" => PackageOf[t] \in missed'
      BY <1>1, <2>2, NobodyAssumption
    <3> QED BY <1>1, <1>3, <1>4, <2>2, <3>1, <3>2 DEF InvOutside
  <2> QED BY <2>1, <2>2
<1>9. InvRunning' BY <1>1, <1>3, <1>4 DEF InvRunning, Using
<1>10. InvLeft'
  <2>1. \A u \in Tests : Keeps(u) => Keeps(u)' BY <1>4 DEF Keeps, Using
  <2>2. ~met /\ ~failed => collector # PackageOf[t] BY <1>4, NotOurs
  <2>3. \A p \in Packages : p # PackageOf[t] => started'[p] = started[p]
    BY <1>1 DEF TypeOK
  <2> QED BY <1>3, <1>4, <2>1, <2>2, <2>3 DEF InvLeft, Of
<1> QED BY <1>4, <1>6, <1>7, <1>8, <1>9, <1>10

LEMMA StartCollectorInv ==
  ASSUME IInv, NEW t \in Tests, StartCollector(t)
  PROVE  IInv'
<1> USE DEF IInv
<1>1. "start" \in Startup /\ "ingest1" \in Startup BY DEF Startup
<1>2. /\ Goto(t, "start", "ingest1")
      /\ collector' = IF collector = Nobody THEN PackageOf[t] ELSE collector
      /\ started' = [started EXCEPT ![PackageOf[t]] = TRUE]
      /\ UNCHANGED <<refs, startupMu, ingestMu, late, failed, missed>>
  BY DEF StartCollector
<1>3. /\ pc[t] = "start" /\ pc'[t] = "ingest1"
      /\ \A u \in Tests \ {t} : pc'[u] = pc[u]
      /\ pc' \in [Tests -> PCs]
      /\ met' \in BOOLEAN /\ (met => met')
      /\ \A p \in Packages : Users(p)' = Users(p)
      /\ startupMu' \in [Packages -> Tests \cup {Nobody}]
      /\ InvRefs' /\ InvStartup' /\ InvMet' /\ InvLast'
  BY <1>1, <1>2, StartupMoves
<1>4. PackageOf[t] \in Packages /\ t \in Of(PackageOf[t]) BY PackagesAssumption DEF Of
<1>5. TypeOK' BY <1>2, <1>3, <1>4 DEF TypeOK
<1>6. InvFirst' BY <1>3, PackagesAssumption DEF InvFirst
<1>7. \A p \in Packages : started'[p] <=> p = PackageOf[t] \/ started[p]
  BY <1>2 DEF TypeOK
<1>8. InvOutside'
  <2>1. collector' = "outside" => collector = "outside"
    BY <1>2, <1>4, OutsideAssumption
  <2>2. collector = "outside" => PackageOf[t] \in missed BY <1>3 DEF InvOutside
  <2> QED BY <1>2, <1>3, <1>7, <2>1, <2>2 DEF InvOutside
<1>9. InvRunning'
  <2>1. collector' # Nobody BY <1>2, <1>4, NobodyAssumption
  <2> QED BY <2>1 DEF InvRunning
<1>10. InvLeft'
  <2>1. Keeps(t)' BY <1>3 DEF Keeps
  <2>2. \A u \in Tests : Keeps(u) => Keeps(u)' BY <1>3, <2>1 DEF Keeps
  <2>3. collector' = PackageOf[t] \/ collector' = collector BY <1>2
  <2> QED BY <1>2, <1>3, <1>4, <1>7, <2>1, <2>2, <2>3 DEF InvLeft, Of
<1> QED BY <1>3, <1>5, <1>6, <1>8, <1>9, <1>10

LEMMA StartCollectorFailsInv ==
  ASSUME IInv, NEW t \in Tests, StartCollectorFails(t)
  PROVE  IInv'
<1> USE DEF IInv, StartCollectorFails
<1>1. "start" \in Startup BY DEF Startup
<1>2. /\ pc[t] = "start" /\ pc'[t] = "done"
      /\ \A u \in Tests \ {t} : pc'[u] = pc[u]
      /\ pc' \in [Tests -> PCs]
      /\ met' \in BOOLEAN /\ (met => met')
      /\ \A p \in Packages : Users(p)' = Users(p)
      /\ startupMu' \in [Packages -> Tests \cup {Nobody}]
      /\ InvRefs' /\ InvStartup' /\ InvMet' /\ InvLast'
  BY <1>1, StartupMoves DEF pkgVars
<1>3. /\ PackageOf[t] \in Packages
      /\ UNCHANGED <<refs, started, missed>> /\ failed' = TRUE
      /\ \/ collector' = collector
         \/ collector = Nobody /\ collector' = PackageOf[t]
  <2>1. PackageOf[t] \in Packages BY PackagesAssumption
  <2>2. collector' \in {collector, IF collector = Nobody THEN PackageOf[t] ELSE collector}
    OBVIOUS
  <2> QED BY <2>1, <2>2 DEF pkgVars
<1>4. TypeOK' BY <1>2, <1>3 DEF TypeOK
<1>5. InvFirst' BY <1>2, PackagesAssumption DEF InvFirst
<1>6. InvOutside' BY <1>2, <1>3, OutsideAssumption DEF InvOutside
<1>7. InvRunning' BY <1>2, <1>3, NobodyAssumption DEF InvRunning, Using
<1>8. InvLeft' BY <1>3 DEF InvLeft
<1> QED BY <1>2, <1>4, <1>5, <1>6, <1>7, <1>8

LEMMA FirstIngestInv ==
  ASSUME IInv, NEW t \in Tests, FirstIngest(t)
  PROVE  IInv'
<1> USE DEF IInv
<1>1. PICK from \in {"ingest0", "ingest1"}, to \in {"count", "undo", "done"} :
        /\ Goto(t, from, to)
        /\ to # "done" => UNCHANGED startupMu
        /\ to = "done" => Unlock(t)
        /\ to = "undo" => from = "ingest1"
        /\ to = "done" => from = "ingest0"
  BY DEF FirstIngest
<1>2. /\ from \in Startup /\ to \in {"done"} \cup Startup
      /\ to # "done" => to \in Startup
  BY DEF Startup
<1>3. UNCHANGED <<collector, refs, started, ingestMu, late, failed, missed>>
  BY DEF FirstIngest, pkgVars
<1>4. /\ pc[t] = from /\ pc'[t] = to
      /\ \A u \in Tests \ {t} : pc'[u] = pc[u]
      /\ pc' \in [Tests -> PCs]
      /\ met' \in BOOLEAN /\ (met => met')
      /\ \A p \in Packages : Users(p)' = Users(p)
      /\ startupMu' \in [Packages -> Tests \cup {Nobody}]
      /\ InvRefs' /\ InvStartup' /\ InvMet' /\ InvLast'
  BY <1>1, <1>2, <1>3, StartupMoves
<1>5. TypeOK' BY <1>3, <1>4 DEF TypeOK
<1>6. InvFirst' BY <1>4, PackagesAssumption DEF InvFirst
<1>7. InvOutside' BY <1>1, <1>3, <1>4 DEF InvOutside
<1>8. InvRunning' BY <1>3, <1>4 DEF InvRunning, Using
<1>9. InvLeft'
  <2>1. \A u \in Tests : Keeps(u) => Keeps(u)' BY <1>1, <1>3, <1>4 DEF Keeps, Using
  <2> QED BY <1>3, <1>4, <2>1 DEF InvLeft, Of
<1> QED BY <1>4, <1>5, <1>6, <1>7, <1>8, <1>9

\* A stop that meets nobody leaves nobody without the collector.
LEMMA StopsAlone ==
  ASSUME IInv, ~met, NEW t \in Tests, pc[t] \in {"undo", "stop"}, NEW u \in Tests, u # t
  PROVE  pc[u] \notin Using \cup {"ingest0", "ingest1", "count"}
<1> USE DEF IInv
<1>1. pc[t] \in Stopping /\ ~Meet(t, u, pc) BY DEF InvMet, Stopping
<1>2. pc[u] \notin {"ingest0", "ingest1", "count"} BY <1>1 DEF Meet, Startup
<1>3. CASE PackageOf[t] # PackageOf[u] BY <1>1, <1>2, <1>3 DEF Meet
<1>4. CASE PackageOf[t] = PackageOf[u]
  <2>1. CASE pc[t] = "undo" BY <1>2, <1>4, <2>1 DEF InvFirst, Users, Of
  <2>2. CASE pc[t] = "stop" BY <1>2, <1>4, <2>2 DEF InvLast
  <2> QED BY <2>1, <2>2
<1> QED BY <1>3, <1>4

LEMMA UndoInv ==
  ASSUME IInv, NEW t \in Tests, Undo(t)
  PROVE  IInv'
<1> USE DEF IInv
<1>1. "undo" \in Startup /\ "undone" \in Startup BY DEF Startup
<1>2. /\ Goto(t, "undo", "undone")
      /\ UNCHANGED <<refs, started, startupMu, ingestMu, late, missed>>
      /\ \/ collector' = Nobody /\ failed' = failed
         \/ collector' \in {collector, Nobody} /\ failed' = TRUE
  BY DEF Undo, Stop, StopFails, pkgVars
<1>3. /\ pc[t] = "undo" /\ pc'[t] = "undone"
      /\ \A u \in Tests \ {t} : pc'[u] = pc[u]
      /\ pc' \in [Tests -> PCs]
      /\ met' \in BOOLEAN /\ (met => met')
      /\ \A p \in Packages : Users(p)' = Users(p)
      /\ startupMu' \in [Packages -> Tests \cup {Nobody}]
      /\ InvRefs' /\ InvStartup' /\ InvMet' /\ InvLast'
  BY <1>1, <1>2, StartupMoves
<1>4. TypeOK' BY <1>2, <1>3 DEF TypeOK
<1>5. InvFirst' BY <1>3, PackagesAssumption DEF InvFirst
<1>6. InvOutside' BY <1>2, <1>3, NobodyAssumption DEF InvOutside
<1>7. InvRunning'
  <2>1. ~met => \A u \in Tests \ {t} : pc[u] \notin Using \cup {"ingest0", "ingest1", "count"}
    BY <1>3, StopsAlone
  <2> QED BY <1>3, <2>1 DEF InvRunning, Using
<1>8. InvLeft' BY <1>2, NobodyAssumption DEF InvLeft
<1> QED BY <1>3, <1>4, <1>5, <1>6, <1>7, <1>8

LEMMA SkipInv ==
  ASSUME IInv, NEW t \in Tests, Skip(t)
  PROVE  IInv'
<1> USE DEF IInv, Skip
<1>1. "undone" \in Startup BY DEF Startup
<1>2. /\ pc[t] = "undone" /\ pc'[t] = "done"
      /\ \A u \in Tests \ {t} : pc'[u] = pc[u]
      /\ pc' \in [Tests -> PCs]
      /\ met' \in BOOLEAN /\ (met => met')
      /\ \A p \in Packages : Users(p)' = Users(p)
      /\ startupMu' \in [Packages -> Tests \cup {Nobody}]
      /\ InvRefs' /\ InvStartup' /\ InvMet' /\ InvLast'
  BY <1>1, StartupMoves
<1>3. TypeOK' BY <1>2 DEF TypeOK
<1>4. InvFirst' BY <1>2, PackagesAssumption DEF InvFirst
<1>5. InvOutside' BY <1>2 DEF InvOutside, TypeOK
<1>6. InvRunning' BY <1>2 DEF InvRunning, Using
<1>7. InvLeft'
  <2>1. \A u \in Tests : Keeps(u) => Keeps(u)' BY <1>2 DEF Keeps, Using
  <2>2. ~met /\ ~failed => collector # PackageOf[t] BY <1>2, NotOurs
  <2>3. \A p \in Packages : p # PackageOf[t] => started'[p] = started[p]
    BY DEF TypeOK
  <2> QED BY <1>2, <2>1, <2>2, <2>3 DEF InvLeft, Of
<1> QED BY <1>2, <1>3, <1>4, <1>5, <1>6, <1>7

LEMMA CountInv ==
  ASSUME IInv, NEW t \in Tests, Count(t)
  PROVE  IInv'
<1> USE DEF IInv
<1>1. "count" \in Startup /\ "count" \in PCs /\ "use" \in PCs
      /\ "use" \notin Startup /\ "use" \in Using /\ "count" \notin Using
  BY DEF Startup, PCs, Using
<1>2. /\ Goto(t, "count", "use") /\ Unlock(t)
      /\ refs' = [refs EXCEPT ![PackageOf[t]] = @ + 1]
      /\ UNCHANGED <<collector, started, ingestMu, late, failed, missed>>
  BY DEF Count, Counted
<1>3. /\ pc[t] = "count" /\ pc'[t] = "use"
      /\ \A u \in Tests \ {t} : pc'[u] = pc[u]
      /\ pc' \in [Tests -> PCs]
      /\ met' \in BOOLEAN /\ (met => met')
      /\ ~met' => \A s, u \in Tests : ~Meet(s, u, pc')
  BY <1>1, <1>2, Moves
<1>4. PICK p \in Packages : p = PackageOf[t] BY PackagesAssumption
<1>5. /\ Users(p)' = Users(p) \cup {t} /\ t \notin Users(p)
      /\ \A q \in Packages \ {p} : Users(q)' = Users(q)
  BY <1>1, <1>3, <1>4 DEF Users, Of
<1>6. Cardinality(Users(p)') = Cardinality(Users(p)) + 1
  BY <1>5, UsersFinite, FS_AddElement
<1>7. InvRefs'
  <2>1. refs'[p] = refs[p] + 1 BY <1>2, <1>4 DEF TypeOK
  <2>2. \A q \in Packages \ {p} : refs'[q] = refs[q] BY <1>2, <1>4 DEF TypeOK
  <2> QED BY <1>5, <1>6, <2>1, <2>2 DEF InvRefs
<1>8. TypeOK'
  <2>1. \A q \in Packages : refs'[q] \in 0..Cardinality(Tests)
    <3>1. \A q \in Packages : Cardinality(Users(q)') \in 0..Cardinality(Tests)
      <4>1. \A q \in Packages : Users(q)' \subseteq Tests BY DEF Users, Of
      <4>2. Cardinality(Tests) \in Nat BY TestsAssumption, FS_CardinalityType
      <4> QED BY <4>1, <4>2, TestsAssumption, FS_Subset, FS_CardinalityType
    <3> QED BY <1>7, <3>1 DEF InvRefs
  <2>2. refs' \in [Packages -> 0..Cardinality(Tests)] BY <1>2, <2>1 DEF TypeOK
  <2> QED BY <1>2, <1>3, <2>2 DEF TypeOK, Unlock
<1>9. InvStartup'
  <2>1. PackageOf \in [Tests -> Packages] /\ startupMu \in [Packages -> Tests \cup {Nobody}]
    BY PackagesAssumption DEF TypeOK
  <2> QED BY <1>1, <1>2, <1>3, <2>1, NobodyAssumption DEF InvStartup, Unlock
<1>10. \A u \in Tests : u # t /\ PackageOf[u] = p => pc[u] \notin Startup
  BY <1>1, <1>3, <1>4, OneInStartup
<1>11. InvFirst'
  <2>1. \A u \in Tests :
          pc'[u] \in {"health", "start", "ingest0", "ingest1", "undo", "undone"} =>
            pc'[u] = pc[u] /\ PackageOf[u] # p
    BY <1>3, <1>4, <1>10 DEF Startup
  <2> QED BY <1>5, <2>1, PackagesAssumption DEF InvFirst
<1>12. InvOutside' BY <1>2, <1>3 DEF InvOutside
<1>13. InvMet' BY <1>3 DEF InvMet, Meet
<1>14. InvLast'
  <2>1. ~met => \A s \in Tests \ {t} : pc[s] \notin {"stop", "stopped"}
    BY <1>1, <1>3 DEF InvMet, Meet, Stopping
  <2> QED BY <1>3, <2>1 DEF InvLast
<1>15. InvRunning' BY <1>2, <1>3 DEF InvRunning, Using
<1>16. InvLeft'
  <2>1. \A u \in Tests : Keeps(u) => Keeps(u)' BY <1>1, <1>2, <1>3 DEF Keeps
  <2> QED BY <1>2, <1>3, <2>1 DEF InvLeft, Of
<1> QED BY <1>7, <1>8, <1>9, <1>11, <1>12, <1>13, <1>14, <1>15, <1>16

LEMMA ReleaseInv ==
  ASSUME IInv, NEW t \in Tests, Release(t)
  PROVE  IInv'
<1> USE DEF IInv
<1>1. PICK p \in Packages : p = PackageOf[t] BY PackagesAssumption
<1>2. PICK to \in {"stop", "done"} :
        /\ Goto(t, "close", to)
        /\ to = IF refs[p] - 1 = 0 /\ started[p] THEN "stop" ELSE "done"
  BY <1>1 DEF Release, ShouldStop
<1>3. /\ refs' = [refs EXCEPT ![p] = @ - 1]
      /\ UNCHANGED <<collector, started, startupMu, ingestMu, late, failed, missed>>
  BY <1>1 DEF Release
<1>4. /\ "close" \in PCs \cap Using /\ "close" \notin Startup
      /\ to \in PCs /\ to \notin Startup \cup Using
  BY DEF PCs, Stopping, Using, Startup
<1>5. /\ pc[t] = "close" /\ pc'[t] = to
      /\ \A u \in Tests \ {t} : pc'[u] = pc[u]
      /\ pc' \in [Tests -> PCs]
      /\ met' \in BOOLEAN /\ (met => met')
      /\ ~met' => \A s, u \in Tests : ~Meet(s, u, pc')
  BY <1>2, <1>4, Moves
<1>6. /\ Users(p)' = Users(p) \ {t} /\ t \in Users(p)
      /\ \A q \in Packages \ {p} : Users(q)' = Users(q)
  BY <1>1, <1>4, <1>5 DEF Users, Of
<1>7. /\ Cardinality(Users(p)') = Cardinality(Users(p)) - 1
      /\ IsFiniteSet(Users(p)')
  BY <1>6, UsersFinite, FS_RemoveElement
<1>8. InvRefs'
  <2>1. refs'[p] = refs[p] - 1 BY <1>3 DEF TypeOK
  <2>2. \A q \in Packages \ {p} : refs'[q] = refs[q] BY <1>3 DEF TypeOK
  <2> QED BY <1>6, <1>7, <2>1, <2>2 DEF InvRefs
<1>9. TypeOK'
  <2>1. refs[p] - 1 \in 0..Cardinality(Tests)
    <3>1. refs[p] - 1 = Cardinality(Users(p)') BY <1>7 DEF InvRefs
    <3>2. refs[p] - 1 \in Nat BY <1>7, <3>1, FS_CardinalityType
    <3>3. refs[p] \in 0..Cardinality(Tests) BY DEF TypeOK
    <3>4. Cardinality(Tests) \in Nat BY TestsAssumption, FS_CardinalityType
    <3> QED BY <3>2, <3>3, <3>4
  <2>2. refs' \in [Packages -> 0..Cardinality(Tests)] BY <1>3, <2>1 DEF TypeOK
  <2> QED BY <1>3, <1>5, <2>2 DEF TypeOK
<1>10. InvStartup' BY <1>3, <1>4, <1>5 DEF InvStartup
<1>11. InvFirst' BY <1>2, <1>5, <1>6, PackagesAssumption DEF InvFirst
<1>12. InvOutside' BY <1>1, <1>2, <1>3, <1>5 DEF InvOutside
<1>13. InvMet' BY <1>5 DEF InvMet, Meet
<1>14. refs[p] - 1 = 0 <=> Users(p)' = {}
  BY <1>7, FS_EmptySet DEF InvRefs
<1>15. InvLast'
  <2>1. ~met => \A s \in Tests \ {t} :
                  PackageOf[s] = p => pc[s] \notin {"stop", "stopped"}
    BY <1>1, <1>4, <1>5 DEF InvLast
  <2>2. to = "stop" => \A s \in Tests : PackageOf[s] = p => pc'[s] \notin Using
    BY <1>2, <1>14 DEF Users, Of
  <2>3. to \notin Using BY <1>4
  <2> QED BY <1>1, <1>2, <1>5, <2>1, <2>2, <2>3 DEF InvLast
<1>16. InvRunning' BY <1>2, <1>3, <1>4, <1>5 DEF InvRunning
<1>17. InvLeft'
  <2>1. \A u \in Tests \ {t} : Keeps(u) => Keeps(u)' BY <1>3, <1>5 DEF Keeps
  <2>2. started[p] /\ Users(p)' # {} => \E u \in Of(p) : Keeps(u)'
    BY DEF Users, Keeps
  <2>3. started[p] /\ Users(p)' = {} => t \in Of(p) /\ Keeps(t)'
    BY <1>1, <1>2, <1>5, <1>14 DEF Keeps, Of
  <2>4. \A q \in Packages \ {p} : t \notin Of(q) BY <1>1 DEF Of
  <2>5. \A q \in Packages : Of(q)' = Of(q) /\ Of(q) \subseteq Tests BY DEF Of
  <2>6. ASSUME ~met', ~failed', NEW q \in Packages, collector' = q
        PROVE  started'[q] /\ \E u \in Of(q) : Keeps(u)'
    <3>1. started[q] /\ \E u \in Of(q) : Keeps(u) BY <1>3, <1>5, <2>6 DEF InvLeft
    <3>2. CASE q = p BY <1>3, <2>2, <2>3, <3>1, <3>2
    <3>3. CASE q # p BY <1>3, <2>1, <2>4, <2>5, <3>1, <3>3
    <3> QED BY <3>2, <3>3
  <2> QED BY <2>5, <2>6 DEF InvLeft
<1> QED BY <1>8, <1>9, <1>10, <1>11, <1>12, <1>13, <1>15, <1>16, <1>17

LEMMA StopCollectorInv ==
  ASSUME IInv, NEW t \in Tests, StopCollector(t)
  PROVE  IInv'
<1> USE DEF IInv
<1>1. PICK to \in {"stopped", "done"} :
        /\ Goto(t, "stop", to)
        /\ \/ collector' = Nobody /\ failed' = failed
           \/ collector' \in {collector, Nobody} /\ failed' = TRUE
  BY DEF StopCollector, Stop, StopFails
<1>2. UNCHANGED <<refs, started, startupMu, ingestMu, late, missed>>
  BY DEF StopCollector, pkgVars
<1>3. /\ "stop" \in PCs /\ "stop" \notin Startup \cup Using
      /\ to \in PCs /\ to \notin Startup \cup Using
  BY DEF PCs, Stopping, Using, Startup
<1>4. /\ pc[t] = "stop" /\ pc'[t] = to
      /\ \A u \in Tests \ {t} : pc'[u] = pc[u]
      /\ pc' \in [Tests -> PCs]
      /\ met' \in BOOLEAN /\ (met => met')
      /\ ~met' => \A s, u \in Tests : ~Meet(s, u, pc')
  BY <1>1, <1>3, Moves
<1>5. \A p \in Packages : Users(p)' = Users(p) BY <1>3, <1>4 DEF Users, Of
<1>6. TypeOK' BY <1>1, <1>2, <1>4 DEF TypeOK
<1>7. InvRefs' BY <1>2, <1>5 DEF InvRefs
<1>8. InvStartup' BY <1>2, <1>3, <1>4 DEF InvStartup
<1>9. InvFirst' BY <1>1, <1>4, <1>5, PackagesAssumption DEF InvFirst
<1>10. InvOutside' BY <1>1, <1>2, <1>4, NobodyAssumption DEF InvOutside
<1>11. InvMet' BY <1>4 DEF InvMet, Meet
<1>12. InvLast' BY <1>3, <1>4 DEF InvLast
<1>13. InvRunning'
  <2>1. ~met => \A u \in Tests \ {t} : pc[u] \notin Using \cup {"ingest0", "ingest1", "count"}
    BY <1>4, StopsAlone
  <2> QED BY <1>1, <1>3, <1>4, <2>1 DEF InvRunning
<1>14. InvLeft' BY <1>1, NobodyAssumption DEF InvLeft
<1> QED BY <1>6, <1>7, <1>8, <1>9, <1>10, <1>11, <1>12, <1>13, <1>14

LEMMA StoppedInv ==
  ASSUME IInv, NEW t \in Tests, Stopped(t)
  PROVE  IInv'
<1> USE DEF IInv
<1>1. /\ Goto(t, "stopped", "done")
      /\ started' = [started EXCEPT ![PackageOf[t]] = FALSE]
      /\ UNCHANGED <<collector, refs, startupMu, ingestMu, late, failed, missed>>
  BY DEF Stopped
<1>2. /\ "stopped" \in PCs /\ "stopped" \notin Startup \cup Using
      /\ "done" \in PCs /\ "done" \notin Startup \cup Using
  BY DEF PCs, Stopping, Using, Startup
<1>3. /\ pc[t] = "stopped" /\ pc'[t] = "done"
      /\ \A u \in Tests \ {t} : pc'[u] = pc[u]
      /\ pc' \in [Tests -> PCs]
      /\ met' \in BOOLEAN /\ (met => met')
      /\ ~met' => \A s, u \in Tests : ~Meet(s, u, pc')
  BY <1>1, <1>2, Moves
<1>4. \A p \in Packages : Users(p)' = Users(p) BY <1>2, <1>3 DEF Users, Of
<1>5. TypeOK' BY <1>1, <1>3 DEF TypeOK
<1>6. InvRefs' BY <1>1, <1>4 DEF InvRefs
<1>7. InvStartup' BY <1>1, <1>2, <1>3 DEF InvStartup
<1>8. InvFirst' BY <1>3, <1>4, PackagesAssumption DEF InvFirst
<1>9. InvOutside' BY <1>1, <1>3 DEF InvOutside, TypeOK
<1>10. InvMet' BY <1>3 DEF InvMet, Meet
<1>11. InvLast' BY <1>2, <1>3 DEF InvLast
<1>12. InvRunning' BY <1>1, <1>2, <1>3 DEF InvRunning
<1>13. InvLeft'
  <2>1. ASSUME ~met, ~failed, collector = PackageOf[t] PROVE FALSE
    <3>1. PICK u \in Of(PackageOf[t]) : Keeps(u)
      BY <2>1, PackagesAssumption DEF InvLeft
    <3>2. u \in Tests /\ PackageOf[u] = PackageOf[t] BY DEF Of
    <3>3. u # t BY <1>2, <1>3, <3>1 DEF Keeps
    <3>4. pc[u] \notin Using \cup {"stop"} BY <1>3, <2>1, <3>2, <3>3 DEF InvLast
    <3>5. pc[u] \in Startup BY <3>1, <3>4 DEF Keeps, Startup
    <3>6. Meet(t, u, pc) BY <1>3, <3>3, <3>5 DEF Meet, Stopping
    <3> QED BY <2>1, <3>2, <3>6 DEF InvMet
  <2>2. \A u \in Tests : Keeps(u) => Keeps(u)' BY <1>1, <1>2, <1>3 DEF Keeps
  <2>3. \A p \in Packages : p # PackageOf[t] => started'[p] = started[p]
    BY <1>1 DEF TypeOK
  <2> QED BY <1>1, <1>3, <2>1, <2>2, <2>3 DEF InvLeft, Of
<1> QED BY <1>5, <1>6, <1>7, <1>8, <1>9, <1>10, <1>11, <1>12, <1>13

\* Where the tests stay, only the deadlines may pass.
LEMMA StayInv ==
  ASSUME IInv, late' \in [Tests -> BOOLEAN],
         UNCHANGED <<pc, collector, refs, started, startupMu, ingestMu, met, failed, missed>>
  PROVE  IInv'
<1> USE DEF IInv
<1>1. TypeOK' BY DEF TypeOK
<1>2. InvRefs' BY DEF InvRefs, Users, Of
<1>3. InvStartup' BY DEF InvStartup
<1>4. InvFirst' BY DEF InvFirst, Users, Of
<1>5. InvOutside' BY DEF InvOutside
<1>6. InvMet' BY DEF InvMet, Meet
<1>7. InvLast' BY DEF InvLast
<1>8. InvRunning' BY DEF InvRunning
<1>9. InvLeft' BY DEF InvLeft, Of, Keeps
<1> QED BY <1>1, <1>2, <1>3, <1>4, <1>5, <1>6, <1>7, <1>8, <1>9

\* The steps with a helper before it is given back, and those to the lock.
LEMMA QuietStepsInv ==
  ASSUME IInv, NEW t \in Tests,
         Start(t) \/ Test(t) \/ LockIngest(t) \/ Ingest(t) \/ Query(t)
  PROVE  IInv'
<1>1. /\ {"use", "poll", "ingest", "query", "close"} \subseteq PCs \cap Using
      /\ {"idle", "lock", "done"} \subseteq PCs
  BY DEF PCs, Using
<1>2. /\ late \in [Tests -> BOOLEAN]
      /\ ingestMu \in [Packages -> Tests \cup {Nobody}]
  BY DEF IInv, TypeOK
<1>3. CASE Start(t)
  <2>1. UNCHANGED <<collector, refs, started, startupMu, ingestMu, late, failed, missed>>
    BY <1>3 DEF Start, pkgVars
  <2> QED BY <1>1, <1>2, <1>3, <2>1, QuietInv DEF Start
<1>4. CASE Test(t)
  <2>1. UNCHANGED <<collector, refs, started, startupMu, ingestMu, late, failed, missed>>
    BY <1>4 DEF Test, pkgVars
  <2> QED BY <1>1, <1>2, <1>4, <2>1, QuietInv DEF Test
<1>5. CASE LockIngest(t)
  <2>1. UNCHANGED <<collector, refs, started, startupMu, late, failed, missed>>
    BY <1>5 DEF LockIngest, pkgVars
  <2>2. ingestMu' \in [Packages -> Tests \cup {Nobody}] BY <1>2, <1>5 DEF LockIngest
  <2> QED BY <1>1, <1>2, <1>5, <2>1, <2>2, QuietInv DEF LockIngest
<1>6. CASE Ingest(t)
  <2>1. UNCHANGED <<collector, refs, started, startupMu, late, failed, missed>>
    BY <1>6 DEF Ingest, pkgVars
  <2>2. ingestMu' \in [Packages -> Tests \cup {Nobody}] BY <1>2, <1>6 DEF Ingest
  <2> QED BY <1>1, <1>2, <1>6, <2>1, <2>2, QuietInv DEF Ingest
<1>7. CASE Query(t)
  <2>1. UNCHANGED <<collector, refs, started, startupMu, ingestMu, late, failed, missed>>
    BY <1>7 DEF Query, pkgVars
  <2>2. Goto(t, "query", "close") \/ Goto(t, "query", "poll")
    BY <1>7 DEF Query, Again
  <2> QED BY <1>1, <1>2, <2>1, <2>2, QuietInv
<1> QED BY <1>3, <1>4, <1>5, <1>6, <1>7

LEMMA NextInv == IInv /\ [Next]_vars => IInv'
<1> SUFFICES ASSUME IInv, [Next]_vars PROVE IInv' OBVIOUS
<1>1. ASSUME NEW t \in Tests, Step(t) PROVE IInv'
  <2>1. CASE LockStartup(t) BY <2>1, LockStartupInv
  <2>2. CASE ReadRefs(t) BY <2>2, ReadRefsInv
  <2>3. CASE Health(t) BY <2>3, HealthInv
  <2>4. CASE StartCollector(t) BY <2>4, StartCollectorInv
  <2>5. CASE StartCollectorFails(t) BY <2>5, StartCollectorFailsInv
  <2>6. CASE FirstIngest(t) BY <2>6, FirstIngestInv
  <2>7. CASE Undo(t) BY <2>7, UndoInv
  <2>8. CASE Skip(t) BY <2>8, SkipInv
  <2>9. CASE Count(t) BY <2>9, CountInv
  <2>10. CASE Test(t) \/ LockIngest(t) \/ Ingest(t) \/ Query(t) BY <2>10, QuietStepsInv
  <2>11. CASE Release(t) BY <2>11, ReleaseInv
  <2>12. CASE StopCollector(t) BY <2>12, StopCollectorInv
  <2>13. CASE Stopped(t) BY <2>13, StoppedInv
  <2> QED BY <1>1, <2>1, <2>2, <2>3, <2>4, <2>5, <2>6, <2>7, <2>8, <2>9, <2>10,
             <2>11, <2>12, <2>13 DEF Step
<1>2. ASSUME NEW t \in Tests, Start(t) PROVE IInv' BY <1>2, QuietStepsInv
<1>3. ASSUME NEW t \in Tests, Deadline(t) PROVE IInv'
  <2>1. late' \in [Tests -> BOOLEAN] BY <1>3 DEF Deadline, IInv, TypeOK
  <2> QED BY <1>3, <2>1, StayInv DEF Deadline, pkgVars
<1>4. CASE UNCHANGED vars
  <2>1. late' \in [Tests -> BOOLEAN] BY <1>4 DEF vars, IInv, TypeOK
  <2> QED BY <1>4, <2>1, StayInv DEF vars
<1> QED BY <1>1, <1>2, <1>3, <1>4 DEF Next, Finished

-----------------------------------------------------------------------------
\* The invariant the properties below follow from holds of every behaviour, with any
\* number of tests in any number of packages on one machine.
THEOREM Invariance == Spec => []IInv
<1>1. Init => IInv BY InitInv
<1>2. IInv /\ [Next]_vars => IInv' BY NextInv
<1> QED BY <1>1, <1>2, PTL DEF Spec

\* Every variable keeps to its type; pkgRefs never falls below zero.
THEOREM TypeCorrect == Spec => []TypeOK
<1>1. IInv => TypeOK BY DEF IInv
<1> QED BY <1>1, Invariance, PTL

\* A test with a helper has a collector, but for a stop that met somebody
\* (lotelhelper.go:194-234, 267-283).
THEOREM CollectorForUsers == Spec => []RunningWhileUsed
<1>1. IInv => RunningWhileUsed BY DEF IInv, InvRunning, RunningWhileUsed, At
<1> QED BY <1>1, Invariance, PTL

\* The collector a package has started is stopped by its last test, when no start
\* or stop has failed or met anybody (lotelhelper.go:267-283).
THEOREM CollectorIsStopped == Spec => []NothingLeft
<1>1. IInv => NothingLeft
  <2> SUFFICES ASSUME IInv, AllDone, ~met, ~failed
      PROVE  collector \in {Nobody, "outside"}
    BY DEF NothingLeft
  <2>1. \A t \in Tests : ~Keeps(t) BY DEF AllDone, Keeps, Using
  <2> QED BY <2>1 DEF IInv, InvLeft, TypeOK, Of
<1> QED BY <1>1, Invariance, PTL

\* A collector that was there before is stopped by a package that missed it at a
\* failed health check, and by no other step of any test, whatever fails
\* (lotelhelper.go:205-216, 309-312).
THEOREM OutsideIsLeftAlone == Spec => OutsideStoppedOnlyWhenMissed
<1> DEFINE StoppedBy(t) ==
      /\ pc[t] \in {"stop", "undo"} /\ pc'[t] # pc[t]
      /\ PackageOf[t] \in missed
<1> DEFINE Left ==
      collector = "outside" /\ collector' # "outside" => \E t \in Tests : StoppedBy(t)
<1>1. IInv /\ [Next]_vars => [Left]_vars
  <2> SUFFICES ASSUME IInv, [Next]_vars, collector = "outside", collector' # "outside"
      PROVE  \E t \in Tests : StoppedBy(t)
    OBVIOUS
  <2>1. ASSUME NEW t \in Tests, Step(t) \/ Start(t) \/ Deadline(t)
        PROVE  Undo(t) \/ StopCollector(t) \/ collector' = collector
    BY <2>1, NobodyAssumption
       DEF Step, Start, Deadline, LockStartup, ReadRefs, Health, StartCollector,
           StartCollectorFails, FirstIngest, Skip, Count, Test, LockIngest, Ingest,
           Query, Release, Stopped
  <2>2. ~UNCHANGED vars BY DEF vars
  <2>3. PICK t \in Tests : Undo(t) \/ StopCollector(t) BY <2>1, <2>2 DEF Next, Finished
  <2>4. pc \in [Tests -> PCs] BY DEF IInv, TypeOK
  <2>5. pc[t] \in {"stop", "undo"} /\ pc'[t] # pc[t]
    BY <2>3, <2>4 DEF Undo, StopCollector, Goto
  <2>6. PackageOf[t] \in missed BY <2>5 DEF IInv, InvOutside
  <2> QED BY <2>5, <2>6
<1> QED BY <1>1, Invariance, PTL DEF Spec, OutsideStoppedOnlyWhenMissed

-----------------------------------------------------------------------------
(***************************************************************************)
(* Whoever holds a lock is where it is held.                               *)
(***************************************************************************)
\* A lock of a package is held by a test of that package, which is in ensureRunning,
\* or has an ingest under way.
Holds(p) ==
  /\ startupMu[p] # Nobody => startupMu[p] \in Of(p) /\ pc[startupMu[p]] \in Startup
  /\ ingestMu[p] # Nobody => ingestMu[p] \in Of(p) /\ pc[ingestMu[p]] = "ingest"
Held == \A p \in Packages : Holds(p)

LEMMA InitHeld == Init => Held
BY DEF Init, Held, Holds

\* What a step does with the two locks: take it, leave it, or stay where it is held.
StartupLock(t, to) ==
  \/ startupMu' = [startupMu EXCEPT ![PackageOf[t]] = t] /\ to \in Startup
  \/ Unlock(t)
  \/ UNCHANGED startupMu /\ (pc[t] \in Startup => to \in Startup)
IngestLock(t, to) ==
  \/ ingestMu' = [ingestMu EXCEPT ![PackageOf[t]] = t] /\ to = "ingest"
  \/ ingestMu' = [ingestMu EXCEPT ![PackageOf[t]] = Nobody]
  \/ UNCHANGED ingestMu /\ pc[t] # "ingest"

LEMMA LocksMove ==
  ASSUME TypeOK, Held, NEW t \in Tests, NEW to \in PCs, pc' = [pc EXCEPT ![t] = to],
         StartupLock(t, to), IngestLock(t, to)
  PROVE  Held'
<1> SUFFICES ASSUME NEW p \in Packages PROVE Holds(p)' BY DEF Held
<1>1. Holds(p) BY DEF Held
<1>2. /\ startupMu \in [Packages -> Tests \cup {Nobody}]
      /\ ingestMu \in [Packages -> Tests \cup {Nobody}]
      /\ PackageOf \in [Tests -> Packages]
  BY PackagesAssumption DEF TypeOK
<1>3. pc'[t] = to /\ \A u \in Tests \ {t} : pc'[u] = pc[u] BY DEF TypeOK
<1>4. Of(p)' = Of(p) /\ \A u \in Of(p) : u \in Tests /\ PackageOf[u] = p BY DEF Of
<1>5. startupMu'[p] # Nobody => startupMu'[p] \in Of(p) /\ pc'[startupMu'[p]] \in Startup
  <2>1. CASE startupMu' = [startupMu EXCEPT ![PackageOf[t]] = t] /\ to \in Startup
    <3>1. CASE p = PackageOf[t] BY <1>2, <1>3, <2>1, <3>1 DEF Of
    <3>2. CASE p # PackageOf[t]
      <4>1. startupMu'[p] = startupMu[p] BY <1>2, <2>1, <3>2
      <4> QED BY <1>1, <1>3, <1>4, <3>2, <4>1 DEF Holds
    <3> QED BY <3>1, <3>2
  <2>2. CASE Unlock(t)
    <3>1. CASE p = PackageOf[t] BY <1>2, <2>2, <3>1 DEF Unlock
    <3>2. CASE p # PackageOf[t]
      <4>1. startupMu'[p] = startupMu[p] BY <1>2, <2>2, <3>2 DEF Unlock
      <4> QED BY <1>1, <1>3, <1>4, <3>2, <4>1 DEF Holds
    <3> QED BY <3>1, <3>2
  <2>3. CASE UNCHANGED startupMu /\ (pc[t] \in Startup => to \in Startup)
    BY <1>1, <1>3, <1>4, <2>3 DEF Holds
  <2> QED BY <2>1, <2>2, <2>3 DEF StartupLock
<1>6. ingestMu'[p] # Nobody => ingestMu'[p] \in Of(p) /\ pc'[ingestMu'[p]] = "ingest"
  <2>1. CASE ingestMu' = [ingestMu EXCEPT ![PackageOf[t]] = t] /\ to = "ingest"
    <3>1. CASE p = PackageOf[t] BY <1>2, <1>3, <2>1, <3>1 DEF Of
    <3>2. CASE p # PackageOf[t]
      <4>1. ingestMu'[p] = ingestMu[p] BY <1>2, <2>1, <3>2
      <4> QED BY <1>1, <1>3, <1>4, <3>2, <4>1 DEF Holds
    <3> QED BY <3>1, <3>2
  <2>2. CASE ingestMu' = [ingestMu EXCEPT ![PackageOf[t]] = Nobody]
    <3>1. CASE p = PackageOf[t] BY <1>2, <2>2, <3>1
    <3>2. CASE p # PackageOf[t]
      <4>1. ingestMu'[p] = ingestMu[p] BY <1>2, <2>2, <3>2
      <4> QED BY <1>1, <1>3, <1>4, <3>2, <4>1 DEF Holds
    <3> QED BY <3>1, <3>2
  <2>3. CASE UNCHANGED ingestMu /\ pc[t] # "ingest"
    BY <1>1, <1>3, <1>4, <2>3 DEF Holds
  <2> QED BY <2>1, <2>2, <2>3 DEF IngestLock
<1> QED BY <1>4, <1>5, <1>6 DEF Holds

LEMMA StepHeld == TypeOK /\ Held /\ [Next]_vars => Held'
<1> SUFFICES ASSUME TypeOK, Held, [Next]_vars PROVE Held' OBVIOUS
<1>1. ASSUME NEW t \in Tests, Start(t) \/ Step(t) PROVE Held'
  <2>1. \E to \in PCs :
          pc' = [pc EXCEPT ![t] = to] /\ StartupLock(t, to) /\ IngestLock(t, to)
    <3> USE DEF Goto, PCs, Startup, Using, Stopping, StartupLock, IngestLock
    <3>1. CASE Start(t) BY <3>1 DEF Start
    <3>2. CASE LockStartup(t) BY <3>2 DEF LockStartup
    <3>3. CASE ReadRefs(t) BY <3>3 DEF ReadRefs
    <3>4. CASE Health(t) BY <3>4 DEF Health
    <3>5. CASE StartCollector(t) BY <3>5 DEF StartCollector
    <3>6. CASE StartCollectorFails(t) BY <3>6 DEF StartCollectorFails
    <3>7. CASE FirstIngest(t) BY <3>7 DEF FirstIngest
    <3>8. CASE Undo(t) BY <3>8 DEF Undo
    <3>9. CASE Skip(t) BY <3>9 DEF Skip
    <3>10. CASE Count(t) BY <3>10 DEF Count
    <3>11. CASE Test(t) BY <3>11 DEF Test
    <3>12. CASE LockIngest(t) BY <3>12 DEF LockIngest
    <3>13. CASE Ingest(t) BY <3>13 DEF Ingest
    <3>14. CASE Query(t) BY <3>14 DEF Query, Again
    <3>15. CASE Release(t) BY <3>15 DEF Release
    <3>16. CASE StopCollector(t) BY <3>16 DEF StopCollector
    <3>17. CASE Stopped(t) BY <3>17 DEF Stopped
    <3> QED BY <1>1, <3>1, <3>2, <3>3, <3>4, <3>5, <3>6, <3>7, <3>8, <3>9, <3>10,
               <3>11, <3>12, <3>13, <3>14, <3>15, <3>16, <3>17 DEF Step
  <2> QED BY <2>1, LocksMove
<1>2. ASSUME UNCHANGED <<pc, startupMu, ingestMu>> PROVE Held'
  BY <1>2 DEF Held, Holds, Of
<1>3. ASSUME NEW t \in Tests, Deadline(t) PROVE Held' BY <1>2, <1>3 DEF Deadline
<1>4. CASE UNCHANGED vars BY <1>2, <1>4 DEF vars
<1> QED BY <1>1, <1>3, <1>4 DEF Next, Finished

\* Nobody waits for somebody who waits: whoever is kept from startupMu is kept by a
\* test in ensureRunning, from ingestMu by one with an ingest under way, and each of
\* these is at a command with a timeout, for no other lock (lotelhelper.go:97-104,
\* 194-232).
WaitersAreServed ==
  \A t \in Tests : LET p == PackageOf[t] IN
    /\ pc[t] = "lock" /\ startupMu[p] # Nobody =>
         startupMu[p] \in Of(p) /\ pc[startupMu[p]] \in Startup
    /\ pc[t] = "poll" /\ ingestMu[p] # Nobody =>
         ingestMu[p] \in Of(p) /\ pc[ingestMu[p]] = "ingest"

\* Whoever is kept from a lock of its package is kept by a test of that package that
\* waits for no lock but runs a command with a timeout (lotelhelper.go:97-104,194-232).
THEOREM NobodyWaitsForWaiters == Spec => []WaitersAreServed
<1>1. Held => WaitersAreServed BY PackagesAssumption DEF Held, Holds, WaitersAreServed
<1> QED BY <1>1, InitHeld, StepHeld, TypeCorrect, PTL DEF Spec
=============================================================================
