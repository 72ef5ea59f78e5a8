--------------------------- MODULE MetricsProofs ---------------------------
(***************************************************************************)
(* The safety properties of Metrics, proved for any set of calls and any   *)
(* requests of RequestType.                                                *)
(***************************************************************************)
EXTENDS Metrics, FiniteSetTheorems, SequenceTheorems, TLAPS

-----------------------------------------------------------------------------
\* The tables

\* A reason is given for exactly the keys that CheckAllowedLabels refuses on its
\* own (cardinality.go:173-201, 221-229).
LEMMA ReasonTells ==
  ASSUME NEW metric \in Metrics, NEW key \in Keys
  PROVE  /\ Reason(metric, key) \in Reasons \cup {""}
         /\ Reason(metric, key) = "" <=> ~IsProhibitedKey(key) /\ key \in Allowed[metric]
         /\ Reason(metric, key) # "" => Reason(metric, key) =
              IF IsProhibitedKey(key) THEN "prohibited" ELSE "unknown_key"
PROOF
  BY DEF Reason, Reasons

LEMMA MetricsAre == Metrics = {"duration", "usage", "errors", "fallback"}
PROOF
  BY DEF Metrics, Allowed

LEMMA AllowedAre ==
  /\ Allowed["duration"] = {"provider", "model", "operation", "error"}
  /\ Allowed["usage"] = {"provider", "model", "operation", "token"}
  /\ Allowed["errors"] = {"provider", "error"}
  /\ Allowed["fallback"] = {"provider", "from", "to"}
PROOF
  BY DEF Allowed

LEMMA LabelsAre ==
  Labels = {"provider", "model", "operation", "error", "token", "from", "to"}
PROOF
  <1>1. Labels = Allowed["duration"] \cup Allowed["usage"] \cup Allowed["errors"]
                   \cup Allowed["fallback"]
    BY MetricsAre DEF Labels
  <1> QED
    BY <1>1, AllowedAre

LEMMA RejectsDiffer ==
  ASSUME NEW m, NEW k, NEW why, why # "none"
  PROVE  Rejects(m, k, why) # NoError
PROOF
  <1>1. Rejects(m, k, why).reason = why /\ NoError.reason = "none"
    BY DEF Rejects, NoError
  <1> QED
    BY <1>1

LEMMA NegativeDiffers == Negative # NoError
PROOF
  BY RejectsDiffer DEF Negative

LEMMA RejectsType ==
  ASSUME NEW m \in MetricNames, NEW k \in Keys \cup {""},
         NEW why \in Reasons \cup {"none", "negative"}
  PROVE  Rejects(m, k, why) \in ErrorType
PROOF
  BY DEF Rejects, ErrorType

LEMMA NoErrorType == NoError \in ErrorType /\ Negative \in ErrorType
PROOF
  <1>1. "" \in MetricNames
    BY DEF MetricNames
  <1> QED
    BY <1>1, RejectsType DEF NoError, Negative

\* The helper on one label.
LEMMA LintOfOne ==
  ASSUME NEW metric \in Metrics, NEW key \in Keys
  PROVE  (CheckAllowedLabels(metric, <<key>>) = NoError) <=> (Reason(metric, key) = "")
PROOF
  <1> DEFINE keys == <<key>>
             bad == {n \in DOMAIN keys : IsProhibitedKey(keys[n]) \/ keys[n] \notin Allowed[metric]}
             first == CHOOSE n \in bad : \A m \in bad : n <= m
             why == IF IsProhibitedKey(keys[first]) THEN "prohibited" ELSE "unknown_key"
  <1>1. CheckAllowedLabels(metric, keys) =
          IF bad = {} THEN NoError ELSE Rejects(metric, keys[first], why)
    BY DEF CheckAllowedLabels
  <1>2. DOMAIN keys = {1} /\ keys[1] = key
    OBVIOUS
  <1>3. (bad = {}) <=> (Reason(metric, key) = "")
    BY <1>2, ReasonTells
  <1>4. Rejects(metric, keys[first], why) # NoError
    <2>1. why # "none"
      OBVIOUS
    <2> QED
      BY <2>1, RejectsDiffer
  <1> QED
    BY <1>1, <1>3, <1>4

-----------------------------------------------------------------------------
\* What a point keeps

Chosen(point, end) ==
  {n \in DOMAIN point.keys : n < end /\ Reason(point.metric, point.keys[n]) = ""}
Refused(point, end) ==
  {n \in DOMAIN point.keys : n < end /\ Reason(point.metric, point.keys[n]) # ""}
Rejection(point, n) ==
  Rejects(point.metric, point.keys[n], Reason(point.metric, point.keys[n]))
End(point) == Len(point.keys) + 1

\* The error is the one for the first label refused before "end", if there is one.
FirstError(e, point, end) ==
  \/ e = NoError /\ Refused(point, end) = {}
  \/ \E n \in Refused(point, end) :
       e = Rejection(point, n) /\ \A m \in Refused(point, end) : n <= m

Verdict(point) == CheckAllowedLabels(point.metric, point.keys)

LEMMA KeysShape ==
  ASSUME NEW keys \in Seq(Keys)
  PROVE  /\ DOMAIN keys = 1..Len(keys) /\ Len(keys) \in Nat
         /\ \A n \in DOMAIN keys : n \in Nat /\ n >= 1 /\ n <= Len(keys) /\ keys[n] \in Keys
PROOF
  OBVIOUS

LEMMA PointShape ==
  ASSUME NEW point \in PointType
  PROVE  /\ point.metric \in MetricNames /\ point.keys \in Seq(Keys)
         /\ point.value \in {"", "input", "output"}
         /\ DOMAIN point.keys = 1..Len(point.keys) /\ Len(point.keys) \in Nat
         /\ \A n \in DOMAIN point.keys :
              n \in Nat /\ n >= 1 /\ n <= Len(point.keys) /\ point.keys[n] \in Keys
PROOF
  <1>1. point.metric \in MetricNames /\ point.keys \in Seq(Keys)
          /\ point.value \in {"", "input", "output"}
    BY DEF PointType
  <1> QED
    BY <1>1, KeysShape

LEMMA ChosenStarts ==
  ASSUME NEW point \in PointType
  PROVE  /\ Chosen(point, 1) = {} /\ Refused(point, 1) = {}
         /\ Selection(<<>>, point.keys, Chosen(point, 1))
         /\ FirstError(NoError, point, 1)
PROOF
  <1>a. \A n \in DOMAIN point.keys : n \in Nat /\ n >= 1
    BY PointShape
  <1>b. \A n \in DOMAIN point.keys : ~(n < 1)
    BY <1>a
  <1>1. Chosen(point, 1) = {} /\ Refused(point, 1) = {}
    BY <1>b DEF Chosen, Refused
  <1>2. Cardinality({}) = 0
    BY FS_EmptySet
  <1> QED
    BY <1>1, <1>2 DEF Selection, FirstError

\* A label that is kept goes to the end of the list, and the list is still the
\* selection of what was kept (cardinality.go:243).
LEMMA SelectionGrows ==
  ASSUME NEW keys \in Seq(Keys), NEW list \in Seq(Keys), NEW end \in DOMAIN keys,
         NEW chosen \in SUBSET (1..(end - 1)), Selection(list, keys, chosen)
  PROVE  Selection(Append(list, keys[end]), keys, chosen \cup {end})
PROOF
  <1> DEFINE more == chosen \cup {end}
             Before(set, n) == {m \in set : m <= n}
  <1>1. end \in Nat /\ end \in 1..Len(keys) /\ keys[end] \in Keys
    OBVIOUS
  <1>a. \A n \in chosen : n \in Nat /\ n < end
    BY <1>1
  <1>2. IsFiniteSet(chosen) /\ end \notin chosen
    <2>1. IsFiniteSet(1..(end - 1))
      BY <1>1, FS_Interval
    <2>2. end \notin chosen
      BY <1>1, <1>a
    <2> QED
      BY <2>1, <2>2, FS_Subset
  <1>3. IsFiniteSet(more) /\ Cardinality(more) = Cardinality(chosen) + 1
    BY <1>2, FS_AddElement
  <1>4. Cardinality(chosen) \in Nat /\ Len(list) = Cardinality(chosen)
    BY <1>2, FS_CardinalityType DEF Selection
  <1>5. Append(list, keys[end]) \in Seq(Keys)
          /\ Len(Append(list, keys[end])) = Cardinality(more)
    BY <1>1, <1>3, <1>4
  <1>6. Before(more, end) = more
    <2>1. \A m \in more : m <= end
      BY <1>1, <1>a
    <2> QED
      BY <2>1
  <1>7. Append(list, keys[end])[Cardinality(Before(more, end))] = keys[end]
    <2> HIDE DEF more, Before
    <2> QED
      BY <1>1, <1>3, <1>4, <1>6
  <1>8. ASSUME NEW n \in chosen
        PROVE  Append(list, keys[end])[Cardinality(Before(more, n))] = keys[n]
    <2>1. Before(more, n) = Before(chosen, n)
      BY <1>1, <1>a
    <2>2. IsFiniteSet(Before(chosen, n))
            /\ Cardinality(Before(chosen, n)) <= Cardinality(chosen)
      <3>1. Before(chosen, n) \subseteq chosen
        OBVIOUS
      <3> QED
        BY <3>1, <1>2, FS_Subset
    <2>3. Cardinality(Before(chosen, n)) \in Nat
            /\ Cardinality(Before(chosen, n)) # 0
      <3>1. n \in Before(chosen, n)
        BY <1>1
      <3> QED
        BY <2>2, <3>1, FS_CardinalityType, FS_EmptySet
    <2>4. list[Cardinality(Before(chosen, n))] = keys[n]
      BY DEF Selection
    <2> HIDE DEF Before
    <2>5. Cardinality(Before(chosen, n)) \in 1..Len(list)
      BY <2>2, <2>3, <1>4
    <2> QED
      BY <2>1, <2>4, <2>5, <1>1
  <1>9. ASSUME NEW n \in more
        PROVE  Append(list, keys[end])[Cardinality(Before(more, n))] = keys[n]
    BY <1>7, <1>8
  <1> QED
    BY <1>5, <1>9 DEF Selection

LEMMA OneFurther ==
  ASSUME NEW point \in PointType, NEW end \in DOMAIN point.keys
  PROVE  \A n \in DOMAIN point.keys :
           /\ n < end + 1 <=> n < end \/ n = end
           /\ ~(n < end /\ n = end)
           /\ n < end => n \in 1..(end - 1) /\ n <= end
           /\ n < End(point)
PROOF
  <1>1. \A n \in DOMAIN point.keys : n \in Nat /\ n >= 1 /\ n <= Len(point.keys)
    BY PointShape
  <1>2. end \in Nat /\ Len(point.keys) \in Nat
    BY <1>1, PointShape
  <1> QED
    BY <1>1, <1>2 DEF End

LEMMA KeepGrows ==
  ASSUME NEW point \in PointType, NEW list \in Seq(Keys), NEW end \in DOMAIN point.keys,
         Reason(point.metric, point.keys[end]) = "",
         Selection(list, point.keys, Chosen(point, end)),
         NEW e, FirstError(e, point, end)
  PROVE  /\ Selection(Append(list, point.keys[end]), point.keys, Chosen(point, end + 1))
         /\ FirstError(e, point, end + 1)
         /\ Refused(point, end + 1) = Refused(point, end)
PROOF
  <1>2. Chosen(point, end + 1) = Chosen(point, end) \cup {end}
    <2>1. \A n \in DOMAIN point.keys :
            n \in Chosen(point, end + 1) <=> n \in Chosen(point, end) \/ n = end
      BY OneFurther DEF Chosen
    <2>2. Chosen(point, end + 1) \subseteq DOMAIN point.keys
            /\ Chosen(point, end) \subseteq DOMAIN point.keys
      BY DEF Chosen
    <2> QED
      BY <2>1, <2>2
  <1>3. Refused(point, end + 1) = Refused(point, end)
    BY OneFurther DEF Refused
  <1>4. Chosen(point, end) \in SUBSET (1..(end - 1))
    BY OneFurther DEF Chosen
  <1>5. Selection(Append(list, point.keys[end]), point.keys, Chosen(point, end) \cup {end})
    BY <1>4, PointShape, SelectionGrows
  <1> QED
    BY <1>2, <1>3, <1>5 DEF FirstError

LEMMA NotAbove == \A n \in Nat : n <= n
PROOF
  OBVIOUS

LEMMA DropGrows ==
  ASSUME NEW point \in PointType, NEW end \in DOMAIN point.keys,
         Reason(point.metric, point.keys[end]) # "",
         NEW e, FirstError(e, point, end), point.metric \in Metrics
  PROVE  /\ Chosen(point, end + 1) = Chosen(point, end)
         /\ Refused(point, end + 1) = Refused(point, end) \cup {end}
         /\ FirstError(IF e = NoError THEN Rejection(point, end) ELSE e, point, end + 1)
PROOF
  <1>1. end \in Nat /\ \A n \in DOMAIN point.keys : n \in Nat
    BY PointShape
  <1>2. Chosen(point, end + 1) = Chosen(point, end)
    BY OneFurther DEF Chosen
  <1>3. Refused(point, end + 1) = Refused(point, end) \cup {end}
    <2>1. \A n \in DOMAIN point.keys :
            n \in Refused(point, end + 1) <=> n \in Refused(point, end) \/ n = end
      BY OneFurther DEF Refused
    <2>2. Refused(point, end + 1) \subseteq DOMAIN point.keys
            /\ Refused(point, end) \subseteq DOMAIN point.keys
      BY DEF Refused
    <2> QED
      BY <2>1, <2>2
  <1>4. \A n \in Refused(point, end) : n < end /\ Rejection(point, n) # NoError
    <2>1. \A n \in Refused(point, end) :
            n < end /\ n \in DOMAIN point.keys /\ Reason(point.metric, point.keys[n]) # ""
      BY DEF Refused
    <2>2. \A n \in Refused(point, end) : Reason(point.metric, point.keys[n]) # "none"
      BY <2>1, PointShape, ReasonTells DEF Reasons
    <2> QED
      BY <2>1, <2>2, RejectsDiffer DEF Rejection
  <1>5. CASE e = NoError
    <2>1. Refused(point, end) = {}
      BY <1>4, <1>5 DEF FirstError
    <2>2. Refused(point, end + 1) = {end}
      BY <1>3, <2>1
    <2>3. \A m \in {end} : end <= m
      <3>1. end \in Nat
        BY <1>1
      <3> QED
        BY <3>1, NotAbove
    <2> QED
      BY <1>2, <1>3, <1>5, <2>2, <2>3 DEF FirstError
  <1>6. CASE e # NoError
    <2>1. PICK n \in Refused(point, end) :
            e = Rejection(point, n) /\ \A m \in Refused(point, end) : n <= m
      BY <1>6 DEF FirstError
    <2>2. n <= end
      BY <1>1, <1>4, <2>1, OneFurther DEF Refused
    <2> QED
      BY <1>2, <1>3, <1>6, <2>1, <2>2 DEF FirstError
  <1> QED
    BY <1>5, <1>6

\* The first error of a whole point is the error of the helper
\* (cardinality.go:187-201, 231-234).
LEMMA FirstErrorIsVerdict ==
  ASSUME NEW point \in PointType, point.metric \in Metrics,
         NEW e, FirstError(e, point, End(point))
  PROVE  e = Verdict(point)
PROOF
  <1> DEFINE keys == point.keys
             bad == {n \in DOMAIN keys :
                       IsProhibitedKey(keys[n]) \/ keys[n] \notin Allowed[point.metric]}
             first == CHOOSE n \in bad : \A m \in bad : n <= m
             why == IF IsProhibitedKey(keys[first]) THEN "prohibited" ELSE "unknown_key"
  <1>1. Verdict(point) =
          IF bad = {} THEN NoError ELSE Rejects(point.metric, keys[first], why)
    BY DEF Verdict, CheckAllowedLabels
  <1>2. bad = Refused(point, End(point))
    <2>1. \A n \in DOMAIN keys : n < End(point) /\ keys[n] \in Keys
      BY PointShape, OneFurther
    <2>2. \A n \in DOMAIN keys : (Reason(point.metric, keys[n]) # "")
            <=> (IsProhibitedKey(keys[n]) \/ keys[n] \notin Allowed[point.metric])
      BY <2>1, ReasonTells
    <2> QED
      BY <2>1, <2>2 DEF Refused
  <1>3. CASE bad = {}
    BY <1>1, <1>2, <1>3 DEF FirstError
  <1>4. CASE bad # {}
    <2>1. PICK n \in bad : e = Rejection(point, n) /\ \A m \in bad : n <= m
      BY <1>2, <1>4 DEF FirstError
    <2>2. \A m \in bad : m \in Nat
      BY PointShape
    <2>3. first \in bad /\ \A m \in bad : first <= m
      BY <2>1
    <2>4. first = n
      <3> HIDE DEF bad, first
      <3> QED
        BY <2>1, <2>2, <2>3
    <2>5. n \in DOMAIN keys /\ Reason(point.metric, keys[n]) # ""
      BY <1>2 DEF Refused
    <2>6. why = Reason(point.metric, keys[n])
      <3> HIDE DEF first
      <3> QED
        BY <2>4, <2>5, PointShape, ReasonTells
    <2> QED
      BY <1>1, <1>4, <2>1, <2>4, <2>6 DEF Rejection
  <1> QED
    BY <1>3, <1>4

LEMMA VerdictIsClean ==
  ASSUME NEW point \in PointType, point.metric \in Metrics,
         Refused(point, End(point)) = {}
  PROVE  Verdict(point) = NoError
PROOF
  BY FirstErrorIsVerdict DEF FirstError

-----------------------------------------------------------------------------
\* What the recorders build

LEMMA LabelFits ==
  ASSUME NEW S, NEW labels, NEW key \in S
  PROVE  Label(labels, key) \in Seq(S)
PROOF
  BY DEF Label

LEMMA JoinFits ==
  ASSUME NEW S, NEW s \in Seq(S), NEW t \in Seq(S)
  PROVE  s \o t \in Seq(S)
PROOF
  OBVIOUS

LEMMA BaseFits ==
  ASSUME NEW S, NEW labels, {"operation", "provider", "model"} \subseteq S
  PROVE  modelBaseAttrs(labels) \in Seq(S)
PROOF
  <1>1. Label(labels, "operation") \in Seq(S) /\ Label(labels, "provider") \in Seq(S)
          /\ Label(labels, "model") \in Seq(S)
    BY LabelFits
  <1> QED
    BY <1>1 DEF modelBaseAttrs

LEMMA TokenFits ==
  ASSUME NEW S, NEW labels, {"operation", "provider", "model", "token"} \subseteq S
  PROVE  tokenUsageAttrs(labels) \in Seq(S)
PROOF
  <1>1. modelBaseAttrs(labels) \in Seq(S)
    BY BaseFits
  <1>2. <<"token">> \in Seq(S)
    OBVIOUS
  <1> QED
    BY <1>1, <1>2 DEF tokenUsageAttrs

\* What a typed recorder builds fits the table of its metric
\* (instruments.go:116-153, cardinality.go:63-105).
Fits(point) == point.metric \in Metrics /\ point.keys \in Seq(Allowed[point.metric])

LEMMA PointIn ==
  ASSUME NEW m \in MetricNames, NEW k \in Seq(Keys), NEW v \in {"", "input", "output"}
  PROVE  Point(m, k, v) \in PointType
PROOF
  BY DEF Point, PointType

LEMMA FitsMeans ==
  ASSUME NEW m, NEW k, NEW v
  PROVE  Fits(Point(m, k, v)) <=> m \in Metrics /\ k \in Seq(Allowed[m])
PROOF
  BY DEF Fits, Point

LEMMA Single ==
  ASSUME NEW s, NEW x \in PointType, s = <<x>>
  PROVE  s \in Seq(PointType) /\ Len(s) = 1 /\ DOMAIN s = {1} /\ s[1] = x
PROOF
  OBVIOUS

LEMMA AllowedAreKeys == \A m \in Metrics : Allowed[m] \subseteq Keys
PROOF
  BY DEF Keys, Labels

LEMMA SeqGrows ==
  ASSUME NEW S, NEW T, S \subseteq T, NEW s \in Seq(S)
  PROVE  s \in Seq(T)
PROOF
  OBVIOUS

LEMMA FitsIsType ==
  ASSUME NEW m, NEW k, NEW v \in {"", "input", "output"}, Fits(Point(m, k, v))
  PROVE  Point(m, k, v) \in PointType
PROOF
  <1>1. m \in Metrics /\ k \in Seq(Allowed[m])
    BY FitsMeans
  <1>2. k \in Seq(Keys)
    BY <1>1, AllowedAreKeys, SeqGrows
  <1> QED
    BY <1>1, <1>2, PointIn DEF MetricNames

LEMMA TokenPointFits ==
  ASSUME NEW r \in RequestType, NEW v \in {"", "input", "output"}
  PROVE  Fits(TokenPoint(r, v)) /\ TokenPoint(r, v) \in PointType
PROOF
  <1>1. tokenUsageAttrs(r.labels) \in Seq(Allowed["usage"])
    BY TokenFits, AllowedAre
  <1> QED
    <2>1. "usage" \in Metrics
      BY MetricsAre
    <2>2. PICK keys : keys = tokenUsageAttrs(r.labels)
      OBVIOUS
    <2>3. Fits(Point("usage", keys, v))
      BY <1>1, <2>1, <2>2, FitsMeans
    <2>4. Point("usage", keys, v) \in PointType
      BY <2>3, FitsIsType
    <2> QED
      BY <2>2, <2>3, <2>4 DEF TokenPoint

\* The points of every recorder but the one with free attributes.
LEMMA TypedPoints ==
  ASSUME NEW r \in RequestType, r.op \notin {"fallback", "filter"}
  PROVE  /\ Points(r) \in Seq(PointType)
         /\ \A n \in DOMAIN Points(r) : Fits(Points(r)[n])
         /\ r.op # "usage" => Len(Points(r)) = 1
PROOF
  <1> DEFINE Good(point) == Fits(point) /\ point \in PointType
  <1>1. r.op \in {"latency", "usage", "inputTokens", "outputTokens", "providerError"}
    BY DEF RequestType
  <1>2. ASSUME NEW v \in {"", "input", "output"}
        PROVE  Good(TokenPoint(r, v))
    BY TokenPointFits
  <1>3. CASE r.op = "latency"
    <2> DEFINE keys == modelBaseAttrs(r.labels) \o Label(r.labels, "error")
    <2>1. Points(r) = <<Point("duration", keys, "")>>
      BY <1>3 DEF Points
    <2>2. keys \in Seq(Allowed["duration"])
      <3>1. modelBaseAttrs(r.labels) \in Seq(Allowed["duration"])
        BY BaseFits, AllowedAre
      <3>2. Label(r.labels, "error") \in Seq(Allowed["duration"])
        BY LabelFits, AllowedAre
      <3> QED
        BY <3>1, <3>2, JoinFits
    <2> HIDE DEF keys
    <2>3. Good(Point("duration", keys, ""))
      <3>1. Fits(Point("duration", keys, ""))
        BY <2>2, FitsMeans, MetricsAre
      <3> QED
        BY <3>1, FitsIsType
    <2> HIDE DEF Good
    <2>4. PICK x : x = Point("duration", keys, "")
      OBVIOUS
    <2>5. Points(r) = <<x>> /\ Good(x)
      BY <2>1, <2>3, <2>4
    <2> QED
      BY <1>3, <2>5, Single DEF Good
  <1>4. CASE r.op = "usage"
    <2>1. Points(r) = IF r.available
                        THEN <<TokenPoint(r, "input"), TokenPoint(r, "output")>> ELSE <<>>
      BY <1>4 DEF Points, UsageMetricPoints
    <2>2. Good(TokenPoint(r, "input")) /\ Good(TokenPoint(r, "output"))
      BY <1>2
    <2> HIDE DEF Good
    <2>3. \A n \in DOMAIN Points(r) : Good(Points(r)[n])
      BY <2>1, <2>2
    <2>4. Points(r) \in Seq(PointType)
      BY <2>1, <2>2 DEF Good
    <2> QED
      BY <1>4, <2>3, <2>4 DEF Good
  <1>5. CASE r.op = "inputTokens"
    <2>1. Points(r) = <<TokenPoint(r, "input")>>
      BY <1>5 DEF Points
    <2> HIDE DEF Good
    <2>2. PICK x : x = TokenPoint(r, "input")
      OBVIOUS
    <2>3. Points(r) = <<x>> /\ Good(x)
      BY <1>2, <2>1, <2>2
    <2> QED
      BY <1>5, <2>3, Single DEF Good
  <1>6. CASE r.op = "outputTokens"
    <2>1. Points(r) = <<TokenPoint(r, "output")>>
      BY <1>6 DEF Points
    <2> HIDE DEF Good
    <2>2. PICK x : x = TokenPoint(r, "output")
      OBVIOUS
    <2>3. Points(r) = <<x>> /\ Good(x)
      BY <1>2, <2>1, <2>2
    <2> QED
      BY <1>6, <2>3, Single DEF Good
  <1>7. CASE r.op = "providerError"
    <2> DEFINE keys == Label(r.labels, "provider") \o Label(r.labels, "error")
    <2>1. Points(r) = <<Point("errors", keys, "")>>
      BY <1>7 DEF Points
    <2>2. keys \in Seq(Allowed["errors"])
      <3>1. /\ Label(r.labels, "provider") \in Seq(Allowed["errors"])
            /\ Label(r.labels, "error") \in Seq(Allowed["errors"])
        BY LabelFits, AllowedAre
      <3> QED
        BY <3>1, JoinFits
    <2> HIDE DEF keys
    <2>3. Good(Point("errors", keys, ""))
      <3>1. Fits(Point("errors", keys, ""))
        BY <2>2, FitsMeans, MetricsAre
      <3> QED
        BY <3>1, FitsIsType
    <2> HIDE DEF Good
    <2>4. PICK x : x = Point("errors", keys, "")
      OBVIOUS
    <2>5. Points(r) = <<x>> /\ Good(x)
      BY <2>1, <2>3, <2>4
    <2> QED
      BY <1>7, <2>5, Single DEF Good
  <1> QED
    BY <1>1, <1>3, <1>4, <1>5, <1>6, <1>7

\* A Fallback and a Filter have one point, which need not fit.
LEMMA FreePoints ==
  ASSUME NEW r \in RequestType, r.op \in {"fallback", "filter"}
  PROVE  Points(r) \in Seq(PointType) /\ Len(Points(r)) = 1
           /\ (r.op = "fallback" => Points(r)[1].metric \in Metrics)
PROOF
  <1>1. r.extra \in Seq(Keys) /\ r.metric \in MetricNames
    BY DEF RequestType
  <1>2. CASE r.op = "fallback"
    <2> DEFINE keys == Label(r.labels, "provider") \o Label(r.labels, "from")
                         \o Label(r.labels, "to") \o r.extra
    <2>1. Points(r) = <<Point("fallback", keys, "")>>
      BY <1>2 DEF Points
    <2>2. keys \in Seq(Keys)
      <3>1. "provider" \in Keys /\ "from" \in Keys /\ "to" \in Keys
        BY LabelsAre DEF Keys
      <3>2. Label(r.labels, "provider") \in Seq(Keys) /\ Label(r.labels, "from") \in Seq(Keys)
              /\ Label(r.labels, "to") \in Seq(Keys)
        BY <3>1, LabelFits
      <3> QED
        BY <3>2, <1>1
    <2> HIDE DEF keys
    <2>3. "fallback" \in Metrics /\ Point("fallback", keys, "") \in PointType
      BY <2>2, MetricsAre, PointIn DEF MetricNames
    <2> QED
      <3>1. PICK x : x = Point("fallback", keys, "")
        OBVIOUS
      <3>2. Points(r) = <<x>> /\ x \in PointType
        BY <2>1, <2>3, <3>1
      <3>3. x.metric \in Metrics
        BY <2>3, <3>1 DEF Point
      <3> QED
        BY <3>2, <3>3, Single
  <1>3. CASE r.op = "filter"
    <2>1. Points(r) = <<Point(r.metric, r.extra, "")>>
      BY <1>3 DEF Points
    <2>2. Point(r.metric, r.extra, "") \in PointType
      BY <1>1, PointIn
    <2> QED
      <3>1. PICK x : x = Point(r.metric, r.extra, "")
        OBVIOUS
      <3>2. Points(r) = <<x>> /\ x \in PointType
        BY <2>1, <2>2, <3>1
      <3> QED
        BY <1>3, <3>2, Single
  <1> QED
    BY <1>2, <1>3

\* A point that fits loses nothing.
LEMMA FitsIsClean ==
  ASSUME NEW point \in PointType, Fits(point), NEW end
  PROVE  Refused(point, end) = {} /\ Verdict(point) = NoError
PROOF
  <1>1. point.metric \in Metrics /\ point.keys \in Seq(Allowed[point.metric])
    BY DEF Fits
  <1>2. \A n \in DOMAIN point.keys : point.keys[n] \in Allowed[point.metric]
    BY <1>1
  <1>3. Allowed[point.metric] \subseteq Labels
    BY <1>1 DEF Labels
  <1>4. \A key \in Labels : ~IsProhibitedKey(key)
    BY LabelsAre DEF IsProhibitedKey, ProhibitedKeys, ToolInputKeys
  <1>5. \A n \in DOMAIN point.keys : Reason(point.metric, point.keys[n]) = ""
    BY <1>1, <1>2, <1>3, <1>4, PointShape, ReasonTells
  <1>6. \A any : Refused(point, any) = {}
    BY <1>5 DEF Refused
  <1> QED
    BY <1>1, <1>6, VerdictIsClean

-----------------------------------------------------------------------------
\* The invariant

\* The points the call has to record.
Planned(p) == IF via = "nil" \/ TooSmall(req[p]) THEN <<>> ELSE Points(req[p])
Typed(p) == via = "instruments" /\ req[p].op # "fallback"

Logging(p) == pc[p] \in {"look", "mark", "log"}
Filtering(p) == pc[p] = "label" \/ (Logging(p) /\ Here(p).metric \in Metrics)

\* A Filter of one's own is the only user of a logger.
ValidatorInv ==
  /\ hasLogger => via = "direct"
  /\ \A p \in Calls : (req[p].op = "filter") <=> (via = "direct")

\* What is recorded and what is left to record are the plan.
TodoInv(p) ==
  /\ pc[p] = "idle" => todo[p] = <<>> /\ out[p] = <<>>
  /\ pc[p] # "idle" =>
       /\ Len(out[p]) + Len(todo[p]) = Len(Planned(p))
       /\ \A n \in DOMAIN todo[p] : todo[p][n] = Planned(p)[Len(out[p]) + n]
  /\ pc[p] \notin {"idle", "done"} => todo[p] # <<>>

\* What the filter has to leave of a point.
Kept(keys, point) ==
  mode # "disabled" =>
    point.metric \in Metrics /\ Selection(keys, point.keys, Chosen(point, End(point)))

OutInv(p) ==
  \A n \in DOMAIN out[p] :
    /\ out[p][n].metric = Planned(p)[n].metric /\ out[p][n].value = Planned(p)[n].value
    /\ Kept(out[p][n].keys, Planned(p)[n])
    /\ mode = "strict" /\ via = "instruments" => Verdict(Planned(p)[n]) = NoError

\* Where the filter is, what it has kept and what it has refused.
FilterInv(p) ==
  /\ mode = "disabled" => pc[p] \in {"idle", "filter", "record", "done"}
  /\ pc[p] = "label" => Here(p).metric \in Metrics
  /\ Filtering(p) =>
       /\ Selection(kept[p], Here(p).keys, Chosen(Here(p), pos[p]))
       /\ FirstError(firstErr[p], Here(p),
                     IF pc[p] = "label" THEN pos[p] ELSE pos[p] + 1)
  /\ Logging(p) /\ Here(p).metric \in Metrics =>
       pos[p] \in DOMAIN Here(p).keys /\ Reason(Here(p).metric, Key(p)) # ""
  /\ pc[p] = "record" => Kept(kept[p], Here(p))

\* The error a call returns, and the one it is going to return.
ErrInv(p) ==
  /\ pc[p] \in {"idle", "filter"} \/ Filtering(p) => err[p] = NoError
  /\ Logging(p) /\ Here(p).metric \notin Metrics => err[p] = Verdict(Here(p))
  /\ pc[p] = "record" =>
       \/ err[p] = NoError /\ (mode = "strict" => Verdict(Here(p)) = NoError)
       \/ via = "direct" /\ err[p] # NoError /\ err[p] = Verdict(Here(p))
  /\ pc[p] = "done" =>
       \/ TooSmall(req[p]) /\ (via # "nil" => err[p] = Negative)
       \/ via = "nil"
       \/ /\ ~TooSmall(req[p]) /\ todo[p] = <<>> /\ err[p] = NoError
          /\ mode = "strict" => \A n \in DOMAIN Planned(p) : Verdict(Planned(p)[n]) = NoError
       \/ /\ ~TooSmall(req[p]) /\ Len(Planned(p)) = 1 /\ ~Typed(p)
          /\ err[p] # NoError /\ err[p] = Verdict(Planned(p)[1])
          /\ via = "instruments" => out[p] = <<>>

TypedInv(p) == Typed(p) => firstErr[p] = NoError

PosInv(p) == pos[p] \in 1..(IF todo[p] = <<>> THEN 1 ELSE Len(todo[p][1].keys) + 1)

CallInv(p) ==
  PosInv(p) /\ TodoInv(p) /\ OutInv(p) /\ FilterInv(p) /\ ErrInv(p) /\ TypedInv(p)

\* In the map, or already logged.
Told(v) == v \in seen \/ Logged(v)
UnknownMetricError(point) == Rejects(point.metric, "", "unknown_metric")
ToldAll(point, end) == \A n \in Refused(point, end) : Told(Rejection(point, n))

\* The filter goes past nothing that has not been told.
SettledInv(p) ==
  hasLogger /\ mode # "disabled" =>
    /\ Filtering(p) => ToldAll(Here(p), pos[p])
    /\ pc[p] \in {"record", "done"} =>
         LET point == Planned(p)[1]
         IN IF point.metric \in Metrics THEN ToldAll(point, End(point))
            ELSE Told(UnknownMetricError(point))

\* What is in the map is logged, or some call is about to log it.
SeenInv ==
  \A v \in seen : Logged(v) \/ \E p \in Calls : pc[p] = "log" /\ Violation(p) = v

\* As long as no two calls met in the map, a violation has at most one call that
\* logs it, and what that call logs is not yet logged.
AloneInv ==
  ~raced =>
    /\ \A p, q \in Calls : pc[p] = "mark" /\ pc[q] = "mark" => p = q
    /\ \A p \in Calls : pc[p] = "mark" => Violation(p) \notin seen
    /\ \A p \in Calls : pc[p] = "log" => Violation(p) \in seen /\ ~Logged(Violation(p))
    /\ \A p, q \in Calls :
         pc[p] = "log" /\ pc[q] = "log" /\ Violation(p) = Violation(q) => p = q
    /\ \A n \in DOMAIN log : log[n] \in seen
    /\ ~Repeated

IInv ==
  /\ TypeOK
  /\ ValidatorInv
  /\ \A p \in Calls : CallInv(p)
  /\ \A p \in Calls : SettledInv(p)
  /\ SeenInv
  /\ AloneInv

-----------------------------------------------------------------------------
\* What the types say of a call

LEMMA CallTypes ==
  ASSUME TypeOK, NEW p \in Calls
  PROVE  /\ req[p] \in RequestType
         /\ pc[p] \in {"idle", "filter", "label", "look", "mark", "log", "record", "done"}
         /\ todo[p] \in Seq(PointType) /\ pos[p] \in Nat /\ kept[p] \in Seq(Keys)
         /\ firstErr[p] \in ErrorType /\ out[p] \in Seq(PointType) /\ err[p] \in ErrorType
PROOF
  <1>1. req[p] \in Requests
    BY DEF TypeOK
  <1>2. req[p] \in RequestType
    BY <1>1, RequestsAssumption
  <1> QED
    BY <1>2 DEF TypeOK

LEMMA PlannedType ==
  ASSUME TypeOK, ValidatorInv, NEW p \in Calls
  PROVE  /\ Planned(p) \in Seq(PointType) /\ Len(Planned(p)) \in Nat
         /\ DOMAIN Planned(p) = 1..Len(Planned(p))
         /\ \A n \in DOMAIN Planned(p) : Planned(p)[n] \in PointType
         /\ Typed(p) => \A n \in DOMAIN Planned(p) : Fits(Planned(p)[n])
         /\ ~Typed(p) => Planned(p) = <<>> \/ Len(Planned(p)) = 1
         /\ via = "instruments" => \A n \in DOMAIN Planned(p) : Planned(p)[n].metric \in Metrics
         /\ hasLogger => Len(Planned(p)) = 1
PROOF
  <1>1. PICK r : r = req[p]
    OBVIOUS
  <1>2. r \in RequestType /\ via \in {"instruments", "nil", "direct"}
          /\ (r.op = "filter" <=> via = "direct") /\ (hasLogger => via = "direct")
    BY <1>1, CallTypes DEF ValidatorInv, TypeOK
  <1>3. Typed(p) => r.op \notin {"fallback", "filter"}
    BY <1>1, <1>2 DEF Typed
  <1>4. via = "direct" => ~TooSmall(r) /\ r.op = "filter"
    BY <1>2 DEF TooSmall
  <1>5. PICK plan : plan = Planned(p)
    OBVIOUS
  <1>6. plan = IF via = "nil" \/ TooSmall(r) THEN <<>> ELSE Points(r)
    BY <1>1, <1>5 DEF Planned
  <1>7. CASE r.op \notin {"fallback", "filter"}
    <2>1. plan \in Seq(PointType) /\ \A n \in DOMAIN plan : Fits(plan[n])
      BY <1>2, <1>6, <1>7, TypedPoints
    <2>2. \A n \in DOMAIN plan : plan[n].metric \in Metrics
      BY <2>1 DEF Fits
    <2>3. ~Typed(p) => plan = <<>>
      BY <1>1, <1>2, <1>6, <1>7 DEF Typed
    <2>4. ~hasLogger
      BY <1>2, <1>7
    <2> QED
      BY <1>5, <2>1, <2>2, <2>3, <2>4
  <1>8. CASE r.op \in {"fallback", "filter"}
    <2>1. plan \in Seq(PointType) /\ (plan = <<>> \/ Len(plan) = 1)
      BY <1>2, <1>6, <1>8, FreePoints
    <2>2. ~Typed(p)
      BY <1>3, <1>8
    <2>3. via = "instruments" => \A n \in DOMAIN plan : plan[n].metric \in Metrics
      <3>1. CASE plan = <<>>
        BY <3>1
      <3>2. CASE plan # <<>> /\ via = "instruments"
        <4>1. r.op = "fallback"
          BY <1>2, <1>8, <3>2
        <4>2. plan = Points(r)
          BY <1>6, <3>2
        <4>3. DOMAIN plan = {1} /\ plan[1].metric \in Metrics
          BY <1>2, <1>8, <4>1, <4>2, FreePoints, <2>1
        <4> QED
          BY <4>3
      <3> QED
        BY <3>1, <3>2
    <2>4. hasLogger => Len(plan) = 1
      BY <1>2, <1>4, <1>6, <1>8, FreePoints
    <2>5. Len(plan) \in Nat /\ DOMAIN plan = 1..Len(plan)
            /\ \A n \in DOMAIN plan : plan[n] \in PointType
      BY <2>1
    <2> QED
      BY <1>5, <2>1, <2>2, <2>3, <2>4, <2>5
  <1> QED
    BY <1>7, <1>8

\* The point a call is at.
LEMMA HereType ==
  ASSUME TypeOK, ValidatorInv, NEW p \in Calls, CallInv(p), pc[p] \notin {"idle", "done"}
  PROVE  /\ todo[p] # <<>> /\ Here(p) \in PointType
         /\ pos[p] \in Nat /\ pos[p] >= 1 /\ pos[p] <= End(Here(p))
         /\ Len(out[p]) \in Nat /\ Len(todo[p]) \in Nat /\ Len(todo[p]) >= 1
         /\ Len(out[p]) + 1 \in DOMAIN Planned(p)
         /\ Here(p) = Planned(p)[Len(out[p]) + 1]
PROOF
  <1>1. todo[p] \in Seq(PointType) /\ out[p] \in Seq(PointType) /\ pos[p] \in Nat
    BY CallTypes
  <1>2. /\ todo[p] # <<>>
        /\ Len(out[p]) + Len(todo[p]) = Len(Planned(p))
        /\ \A n \in DOMAIN todo[p] : todo[p][n] = Planned(p)[Len(out[p]) + n]
    BY DEF CallInv, TodoInv
  <1>3. 1 \in DOMAIN todo[p] /\ Len(todo[p]) \in Nat /\ Len(todo[p]) >= 1
    BY <1>1, <1>2
  <1>4. Here(p) \in PointType /\ Here(p) = Planned(p)[Len(out[p]) + 1]
    <2>1. todo[p][1] = Planned(p)[Len(out[p]) + 1]
      BY <1>2, <1>3
    <2>2. todo[p][1] \in PointType
      BY <1>1, <1>3
    <2> QED
      BY <2>1, <2>2 DEF Here
  <1>5. PICK l : l = Len(out[p])
    OBVIOUS
  <1>6. l \in Nat
    BY <1>1, <1>5
  <1>7. l + 1 \in 1..Len(Planned(p))
    <2>1. PICK k : k = Len(todo[p])
      OBVIOUS
    <2>2. PICK m : m = Len(Planned(p))
      OBVIOUS
    <2>3. k \in Nat /\ k >= 1 /\ l + k = m
      BY <1>2, <1>3, <1>5, <2>1, <2>2
    <2>4. l + 1 \in 1..m
      BY <1>6, <2>3
    <2> QED
      BY <2>2, <2>4
  <1>8. PICK top : top = Len(todo[p][1].keys)
    OBVIOUS
  <1>9. top \in Nat /\ End(Here(p)) = top + 1
    BY <1>4, <1>8, PointShape DEF End, Here
  <1>10. pos[p] \in 1..(top + 1)
    BY <1>2, <1>8 DEF CallInv, PosInv
  <1>11. pos[p] >= 1 /\ pos[p] <= End(Here(p))
    BY <1>1, <1>9, <1>10
  <1>12. Len(out[p]) + 1 \in DOMAIN Planned(p)
    BY <1>5, <1>7, PlannedType
  <1> QED
    BY <1>1, <1>2, <1>3, <1>4, <1>5, <1>6, <1>11, <1>12

\* The label the filter is at.
LEMMA KeyType ==
  ASSUME TypeOK, ValidatorInv, NEW p \in Calls, CallInv(p), pc[p] \notin {"idle", "done"},
         ~AtEnd(p)
  PROVE  pos[p] \in DOMAIN Here(p).keys /\ Key(p) \in Keys /\ Key(p) = Here(p).keys[pos[p]]
           /\ pos[p] + 1 <= End(Here(p))
PROOF
  <1>1. Here(p) \in PointType /\ pos[p] \in Nat /\ pos[p] >= 1
    BY HereType
  <1>2. Len(Here(p).keys) \in Nat /\ DOMAIN Here(p).keys = 1..Len(Here(p).keys)
    BY <1>1, PointShape
  <1>3. PICK l : l = Len(Here(p).keys)
    OBVIOUS
  <1>4. pos[p] \in 1..l /\ pos[p] + 1 <= l + 1
    BY <1>1, <1>2, <1>3 DEF AtEnd
  <1> QED
    BY <1>1, <1>2, <1>3, <1>4, PointShape DEF Key, End

\* What a call reports.
LEMMA ViolationType ==
  ASSUME TypeOK, ValidatorInv, NEW p \in Calls, CallInv(p), pc[p] \notin {"idle", "done"},
         Here(p).metric \in Metrics =>
           pos[p] \in DOMAIN Here(p).keys /\ Reason(Here(p).metric, Key(p)) # ""
  PROVE  /\ Violation(p) \in ErrorType /\ Violation(p) # NoError
         /\ Here(p).metric \in Metrics => Violation(p) = Rejection(Here(p), pos[p])
         /\ Here(p).metric \notin Metrics =>
              Violation(p) = Verdict(Here(p)) /\ Violation(p) = UnknownMetricError(Here(p))
PROOF
  <1>1. Here(p) \in PointType
    BY HereType
  <1>2. Here(p).metric \in MetricNames
    BY <1>1, PointShape
  <1>3. CASE Here(p).metric \in Metrics
    <2>1. Key(p) \in Keys
      BY <1>1, <1>3, PointShape DEF Key
    <2>2. Violation(p) = Rejects(Here(p).metric, Key(p), Reason(Here(p).metric, Key(p)))
      BY <1>3 DEF Violation
    <2>3. Reason(Here(p).metric, Key(p)) \in Reasons
            /\ Reason(Here(p).metric, Key(p)) # "none"
      BY <1>3, <2>1, ReasonTells DEF Reasons
    <2>4. Violation(p) \in ErrorType
      BY <1>2, <2>1, <2>2, <2>3, RejectsType
    <2>5. Violation(p) # NoError
      BY <2>2, <2>3, RejectsDiffer
    <2>6. Violation(p) = Rejection(Here(p), pos[p])
      BY <2>2 DEF Rejection, Key
    <2> QED
      BY <1>3, <2>4, <2>5, <2>6
  <1>4. CASE Here(p).metric \notin Metrics
    <2>1. Violation(p) = Rejects(Here(p).metric, "", "unknown_metric")
      BY <1>4 DEF Violation
    <2>2. Verdict(Here(p)) = Rejects(Here(p).metric, "", "unknown_metric")
      BY <1>4 DEF Verdict, CheckAllowedLabels
    <2>3. Violation(p) \in ErrorType
      BY <1>2, <2>1, RejectsType DEF Reasons
    <2>4. Violation(p) # NoError
      BY <2>1, RejectsDiffer
    <2> QED
      BY <1>4, <2>1, <2>2, <2>3, <2>4 DEF UnknownMetricError
  <1> QED
    BY <1>3, <1>4

-----------------------------------------------------------------------------
\* The steps of a call, for the call that takes them

Types ==
  /\ via \in {"instruments", "nil", "direct"}
  /\ mode \in {"log_and_drop", "strict", "disabled"}
  /\ hasLogger \in BOOLEAN
  /\ req \in [Calls -> Requests]
  /\ pc \in [Calls -> {"idle", "filter", "label", "look", "mark", "log", "record", "done"}]
  /\ todo \in [Calls -> Seq(PointType)]
  /\ pos \in [Calls -> Nat]
  /\ kept \in [Calls -> Seq(Keys)]
  /\ out \in [Calls -> Seq(PointType)]
  /\ firstErr \in [Calls -> ErrorType] /\ err \in [Calls -> ErrorType]
  /\ seen \subseteq ErrorType
  /\ log \in Seq(ErrorType)
  /\ raced \in BOOLEAN /\ crashed \in BOOLEAN

LEMMA TypesAndPos == TypeOK <=> Types /\ \A p \in Calls : PosInv(p)
PROOF
  BY DEF TypeOK, Types, PosInv

LEMMA TypesAndPosNext == TypeOK' <=> Types' /\ \A p \in Calls : PosInv(p)'
PROOF
  BY DEF TypeOK, Types, PosInv

LEMMA Fixed ==
  ASSUME NEW p \in Calls, UNCHANGED <<validator, req>>
  PROVE  /\ via' = via /\ mode' = mode /\ hasLogger' = hasLogger /\ req' = req
         /\ Planned(p)' = Planned(p) /\ Typed(p)' = Typed(p)
PROOF
  <1>1. via' = via /\ mode' = mode /\ hasLogger' = hasLogger /\ req' = req
    BY DEF validator
  <1>2. Planned(p)' = Planned(p)
    BY <1>1 DEF Planned
  <1>3. Typed(p)' = Typed(p)
    BY <1>1 DEF Typed
  <1> QED
    BY <1>1, <1>2, <1>3

LEMMA CallStep ==
  ASSUME TypeOK, ValidatorInv, NEW p \in Calls, CallInv(p), Call(p)
  PROVE  Types' /\ CallInv(p)'
PROOF
  <1> DEFINE refused == TooSmall(req[p]) /\ (via # "nil" \/ req[p].op = "usage")
  <1>1. PICK plan : plan = Planned(p)
    OBVIOUS
  <1>2. plan \in Seq(PointType) /\ Planned(p)' = plan /\ (Typed(p)' <=> Typed(p))
          /\ via' = via /\ mode' = mode /\ hasLogger' = hasLogger /\ req' = req
    BY <1>1, Fixed, PlannedType DEF Call
  <1>3. plan = IF refused \/ via = "nil" THEN <<>> ELSE Points(req[p])
    BY <1>1 DEF Planned
  <1>4. /\ pc[p] = "idle" /\ pc' = [pc EXCEPT ![p] = IF plan = <<>> THEN "done" ELSE "filter"]
        /\ todo' = [todo EXCEPT ![p] = plan]
        /\ err' = [err EXCEPT ![p] = IF refused THEN Negative ELSE NoError]
        /\ UNCHANGED <<pos, kept, firstErr, out, seen, log, raced, crashed>>
    BY <1>3 DEF Call, Goto, mapVars
  <1> HIDE DEF refused
  <1>5. Types'
    <2>1. Types
      BY TypesAndPos
    <2> QED
      BY <1>2, <1>4, <2>1, NoErrorType DEF Types
  <1>6. /\ pc'[p] = IF plan = <<>> THEN "done" ELSE "filter"
        /\ todo'[p] = plan /\ err'[p] = IF refused THEN Negative ELSE NoError
        /\ out'[p] = <<>> /\ pos'[p] = 1 /\ firstErr'[p] = firstErr[p]
    <2>1. todo[p] = <<>> /\ out[p] = <<>> /\ pos[p] \in 1..1
      BY <1>4 DEF CallInv, TodoInv, PosInv
    <2> QED
      BY <1>4, <2>1 DEF TypeOK
  <1>7. PosInv(p)'
    <2>1. CASE plan = <<>>
      BY <1>6, <2>1 DEF PosInv
    <2>2. CASE plan # <<>>
      <3>1. plan[1] \in PointType
        BY <1>2, <2>2
      <3>2. Len(plan[1].keys) \in Nat
        BY <3>1, PointShape
      <3> QED
        BY <1>6, <2>2, <3>2 DEF PosInv
    <2> QED
      BY <2>1, <2>2
  <1>8. TodoInv(p)'
    <2>1. Len(plan) \in Nat /\ Len(<<>>) = 0 /\ 0 + Len(plan) = Len(plan)
      BY <1>2
    <2>2. \A n \in DOMAIN plan : 0 + n = n
      BY <1>2
    <2> QED
      BY <1>2, <1>6, <2>1, <2>2 DEF TodoInv
  <1>9. OutInv(p)'
    BY <1>6 DEF OutInv
  <1>10. FilterInv(p)'
    BY <1>6 DEF FilterInv, Filtering, Logging
  <1>11. ErrInv(p)'
    <2>1. CASE plan # <<>>
      <3>1. err'[p] = NoError
        BY <1>3, <1>6, <2>1
      <3> QED
        BY <1>6, <2>1, <3>1 DEF ErrInv, Filtering, Logging
    <2>2. CASE plan = <<>>
      <3>1. pc'[p] = "done" /\ \A n \in DOMAIN Planned(p)' : FALSE
        BY <1>2, <1>6, <2>2
      <3>2. CASE TooSmall(req[p])
        <4>1. (TooSmall(req[p]))' /\ (via' # "nil" => err'[p] = Negative)
          BY <1>2, <1>6, <3>2 DEF refused, TooSmall
        <4> QED
          BY <3>1, <4>1 DEF ErrInv, Filtering, Logging
      <3>3. CASE ~TooSmall(req[p])
        <4>1. ~(TooSmall(req[p]))' /\ err'[p] = NoError /\ todo'[p] = <<>>
          BY <1>2, <1>6, <2>2, <3>3 DEF refused, TooSmall
        <4> QED
          BY <3>1, <4>1 DEF ErrInv, Filtering, Logging
      <3> QED
        BY <3>2, <3>3
    <2> QED
      BY <2>1, <2>2
  <1>12. TypedInv(p)'
    BY <1>2, <1>6 DEF CallInv, TypedInv
  <1> QED
    BY <1>5, <1>7, <1>8, <1>9, <1>10, <1>11, <1>12 DEF CallInv

\* A call that has a point was not refused, and has one point only unless it is of
\* a typed recorder, whose points fit.
LEMMA WithPoint ==
  ASSUME TypeOK, ValidatorInv, NEW p \in Calls, CallInv(p), pc[p] \notin {"idle", "done"}
  PROVE  /\ ~TooSmall(req[p]) /\ via # "nil"
         /\ Typed(p) => Fits(Here(p)) /\ Verdict(Here(p)) = NoError
              /\ \A end : Refused(Here(p), end) = {}
         /\ ~Typed(p) => Len(Planned(p)) = 1 /\ out[p] = <<>> /\ Here(p) = Planned(p)[1]
         /\ via = "instruments" => Here(p).metric \in Metrics
         /\ hasLogger => ~Typed(p)
PROOF
  <1>1. /\ Here(p) \in PointType /\ Len(out[p]) \in Nat /\ Len(out[p]) + 1 \in DOMAIN Planned(p)
        /\ Here(p) = Planned(p)[Len(out[p]) + 1]
    BY HereType
  <1>2. ~TooSmall(req[p]) /\ via # "nil"
    BY <1>1 DEF Planned
  <1>3. Typed(p) => Fits(Here(p))
    BY <1>1, PlannedType
  <1>4. Fits(Here(p)) => Verdict(Here(p)) = NoError /\ \A end : Refused(Here(p), end) = {}
    BY <1>1, FitsIsClean
  <1>5. ASSUME ~Typed(p)
        PROVE  Len(Planned(p)) = 1 /\ out[p] = <<>> /\ Here(p) = Planned(p)[1]
    <2>1. Len(Planned(p)) = 1
      BY <1>1, <1>5, PlannedType
    <2>2. PICK l : l = Len(out[p])
      OBVIOUS
    <2>3. l \in Nat /\ l + 1 \in 1..1
      BY <1>1, <2>1, <2>2, PlannedType
    <2>4. l = 0 /\ 0 + 1 = 1
      BY <2>3
    <2>5. out[p] = <<>>
      <3>1. PICK o \in Seq(PointType) : o = out[p]
        BY CallTypes
      <3> QED
        BY <2>2, <2>4, <3>1, EmptySeq
    <2> QED
      BY <1>1, <2>1, <2>2, <2>4, <2>5
  <1>6. via = "instruments" => Here(p).metric \in Metrics
    BY <1>1, PlannedType
  <1>7. hasLogger => ~Typed(p)
    BY DEF Typed, ValidatorInv
  <1> QED
    BY <1>2, <1>3, <1>4, <1>5, <1>6, <1>7

\* A step between the first and the last of a point leaves the plan alone.
LEMMA Inside ==
  ASSUME TypeOK, ValidatorInv, NEW p \in Calls, CallInv(p), pc[p] \notin {"idle", "done"},
         pc'[p] # "idle", UNCHANGED <<validator, req, todo, out>>
  PROVE  /\ TodoInv(p)' /\ OutInv(p)' /\ Here(p)' = Here(p)
         /\ todo'[p] # <<>> /\ todo'[p][1] = Here(p)
         /\ Planned(p)' = Planned(p) /\ Typed(p)' = Typed(p)
         /\ via' = via /\ mode' = mode /\ hasLogger' = hasLogger /\ req' = req
         /\ TooSmall(req[p])' = TooSmall(req[p])
PROOF
  <1>1. /\ Planned(p)' = Planned(p) /\ Typed(p)' = Typed(p)
        /\ via' = via /\ mode' = mode /\ hasLogger' = hasLogger /\ req' = req
    BY Fixed
  <1>2. todo' = todo /\ out' = out /\ todo[p] # <<>>
    BY HereType
  <1>3. Here(p)' = Here(p) /\ todo'[p][1] = Here(p)
    BY <1>2 DEF Here
  <1>4. TodoInv(p)'
    <2>1. /\ Len(out[p]) + Len(todo[p]) = Len(Planned(p))
          /\ \A n \in DOMAIN todo[p] : todo[p][n] = Planned(p)[Len(out[p]) + n]
      BY DEF CallInv, TodoInv
    <2> QED
      BY <1>1, <1>2, <2>1 DEF TodoInv
  <1>5. OutInv(p)'
    BY <1>1, <1>2 DEF CallInv, OutInv, Kept
  <1>6. TooSmall(req[p])' = TooSmall(req[p])
    BY <1>1 DEF TooSmall
  <1> QED
    BY <1>1, <1>2, <1>3, <1>4, <1>5, <1>6

\* The bound of pos, for a call that has a point.
LEMMA PosBound ==
  ASSUME NEW p, todo'[p] # <<>>, todo'[p][1] \in PointType,
         pos'[p] \in Nat, pos'[p] >= 1, pos'[p] <= End(todo'[p][1])
  PROVE  PosInv(p)'
PROOF
  <1>1. PICK l : l = Len(todo'[p][1].keys)
    OBVIOUS
  <1>2. l \in Nat
    BY <1>1, PointShape
  <1>3. pos'[p] \in 1..(l + 1)
    BY <1>1, <1>2 DEF End
  <1> QED
    BY <1>1, <1>3 DEF PosInv

LEMMA BypassStep ==
  ASSUME TypeOK, ValidatorInv, NEW p \in Calls, CallInv(p), Bypass(p)
  PROVE  Types' /\ CallInv(p)'
PROOF
  <1>1. /\ mode = "disabled" /\ pc[p] = "filter" /\ pc' = [pc EXCEPT ![p] = "record"]
        /\ kept' = [kept EXCEPT ![p] = Here(p).keys]
        /\ UNCHANGED <<validator, req, todo, pos, firstErr, out, err, seen, log, raced, crashed>>
    BY DEF Bypass, Goto, mapVars
  <1>2. /\ Here(p) \in PointType /\ pos[p] \in Nat /\ pos[p] >= 1 /\ pos[p] <= End(Here(p))
        /\ Here(p).keys \in Seq(Keys)
    BY <1>1, HereType, PointShape
  <1>3. pc'[p] = "record"
    BY <1>1 DEF TypeOK
  <1>4. /\ TodoInv(p)' /\ OutInv(p)' /\ Here(p)' = Here(p)
        /\ todo'[p] # <<>> /\ todo'[p][1] = Here(p) /\ Typed(p)' = Typed(p)
        /\ via' = via /\ mode' = mode /\ hasLogger' = hasLogger /\ req' = req
    BY <1>1, <1>3, Inside
  <1>5. Types'
    <2>1. Types
      BY TypesAndPos
    <2> QED
      BY <1>1, <1>2, <1>4, <2>1 DEF Types
  <1>6. PosInv(p)'
    BY <1>1, <1>2, <1>4, PosBound
  <1>7. FilterInv(p)'
    BY <1>1, <1>3, <1>4 DEF FilterInv, Filtering, Logging, Kept
  <1>8. ErrInv(p)'
    <2>1. err'[p] = NoError
      BY <1>1 DEF CallInv, ErrInv
    <2> QED
      BY <1>1, <1>3, <1>4, <2>1 DEF ErrInv, Filtering, Logging
  <1>9. TypedInv(p)'
    BY <1>1, <1>4 DEF CallInv, TypedInv
  <1> QED
    BY <1>4, <1>5, <1>6, <1>7, <1>8, <1>9 DEF CallInv

LEMMA UnknownMetricStep ==
  ASSUME TypeOK, ValidatorInv, NEW p \in Calls, CallInv(p), UnknownMetric(p)
  PROVE  Types' /\ CallInv(p)'
PROOF
  <1>1. /\ mode # "disabled" /\ pc[p] = "filter" /\ Here(p).metric \notin Metrics
        /\ pc' = [pc EXCEPT ![p] = IF hasLogger THEN "look" ELSE "done"]
        /\ err' = [err EXCEPT ![p] = Violation(p)]
        /\ UNCHANGED <<validator, req, todo, pos, kept, firstErr, out, seen, log, raced, crashed>>
    BY DEF UnknownMetric, Goto, mapVars
  <1>2. Here(p) \in PointType /\ pos[p] \in Nat /\ pos[p] >= 1 /\ pos[p] <= End(Here(p))
    BY <1>1, HereType
  <1>3. pc'[p] = (IF hasLogger THEN "look" ELSE "done") /\ err'[p] = Violation(p)
    BY <1>1 DEF TypeOK
  <1>4. /\ TodoInv(p)' /\ OutInv(p)' /\ Here(p)' = Here(p)
        /\ todo'[p] # <<>> /\ todo'[p][1] = Here(p)
        /\ Planned(p)' = Planned(p) /\ Typed(p)' = Typed(p)
        /\ via' = via /\ mode' = mode /\ hasLogger' = hasLogger /\ req' = req
        /\ TooSmall(req[p])' = TooSmall(req[p])
    BY <1>1, <1>3, Inside
  <1>5. Violation(p) \in ErrorType /\ Violation(p) # NoError /\ Violation(p) = Verdict(Here(p))
    BY <1>1, ViolationType
  <1>6. Types'
    <2>1. Types
      BY TypesAndPos
    <2> QED
      BY <1>1, <1>4, <1>5, <2>1 DEF Types
  <1>7. PosInv(p)'
    BY <1>1, <1>2, <1>4, PosBound
  <1>8. FilterInv(p)'
    <2>1. pc'[p] # "label" /\ pc'[p] # "record" /\ mode' # "disabled"
            /\ Here(p)'.metric \notin Metrics
      BY <1>1, <1>3, <1>4
    <2> QED
      BY <2>1 DEF FilterInv, Filtering
  <1>9. ErrInv(p)'
    <2>1. /\ ~TooSmall(req[p]) /\ ~Typed(p) /\ Len(Planned(p)) = 1
          /\ Here(p) = Planned(p)[1] /\ via # "instruments"
      BY <1>1, WithPoint DEF Fits
    <2> QED
      BY <1>1, <1>3, <1>4, <1>5, <2>1 DEF ErrInv, Filtering, Logging
  <1>10. TypedInv(p)'
    BY <1>1, <1>4 DEF CallInv, TypedInv
  <1> QED
    BY <1>4, <1>6, <1>7, <1>8, <1>9, <1>10 DEF CallInv

LEMMA KnownMetricStep ==
  ASSUME TypeOK, ValidatorInv, NEW p \in Calls, CallInv(p), KnownMetric(p)
  PROVE  Types' /\ CallInv(p)'
PROOF
  <1>1. /\ mode # "disabled" /\ pc[p] = "filter" /\ Here(p).metric \in Metrics
        /\ pc' = [pc EXCEPT ![p] = "label"] /\ pos' = [pos EXCEPT ![p] = 1]
        /\ kept' = [kept EXCEPT ![p] = <<>>] /\ firstErr' = [firstErr EXCEPT ![p] = NoError]
        /\ UNCHANGED <<validator, req, todo, out, err, seen, log, raced, crashed>>
    BY DEF KnownMetric, Goto, mapVars
  <1>2. Here(p) \in PointType /\ pos[p] \in Nat /\ pos[p] >= 1 /\ pos[p] <= End(Here(p))
    BY <1>1, HereType
  <1>3. pc'[p] = "label" /\ pos'[p] = 1 /\ kept'[p] = <<>> /\ firstErr'[p] = NoError
    BY <1>1 DEF TypeOK
  <1>4. /\ TodoInv(p)' /\ OutInv(p)' /\ Here(p)' = Here(p)
        /\ todo'[p] # <<>> /\ todo'[p][1] = Here(p) /\ Typed(p)' = Typed(p)
        /\ via' = via /\ mode' = mode /\ hasLogger' = hasLogger /\ req' = req
    BY <1>1, <1>3, Inside
  <1>5. Types'
    <2>1. Types
      BY TypesAndPos
    <2>2. <<>> \in Seq(Keys) /\ 1 \in Nat
      OBVIOUS
    <2> QED
      BY <1>1, <1>4, <2>1, <2>2, NoErrorType DEF Types
  <1>6. PosInv(p)'
    <2>1. 1 \in Nat /\ 1 >= 1 /\ 1 <= End(Here(p))
      <3>1. PICK end : end = End(Here(p))
        OBVIOUS
      <3>2. PICK l \in Nat : end = l + 1
        BY <1>2, <3>1, PointShape DEF End
      <3> QED
        BY <3>1, <3>2
    <2> QED
      BY <1>2, <1>3, <1>4, <2>1, PosBound
  <1>7. FilterInv(p)'
    <2>1. Selection(<<>>, Here(p).keys, Chosen(Here(p), 1)) /\ FirstError(NoError, Here(p), 1)
      BY <1>2, ChosenStarts
    <2> QED
      BY <1>1, <1>3, <1>4, <2>1 DEF FilterInv, Filtering, Logging
  <1>8. ErrInv(p)'
    <2>1. err'[p] = NoError
      BY <1>1 DEF CallInv, ErrInv
    <2> QED
      BY <1>1, <1>3, <1>4, <2>1 DEF ErrInv, Filtering, Logging
  <1>9. TypedInv(p)'
    BY <1>3 DEF TypedInv
  <1> QED
    BY <1>4, <1>5, <1>6, <1>7, <1>8, <1>9 DEF CallInv

LEMMA KeepLabelStep ==
  ASSUME TypeOK, ValidatorInv, NEW p \in Calls, CallInv(p), KeepLabel(p)
  PROVE  Types' /\ CallInv(p)'
PROOF
  <1>1. /\ pc[p] = "label" /\ ~AtEnd(p) /\ Reason(Here(p).metric, Key(p)) = ""
        /\ pc' = [pc EXCEPT ![p] = "label"]
        /\ kept' = [kept EXCEPT ![p] = Append(kept[p], Key(p))]
        /\ pos' = [pos EXCEPT ![p] = pos[p] + 1]
        /\ UNCHANGED <<validator, req, todo, firstErr, out, err, seen, log, raced, crashed>>
    BY DEF KeepLabel, Goto, mapVars
  <1>2. Here(p) \in PointType /\ pos[p] \in Nat /\ pos[p] >= 1
    BY <1>1, HereType
  <1>3. /\ pos[p] \in DOMAIN Here(p).keys /\ Key(p) \in Keys
        /\ Key(p) = Here(p).keys[pos[p]] /\ pos[p] + 1 <= End(Here(p))
    BY <1>1, KeyType
  <1>4. /\ pc'[p] = "label" /\ pos'[p] = pos[p] + 1 /\ kept'[p] = Append(kept[p], Key(p))
        /\ firstErr'[p] = firstErr[p] /\ err'[p] = err[p]
    BY <1>1 DEF TypeOK
  <1>5. /\ TodoInv(p)' /\ OutInv(p)' /\ Here(p)' = Here(p)
        /\ todo'[p] # <<>> /\ todo'[p][1] = Here(p) /\ Typed(p)' = Typed(p)
        /\ via' = via /\ mode' = mode /\ hasLogger' = hasLogger /\ req' = req
    BY <1>1, <1>4, Inside
  <1>6. Types'
    <2>1. Types
      BY TypesAndPos
    <2>2. Append(kept[p], Key(p)) \in Seq(Keys) /\ pos[p] + 1 \in Nat
      BY <1>2, <1>3, CallTypes
    <2> QED
      BY <1>1, <1>5, <2>1, <2>2 DEF Types
  <1>7. PosInv(p)'
    <2>1. pos'[p] \in Nat /\ pos'[p] >= 1 /\ pos'[p] <= End(Here(p))
      BY <1>2, <1>3, <1>4
    <2> QED
      BY <1>2, <1>5, <2>1, PosBound
  <1>8. FilterInv(p)'
    <2>1. /\ mode # "disabled" /\ Here(p).metric \in Metrics
          /\ Selection(kept[p], Here(p).keys, Chosen(Here(p), pos[p]))
          /\ FirstError(firstErr[p], Here(p), pos[p])
      BY <1>1 DEF CallInv, FilterInv, Filtering
    <2>2. PICK point \in PointType : point = Here(p)
      BY <1>2
    <2>3. PICK end \in DOMAIN point.keys : end = pos[p]
      BY <1>3, <2>2
    <2>4. PICK list \in Seq(Keys) : list = kept[p]
      BY CallTypes
    <2>5. Selection(Append(list, point.keys[end]), point.keys, Chosen(point, end + 1))
            /\ FirstError(firstErr[p], point, end + 1)
      BY <1>1, <1>3, <2>1, <2>2, <2>3, <2>4, KeepGrows
    <2>6. Selection(kept'[p], Here(p).keys, Chosen(Here(p), pos'[p]))
            /\ FirstError(firstErr'[p], Here(p), pos'[p])
      BY <1>3, <1>4, <2>2, <2>3, <2>4, <2>5
    <2> QED
      BY <1>4, <1>5, <2>1, <2>6 DEF FilterInv, Filtering, Logging
  <1>9. ErrInv(p)'
    <2>1. err[p] = NoError
      BY <1>1 DEF CallInv, ErrInv, Filtering
    <2> QED
      BY <1>4, <1>5, <2>1 DEF ErrInv, Filtering, Logging
  <1>10. TypedInv(p)'
    BY <1>4, <1>5 DEF CallInv, TypedInv
  <1> QED
    BY <1>5, <1>6, <1>7, <1>8, <1>9, <1>10 DEF CallInv

LEMMA DropLabelStep ==
  ASSUME TypeOK, ValidatorInv, NEW p \in Calls, CallInv(p), DropLabel(p)
  PROVE  Types' /\ CallInv(p)'
PROOF
  <1> DEFINE e == IF firstErr[p] = NoError THEN Violation(p) ELSE firstErr[p]
  <1>1. /\ pc[p] = "label" /\ ~AtEnd(p) /\ Reason(Here(p).metric, Key(p)) # ""
        /\ pc' = [pc EXCEPT ![p] = IF hasLogger THEN "look" ELSE "label"]
        /\ firstErr' = Remember(p, Violation(p))
        /\ pos' = [pos EXCEPT ![p] = IF hasLogger THEN pos[p] ELSE pos[p] + 1]
        /\ UNCHANGED <<validator, req, todo, kept, out, err, seen, log, raced, crashed>>
    BY DEF DropLabel, Goto, mapVars
  <1>2. firstErr' = [firstErr EXCEPT ![p] = e]
    BY <1>1 DEF Remember, TypeOK
  <1>3. Here(p) \in PointType /\ pos[p] \in Nat /\ pos[p] >= 1 /\ pos[p] <= End(Here(p))
    BY <1>1, HereType
  <1>4. /\ pos[p] \in DOMAIN Here(p).keys /\ Key(p) = Here(p).keys[pos[p]]
        /\ pos[p] + 1 <= End(Here(p))
    BY <1>1, KeyType
  <1>5. /\ mode # "disabled" /\ Here(p).metric \in Metrics
        /\ Selection(kept[p], Here(p).keys, Chosen(Here(p), pos[p]))
        /\ FirstError(firstErr[p], Here(p), pos[p])
    BY <1>1 DEF CallInv, FilterInv, Filtering
  <1>6. Violation(p) \in ErrorType /\ Violation(p) = Rejection(Here(p), pos[p])
    BY <1>1, <1>4, <1>5, ViolationType
  <1>7. e \in ErrorType
    BY <1>6, CallTypes
  <1> HIDE DEF e
  <1>8. /\ pc'[p] = (IF hasLogger THEN "look" ELSE "label") /\ firstErr'[p] = e
        /\ pos'[p] = (IF hasLogger THEN pos[p] ELSE pos[p] + 1)
        /\ kept'[p] = kept[p] /\ err'[p] = err[p]
    BY <1>1, <1>2 DEF TypeOK
  <1>9. /\ TodoInv(p)' /\ OutInv(p)' /\ Here(p)' = Here(p)
        /\ todo'[p] # <<>> /\ todo'[p][1] = Here(p) /\ Typed(p)' = Typed(p)
        /\ via' = via /\ mode' = mode /\ hasLogger' = hasLogger /\ req' = req
    <2>1. pc[p] \notin {"idle", "done"} /\ pc'[p] # "idle"
      <3>1. pc'[p] = "look" \/ pc'[p] = "label"
        BY <1>8
      <3> QED
        BY <1>1, <3>1
    <2> QED
      BY <1>1, <2>1, Inside
  <1>10. Types'
    <2>1. Types
      BY TypesAndPos
    <2>2. (IF hasLogger THEN pos[p] ELSE pos[p] + 1) \in Nat
      BY <1>3
    <2> QED
      BY <1>1, <1>2, <1>7, <1>9, <2>1, <2>2 DEF Types
  <1>11. PosInv(p)'
    <2>1. pos'[p] \in Nat /\ pos'[p] >= 1 /\ pos'[p] <= End(Here(p))
      BY <1>3, <1>4, <1>8
    <2> QED
      BY <1>3, <1>9, <2>1, PosBound
  <1>12. /\ Chosen(Here(p), pos[p] + 1) = Chosen(Here(p), pos[p])
         /\ FirstError(e, Here(p), pos[p] + 1)
    <2>1. PICK point \in PointType : point = Here(p)
      BY <1>3
    <2>2. PICK end \in DOMAIN point.keys : end = pos[p]
      BY <1>4, <2>1
    <2>3. /\ Chosen(point, end + 1) = Chosen(point, end)
          /\ FirstError(IF firstErr[p] = NoError THEN Rejection(point, end) ELSE firstErr[p],
                        point, end + 1)
      BY <1>1, <1>4, <1>5, <2>1, <2>2, DropGrows
    <2> QED
      BY <1>6, <2>1, <2>2, <2>3 DEF e
  <1>13. FilterInv(p)'
    <2>1. Key(p)' = Here(p).keys[pos'[p]]
      BY <1>9 DEF Key
    <2>2. CASE hasLogger
      <3>1. Key(p)' = Key(p) /\ pos'[p] = pos[p]
        BY <1>4, <1>8, <2>1, <2>2
      <3>2. pc'[p] = "look" /\ kept'[p] = kept[p] /\ firstErr'[p] = e
        BY <1>8, <2>2
      <3>3. Selection(kept'[p], Here(p)'.keys, Chosen(Here(p)', pos'[p]))
        BY <1>5, <1>9, <3>1, <3>2
      <3>4. FirstError(firstErr'[p], Here(p)', pos'[p] + 1)
        BY <1>9, <1>12, <3>1, <3>2
      <3>5. pos'[p] \in DOMAIN Here(p)'.keys /\ Reason(Here(p)'.metric, Key(p)') # ""
        BY <1>1, <1>4, <1>9, <3>1
      <3> QED
        BY <1>5, <1>9, <3>2, <3>3, <3>4, <3>5 DEF FilterInv
    <2>3. CASE ~hasLogger
      BY <1>5, <1>8, <1>9, <1>12, <2>3 DEF FilterInv, Filtering, Logging
    <2> QED
      BY <2>2, <2>3
  <1>14. ErrInv(p)'
    <2>1. err[p] = NoError
      BY <1>1 DEF CallInv, ErrInv, Filtering
    <2> QED
      BY <1>5, <1>8, <1>9, <2>1 DEF ErrInv, Filtering, Logging
  <1>15. TypedInv(p)'
    <2>1. Typed(p) => Refused(Here(p), pos[p] + 1) = {}
      BY <1>1, WithPoint
    <2>2. pos[p] \in Refused(Here(p), pos[p] + 1)
      <3>1. pos[p] < pos[p] + 1
        BY <1>3
      <3> QED
        BY <1>1, <1>4, <3>1 DEF Refused
    <2> QED
      BY <1>9, <2>1, <2>2 DEF TypedInv
  <1> QED
    BY <1>9, <1>10, <1>11, <1>13, <1>14, <1>15 DEF CallInv

\* The end of log: the next label, or the end of the call.
LEMMA AfterLogStep ==
  ASSUME TypeOK, ValidatorInv, NEW p \in Calls, CallInv(p), Logging(p),
         pc' = [pc EXCEPT ![p] = AfterLogPC(p)], AfterLog(p),
         UNCHANGED <<validator, req, todo, kept, firstErr, out, err>>
  PROVE  pos' \in [Calls -> Nat] /\ CallInv(p)'
PROOF
  <1>1. pc[p] \notin {"idle", "done"} /\ pc[p] # "label"
    BY DEF Logging
  <1>2. Here(p) \in PointType /\ pos[p] \in Nat /\ pos[p] >= 1 /\ pos[p] <= End(Here(p))
    BY <1>1, HereType
  <1>3. pc'[p] = AfterLogPC(p) /\ pc'[p] \in {"label", "done"}
          /\ kept'[p] = kept[p] /\ firstErr'[p] = firstErr[p] /\ err'[p] = err[p]
    BY DEF AfterLogPC, TypeOK
  <1>4. /\ TodoInv(p)' /\ OutInv(p)' /\ Here(p)' = Here(p)
        /\ todo'[p] # <<>> /\ todo'[p][1] = Here(p)
        /\ Planned(p)' = Planned(p) /\ Typed(p)' = Typed(p)
        /\ via' = via /\ mode' = mode /\ hasLogger' = hasLogger /\ req' = req
        /\ TooSmall(req[p])' = TooSmall(req[p])
    BY <1>1, <1>3, Inside
  <1>5. TypedInv(p)'
    BY <1>3, <1>4 DEF CallInv, TypedInv
  <1>6. mode # "disabled"
    BY DEF CallInv, FilterInv, Logging
  <1>7. CASE Here(p).metric \in Metrics
    <2>1. pc'[p] = "label" /\ pos' = [pos EXCEPT ![p] = pos[p] + 1]
      BY <1>3, <1>7 DEF AfterLog, AfterLogPC
    <2>2. pos'[p] = pos[p] + 1 /\ pos' \in [Calls -> Nat]
      BY <1>2, <2>1 DEF TypeOK
    <2>3. /\ pos[p] \in DOMAIN Here(p).keys /\ Reason(Here(p).metric, Here(p).keys[pos[p]]) # ""
          /\ Selection(kept[p], Here(p).keys, Chosen(Here(p), pos[p]))
          /\ FirstError(firstErr[p], Here(p), pos[p] + 1)
      BY <1>1, <1>7 DEF CallInv, FilterInv, Filtering, Key
    <2>4. pos[p] + 1 <= End(Here(p)) /\ pos[p] + 1 >= 1 /\ pos[p] + 1 \in Nat
      <3>1. PICK end : end = End(Here(p))
        OBVIOUS
      <3>2. PICK l \in Nat : end = l + 1 /\ DOMAIN Here(p).keys = 1..l
        BY <1>2, <3>1, PointShape DEF End
      <3>3. PICK k : k = pos[p]
        OBVIOUS
      <3>4. k \in 1..l
        BY <2>3, <3>2, <3>3
      <3>5. k + 1 <= l + 1 /\ k + 1 >= 1 /\ k + 1 \in Nat
        BY <3>4
      <3> QED
        BY <3>1, <3>2, <3>3, <3>5
    <2>5. PosInv(p)'
      BY <1>2, <1>4, <2>2, <2>4, PosBound
    <2>6. Chosen(Here(p), pos[p] + 1) = Chosen(Here(p), pos[p])
      <3>1. PICK point \in PointType : point = Here(p)
        BY <1>2
      <3>2. PICK end \in DOMAIN point.keys : end = pos[p]
        BY <2>3, <3>1
      <3>3. Chosen(point, end + 1) = Chosen(point, end)
        <4>1. \A n \in DOMAIN point.keys :
                n \in Chosen(point, end + 1) <=> n \in Chosen(point, end)
          BY <2>3, <3>1, <3>2, OneFurther DEF Chosen
        <4>2. Chosen(point, end + 1) \subseteq DOMAIN point.keys
                /\ Chosen(point, end) \subseteq DOMAIN point.keys
          BY DEF Chosen
        <4> QED
          BY <4>1, <4>2
      <3> QED
        BY <3>1, <3>2, <3>3
    <2>7. FilterInv(p)'
      BY <1>3, <1>4, <1>6, <1>7, <2>1, <2>2, <2>3, <2>6 DEF FilterInv, Filtering, Logging
    <2>8. ErrInv(p)'
      <3>1. err[p] = NoError
        BY <1>7 DEF CallInv, ErrInv, Filtering
      <3> QED
        BY <1>3, <1>4, <2>1, <3>1 DEF ErrInv, Filtering, Logging
    <2> QED
      BY <1>4, <1>5, <2>2, <2>5, <2>7, <2>8 DEF CallInv
  <1>8. CASE Here(p).metric \notin Metrics
    <2>1. pc'[p] = "done" /\ pos' = pos
      BY <1>3, <1>8 DEF AfterLog, AfterLogPC
    <2>2. pos' \in [Calls -> Nat]
      BY <2>1 DEF TypeOK
    <2>3. PosInv(p)'
      BY <1>2, <1>4, <2>1, PosBound
    <2>4. FilterInv(p)'
      BY <1>4, <1>6, <2>1 DEF FilterInv, Filtering, Logging
    <2>5. ErrInv(p)'
      <3>1. /\ ~TooSmall(req[p]) /\ ~Typed(p) /\ Len(Planned(p)) = 1
            /\ Here(p) = Planned(p)[1] /\ via # "instruments"
        BY <1>1, <1>8, WithPoint DEF Fits
      <3>2. err[p] = Verdict(Here(p))
        BY <1>8 DEF CallInv, ErrInv
      <3>3. err[p] # NoError
        <4>1. Violation(p) # NoError /\ Violation(p) = Verdict(Here(p))
          BY <1>1, <1>8, ViolationType
        <4> QED
          BY <3>2, <4>1
      <3> QED
        BY <1>3, <1>4, <2>1, <3>1, <3>2, <3>3 DEF ErrInv, Filtering, Logging
    <2> QED
      BY <1>4, <1>5, <2>2, <2>3, <2>4, <2>5 DEF CallInv
  <1> QED
    BY <1>7, <1>8

LEMMA LookStep ==
  ASSUME TypeOK, ValidatorInv, NEW p \in Calls, CallInv(p), Look(p)
  PROVE  Types' /\ CallInv(p)'
PROOF
  <1>1. /\ pc[p] = "look" /\ raced' = (raced \/ Meets(p))
        /\ UNCHANGED <<validator, req, todo, kept, firstErr, out, err, seen, log, crashed>>
    BY DEF Look
  <1>2. Logging(p) /\ pc[p] \notin {"idle", "done"}
    BY <1>1 DEF Logging
  <1>3. Types
    BY TypesAndPos
  <1>4. via' = via /\ mode' = mode /\ hasLogger' = hasLogger /\ req' = req
    BY <1>1, Fixed
  <1>5. raced' \in BOOLEAN
    BY <1>1 DEF Meets, TypeOK
  <1>6. CASE Seen(Violation(p))
    <2>1. pc' = [pc EXCEPT ![p] = AfterLogPC(p)] /\ AfterLog(p)
      BY <1>6 DEF Look, Goto
    <2>2. pos' \in [Calls -> Nat] /\ CallInv(p)'
      BY <1>1, <1>2, <2>1, AfterLogStep
    <2>3. AfterLogPC(p) \in {"label", "done"}
      BY DEF AfterLogPC
    <2>4. Types'
      BY <1>1, <1>3, <1>4, <1>5, <2>1, <2>2, <2>3 DEF Types
    <2> QED
      BY <2>2, <2>4
  <1>7. CASE ~Seen(Violation(p))
    <2>1. pc' = [pc EXCEPT ![p] = "mark"] /\ UNCHANGED pos
      BY <1>7 DEF Look, Goto
    <2>2. pc'[p] = "mark"
      BY <2>1 DEF TypeOK
    <2>3. Types'
      BY <1>1, <1>3, <1>4, <1>5, <2>1 DEF Types
    <2>4. /\ TodoInv(p)' /\ OutInv(p)' /\ Here(p)' = Here(p)
          /\ todo'[p] # <<>> /\ todo'[p][1] = Here(p) /\ Typed(p)' = Typed(p)
      BY <1>1, <1>2, <2>2, Inside
    <2>5. Key(p)' = Key(p)
      BY <2>1, <2>4 DEF Key
    <2>6. PosInv(p)'
      BY <1>1, <2>1 DEF CallInv, PosInv
    <2>7. FilterInv(p)'
      BY <1>1, <1>4, <2>1, <2>2, <2>4, <2>5 DEF CallInv, FilterInv, Filtering, Logging
    <2>8. ErrInv(p)'
      BY <1>1, <1>4, <2>1, <2>2, <2>4 DEF CallInv, ErrInv, Filtering, Logging
    <2>9. TypedInv(p)'
      BY <1>1, <2>4 DEF CallInv, TypedInv
    <2> QED
      BY <2>3, <2>4, <2>6, <2>7, <2>8, <2>9 DEF CallInv
  <1> QED
    BY <1>6, <1>7

LEMMA MarkStep ==
  ASSUME TypeOK, ValidatorInv, NEW p \in Calls, CallInv(p), Mark(p)
  PROVE  Types' /\ CallInv(p)'
PROOF
  <1>1. /\ pc[p] = "mark" /\ pc' = [pc EXCEPT ![p] = "log"]
        /\ seen' = seen \cup {Violation(p)} \/ seen' = seen
        /\ UNCHANGED <<validator, req, todo, pos, kept, firstErr, out, err, log, raced, crashed>>
    BY DEF Mark, Goto
  <1>2. via' = via /\ mode' = mode /\ hasLogger' = hasLogger /\ req' = req
    BY <1>1, Fixed
  <1>3. pc'[p] = "log"
    BY <1>1 DEF TypeOK
  <1>4. /\ TodoInv(p)' /\ OutInv(p)' /\ Here(p)' = Here(p)
        /\ todo'[p] # <<>> /\ todo'[p][1] = Here(p) /\ Typed(p)' = Typed(p)
    BY <1>1, <1>3, Inside
  <1>5. Key(p)' = Key(p)
    BY <1>1, <1>4 DEF Key
  <1>6. Violation(p) \in ErrorType
    <2>1. Here(p).metric \in Metrics =>
            pos[p] \in DOMAIN Here(p).keys /\ Reason(Here(p).metric, Key(p)) # ""
      BY <1>1 DEF CallInv, FilterInv, Logging
    <2> QED
      BY <1>1, <2>1, ViolationType
  <1>7. Types'
    <2>1. Types
      BY TypesAndPos
    <2> QED
      BY <1>1, <1>2, <1>6, <2>1 DEF Types
  <1>8. PosInv(p)'
    BY <1>1 DEF CallInv, PosInv
  <1>9. FilterInv(p)'
    BY <1>1, <1>2, <1>3, <1>4, <1>5 DEF CallInv, FilterInv, Filtering, Logging
  <1>10. ErrInv(p)'
    BY <1>1, <1>2, <1>3, <1>4 DEF CallInv, ErrInv, Filtering, Logging
  <1>11. TypedInv(p)'
    BY <1>1, <1>4 DEF CallInv, TypedInv
  <1> QED
    BY <1>4, <1>7, <1>8, <1>9, <1>10, <1>11 DEF CallInv

LEMMA CallLoggerStep ==
  ASSUME TypeOK, ValidatorInv, NEW p \in Calls, CallInv(p), CallLogger(p)
  PROVE  Types' /\ CallInv(p)'
PROOF
  <1>1. /\ pc[p] = "log" /\ pc' = [pc EXCEPT ![p] = AfterLogPC(p)] /\ AfterLog(p)
        /\ log' = Append(log, Violation(p))
        /\ UNCHANGED <<validator, req, todo, kept, firstErr, out, err, seen, raced, crashed>>
    BY DEF CallLogger, Goto
  <1>2. Logging(p) /\ pc[p] \notin {"idle", "done"}
    BY <1>1 DEF Logging
  <1>3. via' = via /\ mode' = mode /\ hasLogger' = hasLogger /\ req' = req
    BY <1>1, Fixed
  <1>4. pos' \in [Calls -> Nat] /\ CallInv(p)'
    BY <1>1, <1>2, AfterLogStep
  <1>5. Violation(p) \in ErrorType
    <2>1. Here(p).metric \in Metrics =>
            pos[p] \in DOMAIN Here(p).keys /\ Reason(Here(p).metric, Key(p)) # ""
      BY <1>2 DEF CallInv, FilterInv
    <2> QED
      BY <1>2, <2>1, ViolationType
  <1>6. Types'
    <2>1. Types
      BY TypesAndPos
    <2>2. AfterLogPC(p) \in {"label", "done"}
      BY DEF AfterLogPC
    <2>3. log' \in Seq(ErrorType)
      BY <1>1, <1>5 DEF TypeOK
    <2> QED
      BY <1>1, <1>3, <1>4, <2>1, <2>2, <2>3 DEF Types
  <1> QED
    BY <1>4, <1>6

LEMMA RefuseStep ==
  ASSUME TypeOK, ValidatorInv, NEW p \in Calls, CallInv(p), Refuse(p)
  PROVE  Types' /\ CallInv(p)'
PROOF
  <1>1. /\ pc[p] = "label" /\ AtEnd(p) /\ mode = "strict" /\ firstErr[p] # NoError
        /\ pc' = [pc EXCEPT ![p] = IF via = "direct" THEN "record" ELSE "done"]
        /\ err' = [err EXCEPT ![p] = firstErr[p]]
        /\ UNCHANGED <<validator, req, todo, pos, kept, firstErr, out, seen, log, raced, crashed>>
    BY DEF Refuse, Goto, mapVars
  <1>2. Here(p) \in PointType /\ pos[p] \in Nat /\ pos[p] >= 1 /\ pos[p] <= End(Here(p))
    BY <1>1, HereType
  <1>3. /\ pc'[p] = (IF via = "direct" THEN "record" ELSE "done") /\ err'[p] = firstErr[p]
        /\ kept'[p] = kept[p] /\ pc'[p] \in {"record", "done"}
    BY <1>1 DEF TypeOK
  <1>4. /\ TodoInv(p)' /\ OutInv(p)' /\ Here(p)' = Here(p)
        /\ todo'[p] # <<>> /\ todo'[p][1] = Here(p)
        /\ Planned(p)' = Planned(p) /\ Typed(p)' = Typed(p)
        /\ via' = via /\ mode' = mode /\ hasLogger' = hasLogger /\ req' = req
        /\ TooSmall(req[p])' = TooSmall(req[p])
    BY <1>1, <1>3, Inside
  <1>5. Types'
    <2>1. Types
      BY TypesAndPos
    <2>2. firstErr[p] \in ErrorType
      BY CallTypes
    <2> QED
      BY <1>1, <1>4, <2>1, <2>2 DEF Types
  <1>6. PosInv(p)'
    BY <1>1 DEF CallInv, PosInv
  <1>7. pos[p] = End(Here(p))
    <2>1. PICK l \in Nat : l = Len(Here(p).keys)
      BY <1>2, PointShape
    <2> QED
      BY <1>1, <1>2, <2>1 DEF AtEnd, End
  <1>8. /\ Here(p).metric \in Metrics
        /\ Selection(kept[p], Here(p).keys, Chosen(Here(p), End(Here(p))))
        /\ FirstError(firstErr[p], Here(p), End(Here(p)))
    BY <1>1, <1>7 DEF CallInv, FilterInv, Filtering
  <1>9. firstErr[p] = Verdict(Here(p))
    BY <1>2, <1>8, FirstErrorIsVerdict
  <1>10. FilterInv(p)'
    BY <1>1, <1>3, <1>4, <1>8 DEF FilterInv, Filtering, Logging, Kept
  <1>11. ~Typed(p)
    BY <1>1 DEF CallInv, TypedInv
  <1>12. ErrInv(p)'
    <2>1. ~TooSmall(req[p]) /\ Len(Planned(p)) = 1 /\ Here(p) = Planned(p)[1] /\ out[p] = <<>>
      BY <1>1, <1>11, WithPoint
    <2> QED
      BY <1>1, <1>3, <1>4, <1>9, <1>11, <2>1 DEF ErrInv, Filtering, Logging
  <1>13. TypedInv(p)'
    BY <1>4, <1>11 DEF TypedInv
  <1> QED
    BY <1>4, <1>5, <1>6, <1>10, <1>12, <1>13 DEF CallInv

LEMMA AcceptStep ==
  ASSUME TypeOK, ValidatorInv, NEW p \in Calls, CallInv(p), Accept(p)
  PROVE  Types' /\ CallInv(p)'
PROOF
  <1>1. /\ pc[p] = "label" /\ AtEnd(p) /\ (mode = "strict" => firstErr[p] = NoError)
        /\ pc' = [pc EXCEPT ![p] = "record"]
        /\ UNCHANGED <<validator, req, todo, pos, kept, firstErr, out, err, seen, log, raced, crashed>>
    BY DEF Accept, Goto, mapVars
  <1>2. Here(p) \in PointType /\ pos[p] \in Nat /\ pos[p] >= 1 /\ pos[p] <= End(Here(p))
    BY <1>1, HereType
  <1>3. pc'[p] = "record" /\ err'[p] = err[p] /\ kept'[p] = kept[p]
    BY <1>1 DEF TypeOK
  <1>4. /\ TodoInv(p)' /\ OutInv(p)' /\ Here(p)' = Here(p) /\ Typed(p)' = Typed(p)
        /\ via' = via /\ mode' = mode /\ hasLogger' = hasLogger /\ req' = req
    BY <1>1, <1>3, Inside
  <1>5. Types'
    <2>1. Types
      BY TypesAndPos
    <2> QED
      BY <1>1, <1>4, <2>1 DEF Types
  <1>6. PosInv(p)'
    BY <1>1 DEF CallInv, PosInv
  <1>7. pos[p] = End(Here(p))
    <2>1. PICK l \in Nat : l = Len(Here(p).keys)
      BY <1>2, PointShape
    <2> QED
      BY <1>1, <1>2, <2>1 DEF AtEnd, End
  <1>8. /\ Here(p).metric \in Metrics
        /\ Selection(kept[p], Here(p).keys, Chosen(Here(p), End(Here(p))))
        /\ FirstError(firstErr[p], Here(p), End(Here(p)))
    BY <1>1, <1>7 DEF CallInv, FilterInv, Filtering
  <1>9. firstErr[p] = Verdict(Here(p))
    BY <1>2, <1>8, FirstErrorIsVerdict
  <1>10. FilterInv(p)'
    BY <1>3, <1>4, <1>8 DEF FilterInv, Filtering, Logging, Kept
  <1>11. ErrInv(p)'
    <2>1. err[p] = NoError
      BY <1>1 DEF CallInv, ErrInv, Filtering
    <2> QED
      BY <1>1, <1>3, <1>4, <1>9, <2>1 DEF ErrInv, Filtering, Logging
  <1>12. TypedInv(p)'
    BY <1>1, <1>4 DEF CallInv, TypedInv
  <1> QED
    BY <1>4, <1>5, <1>6, <1>10, <1>11, <1>12 DEF CallInv

LEMMA SeqSteps ==
  ASSUME NEW o \in Seq(PointType), NEW t \in Seq(PointType), NEW x \in PointType, t # <<>>
  PROVE  /\ Append(o, x) \in Seq(PointType) /\ Tail(t) \in Seq(PointType)
         /\ Len(o) \in Nat /\ Len(t) \in Nat /\ Len(t) >= 1
         /\ Len(Append(o, x)) = Len(o) + 1 /\ Len(Tail(t)) = Len(t) - 1
         /\ \A n \in DOMAIN Tail(t) : n + 1 \in DOMAIN t /\ Tail(t)[n] = t[n + 1] /\ n \in Nat
         /\ \A n \in DOMAIN Append(o, x) :
              \/ n \in DOMAIN o /\ Append(o, x)[n] = o[n]
              \/ n = Len(o) + 1 /\ Append(o, x)[n] = x
         /\ Tail(t) = <<>> <=> ~(Len(t) > 1)
PROOF
  <1>1. /\ Append(o, x) \in Seq(PointType) /\ Tail(t) \in Seq(PointType)
        /\ Len(o) \in Nat /\ Len(t) \in Nat /\ Len(t) >= 1
        /\ Len(Append(o, x)) = Len(o) + 1 /\ Len(Tail(t)) = Len(t) - 1
    OBVIOUS
  <1>2. \A n \in DOMAIN Tail(t) : n + 1 \in DOMAIN t /\ Tail(t)[n] = t[n + 1] /\ n \in Nat
    OBVIOUS
  <1>3. ASSUME NEW n \in DOMAIN Append(o, x)
        PROVE  \/ n \in DOMAIN o /\ Append(o, x)[n] = o[n]
               \/ n = Len(o) + 1 /\ Append(o, x)[n] = x
    OBVIOUS
  <1>4. Tail(t) = <<>> <=> ~(Len(t) > 1)
    <2>1. PICK s \in Seq(PointType) : s = Tail(t)
      BY <1>1
    <2>2. PICK l \in Nat : l = Len(t)
      BY <1>1
    <2>3. Len(s) = l - 1 /\ l >= 1
      BY <1>1, <2>1, <2>2
    <2>4. Len(s) = 0 <=> ~(l > 1)
      BY <2>2, <2>3
    <2> QED
      BY <2>1, <2>2, <2>4, EmptySeq
  <1> QED
    BY <1>1, <1>2, <1>3, <1>4

LEMMA RecordStep ==
  ASSUME TypeOK, ValidatorInv, NEW p \in Calls, CallInv(p), Record(p)
  PROVE  Types' /\ CallInv(p)'
PROOF
  <1>1. /\ pc[p] = "record"
        /\ pc' = [pc EXCEPT ![p] = IF Len(todo[p]) > 1 THEN "filter" ELSE "done"]
        /\ out' = [out EXCEPT ![p] =
                     Append(out[p], Point(Here(p).metric, kept[p], Here(p).value))]
        /\ todo' = [todo EXCEPT ![p] = Tail(todo[p])] /\ pos' = [pos EXCEPT ![p] = 1]
        /\ UNCHANGED <<validator, req, kept, firstErr, err, seen, log, raced, crashed>>
    BY DEF Record, Goto, mapVars
  <1>2. PICK o \in Seq(PointType) : o = out[p]
    BY CallTypes
  <1>3. PICK t \in Seq(PointType) : t = todo[p]
    BY CallTypes
  <1>4. PICK x : x = Point(Here(p).metric, kept[p], Here(p).value)
    OBVIOUS
  <1>5. PICK plan \in Seq(PointType) : plan = Planned(p)
    BY PlannedType
  <1>6. /\ t # <<>> /\ Here(p) \in PointType /\ Len(o) + 1 \in DOMAIN plan
        /\ Here(p) = plan[Len(o) + 1]
    BY <1>1, <1>2, <1>3, <1>5, HereType
  <1>7. x \in PointType /\ x.metric = Here(p).metric /\ x.keys = kept[p] /\ x.value = Here(p).value
    <2>1. /\ Here(p).metric \in MetricNames /\ Here(p).value \in {"", "input", "output"}
          /\ kept[p] \in Seq(Keys)
      BY <1>6, PointShape, CallTypes
    <2> QED
      BY <1>4, <2>1 DEF Point, PointType
  <1>8. /\ pc'[p] = (IF Len(t) > 1 THEN "filter" ELSE "done") /\ out'[p] = Append(o, x)
        /\ todo'[p] = Tail(t) /\ pos'[p] = 1 /\ err'[p] = err[p] /\ firstErr'[p] = firstErr[p]
    BY <1>1, <1>2, <1>3, <1>4 DEF TypeOK
  <1>9. /\ via' = via /\ mode' = mode /\ hasLogger' = hasLogger /\ req' = req
        /\ Planned(p)' = plan /\ Typed(p)' = Typed(p)
    BY <1>1, <1>5, Fixed
  <1>10. Types'
    <2>1. Types
      BY TypesAndPos
    <2>2. Append(o, x) \in Seq(PointType) /\ Tail(t) \in Seq(PointType) /\ 1 \in Nat
      BY <1>6, <1>7, SeqSteps
    <2> QED
      BY <1>1, <1>2, <1>3, <1>4, <1>9, <2>1, <2>2 DEF Types
  <1>11. PosInv(p)'
    <2>1. CASE Tail(t) = <<>>
      BY <1>8, <2>1 DEF PosInv
    <2>2. CASE Tail(t) # <<>>
      <3>1. Tail(t)[1] \in PointType
        BY <1>6, <2>2
      <3>2. 1 \in Nat /\ 1 >= 1 /\ 1 <= End(Tail(t)[1])
        <4>1. PICK l \in Nat : l = Len(Tail(t)[1].keys)
          BY <3>1, PointShape
        <4> QED
          BY <4>1 DEF End
      <3> QED
        BY <1>8, <2>2, <3>1, <3>2, PosBound
    <2> QED
      BY <2>1, <2>2
  <1>12. /\ Len(o) + Len(t) = Len(plan)
         /\ \A n \in DOMAIN t : t[n] = plan[Len(o) + n]
    BY <1>1, <1>2, <1>3, <1>5 DEF CallInv, TodoInv
  <1>13. TodoInv(p)'
    <2>1. Len(Append(o, x)) + Len(Tail(t)) = Len(plan)
      <3>1. PICK a \in Nat : a = Len(o)
        BY <1>6, <1>7, SeqSteps
      <3>2. PICK b \in Nat : b = Len(t)
        BY <1>6, <1>7, SeqSteps
      <3>3. (a + 1) + (b - 1) = a + b
        OBVIOUS
      <3> QED
        BY <1>6, <1>7, <1>12, <3>1, <3>2, <3>3, SeqSteps
    <2>2. \A n \in DOMAIN Tail(t) : Tail(t)[n] = plan[Len(Append(o, x)) + n]
      <3>1. TAKE n \in DOMAIN Tail(t)
      <3>2. n + 1 \in DOMAIN t /\ Tail(t)[n] = t[n + 1] /\ n \in Nat
        BY <1>6, <1>7, SeqSteps
      <3>3. Len(o) + (n + 1) = (Len(o) + 1) + n
        BY <3>2
      <3>4. t[n + 1] = plan[Len(o) + (n + 1)]
        BY <1>12, <3>2
      <3> QED
        BY <1>6, <1>7, <3>2, <3>3, <3>4, SeqSteps
    <2>3. pc'[p] = "filter" => Tail(t) # <<>>
      BY <1>6, <1>7, <1>8, SeqSteps
    <2>4. pc'[p] \in {"filter", "done"}
      BY <1>8
    <2> QED
      BY <1>8, <1>9, <2>1, <2>2, <2>3, <2>4 DEF TodoInv
  <1>14. /\ Kept(x.keys, plan[Len(o) + 1])
         /\ mode = "strict" /\ via = "instruments" => Verdict(plan[Len(o) + 1]) = NoError
    <2>1. Kept(kept[p], Here(p))
      BY <1>1 DEF CallInv, FilterInv
    <2>2. mode = "strict" /\ via = "instruments" => Verdict(Here(p)) = NoError
      BY <1>1 DEF CallInv, ErrInv
    <2> QED
      BY <1>6, <1>7, <2>1, <2>2
  <1>15. OutInv(p)'
    <2>1. ASSUME NEW n \in DOMAIN out'[p]
          PROVE  /\ out'[p][n].metric = plan[n].metric /\ out'[p][n].value = plan[n].value
                 /\ Kept(out'[p][n].keys, plan[n])
                 /\ mode = "strict" /\ via = "instruments" => Verdict(plan[n]) = NoError
      <3>1. CASE n \in DOMAIN o /\ out'[p][n] = o[n]
        BY <1>2, <1>5, <3>1 DEF CallInv, OutInv
      <3>2. CASE n = Len(o) + 1 /\ out'[p][n] = x
        BY <1>6, <1>7, <1>14, <3>2
      <3> QED
        BY <1>6, <1>7, <1>8, <2>1, <3>1, <3>2, SeqSteps
    <2> QED
      BY <1>9, <2>1 DEF OutInv, Kept
  <1>16. FilterInv(p)'
    <2>1. pc'[p] \in {"filter", "done"}
      BY <1>8
    <2> QED
      BY <2>1 DEF FilterInv, Filtering, Logging
  <1>17. ErrInv(p)'
    <2>1. ~TooSmall(req[p])
      BY <1>1, WithPoint
    <2>2. TooSmall(req[p])' = TooSmall(req[p])
      BY <1>9 DEF TooSmall
    <2>3. \/ err[p] = NoError /\ (mode = "strict" => Verdict(Here(p)) = NoError)
          \/ via = "direct" /\ err[p] # NoError /\ err[p] = Verdict(Here(p))
      BY <1>1 DEF CallInv, ErrInv
    <2>4. ~Typed(p) => Len(plan) = 1 /\ o = <<>> /\ Here(p) = plan[1]
      BY <1>1, <1>2, <1>5, WithPoint
    <2>5. CASE Len(t) > 1
      <3>1. PICK a \in Nat : a = Len(o)
        BY <1>6, <1>7, SeqSteps
      <3>2. PICK b \in Nat : b = Len(t)
        BY <1>6, <1>7, SeqSteps
      <3>3. a + b # 1
        BY <2>5, <3>1, <3>2
      <3>4. Typed(p)
        BY <1>12, <2>4, <3>1, <3>2, <3>3
      <3>5. err'[p] = NoError /\ pc'[p] = "filter"
        BY <1>8, <2>3, <2>5, <3>4 DEF Typed
      <3> QED
        BY <3>5 DEF ErrInv, Filtering, Logging
    <2>6. CASE ~(Len(t) > 1)
      <3>1. pc'[p] = "done" /\ todo'[p] = <<>>
        BY <1>6, <1>7, <1>8, <2>6, SeqSteps
      <3>2. CASE err[p] = NoError
        <4>1. ASSUME mode = "strict", NEW n \in DOMAIN plan
              PROVE  Verdict(plan[n]) = NoError
          <5>1. CASE Typed(p)
            <6>1. Fits(plan[n]) /\ plan[n] \in PointType
              BY <1>5, <5>1, PlannedType
            <6> QED
              BY <6>1, FitsIsClean
          <5>2. CASE ~Typed(p)
            <6>1. n = 1
              BY <2>4, <5>2
            <6> QED
              BY <2>3, <2>4, <3>2, <4>1, <5>2, <6>1
          <5> QED
            BY <5>1, <5>2
        <4> QED
          BY <1>8, <1>9, <2>1, <2>2, <3>1, <3>2, <4>1 DEF ErrInv, Filtering, Logging
      <3>3. CASE err[p] # NoError
        <4>1. via = "direct" /\ err[p] = Verdict(Here(p)) /\ ~Typed(p)
          BY <2>3, <3>3 DEF Typed
        <4> QED
          BY <1>8, <1>9, <2>1, <2>2, <2>4, <3>1, <3>3, <4>1 DEF ErrInv, Filtering, Logging
      <3> QED
        BY <3>2, <3>3
    <2> QED
      BY <2>5, <2>6
  <1>18. TypedInv(p)'
    BY <1>8, <1>9 DEF CallInv, TypedInv
  <1> QED
    BY <1>10, <1>11, <1>13, <1>15, <1>16, <1>17, <1>18 DEF CallInv

\* The calls that do not move.
Same(q) ==
  /\ pc'[q] = pc[q] /\ todo'[q] = todo[q] /\ pos'[q] = pos[q] /\ kept'[q] = kept[q]
  /\ firstErr'[q] = firstErr[q] /\ out'[q] = out[q] /\ err'[q] = err[q]
  /\ UNCHANGED <<validator, req>>

LEMMA OthersStay ==
  ASSUME TypeOK, NEW p \in Calls, Advance(p), NEW q \in Calls, q # p
  PROVE  Same(q)
PROOF
  <1> USE DEF Same, Goto
  <1>1. CASE Call(p)
    BY <1>1 DEF Call, TypeOK
  <1>2. CASE Bypass(p)
    BY <1>2 DEF Bypass, TypeOK
  <1>3. CASE UnknownMetric(p)
    BY <1>3 DEF UnknownMetric, TypeOK
  <1>4. CASE KnownMetric(p)
    BY <1>4 DEF KnownMetric, TypeOK
  <1>5. CASE KeepLabel(p)
    BY <1>5 DEF KeepLabel, TypeOK
  <1>6. CASE DropLabel(p)
    BY <1>6 DEF DropLabel, Remember, TypeOK
  <1>7. CASE Look(p)
    BY <1>7 DEF Look, AfterLog, TypeOK
  <1>8. CASE Mark(p)
    BY <1>8 DEF Mark, TypeOK
  <1>9. CASE CallLogger(p)
    BY <1>9 DEF CallLogger, AfterLog, TypeOK
  <1>10. CASE MapsMeet(p)
    BY <1>10 DEF MapsMeet, TypeOK
  <1>11. CASE Refuse(p)
    BY <1>11 DEF Refuse, TypeOK
  <1>12. CASE Accept(p)
    BY <1>12 DEF Accept, TypeOK
  <1>13. CASE Record(p)
    BY <1>13 DEF Record, TypeOK
  <1> QED
    BY <1>1, <1>2, <1>3, <1>4, <1>5, <1>6, <1>7, <1>8, <1>9, <1>10, <1>11, <1>12, <1>13
       DEF Advance

LEMMA SameStays ==
  ASSUME NEW q \in Calls, Same(q), CallInv(q)
  PROVE  /\ CallInv(q)' /\ Here(q)' = Here(q) /\ Key(q)' = Key(q)
         /\ Violation(q)' = Violation(q) /\ Planned(q)' = Planned(q)
         /\ (Filtering(q)' <=> Filtering(q))
         /\ mode' = mode /\ hasLogger' = hasLogger /\ via' = via
PROOF
  <1>1. /\ pc'[q] = pc[q] /\ todo'[q] = todo[q] /\ pos'[q] = pos[q] /\ kept'[q] = kept[q]
        /\ firstErr'[q] = firstErr[q] /\ out'[q] = out[q] /\ err'[q] = err[q]
    BY DEF Same
  <1>2. /\ via' = via /\ mode' = mode /\ hasLogger' = hasLogger /\ req' = req
        /\ Planned(q)' = Planned(q) /\ Typed(q)' = Typed(q)
    BY Fixed DEF Same
  <1>3. Here(q)' = Here(q)
    BY <1>1 DEF Here
  <1>4. Key(q)' = Key(q)
    BY <1>1, <1>3 DEF Key
  <1>5. Violation(q)' = Violation(q)
    BY <1>3, <1>4 DEF Violation
  <1>6. Filtering(q)' <=> Filtering(q)
    BY <1>1, <1>3 DEF Filtering, Logging
  <1>7. Logging(q)' <=> Logging(q)
    BY <1>1 DEF Logging
  <1>8. PosInv(q)'
    BY <1>1 DEF CallInv, PosInv
  <1>9. TodoInv(q)'
    BY <1>1, <1>2 DEF CallInv, TodoInv
  <1>10. OutInv(q)'
    BY <1>1, <1>2 DEF CallInv, OutInv, Kept
  <1>11. FilterInv(q)'
    BY <1>1, <1>2, <1>3, <1>4, <1>6, <1>7 DEF CallInv, FilterInv, Kept
  <1>12. ErrInv(q)'
    <2>1. TooSmall(req[q])' = TooSmall(req[q])
      BY <1>2 DEF TooSmall
    <2> QED
      BY <1>1, <1>2, <1>3, <1>6, <1>7, <2>1 DEF CallInv, ErrInv
  <1>13. TypedInv(q)'
    BY <1>1, <1>2 DEF CallInv, TypedInv
  <1> QED
    BY <1>2, <1>3, <1>4, <1>5, <1>6, <1>8, <1>9, <1>10, <1>11, <1>12, <1>13 DEF CallInv

LEMMA MapsMeetStep ==
  ASSUME TypeOK, NEW p \in Calls, CallInv(p), MapsMeet(p)
  PROVE  Types' /\ CallInv(p)'
PROOF
  <1>1. Types'
    <2>1. Types
      BY TypesAndPos
    <2> QED
      BY <2>1 DEF Types, MapsMeet, validator
  <1>2. Same(p)
    BY DEF Same, MapsMeet
  <1> QED
    BY <1>1, <1>2, SameStays

\* Every step keeps the types and the invariant of every call.
LEMMA CallsStep ==
  ASSUME TypeOK, ValidatorInv, \A q \in Calls : CallInv(q), NEW p \in Calls, Advance(p)
  PROVE  TypeOK' /\ ValidatorInv' /\ \A q \in Calls : CallInv(q)'
PROOF
  <1>1. Types' /\ CallInv(p)'
    <2>1. CallInv(p)
      OBVIOUS
    <2> QED
      BY <2>1, CallStep, BypassStep, UnknownMetricStep, KnownMetricStep, KeepLabelStep,
         DropLabelStep, LookStep, MarkStep, CallLoggerStep, MapsMeetStep, RefuseStep,
         AcceptStep, RecordStep DEF Advance
  <1>2. ASSUME NEW q \in Calls
        PROVE  CallInv(q)'
    <2>1. CASE q = p
      BY <1>1, <2>1
    <2>2. CASE q # p
      BY <2>2, OthersStay, SameStays
    <2> QED
      BY <2>1, <2>2
  <1>3. \A q \in Calls : PosInv(q)'
    BY <1>2 DEF CallInv
  <1>4. TypeOK'
    BY <1>1, <1>3, TypesAndPosNext
  <1>5. ValidatorInv'
    <2>1. UNCHANGED <<validator, req>>
      BY DEF Advance, Call, Bypass, UnknownMetric, KnownMetric, KeepLabel, DropLabel, Look,
             Mark, CallLogger, MapsMeet, Refuse, Accept, Record
    <2> QED
      BY <2>1, Fixed DEF ValidatorInv
  <1> QED
    BY <1>2, <1>4, <1>5

-----------------------------------------------------------------------------
\* What is told

\* A step adds to the map and to the log, and nothing leaves them.
LEMMA Telling ==
  ASSUME NEW p \in Calls, Advance(p)
  PROVE  \/ pc[p] = "mark" /\ Mark(p)
         \/ pc[p] = "log" /\ CallLogger(p)
         \/ pc[p] = "look" /\ Look(p) /\ seen' = seen /\ log' = log
         \/ pc[p] = "mark" /\ MapsMeet(p) /\ seen' = seen /\ log' = log /\ raced' = raced
         \/ /\ pc[p] \in {"idle", "filter", "label", "record"}
            /\ seen' = seen /\ log' = log /\ raced' = raced
            /\ \/ Call(p) \/ Bypass(p) \/ UnknownMetric(p) \/ KnownMetric(p) \/ KeepLabel(p)
               \/ DropLabel(p) \/ Refuse(p) \/ Accept(p) \/ Record(p)
PROOF
  <1>1. Call(p) => pc[p] = "idle" /\ seen' = seen /\ log' = log /\ raced' = raced
    BY DEF Call, Goto, mapVars
  <1>2. Bypass(p) => pc[p] = "filter" /\ seen' = seen /\ log' = log /\ raced' = raced
    BY DEF Bypass, Goto, mapVars
  <1>3. UnknownMetric(p) => pc[p] = "filter" /\ seen' = seen /\ log' = log /\ raced' = raced
    BY DEF UnknownMetric, Goto, mapVars
  <1>4. KnownMetric(p) => pc[p] = "filter" /\ seen' = seen /\ log' = log /\ raced' = raced
    BY DEF KnownMetric, Goto, mapVars
  <1>5. KeepLabel(p) => pc[p] = "label" /\ seen' = seen /\ log' = log /\ raced' = raced
    BY DEF KeepLabel, Goto, mapVars
  <1>6. DropLabel(p) => pc[p] = "label" /\ seen' = seen /\ log' = log /\ raced' = raced
    BY DEF DropLabel, Goto, mapVars
  <1>7. Look(p) => pc[p] = "look" /\ seen' = seen /\ log' = log
    BY DEF Look
  <1>8. Mark(p) => pc[p] = "mark"
    BY DEF Mark, Goto
  <1>9. CallLogger(p) => pc[p] = "log"
    BY DEF CallLogger, Goto
  <1>10. MapsMeet(p) => pc[p] = "mark" /\ seen' = seen /\ log' = log /\ raced' = raced
    BY DEF MapsMeet
  <1>11. Refuse(p) => pc[p] = "label" /\ seen' = seen /\ log' = log /\ raced' = raced
    BY DEF Refuse, Goto, mapVars
  <1>12. Accept(p) => pc[p] = "label" /\ seen' = seen /\ log' = log /\ raced' = raced
    BY DEF Accept, Goto, mapVars
  <1>13. Record(p) => pc[p] = "record" /\ seen' = seen /\ log' = log /\ raced' = raced
    BY DEF Record, Goto, mapVars
  <1> QED
    BY <1>1, <1>2, <1>3, <1>4, <1>5, <1>6, <1>7, <1>8, <1>9, <1>10, <1>11, <1>12, <1>13
       DEF Advance

LEMMA LogGrows ==
  ASSUME NEW l \in Seq(ErrorType), NEW v \in ErrorType
  PROVE  /\ Append(l, v)[Len(l) + 1] = v /\ Len(l) + 1 \in DOMAIN Append(l, v)
         /\ Len(l) + 1 \notin DOMAIN l
         /\ \A n \in DOMAIN l : n \in DOMAIN Append(l, v) /\ Append(l, v)[n] = l[n]
         /\ \A n \in DOMAIN Append(l, v) : n \in DOMAIN l \/ n = Len(l) + 1
PROOF
  OBVIOUS

LEMMA LoggingTypes ==
  ASSUME TypeOK, ValidatorInv, NEW p \in Calls, CallInv(p), Logging(p)
  PROVE  /\ Violation(p) \in ErrorType /\ Here(p) \in PointType
         /\ Here(p).metric \in Metrics => Violation(p) = Rejection(Here(p), pos[p])
              /\ pos[p] \in DOMAIN Here(p).keys /\ Reason(Here(p).metric, Here(p).keys[pos[p]]) # ""
         /\ Here(p).metric \notin Metrics => Violation(p) = UnknownMetricError(Here(p))
PROOF
  <1>1. pc[p] \notin {"idle", "done"}
    BY DEF Logging
  <1>2. Here(p).metric \in Metrics =>
          pos[p] \in DOMAIN Here(p).keys /\ Reason(Here(p).metric, Key(p)) # ""
    BY DEF CallInv, FilterInv
  <1>3. Here(p) \in PointType
    BY <1>1, HereType
  <1>4. /\ Violation(p) \in ErrorType
        /\ Here(p).metric \in Metrics => Violation(p) = Rejection(Here(p), pos[p])
        /\ Here(p).metric \notin Metrics => Violation(p) = UnknownMetricError(Here(p))
    BY <1>1, <1>2, ViolationType
  <1> QED
    BY <1>2, <1>3, <1>4 DEF Key

LEMMA LoggerTells ==
  ASSUME TypeOK, ValidatorInv, NEW p \in Calls, CallInv(p), CallLogger(p), NEW v
  PROVE  Logged(v)' <=> Logged(v) \/ v = Violation(p)
PROOF
  <1>1. log' = Append(log, Violation(p)) /\ Logging(p)
    BY DEF CallLogger, Goto, Logging
  <1>2. PICK l \in Seq(ErrorType) : l = log
    BY DEF TypeOK
  <1>3. PICK w \in ErrorType : w = Violation(p)
    BY <1>1, LoggingTypes
  <1> QED
    BY <1>1, <1>2, <1>3, LogGrows DEF Logged

LEMMA ToldStays ==
  ASSUME TypeOK, ValidatorInv, NEW p \in Calls, CallInv(p), Advance(p), NEW v, Told(v)
  PROVE  Told(v)'
PROOF
  <1>1. CASE CallLogger(p)
    <2>1. seen' = seen
      BY <1>1 DEF CallLogger
    <2> QED
      BY <1>1, <2>1, LoggerTells DEF Told
  <1>2. CASE ~CallLogger(p)
    <2>1. log' = log /\ seen \subseteq seen'
      BY <1>2, Telling DEF Mark
    <2> QED
      BY <2>1 DEF Told, Logged
  <1> QED
    BY <1>1, <1>2

LEMMA ToldAllStays ==
  ASSUME TypeOK, ValidatorInv, NEW p \in Calls, CallInv(p), Advance(p),
         NEW point, NEW end, ToldAll(point, end)
  PROVE  ToldAll(point, end)'
PROOF
  BY ToldStays DEF ToldAll

LEMMA SettledOther ==
  ASSUME TypeOK, ValidatorInv, NEW p \in Calls, CallInv(p), Advance(p),
         NEW q \in Calls, q # p, CallInv(q), SettledInv(q)
  PROVE  SettledInv(q)'
PROOF
  <1>1. Same(q)
    BY OthersStay
  <1>2. /\ Here(q)' = Here(q) /\ Planned(q)' = Planned(q) /\ (Filtering(q)' <=> Filtering(q))
        /\ mode' = mode /\ hasLogger' = hasLogger /\ pc'[q] = pc[q] /\ pos'[q] = pos[q]
    BY <1>1, SameStays DEF Same
  <1>3. PICK here : here = Here(q)
    OBVIOUS
  <1>4. PICK end : end = pos[q]
    OBVIOUS
  <1>5. PICK point : point = Planned(q)[1]
    OBVIOUS
  <1>6. /\ ToldAll(here, end) => ToldAll(here, end)'
        /\ ToldAll(point, End(point)) => ToldAll(point, End(point))'
        /\ Told(UnknownMetricError(point)) => Told(UnknownMetricError(point))'
    BY ToldAllStays, ToldStays
  <1> QED
    BY <1>2, <1>3, <1>4, <1>5, <1>6 DEF SettledInv

\* What one label more or less means for what has to be told.
LEMMA ToldOneMore ==
  ASSUME NEW point \in PointType, NEW end \in DOMAIN point.keys, ToldAll(point, end)
  PROVE  /\ Reason(point.metric, point.keys[end]) = "" => ToldAll(point, end + 1)
         /\ Told(Rejection(point, end)) => ToldAll(point, end + 1)
PROOF
  <1>1. \A n \in Refused(point, end + 1) :
          n \in Refused(point, end)
            \/ (n = end /\ Reason(point.metric, point.keys[end]) # "")
    BY OneFurther DEF Refused
  <1> QED
    BY <1>1 DEF ToldAll

\* After log, what the call was at is told.
LEMMA SettledAfterLog ==
  ASSUME TypeOK, ValidatorInv, NEW p \in Calls, CallInv(p), SettledInv(p), Logging(p),
         Advance(p), UNCHANGED <<validator, req, todo, out>>, hasLogger, mode # "disabled",
         pc' = [pc EXCEPT ![p] = AfterLogPC(p)], AfterLog(p),
         NEW v, v = Violation(p), Told(v)'
  PROVE  SettledInv(p)'
PROOF
  <1>1. pc[p] \notin {"idle", "done"} /\ pc'[p] = AfterLogPC(p) /\ pc'[p] \in {"label", "done"}
    BY DEF Logging, AfterLogPC, TypeOK
  <1>2. /\ Here(p)' = Here(p) /\ Planned(p)' = Planned(p)
        /\ mode' = mode /\ hasLogger' = hasLogger
    BY <1>1, Inside
  <1>3. Here(p) = Planned(p)[1]
    BY <1>1, WithPoint
  <1>4. PICK point \in PointType : point = Here(p)
    BY LoggingTypes
  <1>5. CASE Here(p).metric \in Metrics
    <2>1. PICK end \in DOMAIN point.keys : end = pos[p]
      BY <1>4, <1>5, LoggingTypes
    <2>2. v = Rejection(point, end)
      BY <1>4, <1>5, <2>1, LoggingTypes
    <2>3. ToldAll(point, end)
      BY <1>4, <1>5, <2>1 DEF SettledInv, Filtering
    <2>4. ToldAll(point, end)'
      BY <2>3, ToldAllStays
    <2>5. Told(Rejection(point, end))'
      BY <2>2
    <2>6. ToldAll(point, end + 1)'
      <3>1. \A n \in Refused(point, end + 1) : n \in Refused(point, end) \/ n = end
        BY OneFurther DEF Refused
      <3> QED
        BY <2>4, <2>5, <3>1 DEF ToldAll
    <2>7. pc'[p] = "label" /\ pos'[p] = end + 1
      BY <1>1, <1>5, <2>1 DEF AfterLog, AfterLogPC, TypeOK
    <2> QED
      BY <1>2, <1>4, <2>6, <2>7 DEF SettledInv
  <1>6. CASE Here(p).metric \notin Metrics
    <2>1. pc'[p] = "done"
      BY <1>1, <1>6 DEF AfterLogPC
    <2>2. Told(UnknownMetricError(point))'
      <3>1. v = UnknownMetricError(point)
        BY <1>4, <1>6, LoggingTypes
      <3> QED
        BY <3>1
    <2> QED
      BY <1>2, <1>3, <1>4, <1>6, <2>1, <2>2 DEF SettledInv, Filtering, Logging
  <1> QED
    BY <1>5, <1>6

\* A step within a point that leaves what is passed as it is.
LEMMA SettledInside ==
  ASSUME TypeOK, ValidatorInv, NEW p \in Calls, CallInv(p), SettledInv(p), Advance(p),
         pc[p] \notin {"idle", "done"}, UNCHANGED <<validator, req, todo, out>>,
         pc'[p] \in {"look", "mark", "log"}, pos'[p] = pos[p], Filtering(p) \/ pc[p] = "filter",
         pc[p] = "filter" => Here(p).metric \notin Metrics
  PROVE  SettledInv(p)'
PROOF
  <1>1. Here(p)' = Here(p) /\ mode' = mode /\ hasLogger' = hasLogger
    BY Inside
  <1>2. PICK point : point = Here(p)
    OBVIOUS
  <1>3. PICK end : end = pos[p]
    OBVIOUS
  <1>4. CASE Filtering(p)
    <2>1. hasLogger /\ mode # "disabled" => ToldAll(point, end)
      BY <1>2, <1>3, <1>4 DEF SettledInv
    <2>2. hasLogger /\ mode # "disabled" => ToldAll(point, end)'
      BY <2>1, ToldAllStays
    <2> QED
      BY <1>1, <1>2, <1>3, <2>2 DEF SettledInv
  <1>5. CASE pc[p] = "filter"
    BY <1>1, <1>5 DEF SettledInv, Filtering
  <1> QED
    BY <1>4, <1>5

LEMMA SettledMover ==
  ASSUME TypeOK, ValidatorInv, NEW p \in Calls, CallInv(p), SettledInv(p), Advance(p)
  PROVE  SettledInv(p)'
PROOF
  <1> SUFFICES ASSUME hasLogger', mode' # "disabled"
               PROVE  SettledInv(p)'
    BY DEF SettledInv
  <1>0. UNCHANGED <<validator, req>>
    BY DEF Advance, Call, Bypass, UnknownMetric, KnownMetric, KeepLabel, DropLabel, Look,
           Mark, CallLogger, MapsMeet, Refuse, Accept, Record
  <1>a. mode' = mode /\ hasLogger' = hasLogger /\ Planned(p)' = Planned(p) /\ via' = via
    BY <1>0, Fixed
  <1>b. /\ hasLogger /\ mode # "disabled" /\ via = "direct" /\ Len(Planned(p)) = 1
        /\ Planned(p) # <<>>
    <2>1. hasLogger /\ mode # "disabled" /\ via = "direct" /\ Len(Planned(p)) = 1
      BY <1>a, PlannedType DEF ValidatorInv
    <2> QED
      BY <2>1
  <1>c. pc[p] \notin {"idle", "done"} => Here(p) \in PointType /\ Here(p) = Planned(p)[1]
    BY <1>b, HereType, WithPoint
  <1>1. CASE Call(p)
    <2>1. pc'[p] = "filter"
      <3>1. ~(TooSmall(req[p]) /\ (via # "nil" \/ req[p].op = "usage")) /\ via # "nil"
              /\ Points(req[p]) # <<>>
        BY <1>b DEF Planned
      <3> QED
        BY <1>1, <3>1 DEF Call, Goto, TypeOK
    <2> QED
      BY <2>1 DEF SettledInv, Filtering, Logging
  <1>2. CASE Bypass(p)
    BY <1>2, <1>b DEF Bypass
  <1>3. CASE UnknownMetric(p)
    <2>1. /\ pc[p] = "filter" /\ pc'[p] = "look" /\ pos'[p] = pos[p]
          /\ Here(p).metric \notin Metrics /\ UNCHANGED <<validator, req, todo, out>>
      BY <1>3, <1>b DEF UnknownMetric, Goto, TypeOK
    <2> QED
      BY <2>1, SettledInside
  <1>4. CASE KnownMetric(p)
    <2>1. /\ pc[p] = "filter" /\ pc'[p] = "label" /\ pos'[p] = 1
          /\ UNCHANGED <<validator, req, todo, out>>
      BY <1>4 DEF KnownMetric, Goto, TypeOK
    <2>2. Here(p)' = Here(p)
      BY <2>1, Inside
    <2>3. PICK point \in PointType : point = Here(p)
      BY <1>c, <2>1
    <2>4. Refused(point, 1) = {}
      BY ChosenStarts
    <2>5. ToldAll(point, 1)'
      BY <2>4 DEF ToldAll
    <2> QED
      BY <2>1, <2>2, <2>3, <2>5 DEF SettledInv
  <1>5. CASE KeepLabel(p)
    <2>1. /\ pc[p] = "label" /\ pc'[p] = "label" /\ pos'[p] = pos[p] + 1 /\ ~AtEnd(p)
          /\ Reason(Here(p).metric, Key(p)) = ""
          /\ UNCHANGED <<validator, req, todo, out>>
      BY <1>5 DEF KeepLabel, Goto, TypeOK
    <2>2. Here(p)' = Here(p)
      BY <2>1, Inside
    <2>3. PICK point \in PointType : point = Here(p)
      BY <1>c, <2>1
    <2>4. PICK end \in DOMAIN point.keys : end = pos[p] /\ Key(p) = point.keys[end]
      BY <2>1, <2>3, KeyType
    <2>5. ToldAll(point, end)
      BY <1>b, <2>1, <2>3, <2>4 DEF SettledInv, Filtering
    <2>6. ToldAll(point, end + 1)
      BY <2>1, <2>3, <2>4, <2>5, ToldOneMore
    <2>7. ToldAll(point, end + 1)'
      BY <2>6, ToldAllStays
    <2> QED
      BY <2>1, <2>2, <2>3, <2>4, <2>7 DEF SettledInv
  <1>6. CASE DropLabel(p)
    <2>1. /\ pc[p] = "label" /\ pc'[p] = "look" /\ pos'[p] = pos[p]
          /\ UNCHANGED <<validator, req, todo, out>>
      BY <1>6, <1>b DEF DropLabel, Goto, TypeOK
    <2> QED
      BY <2>1, SettledInside DEF Filtering
  <1>7. CASE Look(p)
    <2>1. pc[p] = "look" /\ UNCHANGED <<validator, req, todo, out>> /\ Logging(p)
            /\ seen' = seen
      BY <1>7 DEF Look, Logging
    <2>2. CASE Seen(Violation(p))
      <3>1. pc' = [pc EXCEPT ![p] = AfterLogPC(p)] /\ AfterLog(p)
        BY <1>7, <2>2 DEF Look, Goto
      <3>2. PICK v : v = Violation(p)
        OBVIOUS
      <3>3. Told(v)'
        BY <2>1, <2>2, <3>2 DEF Seen, Told
      <3> QED
        BY <1>b, <2>1, <3>1, <3>2, <3>3, SettledAfterLog
    <2>3. CASE ~Seen(Violation(p))
      <3>1. pc'[p] = "mark" /\ pos'[p] = pos[p]
        BY <1>7, <2>3 DEF Look, Goto, TypeOK
      <3>2. CASE Here(p).metric \in Metrics
        BY <2>1, <3>1, <3>2, SettledInside DEF Filtering
      <3>3. CASE Here(p).metric \notin Metrics
        <4>1. Here(p)' = Here(p)
          BY <2>1, <3>1, Inside
        <4> QED
          BY <3>1, <3>3, <4>1 DEF SettledInv, Filtering
      <3> QED
        BY <3>2, <3>3
    <2> QED
      BY <2>2, <2>3
  <1>8. CASE Mark(p)
    <2>1. /\ pc[p] = "mark" /\ pc'[p] = "log" /\ pos'[p] = pos[p] /\ Logging(p)
          /\ UNCHANGED <<validator, req, todo, out>>
      BY <1>8 DEF Mark, Goto, Logging, TypeOK
    <2>2. CASE Here(p).metric \in Metrics
      BY <2>1, <2>2, SettledInside DEF Filtering
    <2>3. CASE Here(p).metric \notin Metrics
      <3>1. Here(p)' = Here(p)
        BY <2>1, Inside
      <3> QED
        BY <2>1, <2>3, <3>1 DEF SettledInv, Filtering
    <2> QED
      BY <2>2, <2>3
  <1>9. CASE CallLogger(p)
    <2>1. /\ UNCHANGED <<validator, req, todo, out>> /\ Logging(p)
          /\ pc' = [pc EXCEPT ![p] = AfterLogPC(p)] /\ AfterLog(p)
      BY <1>9 DEF CallLogger, Goto, Logging
    <2>2. PICK v : v = Violation(p)
      OBVIOUS
    <2>3. Told(v)'
      BY <1>9, <2>2, LoggerTells DEF Told
    <2> QED
      BY <1>b, <2>1, <2>2, <2>3, SettledAfterLog
  <1>10. CASE MapsMeet(p)
    <2>1. pc[p] = "mark" /\ pc'[p] = "mark" /\ pos'[p] = pos[p] /\ Logging(p)
            /\ UNCHANGED <<validator, req, todo, out>>
      BY <1>10 DEF MapsMeet, Logging
    <2>2. CASE Here(p).metric \in Metrics
      BY <2>1, <2>2, SettledInside DEF Filtering
    <2>3. CASE Here(p).metric \notin Metrics
      <3>1. Here(p)' = Here(p)
        BY <2>1, Inside
      <3> QED
        BY <2>1, <2>3, <3>1 DEF SettledInv, Filtering
    <2> QED
      BY <2>2, <2>3
  <1>11. CASE Refuse(p) \/ Accept(p)
    <2>1. /\ pc[p] = "label" /\ pc'[p] \in {"record", "done"} /\ AtEnd(p)
          /\ UNCHANGED <<validator, req, todo, out>>
      BY <1>11 DEF Refuse, Accept, Goto, TypeOK
    <2>2. Here(p)' = Here(p)
      BY <2>1, Inside
    <2>3. PICK point \in PointType : point = Here(p)
      BY <1>c, <2>1
    <2>4. pos[p] = End(point) /\ point = Planned(p)[1]
      <3>1. PICK l \in Nat : l = Len(Here(p).keys)
        BY <2>3, PointShape
      <3>2. pos[p] \in Nat /\ pos[p] <= End(Here(p))
        BY <2>1, HereType
      <3> QED
        BY <1>c, <2>1, <2>3, <3>1, <3>2 DEF AtEnd, End
    <2>5. ToldAll(point, End(point)) /\ point.metric \in Metrics
      BY <1>b, <2>1, <2>3, <2>4 DEF SettledInv, Filtering, CallInv, FilterInv
    <2>6. ToldAll(point, End(point))'
      BY <2>5, ToldAllStays
    <2> QED
      BY <1>a, <2>1, <2>4, <2>5, <2>6 DEF SettledInv, Filtering, Logging
  <1>12. CASE Record(p)
    <2>1. pc[p] = "record" /\ pc'[p] \in {"filter", "done"}
      BY <1>12 DEF Record, Goto, TypeOK
    <2>2. PICK point : point = Planned(p)[1]
      OBVIOUS
    <2>3. IF point.metric \in Metrics THEN ToldAll(point, End(point))
          ELSE Told(UnknownMetricError(point))
      BY <1>b, <2>1, <2>2 DEF SettledInv
    <2>4. /\ ToldAll(point, End(point)) => ToldAll(point, End(point))'
          /\ Told(UnknownMetricError(point)) => Told(UnknownMetricError(point))'
      BY ToldAllStays, ToldStays
    <2> QED
      BY <1>a, <2>1, <2>2, <2>3, <2>4 DEF SettledInv, Filtering, Logging
  <1> QED
    BY <1>1, <1>2, <1>3, <1>4, <1>5, <1>6, <1>7, <1>8, <1>9, <1>10, <1>11, <1>12 DEF Advance

-----------------------------------------------------------------------------
\* Who logs what is in the map

\* A violation stays what it is while it is looked up, marked and logged.
LEMMA ViolationStays ==
  ASSUME TypeOK, ValidatorInv, NEW p \in Calls, CallInv(p), pc[p] \in {"look", "mark"},
         pc'[p] \in {"mark", "log"}, UNCHANGED <<validator, req, todo, pos, out>>
  PROVE  Violation(p)' = Violation(p)
PROOF
  <1>1. Here(p)' = Here(p)
    BY Inside
  <1>2. Key(p)' = Key(p)
    BY <1>1 DEF Key
  <1> QED
    BY <1>1, <1>2 DEF Violation

LEMMA SeenStep ==
  ASSUME TypeOK, ValidatorInv, \A q \in Calls : CallInv(q), SeenInv, NEW p \in Calls, Advance(p)
  PROVE  SeenInv'
PROOF
  <1>1. ASSUME NEW q \in Calls, q # p
        PROVE  pc'[q] = pc[q] /\ Violation(q)' = Violation(q)
    BY <1>1, OthersStay, SameStays DEF Same
  <1>2. CASE Mark(p)
    <2>1. /\ pc[p] = "mark" /\ pc'[p] = "log" /\ log' = log
          /\ seen' = seen \cup {Violation(p)} \/ seen' = seen
          /\ UNCHANGED <<validator, req, todo, pos, out>>
      BY <1>2 DEF Mark, Goto, TypeOK
    <2>2. Violation(p)' = Violation(p)
      BY <2>1, ViolationStays
    <2>3. ASSUME NEW v \in seen
          PROVE  Logged(v)' \/ \E q \in Calls : pc'[q] = "log" /\ Violation(q)' = v
      <3>1. CASE Logged(v)
        BY <2>1, <3>1 DEF Logged
      <3>2. CASE ~Logged(v)
        <4>1. PICK q \in Calls : pc[q] = "log" /\ Violation(q) = v
          BY <3>2 DEF SeenInv
        <4>2. q # p
          BY <2>1, <4>1
        <4> QED
          BY <1>1, <4>1, <4>2
      <3> QED
        BY <3>1, <3>2
    <2>4. ASSUME NEW v \in seen'
          PROVE  Logged(v)' \/ \E q \in Calls : pc'[q] = "log" /\ Violation(q)' = v
      BY <2>1, <2>2, <2>3
    <2> QED
      BY <2>4 DEF SeenInv
  <1>3. CASE CallLogger(p)
    <2>1. seen' = seen
      BY <1>3 DEF CallLogger
    <2>2. ASSUME NEW v \in seen
          PROVE  Logged(v)' \/ \E q \in Calls : pc'[q] = "log" /\ Violation(q)' = v
      <3>1. CASE Logged(v) \/ v = Violation(p)
        BY <1>3, <3>1, LoggerTells
      <3>2. CASE ~(Logged(v) \/ v = Violation(p))
        <4>1. PICK q \in Calls : pc[q] = "log" /\ Violation(q) = v
          BY <3>2 DEF SeenInv
        <4>2. q # p
          BY <3>2, <4>1
        <4> QED
          BY <1>1, <4>1, <4>2
      <3> QED
        BY <3>1, <3>2
    <2> QED
      BY <2>1, <2>2 DEF SeenInv
  <1>4. CASE ~Mark(p) /\ ~CallLogger(p)
    <2>1. seen' = seen /\ log' = log /\ pc[p] # "log"
      BY <1>4, Telling
    <2>2. ASSUME NEW v \in seen
          PROVE  Logged(v)' \/ \E q \in Calls : pc'[q] = "log" /\ Violation(q)' = v
      <3>1. CASE Logged(v)
        BY <2>1, <3>1 DEF Logged
      <3>2. CASE ~Logged(v)
        <4>1. PICK q \in Calls : pc[q] = "log" /\ Violation(q) = v
          BY <3>2 DEF SeenInv
        <4>2. q # p
          BY <2>1, <4>1
        <4> QED
          BY <1>1, <4>1, <4>2
      <3> QED
        BY <3>1, <3>2
    <2> QED
      BY <2>1, <2>2 DEF SeenInv
  <1> QED
    BY <1>2, <1>3, <1>4

LEMMA AloneStep ==
  ASSUME TypeOK, ValidatorInv, \A q \in Calls : CallInv(q), AloneInv, NEW p \in Calls, Advance(p)
  PROVE  AloneInv'
PROOF
  <1> SUFFICES ASSUME ~raced'
               PROVE  AloneInv'
    BY DEF AloneInv
  <1>0. ~raced
    BY Telling DEF Look, Mark, CallLogger
  <1>1. ASSUME NEW q \in Calls, q # p
        PROVE  pc'[q] = pc[q] /\ Violation(q)' = Violation(q)
    BY <1>1, OthersStay, SameStays DEF Same
  <1>2. /\ \A q, r \in Calls : pc[q] = "mark" /\ pc[r] = "mark" => q = r
        /\ \A q \in Calls : pc[q] = "mark" => Violation(q) \notin seen
        /\ \A q \in Calls : pc[q] = "log" => Violation(q) \in seen /\ ~Logged(Violation(q))
        /\ \A q, r \in Calls :
             pc[q] = "log" /\ pc[r] = "log" /\ Violation(q) = Violation(r) => q = r
        /\ \A n \in DOMAIN log : log[n] \in seen
        /\ ~Repeated
    BY <1>0 DEF AloneInv
  <1>3. CASE Mark(p)
    <2>1. /\ pc[p] = "mark" /\ pc'[p] = "log" /\ log' = log
          /\ UNCHANGED <<validator, req, todo, pos, out>>
      BY <1>3 DEF Mark, Goto, TypeOK
    <2>2. Violation(p)' = Violation(p)
      BY <2>1, ViolationStays
    <2>3. seen' = seen \cup {Violation(p)}
      BY <1>2, <1>3, <2>1 DEF Mark
    <2>4. \A q \in Calls : pc'[q] # "mark"
      BY <1>1, <1>2, <2>1
    <2>5. Violation(p) \notin seen /\ ~Logged(Violation(p))
      BY <1>2, <2>1 DEF Logged
    <2>6. ASSUME NEW q \in Calls, pc'[q] = "log"
          PROVE  Violation(q)' \in seen' /\ ~(\E n \in DOMAIN log' : log'[n] = Violation(q)')
                   /\ (q # p => Violation(q) # Violation(p) /\ pc[q] = "log")
      <3>1. CASE q = p
        BY <2>1, <2>2, <2>3, <2>5, <3>1 DEF Logged
      <3>2. CASE q # p
        <4>1. pc[q] = "log" /\ Violation(q)' = Violation(q)
          BY <1>1, <2>6, <3>2
        <4>2. Violation(q) \in seen /\ ~Logged(Violation(q))
          BY <1>2, <4>1
        <4> QED
          BY <2>1, <2>3, <2>5, <4>1, <4>2 DEF Logged
      <3> QED
        BY <3>1, <3>2
    <2>7. \A q, r \in Calls : pc'[q] = "log" /\ pc'[r] = "log" /\ Violation(q)' = Violation(r)'
            => q = r
      BY <1>1, <1>2, <2>2, <2>6
    <2>8. (\A n \in DOMAIN log' : log'[n] \in seen') /\ ~Repeated'
      BY <1>2, <2>1, <2>3 DEF Repeated
    <2> QED
      BY <2>4, <2>6, <2>7, <2>8 DEF AloneInv, Logged
  <1>4. CASE CallLogger(p)
    <2>1. /\ pc[p] = "log" /\ pc'[p] \in {"label", "done"} /\ seen' = seen
          /\ log' = Append(log, Violation(p))
      BY <1>4 DEF CallLogger, Goto, AfterLogPC, TypeOK
    <2>2. PICK l \in Seq(ErrorType) : l = log
      BY DEF TypeOK
    <2>3. PICK v \in ErrorType : v = Violation(p)
      BY <2>1, LoggingTypes DEF Logging
    <2>4. v \in seen /\ \A n \in DOMAIN l : l[n] # v
      BY <1>2, <2>1, <2>2, <2>3 DEF Logged
    <2>5. log' = Append(l, v)
      BY <2>1, <2>2, <2>3
    <2>6. \A n \in DOMAIN log' : log'[n] \in seen'
      BY <1>2, <2>1, <2>2, <2>4, <2>5, LogGrows
    <2>7. ~Repeated'
      <3>1. ASSUME NEW m \in DOMAIN Append(l, v), NEW n \in DOMAIN Append(l, v), m # n
            PROVE  Append(l, v)[m] # Append(l, v)[n]
        <4>1. CASE m \in DOMAIN l /\ n \in DOMAIN l
          BY <1>2, <2>2, <3>1, <4>1, LogGrows DEF Repeated
        <4>2. CASE m \in DOMAIN l /\ n \notin DOMAIN l
          BY <2>4, <4>2, LogGrows
        <4>3. CASE m \notin DOMAIN l /\ n \in DOMAIN l
          BY <2>4, <4>3, LogGrows
        <4>4. CASE m \notin DOMAIN l /\ n \notin DOMAIN l
          BY <3>1, <4>4, LogGrows
        <4> QED
          BY <4>1, <4>2, <4>3, <4>4
      <3> QED
        BY <2>5, <3>1 DEF Repeated
    <2>8. ASSUME NEW q \in Calls, pc'[q] \in {"mark", "log"}
          PROVE  q # p /\ pc'[q] = pc[q] /\ Violation(q)' = Violation(q)
      BY <1>1, <2>1, <2>8
    <2>9. ASSUME NEW q \in Calls, pc'[q] = "log"
          PROVE  Violation(q)' \in seen' /\ ~(\E n \in DOMAIN log' : log'[n] = Violation(q)')
      <3>1. PICK w : w = Violation(q)
        OBVIOUS
      <3>2. w # v /\ w \in seen /\ ~Logged(w)
        BY <1>2, <2>1, <2>3, <2>8, <2>9, <3>1
      <3>3. \A n \in DOMAIN Append(l, v) : Append(l, v)[n] # w
        BY <2>2, <3>2, LogGrows DEF Logged
      <3> QED
        BY <2>1, <2>5, <2>8, <2>9, <3>1, <3>2, <3>3
    <2>10. ASSUME NEW q \in Calls, pc'[q] = "mark"
           PROVE  Violation(q)' \notin seen'
      BY <1>2, <2>1, <2>8, <2>10
    <2>11. \A q, r \in Calls : pc'[q] = "mark" /\ pc'[r] = "mark" => q = r
      BY <1>2, <2>8
    <2>12. \A q, r \in Calls : pc'[q] = "log" /\ pc'[r] = "log" /\ Violation(q)' = Violation(r)'
             => q = r
      BY <1>2, <2>8
    <2> QED
      BY <2>6, <2>7, <2>9, <2>10, <2>11, <2>12 DEF AloneInv, Logged
  <1>5. CASE Look(p) /\ ~Seen(Violation(p))
    <2>1. /\ pc[p] = "look" /\ pc'[p] = "mark" /\ seen' = seen /\ log' = log /\ ~Meets(p)
          /\ UNCHANGED <<validator, req, todo, pos, out>>
      BY <1>5 DEF Look, Goto, TypeOK
    <2>2. Violation(p)' = Violation(p) /\ Violation(p) \notin seen
      BY <1>5, <2>1, ViolationStays DEF Seen
    <2>3. \A q \in Calls : q # p => pc[q] # "mark"
      BY <2>1 DEF Meets, InMap
    <2>4. ASSUME NEW q \in Calls
          PROVE  /\ pc'[q] = "mark" <=> q = p
                 /\ pc'[q] = "log" => q # p /\ pc[q] = "log" /\ Violation(q)' = Violation(q)
      BY <1>1, <2>1, <2>3
    <2> QED
      BY <1>2, <2>1, <2>2, <2>4 DEF AloneInv, Logged, Repeated
  <1>6. CASE MapsMeet(p)
    <2>1. UNCHANGED <<validator, req, pc, todo, pos, kept, firstErr, out, err, seen, log>>
      BY <1>6 DEF MapsMeet
    <2>2. \A q \in Calls : Violation(q)' = Violation(q)
      BY <2>1 DEF Violation, Here, Key
    <2> QED
      BY <1>2, <2>1, <2>2 DEF AloneInv, Logged, Repeated
  <1>7. CASE ~Mark(p) /\ ~CallLogger(p) /\ ~(Look(p) /\ ~Seen(Violation(p))) /\ ~MapsMeet(p)
    <2>1. /\ seen' = seen /\ log' = log /\ pc[p] \notin {"mark", "log"}
      BY <1>7, Telling
    <2>2. pc'[p] \notin {"mark", "log"}
      <3>1. CASE Look(p)
        BY <1>7, <3>1 DEF Look, Goto, AfterLogPC, TypeOK
      <3>2. CASE ~Look(p)
        BY <1>7, <3>2 DEF Advance, Call, Bypass, UnknownMetric, KnownMetric, KeepLabel,
             DropLabel, Refuse, Accept, Record, Goto, TypeOK
      <3> QED
        BY <3>1, <3>2
    <2>3. ASSUME NEW q \in Calls, pc'[q] \in {"mark", "log"}
          PROVE  pc'[q] = pc[q] /\ Violation(q)' = Violation(q)
      BY <1>1, <2>2, <2>3
    <2> QED
      BY <1>2, <2>1, <2>3 DEF AloneInv, Logged, Repeated
  <1> QED
    BY <1>3, <1>4, <1>5, <1>6, <1>7

-----------------------------------------------------------------------------
\* The invariant holds

LEMMA InitInv == Init => IInv
PROOF
  <1> SUFFICES ASSUME Init PROVE IInv
    OBVIOUS
  <1>1. /\ via \in {"instruments", "nil", "direct"} /\ mode \in Modes
        /\ hasLogger \in (IF via = "direct" THEN BOOLEAN ELSE {FALSE})
        /\ req \in [Calls -> {r \in Requests : (r.op = "filter") <=> (via = "direct")}]
    BY DEF Init
  <1>2. /\ pc = [p \in Calls |-> "idle"] /\ todo = [p \in Calls |-> <<>>]
        /\ pos = [p \in Calls |-> 1] /\ kept = [p \in Calls |-> <<>>]
        /\ firstErr = [p \in Calls |-> NoError] /\ out = [p \in Calls |-> <<>>]
        /\ err = [p \in Calls |-> NoError]
        /\ seen = {} /\ log = <<>> /\ raced = FALSE /\ crashed = FALSE
    BY DEF Init
  <1>3. \A p \in Calls :
          /\ pc[p] = "idle" /\ todo[p] = <<>> /\ pos[p] = 1 /\ kept[p] = <<>>
          /\ firstErr[p] = NoError /\ out[p] = <<>> /\ err[p] = NoError
    BY <1>2
  <1>4. Types
    <2>1. mode \in {"log_and_drop", "strict", "disabled"} /\ hasLogger \in BOOLEAN
            /\ req \in [Calls -> Requests]
      BY <1>1, RequestsAssumption
    <2>2. <<>> \in Seq(PointType) /\ <<>> \in Seq(Keys) /\ <<>> \in Seq(ErrorType) /\ 1 \in Nat
      OBVIOUS
    <2> QED
      BY <1>1, <1>2, <2>1, <2>2, NoErrorType DEF Types
  <1>5. ASSUME NEW p \in Calls
        PROVE  CallInv(p)
    <2>1. PosInv(p)
      BY <1>3 DEF PosInv
    <2>2. TodoInv(p) /\ OutInv(p)
      <3>1. TodoInv(p)
        BY <1>3 DEF TodoInv
      <3>2. DOMAIN out[p] = {}
        BY <1>3
      <3> QED
        BY <3>1, <3>2 DEF OutInv
    <2>3. FilterInv(p) /\ ErrInv(p) /\ TypedInv(p)
      BY <1>3 DEF FilterInv, ErrInv, TypedInv, Filtering, Logging
    <2> QED
      BY <2>1, <2>2, <2>3 DEF CallInv
  <1>6. TypeOK
    BY <1>4, <1>5, TypesAndPos DEF CallInv
  <1>7. ValidatorInv
    BY <1>1 DEF ValidatorInv
  <1>8. \A p \in Calls : SettledInv(p)
    BY <1>3 DEF SettledInv, Filtering, Logging
  <1>9. SeenInv
    BY <1>2 DEF SeenInv
  <1>10. AloneInv
    BY <1>2, <1>3 DEF AloneInv, Repeated
  <1> QED
    BY <1>5, <1>6, <1>7, <1>8, <1>9, <1>10 DEF IInv

LEMMA StutterInv == IInv /\ UNCHANGED vars => IInv'
PROOF
  <1> SUFFICES ASSUME IInv, UNCHANGED vars PROVE IInv'
    OBVIOUS
  <1>0. /\ TypeOK /\ ValidatorInv /\ SeenInv /\ AloneInv
        /\ \A p \in Calls : CallInv(p) /\ SettledInv(p)
    BY DEF IInv
  <1>1. /\ via' = via /\ mode' = mode /\ hasLogger' = hasLogger /\ req' = req /\ pc' = pc
        /\ todo' = todo /\ pos' = pos /\ kept' = kept /\ firstErr' = firstErr /\ out' = out
        /\ err' = err /\ seen' = seen /\ log' = log /\ raced' = raced /\ crashed' = crashed
    BY DEF vars, validator, mapVars
  <1>2. TypeOK' /\ ValidatorInv'
    BY <1>0, <1>1 DEF TypeOK, ValidatorInv
  <1>3. ASSUME NEW p \in Calls
        PROVE  /\ CallInv(p)' /\ Violation(p)' = Violation(p) /\ Here(p)' = Here(p)
               /\ Planned(p)' = Planned(p) /\ (Filtering(p)' <=> Filtering(p))
    <2>1. Same(p)
      BY <1>1 DEF Same, validator
    <2> QED
      BY <1>0, <2>1, SameStays
  <1>4. SeenInv'
    BY <1>0, <1>1, <1>3 DEF SeenInv, Logged
  <1>5. AloneInv'
    BY <1>0, <1>1, <1>3 DEF AloneInv, Logged, Repeated
  <1>6. ASSUME NEW p \in Calls
        PROVE  SettledInv(p)'
    <2>1. \A v : Told(v)' <=> Told(v)
      BY <1>1 DEF Told, Logged
    <2>2. \A point, end : ToldAll(point, end)' <=> ToldAll(point, end)
      BY <2>1 DEF ToldAll
    <2>3. PICK here : here = Here(p)
      OBVIOUS
    <2>4. PICK point : point = Planned(p)[1]
      OBVIOUS
    <2>5. PICK end : end = pos[p]
      OBVIOUS
    <2> QED
      BY <1>0, <1>1, <1>3, <2>1, <2>2, <2>3, <2>4, <2>5 DEF SettledInv
  <1> QED
    BY <1>2, <1>3, <1>4, <1>5, <1>6 DEF IInv

LEMMA NextInv == IInv /\ [Next]_vars => IInv'
PROOF
  <1> SUFFICES ASSUME IInv, [Next]_vars PROVE IInv'
    OBVIOUS
  <1>1. CASE UNCHANGED vars
    BY <1>1, StutterInv
  <1>2. CASE \E p \in Calls : Advance(p)
    <2>1. PICK p \in Calls : Advance(p)
      BY <1>2
    <2>2. /\ TypeOK /\ ValidatorInv /\ SeenInv /\ AloneInv
          /\ \A q \in Calls : CallInv(q) /\ SettledInv(q)
      BY DEF IInv
    <2>3. TypeOK' /\ ValidatorInv' /\ \A q \in Calls : CallInv(q)'
      BY <2>1, <2>2, CallsStep
    <2>4. SeenInv'
      BY <2>1, <2>2, SeenStep
    <2>5. AloneInv'
      BY <2>1, <2>2, AloneStep
    <2>6. ASSUME NEW q \in Calls
          PROVE  SettledInv(q)'
      BY <2>1, <2>2, SettledMover, SettledOther
    <2> QED
      BY <2>3, <2>4, <2>5, <2>6 DEF IInv
  <1> QED
    BY <1>1, <1>2 DEF Next, Quiescent

\* The invariant the properties follow from.
THEOREM Invariance == Spec => []IInv
PROOF
  BY InitInv, NextInv, PTL DEF Spec

\* Every variable keeps its type, and the filter stays within the labels of its
\* point (cardinality.go:203-250).
THEOREM TypeCorrect == Spec => []TypeOK
PROOF
  <1>1. IInv => TypeOK
    BY DEF IInv
  <1> QED
    BY <1>1, Invariance, PTL

-----------------------------------------------------------------------------
\* What is recorded

LEMMA OutIsPlanned ==
  ASSUME IInv, NEW p \in Calls, NEW n \in DOMAIN out[p]
  PROVE  /\ n \in DOMAIN Planned(p) /\ Planned(p) = Points(req[p])
         /\ Planned(p)[n] \in PointType
PROOF
  <1>1. TypeOK /\ ValidatorInv /\ CallInv(p)
    BY DEF IInv
  <1>2. PICK o \in Seq(PointType) : o = out[p]
    BY <1>1, CallTypes
  <1>3. PICK t \in Seq(PointType) : t = todo[p]
    BY <1>1, CallTypes
  <1>4. PICK plan \in Seq(PointType) : plan = Planned(p)
    BY <1>1, PlannedType
  <1>5. pc[p] # "idle"
    BY <1>1 DEF CallInv, TodoInv
  <1>6. Len(o) + Len(t) = Len(plan)
    BY <1>1, <1>2, <1>3, <1>4, <1>5 DEF CallInv, TodoInv
  <1>7. n \in DOMAIN plan
    <2>1. PICK a \in Nat : a = Len(o)
      OBVIOUS
    <2>2. PICK b \in Nat : b = Len(t)
      OBVIOUS
    <2>3. DOMAIN o = 1..a /\ DOMAIN plan = 1..(a + b)
      BY <1>6, <2>1, <2>2
    <2>4. 1..a \subseteq 1..(a + b)
      OBVIOUS
    <2> QED
      BY <1>2, <2>3, <2>4
  <1>8. Planned(p) = Points(req[p])
    BY <1>4, <1>7 DEF Planned
  <1> QED
    BY <1>4, <1>7, <1>8

LEMMA InvExports == IInv => ExportsWhatLintAccepts
PROOF
  <1> SUFFICES ASSUME IInv, mode # "disabled", NEW p \in Calls, NEW n \in DOMAIN out[p]
               PROVE  LET source == Points(req[p])[n]
                          Fine(key) == CheckAllowedLabels(source.metric, <<key>>) = NoError
                          fine == {m \in DOMAIN source.keys : Fine(source.keys[m])}
                      IN /\ out[p][n].metric = source.metric
                         /\ out[p][n].value = source.value
                         /\ Selection(out[p][n].keys, source.keys, fine)
                         /\ source.metric \in Metrics
    BY DEF ExportsWhatLintAccepts
  <1>1. PICK source \in PointType : source = Points(req[p])[n] /\ source = Planned(p)[n]
    BY OutIsPlanned
  <1>2. CallInv(p)
    BY DEF IInv
  <1>3. /\ out[p][n].metric = source.metric /\ out[p][n].value = source.value
        /\ source.metric \in Metrics
        /\ Selection(out[p][n].keys, source.keys, Chosen(source, End(source)))
    BY <1>1, <1>2 DEF CallInv, OutInv, Kept
  <1> DEFINE fine == {m \in DOMAIN source.keys :
                        CheckAllowedLabels(source.metric, <<source.keys[m]>>) = NoError}
  <1>4. fine = Chosen(source, End(source))
    <2>1. \A m \in DOMAIN source.keys : source.keys[m] \in Keys /\ m < End(source)
      BY PointShape, OneFurther
    <2>2. \A m \in DOMAIN source.keys :
            CheckAllowedLabels(source.metric, <<source.keys[m]>>) = NoError
              <=> Reason(source.metric, source.keys[m]) = ""
      BY <1>3, <2>1, LintOfOne
    <2> QED
      BY <2>1, <2>2 DEF Chosen
  <1>5. Selection(out[p][n].keys, source.keys, fine)
    BY <1>3, <1>4
  <1> HIDE DEF fine
  <1> QED
    BY <1>1, <1>3, <1>5 DEF fine

LEMMA InvStrict == IInv => StrictIsLint
PROOF
  <1> SUFFICES ASSUME IInv, NEW p \in Calls, pc[p] = "done", mode = "strict", via # "nil",
                      ~TooSmall(req[p])
               PROVE  LET refused == {n \in DOMAIN Points(req[p]) :
                            CheckAllowedLabels(Points(req[p])[n].metric,
                                               Points(req[p])[n].keys) # NoError}
                      IN /\ refused = {} => err[p] = NoError
                         /\ \A n \in refused : err[p] =
                              CheckAllowedLabels(Points(req[p])[n].metric,
                                                 Points(req[p])[n].keys)
                         /\ refused # {} /\ via = "instruments" => out[p] = <<>>
    BY DEF StrictIsLint, Over
  <1>1. CallInv(p) /\ TypeOK /\ ValidatorInv
    BY DEF IInv
  <1>2. PICK plan : plan = Points(req[p]) /\ plan = Planned(p)
    BY DEF Planned
  <1>3. DOMAIN plan = 1..Len(plan)
    BY <1>1, <1>2, PlannedType
  <1> DEFINE refused == {n \in DOMAIN plan : Verdict(plan[n]) # NoError}
  <1>4. CASE err[p] = NoError /\ \A n \in DOMAIN plan : Verdict(plan[n]) = NoError
    <2>1. refused = {}
      BY <1>4
    <2> QED
      BY <1>2, <1>4, <2>1 DEF Verdict
  <1>5. CASE /\ Len(plan) = 1 /\ err[p] # NoError /\ err[p] = Verdict(plan[1])
             /\ via = "instruments" => out[p] = <<>>
    <2>1. DOMAIN plan = {1}
      BY <1>3, <1>5
    <2>2. refused = {1}
      BY <1>5, <2>1
    <2>3. \A n \in refused : err[p] = Verdict(plan[n])
      BY <1>5, <2>2
    <2> QED
      BY <1>2, <1>5, <2>2, <2>3 DEF Verdict
  <1> QED
    BY <1>1, <1>2, <1>4, <1>5 DEF CallInv, ErrInv

LEMMA InvTyped == IInv => TypedRecordersFit
PROOF
  <1> SUFFICES ASSUME IInv, NEW p \in Calls, Typed(p)
               PROVE  firstErr[p] = NoError /\ err[p] \in {NoError, Negative}
    BY DEF TypedRecordersFit, Typed
  <1>1. CallInv(p) /\ TypeOK /\ ValidatorInv
    BY DEF IInv
  <1>2. via = "instruments"
    BY DEF Typed
  <1>3. pc[p] \in {"idle", "filter", "label", "look", "mark", "log", "record", "done"}
    BY <1>1, CallTypes
  <1>4. CASE pc[p] \in {"look", "mark", "log"}
    <2>1. Here(p).metric \in Metrics
      BY <1>1, <1>2, <1>4, WithPoint
    <2> QED
      BY <1>1, <1>4, <2>1 DEF CallInv, ErrInv, TypedInv, Filtering, Logging
  <1>5. CASE pc[p] \notin {"look", "mark", "log"}
    BY <1>1, <1>2, <1>3, <1>5 DEF CallInv, ErrInv, TypedInv, Filtering
  <1> QED
    BY <1>4, <1>5

LEMMA InvUsage == IInv => UsageIsWhole
PROOF
  <1> SUFFICES ASSUME IInv, NEW p \in Calls, pc[p] = "done", req[p].op = "usage",
                      via = "instruments"
               PROVE  LET r == req[p]
                          values == {out[p][n].value : n \in DOMAIN out[p]}
                      IN /\ values \in {{}, {"input", "output"}}
                         /\ values = {} <=> ~r.available \/ r.input < 0 \/ r.output < 0
                         /\ err[p] = Negative <=> r.input < 0 \/ r.output < 0
    BY DEF UsageIsWhole, Over
  <1>1. CallInv(p) /\ TypeOK /\ ValidatorInv
    BY DEF IInv
  <1>2. PICK r : r = req[p]
    OBVIOUS
  <1>3. TooSmall(req[p]) <=> r.input < 0 \/ r.output < 0
    BY <1>2 DEF TooSmall
  <1>4. PICK o \in Seq(PointType) : o = out[p]
    BY <1>1, CallTypes
  <1>5. PICK plan \in Seq(PointType) : plan = Planned(p)
    BY <1>1, PlannedType
  <1>6. Len(o) + Len(todo[p]) = Len(plan) /\ Len(todo[p]) \in Nat
    <2>1. PICK t \in Seq(PointType) : t = todo[p]
      BY <1>1, CallTypes
    <2>2. Len(t) \in Nat
      OBVIOUS
    <2> QED
      <3>1. pc[p] # "idle" /\ TodoInv(p)
        BY <1>1 DEF CallInv
      <3>2. Len(out[p]) + Len(todo[p]) = Len(Planned(p))
        BY <3>1 DEF TodoInv
      <3> QED
        BY <1>4, <1>5, <2>1, <2>2, <3>2
  <1>9. PICK values : values = {o[n].value : n \in DOMAIN o}
    OBVIOUS
  <1>10. values = {out[p][n].value : n \in DOMAIN out[p]}
    BY <1>4, <1>9
  <1> SUFFICES /\ values \in {{}, {"input", "output"}}
               /\ values = {} <=> ~r.available \/ r.input < 0 \/ r.output < 0
               /\ err[p] = Negative <=> r.input < 0 \/ r.output < 0
    BY <1>2, <1>10
  <1>7. CASE TooSmall(req[p])
    <2>1. plan = <<>> /\ err[p] = Negative
      BY <1>1, <1>5, <1>7 DEF CallInv, ErrInv, Planned
    <2>2. o = <<>>
      <3>1. PICK a \in Nat : a = Len(o)
        OBVIOUS
      <3>2. PICK b \in Nat : b = Len(todo[p])
        BY <1>6
      <3>3. a + b = 0
        BY <1>6, <2>1, <3>1, <3>2
      <3>4. a = 0
        BY <3>3
      <3> QED
        BY <3>1, <3>4, EmptySeq
    <2>3. values = {}
      BY <1>9, <2>2
    <2> QED
      BY <1>3, <1>7, <2>1, <2>3
  <1>8. CASE ~TooSmall(req[p])
    <2>1. todo[p] = <<>> /\ err[p] = NoError
      BY <1>1, <1>8 DEF CallInv, ErrInv, Typed
    <2>2. err[p] # Negative
      BY <2>1, NegativeDiffers
    <2>3. Len(o) = Len(plan)
      <3>1. PICK a \in Nat : a = Len(o)
        OBVIOUS
      <3>2. Len(todo[p]) = 0 /\ a + 0 = a
        BY <2>1
      <3> QED
        BY <1>6, <3>1, <3>2
    <2>4. plan = IF r.available
                   THEN <<TokenPoint(r, "input"), TokenPoint(r, "output")>> ELSE <<>>
      BY <1>2, <1>5, <1>8 DEF Planned, Points, UsageMetricPoints
    <2>5. \A n \in DOMAIN o : o[n].value = plan[n].value
      BY <1>1, <1>4, <1>5 DEF CallInv, OutInv
    <2>6. CASE r.available
      <3>1. PICK x : x = TokenPoint(r, "input")
        OBVIOUS
      <3>2. PICK y : y = TokenPoint(r, "output")
        OBVIOUS
      <3>3. x.value = "input" /\ y.value = "output"
        BY <3>1, <3>2 DEF TokenPoint, Point
      <3>4. plan = <<x, y>>
        BY <2>4, <2>6, <3>1, <3>2
      <3>5. DOMAIN o = {1, 2} /\ plan[1] = x /\ plan[2] = y
        <4>1. Len(plan) = 2 /\ plan[1] = x /\ plan[2] = y
          BY <3>4
        <4>2. DOMAIN o = 1..2
          BY <2>3, <4>1
        <4> QED
          BY <4>1, <4>2
      <3>6. values = {"input", "output"}
        BY <1>9, <2>5, <3>3, <3>5
      <3> QED
        BY <1>3, <1>8, <2>2, <2>6, <3>6
    <2>7. CASE ~r.available
      <3>1. o = <<>>
        BY <2>3, <2>4, <2>7, EmptySeq
      <3>2. values = {}
        BY <1>9, <3>1
      <3> QED
        BY <1>3, <1>8, <2>2, <2>7, <3>2
    <2> QED
      BY <2>6, <2>7
  <1> QED
    BY <1>7, <1>8

\* What goes to an instrument has exactly the labels the lint helper accepts, a
\* strict error is the helper's, the typed recorders never lose a label, and a usage
\* is recorded whole or not at all (cardinality.go:187-250, instruments.go:25-153).
THEOREM RecordsWhatLintDoes == Spec => []RecordsWhatLintAccepts
PROOF
  <1>1. IInv => RecordsWhatLintAccepts
    BY InvExports, InvStrict, InvTyped, InvUsage DEF RecordsWhatLintAccepts
  <1> QED
    BY <1>1, Invariance, PTL

LEMMA InvLogged == IInv => ViolationsLogged
PROOF
  <1> SUFFICES ASSUME IInv PROVE ViolationsLogged
    OBVIOUS
  <1>0. /\ TypeOK /\ ValidatorInv /\ SeenInv /\ AloneInv
        /\ \A q \in Calls : CallInv(q) /\ SettledInv(q)
    BY DEF IInv
  <1>1. ASSUME hasLogger, mode # "disabled", AllDone, NEW p \in Calls
        PROVE  Reported(p)
    <2>1. \A v : Told(v) => Logged(v)
      BY <1>0, <1>1 DEF Told, SeenInv, AllDone
    <2>2. pc[p] = "done"
      BY <1>1 DEF AllDone
    <2>3. PICK plan \in Seq(PointType) : plan = Planned(p) /\ Len(plan) = 1
      BY <1>0, <1>1, PlannedType
    <2>4. plan = Points(req[p])
      BY <2>3 DEF Planned
    <2>5. PICK point \in PointType : point = plan[1]
      BY <2>3
    <2>6. DOMAIN plan = {1}
      BY <2>3
    <2>7. IF point.metric \in Metrics THEN ToldAll(point, End(point))
          ELSE Told(UnknownMetricError(point))
      BY <1>0, <1>1, <2>2, <2>3, <2>5 DEF SettledInv
    <2>8. {Points(req[p])[n] : n \in DOMAIN Points(req[p])} = {point}
      BY <2>4, <2>5, <2>6
    <2>9. CASE point.metric \notin Metrics
      BY <2>1, <2>7, <2>8, <2>9 DEF Reported, UnknownMetricError
    <2>10. CASE point.metric \in Metrics
      <3>1. ASSUME NEW n \in DOMAIN point.keys
            PROVE  \/ Reason(point.metric, point.keys[n]) = ""
                   \/ Logged(Rejects(point.metric, point.keys[n],
                                     Reason(point.metric, point.keys[n])))
        <4>1. n < End(point)
          BY OneFurther
        <4>2. CASE Reason(point.metric, point.keys[n]) # ""
          <5>1. n \in Refused(point, End(point))
            BY <4>1, <4>2 DEF Refused
          <5>2. Told(Rejection(point, n))
            BY <2>7, <2>10, <5>1 DEF ToldAll
          <5> QED
            BY <2>1, <5>2 DEF Rejection
        <4> QED
          BY <4>2
      <3> QED
        BY <2>8, <2>10, <3>1 DEF Reported
    <2> QED
      BY <2>9, <2>10
  <1>2. ~raced => ~Repeated
    BY <1>0 DEF AloneInv
  <1> QED
    BY <1>1, <1>2 DEF ViolationsLogged

\* When nobody records, whatever a validator with a logger has refused is logged,
\* and once only unless calls have met in its map (cardinality.go:235-240, 252-267).
THEOREM NoViolationIsSilent == Spec => []ViolationsLogged
PROOF
  BY InvLogged, Invariance, PTL

=============================================================================
