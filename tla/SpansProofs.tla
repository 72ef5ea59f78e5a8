---------------------------- MODULE SpansProofs ----------------------------
(***************************************************************************)
(* Proofs about Spans, for any call with any attributes and any number of  *)
(* payloads, and whatever the redactor answers.                            *)
(***************************************************************************)
EXTENDS Spans, TLAPS

\* The list has what base has, and after it only keys that are not native.
Adds(list, base) ==
  /\ Len(base) <= Len(list)
  /\ \A n \in 1..Len(base) : list[n] = base[n]
  /\ \A n \in 1..Len(list) : n > Len(base) => list[n].key \notin NativeKeys

InvIdle ==
  pc = "idle" =>
    /\ span = "none" /\ events = <<>> /\ content = <<>> /\ replies = <<>>
    /\ returned = [span |-> FALSE, err |-> "none"]

\* While payloads are redacted, what is encoded tells of all answers so far.
InvRedact ==
  pc = "redact" =>
    /\ Captures(call)
    /\ span = "open" /\ events = <<>> /\ ~Failed /\ Tells(content)
    /\ returned = [span |-> FALSE, err |-> "none"]

\* The caller has a span to use and to end.
InvReturned == pc = "returned" => span # "none"

InvAttrs == span # "none" => Adds(attrs, SpanAttributes(call))

IInv ==
  /\ TypeOK
  /\ InvIdle
  /\ InvRedact
  /\ InvReturned
  /\ InvAttrs
  /\ OnlyWhatTheRedactorReturned
  /\ FailClosed
-----------------------------------------------------------------------------
\* What the attributes of a call are made of.
LEMMA CallOk ==
  ASSUME NEW c \in CallType
  PROVE  /\ c.op \in {"model", "agent", "tool"}
         /\ c.attributes \in Seq(CallerKeys) /\ c.payloads \in Seq(Kinds)
         /\ c.compat \in BOOLEAN /\ c.strict \in BOOLEAN
BY DEF CallType

LEMMA KeysOk ==
  /\ NativeKeys \subseteq AttrKeys /\ CompatKeys \subseteq AttrKeys
  /\ CallerKeys \subseteq AttrKeys
  /\ FailedKey \in AttrKeys \ NativeKeys /\ "error.type" \in AttrKeys \ NativeKeys
BY DEF AttrKeys, NativeKeys, FailedKey

LEMMA NativeOk ==
  /\ "operation" \in AttrKeys /\ "provider" \in AttrKeys /\ "system" \in AttrKeys
  /\ "request.model" \in AttrKeys /\ "response.model" \in AttrKeys
  /\ "agent" \in AttrKeys /\ "tool" \in AttrKeys
  /\ "usage.available" \in AttrKeys /\ "usage.input" \in AttrKeys
  /\ "usage.output" \in AttrKeys
BY DEF AttrKeys, NativeKeys

LEMMA AttrOk ==
  ASSUME NEW key \in AttrKeys, NEW by \in {"library", "caller", "compat"}
  PROVE  A(key, by) \in AttrType /\ A(key, by).key = key /\ A(key, by).by = by
BY DEF A, AttrType

LEMMA FieldOk ==
  ASSUME NEW c, NEW key \in AttrKeys
  PROVE  Field(c, key) \in Seq(AttrType)
BY AttrOk DEF Field

LEMMA CallerAttrsOk ==
  ASSUME NEW c \in CallType
  PROVE  CallerAttrs(c) \in Seq(AttrType)
<1>1. c.attributes \in Seq(CallerKeys) BY CallOk
<1>2. Len(c.attributes) \in Nat /\ DOMAIN c.attributes = 1..Len(c.attributes)
  BY <1>1
<1>3. \A n \in 1..Len(c.attributes) : A(c.attributes[n], "caller") \in AttrType
  BY <1>1, <1>2, AttrOk, KeysOk
<1> QED BY <1>2, <1>3 DEF CallerAttrs

LEMMA UsageOk ==
  ASSUME NEW usage
  PROVE  UsageSpanAttributes(usage) \in Seq(AttrType)
<1>1. <<A("usage.available", "library")>> \in Seq(AttrType) BY AttrOk, NativeOk
<1>2. <<A("usage.input", "library"), A("usage.output", "library")>> \in Seq(AttrType)
  BY AttrOk, NativeOk
<1>3. (IF usage.available THEN <<A("usage.input", "library"), A("usage.output", "library")>>
       ELSE <<>>) \in Seq(AttrType)
  BY <1>2
<1> QED BY <1>1, <1>3 DEF UsageSpanAttributes

LEMMA ConcatOk ==
  ASSUME NEW S, NEW s \in Seq(S), NEW t \in Seq(S)
  PROVE  s \o t \in Seq(S)
OBVIOUS

LEMMA ModelOk ==
  ASSUME NEW c \in CallType
  PROVE  modelCallAttributes(c) \in Seq(AttrType)
<1>1. Field(c, "operation") \o Field(c, "provider") \in Seq(AttrType)
  BY FieldOk, NativeOk, ConcatOk
<1>2. Field(c, "operation") \o Field(c, "provider") \o Field(c, "system") \in Seq(AttrType)
  BY <1>1, FieldOk, NativeOk, ConcatOk
<1>3. Field(c, "operation") \o Field(c, "provider") \o Field(c, "system")
        \o Field(c, "request.model") \in Seq(AttrType)
  BY <1>2, FieldOk, NativeOk, ConcatOk
<1>4. Field(c, "operation") \o Field(c, "provider") \o Field(c, "system")
        \o Field(c, "request.model") \o Field(c, "response.model") \in Seq(AttrType)
  BY <1>3, FieldOk, NativeOk, ConcatOk
<1>5. Field(c, "operation") \o Field(c, "provider") \o Field(c, "system")
        \o Field(c, "request.model") \o Field(c, "response.model")
        \o UsageSpanAttributes(c.usage) \in Seq(AttrType)
  BY <1>4, UsageOk, ConcatOk
<1>6. CallerAttrs(c) \in Seq(AttrType) BY CallerAttrsOk
<1> QED BY <1>5, <1>6, ConcatOk DEF modelCallAttributes

LEMMA ForeignConcat ==
  ASSUME NEW s \in Seq(AttrType), NEW t \in Seq(AttrType),
         \A n \in 1..Len(s) : s[n].key \notin NativeKeys,
         \A n \in 1..Len(t) : t[n].key \notin NativeKeys
  PROVE  s \o t \in Seq(AttrType) /\ \A n \in 1..Len(s \o t) : (s \o t)[n].key \notin NativeKeys
<1>1. /\ Len(s) \in Nat /\ Len(t) \in Nat /\ Len(s \o t) = Len(s) + Len(t)
      /\ s \o t \in Seq(AttrType)
      /\ \A n \in 1..Len(s \o t) : (s \o t)[n] = IF n <= Len(s) THEN s[n] ELSE t[n - Len(s)]
  OBVIOUS
<1>2. \A n \in 1..Len(s \o t) : n <= Len(s) => n \in 1..Len(s) BY <1>1
<1>3. \A n \in 1..Len(s \o t) : ~(n <= Len(s)) => n - Len(s) \in 1..Len(t) BY <1>1
<1> QED BY <1>1, <1>2, <1>3

\* No key of the compatibility is a native one.
LEMMA CompatOk ==
  ASSUME NEW c
  PROVE  /\ openLLMetryModelCallAttributes(c) \in Seq(AttrType)
         /\ \A n \in 1..Len(openLLMetryModelCallAttributes(c)) :
              openLLMetryModelCallAttributes(c)[n].key \notin NativeKeys
<1>1. ASSUME NEW key \in CompatKeys
      PROVE  /\ <<A(key, "compat")>> \in Seq(AttrType)
             /\ \A n \in 1..Len(<<A(key, "compat")>>) :
                  <<A(key, "compat")>>[n].key \notin NativeKeys
  <2>1. key \notin NativeKeys BY DEF NativeKeys, CompatKeys
  <2>2. key \in AttrKeys BY DEF AttrKeys
  <2>3. A(key, "compat") \in AttrType /\ A(key, "compat").key = key BY <2>2, AttrOk
  <2> QED BY <2>1, <2>3
<1>2. PICK type, workflow, total :
        /\ type = <<A("llm.request.type", "compat")>>
        /\ workflow = <<A("traceloop", "compat")>>
        /\ total = IF c.usage.available THEN <<A("llm.usage.total_tokens", "compat")>>
                   ELSE <<>>
  OBVIOUS
<1>3. /\ type \in Seq(AttrType) /\ workflow \in Seq(AttrType) /\ total \in Seq(AttrType)
      /\ \A n \in 1..Len(type) : type[n].key \notin NativeKeys
      /\ \A n \in 1..Len(workflow) : workflow[n].key \notin NativeKeys
      /\ \A n \in 1..Len(total) : total[n].key \notin NativeKeys
  <2>1. "llm.request.type" \in CompatKeys /\ "traceloop" \in CompatKeys
          /\ "llm.usage.total_tokens" \in CompatKeys
    BY DEF CompatKeys
  <2>2. type \in Seq(AttrType) /\ \A n \in 1..Len(type) : type[n].key \notin NativeKeys
    BY <1>1, <1>2, <2>1
  <2>3. /\ workflow \in Seq(AttrType)
        /\ \A n \in 1..Len(workflow) : workflow[n].key \notin NativeKeys
    BY <1>1, <1>2, <2>1
  <2>4. total \in Seq(AttrType) /\ \A n \in 1..Len(total) : total[n].key \notin NativeKeys
    <3>1. CASE c.usage.available BY <1>1, <1>2, <2>1, <3>1
    <3>2. CASE ~c.usage.available BY <1>2, <3>2
    <3> QED BY <3>1, <3>2
  <2> QED BY <2>2, <2>3, <2>4
<1>4. CASE ~c.compat BY <1>4 DEF openLLMetryModelCallAttributes
<1>5. CASE c.compat
  <2>1. openLLMetryModelCallAttributes(c) = type \o total \o workflow
    BY <1>2, <1>5 DEF openLLMetryModelCallAttributes
  <2>2. /\ type \o total \in Seq(AttrType)
        /\ \A n \in 1..Len(type \o total) : (type \o total)[n].key \notin NativeKeys
    BY <1>3, ForeignConcat
  <2> QED BY <1>3, <2>1, <2>2, ForeignConcat
<1> QED BY <1>4, <1>5

LEMMA AddsConcat ==
  ASSUME NEW base \in Seq(AttrType), NEW more \in Seq(AttrType),
         \A n \in 1..Len(more) : more[n].key \notin NativeKeys
  PROVE  Adds(base \o more, base)
<1>1. /\ Len(base) \in Nat /\ Len(more) \in Nat /\ Len(base \o more) = Len(base) + Len(more)
      /\ \A n \in 1..Len(base) : (base \o more)[n] = base[n]
      /\ \A n \in 1..Len(base \o more) : n > Len(base) => (base \o more)[n] = more[n - Len(base)]
  OBVIOUS
<1>2. \A n \in 1..Len(base \o more) : n > Len(base) => n - Len(base) \in 1..Len(more)
  BY <1>1
<1>3. \A n \in 1..Len(base \o more) :
        n > Len(base) => (base \o more)[n].key \notin NativeKeys
  BY <1>1, <1>2
<1> QED BY <1>1, <1>3 DEF Adds

LEMMA AddsAppend ==
  ASSUME NEW list \in Seq(AttrType), NEW base \in Seq(AttrType), Adds(list, base),
         NEW attr \in AttrType, attr.key \notin NativeKeys
  PROVE  Adds(Append(list, attr), base)
<1>1. /\ Len(list) \in Nat /\ Len(base) \in Nat /\ Len(Append(list, attr)) = Len(list) + 1
      /\ \A n \in 1..Len(list) : Append(list, attr)[n] = list[n]
      /\ Append(list, attr)[Len(list) + 1] = attr
  OBVIOUS
<1> QED BY <1>1 DEF Adds

LEMMA AddsTrans ==
  ASSUME NEW list \in Seq(AttrType), NEW middle \in Seq(AttrType), NEW base \in Seq(AttrType),
         Adds(list, middle), Adds(middle, base)
  PROVE  Adds(list, base)
<1>1. Len(list) \in Nat /\ Len(middle) \in Nat /\ Len(base) \in Nat OBVIOUS
<1>2. \A n \in 1..Len(list) : n > Len(base) => list[n].key \notin NativeKeys
  <2> TAKE n \in 1..Len(list)
  <2>1. CASE n > Len(middle) BY <2>1 DEF Adds
  <2>2. CASE ~(n > Len(middle)) BY <1>1, <2>2 DEF Adds
  <2> QED BY <2>1, <2>2
<1> QED BY <1>1, <1>2 DEF Adds

LEMMA AddsSame ==
  ASSUME NEW list \in Seq(AttrType)
  PROVE  Adds(list, list)
BY DEF Adds

\* Attributes with other keys do not change the value of a native one.
LEMMA AddsLast ==
  ASSUME NEW list \in Seq(AttrType), NEW base \in Seq(AttrType), Adds(list, base),
         NEW key \in NativeKeys
  PROVE  Last(list, key) = Last(base, key)
<1>1. /\ Len(list) \in Nat /\ Len(base) \in Nat
      /\ DOMAIN list = 1..Len(list) /\ DOMAIN base = 1..Len(base)
  OBVIOUS
<1>2. PICK at : at = {n \in DOMAIN list : list[n].key = key} OBVIOUS
<1>3. at = {n \in DOMAIN base : base[n].key = key} BY <1>1, <1>2 DEF Adds
<1>4. \A n \in at : list[n] = base[n] BY <1>1, <1>3 DEF Adds
<1>5. Last(list, key) = {list[n].by : n \in {m \in at : \A j \in at : j <= m}}
  BY <1>2 DEF Last
<1>6. Last(base, key) = {base[n].by : n \in {m \in at : \A j \in at : j <= m}}
  BY <1>3 DEF Last
<1> QED BY <1>4, <1>5, <1>6

LEMMA SpanAttributesOk ==
  ASSUME NEW c \in CallType
  PROVE  /\ SpanAttributes(c) \in Seq(AttrType)
         /\ SpanAttributes([c EXCEPT !.compat = FALSE]) \in Seq(AttrType)
         /\ Adds(SpanAttributes(c), SpanAttributes([c EXCEPT !.compat = FALSE]))
<1>1. PICK d : d = [c EXCEPT !.compat = FALSE] OBVIOUS
<1>2. /\ d.op = c.op /\ d.fields = c.fields /\ d.usage = c.usage
      /\ d.attributes = c.attributes /\ d.compat = FALSE
  BY <1>1 DEF CallType
<1>3. \A key \in AttrKeys : Field(d, key) = Field(c, key) BY <1>2 DEF Field
<1>4. CallerAttrs(d) = CallerAttrs(c) BY <1>2 DEF CallerAttrs
<1>5. CASE c.op = "model"
  <2>1. modelCallAttributes(d) = modelCallAttributes(c)
    BY <1>2, <1>3, <1>4, NativeOk DEF modelCallAttributes
  <2>2. openLLMetryModelCallAttributes(d) = <<>>
    BY <1>2 DEF openLLMetryModelCallAttributes
  <2>3. SpanAttributes(d) = modelCallAttributes(c)
    BY <1>2, <1>5, <2>1, <2>2, ModelOk DEF SpanAttributes
  <2>4. SpanAttributes(c) = modelCallAttributes(c) \o openLLMetryModelCallAttributes(c)
    BY <1>5 DEF SpanAttributes
  <2>5. Adds(modelCallAttributes(c) \o openLLMetryModelCallAttributes(c),
             modelCallAttributes(c))
    BY ModelOk, CompatOk, AddsConcat
  <2>6. SpanAttributes(c) \in Seq(AttrType) BY <2>4, ModelOk, CompatOk, ConcatOk
  <2> QED BY <1>1, <2>3, <2>4, <2>5, <2>6, ModelOk
<1>6. CASE c.op = "agent"
  <2>1. SpanAttributes(c) = Field(c, "operation") \o Field(c, "agent") \o CallerAttrs(c)
    BY <1>6 DEF SpanAttributes
  <2>2. SpanAttributes(d) = SpanAttributes(c)
    BY <1>2, <1>3, <1>4, <1>6, <2>1, NativeOk DEF SpanAttributes
  <2>3. Field(c, "operation") \o Field(c, "agent") \in Seq(AttrType) BY FieldOk, NativeOk, ConcatOk
  <2>4. SpanAttributes(c) \in Seq(AttrType) BY <2>1, <2>3, CallerAttrsOk, ConcatOk
  <2> QED BY <1>1, <2>2, <2>4, AddsSame
<1>7. CASE c.op = "tool"
  <2>1. SpanAttributes(c) = <<A("operation", "library")>> \o Field(c, "tool") \o CallerAttrs(c)
    BY <1>7 DEF SpanAttributes
  <2>2. SpanAttributes(d) = SpanAttributes(c)
    BY <1>2, <1>3, <1>4, <1>7, <2>1, NativeOk DEF SpanAttributes
  <2>3. <<A("operation", "library")>> \in Seq(AttrType) BY AttrOk, NativeOk
  <2>4. <<A("operation", "library")>> \o Field(c, "tool") \in Seq(AttrType)
    BY <2>3, FieldOk, NativeOk, ConcatOk
  <2>5. SpanAttributes(c) \in Seq(AttrType) BY <2>1, <2>4, CallerAttrsOk, ConcatOk
  <2> QED BY <1>1, <2>2, <2>5, AddsSame
<1> QED BY <1>5, <1>6, <1>7, CallOk

-----------------------------------------------------------------------------
LEMMA CallTyped == TypeOK => call \in CallType
BY CallsAssumption DEF TypeOK

\* A payload that is encoded is told of, and so are those before it.
LEMMA TellsMore ==
  ASSUME TypeOK, Tells(content), call' = call,
         NEW reply \in Replies, replies' = Append(replies, reply),
         NEW kind \in Kinds, kind = call.payloads[Len(replies) + 1],
         content' = content \o Encoded(kind, reply)
  PROVE  Tells(content)'
<1> DEFINE l == Len(replies)  k == Len(content)
<1>1. /\ l \in Nat /\ k \in Nat /\ DOMAIN replies = 1..l /\ DOMAIN content = 1..k
      /\ DOMAIN replies' = 1..(l + 1) /\ replies'[l + 1] = reply
      /\ \A j \in 1..l : replies'[j] = replies[j]
      /\ content \in Seq(PayloadType)
  BY DEF TypeOK
<1>2. PICK at \in [DOMAIN content -> Attachable] :
        /\ \A m \in DOMAIN content :
             content[m] = [kind |-> call.payloads[at[m]], value |-> replies[at[m]]]
        /\ \A m, n \in DOMAIN content : m < n => at[m] < at[n]
        /\ \A j \in Attachable : \E m \in DOMAIN content : at[m] = j
  BY DEF Tells
<1>3. Attachable \subseteq 1..l BY <1>1 DEF Attachable
<1>4. CASE reply \in Values /\ kind # "other"
  <2>1. PICK payload : payload = [kind |-> kind, value |-> reply] OBVIOUS
  <2>2. content' = content \o <<payload>> BY <1>4, <2>1 DEF Encoded
  <2>3. /\ DOMAIN content' = 1..(k + 1) /\ content'[k + 1] = payload
        /\ \A m \in 1..k : content'[m] = content[m]
    BY <1>1, <2>2
  <2>4. Attachable' = Attachable \cup {l + 1}
    <3>1. Attachable' = {j \in 1..(l + 1) : replies'[j] \in Values /\ call.payloads[j] # "other"}
      BY <1>1 DEF Attachable
    <3>2. \A j \in 1..(l + 1) :
            replies'[j] \in Values /\ call.payloads[j] # "other"
              <=> j \in Attachable \/ j = l + 1
      BY <1>1, <1>4 DEF Attachable
    <3> QED BY <1>1, <1>3, <3>1, <3>2
  <2>5. PICK new : new = [m \in 1..(k + 1) |-> IF m = k + 1 THEN l + 1 ELSE at[m]] OBVIOUS
  <2>6. /\ new \in [DOMAIN content' -> Attachable'] /\ new[k + 1] = l + 1
        /\ \A m \in 1..k : new[m] = at[m] /\ new[m] \in Attachable
    <3>1. \A m \in 1..(k + 1) : m = k + 1 \/ m \in DOMAIN content BY <1>1
    <3>2. \A m \in 1..k : m # k + 1 /\ m \in 1..(k + 1) BY <1>1
    <3>3. k + 1 \in 1..(k + 1) BY <1>1
    <3> QED BY <1>1, <1>2, <2>3, <2>4, <2>5, <3>1, <3>2, <3>3
  <2>7. \A m \in DOMAIN content' :
          content'[m] = [kind |-> call'.payloads[new[m]], value |-> replies'[new[m]]]
    <3> TAKE m \in DOMAIN content'
    <3>0. m = k + 1 \/ m \in 1..k BY <1>1, <2>3
    <3>1. CASE m = k + 1 BY <1>1, <2>1, <2>3, <2>6, <3>1
    <3>2. CASE m \in 1..k BY <1>1, <1>2, <1>3, <2>3, <2>6, <3>2
    <3> QED BY <3>0, <3>1, <3>2
  <2>8. \A m, n \in DOMAIN content' : m < n => new[m] < new[n]
    <3> TAKE m, n \in DOMAIN content'
    <3> HAVE m < n
    <3>0. m \in 1..k /\ (n = k + 1 \/ n \in 1..k) BY <1>1, <2>3
    <3>1. CASE n = k + 1
      <4>1. new[m] \in 1..l BY <1>3, <2>6, <3>0
      <4> QED BY <1>1, <2>6, <3>1, <4>1
    <3>2. CASE n \in 1..k BY <1>1, <1>2, <2>6, <3>0, <3>2
    <3> QED BY <3>0, <3>1, <3>2
  <2>9. \A j \in Attachable' : \E m \in DOMAIN content' : new[m] = j
    <3> TAKE j \in Attachable'
    <3>1. CASE j = l + 1 BY <1>1, <2>3, <2>6, <3>1
    <3>2. CASE j \in Attachable BY <1>1, <1>2, <2>3, <2>6, <3>2
    <3> QED BY <2>4, <3>1, <3>2
  <2> QED BY <2>6, <2>7, <2>8, <2>9 DEF Tells
<1>5. CASE ~(reply \in Values /\ kind # "other")
  <2>1. content' = content
    <3>1. Encoded(kind, reply) = <<>> BY <1>5 DEF Encoded
    <3> QED BY <1>1, <3>1
  <2>2. Attachable' = Attachable
    <3>1. Attachable' = {j \in 1..(l + 1) : replies'[j] \in Values /\ call.payloads[j] # "other"}
      BY <1>1 DEF Attachable
    <3>2. \A j \in 1..(l + 1) :
            replies'[j] \in Values /\ call.payloads[j] # "other" <=> j \in Attachable
      BY <1>1, <1>5 DEF Attachable
    <3> QED BY <1>1, <1>3, <3>1, <3>2
  <2>3. \A m \in DOMAIN content' :
          content'[m] = [kind |-> call'.payloads[at[m]], value |-> replies'[at[m]]]
    BY <1>1, <1>2, <1>3, <2>1
  <2>4. /\ at \in [DOMAIN content' -> Attachable']
        /\ \A m, n \in DOMAIN content' : m < n => at[m] < at[n]
        /\ \A j \in Attachable' : \E m \in DOMAIN content' : at[m] = j
    BY <1>2, <2>1, <2>2
  <2> QED BY <2>1, <2>3, <2>4 DEF Tells
<1> QED BY <1>4, <1>5

\* What nobody touches tells the same.
LEMMA TellsStays ==
  ASSUME call' = call, replies' = replies, NEW list, Tells(list)
  PROVE  Tells(list)'
BY DEF Tells, Attachable

LEMMA InitInv == Init => IInv
<1> SUFFICES ASSUME Init PROVE IInv OBVIOUS
<1>1. TypeOK BY MaxAfterAssumption DEF Init, TypeOK
<1>2. InvIdle /\ InvRedact /\ InvReturned /\ InvAttrs
  BY DEF Init, InvIdle, InvRedact, InvReturned, InvAttrs
<1>3. OnlyWhatTheRedactorReturned
  BY DEF Init, OnlyWhatTheRedactorReturned, Contents
<1>4. FailClosed BY DEF Init, FailClosed, Failed
<1> QED BY <1>1, <1>2, <1>3, <1>4 DEF IInv

\* The span is not started.
LEMMA RefusedInv ==
  ASSUME IInv, NilTracer \/ NegativeUsage
  PROVE  IInv'
<1>1. PICK err \in {"nil_tracer", "usage"} :
        /\ pc = "idle" /\ pc' = "over" /\ returned' = [span |-> FALSE, err |-> err]
        /\ UNCHANGED <<call, span, attrs, events, status, content, replies, after>>
  BY DEF NilTracer, NegativeUsage, Return
<1>2. span = "none" /\ events = <<>> /\ content = <<>> /\ replies = <<>>
  BY <1>1 DEF IInv, InvIdle
<1>3. TypeOK' BY <1>1 DEF IInv, TypeOK
<1>4. InvIdle' /\ InvRedact' /\ InvReturned' /\ InvAttrs'
  BY <1>1, <1>2 DEF InvIdle, InvRedact, InvReturned, InvAttrs
<1>5. OnlyWhatTheRedactorReturned' BY <1>1, <1>2 DEF OnlyWhatTheRedactorReturned, Contents
<1>6. FailClosed' BY <1>1, <1>2 DEF FailClosed, Failed
<1> QED BY <1>3, <1>4, <1>5, <1>6 DEF IInv

LEMMA StartSpanInv ==
  ASSUME IInv, StartSpan
  PROVE  IInv'
<1>1. /\ pc = "idle" /\ span' = "open" /\ attrs' = SpanAttributes(call)
      /\ UNCHANGED <<call, events, status, content, replies, after>>
      /\ \/ pc' = "redact" /\ Captures(call) /\ returned' = returned
         \/ pc' = "returned" /\ returned' = [span |-> TRUE, err |-> "none"]
  BY DEF StartSpan, Return
<1>2. /\ span = "none" /\ events = <<>> /\ content = <<>> /\ replies = <<>>
      /\ returned = [span |-> FALSE, err |-> "none"]
  BY <1>1 DEF IInv, InvIdle
<1>3. SpanAttributes(call) \in Seq(AttrType)
  BY CallTyped, SpanAttributesOk DEF IInv
<1>4. TypeOK'
  <2>1. attrs' \in Seq(AttrType) BY <1>1, <1>3
  <2>2. pc' \in {"redact", "returned"} BY <1>1
  <2>3. returned' \in [span : BOOLEAN, err : {"none", "nil_tracer", "usage", "redaction"}]
    <3>1. [span |-> FALSE, err |-> "none"]
            \in [span : BOOLEAN, err : {"none", "nil_tracer", "usage", "redaction"}]
      OBVIOUS
    <3>2. [span |-> TRUE, err |-> "none"]
            \in [span : BOOLEAN, err : {"none", "nil_tracer", "usage", "redaction"}]
      OBVIOUS
    <3> QED BY <1>1, <1>2, <3>1, <3>2
  <2> QED BY <1>1, <2>1, <2>2, <2>3 DEF IInv, TypeOK
<1>5. Tells(content)'
  <2>1. Attachable' = {} BY <1>1, <1>2 DEF Attachable
  <2>2. PICK at : at = [m \in {} |-> 0] OBVIOUS
  <2>3. at \in [DOMAIN content' -> Attachable'] BY <1>1, <1>2, <2>1, <2>2
  <2> QED BY <1>1, <1>2, <2>1, <2>3 DEF Tells
<1>6. InvIdle' /\ InvReturned' BY <1>1 DEF InvIdle, InvReturned
<1>7. InvRedact' BY <1>1, <1>2, <1>5 DEF InvRedact, Failed
<1>8. InvAttrs' BY <1>1, <1>3, AddsSame DEF InvAttrs
<1>9. OnlyWhatTheRedactorReturned' BY <1>1, <1>2 DEF OnlyWhatTheRedactorReturned, Contents
<1>10. FailClosed' BY <1>1, <1>2 DEF FailClosed, Failed
<1> QED BY <1>4, <1>6, <1>7, <1>8, <1>9, <1>10 DEF IInv

LEMMA RedactInv ==
  ASSUME IInv, Redact
  PROVE  IInv'
<1>1. /\ pc = "redact" /\ Len(replies) < Len(call.payloads)
      /\ UNCHANGED <<call, span, status, after>>
  BY DEF Redact
<1>2. /\ Captures(call)
      /\ span = "open" /\ events = <<>> /\ ~Failed /\ Tells(content)
      /\ returned = [span |-> FALSE, err |-> "none"]
  BY <1>1 DEF IInv, InvRedact
<1>3. PICK reply \in MayReply(call) :
        /\ replies' = Append(replies, reply)
        /\ IF reply = "error"
             THEN /\ attrs' = Append(attrs, A(FailedKey, "library"))
                  /\ Attach(AfterFailure(content))
                  /\ Return(TRUE, IF call.strict THEN "redaction" ELSE "none")
                  /\ UNCHANGED content
             ELSE /\ content' = content \o Encoded(call.payloads[Len(replies) + 1], reply)
                  /\ UNCHANGED <<attrs, events, pc, returned>>
  BY DEF Redact
<1>4. call \in CallType /\ call.payloads \in Seq(Kinds) /\ call.strict \in BOOLEAN
  BY CallTyped, CallOk DEF IInv
<1>5. reply \in Replies
  <2>1. MayReply(call) \subseteq Replies
    <3>1. CASE call.capture \in {"drop_all", "allow_unredacted", "custom"}
      BY <3>1 DEF MayReply, Replies, Values
    <3>2. call.capture \in {"drop_all", "allow_unredacted", "custom"}
      BY <1>2, <1>4 DEF Captures, CallType
    <3> QED BY <3>1, <3>2
  <2> QED BY <1>3, <2>1
<1>6. attrs \in Seq(AttrType) /\ Adds(attrs, SpanAttributes(call))
        /\ SpanAttributes(call) \in Seq(AttrType)
  BY <1>2, <1>4, SpanAttributesOk DEF IInv, InvAttrs, TypeOK
<1>7. replies \in Seq(Replies) /\ replies' \in Seq(Replies)
  BY <1>3, <1>5 DEF IInv, TypeOK
<1>8. CASE reply = "error"
  <2>1. /\ attrs' = Append(attrs, A(FailedKey, "library")) /\ events' = <<>>
        /\ pc' = "returned" /\ content' = content
        /\ returned' = [span |-> TRUE, err |-> IF call.strict THEN "redaction" ELSE "none"]
    BY <1>2, <1>3, <1>8 DEF Attach, AfterFailure, Return
  <2>2. /\ A(FailedKey, "library") \in AttrType
        /\ A(FailedKey, "library").key \notin NativeKeys
    BY KeysOk, AttrOk
  <2>3. attrs' \in Seq(AttrType) /\ Adds(attrs', SpanAttributes(call))
    BY <1>6, <2>1, <2>2, AddsAppend
  <2>4. TypeOK'
    <3>1. returned' \in [span : BOOLEAN, err : {"none", "nil_tracer", "usage", "redaction"}]
      BY <2>1
    <3>2. events' \in Seq(EventType) /\ pc' \in {"idle", "redact", "returned", "over"} BY <2>1
    <3> QED BY <1>1, <1>7, <2>1, <2>3, <3>1, <3>2 DEF IInv, TypeOK
  <2>5. InvIdle' /\ InvRedact' /\ InvReturned'
    BY <1>1, <1>2, <2>1 DEF InvIdle, InvRedact, InvReturned
  <2>6. InvAttrs' BY <1>1, <2>3 DEF InvAttrs
  <2>7. OnlyWhatTheRedactorReturned' BY <2>1 DEF OnlyWhatTheRedactorReturned, Contents
  <2>8. FailClosed'
    <3>1. \E n \in DOMAIN attrs' : attrs'[n] = A(FailedKey, "library")
      <4>1. attrs'[Len(attrs) + 1] = A(FailedKey, "library")
              /\ Len(attrs) + 1 \in DOMAIN attrs'
        BY <1>6, <2>1, <2>2
      <4> QED BY <4>1
    <3>2. Contents' = {} BY <2>1 DEF Contents
    <3>3. returned'.err = "redaction" <=> call'.strict BY <1>1, <1>4, <2>1
    <3>4. span' # "none" /\ returned'.span BY <1>1, <1>2, <2>1
    <3> QED BY <3>1, <3>2, <3>3, <3>4 DEF FailClosed
  <2> QED BY <2>4, <2>5, <2>6, <2>7, <2>8 DEF IInv
<1>9. CASE reply # "error"
  <2>1. PICK kind : kind = call.payloads[Len(replies) + 1] OBVIOUS
  <2>2. /\ content' = content \o Encoded(kind, reply)
        /\ UNCHANGED <<attrs, events, pc, returned>>
    BY <1>3, <1>9, <2>1
  <2>3. kind \in Kinds
    <3>1. Len(replies) + 1 \in 1..Len(call.payloads)
      BY <1>1, <1>4, <1>7
    <3> QED BY <1>4, <2>1, <3>1
  <2>4. content' \in Seq(PayloadType)
    <3>1. Encoded(kind, reply) \in Seq(PayloadType)
      <4>1. CASE reply \in Values /\ kind # "other"
        <5>1. [kind |-> kind, value |-> reply] \in PayloadType
          BY <2>3, <4>1 DEF PayloadType
        <5> QED BY <4>1, <5>1 DEF Encoded
      <4>2. CASE ~(reply \in Values /\ kind # "other") BY <4>2 DEF Encoded
      <4> QED BY <4>1, <4>2
    <3>2. content \in Seq(PayloadType) BY DEF IInv, TypeOK
    <3> QED BY <2>2, <3>1, <3>2, ConcatOk
  <2>5. TypeOK' BY <1>1, <1>7, <2>2, <2>4 DEF IInv, TypeOK
  <2>6. Tells(content)'
    BY <1>1, <1>2, <1>3, <1>5, <2>1, <2>2, <2>3, TellsMore DEF IInv
  <2>7. ~Failed'
    <3>1. /\ Len(replies) \in Nat /\ DOMAIN replies = 1..Len(replies)
          /\ DOMAIN replies' = 1..(Len(replies) + 1) /\ replies'[Len(replies) + 1] = reply
          /\ \A n \in 1..Len(replies) : replies'[n] = replies[n]
      BY <1>3, <1>5, <1>7
    <3>2. \A n \in 1..(Len(replies) + 1) : n \in 1..Len(replies) \/ n = Len(replies) + 1
      BY <3>1
    <3> QED BY <1>2, <1>9, <3>1, <3>2 DEF Failed
  <2>8. Captures(call)' BY <1>1, <1>2 DEF Captures
  <2>9. InvIdle' /\ InvRedact' /\ InvReturned'
    BY <1>1, <1>2, <2>2, <2>6, <2>7, <2>8 DEF InvIdle, InvRedact, InvReturned
  <2>10. InvAttrs' BY <1>1, <1>6, <2>2 DEF InvAttrs
  <2>11. OnlyWhatTheRedactorReturned'
    BY <1>2, <2>2 DEF OnlyWhatTheRedactorReturned, Contents
  <2>12. FailClosed' BY <1>1, <2>2, <2>7 DEF FailClosed
  <2> QED BY <2>5, <2>9, <2>10, <2>11, <2>12 DEF IInv
<1> QED BY <1>8, <1>9

\* What is told already goes on to be true, when events without payloads come after.
LEMMA MoreEvents ==
  ASSUME TypeOK, OnlyWhatTheRedactorReturned, call' = call, replies' = replies,
         NEW event \in EventType, events' \in {events, Append(events, event)},
         event.name # "content" \/ Tells(event.payloads)
  PROVE  /\ OnlyWhatTheRedactorReturned' /\ events' \in Seq(EventType)
         /\ (event.name # "content" => Contents' = Contents)
<1>1. /\ events \in Seq(EventType) /\ Len(events) \in Nat /\ DOMAIN events = 1..Len(events)
  BY DEF TypeOK
<1>2. CASE events' = events
  <2>1. \A n \in Contents : Tells(events[n].payloads)'
    BY <1>2, TellsStays DEF OnlyWhatTheRedactorReturned, Tells, Attachable
  <2> QED BY <1>1, <1>2, <2>1 DEF OnlyWhatTheRedactorReturned, Contents
<1>3. CASE events' = Append(events, event)
  <2>1. /\ events' \in Seq(EventType) /\ DOMAIN events' = 1..(Len(events) + 1)
        /\ events'[Len(events) + 1] = event
        /\ \A n \in 1..Len(events) : events'[n] = events[n]
    BY <1>1, <1>3
  <2>2. \A n \in DOMAIN events' : n \in DOMAIN events \/ n = Len(events) + 1 BY <1>1, <2>1
  <2>3. ASSUME NEW n \in Contents' PROVE Tells(events[n].payloads)'
    <3>1. n \in DOMAIN events' /\ events'[n].name = "content" BY <2>3 DEF Contents
    <3>2. CASE n \in DOMAIN events
      <4>1. n \in Contents /\ events'[n] = events[n] BY <1>1, <2>1, <3>1, <3>2 DEF Contents
      <4>2. Tells(events[n].payloads) BY <4>1 DEF OnlyWhatTheRedactorReturned
      <4> QED BY <4>1, <4>2 DEF Tells, Attachable
    <3>3. CASE n = Len(events) + 1
      <4>1. events'[n] = event /\ Tells(event.payloads) BY <2>1, <3>1, <3>3
      <4> QED BY <4>1 DEF Tells, Attachable
    <3> QED BY <2>2, <3>1, <3>2, <3>3
  <2>4. event.name # "content" => Contents' = Contents
    BY <1>1, <2>1, <2>2 DEF Contents
  <2> QED BY <2>1, <2>3, <2>4 DEF OnlyWhatTheRedactorReturned
<1> QED BY <1>2, <1>3

LEMMA AttachContentInv ==
  ASSUME IInv, AttachContent
  PROVE  IInv'
<1>1. /\ pc = "redact" /\ Attach(content) /\ pc' = "returned"
      /\ returned' = [span |-> TRUE, err |-> "none"]
      /\ UNCHANGED <<call, span, attrs, status, content, replies, after>>
  BY DEF AttachContent, Return
<1>2. span = "open" /\ ~Failed /\ Tells(content) BY <1>1 DEF IInv, InvRedact
<1>3. PICK event : event = [name |-> "content", payloads |-> content,
                            fields |-> Correlation(call)]
  OBVIOUS
<1>4. event \in EventType
  <2>1. content \in Seq(PayloadType) BY DEF IInv, TypeOK
  <2>2. Correlation(call) \in SUBSET NativeKeys BY DEF Correlation, NativeKeys
  <2> QED BY <1>3, <2>1, <2>2 DEF EventType
<1>5. events' \in {events, Append(events, event)} BY <1>1, <1>3 DEF Attach
<1>6. Tells(event.payloads) BY <1>2, <1>3
<1>7. OnlyWhatTheRedactorReturned' /\ events' \in Seq(EventType)
  BY <1>1, <1>4, <1>5, <1>6, MoreEvents DEF IInv
<1>8. TypeOK'
  <2>1. returned' \in [span : BOOLEAN, err : {"none", "nil_tracer", "usage", "redaction"}]
    BY <1>1
  <2> QED BY <1>1, <1>7, <2>1 DEF IInv, TypeOK
<1>9. InvIdle' /\ InvRedact' /\ InvReturned'
  BY <1>1, <1>2 DEF InvIdle, InvRedact, InvReturned
<1>10. InvAttrs' BY <1>1 DEF IInv, InvAttrs
<1>11. FailClosed' BY <1>1, <1>2 DEF FailClosed, Failed
<1> QED BY <1>7, <1>8, <1>9, <1>10, <1>11 DEF IInv

\* The caller adds an event without payloads, and attributes that are not native.
LEMMA UseInv ==
  ASSUME IInv, Use, NEW event \in EventType, event.name # "content",
         events' \in {events, Append(events, event)},
         NEW attr \in AttrType, attr.key \notin NativeKeys,
         attrs' \in {attrs, Append(attrs, attr)},
         status' \in {"unset", "error"}
  PROVE  IInv'
<1>1. /\ pc = "returned" /\ after < MaxAfter /\ after' = after + 1
      /\ UNCHANGED <<call, pc, span, content, replies, returned>>
  BY DEF Use
<1>2. /\ OnlyWhatTheRedactorReturned' /\ events' \in Seq(EventType)
      /\ Contents' = Contents
  BY <1>1, MoreEvents DEF IInv
<1>3. call \in CallType /\ attrs \in Seq(AttrType) /\ SpanAttributes(call) \in Seq(AttrType)
  BY CallTyped, SpanAttributesOk DEF IInv, TypeOK
<1>4. /\ attrs' \in Seq(AttrType)
      /\ \A n \in DOMAIN attrs : n \in DOMAIN attrs' /\ attrs'[n] = attrs[n]
  <2>1. CASE attrs' = attrs BY <1>3, <2>1
  <2>2. CASE attrs' = Append(attrs, attr)
    <3>1. Append(attrs, attr) \in Seq(AttrType) BY <1>3
    <3>2. \A n \in DOMAIN attrs :
            n \in DOMAIN Append(attrs, attr) /\ Append(attrs, attr)[n] = attrs[n]
      BY <1>3
    <3> QED BY <2>2, <3>1, <3>2
  <2> QED BY <2>1, <2>2
<1>5. TypeOK'
  <2>1. after' \in 0..MaxAfter BY <1>1, MaxAfterAssumption DEF IInv, TypeOK
  <2> QED BY <1>1, <1>2, <1>4, <2>1 DEF IInv, TypeOK
<1>6. InvIdle' /\ InvRedact' /\ InvReturned'
  BY <1>1 DEF IInv, InvIdle, InvRedact, InvReturned
<1>7. InvAttrs'
  <2>1. CASE span = "none" BY <1>1, <2>1 DEF InvAttrs
  <2>2. CASE span # "none"
    <3>1. Adds(attrs, SpanAttributes(call)) BY <2>2 DEF IInv, InvAttrs
    <3>2. Adds(Append(attrs, attr), SpanAttributes(call)) BY <1>3, <3>1, AddsAppend
    <3> QED BY <1>1, <3>1, <3>2 DEF InvAttrs
  <2> QED BY <2>1, <2>2
<1>8. FailClosed'
  <2>1. Failed' = Failed BY <1>1 DEF Failed
  <2>2. FailClosed BY DEF IInv
  <2>3. Failed => \E n \in DOMAIN attrs' : attrs'[n] = A(FailedKey, "library")
    BY <1>4, <2>2 DEF FailClosed
  <2> QED BY <1>1, <1>2, <2>1, <2>2, <2>3 DEF FailClosed
<1> QED BY <1>2, <1>5, <1>6, <1>7, <1>8 DEF IInv

LEMMA AddFallbackEventInv ==
  ASSUME IInv, AddFallbackEvent
  PROVE  IInv'
<1>1. PICK event : event = Event("fallback") OBVIOUS
<1>2. PICK attr : attr = A("error.type", "library") OBVIOUS
<1>3. event \in EventType /\ event.name # "content" BY <1>1 DEF Event, EventType
<1>4. attr \in AttrType /\ attr.key \notin NativeKeys BY <1>2, KeysOk, AttrOk
<1>5. /\ Use /\ events' \in {events, Append(events, event)}
      /\ attrs' \in {attrs, Append(attrs, attr)} /\ status' = status
  BY <1>1 DEF AddFallbackEvent, IfOpen
<1>6. status' \in {"unset", "error"} BY <1>5 DEF IInv, TypeOK
<1> QED BY <1>3, <1>4, <1>5, <1>6, UseInv

LEMMA MarkSpanErrorInv ==
  ASSUME IInv, MarkSpanError
  PROVE  IInv'
<1>1. PICK event : event = Event("exception") OBVIOUS
<1>2. PICK attr : attr = A("error.type", "library") OBVIOUS
<1>3. event \in EventType /\ event.name # "content" BY <1>1 DEF Event, EventType
<1>4. attr \in AttrType /\ attr.key \notin NativeKeys BY <1>2, KeysOk, AttrOk
<1>5. PICK err, type \in BOOLEAN :
        /\ attrs' = IfOpen(IF type THEN Append(attrs, attr) ELSE attrs, attrs)
        /\ events' = IfOpen(IF err THEN Append(events, event) ELSE events, events)
        /\ status' = IfOpen(Status(err, type), status)
  BY <1>1, <1>2 DEF MarkSpanError
<1>6. /\ Use /\ events' \in {events, Append(events, event)}
      /\ attrs' \in {attrs, Append(attrs, attr)}
  BY <1>5 DEF MarkSpanError, IfOpen
<1>7. status' \in {"unset", "error"} BY <1>5 DEF IInv, TypeOK, IfOpen, Status
<1> QED BY <1>3, <1>4, <1>6, <1>7, UseInv

LEMMA EndInv ==
  ASSUME IInv, End
  PROVE  IInv'
<1>1. /\ pc = "returned" /\ pc' \in {"over", "returned"} /\ span' = "ended"
      /\ UNCHANGED <<call, attrs, events, status, content, replies, returned, after>>
  BY DEF End
<1>2. TypeOK' BY <1>1 DEF IInv, TypeOK
<1>3. InvIdle' /\ InvRedact' /\ InvReturned'
  BY <1>1 DEF InvIdle, InvRedact, InvReturned
<1>4. span # "none" BY <1>1 DEF IInv, InvReturned
<1>5. InvAttrs' BY <1>1, <1>4 DEF IInv, InvAttrs
<1>6. Contents' = Contents BY <1>1 DEF Contents
<1>7. \A n \in Contents : Tells(events[n].payloads)'
  BY <1>1 DEF IInv, OnlyWhatTheRedactorReturned, Tells, Attachable
<1>8. OnlyWhatTheRedactorReturned' BY <1>1, <1>6, <1>7 DEF OnlyWhatTheRedactorReturned
<1>9. FailClosed' BY <1>1, <1>4, <1>6 DEF IInv, FailClosed, Failed
<1> QED BY <1>2, <1>3, <1>5, <1>8, <1>9 DEF IInv

LEMMA NextInv ==
  ASSUME IInv, [Next]_vars
  PROVE  IInv'
<1>1. CASE NilTracer \/ NegativeUsage BY <1>1, RefusedInv
<1>2. CASE StartSpan BY <1>2, StartSpanInv
<1>3. CASE Redact BY <1>3, RedactInv
<1>4. CASE AttachContent BY <1>4, AttachContentInv
<1>5. CASE AddFallbackEvent BY <1>5, AddFallbackEventInv
<1>6. CASE MarkSpanError BY <1>6, MarkSpanErrorInv
<1>7. CASE End BY <1>7, EndInv
<1>8. CASE UNCHANGED vars
  <2>1. UNCHANGED <<call, pc, span, attrs, events, status, content, replies, returned, after>>
    BY <1>8 DEF vars
  <2>2. Contents' = Contents /\ Failed' = Failed BY <2>1 DEF Contents, Failed
  <2>3. TypeOK' /\ InvIdle' /\ InvReturned' /\ InvAttrs' /\ FailClosed'
    BY <2>1, <2>2 DEF IInv, TypeOK, InvIdle, InvReturned, InvAttrs, FailClosed
  <2>4. InvRedact'
    BY <2>1, <2>2 DEF IInv, InvRedact, Captures, Tells, Attachable
  <2>5. \A n \in Contents : Tells(events[n].payloads)'
    BY <2>1 DEF IInv, OnlyWhatTheRedactorReturned, Tells, Attachable
  <2>6. OnlyWhatTheRedactorReturned' BY <2>1, <2>2, <2>5 DEF OnlyWhatTheRedactorReturned
  <2> QED BY <2>3, <2>4, <2>6 DEF IInv
<1> QED
  BY <1>1, <1>2, <1>3, <1>4, <1>5, <1>6, <1>7, <1>8 DEF Next, Finished

-----------------------------------------------------------------------------
\* The inductive invariant: while a payload is redacted, what has been encoded tells of
\* every answer so far, and the attributes are those of the call with foreign keys after.
THEOREM Invariance == Spec => []IInv
<1>1. IInv /\ [Next]_vars => IInv' BY NextInv
<1> QED BY InitInv, <1>1, PTL DEF Spec

\* The span, its attributes and events and the error are of the types of spans.go:48-68.
THEOREM TypeCorrect == Spec => []TypeOK
<1>1. IInv => TypeOK BY DEF IInv
<1> QED BY Invariance, <1>1, PTL

\* The content event has exactly the values that the redactor returned for payloads of
\* a known kind, in the order of the payloads (events.go:13-58).
THEOREM EventTellsTheAnswers == Spec => []OnlyWhatTheRedactorReturned
<1>1. IInv => OnlyWhatTheRedactorReturned BY DEF IInv
<1> QED BY Invariance, <1>1, PTL

\* A redaction that fails, at whichever payload, leaves a mark and no content, is an
\* error in strict mode only, and the caller gets the span that was started
\* (events.go:20-26, spans.go:62-66).
THEOREM FailsClosed == Spec => []FailClosed
<1>1. IInv => FailClosed BY DEF IInv
<1> QED BY Invariance, <1>1, PTL

\* Neither the compatibility attributes nor anything set on the span later changes the
\* value of a native key (openllmetry.go:61-109, spans.go:56-61,100-115).
THEOREM NativeIsKept == Spec => []NativeKept
<1>1. ASSUME IInv PROVE NativeKept
  <2> SUFFICES ASSUME span # "none", NEW key \in NativeKeys
      PROVE  Last(attrs, key) = Last(SpanAttributes([call EXCEPT !.compat = FALSE]), key)
    BY DEF NativeKept
  <2>1. PICK bare : bare = SpanAttributes([call EXCEPT !.compat = FALSE]) OBVIOUS
  <2>2. /\ attrs \in Seq(AttrType) /\ SpanAttributes(call) \in Seq(AttrType)
        /\ Adds(attrs, SpanAttributes(call)) /\ Adds(SpanAttributes(call), bare)
    BY <1>1, <2>1, CallTyped, SpanAttributesOk DEF IInv, TypeOK, InvAttrs
  <2>3. bare \in Seq(AttrType) BY <1>1, <2>1, CallTyped, SpanAttributesOk DEF IInv
  <2>4. Adds(attrs, bare) BY <2>2, <2>3, AddsTrans
  <2> QED BY <2>1, <2>2, <2>3, <2>4, AddsLast
<1>2. IInv => NativeKept BY <1>1
<1> QED BY Invariance, <1>2, PTL
=============================================================================
