------------------------------- MODULE Spans -------------------------------
(***************************************************************************)
(* The GenAI spans and the capture of payloads: spans.go, events.go,       *)
(* redact.go and openllmetry.go.  One span, from the call that starts it   *)
(* to its end.                                                             *)
(*                                                                         *)
(* An attribute is its key and who gave it a value: the library from the   *)
(* fields of the call, the caller, or the OpenLLMetry compatibility.  A    *)
(* payload is its kind; the redactor is the caller's: it fails, or returns *)
(* any value under the kind of the payload or under none.  The SDK's span  *)
(* keeps the last of several values of a key and ignores what comes after  *)
(* its end.                                                                *)
(***************************************************************************)
EXTENDS Integers, Sequences

CONSTANTS
  CallerKeys, \* the keys of the attributes that callers add
  Calls,      \* what the span may be started with
  MaxAfter    \* bound: calls on the span after it was returned

ASSUME MaxAfterAssumption == MaxAfter \in Nat

Kinds == {"prompt", "completion", "system_instructions", "tool_definitions", "other"}
NativeKeys ==
  {"operation", "provider", "system", "request.model", "response.model", "agent", "tool",
   "usage.available", "usage.input", "usage.output"}
CompatKeys == {"llm.request.type", "llm.usage.total_tokens", "traceloop"}
FailedKey == "redaction.failed"
AttrKeys == NativeKeys \cup CompatKeys \cup {FailedKey, "error.type"} \cup CallerKeys

\* What a caller passes, and the options of its providers.
CallType ==
  [op : {"model", "agent", "tool"}, tracer : BOOLEAN, fields : SUBSET NativeKeys,
   usage : [available : BOOLEAN, input : Int, output : Int], attributes : Seq(CallerKeys),
   payloads : Seq(Kinds), compat : BOOLEAN, strict : BOOLEAN,
   capture : {"off", "no_redactor", "drop_all", "allow_unredacted", "custom"}]

ASSUME CallsAssumption == \A c \in Calls : c \in CallType

VARIABLES
  call,       \* the call
  pc,         \* "idle", "redact", "returned", "over"
  span,       \* "none", "open" or "ended"
  attrs,      \* the attributes of the span, in the order they were set
  events,     \* its events, in order
  status,     \* "unset" or "error"
  content,    \* the payloads encoded so far
  replies,    \* history: what the redactor returned, in order
  returned,   \* what the caller got: [span, err]
  after       \* history: calls on the span after it was returned

vars == <<call, pc, span, attrs, events, status, content, replies, returned, after>>

\* A redactor fails, drops the value, makes the payload one of no known kind,
\* returns a value that has no JSON, or a value: its own, of any size, or the one it
\* was given.
Values == {"redacted", "raw"}
Replies == {"error", "nil", "other", "no_json"} \cup Values

A(key, by) == [key |-> key, by |-> by]
AttrType == [key : AttrKeys, by : {"library", "caller", "compat"}]
PayloadType == [kind : Kinds \ {"other"}, value : Values]
EventType ==
  [name : {"content", "fallback", "exception"}, payloads : Seq(PayloadType),
   fields : SUBSET NativeKeys]

-----------------------------------------------------------------------------
\* Attributes

\* A field has an attribute if it is not empty.
Field(c, key) == IF key \in c.fields THEN <<A(key, "library")>> ELSE <<>>

CallerAttrs(c) == [n \in DOMAIN c.attributes |-> A(c.attributes[n], "caller")]

Negative(usage) == usage.input < 0 \/ usage.output < 0
UsageSpanAttributes(usage) ==
  <<A("usage.available", "library")>>
    \o IF usage.available THEN <<A("usage.input", "library"), A("usage.output", "library")>>
       ELSE <<>>

\* Mutant: a legacy key for the operation replaces the native one.
openLLMetryModelCallAttributes_Renames(c) ==
  IF c.compat THEN <<A("operation", "compat"), A("traceloop", "compat")>> ELSE <<>>
openLLMetryModelCallAttributes(c) ==
  IF ~c.compat THEN <<>>
  ELSE <<A("llm.request.type", "compat")>>
         \o (IF c.usage.available THEN <<A("llm.usage.total_tokens", "compat")>> ELSE <<>>)
         \o <<A("traceloop", "compat")>>

modelCallAttributes(c) ==
  Field(c, "operation") \o Field(c, "provider") \o Field(c, "system")
    \o Field(c, "request.model") \o Field(c, "response.model")
    \o UsageSpanAttributes(c.usage) \o CallerAttrs(c)

SpanAttributes(c) ==
  CASE c.op = "model" -> modelCallAttributes(c) \o openLLMetryModelCallAttributes(c)
    [] c.op = "agent" -> Field(c, "operation") \o Field(c, "agent") \o CallerAttrs(c)
    [] c.op = "tool" -> <<A("operation", "library")>> \o Field(c, "tool") \o CallerAttrs(c)

\* payloadCorrelationAttrs: non-empty fields of the call.
Correlation(c) == {"operation", "provider", "request.model"} \cap c.fields

-----------------------------------------------------------------------------

TypeOK ==
  /\ call \in Calls
  /\ pc \in {"idle", "redact", "returned", "over"}
  /\ span \in {"none", "open", "ended"}
  /\ attrs \in Seq(AttrType)
  /\ events \in Seq(EventType)
  /\ status \in {"unset", "error"}
  /\ content \in Seq(PayloadType)
  /\ replies \in Seq(Replies)
  /\ returned \in [span : BOOLEAN, err : {"none", "nil_tracer", "usage", "redaction"}]
  /\ after \in 0..MaxAfter

Init ==
  /\ call \in Calls
  /\ pc = "idle"
  /\ span = "none"
  /\ attrs = <<>>
  /\ events = <<>>
  /\ status = "unset"
  /\ content = <<>>
  /\ replies = <<>>
  /\ returned = [span |-> FALSE, err |-> "none"]
  /\ after = 0

Return(withSpan, err) ==
  /\ pc' = IF withSpan THEN "returned" ELSE "over"
  /\ returned' = [span |-> withSpan, err |-> err]

\* StartModelCall, StartAgentOperation, StartToolCall without a tracer.
NilTracer ==
  /\ pc = "idle" /\ ~call.tracer
  /\ Return(FALSE, "nil_tracer")
  /\ UNCHANGED <<call, span, attrs, events, status, content, replies, after>>

NegativeUsage ==
  /\ pc = "idle" /\ call.tracer /\ call.op = "model" /\ Negative(call.usage)
  /\ Return(FALSE, "usage")
  /\ UNCHANGED <<call, span, attrs, events, status, content, replies, after>>

\* The guard of attachPromptPayloadEvent: a capture with a redactor, and payloads.
Captures(c) == c.op = "model" /\ c.capture \notin {"off", "no_redactor"} /\ c.payloads # <<>>

StartSpan ==
  /\ pc = "idle" /\ call.tracer
  /\ ~(call.op = "model" /\ Negative(call.usage))
  /\ span' = "open"
  /\ attrs' = SpanAttributes(call)
  /\ IF Captures(call) THEN pc' = "redact" /\ UNCHANGED returned ELSE Return(TRUE, "none")
  /\ UNCHANGED <<call, events, status, content, replies, after>>

\* What a redactor may answer: DropAllPayloadsRedactor, AllowUnredactedPayloadsRedactor
\* (the payload as it is, which may be empty or have no JSON) and one of the caller.
MayReply(c) ==
  CASE c.capture = "drop_all" -> {"nil"}
    [] c.capture = "allow_unredacted" -> {"raw", "nil", "no_json"}
    [] c.capture = "custom" -> Replies

\* A failed redaction ends the capture; mutant: what was redacted so far is attached.
AfterFailure_Attach(encoded) == encoded
AfterFailure(encoded) == <<>>

\* What the reply to a payload of this kind adds to the event.  Mutants: a kind
\* without a key of its own is attached too; what the redactor was given, when its
\* answer cannot be encoded.
Encoded_AnyKind(kind, reply) ==
  IF reply \in Values THEN <<[kind |-> kind, value |-> reply]>> ELSE <<>>
Encoded_Given(kind, reply) ==
  IF reply \in Values \cup {"no_json"} /\ kind # "other"
    THEN <<[kind |-> kind, value |-> IF reply = "no_json" THEN "raw" ELSE reply]>> ELSE <<>>
Encoded(kind, reply) ==
  IF reply \in Values /\ kind # "other" THEN <<[kind |-> kind, value |-> reply]>> ELSE <<>>

Attach(encoded) ==
  events' = IF encoded = <<>> THEN events
            ELSE Append(events, [name |-> "content", payloads |-> encoded,
                                 fields |-> Correlation(call)])

Redact ==
  /\ pc = "redact" /\ Len(replies) < Len(call.payloads)
  /\ \E reply \in MayReply(call) :
       /\ replies' = Append(replies, reply)
       /\ IF reply = "error"
            THEN /\ attrs' = Append(attrs, A(FailedKey, "library"))
                 /\ Attach(AfterFailure(content))
                 /\ Return(TRUE, IF call.strict THEN "redaction" ELSE "none")
                 /\ UNCHANGED content
            ELSE /\ content' = content \o Encoded(call.payloads[Len(replies) + 1], reply)
                 /\ UNCHANGED <<attrs, events, pc, returned>>
  /\ UNCHANGED <<call, span, status, after>>

AttachContent ==
  /\ pc = "redact" /\ Len(replies) = Len(call.payloads)
  /\ Attach(content)
  /\ Return(TRUE, "none")
  /\ UNCHANGED <<call, span, attrs, status, content, replies, after>>

-----------------------------------------------------------------------------
\* What the caller does with the span

Use ==
  /\ pc = "returned" /\ after < MaxAfter
  /\ after' = after + 1
  /\ UNCHANGED <<call, pc, span, content, replies, returned>>

Event(name) == [name |-> name, payloads |-> <<>>, fields |-> {}]
IfOpen(new, old) == IF span = "open" THEN new ELSE old

AddFallbackEvent ==
  /\ Use
  /\ events' = IfOpen(Append(events, Event("fallback")), events)
  /\ UNCHANGED <<attrs, status>>

Status(err, type) == IF err \/ type THEN "error" ELSE status
MarkSpanError ==
  /\ Use
  /\ \E err, type \in BOOLEAN :
       /\ attrs' = IfOpen(IF type THEN Append(attrs, A("error.type", "library")) ELSE attrs,
                          attrs)
       /\ events' = IfOpen(IF err THEN Append(events, Event("exception")) ELSE events, events)
       /\ status' = IfOpen(Status(err, type), status)

End ==
  /\ pc = "returned"
  /\ span' = "ended"
  /\ \/ pc' = "over"
     \/ UNCHANGED pc
  /\ UNCHANGED <<call, attrs, events, status, content, replies, returned, after>>

Finished == pc = "over" /\ UNCHANGED vars

Next ==
  \/ NilTracer \/ NegativeUsage \/ StartSpan \/ Redact \/ AttachContent
  \/ AddFallbackEvent \/ MarkSpanError \/ End \/ Finished

Spec == Init /\ [][Next]_vars

-----------------------------------------------------------------------------
\* Properties

Contents == {n \in DOMAIN events : events[n].name = "content"}
Failed == \E n \in DOMAIN replies : replies[n] = "error"

\* The payloads that have an attribute: of a known kind, and with a value from the
\* redactor.
Attachable == {j \in DOMAIN replies : replies[j] \in Values /\ call.payloads[j] # "other"}

\* The list says of these payloads, in their order and of no other, what the redactor
\* returned.
Tells(list) ==
  \E at \in [DOMAIN list -> Attachable] :
    /\ \A m \in DOMAIN list :
         list[m] = [kind |-> call.payloads[at[m]], value |-> replies[at[m]]]
    /\ \A m, n \in DOMAIN list : m < n => at[m] < at[n]
    /\ \A j \in Attachable : \E m \in DOMAIN list : at[m] = j

\* An event has the values the redactor returned, in the order of the payloads, and
\* none is left out that has an attribute of its own (docs/redaction.md:73-86).
OnlyWhatTheRedactorReturned == \A n \in Contents : Tells(events[n].payloads)

\* Fail-closed: a redaction that failed leaves no content on the span, not even that
\* of the payloads redacted before it, leaves a mark, and is an error in strict mode
\* only (docs/redaction.md:112-120).  With the error too the caller gets the span,
\* so that it can end what was started, and no other (spans.go:62-66).
FailClosed ==
  /\ Failed =>
       /\ Contents = {}
       /\ \E n \in DOMAIN attrs : attrs[n] = A(FailedKey, "library")
       /\ returned.err = "redaction" <=> call.strict
  /\ pc \in {"returned", "over"} => (span # "none" <=> returned.span)

\* The value of a key, as exported.
Last(list, key) ==
  LET at == {n \in DOMAIN list : list[n].key = key}
  IN {list[n].by : n \in {m \in at : \A j \in at : j <= m}}

\* Compatibility is additive: every native key has the value it would have without
\* it (docs/openllmetry.md:10-13).
NativeKept ==
  span # "none" =>
    \A key \in NativeKeys :
      Last(attrs, key) = Last(SpanAttributes([call EXCEPT !.compat = FALSE]), key)
=============================================================================
