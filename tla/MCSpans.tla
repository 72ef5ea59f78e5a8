------------------------------ MODULE MCSpans ------------------------------
(***************************************************************************)
(* Spans on calls with up to three payloads, every capture setting and     *)
(* every answer of the redactor.                                           *)
(***************************************************************************)
EXTENDS Spans

Call(op, tracer, fields, usage, attributes, payloads, compat, capture, strict) ==
  [op |-> op, tracer |-> tracer, fields |-> fields, usage |-> usage,
   attributes |-> attributes, payloads |-> payloads, compat |-> compat,
   capture |-> capture, strict |-> strict]

Usage(available, input, output) == [available |-> available, input |-> input, output |-> output]
NoUsage == Usage(FALSE, 0, 0)

MCCallerKeys == {"product", "operation", "llm.request.type"}
CallerSays == {<<>>, <<"product", "operation">>, <<"llm.request.type">>}

\* Attributes: every operation, with and without compatibility.
Plain ==
  {Call(op, tracer, fields, usage, attributes, <<>>, compat, "off", FALSE) :
     op \in {"model", "agent", "tool"}, tracer \in BOOLEAN,
     fields \in {{}, {"operation", "request.model"}, {"operation", "agent", "tool"}},
     usage \in {NoUsage, Usage(TRUE, 1, 0), Usage(TRUE, -1, 1), Usage(FALSE, 1, -1)},
     attributes \in CallerSays, compat \in BOOLEAN}

\* Payloads: every setting of the capture.
Capturing ==
  {Call("model", TRUE, fields, NoUsage, <<>>, payloads, FALSE, capture, strict) :
     fields \in {{}, {"operation", "provider"}},
     payloads \in {<<>>, <<"prompt">>, <<"prompt", "completion">>, <<"prompt", "prompt">>,
                   <<"system_instructions", "other", "tool_definitions">>},
     capture \in {"off", "no_redactor", "drop_all", "allow_unredacted", "custom"},
     strict \in BOOLEAN}

MCCalls == Plain \cup Capturing
MCMaxAfter == 2
=============================================================================
