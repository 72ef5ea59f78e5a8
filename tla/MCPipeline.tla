----------------------------- MODULE MCPipeline -----------------------------
(***************************************************************************)
(* Pipeline with logs, which have a dev sink and two records, and traces,  *)
(* which have none and one; the buffer holds one record, a request one.    *)
(* The third signal is like logs.                                          *)
(***************************************************************************)
EXTENDS Pipeline

CONSTANTS logs, traces

MCSignals == <<logs, traces>>
MCCompositions == {{logs}}
MCRecords == 1..2
MCFlushable == {logs}
MCMaxRecords == [s \in SignalSet |-> IF s = logs THEN 2 ELSE 1]
=============================================================================
