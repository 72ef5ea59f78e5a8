----------------------------- MODULE MCCleanup -----------------------------
(***************************************************************************)
(* Cleanup on the hook lists of exporters.go:83-94, shortened to logs and  *)
(* traces, with a nil entry such as cleanup_test.go:67 has, and three      *)
(* interleaved invocations of which one has a deadline.                    *)
(***************************************************************************)
EXTENDS CleanupProofs

CONSTANTS p1, p2, p3, logs, traces

MCCalls == {p1, p2, p3}
MCBounded == {p1}
MCComponents == {logs, traces}
MCFlushHooks == <<logs, traces>>
MCShutdownHooks == <<logs, NilHook, traces>>
=============================================================================
