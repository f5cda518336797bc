--------------------------- MODULE MCAuditManager ---------------------------
(* Instances of AuditManager for TLC: two instances of the traces sink, one *)
(* replacing the other, next to a telemetry sink.                           *)
EXTENDS AuditManager, TLC

CONSTANTS t1, t2, e1, th1, th2

MCSinks == {t1, t2, e1}
MCNames == {"traces", "track_events"}
MCNameOf == (t1 :> "traces") @@ (t2 :> "traces") @@ (e1 :> "track_events")
MCThreads == {th1, th2}
MCSymmetry == Permutations(MCThreads) \cup Permutations({t1, t2})
=============================================================================
