---------------------------- MODULE MCJobQueue ----------------------------
(* A purge job and a sync job, a worker with two slots and one with one.   *)
EXTENDS JobQueue, TLC

CONSTANTS j1, j2, w1, w2, s1, s2, s3

MCJob == {j1, j2}
MCKind == (j1 :> "PURGE_TORRENT") @@ (j2 :> "SYNC_TORRENT")
MCMaxAttempts == (j1 :> 2) @@ (j2 :> 2)
MCWorker == {w1, w2}
MCSlot == {s1, s2, s3}
MCWorkerOf == (s1 :> w1) @@ (s2 :> w1) @@ (s3 :> w2)

\* Liveness is checked with one slot per worker.
MCTwoSlots == {s1, s2}
MCTwoOf == (s1 :> w1) @@ (s2 :> w2)
=============================================================================
