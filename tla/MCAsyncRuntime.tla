--------------------------- MODULE MCAsyncRuntime ---------------------------
(* Instances of AsyncRuntime for TLC.                                      *)
EXTENDS AsyncRuntime, TLC

CONSTANTS m1, m2, m3

\* A task for any thread, a blocking task for any thread and a posted task
\* for the workers.
MCAffinity == (m1 :> "any") @@ (m2 :> "any") @@ (m3 :> "worker")
MCKind == (m1 :> "task") @@ (m2 :> "blocking") @@ (m3 :> "posted")

\* Two async tasks and a blocking task that only the main thread may run.
MainAffinity == (m1 :> "any") @@ (m2 :> "main") @@ (m3 :> "worker")
MainKind == (m1 :> "task") @@ (m2 :> "blocking") @@ (m3 :> "task")

HolderSymmetry == Permutations(Holders)
=============================================================================
