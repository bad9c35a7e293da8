-------------------------- MODULE MCAssetLifecycle --------------------------
(* An instance of AssetLifecycle: two threads of one process and one of     *)
(* another call for a model with a file of its own and an archive.          *)
EXTENDS AssetLifecycle, TLC

CONSTANTS c1, c2, c3, p1, p2, m1, own, archive

MCProcOf == (c1 :> p1) @@ (c2 :> p1) @@ (c3 :> p2)
MCFilesOf == m1 :> <<own, archive>>

Holding(W, R) ==
  [whole |-> [f \in {own, archive} |-> f \in W], part |-> [f \in {own, archive} |-> "none"],
   ready |-> archive :> R]
\* The model is cached, or its own file, or the archive is missing.
MCCaches == {Holding({own, archive}, TRUE), Holding({archive}, FALSE), Holding({own}, FALSE)}

\* BOUND: two calls at a time, which find one of the files missing.
TwoAtOnce ==
  /\ Cardinality({c \in Callers : Active(c)}) <= 2
  /\ \E f \in {own, archive} : \A r \in Procs : xfer[r][f].at = "none" /\ part[f] = "none"

\* BOUND: liveness is followed where two threads call, of one process or of
\* two, and the archive is there; Fairness says no more of them.
TwoCalls == whole[archive] /\ \E c \in {c2, c3} : call[c].at = "idle"
TwoCallsSpec ==
  /\ LifecycleSpec
  /\ \A c \in Callers : WF_avars(TwoCalls /\ Thread(c))
  /\ \A r \in Procs, f \in Files : WF_avars(TwoCalls /\ WorkerThread(r, f))

\* Every call returns.
EveryCallReturns == []TwoCalls => CallsReturn
=============================================================================
