---------------------------- MODULE AssetManager ----------------------------
(***************************************************************************)
(* AssetManager.downloadModel, join and deleteModelAssets (manager.ts) of  *)
(* every tab, composed with the transfers they start, share, replace and   *)
(* abort.  One model id; each element of Callers is one call of            *)
(* downloadModel, in a tab of its own choice.  Progress reporting is left  *)
(* out: it reads the transfers' counters and decides nothing.              *)
(***************************************************************************)
EXTENDS AssetTransfer, FiniteSets

CONSTANTS
  Callers, CallerTab,
  Place       \* the position of each file in the manifest of the model

\* The manifest lists the private files before the shared ones.
ASSUME ManagerAssumption ==
  /\ CallerTab \in [Callers -> Tabs]
  /\ Place \in [Urls -> Nat]
  /\ \A u, w \in Urls : Place[u] = Place[w] => u = w
  /\ \A u \in Private, w \in Urls \ Private : Place[u] < Place[w]

VARIABLES
  transfers,  \* [Tabs -> [Urls -> Slots \cup {None}]], the map of each tab
  deletion,   \* [Tabs -> {"none", "pending", "committed"}]
  call,       \* where each caller is suspended
  cancelled,  \* its AbortController: its own abort or a deletion
  captured,   \* [Urls -> Nat \cup {None}], the generations it first read
  checked,    \* the files verifyGeneration has read in its current pass
  join,       \* [Urls -> ...], the state of its join of each file
  joined      \* [Urls -> Slots \cup {None}], the transfer a join awaits

mvars == <<transfers, deletion, call, cancelled, captured, checked, join, joined>>
vars == <<files, chunks, lock, pc, gen, aborted, rec, hash, resp, out,
          transfers, deletion, call, cancelled, captured, checked, join, joined>>

CallStates == {"idle", "deletion", "stat", "persist", "verify", "join",
               "reverify", "ready", "failed"}
JoinStates == {"none", "start", "old", "attached", "ok", "failed"}

Active(c) == call[c] \notin {"idle", "ready", "failed"}
CallersOf(tab) == {c \in Callers : CallerTab[c] = tab /\ Active(c)}

\* transfer.listeners and the joins that await a transfer's cleanup.
Listeners(t) == {c \in Callers : /\ join[c][UrlOf(t)] = "attached"
                                 /\ joined[c][UrlOf(t)] = t}
AwaitsCleanup(c, t) == join[c][UrlOf(t)] = "old" /\ joined[c][UrlOf(t)] = t

NoJoin == [u \in Urls |-> "none"]
NoSlot == [u \in Urls |-> None]

ManagerInit ==
  /\ TransferInit
  /\ transfers = [tab \in Tabs |-> NoSlot]
  /\ deletion = [tab \in Tabs |-> "none"]
  /\ call = [c \in Callers |-> "idle"]
  /\ cancelled = [c \in Callers |-> FALSE]
  /\ captured = [c \in Callers |-> NoSlot]
  /\ checked = [c \in Callers |-> {}]
  /\ join = [c \in Callers |-> NoJoin]
  /\ joined = [c \in Callers |-> NoSlot]

SetCall(c, s) == call' = [call EXCEPT ![c] = s]

----------------------------------------------------------------------------
(* downloadModel, from await to await. *)

Start(c) ==
  /\ call[c] = "idle"
  /\ SetCall(c, IF deletion[CallerTab[c]] # "none" THEN "deletion" ELSE "stat")
  /\ UNCHANGED <<tvars, transfers, deletion, cancelled, captured, checked, join, joined>>

\* options.signal is aborted.
Cancel(c) ==
  /\ Active(c)
  /\ cancelled' = [cancelled EXCEPT ![c] = TRUE]
  /\ UNCHANGED <<tvars, transfers, deletion, call, captured, checked, join, joined>>

\* One of the parallel reads that capture the generations.
Capture(c, u) ==
  /\ call[c] = "stat" /\ ~cancelled[c] /\ captured[c][u] = None
  /\ captured' = [captured EXCEPT ![c][u] = files[u].gen]
  /\ SetCall(c, IF \A w \in Urls \ {u} : captured[c][w] # None
                THEN "persist" ELSE "stat")
  /\ UNCHANGED <<tvars, transfers, deletion, cancelled, checked, join, joined>>

\* The permission request is answered, whatever the answer.
Persisted(c) ==
  /\ call[c] = "persist" /\ ~cancelled[c]
  /\ SetCall(c, "verify")
  /\ UNCHANGED <<tvars, transfers, deletion, cancelled, captured, checked, join, joined>>

\* Mutant of Deleted: no generation is ever found to have changed.
NeverDeleted(c, u) == FALSE
\* verifyGeneration: the file is not in the generation first read.
Deleted(c, u) == u \in Private /\ files[u].gen # captured[c][u]

\* The interval timer runs verifyGeneration: a deletion is noticed although
\* this tab was not told.
Poll(c) ==
  /\ call[c] \in {"persist", "verify", "join", "reverify"} /\ ~cancelled[c]
  /\ \E u \in Urls : Deleted(c, u)
  /\ cancelled' = [cancelled EXCEPT ![c] = TRUE]
  /\ UNCHANGED <<tvars, transfers, deletion, call, captured, checked, join, joined>>

Installed(u) == files[u].complete /\ Compatible(files[u], u)

\* A pass of verifyGeneration reads one file after the other, as the manifest
\* lists them: u is the next.
NextFile(c, u) ==
  /\ u \notin checked[c]
  /\ \A w \in Urls \ checked[c] : Place[u] <= Place[w]

\* One read of verifyGeneration.  The first pass finds what is missing, the
\* second is the last check before the caller reports that it is ready.
Verify(c, u) ==
  LET last == checked[c] \cup {u} = Urls IN
  /\ call[c] \in {"verify", "reverify"} /\ NextFile(c, u)
  /\ ~Deleted(c, u)
  /\ checked' = [checked EXCEPT ![c] = IF last THEN {} ELSE @ \cup {u}]
  /\ join' = IF call[c] = "verify"
             THEN [join EXCEPT ![c][u] = IF Installed(u) THEN "ok" ELSE "start"]
             ELSE join
  /\ last => ~cancelled[c]
  /\ SetCall(c, IF ~last THEN call[c]
                ELSE IF call[c] = "verify" THEN "join" ELSE "ready")
  /\ UNCHANGED <<tvars, transfers, deletion, cancelled, captured, joined>>

\* Every join has succeeded.
Downloaded(c) ==
  /\ call[c] = "join"
  /\ \A u \in Urls : join[c][u] = "ok"
  /\ SetCall(c, "reverify")
  /\ UNCHANGED <<tvars, transfers, deletion, cancelled, captured, checked, join, joined>>

\* The transfers a leaving caller was the last listener of.
Abandoned(c) == {t \in Slots : Listeners(t) = {c}}

\* Mutant of Reject: the failing call does not abort its own controller.
RejectOpen(c) ==
  /\ Active(c) /\ SetCall(c, "failed")
  /\ join' = [join EXCEPT ![c] = [u \in Urls |-> IF @[u] = "old" THEN @[u] ELSE "none"]]
  /\ Abort(Abandoned(c))
  /\ UNCHANGED <<transfers, deletion, captured, cancelled, checked, joined>>

\* The catch and finally blocks: the call aborts its own controller and
\* detaches from its transfers; one that has no listener left is aborted.  A
\* join that still awaits a cleanup is left to find the controller aborted.
Reject(c) ==
  /\ Active(c)
  /\ SetCall(c, "failed")
  /\ cancelled' = [cancelled EXCEPT ![c] = TRUE]
  /\ checked' = [checked EXCEPT ![c] = {}]
  /\ LET unsettled == {u \in Urls : join[c][u] \in {"start", "old"}} IN
     /\ join' = [join EXCEPT ![c] = [u \in Urls |-> IF u \in unsettled THEN @[u] ELSE "none"]]
     /\ joined' = [joined EXCEPT ![c] = [u \in Urls |-> IF u \in unsettled THEN @[u] ELSE None]]
  /\ Abort(Abandoned(c))
  /\ UNCHANGED <<transfers, deletion, captured>>

\* Mutant of AbortableWaits: the permission request is awaited bare.
WaitsButPersist == {"deletion", "stat", "join"}
\* Where the call waits in signalWait, which its abort interrupts.
AbortableWaits == {"deletion", "stat", "persist", "join"}

\* Aborted while it waits, a join failed, or verifyGeneration found a deletion.
Rejected(c) ==
  /\ \/ call[c] \in AbortableWaits /\ cancelled[c]
     \/ call[c] = "join" /\ \E u \in Urls : join[c][u] = "failed"
     \/ /\ call[c] \in {"verify", "reverify"}
        /\ \E u \in Urls : /\ NextFile(c, u)
                           /\ Deleted(c, u) \/ (cancelled[c] /\ checked[c] \cup {u} = Urls)
  /\ Reject(c)

\* A storage transaction of the call fails.
StorageFails(c) ==
  /\ call[c] \in {"stat", "persist", "verify", "reverify"}
  /\ Reject(c)

----------------------------------------------------------------------------
(* join: share the tab's transfer of the generation, replace one of an older *)
(* generation, wait for one that is being aborted.                           *)

SetJoin(c, u, s, t) ==
  /\ join' = [join EXCEPT ![c][u] = s]
  /\ joined' = [joined EXCEPT ![c][u] = t]

JoinUnchanged == UNCHANGED <<deletion, call, cancelled, captured, checked>>

\* A join that finds its caller's signal aborted throws.
JoinDropped(c, u) ==
  /\ join[c][u] \in {"start", "old"} /\ cancelled[c]
  /\ SetJoin(c, u, IF Active(c) THEN "failed" ELSE "none", None)
  /\ JoinUnchanged /\ UNCHANGED <<tvars, transfers>>

\* Mutant of Join: an empty map entry is taken for a transfer.
JoinUnguarded(c, u) ==
  /\ join[c][u] = "start" /\ transfers[CallerTab[c]][u] = None
  /\ SetJoin(c, u, "attached", "undefined")
  /\ JoinUnchanged /\ UNCHANGED <<tvars, transfers>>

Join(c, u) ==
  LET tab == CallerTab[c]  t == transfers[tab][u] IN
  /\ join[c][u] = "start" /\ ~cancelled[c] /\ t # None
  /\ gen[t] >= captured[c][u]
  /\ IF gen[t] > captured[c][u] THEN SetJoin(c, u, "failed", None)
     ELSE SetJoin(c, u, IF aborted[t] THEN "old" ELSE "attached", t)
  /\ JoinUnchanged /\ UNCHANGED <<tvars, transfers>>

Replaced(t) == {t} \ {None}

Create(c, u) ==
  LET tab == CallerTab[c]  t == transfers[tab][u] IN
  /\ join[c][u] = "start" /\ ~cancelled[c]
  /\ t # None => gen[t] < captured[c][u]
  /\ \E n \in 1 .. SlotsPerUrl : LET s == <<tab, u, n>> IN
       /\ \A k \in 1 .. n - 1 : Alive(<<tab, u, k>>)
       /\ Begin(s, captured[c][u], Replaced(t))
       /\ transfers' = [transfers EXCEPT ![tab][u] = s]
       /\ SetJoin(c, u, "attached", s)
  /\ JoinUnchanged

JoinResult(t) == IF out[t] = "ok" THEN "ok" ELSE "failed"

\* Mutant of Settled: the promise settles before the Web Lock is given back.
SettledLocked(t) ==
  /\ pc[t] = "closing" /\ pc' = [pc EXCEPT ![t] = "free"]
  /\ UNCHANGED <<files, chunks, lock, gen, aborted, rec, hash, resp, out, mvars>>

\* The transfer's promise settles: its listeners learn how, the joins that
\* awaited its cleanup look at the map again, its own map entry goes.
Settled(t) ==
  LET tab == TabOf(t)  u == UrlOf(t) IN
  /\ Settle(t)
  /\ transfers' = [transfers EXCEPT ![tab][u] = IF @ = t THEN None ELSE @]
  /\ join' = [c \in Callers |-> [join[c] EXCEPT ![u] =
       IF c \in Listeners(t) THEN JoinResult(t)
       ELSE IF AwaitsCleanup(c, t) THEN "start" ELSE @]]
  /\ joined' = [c \in Callers |-> [joined[c] EXCEPT ![u] = IF @ = t THEN None ELSE @]]
  /\ JoinUnchanged

----------------------------------------------------------------------------
(* deleteModelAssets *)

DeleteModel(tab) ==
  /\ deletion[tab] = "none"
  /\ deletion' = [deletion EXCEPT ![tab] = "pending"]
  /\ cancelled' = [c \in Callers |-> cancelled[c] \/ c \in CallersOf(tab)]
  /\ Abort({transfers[tab][u] : u \in Private} \ {None})
  /\ UNCHANGED <<transfers, call, captured, checked, join, joined>>

DeleteCommit(tab) ==
  /\ deletion[tab] = "pending"
  /\ deletion' = [deletion EXCEPT ![tab] = "committed"]
  /\ Delete
  /\ UNCHANGED <<transfers, call, cancelled, captured, checked, join, joined>>

\* The deletion settles and the calls that waited for it go on, or reject
\* with it if its transaction failed.
DeleteSettled(tab) ==
  /\ deletion[tab] # "none"
  /\ deletion' = [deletion EXCEPT ![tab] = "none"]
  /\ LET waiting == {c \in CallersOf(tab) : call[c] = "deletion"}
         failed == deletion[tab] = "pending" IN
     /\ call' = [c \in Callers |-> IF c \in waiting /\ ~failed THEN "stat" ELSE call[c]]
     /\ cancelled' = [c \in Callers |-> cancelled[c] \/ (c \in waiting /\ failed)]
  /\ UNCHANGED <<tvars, transfers, captured, checked, join, joined>>

CloseTab(tab) ==
  LET mine == {c \in Callers : CallerTab[c] = tab} IN
  /\ Crash(tab)
  /\ transfers' = [transfers EXCEPT ![tab] = NoSlot]
  /\ deletion' = [deletion EXCEPT ![tab] = "none"]
  /\ call' = [c \in Callers |-> IF c \in CallersOf(tab) THEN "failed" ELSE call[c]]
  /\ cancelled' = [c \in Callers |-> cancelled[c] \/ c \in CallersOf(tab)]
  /\ checked' = [c \in Callers |-> IF c \in mine THEN {} ELSE checked[c]]
  /\ join' = [c \in Callers |-> IF c \in mine THEN NoJoin ELSE join[c]]
  /\ joined' = [c \in Callers |-> IF c \in mine THEN NoSlot ELSE joined[c]]
  /\ UNCHANGED captured

TransferStep(t) == Step(t) /\ UNCHANGED mvars

Advance(c) ==
  \/ Downloaded(c) \/ Rejected(c)
  \/ \E u \in Urls : Capture(c, u) \/ Verify(c, u)
  \/ \E u \in Urls : JoinDropped(c, u) \/ Join(c, u) \/ Create(c, u)

Deletion(tab) == DeleteCommit(tab) \/ DeleteSettled(tab)

ManagerNext ==
  \/ \E c \in Callers : Start(c) \/ Cancel(c) \/ Persisted(c) \/ Poll(c)
  \/ \E c \in Callers : Advance(c) \/ StorageFails(c)
  \/ \E t \in Slots : TransferStep(t) \/ Settled(t)
  \/ \E tab \in Tabs : DeleteModel(tab) \/ Deletion(tab) \/ CloseTab(tab)

\* The steps of a transfer that do not wait for the network.
OffNetwork(t) ==
  \/ /\ pc[t] \in {"fetch", "body"} => aborted[t]
     /\ Work(t) /\ UNCHANGED mvars
  \/ Settled(t)
OnNetwork(t) == pc[t] \in {"fetch", "body"} /\ TransferStep(t)

\* Started transactions and promise reactions run, and a Web Lock is granted
\* first come first served.  Nothing is assumed of the application, of the
\* permission prompt or of timers.
Fairness ==
  /\ \A c \in Callers : WF_vars(Advance(c))
  /\ \A t \in Slots : WF_vars(OffNetwork(t)) /\ SF_vars(Lock(t) /\ UNCHANGED mvars)
  /\ \A tab \in Tabs : WF_vars(Deletion(tab))

\* The code has no timeout of its own: the network answers or fails, but it
\* need never answer what was aborted or a cancelled call still listens to.
Wanted(t) == ~aborted[t] /\ \A c \in Listeners(t) : ~cancelled[c]
NetworkFairness == \A t \in Slots : WF_vars(OnNetwork(t) /\ Wanted(t))

ManagerSpec == ManagerInit /\ [][ManagerNext]_vars
FairManagerSpec == ManagerSpec /\ Fairness /\ NetworkFairness

----------------------------------------------------------------------------
ManagerTypeOK ==
  /\ TransferTypeOK
  /\ transfers \in [Tabs -> [Urls -> Slots \cup {None}]]
  /\ deletion \in [Tabs -> {"none", "pending", "committed"}]
  /\ call \in [Callers -> CallStates]
  /\ cancelled \in [Callers -> BOOLEAN]
  /\ captured \in [Callers -> [Urls -> Nat \cup {None}]]
  /\ checked \in [Callers -> SUBSET Urls]
  /\ join \in [Callers -> [Urls -> JoinStates]]
  /\ joined \in [Callers -> [Urls -> Slots \cup {None}]]

\* No download runs for nobody: a transfer that was not aborted has a listener
\* whose call is still active, also after a call failed while one of its joins
\* was waiting for an aborted transfer to clean up; and the calls of one tab
\* share it: another one of the same tab and file is already aborted.
NoOrphanTransfer ==
  \A t \in Slots : Alive(t) /\ ~aborted[t] =>
    /\ Listeners(t) # {} /\ \A c \in Listeners(t) : Active(c)
    /\ \A s \in Slots : Alive(s) /\ ~aborted[s] /\ TabOf(s) = TabOf(t)
                        /\ UrlOf(s) = UrlOf(t) => s = t

\* A caller never loses the transfer it shares because another caller gave up:
\* unless its own call was cancelled, its transfer is aborted only after a
\* deletion has made that transfer's generation obsolete.
SharedTransferSurvives ==
  \A t \in Slots : \A c \in Listeners(t) :
    aborted[t] /\ ~cancelled[c] => gen[t] < files[UrlOf(t)].gen

\* Transfers live exactly as long as somebody who is entitled to them listens.
TransfersAreShared == NoOrphanTransfer /\ SharedTransferSurvives

\* c reads the last private file of its second pass: it will not look at the
\* private files again, the shared ones being listed after them.
LooksLast(c) ==
  /\ call[c] = "reverify" /\ ~(Private \subseteq checked[c])
  /\ Private \subseteq checked'[c] \/ call'[c] = "ready"

\* A call that is about to resolve has seen all its private files installed, in
\* one generation, the one it first read.  When it resolves every file is there,
\* but for private ones that another tab has deleted since that last look: a
\* deletion of its own tab never goes unnoticed, neither does one that committed
\* before the look, wherever it fell among captures, joins and reads.
ReadyIsWhole ==
  [][\A c \in Callers :
       /\ LooksLast(c) => \A u \in Private : Installed(u) /\ files[u].gen = captured[c][u]
       /\ call[c] # "ready" /\ call'[c] = "ready" =>
            /\ deletion[CallerTab[c]] = "none"
            /\ \A u \in Urls : \/ Installed(u)
                               \/ u \in Private /\ files[u].gen > captured[c][u]]_vars

\* If the network answers, every call ends, unless the user leaves the permission prompt open.
CallsEnd ==
  \A c \in Callers : Active(c) ~> call[c] \in {"persist", "ready", "failed"}

\* A cancelled call ends, whatever it was waiting for, and an abandoned transfer
\* stops, which frees the Web Lock for the other tabs.
AbortedWorkEnds ==
  /\ \A c \in Callers : (Active(c) /\ cancelled[c]) ~> ~Active(c)
  /\ \A t \in Slots : (Alive(t) /\ aborted[t]) ~> ~Alive(t)

\* Every call ends, one way or the other.
CallsSettle == CallsEnd /\ AbortedWorkEnds
=============================================================================
