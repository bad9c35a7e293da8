-------------------------- MODULE AssetLifecycle ---------------------------
(***************************************************************************)
(* The asset lifecycle of the Python package (_lifecycle.py): processes    *)
(* that share a cache directory, whose threads download, load and delete   *)
(* models.  Within a process a lock is counted and a transfer is shared;   *)
(* between processes only the advisory locks of the operating system are.  *)
(* Everything done under _guard is one step, so is a step of a worker on   *)
(* the file it owns; a process may be killed between any two.              *)
(*                                                                         *)
(* Data abstraction.  A cached file is whole (size and SHA-256 are right)  *)
(* or not; a checkpoint is none, a proper prefix, good, or as long as the  *)
(* file but not it.  The espeak data of a shared archive is ready or not.  *)
(***************************************************************************)
EXTENDS Integers, Sequences, FiniteSets

CONSTANTS
  Procs,     \* the Python processes
  Callers,   \* threads that call the package (BOUND: once each)
  Cancellable, \* those that pass a cancel_event
  ProcOf,    \* [Callers -> Procs]
  Models,
  FilesOf,   \* [Models -> Seq(files)], in the order of the registry
  Shared,    \* the archives several models use
  Caches,    \* what the cache directory may hold at first
  None       \* no thread, no model

Files == UNION {{FilesOf[m][i] : i \in DOMAIN FilesOf[m]} : m \in Models}
\* What deletion removes.
PrivateOf(m) == {FilesOf[m][i] : i \in DOMAIN FilesOf[m]} \ Shared
TreesOf(m) == {FilesOf[m][i] : i \in DOMAIN FilesOf[m]} \cap Shared
\* The cache lock, a lock for each model and for each espeak tree.
Locks == {"mutation"} \cup Models \cup Shared

Checkpoints == {"none", "some", "good", "bad"}
Cache == [whole : [Files -> BOOLEAN], part : [Files -> Checkpoints], ready : [Shared -> BOOLEAN]]

ASSUME LifecycleAssumption ==
  /\ Caches \subseteq Cache
  /\ Cancellable \subseteq Callers /\ IsFiniteSet(Callers) /\ IsFiniteSet(Files)
  /\ ProcOf \in [Callers -> Procs] /\ None \notin Callers \cup Models
  /\ \A m \in Models : FilesOf[m] \in Seq(Files)
  /\ \A m, n \in Models : m # n => PrivateOf(m) \cap PrivateOf(n) = {}
  /\ "mutation" \notin Models \cup Shared /\ Models \cap Shared = {}

VARIABLES
  whole,    \* [Files -> BOOLEAN], durable
  part,     \* [Files -> checkpoint], durable
  ready,    \* [Shared -> BOOLEAN], durable
  owners,   \* _file_owners of each process
  states,   \* _states of each process
  xfer,     \* _transfers of each process, with their workers
  install,  \* _install_locks of each process
  call      \* what each thread is doing

durables == <<whole, part, ready>>
avars == <<whole, part, ready, owners, states, xfer, install, call>>

NoOwner == [refs |-> 0, shared |-> FALSE]
NewState == [epoch |-> 0, deleting |-> FALSE, leases |-> 0]
NoTransfer == [at |-> "none", model |-> None, stop |-> FALSE, failed |-> FALSE]
NoCall == [at |-> "idle", op |-> "none", model |-> None, i |-> 1, epoch |-> 0, outer |-> 0,
           cancelled |-> FALSE, subs |-> [a \in Files |-> "none"]]

LifecycleInit ==
  /\ \E x \in Caches : whole = x.whole /\ part = x.part /\ ready = x.ready
  /\ owners = [p \in Procs |-> [l \in Locks |-> NoOwner]]
  /\ states = [p \in Procs |-> [m \in Models |-> NewState]]
  /\ xfer = [p \in Procs |-> [a \in Files |-> NoTransfer]]
  /\ install = [p \in Procs |-> [s \in Shared |-> None]]
  /\ call = [c \in Callers |-> NoCall]

----------------------------------------------------------------------------
(* _FileAccess *)

\* A process has a lock in one mode; the system grants it to several
\* processes only in the shared mode.
MayAccess(p, l, shared) ==
  IF owners[p][l].refs > 0 THEN owners[p][l].shared = shared
  ELSE \A q \in Procs : owners[q][l].refs > 0 => shared /\ owners[q][l].shared

Accessed(p, L, shared) ==
  [owners EXCEPT ![p] = [l \in Locks |->
     IF l \in L THEN [refs |-> @[l].refs + 1, shared |-> shared] ELSE @[l]]]
\* One holder less; the last one closes the lock.
Less(o) == IF o.refs = 1 THEN NoOwner ELSE [o EXCEPT !.refs = @ - 1]
Given(p, L) ==
  [owners EXCEPT ![p] = [l \in Locks |-> IF l \in L THEN Less(@[l]) ELSE @[l]]]

Writing == {"look", "join", "wait", "install", "replace", "last"}
Leasing == {"verify", "initialize", "loaded", "retained"}
Deleting == {"mark", "drain"}

\* The locks a thread has, released by the `finally` blocks it is in.
Held(x) ==
  CASE x.at = "model" -> {"mutation"}
    [] x.at = "replace" -> {"mutation", x.model, FilesOf[x.model][x.i]}
    [] x.at \in Writing \ {"replace"} -> {"mutation", x.model}
    [] x.at \in Leasing -> {x.model} \cup TreesOf(x.model)
    [] x.at \in {"reading"} \cup Deleting -> {x.model}
    [] OTHER -> {}
\* The locks of a worker, until it can publish nothing any more.
Working == {"start", "adopt", "request", "read", "verify", "publish", "release"}
HeldBy(t) == IF t.at \in Working THEN {"mutation", t.model} ELSE {}

----------------------------------------------------------------------------
(* How a call goes on. *)

Active(c) == call[c].at \notin {"idle", "ready", "failed", "inuse", "loaded", "retained"}
My(c) == ProcOf[c]
State(c) == states[My(c)][call[c].model]

\* _assets_ready
AssetsReady(m) ==
  /\ \A i \in DOMAIN FilesOf[m] : whole[FilesOf[m][i]]
  /\ \A s \in TreesOf(m) : ready[s]

\* Mutant of Current: only the deletion flag is looked at.
CurrentNow(c, epoch) == ~State(c).deleting
\* _check: neither cancelled nor overtaken by a deletion.
Current(c, epoch) == ~State(c).deleting /\ State(c).epoch = epoch
Check(c) == ~call[c].cancelled /\ Current(c, call[c].epoch)

Users(p, a) == {c \in Callers : My(c) = p /\ call[c].subs[a] = "waiting"}

\* The thread goes on at a stage.
At(c, at) == call' = [call EXCEPT ![c].at = at]
Next1(c, at) == call' = [call EXCEPT ![c].at = at, ![c].i = @ + 1]

\* The subscriptions of a call end: what it alone waited for is stopped.
Withdrawn(c) ==
  [xfer EXCEPT ![My(c)] = [a \in Files |->
     IF Users(My(c), a) = {c} THEN [@[a] EXCEPT !.stop = TRUE] ELSE @[a]]]

Ended == {"ready", "failed", "inuse"}
Over(x, at) == [NoCall EXCEPT !.at = at, !.op = x.op, !.model = x.model]

\* The call leaves every block it is in.
Leave(c, at) ==
  /\ call' = [call EXCEPT ![c] =
                IF at \in Ended THEN Over(@, at)
                ELSE [@ EXCEPT !.at = at, !.i = 1, !.subs = NoCall.subs]]
  /\ owners' = Given(My(c), Held(call[c])) /\ xfer' = Withdrawn(c)
  /\ install' = [install EXCEPT ![My(c)] = [s \in Shared |-> IF @[s] = c THEN None ELSE @[s]]]
  /\ UNCHANGED durables
Fails(c) == Leave(c, "failed") /\ UNCHANGED states
InUse(c) == Leave(c, "inuse") /\ UNCHANGED states
\* download_model returns; a load goes on with its lease.
Downloaded(c) ==
  Leave(c, IF call[c].op = "load" THEN "lease" ELSE "ready") /\ UNCHANGED states

\* Within the call: a lock is taken.
Take(c, l, shared, at) ==
  /\ owners' = Accessed(My(c), {l}, shared) /\ At(c, at)
  /\ UNCHANGED <<durables, states, xfer, install>>
Elsewhere == UNCHANGED <<durables, owners, states, xfer, install>>

----------------------------------------------------------------------------
(* download_model, also as the first part of load_with_lifecycle. *)

\* A thread calls; a load looks at the deletions a first time.
Call(c, op, m) ==
  /\ call[c].at = "idle"
  /\ call' = [call EXCEPT ![c] = [NoCall EXCEPT
       !.op = op, !.model = m, !.outer = states[My(c)][m].epoch,
       !.at = IF op = "delete" THEN "exclusive"
              ELSE IF op = "load" /\ states[My(c)][m].deleting THEN "failed" ELSE "begin"]]
  /\ Elsewhere

\* cancel_event.set(), before the call returns.
Cancel(c) ==
  /\ c \in Cancellable /\ Active(c) /\ call[c].op # "delete" /\ ~call[c].cancelled
  /\ call' = [call EXCEPT ![c].cancelled = TRUE] /\ Elsewhere

Begin(c) ==
  /\ call[c].at = "begin"
  /\ IF call[c].cancelled \/ State(c).deleting THEN Fails(c)
     ELSE /\ call' = [call EXCEPT ![c].at = "peek", ![c].epoch = State(c).epoch]
          /\ Elsewhere

\* A reader looks at the cache; who may not read goes on as a writer.
Peek(c) ==
  LET m == call[c].model IN
  /\ call[c].at = "peek"
  /\ \/ ~Check(c) /\ Fails(c)
     \/ Check(c) /\ MayAccess(My(c), m, TRUE) /\ Take(c, m, TRUE, "reading")
     \/ Check(c) /\ ~MayAccess(My(c), m, TRUE) /\ At(c, "mutation") /\ Elsewhere
Reading(c) ==
  /\ call[c].at = "reading"
  /\ \/ AssetsReady(call[c].model) /\ Check(c) /\ Downloaded(c)
     \/ AssetsReady(call[c].model) /\ ~Check(c) /\ Fails(c)
     \/ ~AssetsReady(call[c].model) /\ Leave(c, "mutation") /\ UNCHANGED states

\* Mutant of Claim: the cache lock is kept when the model lock is refused.
ClaimOne(c) ==
  \/ /\ call[c].at = "mutation"
     /\ IF MayAccess(My(c), "mutation", FALSE) THEN Take(c, "mutation", FALSE, "model") ELSE InUse(c)
  \/ /\ call[c].at = "model"
     /\ IF MayAccess(My(c), call[c].model, FALSE) THEN Take(c, call[c].model, FALSE, "look")
        ELSE At(c, "inuse") /\ Elsewhere
\* _WriterAccess: the cache lock, then the lock of the model.
Claim(c) ==
  \/ /\ call[c].at = "mutation"
     /\ IF MayAccess(My(c), "mutation", FALSE) THEN Take(c, "mutation", FALSE, "model") ELSE InUse(c)
  \/ /\ call[c].at = "model"
     /\ IF MayAccess(My(c), call[c].model, FALSE) THEN Take(c, call[c].model, FALSE, "look")
        ELSE InUse(c)

File(c) == FilesOf[call[c].model][call[c].i]
MoreFiles(c) == call[c].i \in DOMAIN FilesOf[call[c].model]

\* The files are looked at one after the other.
Look(c) ==
  /\ call[c].at = "look"
  /\ \/ MoreFiles(c) /\ ~Check(c) /\ Fails(c)
     \/ MoreFiles(c) /\ Check(c) /\ whole[File(c)] /\ Next1(c, "look") /\ Elsewhere
     \/ MoreFiles(c) /\ Check(c) /\ ~whole[File(c)] /\ At(c, "join") /\ Elsewhere
     \/ ~MoreFiles(c) /\ At(c, "wait") /\ Elsewhere

\* The thread subscribes to the transfer of file a.
Subscribed(c, a) ==
  call' = [call EXCEPT ![c].at = "look", ![c].i = @ + 1, ![c].subs[a] = "waiting"]

\* A transfer, whose worker has the locks of the writer that begins it.
Create(c, a) ==
  /\ xfer' = [xfer EXCEPT ![My(c)][a] = [NoTransfer EXCEPT !.at = "start", !.model = call[c].model]]
  /\ owners' = Accessed(My(c), {"mutation", call[c].model}, FALSE)

\* A file that is not whole: the transfer of this process is joined, one that
\* was stopped is waited for.
Join(c) ==
  LET a == File(c)  t == xfer[My(c)][a] IN
  /\ call[c].at = "join"
  /\ \/ ~Check(c) /\ Fails(c)
     \/ /\ Check(c) /\ t.at = "none" /\ Create(c, a) /\ Subscribed(c, a)
        /\ UNCHANGED <<durables, states, install>>
     \/ Check(c) /\ t.at # "none" /\ ~t.stop /\ Subscribed(c, a) /\ Elsewhere

Subs(c) == {call[c].subs[a] : a \in Files}
Wait(c) ==
  /\ call[c].at = "wait"
  /\ \/ (~Check(c) \/ "error" \in Subs(c)) /\ Fails(c)
     \/ /\ Check(c) /\ Subs(c) \cap {"error", "waiting"} = {}
        /\ call' = [call EXCEPT ![c].at = "install", ![c].i = 1] /\ Elsewhere

\* _install_shared, one thread of a process at a time: espeak data that is
\* not ready is replaced, unless somebody reads it.
Install(c) ==
  LET p == My(c)  s == File(c) IN
  /\ call[c].at = "install"
  /\ \/ ~MoreFiles(c) /\ At(c, "last") /\ Elsewhere
     \/ MoreFiles(c) /\ s \notin Shared /\ Next1(c, "install") /\ Elsewhere
     \/ MoreFiles(c) /\ s \in Shared /\ ~Check(c) /\ Fails(c)
     \/ /\ MoreFiles(c) /\ s \in Shared /\ Check(c) /\ install[p][s] = None
        /\ \/ ready[s] /\ Next1(c, "install") /\ Elsewhere
           \/ ~ready[s] /\ ~MayAccess(p, s, FALSE) /\ InUse(c)
           \/ /\ ~ready[s] /\ MayAccess(p, s, FALSE) /\ At(c, "replace")
              /\ owners' = Accessed(p, {s}, FALSE)
              /\ install' = [install EXCEPT ![p][s] = c]
              /\ UNCHANGED <<durables, states, xfer>>

\* _replace_shared
Replace(c) ==
  LET p == My(c)  s == File(c) IN
  /\ call[c].at = "replace"
  /\ \/ ~Check(c) /\ Fails(c)
     \/ /\ Check(c) /\ ready' = [ready EXCEPT ![s] = TRUE] /\ Next1(c, "install")
        /\ owners' = Given(p, {s}) /\ install' = [install EXCEPT ![p][s] = None]
        /\ UNCHANGED <<whole, part, states, xfer>>

Last(c) == call[c].at = "last" /\ IF Check(c) THEN Downloaded(c) ELSE Fails(c)

\* Hashing, the archive or the file system fails.
Breaks(c) ==
  call[c].at \in {"reading", "look", "join", "replace"} /\ Fails(c)

----------------------------------------------------------------------------
(* load_with_lifecycle and the lease of a loaded model *)

\* acquire_model_asset_lease, in one step with the check of the load.
Lease(c) ==
  LET p == My(c)  m == call[c].model  L == {m} \cup TreesOf(m) IN
  /\ call[c].at = "lease"
  /\ \/ (call[c].cancelled \/ ~Current(c, call[c].outer)) /\ Fails(c)
     \/ /\ ~call[c].cancelled /\ Current(c, call[c].outer)
        /\ \/ (\E l \in L : ~MayAccess(p, l, TRUE)) /\ InUse(c)
           \/ /\ \A l \in L : MayAccess(p, l, TRUE)
              /\ owners' = Accessed(p, L, TRUE) /\ At(c, "verify")
              /\ states' = [states EXCEPT ![p][m].leases = @ + 1]
              /\ UNCHANGED <<durables, xfer, install>>

\* lease.release()
Unleased(c, at) ==
  /\ Leave(c, at) /\ states' = [states EXCEPT ![My(c)][call[c].model].leases = @ - 1]

\* Mutant of Verify: what was downloaded is taken to be there.
VerifyNever(c) == call[c].at = "verify" /\ At(c, "initialize") /\ Elsewhere
\* Another process may have deleted the files before the lease.
Verify(c) ==
  /\ call[c].at = "verify"
  /\ IF AssetsReady(call[c].model) THEN At(c, "initialize") /\ Elsewhere
     ELSE Unleased(c, "failed")

\* The engine is created, or fails; a model that is cancelled then is
\* unloaded, and the lease retained if that fails.
Initialize(c) ==
  /\ call[c].at = "initialize"
  /\ \/ ~call[c].cancelled /\ At(c, "loaded") /\ Elsewhere
     \/ Unleased(c, "failed")
     \/ call[c].cancelled /\ At(c, "retained") /\ Elsewhere

\* The application unloads the model.
Unload(c) == call[c].at = "loaded" /\ Unleased(c, "ready")

----------------------------------------------------------------------------
(* delete_model_assets *)

Exclusive(c) ==
  LET m == call[c].model IN
  /\ call[c].at = "exclusive"
  /\ IF MayAccess(My(c), m, FALSE) THEN Take(c, m, FALSE, "mark") ELSE InUse(c)

\* The transfers of the private files are told to stop.
Stopped(p, m) ==
  [xfer EXCEPT ![p] = [a \in Files |->
     IF a \in PrivateOf(m) /\ @[a].at # "none" THEN [@[a] EXCEPT !.stop = TRUE] ELSE @[a]]]

Mark(c) ==
  LET p == My(c)  m == call[c].model IN
  /\ call[c].at = "mark"
  /\ IF State(c).leases > 0 \/ State(c).deleting
     THEN Leave(c, IF State(c).leases > 0 THEN "inuse" ELSE "failed") /\ UNCHANGED states
     ELSE /\ states' = [states EXCEPT ![p][m].deleting = TRUE, ![p][m].epoch = @ + 1]
          /\ xfer' = Stopped(p, m) /\ At(c, "drain")
          /\ UNCHANGED <<durables, owners, install>>

Drained(c) == \A a \in PrivateOf(call[c].model) : xfer[My(c)][a].at = "none"

\* The writers are over: the directory of the model is removed, or a part of
\* it if that fails.
Remove(c) ==
  LET p == My(c)  m == call[c].model IN
  /\ call[c].at = "drain" /\ Drained(c)
  /\ \E S \in SUBSET PrivateOf(m) :
       /\ whole' = [a \in Files |-> whole[a] /\ a \notin S]
       /\ part' = [a \in Files |-> IF a \in S THEN "none" ELSE part[a]]
       /\ call' = [call EXCEPT ![c] = Over(@, IF S = PrivateOf(m) THEN "ready" ELSE "failed")]
  /\ states' = [states EXCEPT ![p][m].deleting = FALSE]
  /\ owners' = Given(p, Held(call[c]))
  /\ UNCHANGED <<ready, xfer, install>>

----------------------------------------------------------------------------
(* _download, in a thread of its own. *)

Worker(p, a, at) ==
  /\ xfer' = [xfer EXCEPT ![p][a].at = at]
  /\ UNCHANGED <<whole, part, ready, owners, states, install, call>>
WorkerFails(p, a) ==
  /\ xfer' = [xfer EXCEPT ![p][a].at = "release", ![p][a].failed = TRUE]
  /\ UNCHANGED <<whole, ready, owners, states, install, call>>
\* os.replace(): the file is what the checkpoint was.
Publish(p, a) ==
  /\ whole' = [whole EXCEPT ![a] = part[a] = "good"] /\ part' = [part EXCEPT ![a] = "none"]
  /\ xfer' = [xfer EXCEPT ![p][a].at = "release"]
  /\ UNCHANGED <<ready, owners, states, install, call>>

Start(p, a) ==
  /\ xfer[p][a].at = "start"
  /\ \/ whole[a] /\ Worker(p, a, "release")
     \/ ~whole[a] /\ part[a] = "good" /\ ~xfer[p][a].stop /\ Worker(p, a, "adopt")
     \/ ~whole[a] /\ part[a] = "good" /\ xfer[p][a].stop /\ WorkerFails(p, a) /\ UNCHANGED part
     \/ /\ ~whole[a] /\ part[a] = "bad" /\ part' = [part EXCEPT ![a] = "none"]
        /\ xfer' = [xfer EXCEPT ![p][a].at = "request"]
        /\ UNCHANGED <<whole, ready, owners, states, install, call>>
     \/ ~whole[a] /\ part[a] \in {"none", "some"} /\ Worker(p, a, "request")

\* A checkpoint that has every byte is published without the guard.
Adopt(p, a) == xfer[p][a].at = "adopt" /\ Publish(p, a)

\* The checkpoint becomes q, and the worker is at the head of its loop: it looks
\* whether it was stopped, and then reads, however long that takes.
Receives(p, a, q) ==
  /\ part' = [part EXCEPT ![a] = q]
  /\ \/ xfer[p][a].stop /\ WorkerFails(p, a)
     \/ /\ ~xfer[p][a].stop /\ xfer' = [xfer EXCEPT ![p][a].at = "read"]
        /\ UNCHANGED <<whole, ready, owners, states, install, call>>

\* The response: the rest of the file, all of it, or a refused range.
Request(p, a) ==
  /\ xfer[p][a].at = "request"
  /\ \/ Receives(p, a, "none")
     \/ part[a] = "some" /\ Receives(p, a, "some")
     \/ part[a] = "some" /\ part' = [part EXCEPT ![a] = "none"]
        /\ UNCHANGED <<whole, ready, owners, states, xfer, install, call>>

\* A chunk, which is stored even if the worker was stopped while it read, or the
\* end of the response.
Read(p, a) ==
  /\ xfer[p][a].at = "read"
  /\ \/ part[a] = "none" /\ Receives(p, a, "some")
     \/ part[a] = "some" /\ \E q \in {"good", "bad"} : Receives(p, a, q)
     \/ Worker(p, a, "verify")

\* Verification, after which a file of the right length that is not the one
\* asked for is dropped, and publication under the guard.
WorkerVerifies(p, a) ==
  /\ xfer[p][a].at = "verify"
  /\ \/ ~xfer[p][a].stop /\ part[a] = "good" /\ Worker(p, a, "publish")
     \/ xfer[p][a].stop /\ WorkerFails(p, a) /\ UNCHANGED part
     \/ /\ ~xfer[p][a].stop /\ part[a] # "good" /\ WorkerFails(p, a)
        /\ part' = [part EXCEPT ![a] = IF @ = "bad" THEN "none" ELSE @]
WorkerPublishes(p, a) ==
  /\ xfer[p][a].at = "publish"
  /\ IF xfer[p][a].stop THEN WorkerFails(p, a) /\ UNCHANGED part ELSE Publish(p, a)

\* The network or the file system fails.
WorkerBreaks(p, a) ==
  xfer[p][a].at \in Working \ {"release"} /\ WorkerFails(p, a) /\ UNCHANGED part

\* The locks are given back before the callers are told.
Release(p, a) ==
  /\ xfer[p][a].at = "release" /\ xfer' = [xfer EXCEPT ![p][a].at = "done"]
  /\ owners' = Given(p, HeldBy(xfer[p][a]))
  /\ UNCHANGED <<durables, states, install, call>>

\* Mutant of Done: only a success is told.
DoneWell(p, a) ==
  /\ xfer[p][a].at = "done" /\ xfer' = [xfer EXCEPT ![p][a] = NoTransfer]
  /\ call' = [c \in Callers |-> IF c \in Users(p, a) /\ ~xfer[p][a].failed
                                THEN [call[c] EXCEPT !.subs[a] = "ok"] ELSE call[c]]
  /\ UNCHANGED <<durables, owners, states, install>>
\* transfer.done.set(): whoever subscribed learns how it ended; in the table it
\* is from now on as good as none.
Done(p, a) ==
  /\ xfer[p][a].at = "done" /\ xfer' = [xfer EXCEPT ![p][a] = NoTransfer]
  /\ call' = [c \in Callers |-> IF c \notin Users(p, a) THEN call[c]
                ELSE [call[c] EXCEPT !.subs[a] = IF xfer[p][a].failed THEN "error" ELSE "ok"]]
  /\ UNCHANGED <<durables, owners, states, install>>

\* The process is killed: the system gives its locks back.
Crash(p) ==
  /\ owners' = [owners EXCEPT ![p] = [l \in Locks |-> NoOwner]]
  /\ states' = [states EXCEPT ![p] = [m \in Models |-> NewState]]
  /\ xfer' = [xfer EXCEPT ![p] = [a \in Files |-> NoTransfer]]
  /\ install' = [install EXCEPT ![p] = [s \in Shared |-> None]]
  /\ call' = [c \in Callers |-> IF My(c) = p /\ call[c].at # "idle"
                                THEN Over(call[c], "failed") ELSE call[c]]
  /\ UNCHANGED durables

----------------------------------------------------------------------------
Thread(c) ==
  \/ Begin(c) \/ Peek(c) \/ Reading(c) \/ Claim(c) \/ Look(c) \/ Join(c) \/ Wait(c)
  \/ Install(c) \/ Replace(c) \/ Last(c) \/ Lease(c) \/ Verify(c) \/ Initialize(c)
  \/ Exclusive(c) \/ Mark(c) \/ Remove(c)
WorkerThread(p, a) ==
  \/ Start(p, a) \/ Adopt(p, a) \/ Request(p, a) \/ Read(p, a) \/ WorkerVerifies(p, a)
  \/ WorkerPublishes(p, a) \/ Release(p, a) \/ Done(p, a)

LifecycleNext ==
  \/ \E c \in Callers :
       \/ \E m \in Models, op \in {"download", "load", "delete"} : Call(c, op, m)
       \/ Cancel(c) \/ Unload(c) \/ Breaks(c) \/ Thread(c)
  \/ \E p \in Procs : Crash(p) \/ \E a \in Files : WorkerThread(p, a) \/ WorkerBreaks(p, a)

LifecycleSpec == LifecycleInit /\ [][LifecycleNext]_avars

\* Threads run, and a network read ends, if need be by its timeout.
Fairness ==
  /\ \A c \in Callers : WF_avars(Thread(c))
  /\ \A p \in Procs, a \in Files : WF_avars(WorkerThread(p, a))

FairLifecycleSpec == LifecycleSpec /\ Fairness

----------------------------------------------------------------------------
(* Properties. *)

Ats == {"idle", "begin", "peek", "reading", "mutation", "model", "lease", "exclusive",
        "ready", "failed", "inuse"} \cup Writing \cup Leasing \cup Deleting
CallRecord ==
  [at : Ats, op : {"none", "download", "load", "delete"}, model : Models \cup {None}, i : Nat,
   epoch : Nat, outer : Nat, cancelled : BOOLEAN,
   subs : [Files -> {"none", "waiting", "ok", "error"}]]
TransferRecord ==
  [at : Working \cup {"none", "done"}, model : Models \cup {None}, stop : BOOLEAN,
   failed : BOOLEAN]

\* Who has a lock of a process.
Threads(p, l) == {c \in Callers : My(c) = p /\ l \in Held(call[c])}
Workers(p, l) == {a \in Files : l \in HeldBy(xfer[p][a])}

\* Types, and the counts of the locks: each is the number of the threads and
\* workers that are in a block that gives it back; and what the system grants:
\* two processes have a lock only if both have it as readers (_FileAccess).
LifecycleTypeOK ==
  /\ whole \in [Files -> BOOLEAN] /\ part \in [Files -> Checkpoints]
  /\ ready \in [Shared -> BOOLEAN] /\ install \in [Procs -> [Shared -> Callers \cup {None}]]
  /\ states \in [Procs -> [Models -> [epoch : Nat, deleting : BOOLEAN, leases : Nat]]]
  /\ xfer \in [Procs -> [Files -> TransferRecord]] /\ call \in [Callers -> CallRecord]
  /\ \A p \in Procs, l \in Locks :
       /\ owners[p][l] \in [refs : Nat, shared : BOOLEAN]
       /\ owners[p][l].refs = Cardinality(Threads(p, l)) + Cardinality(Workers(p, l))
       /\ \A q \in Procs \ {p} : owners[p][l].refs > 0 /\ owners[q][l].refs > 0
                                 => owners[p][l].shared /\ owners[q][l].shared

\* What a model needs stays there from the check before the engine is created
\* to its unloading, whoever else downloads, repairs or deletes, also in other
\* processes (load_with_lifecycle, AssetLease).
ModelsKeepFiles ==
  \A c \in Callers : call[c].at \in Leasing \ {"verify"} => AssetsReady(call[c].model)

Touching(p, a) == xfer[p][a].at \in Working \ {"release"}
\* A file and its checkpoint have one worker among all processes, and none
\* while another process deletes or reads them; one that nobody waits for, or
\* whose callers a deletion has overtaken, has been told to stop.
FilesHaveOneWriter ==
  \A p \in Procs, a \in Files : Touching(p, a) =>
    /\ \A q \in Procs \ {p} : ~Touching(q, a)
    /\ \A c \in Callers :
         call[c].at \in {"reading"} \cup Leasing \cup Deleting /\ My(c) # p
         => a \notin PrivateOf(call[c].model)
    /\ ~xfer[p][a].stop =>
         \E c \in Users(p, a) : a \in Shared \/ Current(c, call[c].epoch)

\* Files are safe from writers, and writers from one another.
FilesAreProtected == ModelsKeepFiles /\ FilesHaveOneWriter

\* A download or a load succeeds only with every file of the model, and only
\* if no deletion of this process has begun since it was asked for.  A deletion
\* succeeds only with the files and the checkpoints of the model gone, and with
\* no worker of any process left that could bring one back (:773).
Succeeds(c) ==
  \/ call[c].op = "download" /\ call[c].at # "ready" /\ call'[c].at = "ready"
  \/ call[c].at = "initialize" /\ call'[c].at = "loaded"
Deletes(c) == call[c].op = "delete" /\ call[c].at # "ready" /\ call'[c].at = "ready"
SuccessIsTrue ==
  [][\A c \in Callers :
       /\ Succeeds(c) =>
            /\ AssetsReady(call[c].model)'
            /\ Current(c, IF call[c].op = "load" THEN call[c].outer ELSE call[c].epoch)
       /\ Deletes(c) =>
            \A a \in PrivateOf(call[c].model) :
              whole'[a] = FALSE /\ part'[a] = "none" /\ \A p \in Procs : ~Touching(p, a)]_avars

\* No thread waits for ever for a lock, a stopped transfer, a worker, another
\* thread that installs, or the end of the writers.
CallsReturn == \A c \in Callers : Active(c) ~> ~Active(c)
=============================================================================
