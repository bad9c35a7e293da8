--------------------------- MODULE AssetTransfer ----------------------------
(***************************************************************************)
(* The writers of the asset store: every tab may run transfers of a URL,   *)
(* each the body of AssetManager.transfer (manager.ts) started by join.    *)
(* When to start one and when to abort it is left open here; AssetManager  *)
(* decides it.  A transfer proceeds from one await to the next, and the    *)
(* transactions, aborts, deletions and crashes of every tab interleave at  *)
(* the awaits.                                                             *)
(***************************************************************************)
EXTENDS AssetStore

CONSTANTS
  Tabs,       \* the browsing contexts of the origin
  SlotsPerUrl,\* BOUND: transfers of one URL one tab has alive at a time
  MaxGen,     \* BOUND: deletions of the model
  HasLocks,   \* navigator.locks is available
  StaleFiles, \* complete files an older release may have left, by content
  None        \* no transfer

Slots == Tabs \X Urls \X (1 .. SlotsPerUrl)
TabOf(t) == t[1]
UrlOf(t) == t[2]

ASSUME TransferAssumption ==
  /\ SlotsPerUrl \in Nat
  /\ MaxGen \in Nat
  /\ HasLocks \in BOOLEAN
  /\ StaleFiles \subseteq Seq(Versions)
  /\ None \notin Slots

VARIABLES
  files,    \* [Urls -> AssetRecord], durable
  chunks,   \* [Urls -> Seq(Versions)], durable
  lock,     \* [Urls -> Slots \cup {None}], the Web Lock of each URL
  pc,       \* where each transfer is suspended
  gen,      \* Transfer.generation
  aborted,  \* Transfer.controller.signal.aborted
  rec,      \* the record a transfer last read or wrote
  hash,     \* the content its Sha256 has been fed
  resp,     \* the response it is consuming
  out       \* how it ended

durable == <<files, chunks>>
local == <<pc, gen, aborted, rec, hash, resp, out>>
tvars == <<files, chunks, lock, pc, gen, aborted, rec, hash, resp, out>>

Outcomes == {"ok", "deleted", "conflict", "integrity", "aborted", "error"}
Pcs == {"free", "lock", "stat", "reset", "rehash", "fetch", "restart",
        "header", "body", "store", "finalize", "publish", "discard", "closing"}
Responses == [status : {200, 206}, version : Versions,
              validator : Versions \cup {NoTag}, sized : BOOLEAN]
NoResponse == [status |-> 0]

Running(t) == pc[t] \notin {"free", "lock"}
Alive(t) == pc[t] # "free"

----------------------------------------------------------------------------
InitFile(u) ==
  {<<EmptyRecord(0), <<>> >>} \cup
  {<<[EmptyRecord(0) EXCEPT !.bytes = Len(c), !.complete = TRUE,
                            !.sha256 = c, !.sizeBytes = Len(c)], c>> :
     c \in StaleFiles}

TransferInit ==
  /\ \E f \in [Urls -> UNION {InitFile(u) : u \in Urls}] :
       /\ files = [u \in Urls |-> f[u][1]]
       /\ chunks = [u \in Urls |-> f[u][2]]
  /\ lock = [u \in Urls |-> None]
  /\ pc = [t \in Slots |-> "free"]
  /\ gen = [t \in Slots |-> 0]
  /\ aborted = [t \in Slots |-> FALSE]
  /\ rec = [t \in Slots |-> EmptyRecord(0)]
  /\ hash = [t \in Slots |-> <<>>]
  /\ resp = [t \in Slots |-> NoResponse]
  /\ out = [t \in Slots |-> "ok"]

\* A transfer is created for the generation its caller read some time ago,
\* and the transfers of S, which it replaces, are aborted.
Begin(t, g, S) ==
  /\ pc[t] = "free"
  /\ g <= files[UrlOf(t)].gen
  /\ pc' = [pc EXCEPT ![t] = "lock"]
  /\ gen' = [gen EXCEPT ![t] = g]
  /\ aborted' = [s \in Slots |-> s # t /\ (aborted[s] \/ s \in S)]
  /\ UNCHANGED <<files, chunks, lock, rec, hash, resp, out>>

\* controller.abort() of the transfers of S.
Abort(S) ==
  /\ aborted' = [s \in Slots |-> aborted[s] \/ (s \in S /\ Alive(s))]
  /\ UNCHANGED <<files, chunks, lock, pc, gen, rec, hash, resp, out>>

----------------------------------------------------------------------------
GoTo(t, p) == pc' = [pc EXCEPT ![t] = p] /\ UNCHANGED out

End(t, o) ==
  /\ pc' = [pc EXCEPT ![t] = "closing"]
  /\ out' = [out EXCEPT ![t] = o]

\* store.save(record, next, ...): one transaction compares and writes.
Save(t, next, content, p, o) ==
  LET u == UrlOf(t) IN
  IF Current(files[u], rec[t])
  THEN /\ files' = [files EXCEPT ![u] = next]
       /\ chunks' = [chunks EXCEPT ![u] = content]
       /\ rec' = [rec EXCEPT ![t] = next]
       /\ pc' = [pc EXCEPT ![t] = p]
       /\ out' = [out EXCEPT ![t] = o]
  ELSE /\ End(t, Mismatch(files[u], rec[t]))
       /\ UNCHANGED <<files, chunks, rec>>

\* Mutant of Lock: the transfer runs at once although there are Web Locks.
LockUnchecked(t) ==
  /\ pc[t] = "lock" /\ GoTo(t, "stat")
  /\ UNCHANGED <<files, chunks, lock, gen, aborted, rec, hash, resp>>

\* deps.lock grants the Web Lock, or runs at once where there are no locks.
Lock(t) ==
  /\ pc[t] = "lock"
  /\ IF HasLocks
     THEN /\ lock[UrlOf(t)] = None /\ ~aborted[t]
          /\ lock' = [lock EXCEPT ![UrlOf(t)] = t]
     ELSE UNCHANGED lock
  /\ GoTo(t, "stat")
  /\ UNCHANGED <<files, chunks, gen, aborted, rec, hash, resp>>

LockAborted(t) ==
  /\ pc[t] = "lock" /\ HasLocks /\ aborted[t]
  /\ End(t, "aborted")
  /\ UNCHANGED <<files, chunks, lock, gen, aborted, rec, hash, resp>>

Stat(t) ==
  LET u == UrlOf(t)
      r == files[u]
      unsafe == \/ ~Compatible(r, u)
                \/ r.bytes > 0 /\ Manifest[u].sha256 = NoSha /\ r.validator = NoTag
  IN
  /\ pc[t] = "stat"
  /\ rec' = [rec EXCEPT ![t] = r]
  /\ hash' = [hash EXCEPT ![t] = <<>>]
  /\ CASE r.gen # gen[t]                   -> End(t, "deleted")
       [] r.gen = gen[t] /\ r.complete /\ Compatible(r, u) -> End(t, "ok")
       [] r.gen = gen[t] /\ ~(r.complete /\ Compatible(r, u)) ->
            GoTo(t, IF unsafe THEN "reset" ELSE "rehash")
  /\ UNCHANGED <<files, chunks, lock, gen, aborted, resp>>

\* reset() before the resume, before a full restart of a resumed download, or
\* because the digest is wrong.
Reset(t) ==
  /\ pc[t] \in {"reset", "restart", "discard"}
  /\ Save(t, ResetRecord(gen[t], UrlOf(t)), <<>>,
          CASE pc[t] = "reset"   -> "rehash"
            [] pc[t] = "restart" -> "header"
            [] pc[t] = "discard" -> "closing",
          IF pc[t] = "discard" THEN "integrity" ELSE "ok")
  /\ hash' = [hash EXCEPT ![t] = <<>>]
  /\ UNCHANGED <<lock, gen, aborted, resp>>

\* One turn of the loop that hashes the stored prefix; after the last chunk
\* the file is finished or the rest is requested.
Rehash(t) ==
  LET u == UrlOf(t)  i == Len(hash[t]) + 1 IN
  /\ pc[t] = "rehash"
  /\ IF aborted[t] THEN End(t, "aborted") /\ UNCHANGED hash
     ELSE IF i <= rec[t].bytes
     THEN IF Current(files[u], rec[t]) /\ i <= Len(chunks[u])
          THEN /\ hash' = [hash EXCEPT ![t] = Append(@, chunks[u][i])]
               /\ GoTo(t, "rehash")
          ELSE /\ End(t, IF Current(files[u], rec[t]) THEN "integrity"
                         ELSE Mismatch(files[u], rec[t]))
               /\ UNCHANGED hash
     ELSE /\ GoTo(t, IF rec[t].sizeBytes # 0 /\ rec[t].bytes = rec[t].sizeBytes
                     THEN "finalize" ELSE "fetch")
          /\ UNCHANGED hash
  /\ UNCHANGED <<files, chunks, lock, gen, aborted, rec, resp>>

\* The response to the (Range) request.  The server is free: any version, a
\* strong ETag or none, a Content-Length or none; an ETag names one version.
Respond(t) ==
  /\ pc[t] = "fetch"
  /\ IF aborted[t] THEN End(t, "aborted") /\ UNCHANGED resp
     ELSE \E r \in Responses :
       /\ r.validator \in {r.version, NoTag}
       /\ r.status = 206 => rec[t].bytes > 0
       /\ resp' = [resp EXCEPT ![t] = r]
       /\ GoTo(t, IF r.status = 200 /\ rec[t].bytes > 0 THEN "restart" ELSE "header")
  /\ UNCHANGED <<files, chunks, lock, gen, aborted, rec, hash>>

\* Mutant of ValidResponse: a resumed body need not be the version resumed.
ValidResponseAnyVersion(r, record, u) ==
  r.status = 206 => record.bytes < Length[r.version]

\* The range, length and validator a 206 must have, the length of a 200.
ValidResponse(r, record, u) ==
  IF r.status = 206
  THEN /\ record.bytes < Length[r.version]
       /\ Manifest[u].sizeBytes # 0 => Manifest[u].sizeBytes = Length[r.version]
       /\ record.validator # NoTag /\ r.validator # NoTag
            => r.validator = record.validator
       /\ Manifest[u].sha256 = NoSha
            => r.validator # NoTag /\ r.validator = record.validator
  ELSE Manifest[u].sizeBytes # 0 /\ r.sized
         => Manifest[u].sizeBytes = Length[r.version]

Header(t) ==
  LET u == UrlOf(t)  r == resp[t]
      size == IF Manifest[u].sizeBytes # 0 THEN Manifest[u].sizeBytes
              ELSE IF r.status = 206 \/ r.sized THEN Length[r.version] ELSE 0
  IN
  /\ pc[t] = "header"
  /\ IF ValidResponse(r, rec[t], u)
     THEN Save(t, [rec[t] EXCEPT !.sizeBytes = size, !.validator = r.validator],
               chunks[u], "body", "ok")
     ELSE End(t, "integrity") /\ UNCHANGED <<files, chunks, rec>>
  /\ UNCHANGED <<lock, gen, aborted, hash, resp>>

\* reader.read(): a chunk, the end of the body, or the abort of the request.
Receive(t) ==
  LET r == rec[t]  full == r.bytes >= Length[resp[t].version] IN
  /\ pc[t] = "body"
  /\ \/ aborted[t] /\ End(t, "aborted")
     \/ /\ ~aborted[t] /\ ~full
        /\ IF r.sizeBytes # 0 /\ r.bytes + 1 > r.sizeBytes
           THEN End(t, "integrity") ELSE GoTo(t, "store")
     \/ ~aborted[t] /\ full /\ GoTo(t, "finalize")
     \/ ~aborted[t] /\ ~full /\ resp[t].sized /\ End(t, "integrity")
  /\ UNCHANGED <<files, chunks, lock, gen, aborted, rec, hash, resp>>

Store(t) ==
  LET u == UrlOf(t)  v == resp[t].version IN
  /\ pc[t] = "store"
  /\ Save(t, [rec[t] EXCEPT !.bytes = @ + 1],
          Put(chunks[u], rec[t].bytes + 1, v), "body", "ok")
  /\ hash' = [hash EXCEPT ![t] = IF Current(files[u], rec[t]) THEN Append(@, v) ELSE @]
  /\ UNCHANGED <<lock, gen, aborted, resp>>

DigestDiffers(t) ==
  LET sha == Manifest[UrlOf(t)].sha256 IN sha # NoSha /\ hash[t] # sha

\* finalize(): the checks, and then the save that publishes or resets.
Finalize(t) ==
  LET r == rec[t] IN
  /\ pc[t] = "finalize"
  /\ IF aborted[t] THEN End(t, "aborted")
     ELSE IF r.sizeBytes # 0 /\ r.bytes # r.sizeBytes THEN End(t, "integrity")
     ELSE GoTo(t, IF DigestDiffers(t) THEN "discard" ELSE "publish")
  /\ UNCHANGED <<files, chunks, lock, gen, aborted, rec, hash, resp>>

Publish(t) ==
  /\ pc[t] = "publish"
  /\ Save(t, [rec[t] EXCEPT !.complete = TRUE, !.sha256 = hash[t]],
          chunks[UrlOf(t)], "closing", "ok")
  /\ UNCHANGED <<lock, gen, aborted, hash, resp>>

\* The network or the storage fails an await.
Fail(t) ==
  /\ pc[t] \in Pcs \ {"free", "lock", "finalize", "closing"}
  /\ End(t, "error")
  /\ UNCHANGED <<files, chunks, lock, gen, aborted, rec, hash, resp>>

\* Slots T go back to their initial values and give up the locks they hold.
Free(T) ==
  /\ pc' = [t \in Slots |-> IF t \in T THEN "free" ELSE pc[t]]
  /\ gen' = [t \in Slots |-> IF t \in T THEN 0 ELSE gen[t]]
  /\ aborted' = [t \in Slots |-> t \notin T /\ aborted[t]]
  /\ rec' = [t \in Slots |-> IF t \in T THEN EmptyRecord(0) ELSE rec[t]]
  /\ hash' = [t \in Slots |-> IF t \in T THEN <<>> ELSE hash[t]]
  /\ resp' = [t \in Slots |-> IF t \in T THEN NoResponse ELSE resp[t]]
  /\ out' = [t \in Slots |-> IF t \in T THEN "ok" ELSE out[t]]
  /\ lock' = [u \in Urls |-> IF lock[u] \in T THEN None ELSE lock[u]]

\* The promise of the transfer settles once the response body is cancelled.
Settle(t) ==
  /\ pc[t] = "closing"
  /\ Free({t})
  /\ UNCHANGED durable

\* A tab is closed: its transfers are gone, the browser frees their locks.
Crash(tab) ==
  /\ Free({t \in Slots : TabOf(t) = tab})
  /\ UNCHANGED durable

\* store.delete: the private files become tombstones of the next generation.
Delete ==
  /\ \A u \in Private : files[u].gen < MaxGen
  /\ files' = [u \in Urls |-> IF u \in Private THEN EmptyRecord(files[u].gen + 1)
                                                ELSE files[u]]
  /\ chunks' = [u \in Urls |-> IF u \in Private THEN <<>> ELSE chunks[u]]
  /\ UNCHANGED <<lock, pc, gen, aborted, rec, hash, resp, out>>

Work(t) == \/ Lock(t) \/ LockAborted(t) \/ Stat(t) \/ Reset(t) \/ Rehash(t)
           \/ Respond(t) \/ Header(t) \/ Receive(t) \/ Store(t)
           \/ Finalize(t) \/ Publish(t)
Step(t) == Work(t) \/ Fail(t)

\* The transfers that may still be aborted, and those of them that a new
\* transfer of t's file in t's tab may replace.
Abortable == {s \in Slots : Alive(s) /\ ~aborted[s]}
Replaceable(t) == {s \in Abortable : TabOf(s) = TabOf(t) /\ UrlOf(s) = UrlOf(t)}

TransferNext ==
  \/ \E t \in Slots : Step(t) \/ Settle(t)
  \/ \E t \in Slots, g \in 0 .. MaxGen : \E S \in SUBSET Replaceable(t) : Begin(t, g, S)
  \/ \E S \in SUBSET Abortable : Abort(S)
  \/ \E tab \in Tabs : Crash(tab)
  \/ Delete

TransferSpec == TransferInit /\ [][TransferNext]_tvars

----------------------------------------------------------------------------
\* Under Web Locks a transfer runs only while it holds the lock of its URL, and
\* a lock that is held belongs to a transfer of that URL that has not settled.
LocksAreHeld ==
  /\ HasLocks => \A t \in Slots : Running(t) /\ pc[t] # "closing" => lock[UrlOf(t)] = t
  /\ \A u \in Urls : lock[u] # None => UrlOf(lock[u]) = u /\ Running(lock[u])

VariablesTyped ==
  /\ files \in [Urls -> AssetRecord]
  /\ chunks \in [Urls -> Seq(Versions)]
  /\ lock \in [Urls -> Slots \cup {None}]
  /\ pc \in [Slots -> Pcs]
  /\ gen \in [Slots -> Nat]
  /\ aborted \in [Slots -> BOOLEAN]
  /\ rec \in [Slots -> AssetRecord]
  /\ hash \in [Slots -> Seq(Versions)]
  /\ resp \in [Slots -> Responses \cup {NoResponse}]
  /\ out \in [Slots -> Outcomes]

\* The type invariant, with the relation of the locks and the transfers.
TransferTypeOK == VariablesTyped /\ LocksAreHeld

\* A complete file is what its record says: its chunks have the recorded
\* digest and length, so no later read of it can fail its integrity check
\* ("conflicting cross-context writes ... reject ... instead of mixing data").
CompleteIsIntact ==
  \A u \in Urls : files[u].complete =>
    /\ chunks[u] = files[u].sha256
    /\ Len(chunks[u]) = files[u].bytes

\* Under Web Locks no writer is ever refused by the compare-and-set because
\* another context advanced the checkpoint.
LocksExcludeConflicts == HasLocks => \A t \in Slots : out[t] # "conflict"

\* A file changes by a deletion or by a transfer of its current generation.
FencedWrite ==
  \A u \in Urls : <<files[u], chunks[u]>>' # <<files[u], chunks[u]>> =>
    \/ files'[u] = EmptyRecord(files[u].gen + 1) /\ chunks'[u] = <<>>
    \/ \E t \in Slots : /\ UrlOf(t) = u /\ Running(t)
                        /\ gen[t] = files[u].gen /\ files'[u].gen = gen[t]

\* Within a generation only a transfer of that generation changes a file: a
\* writer that was suspended over a deletion cannot recreate the file.
StaleWriterFenced == [][FencedWrite]_tvars

\* What the store promises a reader, as an abstract registry of files: among
\* others, a resumed download never splices the prefix of one version to the
\* tail of another, even where the registry gives no digest (runtime files).
Registry == INSTANCE AssetRegistry WITH
  gen <- [u \in Urls |-> files[u].gen],
  installed <- [u \in Urls |-> IF files[u].complete THEN <<chunks[u]>> ELSE <<>>]
RefinesRegistry == Registry!Spec
=============================================================================
