----------------------------- MODULE AssetProofs ------------------------------
(***************************************************************************)
(* Theorems about the downloads of a model, for any number of tabs, calls, *)
(* files, contents, transfers and deletions: the writers of the store, that*)
(* under Web Locks they implement the abstract registry, and what the calls*)
(* that drive them share, abort and report.                                *)
(*                                                                         *)
(* The writers of the store.                                               *)
(***************************************************************************)
EXTENDS AssetManager, TLAPS

\* The record counts the stored chunks, and a transfer that consumes a
\* response has one: what the typing of the chunk lists rests on.
ChunksCounted == \A u \in Urls : Len(chunks[u]) = files[u].bytes
ResponseHeld ==
  \A t \in Slots : pc[t] \in {"restart", "header", "body", "store"} => resp[t] \in Responses

Typed == VariablesTyped /\ ChunksCounted /\ ResponseHeld

LEMMA SlotParts == \A t \in Slots : TabOf(t) \in Tabs /\ UrlOf(t) \in Urls
  BY DEF Slots, TabOf, UrlOf

LEMMA EmptyRecordType == \A g \in Nat : EmptyRecord(g) \in AssetRecord
  BY DEF EmptyRecord, AssetRecord, NoSha

LEMMA ResetRecordType ==
  \A g \in Nat, u \in Urls : /\ ResetRecord(g, u) \in AssetRecord
                             /\ ResetRecord(g, u).gen = g
                             /\ ResetRecord(g, u).bytes = 0
                             /\ ResetRecord(g, u).complete = FALSE
  BY StoreAssumption DEF ResetRecord, EmptyRecord, AssetRecord, NoSha

\* Storing the chunk after the last one appends it.
LEMMA PutAppends ==
  ASSUME NEW s \in Seq(Versions), NEW v \in Versions
  PROVE  Put(s, Len(s) + 1, v) = Append(s, v)
  <1>1. Len(s) \in Nat  OBVIOUS
  <1>2. Put(s, Len(s) + 1, v) = [k \in 1 .. (Len(s) + 1) |-> IF k = Len(s) + 1 THEN v ELSE s[k]]
    BY <1>1 DEF Put
  <1> QED BY <1>1, <1>2

LEMMA OneMoreChunk ==
  ASSUME NEW r \in AssetRecord
  PROVE  /\ [r EXCEPT !.bytes = @ + 1] \in AssetRecord
         /\ [r EXCEPT !.bytes = @ + 1].bytes = r.bytes + 1
  BY DEF AssetRecord

LEMMA InitTyped == TransferInit => Typed
  <1> SUFFICES ASSUME TransferInit PROVE Typed  OBVIOUS
  <1>1. PICK f \in [Urls -> UNION {InitFile(u) : u \in Urls}] :
          files = [u \in Urls |-> f[u][1]] /\ chunks = [u \in Urls |-> f[u][2]]
    BY DEF TransferInit
  <1>2. \A u \in Urls : \E w \in Urls : f[u] \in InitFile(w)
    OBVIOUS
  <1>3. \A u \in Urls : /\ f[u][1] \in AssetRecord /\ f[u][2] \in Seq(Versions)
                        /\ Len(f[u][2]) = f[u][1].bytes
    <2> TAKE u \in Urls
    <2>1. CASE f[u] = <<EmptyRecord(0), <<>> >>
      BY <2>1, EmptyRecordType DEF EmptyRecord
    <2>2. ASSUME NEW c \in StaleFiles,
                 f[u] = <<[EmptyRecord(0) EXCEPT !.bytes = Len(c), !.complete = TRUE,
                                                 !.sha256 = c, !.sizeBytes = Len(c)], c>>
          PROVE  /\ f[u][1] \in AssetRecord /\ f[u][2] \in Seq(Versions)
                 /\ Len(f[u][2]) = f[u][1].bytes
      <3>1. c \in Seq(Versions) /\ Len(c) \in Nat
        BY TransferAssumption
      <3> DEFINE r == [EmptyRecord(0) EXCEPT !.bytes = Len(c), !.complete = TRUE,
                                             !.sha256 = c, !.sizeBytes = Len(c)]
      <3>2. r \in AssetRecord /\ r.bytes = Len(c)
        BY <3>1 DEF EmptyRecord, AssetRecord, NoSha
      <3>3. f[u][1] = r /\ f[u][2] = c
        <4> HIDE DEF r
        <4> QED BY <2>2 DEF r
      <3> QED BY <3>1, <3>2, <3>3
    <2> QED BY <1>2, <2>1, <2>2 DEF InitFile
  <1>4. files \in [Urls -> AssetRecord] /\ chunks \in [Urls -> Seq(Versions)] /\ ChunksCounted
    BY <1>1, <1>3 DEF ChunksCounted
  <1> QED
    BY <1>4, EmptyRecordType DEF Typed, VariablesTyped, ResponseHeld, TransferInit, Pcs, Outcomes

\* A save of a well-typed record and content, as long as the record says.
LEMMA SaveTyped ==
  ASSUME Typed, NEW t \in Slots, NEW next \in AssetRecord,
         NEW content \in Seq(Versions), Len(content) = next.bytes,
         NEW p \in Pcs, NEW o \in Outcomes, Save(t, next, content, p, o)
  PROVE  /\ files' \in [Urls -> AssetRecord] /\ chunks' \in [Urls -> Seq(Versions)]
         /\ \A u \in Urls : Len(chunks'[u]) = files'[u].bytes
         /\ rec' \in [Slots -> AssetRecord]
         /\ pc' \in [Slots -> Pcs] /\ out' \in [Slots -> Outcomes]
  <1>1. UrlOf(t) \in Urls  BY SlotParts
  <1>2. CASE Current(files[UrlOf(t)], rec[t])
    BY <1>1, <1>2 DEF Save, Typed, VariablesTyped, ChunksCounted
  <1>3. CASE ~Current(files[UrlOf(t)], rec[t])
    BY <1>3 DEF Save, End, Mismatch, Typed, VariablesTyped, ChunksCounted, Pcs, Outcomes
  <1> QED BY <1>2, <1>3

\* A step of a transfer touches its own state and its own file.
LEMMA StepFrame ==
  ASSUME VariablesTyped, NEW t \in Slots, Step(t)
  PROVE  /\ gen' = gen /\ aborted' = aborted
         /\ \A s \in Slots \ {t} : /\ pc'[s] = pc[s] /\ rec'[s] = rec[s] /\ hash'[s] = hash[s]
                                   /\ resp'[s] = resp[s] /\ out'[s] = out[s]
         /\ \A u \in Urls \ {UrlOf(t)} :
              files'[u] = files[u] /\ chunks'[u] = chunks[u] /\ lock'[u] = lock[u]
  <1> USE DEF VariablesTyped, GoTo, End
  <1>1. CASE Lock(t)         BY <1>1 DEF Lock
  <1>2. CASE LockAborted(t)  BY <1>2 DEF LockAborted
  <1>3. CASE Stat(t)         BY <1>3 DEF Stat
  <1>4. CASE Reset(t)        BY <1>4 DEF Reset, Save
  <1>5. CASE Rehash(t)       BY <1>5 DEF Rehash
  <1>6. CASE Respond(t)      BY <1>6 DEF Respond
  <1>7. CASE Header(t)       BY <1>7 DEF Header, Save
  <1>8. CASE Receive(t)      BY <1>8 DEF Receive
  <1>9. CASE Store(t)        BY <1>9 DEF Store, Save
  <1>10. CASE Finalize(t)    BY <1>10 DEF Finalize
  <1>11. CASE Publish(t)     BY <1>11 DEF Publish, Save
  <1>12. CASE Fail(t)        BY <1>12 DEF Fail
  <1> QED
    BY <1>1, <1>2, <1>3, <1>4, <1>5, <1>6, <1>7, <1>8, <1>9, <1>10, <1>11, <1>12 DEF Step, Work
LEMMA StepTyped ==
  ASSUME Typed, NEW t \in Slots, Step(t)
  PROVE  VariablesTyped' /\ ChunksCounted'
  <1> USE DEF Typed, VariablesTyped, ChunksCounted
  <1>u. UrlOf(t) \in Urls  BY SlotParts
  <1>1. CASE Lock(t)
    BY <1>1, <1>u DEF Lock, GoTo, Pcs
  <1>2. CASE LockAborted(t)
    BY <1>2 DEF LockAborted, End, Pcs, Outcomes
  <1>3. CASE Stat(t)
    <2>1. rec' \in [Slots -> AssetRecord] /\ hash' \in [Slots -> Seq(Versions)]
      BY <1>3, <1>u DEF Stat
    <2>2. pc' \in [Slots -> Pcs] /\ out' \in [Slots -> Outcomes]
      BY <1>3 DEF Stat, GoTo, End, Pcs, Outcomes
    <2> QED BY <1>3, <2>1, <2>2 DEF Stat
  <1>4. CASE Reset(t)
    <2>1. gen[t] \in Nat  OBVIOUS
    <2>2. PICK p \in Pcs, o \in Outcomes :
            Save(t, ResetRecord(gen[t], UrlOf(t)), <<>>, p, o)
      <3>2. CASE pc[t] = "reset"
        BY <1>4, <3>2 DEF Reset, Pcs, Outcomes
      <3>3. CASE pc[t] = "restart"
        BY <1>4, <3>3 DEF Reset, Pcs, Outcomes
      <3>4. CASE pc[t] = "discard"
        BY <1>4, <3>4 DEF Reset, Pcs, Outcomes
      <3>5. pc[t] \in {"reset", "restart", "discard"}
        BY <1>4 DEF Reset
      <3> QED BY <3>2, <3>3, <3>4, <3>5
    <2>3. ResetRecord(gen[t], UrlOf(t)) \in AssetRecord /\ ResetRecord(gen[t], UrlOf(t)).bytes = 0
      BY <2>1, <1>u, ResetRecordType
    <2>4. <<>> \in Seq(Versions) /\ Len(<<>>) = 0  OBVIOUS
    <2>5. /\ files' \in [Urls -> AssetRecord] /\ chunks' \in [Urls -> Seq(Versions)]
          /\ \A u \in Urls : Len(chunks'[u]) = files'[u].bytes
          /\ rec' \in [Slots -> AssetRecord]
          /\ pc' \in [Slots -> Pcs] /\ out' \in [Slots -> Outcomes]
      BY <2>2, <2>3, <2>4, SaveTyped
    <2>6. /\ hash' \in [Slots -> Seq(Versions)]
          /\ UNCHANGED <<lock, gen, aborted, resp>>
      BY <1>4, <2>4 DEF Reset
    <2> QED BY <2>5, <2>6
  <1>5. CASE Rehash(t)
    <2>1. hash' \in [Slots -> Seq(Versions)]
      <3>1. CASE hash' = hash  BY <3>1
      <3>2. CASE /\ Current(files[UrlOf(t)], rec[t]) /\ Len(hash[t]) + 1 <= rec[t].bytes
                 /\ hash' = [hash EXCEPT ![t] = Append(@, chunks[UrlOf(t)][Len(hash[t]) + 1])]
        <4>1. Len(hash[t]) + 1 \in 1 .. Len(chunks[UrlOf(t)])
          BY <3>2, <1>u DEF Current, AssetRecord
        <4>2. chunks[UrlOf(t)][Len(hash[t]) + 1] \in Versions
          BY <4>1, <1>u
        <4> QED BY <3>2, <4>2
      <3>3. \/ hash' = hash
            \/ /\ Current(files[UrlOf(t)], rec[t]) /\ Len(hash[t]) + 1 <= rec[t].bytes
               /\ hash' = [hash EXCEPT ![t] = Append(@, chunks[UrlOf(t)][Len(hash[t]) + 1])]
        BY <1>5 DEF Rehash
      <3> QED BY <3>1, <3>2, <3>3
    <2>2. pc' \in [Slots -> Pcs] /\ out' \in [Slots -> Outcomes]
      BY <1>5 DEF Rehash, GoTo, End, Mismatch, Pcs, Outcomes
    <2> QED BY <1>5, <2>1, <2>2 DEF Rehash
  <1>6. CASE Respond(t)
    <2>1. resp' \in [Slots -> Responses \cup {NoResponse}]
      BY <1>6 DEF Respond
    <2>2. \/ End(t, "aborted")
          \/ GoTo(t, "restart")
          \/ GoTo(t, "header")
      BY <1>6 DEF Respond
    <2>3. pc' \in [Slots -> Pcs] /\ out' \in [Slots -> Outcomes]
      BY <2>2 DEF GoTo, End, Pcs, Outcomes
    <2> QED BY <1>6, <2>1, <2>3 DEF Respond
  <1>7. CASE Header(t)
    <2>1. CASE ~ValidResponse(resp[t], rec[t], UrlOf(t))
      BY <1>7, <2>1 DEF Header, End, Pcs, Outcomes
    <2>2. CASE ValidResponse(resp[t], rec[t], UrlOf(t))
      <3> DEFINE r == resp[t]
                 u == UrlOf(t)
                 size == IF Manifest[u].sizeBytes # 0 THEN Manifest[u].sizeBytes
                         ELSE IF r.status = 206 \/ r.sized THEN Length[r.version] ELSE 0
                 next == [rec[t] EXCEPT !.sizeBytes = size, !.validator = r.validator]
      <3>1. pc[t] = "header" /\ Save(t, next, chunks[u], "body", "ok")
        BY <1>7, <2>2 DEF Header
      <3>r. r \in Responses  BY <3>1 DEF ResponseHeld
      <3>2. CASE ~Current(files[u], rec[t])
        <4> HIDE DEF next
        <4>1. UNCHANGED <<files, chunks, rec>> /\ End(t, Mismatch(files[u], rec[t]))
          BY <3>1, <3>2 DEF Save
        <4> QED BY <1>7, <4>1 DEF Header, End, Mismatch, Pcs, Outcomes
      <3>3. CASE Current(files[u], rec[t])
        <4>1. size \in Nat /\ r.validator \in Versions \cup {NoTag}
          <5>1. Manifest[u].sizeBytes \in Nat  BY <1>u, StoreAssumption
          <5>2. Length[r.version] \in Nat /\ r.validator \in Versions \cup {NoTag}
            BY <3>r, StoreAssumption DEF Responses
          <5> QED BY <5>1, <5>2
        <4>2. next \in AssetRecord /\ next.bytes = Len(chunks[u])
          <5> HIDE DEF size
          <5> QED BY <4>1, <3>3, <1>u DEF Current, AssetRecord
        <4>3. "body" \in Pcs /\ "ok" \in Outcomes /\ chunks[u] \in Seq(Versions)
          BY <1>u DEF Pcs, Outcomes
        <4> HIDE DEF next
        <4>4. /\ files' \in [Urls -> AssetRecord] /\ chunks' \in [Urls -> Seq(Versions)]
              /\ \A w \in Urls : Len(chunks'[w]) = files'[w].bytes
              /\ rec' \in [Slots -> AssetRecord]
              /\ pc' \in [Slots -> Pcs] /\ out' \in [Slots -> Outcomes]
          BY <3>1, <4>2, <4>3, SaveTyped
        <4> QED BY <1>7, <4>4 DEF Header
      <3> QED BY <3>2, <3>3
    <2> QED BY <2>1, <2>2
  <1>8. CASE Receive(t)
    BY <1>8 DEF Receive, GoTo, End, Pcs, Outcomes
  <1>9. CASE Store(t)
    <2> DEFINE u == UrlOf(t)
               v == resp[t].version
               next == [rec[t] EXCEPT !.bytes = @ + 1]
    <2>1. v \in Versions
      BY <1>9 DEF Store, ResponseHeld, Responses
    <2>2. Save(t, next, Put(chunks[u], rec[t].bytes + 1, v), "body", "ok")
      BY <1>9 DEF Store
    <2>3. hash' \in [Slots -> Seq(Versions)]
      BY <1>9, <2>1 DEF Store
    <2>4. next \in AssetRecord /\ next.bytes = rec[t].bytes + 1
      <3>1. rec[t] \in AssetRecord  OBVIOUS
      <3> QED BY <3>1, OneMoreChunk
    <2>5. CASE ~Current(files[u], rec[t])
      <3>1. UNCHANGED <<files, chunks, rec>> /\ End(t, Mismatch(files[u], rec[t]))
        BY <2>2, <2>5 DEF Save
      <3> QED BY <1>9, <2>3, <3>1 DEF Store, End, Mismatch, Pcs, Outcomes
    <2>6. CASE Current(files[u], rec[t])
      <3>1. rec[t].bytes = Len(chunks[u])
        BY <2>6, <1>u DEF Current
      <3>2. /\ Put(chunks[u], rec[t].bytes + 1, v) \in Seq(Versions)
            /\ Len(Put(chunks[u], rec[t].bytes + 1, v)) = next.bytes
        <4>1. chunks[u] \in Seq(Versions)  BY <1>u
        <4>2. Put(chunks[u], rec[t].bytes + 1, v) = Append(chunks[u], v)
          BY <2>1, <3>1, <4>1, PutAppends
        <4>3. /\ Append(chunks[u], v) \in Seq(Versions)
              /\ Len(Append(chunks[u], v)) = Len(chunks[u]) + 1
          <5> HIDE DEF u, v
          <5> QED BY <2>1, <4>1
        <4>4. next.bytes = Len(chunks[u]) + 1
          BY <2>4, <3>1
        <4> HIDE DEF next, u, v
        <4> QED BY <4>2, <4>3, <4>4
      <3> HIDE DEF next
      <3>3. "body" \in Pcs /\ "ok" \in Outcomes  BY DEF Pcs, Outcomes
      <3>4. /\ files' \in [Urls -> AssetRecord] /\ chunks' \in [Urls -> Seq(Versions)]
            /\ \A w \in Urls : Len(chunks'[w]) = files'[w].bytes
            /\ rec' \in [Slots -> AssetRecord]
            /\ pc' \in [Slots -> Pcs] /\ out' \in [Slots -> Outcomes]
        BY <2>2, <2>4, <3>2, <3>3, SaveTyped
      <3> QED BY <1>9, <2>3, <3>4 DEF Store
    <2> QED BY <2>5, <2>6
  <1>10. CASE Finalize(t)
    BY <1>10 DEF Finalize, GoTo, End, Pcs, Outcomes
  <1>11. CASE Publish(t)
    <2> DEFINE u == UrlOf(t)
               next == [rec[t] EXCEPT !.complete = TRUE, !.sha256 = hash[t]]
    <2>1. Save(t, next, chunks[u], "closing", "ok")
      BY <1>11 DEF Publish
    <2>2. next \in AssetRecord /\ next.bytes = rec[t].bytes
      BY DEF AssetRecord
    <2> HIDE DEF next
    <2>3. CASE ~Current(files[u], rec[t])
      <3>1. UNCHANGED <<files, chunks, rec>> /\ End(t, Mismatch(files[u], rec[t]))
        BY <2>1, <2>3 DEF Save
      <3> QED BY <1>11, <3>1 DEF Publish, End, Mismatch, Pcs, Outcomes
    <2>4. CASE Current(files[u], rec[t])
      <3>1. chunks[u] \in Seq(Versions) /\ Len(chunks[u]) = next.bytes
        BY <2>2, <2>4, <1>u DEF Current
      <3>2. "closing" \in Pcs /\ "ok" \in Outcomes  BY DEF Pcs, Outcomes
      <3>3. /\ files' \in [Urls -> AssetRecord] /\ chunks' \in [Urls -> Seq(Versions)]
            /\ \A w \in Urls : Len(chunks'[w]) = files'[w].bytes
            /\ rec' \in [Slots -> AssetRecord]
            /\ pc' \in [Slots -> Pcs] /\ out' \in [Slots -> Outcomes]
        BY <2>1, <2>2, <3>1, <3>2, SaveTyped
      <3> QED BY <1>11, <3>3 DEF Publish
    <2> QED BY <2>3, <2>4
  <1>12. CASE Fail(t)
    BY <1>12 DEF Fail, End, Pcs, Outcomes
  <1> QED
    BY <1>1, <1>2, <1>3, <1>4, <1>5, <1>6, <1>7, <1>8, <1>9, <1>10, <1>11, <1>12 DEF Step, Work

LEMMA StepResponseHeld ==
  ASSUME Typed, NEW t \in Slots, Step(t)
  PROVE  ResponseHeld'
  <1> DEFINE Held == {"restart", "header", "body", "store"}
  <1> SUFFICES ASSUME pc'[t] \in Held PROVE resp'[t] \in Responses
    BY StepFrame DEF Typed, ResponseHeld
  <1>1. CASE Respond(t)
    BY <1>1 DEF Respond, GoTo, End, Typed, VariablesTyped
  <1>2. CASE resp' = resp /\ pc[t] \in Held
    BY <1>2 DEF Typed, ResponseHeld
  <1> USE DEF Typed, VariablesTyped, GoTo, End
  <1>3. CASE Lock(t)         BY <1>3 DEF Lock
  <1>4. CASE LockAborted(t)  BY <1>4 DEF LockAborted
  <1>5. CASE Stat(t)         BY <1>5 DEF Stat
  <1>6. CASE Reset(t)        BY <1>6, <1>2 DEF Reset, Save
  <1>7. CASE Rehash(t)       BY <1>7 DEF Rehash
  <1>8. CASE Header(t)       BY <1>8, <1>2 DEF Header
  <1>9. CASE Receive(t)      BY <1>9, <1>2 DEF Receive
  <1>10. CASE Store(t)       BY <1>10, <1>2 DEF Store
  <1>11. CASE Finalize(t)    BY <1>11 DEF Finalize
  <1>12. CASE Publish(t)     BY <1>12 DEF Publish, Save
  <1>13. CASE Fail(t)        BY <1>13 DEF Fail
  <1> QED
    BY <1>1, <1>3, <1>4, <1>5, <1>6, <1>7, <1>8, <1>9, <1>10, <1>11, <1>12, <1>13 DEF Step, Work

LEMMA FreeTyped ==
  ASSUME Typed, NEW T \in SUBSET Slots, Free(T), UNCHANGED durable
  PROVE  Typed'
  <1>1. EmptyRecord(0) \in AssetRecord  BY EmptyRecordType
  <1>2. VariablesTyped'
    BY <1>1 DEF Free, durable, Typed, VariablesTyped, Pcs, Outcomes
  <1>3. ChunksCounted'
    BY DEF durable, Typed, ChunksCounted
  <1>4. ResponseHeld'
    BY DEF Free, Typed, VariablesTyped, ResponseHeld
  <1> QED BY <1>2, <1>3, <1>4 DEF Typed

LEMMA DeleteTyped ==
  ASSUME Typed, Delete
  PROVE  Typed'
  <1>1. \A u \in Urls : files'[u] = files[u] \/ files'[u] = EmptyRecord(files[u].gen + 1)
    BY DEF Delete
  <1>2. \A u \in Urls : files[u].gen + 1 \in Nat
    BY DEF Typed, VariablesTyped, AssetRecord
  <1>3. files' \in [Urls -> AssetRecord]
    BY <1>2, EmptyRecordType DEF Delete, Typed, VariablesTyped
  <1>4. chunks' \in [Urls -> Seq(Versions)]
    BY DEF Delete, Typed, VariablesTyped
  <1>5. \A u \in Urls : Len(chunks'[u]) = files'[u].bytes
    BY DEF Delete, EmptyRecord, Typed, ChunksCounted
  <1> QED
    BY <1>3, <1>4, <1>5 DEF Delete, Typed, VariablesTyped, ChunksCounted, ResponseHeld

LEMMA NextTyped == Typed /\ [TransferNext]_tvars => Typed'
  <1> SUFFICES ASSUME Typed, [TransferNext]_tvars PROVE Typed'  OBVIOUS
  <1>1. ASSUME NEW t \in Slots, Step(t) PROVE Typed'
    BY <1>1, StepTyped, StepResponseHeld DEF Typed
  <1>2. ASSUME NEW t \in Slots, Settle(t) PROVE Typed'
    BY <1>2, FreeTyped DEF Settle
  <1>3. ASSUME NEW t \in Slots, NEW g \in 0 .. MaxGen, NEW S \in SUBSET Slots, Begin(t, g, S)
        PROVE  Typed'
    BY <1>3, TransferAssumption
       DEF Begin, Typed, VariablesTyped, ChunksCounted, ResponseHeld, Pcs
  <1>4. ASSUME NEW S \in SUBSET Slots, Abort(S) PROVE Typed'
    BY <1>4 DEF Abort, Alive, Typed, VariablesTyped, ChunksCounted, ResponseHeld
  <1>5. ASSUME NEW tab \in Tabs, Crash(tab) PROVE Typed'
    BY <1>5, FreeTyped DEF Crash
  <1>6. CASE Delete  BY <1>6, DeleteTyped
  <1>7. CASE UNCHANGED tvars
    BY <1>7 DEF tvars, Typed, VariablesTyped, ChunksCounted, ResponseHeld
  <1> QED
    BY <1>1, <1>2, <1>3, <1>4, <1>5, <1>6, <1>7 DEF TransferNext, Replaceable, Abortable

\* Every variable keeps its type, and a record counts the chunks stored for it,
\* through every interleaving of the tabs' transactions, aborts and crashes.
THEOREM TransferTyped == TransferSpec => []Typed
  BY InitTyped, NextTyped, PTL DEF TransferSpec

\* The lock manager's side: who runs has been granted the lock of its URL, and
\* gives it up only with its slot.
LEMMA InitLocks == TransferInit => LocksAreHeld
  BY DEF TransferInit, LocksAreHeld, Running

\* A step of a transfer other than the grant keeps the locks, and runs on.
LEMMA StepRuns ==
  ASSUME Typed, NEW t \in Slots, Step(t), ~Lock(t)
  PROVE  /\ lock' = lock
         /\ Running(t)' /\ (pc'[t] # "closing" => Running(t) /\ pc[t] # "closing")
  <1> USE DEF Typed, VariablesTyped, GoTo, End, Running
  <1>2. CASE LockAborted(t)  BY <1>2 DEF LockAborted
  <1>3. CASE Stat(t)         BY <1>3 DEF Stat
  <1>4. CASE Reset(t)        BY <1>4 DEF Reset, Save
  <1>5. CASE Rehash(t)       BY <1>5 DEF Rehash
  <1>6. CASE Respond(t)      BY <1>6 DEF Respond
  <1>7. CASE Header(t)       BY <1>7 DEF Header, Save
  <1>8. CASE Receive(t)      BY <1>8 DEF Receive
  <1>9. CASE Store(t)        BY <1>9 DEF Store, Save
  <1>10. CASE Finalize(t)    BY <1>10 DEF Finalize
  <1>11. CASE Publish(t)     BY <1>11 DEF Publish, Save
  <1>12. CASE Fail(t)        BY <1>12 DEF Fail, Pcs
  <1> QED
    BY <1>2, <1>3, <1>4, <1>5, <1>6, <1>7, <1>8, <1>9, <1>10, <1>11, <1>12 DEF Step, Work

LEMMA LocksKept == Typed /\ LocksAreHeld /\ [TransferNext]_tvars => LocksAreHeld'
  <1> SUFFICES ASSUME Typed, LocksAreHeld, [TransferNext]_tvars PROVE LocksAreHeld'
    OBVIOUS
  <1> USE DEF Typed, VariablesTyped
  <1>1. ASSUME NEW t \in Slots, Lock(t) PROVE LocksAreHeld'
    <2>1. UrlOf(t) \in Urls /\ t # None  BY SlotParts, TransferAssumption
    <2>2. /\ pc' = [pc EXCEPT ![t] = "stat"]
          /\ \/ ~HasLocks /\ lock' = lock
             \/ HasLocks /\ lock[UrlOf(t)] = None /\ lock' = [lock EXCEPT ![UrlOf(t)] = t]
      BY <1>1 DEF Lock, GoTo
    <2>3. \A s \in Slots : Running(s)' => s = t \/ Running(s)
      BY <2>2 DEF Running
    <2>4. \A s \in Slots : Running(s) => Running(s)'
      BY <2>2 DEF Running
    <2>5. Running(t)'  BY <2>2 DEF Running
    <2>6. ASSUME HasLocks, NEW s \in Slots, Running(s)', pc'[s] # "closing" PROVE lock'[UrlOf(s)] = s
      <3>1. CASE s = t  BY <2>1, <2>2, <2>6, <3>1
      <3>2. CASE s # t
        <4>1. lock[UrlOf(s)] = s /\ UrlOf(s) \in Urls /\ s # None
          BY <2>2, <2>3, <2>6, <3>2, SlotParts, TransferAssumption DEF LocksAreHeld
        <4> QED BY <2>2, <2>6, <4>1
      <3> QED BY <3>1, <3>2
    <2>7. ASSUME NEW u \in Urls, lock'[u] # None
          PROVE  UrlOf(lock'[u]) = u /\ pc'[lock'[u]] \notin {"free", "lock"}
      <3>1. CASE lock'[u] = lock[u]
        <4>1. lock[u] \in Slots /\ UrlOf(lock[u]) = u /\ Running(lock[u])
          BY <2>7, <3>1 DEF LocksAreHeld
        <4> QED BY <2>4, <3>1, <4>1 DEF Running
      <3>2. CASE u = UrlOf(t) /\ lock'[u] = t
        BY <2>5, <3>2 DEF Running
      <3> QED BY <2>2, <3>1, <3>2
    <2> QED BY <2>6, <2>7 DEF LocksAreHeld, Running
  <1>2. ASSUME NEW t \in Slots, Step(t), ~Lock(t) PROVE LocksAreHeld'
    <2>1. /\ lock' = lock /\ Running(t)'
          /\ pc'[t] # "closing" => Running(t) /\ pc[t] # "closing"
      BY <1>2, StepRuns
    <2>2. \A s \in Slots \ {t} : pc'[s] = pc[s]  BY <1>2, StepFrame
    <2> QED BY <2>1, <2>2 DEF LocksAreHeld, Running
  <1>3. ASSUME NEW T \in SUBSET Slots, Free(T) PROVE LocksAreHeld'
    <2>1. \A s \in Slots : Running(s)' => s \notin T /\ pc'[s] = pc[s] /\ Running(s)
      BY <1>3 DEF Free, Running
    <2>2. \A s \in Slots \ T : Running(s) => Running(s)'
      BY <1>3 DEF Free, Running
    <2>3. \A u \in Urls : lock'[u] = IF lock[u] \in T THEN None ELSE lock[u]
      BY <1>3 DEF Free
    <2>4. \A u \in Urls : lock'[u] # None => lock'[u] = lock[u] /\ lock[u] \in Slots \ T
      BY <2>3
    <2>5. \A s \in Slots : UrlOf(s) \in Urls  BY SlotParts
    <2> QED BY <2>1, <2>2, <2>3, <2>4, <2>5 DEF LocksAreHeld, Running
  <1>4. ASSUME NEW t \in Slots, NEW g, NEW S, Begin(t, g, S) PROVE LocksAreHeld'
    <2>1. pc[t] = "free" /\ pc' = [pc EXCEPT ![t] = "lock"] /\ lock' = lock
      BY <1>4 DEF Begin
    <2> QED BY <2>1 DEF LocksAreHeld, Running
  <1>5. CASE UNCHANGED <<lock, pc>>  BY <1>5 DEF LocksAreHeld, Running
  <1>6. ASSUME NEW tab \in Tabs, Crash(tab) PROVE LocksAreHeld'
    BY <1>3, <1>6 DEF Crash
  <1>7. ASSUME NEW t \in Slots, Settle(t) PROVE LocksAreHeld'
    BY <1>3, <1>7 DEF Settle
  <1> QED
    BY <1>1, <1>2, <1>4, <1>5, <1>6, <1>7 DEF TransferNext, Abort, Delete, tvars

\* The types, and that under Web Locks no transfer runs without the lock of its
\* URL, nor keeps it when it has settled.
THEOREM TransferTypeCorrect == TransferSpec => []TransferTypeOK
  <1>1. TransferInit => Typed /\ LocksAreHeld  BY InitTyped, InitLocks
  <1>2. Typed /\ LocksAreHeld /\ [TransferNext]_tvars => (Typed /\ LocksAreHeld)'
    BY NextTyped, LocksKept
  <1>3. Typed /\ LocksAreHeld => TransferTypeOK  BY DEF Typed, TransferTypeOK
  <1> QED BY <1>1, <1>2, <1>3, PTL DEF TransferSpec

----------------------------------------------------------------------------
(* The generation fence. *)

Writing == {"reset", "rehash", "fetch", "restart", "header", "body", "store",
            "finalize", "publish", "discard"}

\* A writer holds a record of its own generation, which never lies ahead of
\* the file's.
Fenced ==
  \A t \in Slots : /\ gen[t] <= files[UrlOf(t)].gen
                   /\ pc[t] \in Writing => rec[t].gen = gen[t]

LEMMA InitFenced == TransferInit /\ Typed => Fenced
  BY SlotParts DEF TransferInit, Typed, VariablesTyped, AssetRecord, Fenced, Writing

\* A step of a transfer leaves the store alone, or is a save whose compare has
\* succeeded: it writes the file of its generation and keeps the generation.
LEMMA StepSaves ==
  ASSUME Typed, Fenced, NEW t \in Slots, Step(t)
  PROVE  \/ UNCHANGED <<files, chunks>>
         \/ /\ pc[t] \in Writing
            /\ gen[t] = files[UrlOf(t)].gen
            /\ files'[UrlOf(t)].gen = gen[t]
  <1> USE DEF Typed, VariablesTyped
  <1>u. UrlOf(t) \in Urls  BY SlotParts
  <1>1. CASE Lock(t)         BY <1>1 DEF Lock
  <1>2. CASE LockAborted(t)  BY <1>2 DEF LockAborted
  <1>3. CASE Stat(t)         BY <1>3 DEF Stat
  <1>4. ASSUME NEW next, NEW content, NEW p, NEW o, Save(t, next, content, p, o),
               pc[t] \in Writing, next.gen = gen[t]
        PROVE  \/ UNCHANGED <<files, chunks>>
               \/ /\ pc[t] \in Writing
                  /\ gen[t] = files[UrlOf(t)].gen
                  /\ files'[UrlOf(t)].gen = gen[t]
    BY <1>4, <1>u DEF Save, Current, Fenced
  <1>r. pc[t] \in Writing => rec[t].gen = gen[t]
    BY DEF Fenced
  <1>5. CASE Reset(t)
    <2>1. pc[t] \in Writing  BY <1>5 DEF Reset, Writing
    <2>2. ResetRecord(gen[t], UrlOf(t)).gen = gen[t]
      BY <1>u, ResetRecordType
    <2> QED BY <1>4, <1>5, <2>1, <2>2 DEF Reset
  <1>6. CASE Rehash(t)       BY <1>6 DEF Rehash
  <1>7. CASE Respond(t)      BY <1>7 DEF Respond
  <1>8. CASE Header(t)
    <2>1. CASE ~ValidResponse(resp[t], rec[t], UrlOf(t))
      BY <1>8, <2>1 DEF Header
    <2>2. CASE ValidResponse(resp[t], rec[t], UrlOf(t))
      <3>1. pc[t] \in Writing  BY <1>8 DEF Header, Writing
      <3>2. \A s, v : [rec[t] EXCEPT !.sizeBytes = s, !.validator = v].gen = gen[t]
        BY <3>1, <1>r DEF AssetRecord
      <3>3. PICK s, v : Save(t, [rec[t] EXCEPT !.sizeBytes = s, !.validator = v],
                             chunks[UrlOf(t)], "body", "ok")
        BY <1>8, <2>2 DEF Header
      <3>4. [rec[t] EXCEPT !.sizeBytes = s, !.validator = v].gen = gen[t]
        BY <3>2
      <3> HIDE DEF Typed, VariablesTyped
      <3> QED BY <1>4, <3>1, <3>3, <3>4
    <2> QED BY <2>1, <2>2
  <1>9. CASE Receive(t)      BY <1>9 DEF Receive
  <1>10. CASE Store(t)
    <2>1. pc[t] \in Writing  BY <1>10 DEF Store, Writing
    <2>2. [rec[t] EXCEPT !.bytes = @ + 1].gen = gen[t]
      BY <2>1, <1>r DEF AssetRecord
    <2> QED BY <1>4, <1>10, <2>1, <2>2 DEF Store
  <1>11. CASE Finalize(t)    BY <1>11 DEF Finalize
  <1>12. CASE Publish(t)
    <2>1. pc[t] \in Writing  BY <1>12 DEF Publish, Writing
    <2>2. [rec[t] EXCEPT !.complete = TRUE, !.sha256 = hash[t]].gen = gen[t]
      BY <2>1, <1>r DEF AssetRecord
    <2> QED BY <1>4, <1>12, <2>1, <2>2 DEF Publish
  <1>13. CASE Fail(t)        BY <1>13 DEF Fail
  <1> QED
    BY <1>1, <1>2, <1>3, <1>5, <1>6, <1>7, <1>8, <1>9, <1>10, <1>11, <1>12, <1>13 DEF Step, Work

\* Where the record of a transfer comes from: the file it reads, or its own save.
LEMMA StepRecord ==
  ASSUME Typed, Fenced, NEW t \in Slots, Step(t), pc'[t] \in Writing
  PROVE  rec'[t].gen = gen[t]
  <1> USE DEF Typed, VariablesTyped, GoTo, End
  <1>u. UrlOf(t) \in Urls  BY SlotParts
  <1>r. pc[t] \in Writing => rec[t].gen = gen[t]
    BY DEF Fenced
  <1>1. CASE rec' = rec /\ pc[t] \in Writing
    BY <1>1, <1>r
  <1>4. ASSUME NEW next, NEW content, NEW p, NEW o, Save(t, next, content, p, o),
               pc[t] \in Writing, next.gen = gen[t]
        PROVE  rec'[t].gen = gen[t]
    BY <1>4, <1>r DEF Save
  <1>2. CASE Lock(t)         BY <1>2 DEF Lock, Writing
  <1>3. CASE LockAborted(t)  BY <1>3 DEF LockAborted, Writing
  <1>5. CASE Stat(t)         BY <1>5, <1>u DEF Stat, Writing
  <1>6. CASE Reset(t)
    <2>1. pc[t] \in Writing  BY <1>6 DEF Reset, Writing
    <2>2. ResetRecord(gen[t], UrlOf(t)).gen = gen[t]
      BY <1>u, ResetRecordType
    <2> QED BY <1>4, <1>6, <2>1, <2>2 DEF Reset
  <1>7. CASE Rehash(t)       BY <1>1, <1>7 DEF Rehash, Writing
  <1>8. CASE Respond(t)      BY <1>1, <1>8 DEF Respond, Writing
  <1>9. CASE Header(t)
    <2>1. pc[t] \in Writing  BY <1>9 DEF Header, Writing
    <2>2. CASE ~ValidResponse(resp[t], rec[t], UrlOf(t))
      BY <1>1, <1>9, <2>1, <2>2 DEF Header
    <2>3. CASE ValidResponse(resp[t], rec[t], UrlOf(t))
      <3>1. \A s, v : [rec[t] EXCEPT !.sizeBytes = s, !.validator = v].gen = gen[t]
        BY <2>1, <1>r DEF AssetRecord
      <3> QED BY <1>4, <1>9, <2>1, <2>3, <3>1 DEF Header
    <2> QED BY <2>2, <2>3
  <1>10. CASE Receive(t)     BY <1>1, <1>10 DEF Receive, Writing
  <1>11. CASE Store(t)
    <2>1. pc[t] \in Writing  BY <1>11 DEF Store, Writing
    <2>2. [rec[t] EXCEPT !.bytes = @ + 1].gen = gen[t]
      BY <2>1, <1>r DEF AssetRecord
    <2> QED BY <1>4, <1>11, <2>1, <2>2 DEF Store
  <1>12. CASE Finalize(t)    BY <1>1, <1>12 DEF Finalize, Writing
  <1>13. CASE Publish(t)
    <2>1. pc[t] \in Writing  BY <1>13 DEF Publish, Writing
    <2>2. [rec[t] EXCEPT !.complete = TRUE, !.sha256 = hash[t]].gen = gen[t]
      BY <2>1, <1>r DEF AssetRecord
    <2> QED BY <1>4, <1>13, <2>1, <2>2 DEF Publish
  <1>14. CASE Fail(t)        BY <1>1, <1>14 DEF Fail, Writing
  <1> QED
    BY <1>2, <1>3, <1>5, <1>6, <1>7, <1>8, <1>9, <1>10, <1>11, <1>12, <1>13, <1>14 DEF Step, Work

LEMMA NextFenced == Typed /\ Fenced /\ [TransferNext]_tvars => Fenced'
  <1> SUFFICES ASSUME Typed, Fenced, [TransferNext]_tvars PROVE Fenced'  OBVIOUS
  <1>p. \A s \in Slots : UrlOf(s) \in Urls  BY SlotParts
  <1>g. \A u \in Urls : files[u].gen \in Nat
    BY DEF Typed, VariablesTyped, AssetRecord
  <1>1. ASSUME NEW t \in Slots, Step(t) PROVE Fenced'
    <2>1. \A s \in Slots : gen'[s] <= files'[UrlOf(s)].gen
      <3>1. gen' = gen  BY <1>1, StepFrame DEF Typed
      <3>2. CASE UNCHANGED <<files, chunks>>
        BY <3>1, <3>2 DEF Fenced
      <3>3. CASE gen[t] = files[UrlOf(t)].gen /\ files'[UrlOf(t)].gen = gen[t]
        <4>1. \A u \in Urls : files'[u].gen = files[u].gen
          BY <1>1, <3>3, StepFrame DEF Typed
        <4> QED BY <1>p, <3>1, <4>1 DEF Fenced
      <3> QED BY <1>1, <3>2, <3>3, StepSaves
    <2>2. \A s \in Slots : pc'[s] \in Writing => rec'[s].gen = gen'[s]
      <3> TAKE s \in Slots
      <3>1. gen' = gen  BY <1>1, StepFrame DEF Typed
      <3>2. CASE s = t   BY <1>1, <3>1, <3>2, StepRecord
      <3>3. CASE s # t
        <4>1. pc'[s] = pc[s] /\ rec'[s] = rec[s]
          BY <1>1, <3>3, StepFrame DEF Typed
        <4> QED BY <3>1, <4>1 DEF Fenced
      <3> QED BY <3>2, <3>3
    <2> QED BY <2>1, <2>2 DEF Fenced
  <1>f. ASSUME NEW T \in SUBSET Slots, Free(T), UNCHANGED durable PROVE Fenced'
    BY <1>f, <1>p, <1>g DEF Free, durable, Fenced, Writing
  <1>2. ASSUME NEW t \in Slots, Settle(t) PROVE Fenced'
    BY <1>2, <1>f DEF Settle
  <1>3. ASSUME NEW t \in Slots, NEW g \in 0 .. MaxGen, NEW S \in SUBSET Slots, Begin(t, g, S)
        PROVE  Fenced'
    BY <1>3 DEF Begin, Fenced, Writing, Typed, VariablesTyped
  <1>4. ASSUME NEW S \in SUBSET Slots, Abort(S) PROVE Fenced'
    BY <1>4 DEF Abort, Fenced
  <1>5. ASSUME NEW tab \in Tabs, Crash(tab) PROVE Fenced'
    BY <1>5, <1>f DEF Crash
  <1>6. CASE Delete
    <2>1. \A u \in Urls : files[u].gen <= files'[u].gen
      BY <1>6, <1>g DEF Delete, EmptyRecord
    <2>2. \A s \in Slots : /\ gen[s] \in Nat /\ files[UrlOf(s)].gen \in Nat
                           /\ files'[UrlOf(s)].gen \in Nat
      BY <1>6, <1>p, DeleteTyped DEF Typed, VariablesTyped, AssetRecord
    <2>3. \A s \in Slots : gen[s] <= files'[UrlOf(s)].gen
      BY <2>1, <2>2, <1>p DEF Fenced
    <2> QED BY <1>6, <2>3 DEF Delete, Fenced
  <1>7. CASE UNCHANGED tvars
    BY <1>7 DEF tvars, Fenced
  <1> QED
    BY <1>1, <1>2, <1>3, <1>4, <1>5, <1>6, <1>7 DEF TransferNext, Replaceable, Abortable

LEMMA TransferFenced == TransferSpec => [](Typed /\ Fenced)
  <1>1. TransferInit => Typed /\ Fenced  BY InitTyped, InitFenced
  <1>2. (Typed /\ Fenced) /\ [TransferNext]_tvars => (Typed /\ Fenced)'
    BY NextTyped, NextFenced
  <1> QED BY <1>1, <1>2, PTL DEF TransferSpec

LEMMA StepFencedWrite ==
  ASSUME Typed, Fenced, [TransferNext]_tvars
  PROVE  FencedWrite
  <1>1. ASSUME NEW t \in Slots, Step(t) PROVE FencedWrite
    <2>1. CASE UNCHANGED <<files, chunks>>  BY <2>1 DEF FencedWrite
    <2>2. CASE /\ pc[t] \in Writing /\ gen[t] = files[UrlOf(t)].gen
               /\ files'[UrlOf(t)].gen = gen[t]
      <3>1. \A u \in Urls \ {UrlOf(t)} : files'[u] = files[u] /\ chunks'[u] = chunks[u]
        BY <1>1, StepFrame DEF Typed
      <3>2. Running(t)  BY <2>2 DEF Running, Writing
      <3> QED BY <2>2, <3>1, <3>2 DEF FencedWrite
    <2> QED BY <1>1, <2>1, <2>2, StepSaves
  <1>2. ASSUME UNCHANGED <<files, chunks>> PROVE FencedWrite
    BY <1>2 DEF FencedWrite
  <1>3. CASE Delete
    BY <1>3 DEF Delete, FencedWrite
  <1> QED
    BY <1>1, <1>2, <1>3 DEF TransferNext, Replaceable, Abortable, tvars, Settle, Begin, Abort, Crash, durable

\* A writer suspended over a deletion never recreates the file, with or without
\* Web Locks: only a deletion, or a transfer of the file's current generation,
\* changes a file.
THEOREM StaleWritersAreFenced == TransferSpec => StaleWriterFenced
  <1>1. Typed /\ Fenced /\ [TransferNext]_tvars => FencedWrite
    BY StepFencedWrite
  <1> QED BY <1>1, TransferFenced, PTL DEF TransferSpec, StaleWriterFenced

----------------------------------------------------------------------------
(* Intact files under Web Locks. *)

Hashed == {"fetch", "header", "body", "store", "finalize", "publish"}

\* While the generation lasts, a writer's record is the file's, and what it has
\* hashed is what is stored.
Abreast(t) ==
  LET u == UrlOf(t) IN
  pc[t] \in Writing /\ gen[t] = files[u].gen =>
    /\ rec[t] = files[u]
    /\ pc[t] # "reset" => ~rec[t].complete
    /\ pc[t] = "rehash" => /\ Len(hash[t]) <= Len(chunks[u])
                           /\ hash[t] = SubSeq(chunks[u], 1, Len(hash[t]))
    /\ pc[t] \in Hashed => hash[t] = chunks[u]

HoldsLock == \A t \in Slots : pc[t] \in Writing \cup {"stat"} => lock[UrlOf(t)] = t
AllAbreast == \A t \in Slots : Abreast(t)
NoConflict == \A t \in Slots : out[t] # "conflict"
Serial == HoldsLock /\ AllAbreast /\ NoConflict /\ CompleteIsIntact

LEMMA InitSerial == TransferInit => Serial
  <1> SUFFICES ASSUME TransferInit PROVE Serial  OBVIOUS
  <1>1. HoldsLock /\ AllAbreast /\ NoConflict
    BY DEF TransferInit, HoldsLock, AllAbreast, Abreast, NoConflict, Writing
  <1>2. CompleteIsIntact
    <2>1. PICK f \in [Urls -> UNION {InitFile(u) : u \in Urls}] :
            files = [u \in Urls |-> f[u][1]] /\ chunks = [u \in Urls |-> f[u][2]]
      BY DEF TransferInit
    <2>2. SUFFICES ASSUME NEW u \in Urls, f[u][1].complete
                   PROVE  f[u][2] = f[u][1].sha256 /\ Len(f[u][2]) = f[u][1].bytes
      BY <2>1 DEF CompleteIsIntact
    <2>3. CASE f[u] = <<EmptyRecord(0), <<>> >>
      BY <2>2, <2>3 DEF EmptyRecord
    <2>4. ASSUME NEW c \in StaleFiles,
                 f[u] = <<[EmptyRecord(0) EXCEPT !.bytes = Len(c), !.complete = TRUE,
                                                 !.sha256 = c, !.sizeBytes = Len(c)], c>>
          PROVE  f[u][2] = f[u][1].sha256 /\ Len(f[u][2]) = f[u][1].bytes
      <3> DEFINE r == [EmptyRecord(0) EXCEPT !.bytes = Len(c), !.complete = TRUE,
                                             !.sha256 = c, !.sizeBytes = Len(c)]
      <3>1. r.sha256 = c /\ r.bytes = Len(c)  BY DEF EmptyRecord
      <3>2. f[u][1] = r /\ f[u][2] = c
        <4> HIDE DEF r
        <4> QED BY <2>4 DEF r
      <3> QED BY <3>1, <3>2
    <2> QED BY <2>3, <2>4 DEF InitFile
  <1> QED BY <1>1, <1>2 DEF Serial

\* What a step of t has to establish about t and its own file.
OwnGoal(t) ==
  /\ pc'[t] \in Writing \cup {"stat"} => lock'[UrlOf(t)] = t
  /\ Abreast(t)'
  /\ out'[t] # "conflict"
  /\ files'[UrlOf(t)].complete =>
       /\ chunks'[UrlOf(t)] = files'[UrlOf(t)].sha256
       /\ Len(chunks'[UrlOf(t)]) = files'[UrlOf(t)].bytes

\* A save that fails was fenced by a deletion, one that succeeds leaves the
\* writer abreast of its file.
LEMMA SaveSerial ==
  ASSUME Typed, Fenced, Serial, NEW t \in Slots, pc[t] \in Writing,
         NEW next, NEW content, NEW p, NEW o, Save(t, next, content, p, o)
  PROVE  \/ /\ gen[t] # files[UrlOf(t)].gen /\ UNCHANGED <<files, chunks, rec>>
            /\ pc' = [pc EXCEPT ![t] = "closing"] /\ out' = [out EXCEPT ![t] = "deleted"]
         \/ /\ gen[t] = files[UrlOf(t)].gen /\ rec[t] = files[UrlOf(t)]
            /\ files'[UrlOf(t)] = next /\ chunks'[UrlOf(t)] = content /\ rec'[t] = next
            /\ pc'[t] = p /\ out'[t] = o
  <1>u. UrlOf(t) \in Urls  BY SlotParts
  <1>1. rec[t].gen = gen[t]  BY DEF Fenced
  <1>2. gen[t] = files[UrlOf(t)].gen => rec[t] = files[UrlOf(t)]
    BY DEF Serial, AllAbreast, Abreast
  <1>3. CASE Current(files[UrlOf(t)], rec[t])
    BY <1>u, <1>1, <1>2, <1>3 DEF Save, Current, Typed, VariablesTyped
  <1>4. CASE ~Current(files[UrlOf(t)], rec[t])
    BY <1>1, <1>2, <1>4 DEF Save, Current, End, Mismatch
  <1> QED BY <1>3, <1>4

\* Any step that ends the transfer and leaves the store alone meets the goal.
LEMMA EndSerial ==
  ASSUME Typed, Serial, NEW t \in Slots, NEW o, o # "conflict", End(t, o),
         UNCHANGED <<files, chunks, lock>>
  PROVE  OwnGoal(t)
  <1>1. pc'[t] = "closing" /\ out'[t] = o
    BY DEF End, Typed, VariablesTyped
  <1>2. \A u \in Urls : files[u].complete =>
          chunks[u] = files[u].sha256 /\ Len(chunks[u]) = files[u].bytes
    BY DEF Serial, CompleteIsIntact
  <1> QED BY <1>1, <1>2, SlotParts DEF OwnGoal, Abreast, Writing

\* A step that moves on without touching the store, its record or its digest.
LEMMA MoveSerial ==
  ASSUME Typed, Serial, NEW t \in Slots, NEW p, GoTo(t, p),
         pc[t] \in Hashed, p # "rehash",
         UNCHANGED <<files, chunks, lock, rec, hash, gen>>
  PROVE  OwnGoal(t)
  <1>u. UrlOf(t) \in Urls  BY SlotParts
  <1>1. pc'[t] = p /\ out'[t] = out[t]
    BY DEF GoTo, Typed, VariablesTyped
  <1>w. pc[t] \in Writing /\ pc[t] # "reset"  BY DEF Writing, Hashed
  <1>2. /\ lock[UrlOf(t)] = t /\ Abreast(t) /\ out[t] # "conflict"
        /\ files[UrlOf(t)].complete =>
             /\ chunks[UrlOf(t)] = files[UrlOf(t)].sha256
             /\ Len(chunks[UrlOf(t)]) = files[UrlOf(t)].bytes
    BY <1>u, <1>w DEF Serial, HoldsLock, AllAbreast, NoConflict, CompleteIsIntact
  <1>3. Abreast(t)'
    BY <1>1, <1>2, <1>w DEF Abreast
  <1> QED BY <1>1, <1>2, <1>3 DEF OwnGoal

LEMMA StepOwnGoal ==
  ASSUME HasLocks, Typed, Fenced, Serial, NEW t \in Slots, Step(t)
  PROVE  OwnGoal(t)
  <1> DEFINE u == UrlOf(t)
  <1>u. u \in Urls  BY SlotParts
  <1>t. /\ chunks[u] \in Seq(Versions) /\ hash[t] \in Seq(Versions)
        /\ Len(chunks[u]) = files[u].bytes /\ pc[t] \in Pcs /\ out[t] # "conflict"
        /\ files[u] \in AssetRecord /\ rec[t] \in AssetRecord
    BY <1>u DEF Typed, VariablesTyped, ChunksCounted, Serial, NoConflict
  <1>i. files[u].complete => chunks[u] = files[u].sha256 /\ Len(chunks[u]) = files[u].bytes
    BY <1>u DEF Serial, CompleteIsIntact
  <1>a. Abreast(t) /\ (pc[t] \in Writing \cup {"stat"} => lock[u] = t)
    BY DEF Serial, AllAbreast, HoldsLock
  <1>f. pc[t] \in Writing => rec[t].gen = gen[t]
    BY DEF Fenced
  <1>1. CASE Lock(t)
    <2>1. lock'[u] = t /\ pc'[t] = "stat" /\ out' = out /\ files' = files /\ chunks' = chunks
      BY <1>1, <1>u DEF Lock, GoTo, Typed, VariablesTyped
    <2> QED BY <2>1, <1>t, <1>i DEF OwnGoal, Abreast, Writing
  <1>2. CASE LockAborted(t)
    BY <1>2, EndSerial DEF LockAborted
  <1>3. CASE Stat(t)
    <2>1. lock' = lock /\ files' = files /\ chunks' = chunks /\ gen' = gen
      BY <1>3 DEF Stat
    <2>2. CASE \E o \in {"deleted", "ok"} : End(t, o)
      BY <2>1, <2>2, EndSerial
    <2>3. CASE /\ files[u].gen = gen[t] /\ ~(files[u].complete /\ Compatible(files[u], u))
               /\ (GoTo(t, "reset") \/ (GoTo(t, "rehash") /\ Compatible(files[u], u)))
      <3>1. rec'[t] = files[u] /\ hash'[t] = <<>> /\ pc[t] = "stat"
        BY <1>3 DEF Stat, Typed, VariablesTyped
      <3>2. pc'[t] \in {"reset", "rehash"} /\ out'[t] = out[t]
        BY <2>3 DEF GoTo, Typed, VariablesTyped
      <3>3. pc'[t] = "rehash" => ~files[u].complete
        BY <2>3 DEF GoTo, Typed, VariablesTyped
      <3>4. hash'[t] = SubSeq(chunks[u], 1, Len(hash'[t])) /\ Len(hash'[t]) <= Len(chunks[u])
        BY <3>1, <1>t
      <3>5. lock[u] = t  BY <3>1, <1>a
      <3>6. Abreast(t)'
        BY <2>1, <3>1, <3>2, <3>3, <3>4 DEF Abreast, Hashed
      <3> QED BY <2>1, <3>2, <3>5, <3>6, <1>i, <1>t DEF OwnGoal
    <2> QED
      <3>1. \/ End(t, "deleted")
            \/ End(t, "ok")
            \/ /\ files[u].gen = gen[t] /\ ~(files[u].complete /\ Compatible(files[u], u))
               /\ \/ GoTo(t, "reset")
                  \/ GoTo(t, "rehash") /\ Compatible(files[u], u)
        BY <1>3 DEF Stat
      <3> QED BY <2>2, <2>3, <3>1
  <1>4. CASE Reset(t)
    <2>1. pc[t] \in Writing  BY <1>4 DEF Reset, Writing
    <2>2. PICK p, o : /\ Save(t, ResetRecord(gen[t], u), <<>>, p, o)
                      /\ p \in {"rehash", "header", "closing"} /\ o # "conflict"
      <3>2. CASE pc[t] = "reset"    BY <1>4, <3>2 DEF Reset
      <3>3. CASE pc[t] = "restart"  BY <1>4, <3>3 DEF Reset
      <3>4. CASE pc[t] = "discard"  BY <1>4, <3>4 DEF Reset
      <3>5. pc[t] \in {"reset", "restart", "discard"}  BY <1>4 DEF Reset
      <3> QED BY <3>2, <3>3, <3>4, <3>5
    <2>3. hash'[t] = <<>> /\ lock' = lock /\ gen' = gen
      BY <1>4 DEF Reset, Typed, VariablesTyped
    <2>4. /\ ResetRecord(gen[t], u).complete = FALSE
          /\ ResetRecord(gen[t], u).gen = gen[t]
      BY <1>u, ResetRecordType DEF Typed, VariablesTyped
    <2>5. CASE /\ gen[t] # files[u].gen /\ UNCHANGED <<files, chunks, rec>>
               /\ pc' = [pc EXCEPT ![t] = "closing"] /\ out' = [out EXCEPT ![t] = "deleted"]
      BY <2>3, <2>5, EndSerial DEF End
    <2>6. CASE /\ gen[t] = files[u].gen /\ rec[t] = files[u]
               /\ files'[u] = ResetRecord(gen[t], u) /\ chunks'[u] = <<>>
               /\ rec'[t] = ResetRecord(gen[t], u) /\ pc'[t] = p /\ out'[t] = o
      <3> DEFINE next == ResetRecord(gen[t], u)
      <3> HIDE DEF next
      <3>1. files'[u] = next /\ rec'[t] = next /\ next.complete = FALSE
        BY <2>4, <2>6 DEF next
      <3>2. SubSeq(<<>>, 1, 0) = <<>> /\ Len(<<>>) = 0  OBVIOUS
      <3>3. Abreast(t)'
        BY <2>2, <2>3, <2>6, <3>1, <3>2 DEF Abreast
      <3> QED BY <2>1, <2>2, <2>3, <2>6, <3>1, <3>3, <1>a DEF OwnGoal
    <2> QED BY <2>1, <2>2, <2>5, <2>6, SaveSerial
  <1>5. CASE Rehash(t)
    <2>1. pc[t] = "rehash" /\ UNCHANGED <<files, chunks, lock, rec, gen>>
      BY <1>5 DEF Rehash
    <2>2. pc[t] \in Writing  BY <2>1 DEF Writing
    <2>3. CASE aborted[t]
      BY <1>5, <2>1, <2>3, EndSerial DEF Rehash
    <2>4. CASE ~aborted[t] /\ Len(hash[t]) + 1 <= rec[t].bytes /\ Current(files[u], rec[t])
      <3>0. Len(hash[t]) + 1 <= Len(chunks[u])
        BY <2>4, <1>u DEF Current, Typed, ChunksCounted
      <3>1. hash'[t] = Append(hash[t], chunks[u][Len(hash[t]) + 1]) /\ pc'[t] = "rehash" /\ out' = out
        BY <1>5, <2>4, <3>0 DEF Rehash, GoTo, Typed, VariablesTyped
      <3>2. ASSUME gen[t] = files[u].gen
            PROVE  /\ Len(hash'[t]) <= Len(chunks[u])
                   /\ hash'[t] = SubSeq(chunks[u], 1, Len(hash'[t]))
        <4>1. /\ rec[t] = files[u] /\ Len(hash[t]) <= Len(chunks[u])
              /\ hash[t] = SubSeq(chunks[u], 1, Len(hash[t]))
          BY <3>2, <2>1, <2>2, <1>a DEF Abreast
        <4>2. Len(hash[t]) + 1 \in 1 .. Len(chunks[u])
          BY <4>1, <2>4, <1>t
        <4>3. Len(hash'[t]) = Len(hash[t]) + 1
          BY <3>1, <4>2, <1>t
        <4>4. SubSeq(chunks[u], 1, Len(hash[t]) + 1)
                = Append(SubSeq(chunks[u], 1, Len(hash[t])), chunks[u][Len(hash[t]) + 1])
          <5> HIDE DEF u
          <5> DEFINE n == Len(hash[t])
          <5>1. n \in Nat /\ n + 1 <= Len(chunks[u])  BY <4>2, <1>t
          <5> HIDE DEF n
          <5> QED BY <5>1, <1>t
        <4> QED BY <3>1, <4>1, <4>2, <4>3, <4>4
      <3>3. Abreast(t)'
        BY <2>1, <2>2, <3>1, <3>2, <1>a DEF Abreast, Hashed
      <3> QED BY <2>1, <2>2, <3>1, <3>3, <1>a, <1>i, <1>t DEF OwnGoal
    <2>5. CASE ~aborted[t] /\ Len(hash[t]) + 1 <= rec[t].bytes /\ ~Current(files[u], rec[t])
      <3>1. End(t, Mismatch(files[u], rec[t]))  BY <1>5, <2>5 DEF Rehash
      <3>2. Mismatch(files[u], rec[t]) # "conflict"
        BY <2>2, <2>5, <1>a, <1>f DEF Abreast, Mismatch, Current
      <3> QED BY <2>1, <3>1, <3>2, EndSerial
    <2>6. CASE ~aborted[t] /\ ~(Len(hash[t]) + 1 <= rec[t].bytes)
      <3>1. pc'[t] \in {"finalize", "fetch"} /\ out' = out /\ hash' = hash
        BY <1>5, <2>6 DEF Rehash, GoTo, Typed, VariablesTyped
      <3>2. ASSUME gen[t] = files[u].gen
            PROVE  hash[t] = chunks[u]
        <4>1. /\ rec[t] = files[u] /\ Len(hash[t]) <= Len(chunks[u])
              /\ hash[t] = SubSeq(chunks[u], 1, Len(hash[t]))
          BY <3>2, <2>1, <2>2, <1>a DEF Abreast
        <4>2. Len(hash[t]) = Len(chunks[u])
          BY <4>1, <2>6, <1>t DEF AssetRecord
        <4>3. SubSeq(chunks[u], 1, Len(chunks[u])) = chunks[u]
          BY <1>t
        <4> QED BY <4>1, <4>2, <4>3
      <3>3. Abreast(t)'
        BY <2>1, <2>2, <3>1, <3>2, <1>a DEF Abreast, Hashed
      <3> QED BY <2>1, <2>2, <3>1, <3>3, <1>a, <1>i, <1>t DEF OwnGoal
    <2> QED BY <2>3, <2>4, <2>5, <2>6
  <1>6. CASE Respond(t)
    <2>1. /\ pc[t] = "fetch" /\ UNCHANGED <<files, chunks, lock, rec, hash, gen>>
          /\ End(t, "aborted") \/ GoTo(t, "restart") \/ GoTo(t, "header")
      BY <1>6 DEF Respond
    <2>2. pc[t] \in Writing /\ pc[t] \in Hashed  BY <2>1 DEF Writing, Hashed
    <2> QED BY <2>1, <2>2, EndSerial, MoveSerial
  <1>7. CASE Header(t)
    <2>1. pc[t] \in Writing /\ pc[t] \in Hashed /\ pc[t] # "reset"
      BY <1>7 DEF Header, Writing, Hashed
    <2>2. lock' = lock /\ hash' = hash /\ gen' = gen  BY <1>7 DEF Header
    <2>3. CASE ~ValidResponse(resp[t], rec[t], u)
      <3>1. End(t, "integrity") /\ UNCHANGED <<files, chunks, rec>>
        BY <1>7, <2>3 DEF Header
      <3> QED BY <2>2, <3>1, EndSerial
    <2>4. CASE ValidResponse(resp[t], rec[t], u)
      <3>1. PICK s, v : Save(t, [rec[t] EXCEPT !.sizeBytes = s, !.validator = v], chunks[u], "body", "ok")
        BY <1>7, <2>4 DEF Header
      <3> DEFINE next == [rec[t] EXCEPT !.sizeBytes = s, !.validator = v]
      <3>2. next.complete = rec[t].complete
        BY <1>t DEF AssetRecord
      <3> HIDE DEF next
      <3>3. CASE /\ gen[t] # files[u].gen /\ UNCHANGED <<files, chunks, rec>>
                 /\ pc' = [pc EXCEPT ![t] = "closing"] /\ out' = [out EXCEPT ![t] = "deleted"]
        BY <2>2, <3>3, EndSerial DEF End
      <3>4. CASE /\ gen[t] = files[u].gen /\ rec[t] = files[u]
                 /\ files'[u] = next /\ chunks'[u] = chunks[u]
                 /\ rec'[t] = next /\ pc'[t] = "body" /\ out'[t] = "ok"
        <4>1. ~rec[t].complete /\ hash[t] = chunks[u] /\ lock[u] = t
          BY <2>1, <3>4, <1>a DEF Abreast
        <4>2. Abreast(t)'
          BY <2>2, <3>2, <3>4, <4>1 DEF Abreast
        <4> QED BY <2>2, <3>2, <3>4, <4>1, <4>2 DEF OwnGoal
      <3> QED BY <2>1, <3>1, <3>3, <3>4, SaveSerial DEF next
    <2> QED BY <2>3, <2>4
  <1>8. CASE Receive(t)
    <2>1. /\ pc[t] = "body" /\ UNCHANGED <<files, chunks, lock, rec, hash, gen>>
          /\ End(t, "aborted") \/ End(t, "integrity") \/ GoTo(t, "store") \/ GoTo(t, "finalize")
      BY <1>8 DEF Receive
    <2>2. pc[t] \in Writing /\ pc[t] \in Hashed  BY <2>1 DEF Writing, Hashed
    <2> QED BY <2>1, <2>2, EndSerial, MoveSerial
  <1>9. CASE Store(t)
    <2> DEFINE v == resp[t].version
               next == [rec[t] EXCEPT !.bytes = @ + 1]
    <2>1. pc[t] = "store" /\ pc[t] \in Writing /\ pc[t] \in Hashed /\ v \in Versions
      BY <1>9 DEF Store, Writing, Hashed, Typed, ResponseHeld, Responses
    <2>2. lock' = lock /\ gen' = gen  BY <1>9 DEF Store
    <2>3. Save(t, next, Put(chunks[u], rec[t].bytes + 1, v), "body", "ok")
      BY <1>9 DEF Store
    <2>4. next.complete = rec[t].complete  BY <1>t DEF AssetRecord
    <2> HIDE DEF next
    <2>5. CASE /\ gen[t] # files[u].gen /\ UNCHANGED <<files, chunks, rec>>
               /\ pc' = [pc EXCEPT ![t] = "closing"] /\ out' = [out EXCEPT ![t] = "deleted"]
      BY <2>2, <2>5, EndSerial DEF End
    <2>6. CASE /\ gen[t] = files[u].gen /\ rec[t] = files[u]
               /\ files'[u] = next /\ chunks'[u] = Put(chunks[u], rec[t].bytes + 1, v)
               /\ rec'[t] = next /\ pc'[t] = "body" /\ out'[t] = "ok"
      <3>1. ~rec[t].complete /\ hash[t] = chunks[u] /\ lock[u] = t
        BY <2>1, <2>6, <1>a DEF Abreast
      <3>2. hash'[t] = Append(hash[t], v)
        BY <1>9, <2>6 DEF Store, Current, Typed, VariablesTyped
      <3>3. chunks'[u] = Append(chunks[u], v)
        BY <2>1, <2>6, <1>t, PutAppends
      <3>4. Abreast(t)'
        BY <2>2, <2>4, <2>6, <3>1, <3>2, <3>3 DEF Abreast
      <3> QED BY <2>2, <2>4, <2>6, <3>1, <3>4 DEF OwnGoal
    <2> QED BY <2>1, <2>3, <2>5, <2>6, SaveSerial
  <1>10. CASE Finalize(t)
    <2>1. /\ pc[t] = "finalize" /\ UNCHANGED <<files, chunks, lock, rec, hash, gen>>
          /\ End(t, "aborted") \/ End(t, "integrity") \/ GoTo(t, "discard") \/ GoTo(t, "publish")
      BY <1>10 DEF Finalize
    <2>2. pc[t] \in Writing /\ pc[t] \in Hashed /\ "discard" \notin Hashed
      BY <2>1 DEF Writing, Hashed
    <2> QED BY <2>1, <2>2, EndSerial, MoveSerial
  <1>11. CASE Publish(t)
    <2> DEFINE next == [rec[t] EXCEPT !.complete = TRUE, !.sha256 = hash[t]]
    <2>1. pc[t] \in Writing /\ pc[t] \in Hashed  BY <1>11 DEF Publish, Writing, Hashed
    <2>2. lock' = lock /\ gen' = gen  BY <1>11 DEF Publish
    <2>3. Save(t, next, chunks[u], "closing", "ok")  BY <1>11 DEF Publish
    <2>4. next.sha256 = hash[t] /\ next.bytes = rec[t].bytes  BY <1>t DEF AssetRecord
    <2> HIDE DEF next
    <2>5. CASE /\ gen[t] # files[u].gen /\ UNCHANGED <<files, chunks, rec>>
               /\ pc' = [pc EXCEPT ![t] = "closing"] /\ out' = [out EXCEPT ![t] = "deleted"]
      BY <2>2, <2>5, EndSerial DEF End
    <2>6. CASE /\ gen[t] = files[u].gen /\ rec[t] = files[u]
               /\ files'[u] = next /\ chunks'[u] = chunks[u]
               /\ rec'[t] = next /\ pc'[t] = "closing" /\ out'[t] = "ok"
      <3>1. hash[t] = chunks[u]  BY <2>1, <2>6, <1>a DEF Abreast
      <3> QED BY <2>2, <2>4, <2>6, <3>1, <1>t DEF OwnGoal, Abreast, Writing
    <2> QED BY <2>1, <2>3, <2>5, <2>6, SaveSerial
  <1>12. CASE Fail(t)
    BY <1>12, EndSerial DEF Fail
  <1> QED
    BY <1>1, <1>2, <1>3, <1>4, <1>5, <1>6, <1>7, <1>8, <1>9, <1>10, <1>11, <1>12 DEF Step, Work

LEMMA StepSerial ==
  ASSUME HasLocks, Typed, Fenced, Serial, NEW t \in Slots, Step(t)
  PROVE  Serial'
  <1> DEFINE u == UrlOf(t)
  <1>g. OwnGoal(t)  BY StepOwnGoal
  <1>1. /\ gen' = gen
        /\ \A s \in Slots \ {t} : /\ pc'[s] = pc[s] /\ rec'[s] = rec[s] /\ hash'[s] = hash[s]
                                  /\ out'[s] = out[s]
        /\ \A w \in Urls \ {u} :
             files'[w] = files[w] /\ chunks'[w] = chunks[w] /\ lock'[w] = lock[w]
    BY StepFrame DEF Typed
  <1>2. \A s \in Slots : UrlOf(s) \in Urls  BY SlotParts
  <1>3. \A s \in Slots \ {t} : UrlOf(s) = u /\ pc[s] \in Writing \cup {"stat"} =>
          pc[t] \notin Writing \cup {"stat"} /\ lock[u] = s
    BY DEF Serial, HoldsLock
  <1>4. \A s \in Slots \ {t} : UrlOf(s) = u /\ pc[s] \in Writing \cup {"stat"} =>
          lock' = lock /\ UNCHANGED <<files, chunks>>
    <2> TAKE s \in Slots \ {t}
    <2> HAVE UrlOf(s) = u /\ pc[s] \in Writing \cup {"stat"}
    <2>1. pc[t] \notin Writing \cup {"stat"} /\ lock[u] = s /\ s # None
      BY <1>3, TransferAssumption
    <2>2. ~Lock(t)  BY <2>1 DEF Lock
    <2>3. CASE LockAborted(t)  BY <2>3 DEF LockAborted
    <2>4. LockAborted(t)
      BY <2>1, <2>2 DEF Step, Work, Stat, Reset, Rehash, Respond, Header, Receive, Store, Finalize,
                        Publish, Fail, Writing, Pcs
    <2> QED BY <2>3, <2>4
  <1>5. HoldsLock'
    <2> SUFFICES ASSUME NEW s \in Slots, pc'[s] \in Writing \cup {"stat"}
                 PROVE  lock'[UrlOf(s)] = s
      BY DEF HoldsLock
    <2>1. CASE s = t  BY <2>1, <1>g DEF OwnGoal
    <2>2. CASE s # t
      <3>1. lock[UrlOf(s)] = s /\ pc[s] \in Writing \cup {"stat"}
        BY <2>2, <1>1 DEF Serial, HoldsLock
      <3> QED BY <2>2, <3>1, <1>1, <1>2, <1>4
    <2> QED BY <2>1, <2>2
  <1>6. AllAbreast'
    <2> SUFFICES ASSUME NEW s \in Slots PROVE Abreast(s)'
      BY DEF AllAbreast
    <2>1. CASE s = t  BY <2>1, <1>g DEF OwnGoal
    <2>2. CASE s # t
      <3>1. Abreast(s)  BY DEF Serial, AllAbreast
      <3>2. /\ pc'[s] = pc[s] /\ rec'[s] = rec[s] /\ hash'[s] = hash[s] /\ gen'[s] = gen[s]
        BY <2>2, <1>1
      <3>3. CASE pc[s] \notin Writing
        BY <3>2, <3>3 DEF Abreast
      <3>4. CASE pc[s] \in Writing
        <4>1. files'[UrlOf(s)] = files[UrlOf(s)] /\ chunks'[UrlOf(s)] = chunks[UrlOf(s)]
          BY <2>2, <3>4, <1>1, <1>2, <1>4
        <4> QED BY <3>1, <3>2, <4>1 DEF Abreast
      <3> QED BY <3>3, <3>4
    <2> QED BY <2>1, <2>2
  <1>7. NoConflict'
    BY <1>1, <1>g DEF OwnGoal, Serial, NoConflict
  <1>8. CompleteIsIntact'
    BY <1>1, <1>g DEF OwnGoal, Serial, CompleteIsIntact
  <1> QED BY <1>5, <1>6, <1>7, <1>8 DEF Serial

LEMMA NextSerial == HasLocks /\ Typed /\ Fenced /\ Serial /\ [TransferNext]_tvars => Serial'
  <1> SUFFICES ASSUME HasLocks, Typed, Fenced, Serial, [TransferNext]_tvars PROVE Serial'
    OBVIOUS
  <1>p. \A s \in Slots : UrlOf(s) \in Urls  BY SlotParts
  <1>1. ASSUME NEW t \in Slots, Step(t) PROVE Serial'
    BY <1>1, StepSerial
  <1>f. ASSUME NEW T \in SUBSET Slots, Free(T), UNCHANGED durable PROVE Serial'
    <2>1. HoldsLock'
      BY <1>f, <1>p DEF Free, Serial, HoldsLock, Writing
    <2>2. AllAbreast'
      BY <1>f DEF Free, durable, Serial, AllAbreast, Abreast, Writing
    <2>3. NoConflict'
      BY <1>f DEF Free, Serial, NoConflict
    <2>4. CompleteIsIntact'
      BY <1>f DEF durable, Serial, CompleteIsIntact
    <2> QED BY <2>1, <2>2, <2>3, <2>4 DEF Serial
  <1>2. ASSUME NEW t \in Slots, Settle(t) PROVE Serial'
    BY <1>2, <1>f DEF Settle
  <1>3. ASSUME NEW t \in Slots, NEW g \in 0 .. MaxGen, NEW S \in SUBSET Slots, Begin(t, g, S)
        PROVE  Serial'
    <2>1. /\ pc[t] = "free" /\ pc' = [pc EXCEPT ![t] = "lock"] /\ gen' = [gen EXCEPT ![t] = g]
          /\ UNCHANGED <<files, chunks, lock, rec, hash, out>>
      BY <1>3 DEF Begin
    <2>2. HoldsLock'
      BY <2>1 DEF Serial, HoldsLock, Writing, Typed, VariablesTyped
    <2>3. AllAbreast'
      BY <2>1 DEF Serial, AllAbreast, Abreast, Writing, Typed, VariablesTyped
    <2> QED BY <2>1, <2>2, <2>3 DEF Serial, NoConflict, CompleteIsIntact
  <1>4. ASSUME UNCHANGED <<files, chunks, lock, pc, gen, rec, hash, out>> PROVE Serial'
    BY <1>4 DEF Serial, HoldsLock, AllAbreast, Abreast, NoConflict, CompleteIsIntact
  <1>5. ASSUME NEW tab \in Tabs, Crash(tab) PROVE Serial'
    BY <1>5, <1>f DEF Crash
  <1>6. CASE Delete
    <2>1. UNCHANGED <<lock, pc, gen, rec, hash, out>>
      BY <1>6 DEF Delete
    <2>2. AllAbreast'
      <3> SUFFICES ASSUME NEW s \in Slots PROVE Abreast(s)'
        BY DEF AllAbreast
      <3>1. CASE UrlOf(s) \in Private
        <4>1. files'[UrlOf(s)].gen = files[UrlOf(s)].gen + 1
          BY <1>6, <1>p, <3>1 DEF Delete, EmptyRecord
        <4>2. gen[s] <= files[UrlOf(s)].gen /\ gen[s] \in Nat /\ files[UrlOf(s)].gen \in Nat
          BY <1>p DEF Fenced, Typed, VariablesTyped, AssetRecord
        <4> QED BY <2>1, <4>1, <4>2 DEF Abreast
      <3>2. CASE UrlOf(s) \notin Private
        <4>1. files'[UrlOf(s)] = files[UrlOf(s)] /\ chunks'[UrlOf(s)] = chunks[UrlOf(s)]
          BY <1>6, <1>p, <3>2 DEF Delete
        <4>2. Abreast(s)  BY DEF Serial, AllAbreast
        <4> QED BY <2>1, <4>1, <4>2 DEF Abreast
      <3> QED BY <3>1, <3>2
    <2>3. CompleteIsIntact'
      BY <1>6 DEF Delete, EmptyRecord, Serial, CompleteIsIntact
    <2> QED BY <2>1, <2>2, <2>3 DEF Serial, HoldsLock, NoConflict
  <1> QED
    BY <1>1, <1>2, <1>3, <1>4, <1>5, <1>6 DEF TransferNext, Replaceable, Abortable, Abort, tvars

LEMMA TransferSerial == HasLocks => (TransferSpec => []Serial)
  <1> SUFFICES ASSUME HasLocks PROVE TransferSpec => []Serial
    OBVIOUS
  <1>1. TransferInit => Typed /\ Fenced /\ Serial
    BY InitTyped, InitFenced, InitSerial
  <1>2. (Typed /\ Fenced /\ Serial) /\ [TransferNext]_tvars
          => (Typed /\ Fenced /\ Serial)'
    BY NextTyped, NextFenced, NextSerial
  <1> QED BY <1>1, <1>2, PTL DEF TransferSpec

\* Where the browser has Web Locks, a complete file always has the content its
\* record promises, whatever the server sends and whichever tabs are suspended,
\* closed or deleting.
THEOREM LocksKeepFilesIntact == HasLocks => (TransferSpec => []CompleteIsIntact)
  <1> SUFFICES ASSUME HasLocks PROVE TransferSpec => []CompleteIsIntact
    OBVIOUS
  <1>1. TransferSpec => []Serial  BY TransferSerial
  <1>2. Serial => CompleteIsIntact  BY DEF Serial
  <1> QED BY <1>1, <1>2, PTL

\* Where the browser has Web Locks, the compare-and-set never refuses a writer
\* for another reason than a deletion.
THEOREM LocksKeepWritersApart == TransferSpec => []LocksExcludeConflicts
  <1>1. CASE HasLocks
    <2>1. TransferSpec => []Serial  BY <1>1, TransferSerial
    <2>2. Serial => LocksExcludeConflicts
      BY DEF Serial, NoConflict, LocksExcludeConflicts
    <2> QED BY <2>1, <2>2, PTL
  <1>2. CASE ~HasLocks
    <2>1. LocksExcludeConflicts  BY <1>2 DEF LocksExcludeConflicts
    <2>2. [](LocksExcludeConflicts)  BY <2>1, <1>2, PTL DEF LocksExcludeConflicts
    <2> QED BY <2>2, PTL
  <1> QED BY <1>1, <1>2

-----------------------------------------------------------------------------
(***************************************************************************)
(* Under Web Locks the writers of the asset store implement the abstract   *)
(* registry, for any number of tabs, files, contents and deletions.        *)
(***************************************************************************)

\* What is asked of the manifest: a runtime file has neither digest nor
\* length, the digest of a registry file is that of a content a server may
\* send, and its length, if there, is the length of that content.
RegistryIsSound ==
  \A u \in Urls :
    /\ Manifest[u].sha256 = NoSha => Manifest[u].sizeBytes = 0
    /\ Manifest[u].sha256 # NoSha =>
         /\ \E v \in Versions : Manifest[u].sha256 = Content(v)
         /\ Manifest[u].sizeBytes \in {0, Len(Manifest[u].sha256)}

\* c is the beginning of version v, in a record that knows the length or not.
BeginningOf(v, c, sizeBytes) ==
  /\ Len(c) <= Length[v] /\ \A i \in 1 .. Len(c) : c[i] = v
  /\ sizeBytes \in {0, Length[v]}

\* A complete file with the digest of the registry has its length; what a
\* validator tells of a runtime file that is not complete is true.
FileGenuine(u) ==
  /\ /\ files[u].complete /\ Manifest[u].sha256 # NoSha /\ Manifest[u].sizeBytes # 0
     /\ files[u].sha256 = Manifest[u].sha256
     => files[u].sizeBytes = Manifest[u].sizeBytes
  /\ ~files[u].complete /\ Manifest[u].sha256 = NoSha /\ files[u].validator # NoTag =>
       BeginningOf(files[u].validator, chunks[u], files[u].sizeBytes)

Accepted == {"rehash", "fetch", "header", "body", "store", "finalize", "publish"}

\* What a writer that is not fenced knows of its file, by where it is.
Genuine(t) ==
  LET u == UrlOf(t)  runtime == Manifest[u].sha256 = NoSha IN
  pc[t] \in Writing /\ gen[t] = files[u].gen =>
    /\ pc[t] \in Accepted => Compatible(rec[t], u)
    /\ pc[t] = "reset" /\ rec[t].complete => ~Compatible(rec[t], u)
    /\ pc[t] = "rehash" /\ runtime /\ rec[t].bytes > 0 => rec[t].validator # NoTag
    /\ pc[t] \in {"restart", "header", "body", "store"} =>
         resp[t].validator \in {resp[t].version, NoTag}
    /\ pc[t] = "header" /\ resp[t].status = 200 => rec[t].bytes = 0
    /\ pc[t] \in {"body", "store"} /\ runtime =>
         /\ rec[t].validator = resp[t].validator
         /\ BeginningOf(resp[t].version, chunks[u], rec[t].sizeBytes)
    /\ pc[t] = "store" => rec[t].bytes < Length[resp[t].version]
    /\ pc[t] \in {"finalize", "publish"} /\ runtime => \E v \in Versions : chunks[u] = Content(v)
    /\ pc[t] = "publish" /\ ~runtime => hash[t] = Manifest[u].sha256

AllGenuine == (\A u \in Urls : FileGenuine(u)) /\ (\A t \in Slots : Genuine(t))

\* A beginning of the whole length is the whole.
LEMMA WholeBeginning ==
  ASSUME NEW v \in Versions, NEW c \in Seq(Versions), NEW n, BeginningOf(v, c, n), Len(c) = Length[v]
  PROVE  c = Content(v)
  <1>1. c = [i \in 1 .. Len(c) |-> c[i]]  OBVIOUS
  <1> QED BY <1>1 DEF BeginningOf, Content

LEMMA LongerBeginning ==
  ASSUME NEW v \in Versions, NEW c \in Seq(Versions), NEW n, BeginningOf(v, c, n), Len(c) < Length[v]
  PROVE  BeginningOf(v, Append(c, v), n)
  <1>1. Length[v] \in Nat  BY StoreAssumption
  <1>2. Len(Append(c, v)) = Len(c) + 1 /\ \A i \in 1 .. Len(c) + 1 : Append(c, v)[i] = IF i <= Len(c) THEN c[i] ELSE v
    OBVIOUS
  <1> QED BY <1>1, <1>2 DEF BeginningOf

\* A transfer that writes is alone with its file: a step of another one leaves
\* both alone.
LEMMA OthersUndisturbed ==
  ASSUME HasLocks, Typed, Fenced, Serial, NEW t \in Slots, Step(t),
         NEW s \in Slots \ {t}, pc[s] \in Writing
  PROVE  /\ files'[UrlOf(s)] = files[UrlOf(s)] /\ chunks'[UrlOf(s)] = chunks[UrlOf(s)]
         /\ pc'[s] = pc[s] /\ rec'[s] = rec[s] /\ hash'[s] = hash[s] /\ resp'[s] = resp[s] /\ gen' = gen
  <1>1. /\ gen' = gen /\ pc'[s] = pc[s] /\ rec'[s] = rec[s] /\ hash'[s] = hash[s] /\ resp'[s] = resp[s]
        /\ \A w \in Urls \ {UrlOf(t)} : files'[w] = files[w] /\ chunks'[w] = chunks[w]
    BY StepFrame DEF Typed
  <1>2. UrlOf(s) \in Urls  BY SlotParts
  <1>3. CASE UrlOf(s) # UrlOf(t)  BY <1>1, <1>2, <1>3
  <1>4. CASE UrlOf(s) = UrlOf(t)
    <2>1. pc[t] \notin Writing \cup {"stat"} /\ lock[UrlOf(t)] = s /\ s # None
      BY <1>4, TransferAssumption DEF Serial, HoldsLock
    <2>2. ~Lock(t)  BY <2>1 DEF Lock
    <2>3. LockAborted(t)
      BY <2>1, <2>2 DEF Step, Work, Stat, Reset, Rehash, Respond, Header, Receive, Store, Finalize,
                        Publish, Fail, Writing, Pcs
    <2> QED BY <2>3, <1>1 DEF LockAborted
  <1> QED BY <1>3, <1>4

LEMMA InitGenuine == TransferInit /\ RegistryIsSound => AllGenuine
  <1> SUFFICES ASSUME TransferInit, RegistryIsSound PROVE AllGenuine  OBVIOUS
  <1>1. \A t \in Slots : Genuine(t)
    BY DEF TransferInit, Genuine, Writing
  <1>2. ASSUME NEW u \in Urls PROVE FileGenuine(u)
    <2>1. PICK f \in [Urls -> UNION {InitFile(w) : w \in Urls}] :
            files = [w \in Urls |-> f[w][1]] /\ chunks = [w \in Urls |-> f[w][2]]
      BY DEF TransferInit
    <2>2. CASE f[u] = <<EmptyRecord(0), <<>> >>
      BY <2>1, <2>2 DEF EmptyRecord, FileGenuine
    <2>3. ASSUME NEW c \in StaleFiles,
                 f[u] = <<[EmptyRecord(0) EXCEPT !.bytes = Len(c), !.complete = TRUE,
                                                 !.sha256 = c, !.sizeBytes = Len(c)], c>>
          PROVE  FileGenuine(u)
      <3> DEFINE r == [EmptyRecord(0) EXCEPT !.bytes = Len(c), !.complete = TRUE,
                                             !.sha256 = c, !.sizeBytes = Len(c)]
      <3>1. r.sha256 = c /\ r.sizeBytes = Len(c) /\ r.complete  BY DEF EmptyRecord
      <3>2. f[u][1] = r
        <4> HIDE DEF r
        <4> QED BY <2>3 DEF r
      <3>3. files[u] = r  BY <3>2, <2>1
      <3> HIDE DEF r
      <3> QED BY <3>1, <3>3 DEF FileGenuine, RegistryIsSound
    <2> QED BY <2>1, <2>2, <2>3 DEF InitFile
  <1> QED BY <1>1, <1>2 DEF AllGenuine

\* What a step of t has to establish about its file and itself.
OwnGenuine(t) == FileGenuine(UrlOf(t))' /\ Genuine(t)'

\* A step after which t does not write, and that leaves the store alone.
LEMMA LeaveGenuine ==
  ASSUME AllGenuine, NEW t \in Slots, UNCHANGED <<files, chunks>>, pc'[t] \notin Writing
  PROVE  OwnGenuine(t)
  BY SlotParts DEF AllGenuine, OwnGenuine, FileGenuine, Genuine, BeginningOf

LEMMA EndGenuine ==
  ASSUME Typed, AllGenuine, NEW t \in Slots, NEW o, End(t, o), UNCHANGED <<files, chunks>>
  PROVE  OwnGenuine(t)
  <1>1. pc'[t] \notin Writing  BY DEF End, Writing, Typed, VariablesTyped
  <1> QED BY <1>1, LeaveGenuine

LEMMA StatGenuine ==
  ASSUME Typed, AllGenuine, NEW t \in Slots, Stat(t)
  PROVE  OwnGenuine(t)
  <1> DEFINE u == UrlOf(t)
             r == files[u]
             unsafe == \/ ~Compatible(r, u)
                       \/ r.bytes > 0 /\ Manifest[u].sha256 = NoSha /\ r.validator = NoTag
  <1>u. u \in Urls  BY SlotParts
  <1>1. UNCHANGED <<files, chunks>> /\ rec'[t] = r
    BY DEF Stat, Typed, VariablesTyped
  <1>2. CASE \E o \in {"deleted", "ok"} : End(t, o)
    BY <1>1, <1>2, EndGenuine
  <1>3. CASE ~(r.complete /\ Compatible(r, u)) /\ GoTo(t, IF unsafe THEN "reset" ELSE "rehash")
    <2>1. FileGenuine(u)'
      BY <1>u, <1>1 DEF AllGenuine, FileGenuine, BeginningOf
    <2>2. CASE unsafe
      <3>1. pc'[t] = "reset"  BY <1>3, <2>2 DEF GoTo, Typed, VariablesTyped
      <3>2. Genuine(t)'  BY <1>1, <1>3, <3>1 DEF Genuine, Accepted
      <3> QED BY <2>1, <3>2 DEF OwnGenuine
    <2>3. CASE ~unsafe
      <3>1. pc'[t] = "rehash"  BY <1>3, <2>3 DEF GoTo, Typed, VariablesTyped
      <3>2. Genuine(t)'  BY <1>1, <2>3, <3>1 DEF Genuine, Accepted
      <3> QED BY <2>1, <3>2 DEF OwnGenuine
    <2> QED BY <2>2, <2>3
  <1>4. \/ End(t, "deleted") \/ End(t, "ok")
        \/ ~(r.complete /\ Compatible(r, u)) /\ GoTo(t, IF unsafe THEN "reset" ELSE "rehash")
    BY DEF Stat
  <1> QED BY <1>2, <1>3, <1>4

\* A reset record is compatible with the manifest and says nothing of a version.
LEMMA ResetGenuine ==
  ASSUME Typed, Fenced, Serial, AllGenuine, NEW t \in Slots, Reset(t)
  PROVE  OwnGenuine(t)
  <1> DEFINE u == UrlOf(t)
             next == ResetRecord(gen[t], u)
  <1>u. u \in Urls  BY SlotParts
  <1>1. pc[t] \in {"reset", "restart", "discard"} /\ pc[t] \in Writing
    BY DEF Reset, Writing
  <1>2. PICK p, o : /\ Save(t, next, <<>>, p, o)
                    /\ \/ p = "rehash" \/ p = "closing"
                       \/ p = "header" /\ pc[t] = "restart"
    <2>1. CASE pc[t] = "reset"    BY <2>1 DEF Reset
    <2>2. CASE pc[t] = "restart"  BY <2>2 DEF Reset
    <2>3. CASE pc[t] = "discard"  BY <2>3 DEF Reset
    <2> QED BY <1>1, <2>1, <2>2, <2>3
  <1>3. resp' = resp /\ gen' = gen  BY DEF Reset
  <1>4. /\ ~next.complete /\ next.bytes = 0 /\ next.validator = NoTag
        /\ next.sha256 = Manifest[u].sha256 /\ next.sizeBytes = Manifest[u].sizeBytes
    BY DEF ResetRecord, EmptyRecord
  <1> HIDE DEF next
  <1>5. CASE /\ UNCHANGED <<files, chunks>> /\ pc' = [pc EXCEPT ![t] = "closing"]
    BY <1>5, LeaveGenuine DEF Writing, Typed, VariablesTyped
  <1>6. CASE /\ gen[t] = files[u].gen /\ files'[u] = next /\ rec'[t] = next /\ pc'[t] = p
    <2>1. FileGenuine(u)'  BY <1>4, <1>6 DEF FileGenuine
    <2>2. Compatible(rec'[t], u)  BY <1>4, <1>6 DEF Compatible
    <2>3. p = "header" => resp'[t].validator \in {resp'[t].version, NoTag}
      BY <1>1, <1>2, <1>3, <1>6 DEF AllGenuine, Genuine
    <2>4. Genuine(t)'
      BY <1>2, <1>4, <1>6, <2>2, <2>3 DEF Genuine, Writing
    <2> QED BY <2>1, <2>4 DEF OwnGenuine
  <1> QED BY <1>1, <1>2, <1>5, <1>6, SaveSerial

\* A runtime file whose prefix is hashed and counted is whole.
LEMMA RehashGenuine ==
  ASSUME Typed, Fenced, Serial, AllGenuine, NEW t \in Slots, Rehash(t), RegistryIsSound
  PROVE  OwnGenuine(t)
  <1> DEFINE u == UrlOf(t)
  <1>u. u \in Urls  BY SlotParts
  <1>1. pc[t] = "rehash" /\ UNCHANGED <<files, chunks, rec, gen>>  BY DEF Rehash
  <1>2. CASE \E o : End(t, o)
    BY <1>1, <1>2, EndGenuine
  <1>3. CASE GoTo(t, "rehash") \/ GoTo(t, "fetch")
    <2>1. pc'[t] \in {"rehash", "fetch"}  BY <1>3 DEF GoTo, Typed, VariablesTyped
    <2>2. Genuine(t)'  BY <1>1, <2>1 DEF AllGenuine, Genuine, Accepted, Writing
    <2> QED BY <1>u, <1>1, <2>2 DEF OwnGenuine, AllGenuine, FileGenuine, BeginningOf
  <1>4. CASE GoTo(t, "finalize") /\ rec[t].sizeBytes # 0 /\ rec[t].bytes = rec[t].sizeBytes
    <2>1. pc'[t] = "finalize"  BY <1>4 DEF GoTo, Typed, VariablesTyped
    <2>2. ASSUME gen[t] = files[u].gen, Manifest[u].sha256 = NoSha
          PROVE  \E v \in Versions : chunks[u] = Content(v)
      <3>1. rec[t] = files[u] /\ ~files[u].complete
        BY <1>1, <2>2 DEF Serial, AllAbreast, Abreast, Writing
      <3>2. /\ files[u] \in AssetRecord /\ chunks[u] \in Seq(Versions)
            /\ Len(chunks[u]) = files[u].bytes
        BY <1>u DEF Typed, VariablesTyped, ChunksCounted
      <3>3. files[u].bytes > 0  BY <1>4, <3>1, <3>2 DEF AssetRecord
      <3>4. files[u].validator # NoTag
        BY <1>1, <2>2, <3>1, <3>3 DEF AllGenuine, Genuine, Writing
      <3>5. BeginningOf(files[u].validator, chunks[u], files[u].sizeBytes)
        BY <1>u, <2>2, <3>1, <3>4 DEF AllGenuine, FileGenuine
      <3>6. files[u].validator \in Versions  BY <3>2, <3>4 DEF AssetRecord
      <3>7. Len(chunks[u]) = Length[files[u].validator]
        BY <1>4, <3>1, <3>2, <3>5 DEF BeginningOf
      <3> QED BY <3>2, <3>5, <3>6, <3>7, WholeBeginning
    <2>3. Genuine(t)'
      BY <1>1, <2>1, <2>2 DEF AllGenuine, Genuine, Accepted, Writing
    <2> QED BY <1>u, <1>1, <2>3 DEF OwnGenuine, AllGenuine, FileGenuine, BeginningOf
  <1> QED BY <1>2, <1>3, <1>4 DEF Rehash

LEMMA RespondGenuine ==
  ASSUME Typed, AllGenuine, NEW t \in Slots, Respond(t)
  PROVE  OwnGenuine(t)
  <1> DEFINE u == UrlOf(t)
  <1>u. u \in Urls  BY SlotParts
  <1>1. pc[t] = "fetch" /\ UNCHANGED <<files, chunks, rec, gen>>  BY DEF Respond
  <1>2. CASE End(t, "aborted")
    BY <1>1, <1>2, EndGenuine
  <1>3. CASE \E r \in Responses :
               /\ r.validator \in {r.version, NoTag}
               /\ resp' = [resp EXCEPT ![t] = r]
               /\ GoTo(t, IF r.status = 200 /\ rec[t].bytes > 0 THEN "restart" ELSE "header")
    <2>1. PICK r \in Responses :
            /\ r.validator \in {r.version, NoTag}
            /\ resp' = [resp EXCEPT ![t] = r]
            /\ GoTo(t, IF r.status = 200 /\ rec[t].bytes > 0 THEN "restart" ELSE "header")
      BY <1>3
    <2>2. resp'[t] = r  BY <2>1 DEF Typed, VariablesTyped
    <2>3. rec[t].bytes \in Nat  BY DEF Typed, VariablesTyped, AssetRecord
    <2>4. \/ pc'[t] = "restart"
          \/ pc'[t] = "header" /\ (r.status = 200 => rec[t].bytes = 0)
      BY <2>1, <2>3 DEF GoTo, Typed, VariablesTyped
    <2>5. Genuine(t)'
      BY <1>1, <2>1, <2>2, <2>4 DEF AllGenuine, Genuine, Accepted, Writing
    <2> QED BY <1>u, <1>1, <2>5 DEF OwnGenuine, AllGenuine, FileGenuine, BeginningOf
  <1> QED BY <1>2, <1>3 DEF Respond

\* The header that is accepted fits the chunks it continues.
LEMMA HeaderGenuine ==
  ASSUME Typed, Fenced, Serial, AllGenuine, NEW t \in Slots, Header(t), RegistryIsSound
  PROVE  OwnGenuine(t)
  <1> DEFINE u == UrlOf(t)
             r == resp[t]
             size == IF Manifest[u].sizeBytes # 0 THEN Manifest[u].sizeBytes
                     ELSE IF r.status = 206 \/ r.sized THEN Length[r.version] ELSE 0
             next == [rec[t] EXCEPT !.sizeBytes = size, !.validator = r.validator]
  <1>u. u \in Urls  BY SlotParts
  <1>1. pc[t] = "header" /\ pc[t] \in Writing /\ resp' = resp /\ gen' = gen
    BY DEF Header, Writing
  <1>2. CASE ~ValidResponse(r, rec[t], u)
    BY <1>2, EndGenuine DEF Header
  <1>3. CASE ValidResponse(r, rec[t], u)
    <2>1. Save(t, next, chunks[u], "body", "ok")  BY <1>3 DEF Header
    <2>2. /\ next.complete = rec[t].complete /\ next.sha256 = rec[t].sha256
          /\ next.bytes = rec[t].bytes /\ next.sizeBytes = size /\ next.validator = r.validator
      BY DEF Typed, VariablesTyped, AssetRecord
    <2> HIDE DEF next
    <2>3. CASE UNCHANGED <<files, chunks>> /\ pc' = [pc EXCEPT ![t] = "closing"]
      BY <2>3, LeaveGenuine DEF Writing, Typed, VariablesTyped
    <2>4. CASE /\ gen[t] = files[u].gen /\ rec[t] = files[u] /\ files'[u] = next
               /\ chunks'[u] = chunks[u] /\ rec'[t] = next /\ pc'[t] = "body"
      <3>1. /\ Compatible(rec[t], u) /\ r.validator \in {r.version, NoTag}
            /\ r.status = 200 => rec[t].bytes = 0
        BY <1>1, <2>4 DEF AllGenuine, Genuine, Accepted
      <3>2. r \in Responses  BY <1>1 DEF Typed, ResponseHeld
      <3>3. /\ chunks[u] \in Seq(Versions) /\ Len(chunks[u]) = rec[t].bytes
            /\ Manifest[u].sizeBytes \in Nat /\ Length[r.version] \in Nat \ {0}
            /\ r.version \in Versions /\ r.version # NoTag
        BY <1>u, <2>4, <3>2, StoreAssumption DEF Typed, VariablesTyped, ChunksCounted, Responses
      <3>4. Compatible(next, u)
        BY <2>2, <3>1 DEF Compatible
      <3>5. ASSUME Manifest[u].sha256 = NoSha
            PROVE  BeginningOf(r.version, chunks[u], size)
        <4>0. Manifest[u].sizeBytes = 0  BY <1>u, <3>5 DEF RegistryIsSound
        <4>1. CASE r.status = 206
          <5>1. /\ rec[t].bytes < Length[r.version]
                /\ r.validator # NoTag /\ r.validator = rec[t].validator
            BY <1>3, <3>5, <4>1 DEF ValidResponse
          <5>2. r.version = files[u].validator /\ files[u].validator # NoTag
            BY <2>4, <3>1, <5>1
          <5>3. ~files[u].complete
            BY <1>1, <2>4 DEF Serial, AllAbreast, Abreast
          <5>4. BeginningOf(r.version, chunks[u], files[u].sizeBytes)
            BY <1>u, <3>5, <5>2, <5>3 DEF AllGenuine, FileGenuine
          <5>5. size = Length[r.version]  BY <4>0, <4>1
          <5> QED BY <5>4, <5>5 DEF BeginningOf
        <4>2. CASE r.status = 200
          <5>1. Len(chunks[u]) = 0  BY <3>1, <3>3, <4>2
          <5>2. size \in {0, Length[r.version]}  BY <4>0
          <5> HIDE DEF u, r, size
          <5> QED BY <3>3, <5>1, <5>2 DEF BeginningOf
        <4> QED BY <3>2, <4>1, <4>2 DEF Responses
      <3>6. ~next.complete
        BY <1>1, <2>2, <2>4 DEF Serial, AllAbreast, Abreast
      <3>7. FileGenuine(u)'
        BY <2>2, <2>4, <3>1, <3>5, <3>6 DEF FileGenuine
      <3>8. Genuine(t)'
        BY <1>1, <2>2, <2>4, <3>1, <3>4, <3>5 DEF Genuine, Accepted
      <3> QED BY <3>7, <3>8 DEF OwnGenuine
    <2> QED BY <1>1, <2>1, <2>3, <2>4, SaveSerial
  <1> QED BY <1>2, <1>3

LEMMA ReceiveGenuine ==
  ASSUME Typed, Fenced, Serial, AllGenuine, NEW t \in Slots, Receive(t)
  PROVE  OwnGenuine(t)
  <1> DEFINE u == UrlOf(t)
             v == resp[t].version
  <1>u. u \in Urls  BY SlotParts
  <1>1. pc[t] = "body" /\ UNCHANGED <<files, chunks, rec, resp, gen>>  BY DEF Receive
  <1>2. FileGenuine(u)'  BY <1>u, <1>1 DEF AllGenuine, FileGenuine, BeginningOf
  <1>3. CASE \E o : End(t, o)
    BY <1>1, <1>3, EndGenuine
  <1>4. CASE GoTo(t, "store") /\ ~(rec[t].bytes >= Length[v])
    <2>1. pc'[t] = "store"  BY <1>4 DEF GoTo, Typed, VariablesTyped
    <2>2. v \in Versions  BY <1>1 DEF Typed, ResponseHeld, Responses
    <2>3. rec[t].bytes < Length[v]
      BY <1>4, <2>2, StoreAssumption DEF Typed, VariablesTyped, AssetRecord
    <2>4. Genuine(t)'
      BY <1>1, <2>1, <2>3 DEF AllGenuine, Genuine, Accepted, Writing, BeginningOf
    <2> QED BY <1>2, <2>4 DEF OwnGenuine
  <1>5. CASE GoTo(t, "finalize") /\ rec[t].bytes >= Length[v]
    <2>1. pc'[t] = "finalize"  BY <1>5 DEF GoTo, Typed, VariablesTyped
    <2>2. ASSUME gen[t] = files[u].gen, Manifest[u].sha256 = NoSha
          PROVE  \E w \in Versions : chunks[u] = Content(w)
      <3>1. rec[t] = files[u]  BY <1>1, <2>2 DEF Serial, AllAbreast, Abreast, Writing
      <3>2. v \in Versions /\ Length[v] \in Nat
        BY <1>1, StoreAssumption DEF Typed, ResponseHeld, Responses
      <3>3. chunks[u] \in Seq(Versions) /\ Len(chunks[u]) = rec[t].bytes
        BY <1>u, <3>1 DEF Typed, VariablesTyped, ChunksCounted
      <3>4. BeginningOf(v, chunks[u], rec[t].sizeBytes)
        BY <1>1, <2>2 DEF AllGenuine, Genuine, Writing
      <3>5. Len(chunks[u]) = Length[v]
        BY <1>5, <3>2, <3>3, <3>4 DEF BeginningOf
      <3> QED BY <3>2, <3>3, <3>4, <3>5, WholeBeginning
    <2>3. Genuine(t)'
      BY <1>1, <2>1, <2>2 DEF AllGenuine, Genuine, Accepted, Writing
    <2> QED BY <1>2, <2>3 DEF OwnGenuine
  <1> QED BY <1>3, <1>4, <1>5 DEF Receive

\* A chunk of the version that is received continues a beginning of it.
LEMMA StoreGenuine ==
  ASSUME Typed, Fenced, Serial, AllGenuine, NEW t \in Slots, Store(t)
  PROVE  OwnGenuine(t)
  <1> DEFINE u == UrlOf(t)
             v == resp[t].version
             next == [rec[t] EXCEPT !.bytes = @ + 1]
  <1>u. u \in Urls  BY SlotParts
  <1>1. pc[t] = "store" /\ pc[t] \in Writing /\ resp' = resp /\ gen' = gen
    BY DEF Store, Writing
  <1>2. Save(t, next, Put(chunks[u], rec[t].bytes + 1, v), "body", "ok")  BY DEF Store
  <1>3. /\ next.complete = rec[t].complete /\ next.sha256 = rec[t].sha256
        /\ next.sizeBytes = rec[t].sizeBytes /\ next.validator = rec[t].validator
    BY DEF Typed, VariablesTyped, AssetRecord
  <1> HIDE DEF next
  <1>4. CASE UNCHANGED <<files, chunks>> /\ pc' = [pc EXCEPT ![t] = "closing"]
    BY <1>4, LeaveGenuine DEF Writing, Typed, VariablesTyped
  <1>5. CASE /\ gen[t] = files[u].gen /\ rec[t] = files[u] /\ files'[u] = next
             /\ chunks'[u] = Put(chunks[u], rec[t].bytes + 1, v)
             /\ rec'[t] = next /\ pc'[t] = "body"
    <2>1. /\ Compatible(rec[t], u) /\ resp[t].validator \in {v, NoTag}
          /\ rec[t].bytes < Length[v]
          /\ Manifest[u].sha256 = NoSha => /\ rec[t].validator = resp[t].validator
                                           /\ BeginningOf(v, chunks[u], rec[t].sizeBytes)
      BY <1>1, <1>5 DEF AllGenuine, Genuine, Accepted
    <2>2. /\ chunks[u] \in Seq(Versions) /\ Len(chunks[u]) = rec[t].bytes /\ v \in Versions
      BY <1>u, <1>1, <1>5 DEF Typed, VariablesTyped, ChunksCounted, ResponseHeld, Responses
    <2>3. chunks'[u] = Append(chunks[u], v)
      BY <1>5, <2>2, PutAppends
    <2>4. Manifest[u].sha256 = NoSha => BeginningOf(v, chunks'[u], next.sizeBytes)
      BY <1>3, <2>1, <2>2, <2>3, LongerBeginning
    <2>5. Compatible(next, u)  BY <1>3, <2>1 DEF Compatible
    <2>6. ~next.complete
      BY <1>1, <1>3, <1>5 DEF Serial, AllAbreast, Abreast
    <2>7. FileGenuine(u)'
      BY <1>3, <1>5, <2>1, <2>4, <2>6 DEF FileGenuine
    <2>8. Genuine(t)'
      BY <1>1, <1>3, <1>5, <2>1, <2>4, <2>5 DEF Genuine, Accepted
    <2> QED BY <2>7, <2>8 DEF OwnGenuine
  <1> QED BY <1>1, <1>2, <1>4, <1>5, SaveSerial

LEMMA FinalizeGenuine ==
  ASSUME Typed, AllGenuine, NEW t \in Slots, Finalize(t)
  PROVE  OwnGenuine(t)
  <1> DEFINE u == UrlOf(t)
  <1>u. u \in Urls  BY SlotParts
  <1>1. pc[t] = "finalize" /\ UNCHANGED <<files, chunks, rec, hash, gen>>  BY DEF Finalize
  <1>2. FileGenuine(u)'  BY <1>u, <1>1 DEF AllGenuine, FileGenuine, BeginningOf
  <1>3. CASE \E o : End(t, o)
    BY <1>1, <1>3, EndGenuine
  <1>4. CASE GoTo(t, "discard")
    <2>1. pc'[t] = "discard"  BY <1>4 DEF GoTo, Typed, VariablesTyped
    <2>2. Genuine(t)'  BY <2>1 DEF Genuine, Accepted
    <2> QED BY <1>2, <2>2 DEF OwnGenuine
  <1>5. CASE GoTo(t, "publish") /\ ~DigestDiffers(t)
    <2>1. pc'[t] = "publish"  BY <1>5 DEF GoTo, Typed, VariablesTyped
    <2>2. Genuine(t)'
      BY <1>1, <1>5, <2>1 DEF AllGenuine, Genuine, Accepted, Writing, DigestDiffers
    <2> QED BY <1>2, <2>2 DEF OwnGenuine
  <1> QED BY <1>3, <1>4, <1>5 DEF Finalize

\* A file is published with the length and the digest the registry asks for.
LEMMA PublishGenuine ==
  ASSUME Typed, Fenced, Serial, AllGenuine, NEW t \in Slots, Publish(t)
  PROVE  OwnGenuine(t)
  <1> DEFINE u == UrlOf(t)
             next == [rec[t] EXCEPT !.complete = TRUE, !.sha256 = hash[t]]
  <1>u. u \in Urls  BY SlotParts
  <1>1. pc[t] = "publish" /\ pc[t] \in Writing  BY DEF Publish, Writing
  <1>2. Save(t, next, chunks[u], "closing", "ok")  BY DEF Publish
  <1>3. next.complete /\ next.sizeBytes = rec[t].sizeBytes
    BY DEF Typed, VariablesTyped, AssetRecord
  <1> HIDE DEF next
  <1>4. CASE UNCHANGED <<files, chunks>> /\ pc' = [pc EXCEPT ![t] = "closing"]
    BY <1>4, LeaveGenuine DEF Writing, Typed, VariablesTyped
  <1>5. CASE gen[t] = files[u].gen /\ files'[u] = next /\ pc'[t] = "closing"
    <2>1. Compatible(rec[t], u)
      BY <1>1, <1>5 DEF AllGenuine, Genuine, Accepted
    <2>2. FileGenuine(u)'
      BY <1>3, <1>5, <2>1 DEF FileGenuine, Compatible
    <2>3. Genuine(t)'  BY <1>5 DEF Genuine, Writing
    <2> QED BY <2>2, <2>3 DEF OwnGenuine
  <1> QED BY <1>1, <1>2, <1>4, <1>5, SaveSerial

LEMMA StepGenuine ==
  ASSUME HasLocks, RegistryIsSound, Typed, Fenced, Serial, AllGenuine, NEW t \in Slots, Step(t)
  PROVE  AllGenuine'
  <1>p. \A s \in Slots : UrlOf(s) \in Urls  BY SlotParts
  <1>1. OwnGenuine(t)
    <2>1. CASE Lock(t)
      BY <2>1, LeaveGenuine DEF Lock, GoTo, Writing, Typed, VariablesTyped
    <2>2. CASE LockAborted(t)  BY <2>2, EndGenuine DEF LockAborted
    <2>3. CASE Fail(t)  BY <2>3, EndGenuine DEF Fail
    <2> QED
      BY <2>1, <2>2, <2>3, StatGenuine, ResetGenuine, RehashGenuine, RespondGenuine, HeaderGenuine,
         ReceiveGenuine, StoreGenuine, FinalizeGenuine, PublishGenuine DEF Step, Work
  <1>2. ASSUME NEW s \in Slots PROVE Genuine(s)'
    <2>1. CASE s = t  BY <1>1, <2>1 DEF OwnGenuine
    <2>2. CASE s # t /\ pc[s] \in Writing
      <3>1. /\ files'[UrlOf(s)] = files[UrlOf(s)] /\ chunks'[UrlOf(s)] = chunks[UrlOf(s)]
            /\ pc'[s] = pc[s] /\ rec'[s] = rec[s] /\ hash'[s] = hash[s]
            /\ resp'[s] = resp[s] /\ gen' = gen
        BY <2>2, OthersUndisturbed
      <3>2. Genuine(s)  BY DEF AllGenuine
      <3> QED BY <3>1, <3>2 DEF Genuine, BeginningOf
    <2>3. CASE s # t /\ pc[s] \notin Writing
      <3>1. pc'[s] = pc[s]  BY <2>3, StepFrame DEF Typed
      <3> QED BY <2>3, <3>1 DEF Genuine
    <2> QED BY <2>1, <2>2, <2>3
  <1>3. ASSUME NEW w \in Urls PROVE FileGenuine(w)'
    <2>1. CASE w = UrlOf(t)  BY <1>1, <2>1 DEF OwnGenuine
    <2>2. CASE w # UrlOf(t)
      <3>1. files'[w] = files[w] /\ chunks'[w] = chunks[w]
        BY <2>2, StepFrame DEF Typed
      <3> QED BY <3>1 DEF AllGenuine, FileGenuine, BeginningOf
    <2> QED BY <2>1, <2>2
  <1> QED BY <1>2, <1>3 DEF AllGenuine

LEMMA NextGenuine ==
  HasLocks /\ RegistryIsSound /\ Typed /\ Fenced /\ Serial /\ AllGenuine /\ [TransferNext]_tvars
    => AllGenuine'
  <1> SUFFICES ASSUME HasLocks, RegistryIsSound, Typed, Fenced, Serial, AllGenuine, [TransferNext]_tvars
               PROVE  AllGenuine'
    OBVIOUS
  <1>p. \A s \in Slots : UrlOf(s) \in Urls  BY SlotParts
  <1>1. ASSUME NEW t \in Slots, Step(t) PROVE AllGenuine'
    BY <1>1, StepGenuine
  <1>2. ASSUME UNCHANGED <<files, chunks>>,
               \A s \in Slots : pc'[s] \in Writing =>
                 /\ pc'[s] = pc[s] /\ gen'[s] = gen[s] /\ rec'[s] = rec[s]
                 /\ hash'[s] = hash[s] /\ resp'[s] = resp[s]
        PROVE  AllGenuine'
    <2>1. \A w \in Urls : FileGenuine(w)'
      BY <1>2 DEF AllGenuine, FileGenuine, BeginningOf
    <2>2. ASSUME NEW s \in Slots PROVE Genuine(s)'
      <3>1. CASE pc'[s] \notin Writing  BY <3>1 DEF Genuine
      <3>2. CASE pc'[s] \in Writing
        <4>1. /\ pc'[s] = pc[s] /\ gen'[s] = gen[s] /\ rec'[s] = rec[s]
              /\ hash'[s] = hash[s] /\ resp'[s] = resp[s] /\ Genuine(s)
          BY <1>2, <3>2 DEF AllGenuine
        <4> QED BY <1>2, <4>1 DEF Genuine, BeginningOf
      <3> QED BY <3>1, <3>2
    <2> QED BY <2>1, <2>2 DEF AllGenuine
  <1>f. ASSUME NEW T \in SUBSET Slots, Free(T), UNCHANGED durable PROVE AllGenuine'
    <2>1. UNCHANGED <<files, chunks>>  BY <1>f DEF durable
    <2>2. \A s \in Slots : pc'[s] \in Writing =>
            /\ pc'[s] = pc[s] /\ gen'[s] = gen[s] /\ rec'[s] = rec[s]
            /\ hash'[s] = hash[s] /\ resp'[s] = resp[s]
      BY <1>f DEF Free, Writing
    <2> QED BY <2>1, <2>2, <1>2
  <1>3. ASSUME NEW t \in Slots, Settle(t) PROVE AllGenuine'
    BY <1>3, <1>f DEF Settle
  <1>4. ASSUME NEW tab \in Tabs, Crash(tab) PROVE AllGenuine'
    BY <1>4, <1>f DEF Crash
  <1>5. ASSUME NEW t \in Slots, NEW g \in 0 .. MaxGen, NEW S \in SUBSET Slots, Begin(t, g, S)
        PROVE  AllGenuine'
    <2>1. UNCHANGED <<files, chunks, rec, hash, resp>>  BY <1>5 DEF Begin
    <2>2. \A s \in Slots : pc'[s] \in Writing => pc'[s] = pc[s] /\ gen'[s] = gen[s]
      BY <1>5 DEF Begin, Writing, Typed, VariablesTyped
    <2> QED BY <2>1, <2>2, <1>2
  <1>6. ASSUME UNCHANGED <<files, chunks, pc, gen, rec, hash, resp>> PROVE AllGenuine'
    BY <1>6, <1>2
  <1>7. CASE Delete
    <2>0. UNCHANGED <<pc, gen, rec, hash, resp>>  BY <1>7 DEF Delete
    <2>1. ASSUME NEW w \in Urls PROVE FileGenuine(w)'
      <3>1. CASE w \in Private
        <4>1. ~files'[w].complete /\ files'[w].validator = NoTag
          BY <1>7, <3>1 DEF Delete, EmptyRecord
        <4> QED BY <4>1 DEF FileGenuine
      <3>2. CASE w \notin Private
        <4>1. files'[w] = files[w] /\ chunks'[w] = chunks[w]
          BY <1>7, <3>2 DEF Delete
        <4> QED BY <4>1 DEF AllGenuine, FileGenuine, BeginningOf
      <3> QED BY <3>1, <3>2
    <2>2. ASSUME NEW s \in Slots PROVE Genuine(s)'
      <3>1. CASE UrlOf(s) \in Private
        <4>1. files'[UrlOf(s)].gen = files[UrlOf(s)].gen + 1
          BY <1>7, <1>p, <3>1 DEF Delete, EmptyRecord
        <4>2. gen[s] <= files[UrlOf(s)].gen /\ gen[s] \in Nat /\ files[UrlOf(s)].gen \in Nat
          BY <1>p DEF Fenced, Typed, VariablesTyped, AssetRecord
        <4> QED BY <2>0, <4>1, <4>2 DEF Genuine
      <3>2. CASE UrlOf(s) \notin Private
        <4>1. files'[UrlOf(s)] = files[UrlOf(s)] /\ chunks'[UrlOf(s)] = chunks[UrlOf(s)]
          BY <1>7, <1>p, <3>2 DEF Delete
        <4>2. Genuine(s)  BY DEF AllGenuine
        <4> QED BY <2>0, <4>1, <4>2 DEF Genuine, BeginningOf
      <3> QED BY <3>1, <3>2
    <2> QED BY <2>1, <2>2 DEF AllGenuine
  <1> QED
    BY <1>1, <1>3, <1>4, <1>5, <1>6, <1>7 DEF TransferNext, Replaceable, Abortable, Abort, tvars

----------------------------------------------------------------------------
(* The refinement. *)

Gens == [u \in Urls |-> files[u].gen]
InstalledFiles == [u \in Urls |-> IF files[u].complete THEN <<chunks[u]>> ELSE <<>>]

\* A step that writes one file, and stays in its generation.
OnlyFile(u) ==
  /\ files'[u].gen = files[u].gen
  /\ \A w \in Urls \ {u} : files'[w] = files[w] /\ chunks'[w] = chunks[w]

LEMMA StoreUntouched ==
  ASSUME UNCHANGED <<files, chunks>>
  PROVE  UNCHANGED <<Gens, InstalledFiles>>
  BY DEF Gens, InstalledFiles

LEMMA FileUnfinished ==
  ASSUME NEW u \in Urls, OnlyFile(u), ~files[u].complete, ~files'[u].complete
  PROVE  UNCHANGED <<Gens, InstalledFiles>>
  BY DEF Gens, InstalledFiles, OnlyFile

LEMMA FileInstalled ==
  ASSUME NEW u \in Urls, OnlyFile(u), ~files[u].complete, files'[u].complete,
         NEW v \in Versions, chunks'[u] = Content(v),
         Manifest[u].sha256 = NoSha \/ Content(v) = Manifest[u].sha256
  PROVE  Registry!Install(u)
  <1>1. Gens' = Gens  BY DEF Gens, OnlyFile
  <1>2. InstalledFiles[u] = <<>>  BY DEF InstalledFiles
  <1>3. InstalledFiles' = [InstalledFiles EXCEPT ![u] = <<Content(v)>>]
    BY DEF InstalledFiles, OnlyFile
  <1>4. Registry!Acceptable(Content(v), u)
    BY DEF Registry!Acceptable, Registry!Content, Registry!NoSha, Content, NoSha
  <1> QED
    BY <1>1, <1>2, <1>3, <1>4 DEF Registry!Install, Registry!Content, Content, Gens, InstalledFiles

LEMMA FileWithdrawn ==
  ASSUME NEW u \in Urls, OnlyFile(u), files[u].complete, ~files'[u].complete,
         Manifest[u].sha256 # NoSha, chunks[u] # Manifest[u].sha256
  PROVE  Registry!Withdraw(u)
  <1>1. Gens' = Gens  BY DEF Gens, OnlyFile
  <1>2. InstalledFiles[u] = <<chunks[u]>> /\ InstalledFiles[u] # <<>> /\ InstalledFiles[u][1] = chunks[u]
    BY DEF InstalledFiles
  <1>3. InstalledFiles' = [InstalledFiles EXCEPT ![u] = <<>>]
    BY DEF InstalledFiles, OnlyFile
  <1>4. ~Registry!Acceptable(chunks[u], u)
    BY DEF Registry!Acceptable, Registry!NoSha, NoSha
  <1> QED BY <1>1, <1>2, <1>3, <1>4 DEF Registry!Withdraw, Gens, InstalledFiles

LEMMA InitRefines == TransferInit => Registry!Init
  <1> SUFFICES ASSUME TransferInit PROVE Registry!Init  OBVIOUS
  <1>1. PICK f \in [Urls -> UNION {InitFile(w) : w \in Urls}] :
          files = [w \in Urls |-> f[w][1]] /\ chunks = [w \in Urls |-> f[w][2]]
    BY DEF TransferInit
  <1>2. ASSUME NEW u \in Urls
        PROVE  /\ files[u].gen = 0
               /\ files[u].complete => chunks[u] \in StaleFiles
    <2>1. CASE f[u] = <<EmptyRecord(0), <<>> >>
      BY <1>1, <2>1 DEF EmptyRecord
    <2>2. ASSUME NEW c \in StaleFiles,
                 f[u] = <<[EmptyRecord(0) EXCEPT !.bytes = Len(c), !.complete = TRUE,
                                                 !.sha256 = c, !.sizeBytes = Len(c)], c>>
          PROVE  files[u].gen = 0 /\ chunks[u] \in StaleFiles
      <3> DEFINE r == [EmptyRecord(0) EXCEPT !.bytes = Len(c), !.complete = TRUE,
                                             !.sha256 = c, !.sizeBytes = Len(c)]
      <3>1. r.gen = 0  BY DEF EmptyRecord
      <3>2. f[u][1] = r /\ f[u][2] = c
        <4> HIDE DEF r
        <4> QED BY <2>2 DEF r
      <3>3. files[u] = r /\ chunks[u] = c  BY <1>1, <3>2
      <3> HIDE DEF r
      <3> QED BY <3>1, <3>3
    <2> QED BY <1>1, <2>1, <2>2 DEF InitFile
  <1>3. Gens = [u \in Urls |-> 0]  BY <1>2 DEF Gens
  <1>4. InstalledFiles \in [Urls -> {<<>>} \cup {<<c>> : c \in StaleFiles}]
    BY <1>2 DEF InstalledFiles
  <1> QED BY <1>3, <1>4 DEF Registry!Init, Gens, InstalledFiles

\* A step of a transfer installs its file, withdraws it, or is not seen.
LEMMA StepRefines ==
  ASSUME HasLocks, RegistryIsSound, Typed, Fenced, Serial, AllGenuine, NEW t \in Slots, Step(t)
  PROVE  UNCHANGED <<Gens, InstalledFiles>> \/ Registry!Next
  <1> DEFINE u == UrlOf(t)
  <1>u. u \in Urls  BY SlotParts
  <1>n. Registry!Install(u) \/ Registry!Withdraw(u) => Registry!Next
    BY <1>u DEF Registry!Next
  <1>f. UNCHANGED <<files, chunks>> \/ (pc[t] \in Writing /\ gen[t] = files[u].gen /\ OnlyFile(u))
    BY StepSaves, StepFrame DEF Typed, OnlyFile
  <1>r. gen[t] = files[u].gen /\ pc[t] \in Writing =>
          rec[t] = files[u] /\ (pc[t] # "reset" => ~files[u].complete)
    BY DEF Serial, AllAbreast, Abreast
  <1>0. CASE UNCHANGED <<files, chunks>>
    BY <1>0, StoreUntouched
  <1>1. CASE Reset(t)
    <2> DEFINE next == ResetRecord(gen[t], u)
    <2>1. pc[t] \in {"reset", "restart", "discard"} /\ pc[t] \in Writing
      BY <1>1 DEF Reset, Writing
    <2>2. PICK p, o : Save(t, next, <<>>, p, o)
      BY <1>1 DEF Reset
    <2>3. ~next.complete /\ next.gen = gen[t]
      BY DEF ResetRecord, EmptyRecord
    <2> HIDE DEF next
    <2>4. CASE gen[t] = files[u].gen /\ rec[t] = files[u] /\ files'[u] = next
      <3>1. OnlyFile(u)
        BY <1>1, <2>3, <2>4, StepFrame DEF Typed, OnlyFile, Step, Work
      <3>2. CASE ~files[u].complete
        BY <1>u, <2>3, <2>4, <3>1, <3>2, FileUnfinished
      <3>3. CASE files[u].complete
        <4>1. ~Compatible(files[u], u)
          BY <1>r, <2>1, <2>4, <3>3 DEF AllGenuine, Genuine
        <4>2. Manifest[u].sha256 # NoSha
          BY <1>u, <4>1 DEF Compatible, RegistryIsSound
        <4>3. files[u].sha256 # Manifest[u].sha256
          BY <1>u, <3>3, <4>1, <4>2 DEF AllGenuine, FileGenuine, Compatible
        <4>4. chunks[u] = files[u].sha256
          BY <1>u, <3>3 DEF Serial, CompleteIsIntact
        <4>5. Registry!Withdraw(u)
          BY <1>u, <2>3, <2>4, <3>1, <3>3, <4>2, <4>3, <4>4, FileWithdrawn
        <4> QED BY <4>5, <1>n
      <3> QED BY <3>2, <3>3
    <2> QED BY <1>0, <2>1, <2>2, <2>4, SaveSerial
  <1>2. CASE Header(t) \/ Store(t)
    <2>1. CASE /\ gen[t] = files[u].gen /\ rec[t] = files[u] /\ pc[t] \in Writing
               /\ pc[t] # "reset" /\ files'[u].complete = rec[t].complete /\ OnlyFile(u)
      BY <1>u, <1>r, <2>1, FileUnfinished
    <2>2. pc[t] \in Writing /\ pc[t] # "reset"
      BY <1>2 DEF Header, Store, Writing
    <2>3. ASSUME NEW next, NEW content, Save(t, next, content, "body", "ok"),
                 next.complete = rec[t].complete
          PROVE  UNCHANGED <<files, chunks>> \/
                 (gen[t] = files[u].gen /\ rec[t] = files[u] /\ files'[u].complete = rec[t].complete)
      BY <2>2, <2>3, SaveSerial
    <2>4. CASE Store(t)
      <3>1. [rec[t] EXCEPT !.bytes = @ + 1].complete = rec[t].complete
        BY DEF Typed, VariablesTyped, AssetRecord
      <3> QED BY <1>0, <1>f, <2>1, <2>2, <2>3, <2>4, <3>1 DEF Store
    <2>5. CASE Header(t)
      <3>1. \A n, v : [rec[t] EXCEPT !.sizeBytes = n, !.validator = v].complete = rec[t].complete
        BY DEF Typed, VariablesTyped, AssetRecord
      <3>2. CASE UNCHANGED <<files, chunks>>  BY <1>0, <3>2
      <3>3. CASE \E n, v : Save(t, [rec[t] EXCEPT !.sizeBytes = n, !.validator = v],
                                chunks[u], "body", "ok")
        BY <1>0, <1>f, <2>1, <2>2, <2>3, <3>1, <3>3
      <3> QED BY <2>5, <3>2, <3>3 DEF Header
    <2> QED BY <1>2, <2>4, <2>5
  <1>3. CASE Publish(t)
    <2> DEFINE next == [rec[t] EXCEPT !.complete = TRUE, !.sha256 = hash[t]]
    <2>1. pc[t] = "publish" /\ pc[t] \in Writing /\ pc[t] \in Hashed
      BY <1>3 DEF Publish, Writing, Hashed
    <2>2. Save(t, next, chunks[u], "closing", "ok")  BY <1>3 DEF Publish
    <2>3. next.complete /\ next.gen = rec[t].gen
      BY DEF Typed, VariablesTyped, AssetRecord
    <2> HIDE DEF next
    <2>4. CASE gen[t] = files[u].gen /\ rec[t] = files[u] /\ files'[u] = next /\ chunks'[u] = chunks[u]
      <3>1. OnlyFile(u)
        BY <1>3, <2>3, <2>4, StepFrame DEF Typed, OnlyFile, Step, Work
      <3>2. hash[t] = chunks[u]
        BY <2>1, <2>4 DEF Serial, AllAbreast, Abreast
      <3>3. PICK v \in Versions : /\ chunks[u] = Content(v)
                                  /\ Manifest[u].sha256 = NoSha \/ Content(v) = Manifest[u].sha256
        <4>1. CASE Manifest[u].sha256 = NoSha
          BY <2>1, <2>4, <4>1 DEF AllGenuine, Genuine
        <4>2. CASE Manifest[u].sha256 # NoSha
          <5>1. chunks[u] = Manifest[u].sha256
            BY <2>1, <2>4, <3>2, <4>2 DEF AllGenuine, Genuine
          <5> QED BY <1>u, <4>2, <5>1 DEF RegistryIsSound
        <4> QED BY <4>1, <4>2
      <3>4. Registry!Install(u)
        BY <1>u, <1>r, <2>1, <2>3, <2>4, <3>1, <3>3, FileInstalled
      <3> QED BY <3>4, <1>n
    <2> QED BY <1>0, <2>1, <2>2, <2>4, SaveSerial
  <1>4. CASE ~(Reset(t) \/ Header(t) \/ Store(t) \/ Publish(t))
    BY <1>0, <1>4 DEF Step, Work, Lock, LockAborted, Stat, Rehash, Respond, Receive, Finalize, Fail
  <1> QED BY <1>1, <1>2, <1>3, <1>4

LEMMA NextRefines ==
  HasLocks /\ RegistryIsSound /\ Typed /\ Fenced /\ Serial /\ AllGenuine /\ [TransferNext]_tvars
    => [Registry!Next]_<<Gens, InstalledFiles>>
  <1> SUFFICES ASSUME HasLocks, RegistryIsSound, Typed, Fenced, Serial, AllGenuine, [TransferNext]_tvars
               PROVE  Registry!Next \/ UNCHANGED <<Gens, InstalledFiles>>
    OBVIOUS
  <1>1. ASSUME NEW t \in Slots, Step(t) PROVE Registry!Next \/ UNCHANGED <<Gens, InstalledFiles>>
    BY <1>1, StepRefines
  <1>2. CASE UNCHANGED <<files, chunks>>
    BY <1>2, StoreUntouched
  <1>3. CASE Delete
    <2>1. Gens' = [u \in Urls |-> IF u \in Private THEN Gens[u] + 1 ELSE Gens[u]]
      BY <1>3 DEF Delete, Gens, EmptyRecord
    <2>2. InstalledFiles' = [u \in Urls |-> IF u \in Private THEN <<>> ELSE InstalledFiles[u]]
      BY <1>3 DEF Delete, InstalledFiles, EmptyRecord
    <2>3. Registry!Remove
      BY <2>1, <2>2 DEF Registry!Remove, Gens, InstalledFiles
    <2> QED BY <2>3 DEF Registry!Next
  <1> QED
    BY <1>1, <1>2, <1>3
    DEF TransferNext, Replaceable, Abortable, Abort, Begin, Settle, Crash, durable, tvars

\* Where the browser has Web Locks, and for a sound manifest, a reader of the
\* asset store sees what the abstract registry allows: whichever tabs download,
\* resume, restart, delete or close, a file appears whole and acceptable, an
\* installed file is withdrawn only because the registry no longer accepts it,
\* and never as the splice of two versions.
THEOREM LocksRefineRegistry ==
  HasLocks /\ RegistryIsSound => (TransferSpec => RefinesRegistry)
  <1> SUFFICES ASSUME HasLocks, RegistryIsSound PROVE TransferSpec => RefinesRegistry
    OBVIOUS
  <1>1. TransferInit => AllGenuine /\ Registry!Init
    BY InitGenuine, InitRefines
  <1>2. Typed /\ Fenced /\ Serial /\ AllGenuine /\ [TransferNext]_tvars => AllGenuine'
    BY NextGenuine
  <1>3. Typed /\ Fenced /\ Serial /\ AllGenuine /\ [TransferNext]_tvars
          => [Registry!Next]_<<Gens, InstalledFiles>>
    BY NextRefines
  <1>4. TransferSpec => [](Typed /\ Fenced) /\ []Serial
    BY TransferFenced, TransferSerial
  <1> QED
    BY <1>1, <1>2, <1>3, <1>4, PTL DEF TransferSpec, RefinesRegistry, Registry!Spec, Gens, InstalledFiles

-----------------------------------------------------------------------------
(***************************************************************************)
(* The downloads of a model, for any number of tabs, calls, files and      *)
(* deletions: what the calls of every tab start, share, replace and abort  *)
(* are the transfers of AssetTransfer, so that what is proved of these     *)
(* holds for the manager, and transfers live exactly as long as a call     *)
(* listens.                                                                *)
(***************************************************************************)

\* The call has read the generation of the file, and it is not ahead of it.
Noted(c, u) == captured[c][u] \in Nat /\ captured[c][u] <= files[u].gen

Captured == {"persist", "verify", "join", "reverify", "ready"}

Generations ==
  /\ \A u \in Urls : files[u].gen <= MaxGen
  /\ \A c \in Callers, u \in Urls :
       /\ captured[c][u] = None \/ Noted(c, u)
       /\ call[c] \in Captured => Noted(c, u)
       /\ join[c][u] # "none" => Noted(c, u)

\* The map of a tab holds transfers of that tab, each under its file, until
\* they settle.
MapHolds(tab, u) ==
  transfers[tab][u] # None =>
    /\ transfers[tab][u] \in Slots
    /\ TabOf(transfers[tab][u]) = tab /\ UrlOf(transfers[tab][u]) = u
    /\ Alive(transfers[tab][u])
MapHeld == \A tab \in Tabs, u \in Urls : MapHolds(tab, u)

Managed == Typed /\ Fenced /\ ManagerTypeOK /\ Generations /\ MapHeld

LEMMA InitManaged == ManagerInit => Managed
  <1> SUFFICES ASSUME ManagerInit PROVE Managed  OBVIOUS
  <1>1. TransferInit  BY DEF ManagerInit
  <1>2. Typed /\ Fenced  BY <1>1, InitTyped, InitFenced
  <1>3. ManagerTypeOK
    <2>1. TransferTypeOK  BY <1>1, <1>2, InitLocks DEF Typed, TransferTypeOK
    <2> QED BY <2>1 DEF ManagerInit, ManagerTypeOK, NoSlot, NoJoin, CallStates, JoinStates
  <1>4. \A u \in Urls : files[u].gen = 0
    BY <1>1, InitRefines DEF Registry!Init
  <1>5. Generations
    BY <1>4, TransferAssumption DEF ManagerInit, Generations, Captured, NoSlot, NoJoin
  <1>6. MapHeld
    BY DEF ManagerInit, MapHeld, MapHolds, NoSlot
  <1> QED BY <1>2, <1>3, <1>5, <1>6 DEF Managed

----------------------------------------------------------------------------
(* Every step of the manager is one of the transfers, or moves none of them. *)

\* Aborting what is over, or aborted already, changes nothing.
LEMMA AbortIsAbort ==
  ASSUME VariablesTyped, NEW S, Abort(S)
  PROVE  TransferNext
  <1> DEFINE T == Abortable \cap S
  <1>1. T \in SUBSET Abortable  OBVIOUS
  <1>2. \A s \in Slots : aborted[s] \/ (s \in S /\ Alive(s)) <=> aborted[s] \/ (s \in T /\ Alive(s))
    BY DEF Abortable
  <1>3. [s \in Slots |-> aborted[s] \/ (s \in S /\ Alive(s))]
          = [s \in Slots |-> aborted[s] \/ (s \in T /\ Alive(s))]
    BY <1>2
  <1>4. Abort(T)  BY <1>3 DEF Abort
  <1> QED BY <1>1, <1>4 DEF TransferNext

LEMMA CreateBegins ==
  ASSUME Managed, NEW c \in Callers, NEW u \in Urls, Create(c, u)
  PROVE  TransferNext
  <1> DEFINE tab == CallerTab[c]
             t == transfers[tab][u]
  <1>1. tab \in Tabs  BY ManagerAssumption
  <1>2. PICK n \in 1 .. SlotsPerUrl : Begin(<<tab, u, n>>, captured[c][u], Replaced(t))
    BY DEF Create
  <1> DEFINE s == <<tab, u, n>>
             S == {r \in Replaced(t) : ~aborted[r]}
  <1>3. s \in Slots /\ TabOf(s) = tab /\ UrlOf(s) = u
    BY <1>1 DEF Slots, TabOf, UrlOf
  <1>4. \A r \in Replaced(t) : r \in Slots /\ TabOf(r) = tab /\ UrlOf(r) = u /\ Alive(r)
    BY <1>1 DEF Managed, MapHeld, MapHolds, Replaced
  <1>5. S \in SUBSET Replaceable(s)
    BY <1>3, <1>4 DEF Replaceable, Abortable
  <1>6. captured[c][u] \in 0 .. MaxGen
    <2>1. Noted(c, u)  BY DEF Create, Managed, Generations
    <2>2. files[u].gen \in Nat /\ files[u].gen <= MaxGen /\ MaxGen \in Nat
      BY TransferAssumption DEF Managed, Typed, VariablesTyped, AssetRecord, Generations
    <2> QED BY <2>1, <2>2 DEF Noted
  <1>7. Begin(s, captured[c][u], S)
    <2>1. \A r \in Slots : r # s /\ (aborted[r] \/ r \in Replaced(t)) <=> r # s /\ (aborted[r] \/ r \in S)
      OBVIOUS
    <2>2. [r \in Slots |-> r # s /\ (aborted[r] \/ r \in Replaced(t))]
            = [r \in Slots |-> r # s /\ (aborted[r] \/ r \in S)]
      BY <2>1
    <2> QED BY <1>2, <2>2 DEF Begin
  <1> QED BY <1>3, <1>5, <1>6, <1>7 DEF TransferNext

LEMMA ManagerStepsTransfer == Managed /\ [ManagerNext]_vars => [TransferNext]_tvars
  <1> SUFFICES ASSUME Managed, [ManagerNext]_vars PROVE TransferNext \/ UNCHANGED tvars
    OBVIOUS
  <1>t. VariablesTyped  BY DEF Managed, Typed
  <1>1. ASSUME NEW c \in Callers, Start(c) \/ Cancel(c) \/ Persisted(c) \/ Poll(c)
        PROVE  UNCHANGED tvars
    BY <1>1 DEF Start, Cancel, Persisted, Poll
  <1>2. ASSUME NEW c \in Callers, Reject(c) PROVE TransferNext
    BY <1>2, <1>t, AbortIsAbort DEF Reject
  <1>3. ASSUME NEW c \in Callers, Advance(c) \/ StorageFails(c)
        PROVE  TransferNext \/ UNCHANGED tvars
    <2>1. CASE Rejected(c) \/ StorageFails(c)
      BY <1>2, <2>1 DEF Rejected, StorageFails
    <2>2. CASE Downloaded(c) \/ \E u \in Urls : Capture(c, u) \/ Verify(c, u)
      BY <2>2 DEF Downloaded, Capture, Verify
    <2>3. CASE \E u \in Urls : JoinDropped(c, u) \/ Join(c, u)
      BY <2>3 DEF JoinDropped, Join
    <2>4. CASE \E u \in Urls : Create(c, u)
      BY <2>4, CreateBegins
    <2> QED BY <1>3, <2>1, <2>2, <2>3, <2>4 DEF Advance
  <1>4. ASSUME NEW t \in Slots, TransferStep(t) \/ Settled(t) PROVE TransferNext
    BY <1>4 DEF TransferStep, Settled, TransferNext
  <1>5. ASSUME NEW tab \in Tabs, DeleteModel(tab) \/ Deletion(tab) \/ CloseTab(tab)
        PROVE  TransferNext \/ UNCHANGED tvars
    <2>1. CASE DeleteModel(tab)  BY <1>t, <2>1, AbortIsAbort DEF DeleteModel
    <2>2. CASE Deletion(tab)     BY <2>2 DEF Deletion, DeleteCommit, DeleteSettled, TransferNext
    <2>3. CASE CloseTab(tab)     BY <2>3 DEF CloseTab, TransferNext
    <2> QED BY <1>5, <2>1, <2>2, <2>3
  <1>6. CASE UNCHANGED vars  BY <1>6 DEF vars, tvars
  <1> QED BY <1>1, <1>3, <1>4, <1>5, <1>6 DEF ManagerNext

----------------------------------------------------------------------------
(* The invariant of the manager. *)

LEMMA GensGrow ==
  ASSUME Typed, Fenced, \A u \in Urls : files[u].gen <= MaxGen, [TransferNext]_tvars
  PROVE  \A u \in Urls : /\ files[u].gen \in Nat /\ files'[u].gen \in Nat
                         /\ files[u].gen <= files'[u].gen /\ files'[u].gen <= MaxGen
  <1>1. Typed'  BY NextTyped
  <1>2. \A u \in Urls : files[u].gen \in Nat /\ files'[u].gen \in Nat
    BY <1>1 DEF Typed, VariablesTyped, AssetRecord
  <1>3. CASE \A u \in Urls : files'[u].gen = files[u].gen
    BY <1>2, <1>3
  <1>4. ASSUME NEW t \in Slots, Step(t) PROVE \A u \in Urls : files'[u].gen = files[u].gen
    BY <1>4, StepSaves, StepFrame DEF Typed
  <1>5. CASE Delete
    <2>1. \A u \in Private : files[u].gen + 1 <= MaxGen
      BY <1>2, <1>5, StoreAssumption, TransferAssumption DEF Delete
    <2> QED BY <1>2, <1>5, <2>1 DEF Delete, EmptyRecord
  <1>6. CASE UNCHANGED <<files, chunks>>
    BY <1>3, <1>6
  <1> QED
    BY <1>3, <1>4, <1>5, <1>6
    DEF TransferNext, Replaceable, Abortable, Abort, Begin, Settle, Crash, durable, tvars

\* Where a call stands is one of its states, what it awaits one of the slots.
LEMMA ManagerTyped == Managed /\ [ManagerNext]_vars => ManagerTypeOK'
  <1> SUFFICES ASSUME Managed, [ManagerNext]_vars PROVE ManagerTypeOK'
    OBVIOUS
  <1>t. TransferTypeOK'
    <2>1. [TransferNext]_tvars  BY ManagerStepsTransfer
    <2>2. Typed'  BY <2>1, NextTyped DEF Managed
    <2>3. LocksAreHeld'
      BY <2>1, LocksKept DEF Managed, ManagerTypeOK, TransferTypeOK
    <2> QED BY <2>2, <2>3 DEF Typed, TransferTypeOK
  <1> USE DEF Managed, ManagerTypeOK, CallStates, JoinStates, SetCall, SetJoin
  <1>r. ASSUME NEW c \in Callers, Reject(c) PROVE ManagerTypeOK'
    BY <1>t, <1>r DEF Reject
  <1>1. ASSUME NEW c \in Callers, Start(c) \/ Cancel(c) \/ Persisted(c) \/ Poll(c)
        PROVE  ManagerTypeOK'
    BY <1>1, <1>t DEF Start, Cancel, Persisted, Poll
  <1>2. ASSUME NEW c \in Callers, Advance(c) \/ StorageFails(c) PROVE ManagerTypeOK'
    <2>1. CASE Rejected(c) \/ StorageFails(c)
      BY <1>r, <2>1 DEF Rejected, StorageFails
    <2>2. CASE Downloaded(c)  BY <1>t, <2>2 DEF Downloaded
    <2>3. ASSUME NEW u \in Urls, Capture(c, u) PROVE ManagerTypeOK'
      BY <1>t, <2>3 DEF Capture, Typed, VariablesTyped, AssetRecord
    <2>4. ASSUME NEW u \in Urls, Verify(c, u) PROVE ManagerTypeOK'
      BY <1>t, <2>4 DEF Verify
    <2>5. ASSUME NEW u \in Urls, JoinDropped(c, u) PROVE ManagerTypeOK'
      BY <1>t, <2>5 DEF JoinDropped, JoinUnchanged
    <2>6. ASSUME NEW u \in Urls, Join(c, u) PROVE ManagerTypeOK'
      <3>1. transfers[CallerTab[c]][u] \in Slots \cup {None}  BY ManagerAssumption
      <3>2. PICK s \in JoinStates, t \in Slots \cup {None} : SetJoin(c, u, s, t)
        BY <2>6, <3>1 DEF Join
      <3> QED BY <1>t, <2>6, <3>2 DEF Join, JoinUnchanged
    <2>7. ASSUME NEW u \in Urls, Create(c, u) PROVE ManagerTypeOK'
      <3>1. PICK n \in 1 .. SlotsPerUrl :
              /\ transfers' = [transfers EXCEPT ![CallerTab[c]][u] = <<CallerTab[c], u, n>>]
              /\ SetJoin(c, u, "attached", <<CallerTab[c], u, n>>)
        BY <2>7 DEF Create
      <3>2. <<CallerTab[c], u, n>> \in Slots  BY ManagerAssumption DEF Slots
      <3>3. transfers' \in [Tabs -> [Urls -> Slots \cup {None}]]
        BY <3>1, <3>2
      <3>4. join' \in [Callers -> [Urls -> JoinStates]] /\ joined' \in [Callers -> [Urls -> Slots \cup {None}]]
        BY <3>1, <3>2
      <3> QED BY <1>t, <2>7, <3>3, <3>4 DEF Create, JoinUnchanged
    <2> QED BY <1>2, <2>1, <2>2, <2>3, <2>4, <2>5, <2>6, <2>7 DEF Advance
  <1>3. ASSUME NEW t \in Slots, TransferStep(t) \/ Settled(t) PROVE ManagerTypeOK'
    <2>1. CASE TransferStep(t)  BY <1>t, <2>1 DEF TransferStep, mvars
    <2>2. CASE Settled(t)  BY <1>t, <2>2, SlotParts DEF Settled, JoinUnchanged, JoinResult
    <2> QED BY <1>3, <2>1, <2>2
  <1>4. ASSUME NEW tab \in Tabs, DeleteModel(tab) \/ Deletion(tab) \/ CloseTab(tab)
        PROVE  ManagerTypeOK'
    <2>1. CASE DeleteModel(tab)    BY <1>t, <2>1 DEF DeleteModel
    <2>2. CASE DeleteCommit(tab)   BY <1>t, <2>2 DEF DeleteCommit
    <2>3. CASE DeleteSettled(tab)  BY <1>t, <2>3 DEF DeleteSettled
    <2>4. CASE CloseTab(tab)       BY <1>t, <2>4 DEF CloseTab, NoSlot, NoJoin
    <2> QED BY <1>4, <2>1, <2>2, <2>3, <2>4 DEF Deletion
  <1>5. CASE UNCHANGED vars  BY <1>5, <1>t DEF vars
  <1> QED BY <1>1, <1>2, <1>3, <1>4, <1>5 DEF ManagerNext

\* A step that lets no call pass the capture of its generations.
NothingCaptured ==
  /\ captured' = captured
  /\ \A c \in Callers, u \in Urls :
       /\ call'[c] \in Captured => call[c] \in Captured
       /\ join'[c][u] # "none" => join[c][u] # "none" \/ call[c] \in Captured

LEMMA StepCaptures ==
  ASSUME Managed, [ManagerNext]_vars
  PROVE  NothingCaptured \/ \E c \in Callers, u \in Urls : Capture(c, u)
  <1> USE DEF Managed, ManagerTypeOK, SetCall, SetJoin, Captured
  <1>r. ASSUME NEW c \in Callers, Reject(c) PROVE NothingCaptured
    BY <1>r DEF Reject, NothingCaptured
  <1>1. ASSUME NEW c \in Callers, Start(c) \/ Cancel(c) \/ Persisted(c) \/ Poll(c)
        PROVE  NothingCaptured
    BY <1>1 DEF Start, Cancel, Persisted, Poll, NothingCaptured
  <1>2. ASSUME NEW c \in Callers, Advance(c) \/ StorageFails(c)
        PROVE  NothingCaptured \/ \E u \in Urls : Capture(c, u)
    <2>1. CASE Rejected(c) \/ StorageFails(c)
      BY <1>r, <2>1 DEF Rejected, StorageFails
    <2>2. CASE Downloaded(c)  BY <2>2 DEF Downloaded, NothingCaptured
    <2>4. ASSUME NEW u \in Urls, Verify(c, u) PROVE NothingCaptured
      BY <2>4 DEF Verify, NothingCaptured
    <2>5. ASSUME NEW u \in Urls, JoinDropped(c, u) PROVE NothingCaptured
      BY <2>5 DEF JoinDropped, JoinUnchanged, NothingCaptured
    <2>6. ASSUME NEW u \in Urls, Join(c, u) \/ Create(c, u) PROVE NothingCaptured
      <3>1. PICK x \in {"failed", "old", "attached"} : join' = [join EXCEPT ![c][u] = x]
        BY <2>6 DEF Join, Create
      <3>2. UNCHANGED <<call, captured>> /\ join[c][u] = "start"
        BY <2>6 DEF Join, Create, JoinUnchanged
      <3>3. \A d \in Callers, w \in Urls : join'[d][w] = join[d][w] \/ (d = c /\ w = u)
        BY <3>1
      <3> QED BY <3>2, <3>3 DEF NothingCaptured
    <2> QED BY <1>2, <2>1, <2>2, <2>4, <2>5, <2>6 DEF Advance
  <1>3. ASSUME NEW t \in Slots, TransferStep(t) \/ Settled(t) PROVE NothingCaptured
    <2>1. CASE TransferStep(t)  BY <2>1 DEF TransferStep, mvars, NothingCaptured
    <2>2. CASE Settled(t)
      <3>1. UNCHANGED <<call, captured>>  BY <2>2 DEF Settled, JoinUnchanged
      <3>2. \A c \in Callers, u \in Urls : join'[c][u] = join[c][u] \/ join[c][u] # "none"
        BY <2>2, SlotParts DEF Settled, Listeners, AwaitsCleanup
      <3> QED BY <3>1, <3>2 DEF NothingCaptured
    <2> QED BY <1>3, <2>1, <2>2
  <1>4. ASSUME NEW tab \in Tabs, DeleteModel(tab) \/ Deletion(tab) \/ CloseTab(tab)
        PROVE  NothingCaptured
    <2>1. CASE DeleteModel(tab)    BY <2>1 DEF DeleteModel, NothingCaptured
    <2>2. CASE DeleteCommit(tab)   BY <2>2 DEF DeleteCommit, NothingCaptured
    <2>3. CASE DeleteSettled(tab)  BY <2>3 DEF DeleteSettled, NothingCaptured
    <2>4. CASE CloseTab(tab)       BY <2>4 DEF CloseTab, NoJoin, NothingCaptured
    <2> QED BY <1>4, <2>1, <2>2, <2>3, <2>4 DEF Deletion
  <1>5. CASE UNCHANGED vars  BY <1>5 DEF vars, NothingCaptured
  <1> QED BY <1>1, <1>2, <1>3, <1>4, <1>5 DEF ManagerNext

LEMMA GenerationsHold == Managed /\ [ManagerNext]_vars => Generations'
  <1> SUFFICES ASSUME Managed, [ManagerNext]_vars PROVE Generations'
    OBVIOUS
  <1>g. \A u \in Urls : /\ files[u].gen \in Nat /\ files'[u].gen \in Nat
                        /\ files[u].gen <= files'[u].gen /\ files'[u].gen <= MaxGen
    BY ManagerStepsTransfer, GensGrow DEF Managed, Generations
  <1>n. ASSUME NEW c \in Callers, NEW u \in Urls, Noted(c, u), captured'[c][u] = captured[c][u]
        PROVE  Noted(c, u)'
    BY <1>g, <1>n DEF Noted
  <1>1. CASE NothingCaptured
    BY <1>g, <1>n, <1>1 DEF NothingCaptured, Managed, Generations
  <1>2. ASSUME NEW c \in Callers, NEW u \in Urls, Capture(c, u) PROVE Generations'
    <2>1. files' = files /\ join' = join  BY <1>2 DEF Capture, tvars
    <2>2. \A d \in Callers, w \in Urls : ~(d = c /\ w = u) => captured'[d][w] = captured[d][w]
      BY <1>2 DEF Capture, Managed, ManagerTypeOK
    <2>3. captured'[c][u] = files[u].gen  BY <1>2 DEF Capture, Managed, ManagerTypeOK
    <2>4. Noted(c, u)'  BY <1>g, <2>1, <2>3 DEF Noted
    <2>5. \A d \in Callers \ {c} : call'[d] = call[d]
      BY <1>2 DEF Capture, SetCall, Managed, ManagerTypeOK
    <2>6. call'[c] \in Captured => \A w \in Urls \ {u} : captured[c][w] # None
      BY <1>2 DEF Capture, SetCall, Managed, ManagerTypeOK, Captured
    <2> QED BY <1>g, <1>n, <2>1, <2>2, <2>4, <2>5, <2>6 DEF Managed, Generations
  <1> QED BY <1>1, <1>2, StepCaptures

----------------------------------------------------------------------------
(* The maps of the tabs. *)

\* Only its settlement and the end of its tab free a transfer.
LEMMA StepLives ==
  ASSUME Typed, NEW t \in Slots, Step(t), NEW s \in Slots
  PROVE  Alive(s)' <=> Alive(s)
  <1>1. CASE s # t  BY <1>1, StepFrame DEF Alive, Typed
  <1>2. CASE s = t
    BY <1>2 DEF Typed, VariablesTyped, Alive, Step, Work, Lock, LockAborted, Stat, Reset, Save, Rehash,
                Respond, Header, Receive, Store, Finalize, Publish, Fail, GoTo, End
  <1> QED BY <1>1, <1>2

LEMMA MapsHold == Managed /\ [ManagerNext]_vars => MapHeld'
  <1> SUFFICES ASSUME Managed, [ManagerNext]_vars, NEW tab \in Tabs, NEW u \in Urls
               PROVE  MapHolds(tab, u)'
    BY DEF MapHeld
  <1> USE DEF Managed, ManagerTypeOK
  <1>h. MapHolds(tab, u)  BY DEF MapHeld
  <1>1. CASE transfers'[tab][u] = transfers[tab][u] /\ \A s \in Slots : Alive(s) => Alive(s)'
    BY <1>h, <1>1 DEF MapHolds
  <1>2. CASE transfers' = transfers /\ pc' = pc
    BY <1>1, <1>2 DEF Alive
  <1>r. ASSUME NEW c \in Callers, Reject(c) PROVE MapHolds(tab, u)'
    BY <1>r, <1>2 DEF Reject, Abort
  <1>3. ASSUME NEW c \in Callers, Start(c) \/ Cancel(c) \/ Persisted(c) \/ Poll(c)
        PROVE  MapHolds(tab, u)'
    BY <1>2, <1>3 DEF Start, Cancel, Persisted, Poll, tvars
  <1>4. ASSUME NEW c \in Callers, Advance(c) \/ StorageFails(c) PROVE MapHolds(tab, u)'
    <2>1. CASE Rejected(c) \/ StorageFails(c)
      BY <1>r, <2>1 DEF Rejected, StorageFails
    <2>2. CASE Downloaded(c) \/ \E w \in Urls : Capture(c, w) \/ Verify(c, w)
      BY <1>2, <2>2 DEF Downloaded, Capture, Verify, tvars
    <2>3. CASE \E w \in Urls : JoinDropped(c, w) \/ Join(c, w)
      BY <1>2, <2>3 DEF JoinDropped, Join, tvars
    <2>4. ASSUME NEW w \in Urls, Create(c, w) PROVE MapHolds(tab, u)'
      <3>1. PICK n \in 1 .. SlotsPerUrl :
              /\ transfers' = [transfers EXCEPT ![CallerTab[c]][w] = <<CallerTab[c], w, n>>]
              /\ pc' = [pc EXCEPT ![<<CallerTab[c], w, n>>] = "lock"]
        BY <2>4 DEF Create, Begin
      <3> DEFINE s == <<CallerTab[c], w, n>>
      <3>2. s \in Slots /\ TabOf(s) = CallerTab[c] /\ UrlOf(s) = w /\ CallerTab[c] \in Tabs
        BY ManagerAssumption DEF Slots, TabOf, UrlOf
      <3> HIDE DEF s
      <3>3. \A r \in Slots : Alive(r) \/ r = s => Alive(r)'
        BY <3>1, <3>2 DEF Alive, Typed, VariablesTyped, s
      <3>4. CASE CallerTab[c] = tab /\ w = u
        <4>1. transfers'[tab][u] = s  BY <3>1, <3>4 DEF s
        <4> QED BY <3>2, <3>3, <3>4, <4>1 DEF MapHolds
      <3>5. CASE ~(CallerTab[c] = tab /\ w = u)
        <4>1. transfers'[tab][u] = transfers[tab][u]  BY <3>1, <3>5
        <4> QED BY <1>1, <3>3, <4>1
      <3> QED BY <3>4, <3>5
    <2> QED BY <1>4, <2>1, <2>2, <2>3, <2>4 DEF Advance
  <1>5. ASSUME NEW t \in Slots, TransferStep(t) PROVE MapHolds(tab, u)'
    BY <1>1, <1>5, StepLives DEF TransferStep, mvars
  <1>6. ASSUME NEW t \in Slots, Settled(t) PROVE MapHolds(tab, u)'
    <2>1. \A s \in Slots \ {t} : Alive(s) => Alive(s)'
      BY <1>6 DEF Settled, Settle, Free, Alive
    <2>2. transfers' = [transfers EXCEPT ![TabOf(t)][UrlOf(t)] = IF @ = t THEN None ELSE @]
      BY <1>6 DEF Settled
    <2>3. transfers'[tab][u] = None \/ (transfers'[tab][u] = transfers[tab][u] /\ transfers[tab][u] # t)
      BY <1>h, <2>2, SlotParts, TransferAssumption DEF MapHolds
    <2> QED BY <1>h, <2>1, <2>3 DEF MapHolds
  <1>7. ASSUME NEW other \in Tabs, DeleteModel(other) \/ Deletion(other) PROVE MapHolds(tab, u)'
    BY <1>2, <1>7 DEF DeleteModel, Abort, Deletion, DeleteCommit, Delete, DeleteSettled, tvars
  <1>8. ASSUME NEW other \in Tabs, CloseTab(other) PROVE MapHolds(tab, u)'
    <2>1. transfers' = [transfers EXCEPT ![other] = NoSlot]  BY <1>8 DEF CloseTab
    <2>2. CASE other = tab
      BY <2>1, <2>2 DEF NoSlot, MapHolds
    <2>3. CASE other # tab
      <3>1. \A s \in Slots : TabOf(s) = tab /\ Alive(s) => Alive(s)'
        BY <1>8, <2>3 DEF CloseTab, Crash, Free, Alive
      <3>2. transfers'[tab][u] = transfers[tab][u]  BY <2>1, <2>3
      <3> QED BY <1>h, <3>1, <3>2 DEF MapHolds
    <2> QED BY <2>2, <2>3
  <1>9. CASE UNCHANGED vars  BY <1>2, <1>9 DEF vars
  <1> QED BY <1>3, <1>4, <1>5, <1>6, <1>7, <1>8, <1>9 DEF ManagerNext

LEMMA ManagerManaged == ManagerSpec => []Managed
  <1>1. Managed /\ [ManagerNext]_vars => Managed'
    <2> SUFFICES ASSUME Managed, [ManagerNext]_vars PROVE Managed'
      OBVIOUS
    <2>1. [TransferNext]_tvars  BY ManagerStepsTransfer
    <2>2. Typed' /\ Fenced'  BY <2>1, NextTyped, NextFenced DEF Managed
    <2> QED BY <2>2, ManagerTyped, GenerationsHold, MapsHold DEF Managed
  <1> QED BY <1>1, InitManaged, PTL DEF ManagerSpec

\* Through every interleaving of the calls, transfers, deletions and closing
\* tabs, each variable of the manager keeps its type.
THEOREM ManagerTypeCorrect == ManagerSpec => []ManagerTypeOK
  BY ManagerManaged, PTL DEF Managed

\* The manager uses the transfers as AssetTransfer allows: it begins one for a
\* generation it has read and that is not ahead of the file's, replaces only
\* transfers of the same tab and file, and aborts and frees nothing else.
THEOREM ManagerImplementsTransfer == ManagerSpec => TransferSpec
  <1>1. ManagerInit => TransferInit  BY DEF ManagerInit
  <1>2. Managed /\ [ManagerNext]_vars => [TransferNext]_tvars
    BY ManagerStepsTransfer
  <1> QED BY <1>1, <1>2, ManagerManaged, PTL DEF ManagerSpec, TransferSpec

\* Composed with the calls that drive them, the downloads of every tab show a
\* reader of the store what the abstract registry allows.
THEOREM ManagerRefinesRegistry ==
  HasLocks /\ RegistryIsSound => (ManagerSpec => RefinesRegistry)
  BY ManagerImplementsTransfer, LocksRefineRegistry

----------------------------------------------------------------------------
(* Who listens to a transfer. *)

\* An attached join is one of an active call, to a transfer of its tab.
Listening ==
  \A c \in Callers, u \in Urls : join[c][u] = "attached" =>
    /\ Active(c)
    /\ joined[c][u] \in Slots /\ Alive(joined[c][u])
    /\ TabOf(joined[c][u]) = CallerTab[c] /\ UrlOf(joined[c][u]) = u

\* What was not aborted can be found in the map, and is listened to.
InMap ==
  \A t \in Slots : Alive(t) /\ ~aborted[t] =>
    transfers[TabOf(t)][UrlOf(t)] = t /\ Listeners(t) # {}

\* A call joins what its first pass found missing, and has joined everything
\* when it begins the second.
JoinFollows(c, u) ==
  /\ call[c] \in {"idle", "deletion", "stat", "persist"} => join[c][u] = "none"
  /\ call[c] = "verify" /\ u \notin checked[c] => join[c][u] = "none"
  /\ call[c] = "reverify" => join[c][u] = "ok"
  /\ call[c] = "ready" => join[c][u] \in {"none", "ok"}
CallsOrdered ==
  /\ \A c \in Callers : call[c] = "failed" => cancelled[c]
  /\ \A c \in Callers, u \in Urls : JoinFollows(c, u)

Sharing == Listening /\ InMap /\ SharedTransferSurvives /\ CallsOrdered

LEMMA InitSharing == ManagerInit => Sharing
  BY DEF ManagerInit, TransferInit, Sharing, Listening, InMap, SharedTransferSurvives, CallsOrdered,
         JoinFollows, NoJoin, Listeners, Alive

LEMMA RejectOrdered ==
  ASSUME ManagerTypeOK, CallsOrdered, NEW c \in Callers, Reject(c)
  PROVE  CallsOrdered'
  <1> USE DEF ManagerTypeOK
  <1>1. \A d \in Callers \ {c} : /\ call'[d] = call[d] /\ cancelled'[d] = cancelled[d]
                                 /\ checked'[d] = checked[d] /\ join'[d] = join[d]
    BY DEF Reject, SetCall
  <1>2. call'[c] = "failed" /\ cancelled'[c]
    BY DEF Reject, SetCall
  <1>3. \A d \in Callers : call'[d] = "failed" => cancelled'[d]
    BY <1>1, <1>2 DEF CallsOrdered
  <1>4. ASSUME NEW d \in Callers, NEW u \in Urls PROVE JoinFollows(d, u)'
    <2>1. JoinFollows(d, u)  BY DEF CallsOrdered
    <2> QED BY <1>1, <1>2, <2>1 DEF JoinFollows
  <1> QED BY <1>3, <1>4 DEF CallsOrdered

LEMMA OrderKept == Managed /\ Sharing /\ [ManagerNext]_vars => CallsOrdered'
  <1> SUFFICES ASSUME Managed, Sharing, [ManagerNext]_vars PROVE CallsOrdered'
    OBVIOUS
  <1> USE DEF Managed, ManagerTypeOK, Sharing
  <1>1. ASSUME NEW c \in Callers, Start(c) \/ Persisted(c) \/ Downloaded(c) \/ \E u \in Urls : Capture(c, u)
        PROVE  CallsOrdered'
    <2>1. UNCHANGED <<cancelled, checked, join>> /\ \A d \in Callers \ {c} : call'[d] = call[d]
      BY <1>1 DEF Start, Persisted, Downloaded, Capture, SetCall
    <2>2. \/ call[c] \in {"idle", "deletion", "stat"} /\ call'[c] \in {"deletion", "stat", "persist"}
          \/ call[c] = "persist" /\ call'[c] = "verify"
          \/ call[c] = "join" /\ call'[c] = "reverify" /\ \A u \in Urls : join[c][u] = "ok"
      BY <1>1 DEF Start, Persisted, Downloaded, Capture, SetCall
    <2>3. \A d \in Callers : call'[d] = "failed" => cancelled'[d]
      BY <2>1, <2>2 DEF CallsOrdered
    <2>4. ASSUME NEW d \in Callers, NEW u \in Urls PROVE JoinFollows(d, u)'
      <3>1. JoinFollows(d, u)  BY DEF CallsOrdered
      <3> QED BY <2>1, <2>2, <3>1 DEF JoinFollows
    <2> QED BY <2>3, <2>4 DEF CallsOrdered
  <1>2. ASSUME NEW c \in Callers, Cancel(c) \/ Poll(c) PROVE CallsOrdered'
    <2>1. UNCHANGED <<call, checked, join>> /\ cancelled' = [cancelled EXCEPT ![c] = TRUE]
      BY <1>2 DEF Cancel, Poll
    <2>2. \A d \in Callers : call'[d] = "failed" => cancelled'[d]
      BY <2>1 DEF CallsOrdered
    <2>3. ASSUME NEW d \in Callers, NEW u \in Urls PROVE JoinFollows(d, u)'
      BY <2>1 DEF CallsOrdered, JoinFollows
    <2> QED BY <2>2, <2>3 DEF CallsOrdered
  <1>3. ASSUME NEW c \in Callers, NEW u \in Urls, Verify(c, u) PROVE CallsOrdered'
    <2>1. /\ cancelled' = cancelled
          /\ \A d \in Callers \ {c} : call'[d] = call[d] /\ checked'[d] = checked[d] /\ join'[d] = join[d]
      BY <1>3 DEF Verify, SetCall
    <2>2. CASE call[c] = "verify"
      <3>1. \A w \in Urls \ {u} : join'[c][w] = join[c][w]
        BY <1>3, <2>2 DEF Verify
      <3>2. \/ call'[c] = "join" \/ (call'[c] = "verify" /\ checked'[c] = checked[c] \cup {u})
        BY <1>3, <2>2 DEF Verify, SetCall
      <3>3. \A d \in Callers : call'[d] = "failed" => cancelled'[d]
        BY <2>1, <3>2 DEF CallsOrdered
      <3>4. ASSUME NEW d \in Callers, NEW w \in Urls PROVE JoinFollows(d, w)'
        <4>1. JoinFollows(d, w)  BY DEF CallsOrdered
        <4> QED BY <2>1, <2>2, <3>1, <3>2, <4>1 DEF JoinFollows
      <3> QED BY <3>3, <3>4 DEF CallsOrdered
    <2>3. CASE call[c] = "reverify"
      <3>1. join' = join /\ call'[c] \in {"reverify", "ready"}
        BY <1>3, <2>3 DEF Verify, SetCall
      <3>2. \A d \in Callers : call'[d] = "failed" => cancelled'[d]
        BY <2>1, <3>1 DEF CallsOrdered
      <3>3. ASSUME NEW d \in Callers, NEW w \in Urls PROVE JoinFollows(d, w)'
        <4>1. JoinFollows(d, w)  BY DEF CallsOrdered
        <4> QED BY <2>1, <2>3, <3>1, <4>1 DEF JoinFollows
      <3> QED BY <3>2, <3>3 DEF CallsOrdered
    <2> QED BY <1>3, <2>2, <2>3 DEF Verify
  <1>4. ASSUME NEW c \in Callers, Rejected(c) \/ StorageFails(c) PROVE CallsOrdered'
    BY <1>4, RejectOrdered DEF Rejected, StorageFails
  <1>5. ASSUME NEW c \in Callers, NEW u \in Urls, JoinDropped(c, u) \/ Join(c, u) \/ Create(c, u)
        PROVE  CallsOrdered'
    <2>1. UNCHANGED <<call, cancelled, checked>> /\ join[c][u] \in {"start", "old"}
      BY <1>5 DEF JoinDropped, Join, Create, JoinUnchanged
    <2>2. \E x : join' = [join EXCEPT ![c][u] = x]
      BY <1>5 DEF JoinDropped, Join, Create, SetJoin
    <2>3. \A d \in Callers, w \in Urls : join'[d][w] = join[d][w] \/ (d = c /\ w = u)
      BY <2>2
    <2>4. ASSUME NEW d \in Callers, NEW w \in Urls PROVE JoinFollows(d, w)'
      <3>1. JoinFollows(c, u) /\ JoinFollows(d, w)  BY DEF CallsOrdered
      <3> QED BY <2>1, <2>3, <3>1 DEF JoinFollows
    <2> QED BY <2>1, <2>4 DEF CallsOrdered
  <1>6. ASSUME NEW t \in Slots, TransferStep(t) PROVE CallsOrdered'
    BY <1>6 DEF TransferStep, mvars, CallsOrdered, JoinFollows
  <1>7. ASSUME NEW t \in Slots, Settled(t) PROVE CallsOrdered'
    <2>1. UNCHANGED <<call, cancelled, checked>>  BY <1>7 DEF Settled, JoinUnchanged
    <2>2. \A c \in Callers, u \in Urls :
            join'[c][u] = join[c][u] \/ join[c][u] \in {"attached", "old"}
      BY <1>7, SlotParts DEF Settled, Listeners, AwaitsCleanup
    <2>3. ASSUME NEW d \in Callers, NEW u \in Urls PROVE JoinFollows(d, u)'
      <3>1. JoinFollows(d, u)  BY DEF CallsOrdered
      <3> QED BY <2>1, <2>2, <3>1 DEF JoinFollows
    <2> QED BY <2>1, <2>3 DEF CallsOrdered
  <1>8. ASSUME NEW tab \in Tabs, DeleteModel(tab) \/ DeleteCommit(tab) PROVE CallsOrdered'
    BY <1>8 DEF DeleteModel, DeleteCommit, CallsOrdered, JoinFollows
  <1>9. ASSUME NEW tab \in Tabs, DeleteSettled(tab) PROVE CallsOrdered'
    BY <1>9 DEF DeleteSettled, CallsOrdered, JoinFollows
  <1>10. ASSUME NEW tab \in Tabs, CloseTab(tab) PROVE CallsOrdered'
    <2>1. \A c \in Callers : call'[c] = "failed" => cancelled'[c]
      BY <1>10 DEF CloseTab, CallsOrdered
    <2>2. \A c \in Callers : CallerTab[c] = tab => \A u \in Urls : join'[c][u] = "none"
      BY <1>10 DEF CloseTab, NoJoin
    <2>3. \A c \in Callers : CallerTab[c] # tab =>
            call'[c] = call[c] /\ checked'[c] = checked[c] /\ join'[c] = join[c]
      BY <1>10 DEF CloseTab, CallersOf
    <2>4. \A c \in Callers : CallerTab[c] = tab => call'[c] \in {"idle", "ready", "failed"}
      BY <1>10 DEF CloseTab, CallersOf, Active
    <2>5. ASSUME NEW d \in Callers, NEW u \in Urls PROVE JoinFollows(d, u)'
      <3>1. JoinFollows(d, u)  BY DEF CallsOrdered
      <3>2. CASE CallerTab[d] = tab  BY <2>2, <2>4, <3>2 DEF JoinFollows
      <3>3. CASE CallerTab[d] # tab  BY <2>3, <3>1, <3>3 DEF JoinFollows
      <3> QED BY <3>2, <3>3
    <2> QED BY <2>1, <2>5 DEF CallsOrdered
  <1>11. CASE UNCHANGED vars  BY <1>11 DEF vars, CallsOrdered, JoinFollows
  <1> QED
    BY <1>1, <1>2, <1>3, <1>4, <1>5, <1>6, <1>7, <1>8, <1>9, <1>10, <1>11
    DEF ManagerNext, Advance, Deletion

\* A step that leaves the transfers, their listeners and the calls of these alone.
Quiet ==
  /\ UNCHANGED <<transfers, pc, gen, aborted>>
  /\ \A c \in Callers : cancelled[c] => cancelled'[c]
  /\ \A c \in Callers, u \in Urls : join'[c][u] = "attached" <=> join[c][u] = "attached"
  /\ \A c \in Callers, u \in Urls : join[c][u] = "attached" =>
       joined'[c][u] = joined[c][u] /\ (Active(c) => Active(c)')

\* A step of a transfer changes neither who listens to it nor whether it lives.
Working ==
  /\ UNCHANGED <<mvars, gen, aborted>>
  /\ \A t \in Slots : Alive(t)' <=> Alive(t)

LEMMA QuietSteps ==
  ASSUME Managed, Sharing, [ManagerNext]_vars
  PROVE  \/ Quiet \/ Working
         \/ \E c \in Callers : Reject(c)
         \/ \E c \in Callers, u \in Urls : Join(c, u) \/ Create(c, u)
         \/ \E t \in Slots : Settled(t)
         \/ \E tab \in Tabs : DeleteModel(tab) \/ CloseTab(tab)
  <1> USE DEF Managed, ManagerTypeOK, Sharing
  <1>1. ASSUME NEW c \in Callers, Start(c) \/ Cancel(c) \/ Persisted(c) \/ Poll(c) \/ Downloaded(c)
        PROVE  Quiet
    <2>1. /\ UNCHANGED <<tvars, transfers, join, joined>>
          /\ cancelled' = cancelled \/ cancelled' = [cancelled EXCEPT ![c] = TRUE]
          /\ \A d \in Callers : call'[d] = call[d] \/ call'[d] \in {"deletion", "stat", "verify", "reverify"}
      BY <1>1 DEF Start, Cancel, Persisted, Poll, Downloaded, SetCall
    <2> QED BY <2>1 DEF Quiet, Active, tvars
  <1>2. ASSUME NEW c \in Callers, NEW u \in Urls, Capture(c, u) PROVE Quiet
    BY <1>2 DEF Capture, SetCall, Quiet, Active, tvars
  <1>3. ASSUME NEW t \in Slots, TransferStep(t) PROVE Working
    BY <1>3, StepLives, StepFrame DEF TransferStep, Working, Typed
  <1>4. ASSUME NEW tab \in Tabs, DeleteCommit(tab) PROVE Quiet
    BY <1>4 DEF DeleteCommit, Delete, Quiet, Active
  <1>5. ASSUME NEW tab \in Tabs, DeleteSettled(tab) PROVE Quiet
    BY <1>5 DEF DeleteSettled, Quiet, Active, tvars
  <1>6. CASE UNCHANGED vars  BY <1>6 DEF vars, Quiet, Active
  <1>7. ASSUME NEW c \in Callers, NEW u \in Urls, Verify(c, u) PROVE Quiet
    <2>1. /\ UNCHANGED <<tvars, transfers, cancelled, joined>>
          /\ \A d \in Callers \ {c} : call'[d] = call[d] /\ join'[d] = join[d]
      BY <1>7 DEF Verify, SetCall
    <2>2. CASE call[c] = "reverify"
      <3>1. join' = join  BY <1>7, <2>2 DEF Verify
      <3>2. \A w \in Urls : join[c][w] # "attached"
        BY <2>2 DEF CallsOrdered, JoinFollows
      <3> QED BY <2>1, <3>1, <3>2 DEF Quiet, Active, tvars
    <2>3. CASE call[c] = "verify"
      <3>1. join[c][u] = "none"
        BY <1>7, <2>3 DEF Verify, NextFile, CallsOrdered, JoinFollows
      <3>2. \A w \in Urls : join'[c][w] = join[c][w] \/ (w = u /\ join'[c][w] \in {"ok", "start"})
        BY <1>7, <2>3 DEF Verify
      <3>3. call'[c] \in {"verify", "join"}
        BY <1>7, <2>3 DEF Verify, SetCall
      <3> QED BY <2>1, <3>1, <3>2, <3>3 DEF Quiet, Active, tvars
    <2> QED BY <1>7, <2>2, <2>3 DEF Verify
  <1>8. ASSUME NEW c \in Callers, NEW u \in Urls, JoinDropped(c, u) PROVE Quiet
    <2>1. /\ UNCHANGED <<tvars, transfers, call, cancelled>> /\ join[c][u] \in {"start", "old"}
          /\ \E x \in {"failed", "none"} : join' = [join EXCEPT ![c][u] = x]
          /\ joined' = [joined EXCEPT ![c][u] = None]
      BY <1>8 DEF JoinDropped, JoinUnchanged, SetJoin
    <2>2. \A d \in Callers, w \in Urls :
            \/ join'[d][w] = join[d][w] /\ joined'[d][w] = joined[d][w]
            \/ d = c /\ w = u /\ join'[d][w] \in {"failed", "none"}
      BY <2>1
    <2> QED BY <2>1, <2>2 DEF Quiet, Active, tvars
  <1> QED
    BY <1>1, <1>2, <1>3, <1>4, <1>5, <1>6, <1>7, <1>8
    DEF ManagerNext, Advance, Deletion, Rejected, StorageFails

\* Rejecting detaches the call from everything and aborts what only it wanted.
LEMMA RejectDetaches ==
  ASSUME ManagerTypeOK, NEW c \in Callers, Reject(c)
  PROVE  /\ UNCHANGED <<transfers, pc, gen, files>> /\ cancelled'[c]
         /\ \A t \in Slots : aborted'[t] => aborted[t] \/ Listeners(t) = {c}
         /\ \A t \in Slots : Alive(t) /\ ~aborted'[t] => ~aborted[t] /\ Listeners(t) # {c}
         /\ \A u \in Urls : join'[c][u] # "attached"
         /\ \A d \in Callers \ {c} : /\ join'[d] = join[d] /\ joined'[d] = joined[d]
                                     /\ call'[d] = call[d] /\ cancelled'[d] = cancelled[d]
  BY DEF Reject, SetCall, Abort, Abandoned, ManagerTypeOK

\* A join that finds a transfer is attached if that was not aborted.
LEMMA JoinAttaches ==
  ASSUME Managed, Sharing, NEW c \in Callers, NEW u \in Urls, Join(c, u)
  PROVE  /\ UNCHANGED <<tvars, transfers, call, cancelled>> /\ Active(c) /\ join[c][u] = "start"
         /\ \A d \in Callers, w \in Urls :
              \/ join'[d][w] = join[d][w] /\ joined'[d][w] = joined[d][w]
              \/ d = c /\ w = u /\ join'[d][w] # "attached"
              \/ d = c /\ w = u /\ /\ joined'[d][w] = transfers[CallerTab[c]][u]
                                   /\ transfers[CallerTab[c]][u] # None
                                   /\ ~aborted[transfers[CallerTab[c]][u]]
  <1> USE DEF Managed, ManagerTypeOK
  <1> DEFINE t == transfers[CallerTab[c]][u]
  <1>1. UNCHANGED <<tvars, transfers, call, cancelled>> /\ join[c][u] = "start" /\ ~cancelled[c] /\ t # None
    BY DEF Join, JoinUnchanged
  <1>2. Active(c)
    <2>1. JoinFollows(c, u) /\ (call[c] = "failed" => cancelled[c])
      BY DEF Sharing, CallsOrdered
    <2> QED BY <1>1, <2>1 DEF JoinFollows, Active
  <1>3. \/ \E x \in {"failed", "old"} : \E y : SetJoin(c, u, x, y)
        \/ SetJoin(c, u, "attached", t) /\ ~aborted[t]
    BY DEF Join
  <1>4. ASSUME NEW x, NEW y, SetJoin(c, u, x, y), NEW d \in Callers, NEW w \in Urls
        PROVE  \/ join'[d][w] = join[d][w] /\ joined'[d][w] = joined[d][w]
               \/ d = c /\ w = u /\ join'[d][w] = x /\ joined'[d][w] = y
    BY <1>4 DEF SetJoin
  <1>5. ASSUME NEW d \in Callers, NEW w \in Urls
        PROVE  \/ join'[d][w] = join[d][w] /\ joined'[d][w] = joined[d][w]
               \/ d = c /\ w = u /\ join'[d][w] # "attached"
               \/ d = c /\ w = u /\ joined'[d][w] = t /\ ~aborted[t]
    BY <1>3, <1>4
  <1> QED BY <1>1, <1>2, <1>5

\* A new transfer s goes into the map, with the call that wanted it as listener;
\* the one that it replaces belongs to an older generation.
Attaches(c, u, s) ==
  LET t == transfers[CallerTab[c]][u] IN
  /\ TabOf(s) = CallerTab[c] /\ UrlOf(s) = u /\ ~Alive(s) /\ Alive(s)' /\ ~aborted'[s]
  /\ \A r \in Slots \ {s} :
       pc'[r] = pc[r] /\ gen'[r] = gen[r] /\ (aborted'[r] <=> aborted[r] \/ r = t)
  /\ transfers' = [transfers EXCEPT ![CallerTab[c]][u] = s]
  /\ join' = [join EXCEPT ![c][u] = "attached"]
  /\ joined' = [joined EXCEPT ![c][u] = s]
  /\ join[c][u] = "start" /\ Active(c)
  /\ UNCHANGED <<files, call, cancelled>>
  /\ t # None => gen[t] < files[u].gen

LEMMA CreateAttaches ==
  ASSUME Managed, Sharing, NEW c \in Callers, NEW u \in Urls, Create(c, u)
  PROVE  \E s \in Slots : Attaches(c, u, s)
  <1> DEFINE tab == CallerTab[c]
             t == transfers[tab][u]
  <1>1. tab \in Tabs  BY ManagerAssumption
  <1>2. PICK n \in 1 .. SlotsPerUrl :
          /\ Begin(<<tab, u, n>>, captured[c][u], Replaced(t))
          /\ transfers' = [transfers EXCEPT ![tab][u] = <<tab, u, n>>]
          /\ SetJoin(c, u, "attached", <<tab, u, n>>)
    BY DEF Create
  <1> DEFINE s == <<tab, u, n>>
  <1>3. s \in Slots /\ TabOf(s) = tab /\ UrlOf(s) = u
    BY <1>1 DEF Slots, TabOf, UrlOf
  <1> HIDE DEF s
  <1>4. Begin(s, captured[c][u], Replaced(t))  BY <1>2 DEF s
  <1>5. ~Alive(s) /\ Alive(s)' /\ ~aborted'[s]
    BY <1>3, <1>4 DEF Begin, Alive, Managed, Typed, VariablesTyped
  <1>6. ASSUME NEW r \in Slots \ {s}
        PROVE  /\ pc'[r] = pc[r] /\ gen'[r] = gen[r]
               /\ aborted'[r] <=> aborted[r] \/ r = t
    <2>1. pc'[r] = pc[r] /\ gen'[r] = gen[r]
      BY <1>4 DEF Begin, Managed, Typed, VariablesTyped
    <2>2. aborted'[r] <=> aborted[r] \/ r \in Replaced(t)
      BY <1>4 DEF Begin
    <2>3. r # None  BY TransferAssumption
    <2> QED BY <2>1, <2>2, <2>3 DEF Replaced
  <1>7. join[c][u] = "start" /\ ~cancelled[c] /\ UNCHANGED <<files, call, cancelled>>
    BY <1>4 DEF Create, JoinUnchanged, Begin
  <1>8. Active(c)
    <2>1. JoinFollows(c, u) /\ (call[c] = "failed" => cancelled[c])
      BY DEF Sharing, CallsOrdered
    <2> QED BY <1>7, <2>1 DEF JoinFollows, Active, Managed, ManagerTypeOK
  <1>9. ASSUME t # None PROVE gen[t] < files[u].gen
    <2>1. gen[t] < captured[c][u]  BY <1>9 DEF Create
    <2>2. Noted(c, u)  BY <1>7 DEF Managed, Generations
    <2>3. t \in Slots  BY <1>1, <1>9 DEF Managed, MapHeld, MapHolds
    <2>4. gen[t] \in Nat /\ files[u].gen \in Nat
      BY <2>3 DEF Managed, Typed, VariablesTyped, AssetRecord
    <2> QED BY <2>1, <2>2, <2>4 DEF Noted
  <1>10. /\ transfers' = [transfers EXCEPT ![tab][u] = s]
         /\ join' = [join EXCEPT ![c][u] = "attached"]
         /\ joined' = [joined EXCEPT ![c][u] = s]
    BY <1>2 DEF SetJoin, s
  <1> QED BY <1>3, <1>5, <1>6, <1>7, <1>8, <1>9, <1>10 DEF Attaches

\* Who listens to another transfer than the one that settles still does.
LEMMA SettlementSpares ==
  ASSUME Managed, NEW t \in Slots, Settled(t)
  PROVE  /\ UNCHANGED <<files, call, cancelled>> /\ ~Alive(t)' /\ ~aborted'[t]
         /\ \A s \in Slots \ {t} : pc'[s] = pc[s] /\ gen'[s] = gen[s] /\ aborted'[s] = aborted[s]
         /\ \A tab \in Tabs, u \in Urls : transfers[tab][u] # t => transfers'[tab][u] = transfers[tab][u]
         /\ \A c \in Callers, u \in Urls : join'[c][u] = "attached" =>
              join[c][u] = "attached" /\ ~(u = UrlOf(t) /\ joined[c][u] = t)
         /\ \A c \in Callers, u \in Urls : joined[c][u] # t => joined'[c][u] = joined[c][u]
         /\ \A c \in Callers, u \in Urls :
              join[c][u] = "attached" /\ joined[c][u] # t => join'[c][u] = "attached"
  <1> USE DEF Managed, ManagerTypeOK
  <1>1. UNCHANGED <<files, call, cancelled>>  BY DEF Settled, Settle, JoinUnchanged, durable
  <1>2. Free({t})  BY DEF Settled, Settle
  <1>3. ~Alive(t)' /\ ~aborted'[t]  BY <1>2 DEF Free, Alive
  <1>4. \A s \in Slots \ {t} : pc'[s] = pc[s] /\ gen'[s] = gen[s] /\ aborted'[s] = aborted[s]
    BY <1>2 DEF Free, Typed, VariablesTyped
  <1>5. \A tab \in Tabs, u \in Urls : transfers[tab][u] # t => transfers'[tab][u] = transfers[tab][u]
    BY SlotParts DEF Settled
  <1>6. \A c \in Callers, u \in Urls :
          join'[c][u] = IF u # UrlOf(t) THEN join[c][u]
                        ELSE IF c \in Listeners(t) THEN JoinResult(t)
                        ELSE IF AwaitsCleanup(c, t) THEN "start" ELSE join[c][u]
    BY SlotParts DEF Settled
  <1>7. JoinResult(t) # "attached"  BY DEF JoinResult
  <1>8. \A c \in Callers, u \in Urls : joined[c][u] # t => joined'[c][u] = joined[c][u]
    BY SlotParts DEF Settled
  <1>9. ASSUME NEW c \in Callers, NEW u \in Urls
        PROVE  /\ join'[c][u] = "attached" =>
                    join[c][u] = "attached" /\ ~(u = UrlOf(t) /\ joined[c][u] = t)
               /\ join[c][u] = "attached" /\ joined[c][u] # t => join'[c][u] = "attached"
    <2>1. c \in Listeners(t) <=> join[c][UrlOf(t)] = "attached" /\ joined[c][UrlOf(t)] = t
      BY DEF Listeners
    <2>2. AwaitsCleanup(c, t) => join[c][UrlOf(t)] # "attached"
      BY DEF AwaitsCleanup
    <2> QED BY <1>6, <1>7, <2>1, <2>2
  <1> QED BY <1>1, <1>3, <1>4, <1>5, <1>8, <1>9

LEMMA ListeningKept == Managed /\ Sharing /\ [ManagerNext]_vars => Listening'
  <1> SUFFICES ASSUME Managed, Sharing, [ManagerNext]_vars PROVE Listening'
    OBVIOUS
  <1> USE DEF Managed, ManagerTypeOK, Sharing
  <1>1. CASE Quiet
    BY <1>1 DEF Quiet, Listening, Alive
  <1>2. CASE Working
    BY <1>2 DEF Working, mvars, Listening, Active
  <1>3. ASSUME NEW c \in Callers, Reject(c) PROVE Listening'
    <2>1. /\ pc' = pc /\ \A u \in Urls : join'[c][u] # "attached"
          /\ \A d \in Callers \ {c} : join'[d] = join[d] /\ joined'[d] = joined[d] /\ call'[d] = call[d]
      BY <1>3, RejectDetaches
    <2>2. ASSUME NEW d \in Callers, NEW u \in Urls, join'[d][u] = "attached"
          PROVE  /\ Active(d)' /\ joined'[d][u] = joined[d][u] /\ join[d][u] = "attached"
      BY <2>1, <2>2 DEF Listening, Active
    <2> QED BY <2>1, <2>2 DEF Listening, Alive
  <1>4. ASSUME NEW c \in Callers, NEW u \in Urls, Join(c, u) PROVE Listening'
    <2> DEFINE t == transfers[CallerTab[c]][u]
    <2>1. t # None => t \in Slots /\ TabOf(t) = CallerTab[c] /\ UrlOf(t) = u /\ Alive(t)
      BY ManagerAssumption DEF MapHeld, MapHolds
    <2>2. /\ UNCHANGED <<pc, call>> /\ Active(c)
          /\ \A d \in Callers, w \in Urls :
               \/ join'[d][w] = join[d][w] /\ joined'[d][w] = joined[d][w]
               \/ d = c /\ w = u /\ join'[d][w] # "attached"
               \/ d = c /\ w = u /\ joined'[d][w] = t /\ t # None
      BY <1>4, JoinAttaches DEF tvars
    <2> HIDE DEF t
    <2> QED BY <2>1, <2>2 DEF Listening, Active, Alive
  <1>5. ASSUME NEW c \in Callers, NEW u \in Urls, Create(c, u) PROVE Listening'
    <2>1. PICK s \in Slots : Attaches(c, u, s)
      BY <1>5, CreateAttaches
    <2>2. \A d \in Callers, w \in Urls :
            \/ join'[d][w] = join[d][w] /\ joined'[d][w] = joined[d][w]
            \/ d = c /\ w = u /\ joined'[d][w] = s
      BY <2>1 DEF Attaches
    <2>3. \A t \in Slots : Alive(t) => Alive(t)'
      BY <2>1 DEF Attaches, Alive
    <2>4. TabOf(s) = CallerTab[c] /\ UrlOf(s) = u /\ Alive(s)' /\ Active(c) /\ call' = call
      BY <2>1 DEF Attaches
    <2> QED BY <2>2, <2>3, <2>4 DEF Listening, Active
  <1>6. ASSUME NEW t \in Slots, Settled(t) PROVE Listening'
    <2>1. ASSUME NEW c \in Callers, NEW u \in Urls, join'[c][u] = "attached"
          PROVE  join[c][u] = "attached" /\ joined[c][u] # t
      BY <1>6, <2>1, SettlementSpares DEF Listening
    <2>2. \A s \in Slots \ {t} : Alive(s) => Alive(s)'
      BY <1>6, SettlementSpares DEF Alive
    <2> QED BY <1>6, <2>1, <2>2, SettlementSpares DEF Listening, Active
  <1>7. ASSUME NEW tab \in Tabs, DeleteModel(tab) PROVE Listening'
    BY <1>7 DEF DeleteModel, Abort, Listening, Active, Alive
  <1>8. ASSUME NEW tab \in Tabs, CloseTab(tab) PROVE Listening'
    <2>1. \A c \in Callers : CallerTab[c] = tab => \A u \in Urls : join'[c][u] = "none"
      BY <1>8 DEF CloseTab, NoJoin
    <2>2. \A c \in Callers : CallerTab[c] # tab =>
            call'[c] = call[c] /\ join'[c] = join[c] /\ joined'[c] = joined[c]
      BY <1>8 DEF CloseTab, CallersOf
    <2>3. \A t \in Slots : TabOf(t) # tab => pc'[t] = pc[t]
      BY <1>8 DEF CloseTab, Crash, Free
    <2>4. ASSUME NEW c \in Callers, NEW u \in Urls, join'[c][u] = "attached"
          PROVE  /\ CallerTab[c] # tab /\ Active(c)' /\ joined'[c][u] = joined[c][u]
                 /\ join[c][u] = "attached"
      BY <2>1, <2>2, <2>4 DEF Listening, Active
    <2> QED BY <2>3, <2>4 DEF Listening, Alive
  <1> QED BY <1>1, <1>2, <1>3, <1>4, <1>5, <1>6, <1>7, <1>8, QuietSteps

LEMMA InMapKept == Managed /\ Sharing /\ [ManagerNext]_vars => InMap'
  <1> SUFFICES ASSUME Managed, Sharing, [ManagerNext]_vars,
                      NEW t \in Slots, Alive(t)', ~aborted'[t]
               PROVE  transfers'[TabOf(t)][UrlOf(t)] = t /\ Listeners(t)' # {}
    BY DEF InMap
  <1> USE DEF Managed, ManagerTypeOK, Sharing
  <1> DEFINE tt == TabOf(t)  tu == UrlOf(t)
  <1>p. tt \in Tabs /\ tu \in Urls  BY SlotParts
  <1>l. ASSUME NEW d \in Callers, join'[d][tu] = "attached", joined'[d][tu] = t
        PROVE  Listeners(t)' # {}
    BY <1>l DEF Listeners
  <1>h. ASSUME Alive(t), ~aborted[t]
        PROVE  transfers[tt][tu] = t
               /\ \E d \in Callers : join[d][tu] = "attached" /\ joined[d][tu] = t
    BY <1>h DEF InMap, Listeners
  <1>1. CASE Quiet
    <2>1. Alive(t) /\ ~aborted[t] /\ transfers' = transfers
      BY <1>1 DEF Quiet, Alive
    <2> QED BY <1>p, <1>h, <1>l, <1>1, <2>1 DEF Quiet
  <1>2. CASE Working
    BY <1>h, <1>l, <1>2 DEF Working, mvars
  <1>3. ASSUME NEW c \in Callers, Reject(c) PROVE transfers'[tt][tu] = t /\ Listeners(t)' # {}
    <2>1. Alive(t) /\ ~aborted[t] /\ Listeners(t) # {c} /\ transfers' = transfers
      BY <1>3, RejectDetaches DEF Alive
    <2>2. Listeners(t) # {}  BY <2>1 DEF InMap
    <2>3. PICK d \in Listeners(t) : d # c  BY <2>1, <2>2
    <2>4. d \in Callers /\ join'[d][tu] = "attached" /\ joined'[d][tu] = t
      BY <1>3, <2>3, RejectDetaches DEF Listeners
    <2> QED BY <1>h, <1>l, <2>1, <2>4
  <1>4. ASSUME NEW c \in Callers, NEW u \in Urls, Join(c, u)
        PROVE  transfers'[tt][tu] = t /\ Listeners(t)' # {}
    <2>1. /\ UNCHANGED <<pc, aborted, transfers>> /\ join[c][u] = "start"
          /\ \A d \in Callers, w \in Urls :
               (join'[d][w] = join[d][w] /\ joined'[d][w] = joined[d][w]) \/ (d = c /\ w = u)
      BY <1>4, JoinAttaches DEF tvars
    <2>2. Alive(t) /\ ~aborted[t]  BY <2>1 DEF Alive
    <2>3. PICK d \in Callers : join[d][tu] = "attached" /\ joined[d][tu] = t
      BY <1>h, <2>2
    <2>4. join'[d][tu] = "attached" /\ joined'[d][tu] = t
      BY <1>p, <2>1, <2>3
    <2> QED BY <1>h, <1>l, <2>1, <2>2, <2>4
  <1>5. ASSUME NEW c \in Callers, NEW u \in Urls, Create(c, u)
        PROVE  transfers'[tt][tu] = t /\ Listeners(t)' # {}
    <2>1. PICK s \in Slots : Attaches(c, u, s)
      BY <1>5, CreateAttaches
    <2>2. CallerTab[c] \in Tabs  BY ManagerAssumption
    <2>3. CASE t = s
      <3>1. transfers'[tt][tu] = s  BY <2>1, <2>2, <2>3 DEF Attaches
      <3>2. join'[c][tu] = "attached" /\ joined'[c][tu] = s  BY <2>1, <2>3 DEF Attaches
      <3> QED BY <1>l, <2>3, <3>1, <3>2
    <2>4. CASE t # s
      <3>1. Alive(t) /\ ~aborted[t] /\ t # transfers[CallerTab[c]][u]
        BY <2>1, <2>4 DEF Attaches, Alive
      <3>2. transfers'[tt][tu] = t
        BY <1>h, <1>p, <2>1, <2>2, <3>1 DEF Attaches
      <3>3. PICK d \in Callers : join[d][tu] = "attached" /\ joined[d][tu] = t
        BY <1>h, <3>1
      <3>4. join'[d][tu] = "attached" /\ joined'[d][tu] = t
        BY <1>p, <2>1, <3>3 DEF Attaches
      <3> QED BY <1>l, <3>2, <3>4
    <2> QED BY <2>3, <2>4
  <1>6. ASSUME NEW s \in Slots, Settled(s) PROVE transfers'[tt][tu] = t /\ Listeners(t)' # {}
    <2>1. t # s /\ Alive(t) /\ ~aborted[t]
      BY <1>6, SettlementSpares DEF Alive
    <2>2. PICK d \in Callers : join[d][tu] = "attached" /\ joined[d][tu] = t
      BY <1>h, <2>1
    <2>3. join'[d][tu] = "attached" /\ joined'[d][tu] = t
      BY <1>p, <1>6, <2>1, <2>2, SettlementSpares
    <2>4. transfers'[tt][tu] = t
      BY <1>p, <1>h, <1>6, <2>1, SettlementSpares
    <2> QED BY <1>l, <2>3, <2>4
  <1>7. ASSUME NEW tab \in Tabs, DeleteModel(tab) PROVE transfers'[tt][tu] = t /\ Listeners(t)' # {}
    <2>1. UNCHANGED <<pc, transfers, join, joined>> /\ (aborted[t] => aborted'[t])
      BY <1>7 DEF DeleteModel, Abort
    <2> QED BY <1>h, <1>l, <2>1 DEF Alive
  <1>8. ASSUME NEW tab \in Tabs, CloseTab(tab) PROVE transfers'[tt][tu] = t /\ Listeners(t)' # {}
    <2>1. tt # tab /\ Alive(t) /\ ~aborted[t]
      BY <1>8 DEF CloseTab, Crash, Free, Alive
    <2>2. transfers'[tt][tu] = t
      BY <1>p, <1>h, <1>8, <2>1 DEF CloseTab
    <2>3. PICK d \in Callers : join[d][tu] = "attached" /\ joined[d][tu] = t
      BY <1>h, <2>1
    <2>4. CallerTab[d] = tt  BY <1>p, <2>3 DEF Listening
    <2>5. join'[d] = join[d] /\ joined'[d] = joined[d]
      BY <1>8, <2>1, <2>4 DEF CloseTab
    <2> QED BY <1>l, <2>2, <2>3, <2>5
  <1> QED BY <1>1, <1>2, <1>3, <1>4, <1>5, <1>6, <1>7, <1>8, QuietSteps

LEMMA SurvivalKept == Managed /\ Sharing /\ [ManagerNext]_vars => SharedTransferSurvives'
  <1> SUFFICES ASSUME Managed, Sharing, [ManagerNext]_vars,
                      NEW t \in Slots, NEW d \in Callers, d \in Listeners(t)', aborted'[t], ~cancelled'[d]
               PROVE  gen'[t] < files'[UrlOf(t)].gen
    BY DEF SharedTransferSurvives, Listeners
  <1> USE DEF Managed, ManagerTypeOK, Sharing
  <1> DEFINE tu == UrlOf(t)
  <1>p. TabOf(t) \in Tabs /\ tu \in Urls  BY SlotParts
  <1>g. gen[t] \in Nat /\ files[tu].gen \in Nat /\ files'[tu].gen \in Nat /\ files[tu].gen <= files'[tu].gen
    BY <1>p, ManagerStepsTransfer, GensGrow DEF Generations, Typed, VariablesTyped
  <1>j. join'[d][tu] = "attached" /\ joined'[d][tu] = t
    BY DEF Listeners
  <1>h. ASSUME join[d][tu] = "attached", joined[d][tu] = t, aborted[t], ~cancelled[d], gen'[t] = gen[t]
        PROVE  gen'[t] < files'[tu].gen
    <2>1. d \in Listeners(t)  BY <1>h DEF Listeners
    <2>2. gen[t] < files[tu].gen  BY <1>h, <2>1 DEF SharedTransferSurvives
    <2> QED BY <1>g, <1>h, <2>2
  <1>1. CASE Quiet
    BY <1>p, <1>j, <1>h, <1>1 DEF Quiet
  <1>2. CASE Working
    BY <1>j, <1>h, <1>2 DEF Working, mvars
  <1>3. ASSUME NEW c \in Callers, Reject(c) PROVE gen'[t] < files'[tu].gen
    <2>1. d # c  BY <1>3, <1>p, <1>j, RejectDetaches
    <2>2. join[d][tu] = "attached" /\ joined[d][tu] = t /\ ~cancelled[d] /\ gen'[t] = gen[t]
      BY <1>3, <1>j, <2>1, RejectDetaches
    <2>3. d \in Listeners(t)  BY <2>2 DEF Listeners
    <2>4. aborted[t]  BY <1>3, <2>1, <2>3, RejectDetaches
    <2> QED BY <1>h, <2>2, <2>4
  <1>4. ASSUME NEW c \in Callers, NEW u \in Urls, Join(c, u) PROVE gen'[t] < files'[tu].gen
    <2>1. UNCHANGED <<gen, aborted, cancelled>>
      BY <1>4, JoinAttaches DEF tvars
    <2>2. \/ join'[d][tu] = join[d][tu] /\ joined'[d][tu] = joined[d][tu]
          \/ ~aborted[t]
      <3> DEFINE s == transfers[CallerTab[c]][u]
      <3>1. \A e \in Callers, w \in Urls :
              \/ join'[e][w] = join[e][w] /\ joined'[e][w] = joined[e][w]
              \/ e = c /\ w = u /\ join'[e][w] # "attached"
              \/ e = c /\ w = u /\ joined'[e][w] = s /\ s # None /\ ~aborted[s]
        BY <1>4, JoinAttaches
      <3> HIDE DEF s
      <3> QED BY <1>p, <1>j, <3>1
    <2> QED BY <1>h, <1>j, <2>1, <2>2
  <1>5. ASSUME NEW c \in Callers, NEW u \in Urls, Create(c, u) PROVE gen'[t] < files'[tu].gen
    <2>1. PICK s \in Slots : Attaches(c, u, s)
      BY <1>5, CreateAttaches
    <2>2. t # s  BY <2>1 DEF Attaches
    <2>3. CASE t = transfers[CallerTab[c]][u]
      <3>1. t # None /\ tu = u
        BY <2>3, ManagerAssumption, TransferAssumption DEF MapHeld, MapHolds
      <3> QED BY <1>g, <2>1, <2>2, <2>3, <3>1 DEF Attaches
    <2>4. CASE t # transfers[CallerTab[c]][u]
      <3>1. join[d][tu] = "attached" /\ joined[d][tu] = t
        BY <1>p, <1>j, <2>1, <2>2 DEF Attaches
      <3>2. aborted[t] /\ gen'[t] = gen[t] /\ ~cancelled[d]
        BY <2>1, <2>2, <2>4 DEF Attaches
      <3> QED BY <1>h, <3>1, <3>2
    <2> QED BY <2>3, <2>4
  <1>6. ASSUME NEW s \in Slots, Settled(s) PROVE gen'[t] < files'[tu].gen
    <2>1. t # s  BY <1>6, SettlementSpares
    <2>2. gen'[t] = gen[t] /\ aborted[t] /\ ~cancelled[d] /\ join[d][tu] = "attached"
      BY <1>6, <1>p, <1>j, <2>1, SettlementSpares
    <2>3. joined[d][tu] # s
      BY <1>6, <1>p, <1>j, <2>2, SettlementSpares DEF Listening
    <2>4. joined[d][tu] = t
      BY <1>6, <1>p, <1>j, <2>3, SettlementSpares
    <2> QED BY <1>h, <2>2, <2>4
  <1>7. ASSUME NEW tab \in Tabs, DeleteModel(tab) PROVE gen'[t] < files'[tu].gen
    <2>1. UNCHANGED <<gen, join, joined>>
      BY <1>7 DEF DeleteModel, Abort
    <2>2. Active(d) /\ CallerTab[d] = TabOf(t)
      BY <1>p, <1>j, <2>1 DEF Listening
    <2>3. ~cancelled[d] /\ d \notin CallersOf(tab)
      BY <1>7 DEF DeleteModel
    <2>4. TabOf(t) # tab  BY <2>2, <2>3 DEF CallersOf
    <2>5. t \notin {transfers[tab][u] : u \in Private} \ {None}
      BY <2>4, StoreAssumption DEF MapHeld, MapHolds
    <2>6. aborted[t]  BY <1>7, <2>5 DEF DeleteModel, Abort
    <2> QED BY <1>h, <1>j, <2>1, <2>3, <2>6
  <1>8. ASSUME NEW tab \in Tabs, CloseTab(tab) PROVE gen'[t] < files'[tu].gen
    <2>1. TabOf(t) # tab /\ aborted[t] /\ gen'[t] = gen[t]
      BY <1>8 DEF CloseTab, Crash, Free
    <2>2. CallerTab[d] # tab
      BY <1>8, <1>p, <1>j DEF CloseTab, NoJoin
    <2>3. join'[d] = join[d] /\ joined'[d] = joined[d] /\ ~cancelled[d]
      BY <1>8, <2>2 DEF CloseTab
    <2> QED BY <1>h, <1>j, <2>1, <2>3
  <1> QED BY <1>1, <1>2, <1>3, <1>4, <1>5, <1>6, <1>7, <1>8, QuietSteps

LEMMA ManagerShares == ManagerSpec => [](Managed /\ Sharing)
  <1>1. (Managed /\ Sharing) /\ [ManagerNext]_vars => Sharing'
    BY ListeningKept, InMapKept, SurvivalKept, OrderKept DEF Sharing
  <1> QED BY <1>1, InitSharing, ManagerManaged, PTL DEF ManagerSpec

\* No download runs for nobody, the calls of a tab share the one transfer of a
\* file, and nobody loses the transfer it shares because another call gave up:
\* for any number of tabs, calls and files.
THEOREM TransfersStayShared == ManagerSpec => []TransfersAreShared
  <1>1. Managed /\ Sharing => TransfersAreShared
    <2> SUFFICES ASSUME Managed, Sharing PROVE NoOrphanTransfer
      BY DEF Sharing, TransfersAreShared
    <2>1. ASSUME NEW t \in Slots, Alive(t), ~aborted[t]
          PROVE  Listeners(t) # {} /\ \A c \in Listeners(t) : Active(c)
      BY <2>1, SlotParts DEF Sharing, InMap, Listening, Listeners
    <2>2. ASSUME NEW t \in Slots, Alive(t), ~aborted[t], NEW s \in Slots, Alive(s), ~aborted[s],
                 TabOf(s) = TabOf(t), UrlOf(s) = UrlOf(t)
          PROVE  s = t
      BY <2>2 DEF Sharing, InMap
    <2> QED BY <2>1, <2>2 DEF NoOrphanTransfer
  <1> QED BY <1>1, ManagerShares, PTL

----------------------------------------------------------------------------
(* What a call that is ready has got. *)

\* A transfer that ended well has left its file installed, and so has every
\* join that succeeded, unless the model was deleted since.
DoneIsInstalled ==
  \A t \in Slots : pc[t] = "closing" /\ out[t] = "ok" /\ gen[t] = files[UrlOf(t)].gen =>
    Installed(UrlOf(t))
JoinedIsInstalled ==
  \A c \in Callers, u \in Urls :
    join[c][u] = "ok" /\ captured[c][u] = files[u].gen => Installed(u)

\* A call listens to transfers of the generation it has read.
SameGeneration ==
  \A c \in Callers, u \in Urls : join[c][u] = "attached" => gen[joined[c][u]] = captured[c][u]

\* A deletion removes all private files at once, and no shared one.
GensUniform ==
  /\ \A u, w \in Private : files[u].gen = files[w].gen
  /\ \A u \in Urls \ Private : files[u].gen = 0

\* A private file that the second pass has read was as new as any of them.
ReadAgain(c) ==
  /\ call[c] = "join" => checked[c] = {}
  /\ call[c] = "reverify" => \A w \in checked[c] \cap Private, u \in Private :
                               captured[c][u] <= captured[c][w]

\* A call that got past a deletion of its own tab is cancelled by the next one.
DeletionHeeded ==
  \A c \in Callers :
    Active(c) /\ call[c] # "deletion" /\ deletion[CallerTab[c]] # "none" => cancelled[c]

Wholeness ==
  /\ DoneIsInstalled /\ JoinedIsInstalled /\ SameGeneration /\ GensUniform
  /\ DeletionHeeded /\ \A c \in Callers : ReadAgain(c)

LEMMA InitWhole == ManagerInit => Wholeness
  <1> SUFFICES ASSUME ManagerInit PROVE Wholeness  OBVIOUS
  <1>1. \A u \in Urls : files[u].gen = 0
    BY InitRefines DEF ManagerInit, Registry!Init
  <1>2. /\ pc = [t \in Slots |-> "free"] /\ call = [c \in Callers |-> "idle"]
        /\ join = [c \in Callers |-> NoJoin]
    BY DEF ManagerInit, TransferInit
  <1> QED
    BY <1>1, <1>2, StoreAssumption
    DEF Wholeness, DeletionHeeded, Active, DoneIsInstalled, JoinedIsInstalled, SameGeneration, GensUniform, ReadAgain, NoJoin

\* An installed file is left alone until its generation ends: the one writer
\* that has the lock has read it, and resets it only if it does not match.
LEMMA InstalledStays ==
  ASSUME HasLocks, Typed, Fenced, Serial, AllGenuine, [TransferNext]_tvars,
         NEW u \in Urls, Installed(u), files'[u].gen = files[u].gen
  PROVE  Installed(u)'
  <1>1. CASE files'[u] = files[u]  BY <1>1 DEF Installed
  <1>2. ASSUME NEW t \in Slots, Step(t) PROVE files'[u] = files[u]
    <2>1. CASE UrlOf(t) # u  BY <1>2, <2>1, StepFrame DEF Typed
    <2>2. CASE UrlOf(t) = u /\ pc[t] \in Writing /\ gen[t] = files[u].gen
      <3>1. rec[t] = files[u] /\ (pc[t] # "reset" => ~files[u].complete)
        BY <2>2 DEF Serial, AllAbreast, Abreast
      <3>2. pc[t] = "reset" /\ rec[t].complete /\ Compatible(rec[t], u)
        BY <3>1 DEF Installed
      <3> QED BY <2>2, <3>2 DEF AllGenuine, Genuine
    <2> QED BY <1>2, <2>1, <2>2, StepSaves
  <1>3. CASE Delete
    <2>1. files[u].gen \in Nat  BY DEF Typed, VariablesTyped, AssetRecord
    <2> QED BY <1>1, <1>3, <2>1 DEF Delete, EmptyRecord
  <1>4. CASE UNCHANGED <<files, chunks>>  BY <1>1, <1>4
  <1> QED
    BY <1>1, <1>2, <1>3, <1>4
    DEF TransferNext, Replaceable, Abortable, Abort, Begin, Settle, Crash, durable, tvars

\* A transfer ends well if it found its file installed, or published it.
LEMMA EndsInstalled ==
  ASSUME HasLocks, Typed, Fenced, Serial, AllGenuine, NEW t \in Slots, Step(t),
         pc'[t] = "closing", out'[t] = "ok", gen[t] = files'[UrlOf(t)].gen
  PROVE  Installed(UrlOf(t))'
  <1> DEFINE u == UrlOf(t)
  <1>u. u \in Urls  BY SlotParts
  <1> USE DEF Typed, VariablesTyped
  <1>e. ASSUME NEW o, End(t, o) PROVE out'[t] = o
    BY <1>e DEF End
  <1>1. CASE Stat(t)
    <2>1. files' = files  BY <1>1 DEF Stat
    <2>2. CASE End(t, "deleted")  BY <1>e, <2>2
    <2>3. CASE GoTo(t, "reset") \/ GoTo(t, "rehash")  BY <2>3 DEF GoTo
    <2>4. CASE Installed(u)  BY <2>1, <2>4 DEF Installed
    <2> QED BY <1>1, <2>2, <2>3, <2>4 DEF Stat, Installed
  <1>2. ASSUME NEW next, NEW content, NEW p, NEW o, Save(t, next, content, p, o)
        PROVE  p = "closing" /\ o = "ok" /\ Current(files[u], rec[t])
    <2>1. CASE Current(files[u], rec[t])  BY <1>2, <2>1 DEF Save
    <2>2. CASE ~Current(files[u], rec[t])
      <3>1. End(t, Mismatch(files[u], rec[t]))  BY <1>2, <2>2 DEF Save
      <3> QED BY <1>e, <3>1 DEF Mismatch
    <2> QED BY <2>1, <2>2
  <1>3. CASE Publish(t)
    <2> DEFINE next == [rec[t] EXCEPT !.complete = TRUE, !.sha256 = hash[t]]
    <2>1. pc[t] = "publish" /\ Save(t, next, chunks[u], "closing", "ok")
      BY <1>3 DEF Publish
    <2>2. next.complete /\ next.sha256 = hash[t] /\ next.sizeBytes = rec[t].sizeBytes /\ next.gen = rec[t].gen
      BY DEF AssetRecord
    <2>3. pc[t] \in Writing /\ pc[t] \in Accepted  BY <2>1 DEF Writing, Accepted
    <2> HIDE DEF next
    <2>4. Current(files[u], rec[t])  BY <1>2, <2>1
    <2>5. files'[u] = next  BY <1>u, <2>1, <2>4 DEF Save
    <2>6. gen[t] = files[u].gen  BY <2>2, <2>4, <2>5 DEF Current
    <2>7. Compatible(rec[t], u) /\ (Manifest[u].sha256 # NoSha => hash[t] = Manifest[u].sha256)
      BY <2>1, <2>3, <2>6 DEF AllGenuine, Genuine
    <2>8. Compatible(next, u)  BY <2>2, <2>7 DEF Compatible
    <2> QED BY <2>2, <2>5, <2>8 DEF Installed
  <1>4. CASE Reset(t)
    <2>1. PICK p, o : /\ Save(t, ResetRecord(gen[t], u), <<>>, p, o)
                      /\ p # "closing" \/ o = "integrity"
      <3>1. CASE pc[t] = "reset"    BY <1>4, <3>1 DEF Reset
      <3>2. CASE pc[t] = "restart"  BY <1>4, <3>2 DEF Reset
      <3>3. CASE pc[t] = "discard"  BY <1>4, <3>3 DEF Reset
      <3> QED BY <1>4, <3>1, <3>2, <3>3 DEF Reset
    <2> QED BY <1>2, <2>1
  <1>5. CASE Store(t)  BY <1>2, <1>5 DEF Store
  <1>6. CASE Header(t)
    <2>1. CASE End(t, "integrity")  BY <1>e, <2>1
    <2>2. CASE \E n, v : Save(t, [rec[t] EXCEPT !.sizeBytes = n, !.validator = v], chunks[u], "body", "ok")
      BY <1>2, <2>2
    <2> QED BY <1>6, <2>1, <2>2 DEF Header
  <1>7. CASE Rehash(t)
    <2>1. CASE \E o \in {"aborted", "integrity"} : End(t, o)  BY <1>e, <2>1
    <2>2. CASE End(t, Mismatch(files[u], rec[t]))  BY <1>e, <2>2 DEF Mismatch
    <2>3. CASE GoTo(t, "rehash") \/ GoTo(t, "finalize") \/ GoTo(t, "fetch")  BY <2>3 DEF GoTo
    <2> QED BY <1>7, <2>1, <2>2, <2>3 DEF Rehash
  <1>8. CASE Respond(t) \/ Receive(t) \/ Finalize(t)
    <2>1. CASE \E o \in {"aborted", "integrity"} : End(t, o)  BY <1>e, <2>1
    <2>2. CASE \E p \in Pcs \ {"closing"} : GoTo(t, p)  BY <2>2 DEF GoTo
    <2> QED BY <1>8, <2>1, <2>2 DEF Respond, Receive, Finalize, Pcs
  <1>9. CASE Lock(t)  BY <1>9 DEF Lock, GoTo
  <1>10. CASE LockAborted(t) \/ Fail(t)
    BY <1>e, <1>10 DEF LockAborted, Fail
  <1> QED
    BY <1>1, <1>3, <1>4, <1>5, <1>6, <1>7, <1>8, <1>9, <1>10 DEF Step, Work

LEMMA DoneKept ==
  ASSUME HasLocks, Managed, Serial, AllGenuine, DoneIsInstalled, [ManagerNext]_vars
  PROVE  DoneIsInstalled'
  <1> SUFFICES ASSUME NEW s \in Slots, pc'[s] = "closing", out'[s] = "ok",
                      gen'[s] = files'[UrlOf(s)].gen
               PROVE  Installed(UrlOf(s))'
    BY DEF DoneIsInstalled
  <1> USE DEF Managed
  <1> DEFINE u == UrlOf(s)
  <1>u. u \in Urls  BY SlotParts
  <1>n. [TransferNext]_tvars  BY ManagerStepsTransfer
  <1>h. ASSUME pc[s] = "closing", out[s] = "ok", gen[s] = gen'[s] PROVE Installed(u)'
    <2>1. files[u].gen \in Nat /\ files'[u].gen \in Nat /\ files[u].gen <= files'[u].gen
      BY <1>u, <1>n, GensGrow DEF Generations
    <2>2. gen[s] \in Nat /\ gen[s] <= files[u].gen
      BY DEF Fenced, Typed, VariablesTyped
    <2>3. gen[s] = files[u].gen /\ files'[u].gen = files[u].gen
      BY <1>h, <2>1, <2>2
    <2>4. Installed(u)  BY <1>h, <2>3 DEF DoneIsInstalled
    <2> QED BY <1>u, <1>n, <2>3, <2>4, InstalledStays
  <1>1. ASSUME NEW t \in Slots, Step(t) PROVE Installed(u)'
    <2>1. gen' = gen  BY <1>1, StepFrame DEF Typed
    <2>2. CASE s = t  BY <1>1, <2>1, <2>2, EndsInstalled
    <2>3. CASE s # t
      <3>1. pc'[s] = pc[s] /\ out'[s] = out[s]  BY <1>1, <2>3, StepFrame DEF Typed
      <3> QED BY <1>h, <2>1, <3>1
    <2> QED BY <2>2, <2>3
  <1>2. ASSUME NEW T \in SUBSET Slots, Free(T) PROVE Installed(u)'
    <2>1. s \notin T  BY <1>2 DEF Free
    <2> QED BY <1>h, <1>2, <2>1 DEF Free
  <1>3. ASSUME NEW t \in Slots, NEW g, NEW S, Begin(t, g, S) PROVE Installed(u)'
    <2>1. s # t  BY <1>3 DEF Begin, Typed, VariablesTyped
    <2> QED BY <1>h, <1>3, <2>1 DEF Begin, Typed, VariablesTyped
  <1>4. CASE UNCHANGED <<pc, out, gen>>  BY <1>h, <1>4
  <1> QED
    BY <1>n, <1>1, <1>2, <1>3, <1>4
    DEF TransferNext, Replaceable, Abortable, Abort, Settle, Crash, Delete, tvars

\* A join succeeds because the first pass found the file, or its transfer ended well.
LEMMA JoinedKept ==
  ASSUME HasLocks, Managed, Sharing, Serial, AllGenuine, Wholeness, [ManagerNext]_vars
  PROVE  JoinedIsInstalled'
  <1> SUFFICES ASSUME NEW c \in Callers, NEW u \in Urls, join'[c][u] = "ok",
                      captured'[c][u] = files'[u].gen
               PROVE  Installed(u)'
    BY DEF JoinedIsInstalled
  <1> USE DEF Managed, ManagerTypeOK
  <1>n. [TransferNext]_tvars  BY ManagerStepsTransfer
  <1>g. files[u].gen \in Nat /\ files'[u].gen \in Nat /\ files[u].gen <= files'[u].gen
    BY <1>n, GensGrow DEF Generations
  <1>i. ASSUME Installed(u), files'[u].gen = files[u].gen PROVE Installed(u)'
    BY <1>n, <1>i, InstalledStays
  \* What was read before the step is not ahead of the file before the step.
  <1>s. ASSUME join[c][u] # "none", captured'[c][u] = captured[c][u]
        PROVE  captured[c][u] = files[u].gen /\ files'[u].gen = files[u].gen
    <2>1. captured[c][u] \in Nat /\ captured[c][u] <= files[u].gen
      BY <1>s DEF Generations, Noted
    <2>2. captured[c][u] = files'[u].gen  BY <1>s
    <2> HIDE DEF Managed, ManagerTypeOK
    <2> QED BY <1>g, <2>1, <2>2
  <1>h. ASSUME join[c][u] = "ok", captured'[c][u] = captured[c][u] PROVE Installed(u)'
    BY <1>h, <1>i, <1>s DEF Wholeness, JoinedIsInstalled
  <1>1. CASE join' = join /\ captured' = captured
    BY <1>h, <1>1
  <1>r. ASSUME NEW d \in Callers, Reject(d) PROVE Installed(u)'
    <2>1. captured' = captured /\ (join'[c][u] = join[c][u] \/ join'[c][u] = "none")
      BY <1>r DEF Reject
    <2> QED BY <1>h, <2>1
  <1>2. ASSUME NEW d \in Callers, Start(d) \/ Cancel(d) \/ Persisted(d) \/ Poll(d) \/ Downloaded(d)
        PROVE  Installed(u)'
    BY <1>1, <1>2 DEF Start, Cancel, Persisted, Poll, Downloaded
  <1>3. ASSUME NEW d \in Callers, NEW w \in Urls, Capture(d, w) PROVE Installed(u)'
    <2>1. join' = join /\ call[d] = "stat" /\ captured' = [captured EXCEPT ![d][w] = files[w].gen]
      BY <1>3 DEF Capture
    <2>2. JoinFollows(c, u)  BY DEF Sharing, CallsOrdered
    <2>3. d # c  BY <2>1, <2>2 DEF JoinFollows
    <2> QED BY <1>h, <2>1, <2>3
  <1>4. ASSUME NEW d \in Callers, NEW w \in Urls, Verify(d, w) PROVE Installed(u)'
    <2>1. UNCHANGED <<captured, files>>  BY <1>4 DEF Verify, tvars
    <2>2. CASE join'[c][u] = join[c][u]  BY <1>h, <2>1, <2>2
    <2>3. CASE join'[c][u] # join[c][u]
      <3>1. d = c /\ w = u /\ join'[c][u] = IF Installed(u) THEN "ok" ELSE "start"
        BY <1>4, <2>3 DEF Verify
      <3> QED BY <1>i, <2>1, <3>1
    <2> QED BY <2>2, <2>3
  <1>5. ASSUME NEW d \in Callers, NEW w \in Urls, JoinDropped(d, w) \/ Join(d, w) \/ Create(d, w)
        PROVE  Installed(u)'
    <2>1. captured' = captured
      BY <1>5 DEF JoinDropped, Join, Create, JoinUnchanged
    <2>2. PICK x \in {"failed", "none", "old", "attached"} : join' = [join EXCEPT ![d][w] = x]
      <3>1. CASE JoinDropped(d, w)  BY <3>1 DEF JoinDropped, SetJoin
      <3>2. CASE Join(d, w)         BY <3>2 DEF Join, SetJoin
      <3>3. CASE Create(d, w)       BY <3>3 DEF Create, SetJoin
      <3> QED BY <1>5, <3>1, <3>2, <3>3
    <2>3. join'[c][u] = join[c][u]  BY <2>2
    <2> QED BY <1>h, <2>1, <2>3
  <1>6. ASSUME NEW t \in Slots, TransferStep(t) PROVE Installed(u)'
    BY <1>1, <1>6 DEF TransferStep, mvars
  <1>7. ASSUME NEW t \in Slots, Settled(t) PROVE Installed(u)'
    <2>1. UNCHANGED <<captured, files>> /\ pc[t] = "closing"
      BY <1>7 DEF Settled, JoinUnchanged, Settle, durable
    <2>2. CASE join'[c][u] = join[c][u]  BY <1>h, <2>1, <2>2
    <2>3. CASE join'[c][u] # join[c][u]
      <3>1. u = UrlOf(t) /\ c \in Listeners(t) /\ out[t] = "ok"
        BY <1>7, <2>3, SlotParts DEF Settled, JoinResult
      <3>2. join[c][u] = "attached" /\ joined[c][u] = t  BY <3>1 DEF Listeners
      <3>3. gen[t] = files[u].gen
        BY <1>s, <2>1, <3>2 DEF Wholeness, SameGeneration
      <3>4. Installed(u)  BY <2>1, <3>1, <3>3 DEF Wholeness, DoneIsInstalled
      <3> QED BY <1>i, <2>1, <3>4
    <2> QED BY <2>2, <2>3
  <1>8. ASSUME NEW tab \in Tabs, DeleteModel(tab) \/ Deletion(tab) PROVE Installed(u)'
    BY <1>1, <1>8 DEF DeleteModel, Deletion, DeleteCommit, DeleteSettled
  <1>9. ASSUME NEW tab \in Tabs, CloseTab(tab) PROVE Installed(u)'
    <2>1. captured' = captured /\ (join'[c][u] = join[c][u] \/ join'[c][u] = "none")
      BY <1>9 DEF CloseTab, NoJoin
    <2> QED BY <1>h, <2>1
  <1>10. CASE UNCHANGED vars  BY <1>1, <1>10 DEF vars
  <1> QED
    BY <1>r, <1>2, <1>3, <1>4, <1>5, <1>6, <1>7, <1>8, <1>9, <1>10
    DEF ManagerNext, Advance, Rejected, StorageFails

\* A new transfer belongs to the generation its call has read.
LEMMA CreateCaptures ==
  ASSUME Managed, NEW c \in Callers, NEW u \in Urls, Create(c, u), NEW s \in Slots, Attaches(c, u, s)
  PROVE  gen'[s] = captured[c][u]
  <1>1. CallerTab[c] \in Tabs  BY ManagerAssumption
  <1>2. PICK n \in 1 .. SlotsPerUrl :
          /\ Begin(<<CallerTab[c], u, n>>, captured[c][u], Replaced(transfers[CallerTab[c]][u]))
          /\ transfers' = [transfers EXCEPT ![CallerTab[c]][u] = <<CallerTab[c], u, n>>]
    BY DEF Create
  <1>3. s = transfers'[CallerTab[c]][u]
    BY <1>1 DEF Attaches, Managed, ManagerTypeOK
  <1>4. s = <<CallerTab[c], u, n>>
    BY <1>1, <1>2, <1>3 DEF Managed, ManagerTypeOK
  <1> QED BY <1>2, <1>4 DEF Begin, Managed, Typed, VariablesTyped

\* What is captured changes only before the call has anything to join.
LEMMA JoinsCapture ==
  ASSUME Managed, Sharing, [ManagerNext]_vars, NEW c \in Callers, NEW u \in Urls, join[c][u] # "none"
  PROVE  captured'[c][u] = captured[c][u]
  <1>1. CASE NothingCaptured  BY <1>1 DEF NothingCaptured
  <1>2. ASSUME NEW d \in Callers, NEW w \in Urls, Capture(d, w)
        PROVE  captured'[c][u] = captured[c][u]
    <2>1. call[d] = "stat" /\ captured' = [captured EXCEPT ![d][w] = files[w].gen]
      BY <1>2 DEF Capture
    <2>2. JoinFollows(c, u)  BY DEF Sharing, CallsOrdered
    <2>3. d # c  BY <2>1, <2>2 DEF JoinFollows
    <2> QED BY <2>1, <2>3 DEF Managed, ManagerTypeOK
  <1> QED BY <1>1, <1>2, StepCaptures

LEMMA SameKept ==
  ASSUME Managed, Sharing, SameGeneration, [ManagerNext]_vars
  PROVE  SameGeneration'
  <1> SUFFICES ASSUME NEW d \in Callers, NEW u \in Urls, join'[d][u] = "attached"
               PROVE  gen'[joined'[d][u]] = captured'[d][u]
    BY DEF SameGeneration
  <1> USE DEF Managed, ManagerTypeOK, Sharing
  <1>c. ASSUME join[d][u] # "none" PROVE captured'[d][u] = captured[d][u]
    BY <1>c, JoinsCapture
  <1>h. ASSUME join[d][u] = "attached", joined'[d][u] = joined[d][u],
               gen'[joined[d][u]] = gen[joined[d][u]]
        PROVE  gen'[joined'[d][u]] = captured'[d][u]
    BY <1>h, <1>c DEF SameGeneration
  <1>l. join[d][u] = "attached" =>
          joined[d][u] \in Slots /\ Alive(joined[d][u]) /\ TabOf(joined[d][u]) = CallerTab[d]
    BY DEF Listening
  <1>1. CASE Quiet  BY <1>1, <1>h DEF Quiet
  <1>2. CASE Working  BY <1>2, <1>h DEF Working, mvars
  <1>3. ASSUME NEW c \in Callers, Reject(c) PROVE gen'[joined'[d][u]] = captured'[d][u]
    <2>1. d # c /\ gen' = gen  BY <1>3, RejectDetaches
    <2>2. join'[d] = join[d] /\ joined'[d] = joined[d]  BY <1>3, <2>1, RejectDetaches
    <2> QED BY <1>h, <2>1, <2>2
  <1>4. ASSUME NEW c \in Callers, NEW w \in Urls, Join(c, w)
        PROVE  gen'[joined'[d][u]] = captured'[d][u]
    <2> DEFINE t == transfers[CallerTab[c]][w]
    <2>1. gen' = gen /\ join[c][w] = "start"
      BY <1>4, JoinAttaches DEF tvars
    <2>2. \/ join'[d][u] = join[d][u] /\ joined'[d][u] = joined[d][u]
          \/ d = c /\ u = w /\ joined'[d][u] = t
      BY <1>4, JoinAttaches
    <2>3. CASE d = c /\ u = w /\ joined'[d][u] = t
      <3>1. gen[t] = captured[c][w]
        <4>1. gen[t] >= captured[c][w] /\ Noted(c, w)
          BY <1>4, <2>1 DEF Join, Generations
        <4>2. CASE gen[t] > captured[c][w]
          <5>1. SetJoin(c, w, "failed", None)  BY <1>4, <4>2 DEF Join
          <5>2. join'[c][w] = "failed"  BY <5>1 DEF SetJoin
          <5> QED BY <2>3, <5>2
        <4>3. t \in Slots
          BY <1>4, ManagerAssumption DEF Join
        <4>4. gen[t] \in Nat  BY <4>3 DEF Typed, VariablesTyped
        <4>5. captured[c][w] \in Nat  BY <4>1 DEF Noted
        <4> HIDE DEF Managed, ManagerTypeOK, Sharing, t
        <4> QED BY <4>1, <4>2, <4>4, <4>5
      <3> QED BY <1>c, <2>1, <2>3, <3>1
    <2> QED BY <1>h, <2>1, <2>2, <2>3
  <1>5. ASSUME NEW c \in Callers, NEW w \in Urls, Create(c, w)
        PROVE  gen'[joined'[d][u]] = captured'[d][u]
    <2>1. PICK s \in Slots : Attaches(c, w, s)  BY <1>5, CreateAttaches
    <2>2. CASE d = c /\ u = w
      <3>1. joined'[d][u] = s /\ join[d][u] = "start"  BY <2>1, <2>2 DEF Attaches
      <3>2. gen'[s] = captured[c][w]  BY <1>5, <2>1, CreateCaptures
      <3> QED BY <1>c, <2>2, <3>1, <3>2
    <2>3. CASE ~(d = c /\ u = w)
      <3>1. join'[d][u] = join[d][u] /\ joined'[d][u] = joined[d][u]
        BY <2>1, <2>3 DEF Attaches
      <3>2. joined[d][u] \in Slots \ {s}  BY <1>l, <2>1, <3>1 DEF Attaches
      <3> QED BY <1>h, <2>1, <3>1, <3>2 DEF Attaches
    <2> QED BY <2>2, <2>3
  <1>6. ASSUME NEW t \in Slots, Settled(t) PROVE gen'[joined'[d][u]] = captured'[d][u]
    <2>1. join[d][u] = "attached" /\ joined[d][u] # t
      BY <1>6, SettlementSpares DEF Listening
    <2>2. joined'[d][u] = joined[d][u] /\ joined[d][u] \in Slots \ {t}
      BY <1>l, <1>6, <2>1, SettlementSpares
    <2> QED BY <1>h, <1>6, <2>1, <2>2, SettlementSpares
  <1>7. ASSUME NEW tab \in Tabs, DeleteModel(tab) PROVE gen'[joined'[d][u]] = captured'[d][u]
    BY <1>h, <1>7 DEF DeleteModel, Abort
  <1>8. ASSUME NEW tab \in Tabs, CloseTab(tab) PROVE gen'[joined'[d][u]] = captured'[d][u]
    <2>1. CallerTab[d] # tab  BY <1>8 DEF CloseTab, NoJoin
    <2>2. join'[d] = join[d] /\ joined'[d] = joined[d]  BY <1>8, <2>1 DEF CloseTab
    <2>3. joined[d][u] \in Slots /\ TabOf(joined[d][u]) # tab  BY <1>l, <2>1, <2>2
    <2>4. gen'[joined[d][u]] = gen[joined[d][u]]
      BY <1>8, <2>3 DEF CloseTab, Crash, Free
    <2> QED BY <1>h, <2>2, <2>4
  <1> QED BY <1>1, <1>2, <1>3, <1>4, <1>5, <1>6, <1>7, <1>8, QuietSteps

\* Only a deletion ends a generation.
LEMMA UniformKept ==
  ASSUME Typed, Fenced, GensUniform, [TransferNext]_tvars
  PROVE  GensUniform'
  <1>1. CASE \A u \in Urls : files'[u].gen = files[u].gen
    BY <1>1, StoreAssumption DEF GensUniform
  <1>2. ASSUME NEW t \in Slots, Step(t) PROVE \A u \in Urls : files'[u].gen = files[u].gen
    BY <1>2, StepSaves, StepFrame DEF Typed
  <1>3. CASE Delete
    <2>1. \A u \in Private : files'[u].gen = files[u].gen + 1
      BY <1>3, StoreAssumption DEF Delete, EmptyRecord
    <2>2. \A u \in Urls \ Private : files'[u].gen = files[u].gen
      BY <1>3 DEF Delete
    <2> QED BY <2>1, <2>2 DEF GensUniform
  <1>4. CASE UNCHANGED <<files, chunks>>
    BY <1>1, <1>4
  <1> QED
    BY <1>1, <1>2, <1>3, <1>4
    DEF TransferNext, Replaceable, Abortable, Abort, Begin, Settle, Crash, durable, tvars

\* In the second pass no private file is older than those already read.
LEMMA AgainKept ==
  ASSUME Managed, Sharing, GensUniform, \A d \in Callers : ReadAgain(d), [ManagerNext]_vars,
         NEW c \in Callers
  PROVE  ReadAgain(c)'
  <1> USE DEF Managed, ManagerTypeOK
  <1>h. ReadAgain(c)  OBVIOUS
  <1>1. CASE call'[c] \notin {"join", "reverify"}
    BY <1>1 DEF ReadAgain
  <1>2. CASE call'[c] = call[c] /\ checked'[c] = checked[c]
    <2>1. CASE call[c] = "reverify"
      <3>1. \A u \in Urls : join[c][u] # "none"
        BY <2>1 DEF Sharing, CallsOrdered, JoinFollows
      <3>2. \A u \in Urls : captured'[c][u] = captured[c][u]
        BY <3>1, JoinsCapture
      <3> QED BY <1>h, <1>2, <2>1, <3>2, StoreAssumption DEF ReadAgain
    <2>2. CASE call[c] # "reverify"
      BY <1>h, <1>2, <2>2 DEF ReadAgain
    <2> QED BY <2>1, <2>2
  <1>3. ASSUME NEW d \in Callers, Start(d) \/ Cancel(d) \/ Persisted(d) \/ Poll(d) \/ \E u \in Urls : Capture(d, u)
        PROVE  ReadAgain(c)'
    <2>1. /\ checked' = checked
          /\ call'[c] = call[c] \/ call'[c] \notin {"join", "reverify"}
      BY <1>3 DEF Start, Cancel, Persisted, Poll, Capture, SetCall
    <2> QED BY <1>1, <1>2, <2>1
  <1>4. ASSUME NEW d \in Callers, Downloaded(d) PROVE ReadAgain(c)'
    <2>1. CASE d = c
      <3>1. checked'[c] = {}  BY <1>4, <1>h, <2>1 DEF Downloaded, ReadAgain
      <3>2. call'[c] = "reverify"  BY <1>4, <2>1 DEF Downloaded, SetCall
      <3> QED BY <3>1, <3>2 DEF ReadAgain
    <2>2. CASE d # c
      BY <1>2, <1>4, <2>2 DEF Downloaded, SetCall
    <2> QED BY <2>1, <2>2
  <1>5. ASSUME NEW d \in Callers, NEW u \in Urls, Verify(d, u) PROVE ReadAgain(c)'
    <2>1. CASE d # c
      BY <1>2, <1>5, <2>1 DEF Verify, SetCall
    <2>2. CASE d = c /\ call[c] = "verify"
      <3>1. \/ call'[c] = "verify"
            \/ call'[c] = "join" /\ checked'[c] = {}
        BY <1>5, <2>2 DEF Verify, SetCall
      <3> QED BY <3>1 DEF ReadAgain
    <2>3. CASE d = c /\ call[c] = "reverify"
      <3>1. \/ call'[c] = "ready"
            \/ call'[c] = "reverify" /\ checked'[c] = checked[c] \cup {u}
        BY <1>5, <2>3 DEF Verify, SetCall
      <3>2. captured' = captured  BY <1>5 DEF Verify
      <3>3. ASSUME u \in Private, NEW w \in Private PROVE captured[c][w] <= captured[c][u]
        <4>1. captured[c][u] = files[u].gen  BY <1>5, <2>3, <3>3 DEF Verify, Deleted
        <4>2. files[w].gen = files[u].gen  BY <3>3 DEF GensUniform
        <4>3. Noted(c, w)  BY <2>3, <3>3, StoreAssumption DEF Generations, Captured
        <4> QED BY <4>1, <4>2, <4>3 DEF Noted
      <3> QED BY <1>h, <2>3, <3>1, <3>2, <3>3 DEF ReadAgain
    <2> QED BY <1>5, <2>1, <2>2, <2>3 DEF Verify
  <1>6. ASSUME NEW d \in Callers, Reject(d) PROVE ReadAgain(c)'
    BY <1>1, <1>2, <1>6 DEF Reject, SetCall
  <1>7. ASSUME NEW d \in Callers, NEW u \in Urls, JoinDropped(d, u) \/ Join(d, u) \/ Create(d, u)
        PROVE  ReadAgain(c)'
    <2>1. call' = call /\ checked' = checked
      BY <1>7 DEF JoinDropped, Join, Create, JoinUnchanged
    <2> QED BY <1>2, <2>1
  <1>8. ASSUME NEW t \in Slots, TransferStep(t) \/ Settled(t) PROVE ReadAgain(c)'
    BY <1>2, <1>8 DEF TransferStep, mvars, Settled, JoinUnchanged
  <1>9. ASSUME NEW tab \in Tabs, DeleteModel(tab) \/ Deletion(tab) \/ CloseTab(tab)
        PROVE  ReadAgain(c)'
    <2>1. CASE DeleteModel(tab) \/ DeleteCommit(tab)
      BY <1>2, <2>1 DEF DeleteModel, DeleteCommit
    <2>2. CASE DeleteSettled(tab)
      BY <1>1, <1>2, <2>2 DEF DeleteSettled
    <2>3. CASE CloseTab(tab)
      <3>1. CASE CallerTab[c] = tab
        BY <1>1, <2>3, <3>1 DEF CloseTab, CallersOf, Active
      <3>2. CASE CallerTab[c] # tab
        BY <1>2, <2>3, <3>2 DEF CloseTab, CallersOf
      <3> QED BY <3>1, <3>2
    <2> QED BY <1>9, <2>1, <2>2, <2>3 DEF Deletion
  <1>10. CASE UNCHANGED vars  BY <1>2, <1>10 DEF vars
  <1> QED
    BY <1>3, <1>4, <1>5, <1>6, <1>7, <1>8, <1>9, <1>10
    DEF ManagerNext, Advance, Rejected, StorageFails

\* A step after which a call is cancelled or idles no longer, or waits as before.
LEMMA HeedKept ==
  ASSUME Managed, DeletionHeeded, [ManagerNext]_vars
  PROVE  DeletionHeeded'
  <1> SUFFICES ASSUME NEW c \in Callers, Active(c)', call'[c] # "deletion", deletion'[CallerTab[c]] # "none"
               PROVE  cancelled'[c]
    BY DEF DeletionHeeded
  <1> USE ManagerAssumption DEF Managed, ManagerTypeOK, SetCall
  <1>h. ASSUME Active(c), call[c] # "deletion", deletion[CallerTab[c]] # "none",
               cancelled[c] => cancelled'[c]
        PROVE  cancelled'[c]
    BY <1>h DEF DeletionHeeded
  <1>1. ASSUME NEW d \in Callers, Start(d) PROVE cancelled'[c]
    <2>1. CASE d = c  BY <1>1, <2>1 DEF Start
    <2>2. CASE d # c  BY <1>1, <1>h, <2>2 DEF Start, Active
    <2> QED BY <2>1, <2>2
  <1>2. ASSUME NEW d \in Callers, Cancel(d) \/ Persisted(d) \/ Poll(d) \/ Downloaded(d)
        PROVE  cancelled'[c]
    BY <1>2, <1>h DEF Cancel, Persisted, Poll, Downloaded, Active
  <1>3. ASSUME NEW d \in Callers, NEW u \in Urls, Capture(d, u) \/ Verify(d, u) PROVE cancelled'[c]
    BY <1>3, <1>h DEF Capture, Verify, Active
  <1>4. ASSUME NEW d \in Callers, Reject(d) PROVE cancelled'[c]
    BY <1>4, <1>h DEF Reject, Active
  <1>5. ASSUME NEW d \in Callers, NEW u \in Urls, JoinDropped(d, u) \/ Join(d, u) \/ Create(d, u)
        PROVE  cancelled'[c]
    <2>1. UNCHANGED <<call, deletion, cancelled>>
      BY <1>5 DEF JoinDropped, Join, Create, JoinUnchanged
    <2> QED BY <1>h, <2>1 DEF Active
  <1>6. ASSUME NEW t \in Slots, TransferStep(t) \/ Settled(t) PROVE cancelled'[c]
    <2>1. UNCHANGED <<call, deletion, cancelled>>
      BY <1>6 DEF TransferStep, mvars, Settled, JoinUnchanged
    <2> QED BY <1>h, <2>1 DEF Active
  <1>7. ASSUME NEW tab \in Tabs, DeleteModel(tab) PROVE cancelled'[c]
    <2>1. CASE CallerTab[c] = tab  BY <1>7, <2>1 DEF DeleteModel, CallersOf, Active
    <2>2. CASE CallerTab[c] # tab  BY <1>7, <1>h, <2>2 DEF DeleteModel, Active
    <2> QED BY <2>1, <2>2
  <1>8. ASSUME NEW tab \in Tabs, DeleteCommit(tab) PROVE cancelled'[c]
    BY <1>8, <1>h DEF DeleteCommit, Active
  <1>9. ASSUME NEW tab \in Tabs, DeleteSettled(tab) PROVE cancelled'[c]
    <2>1. CallerTab[c] # tab  BY <1>9 DEF DeleteSettled
    <2>2. c \notin CallersOf(tab)  BY <2>1 DEF CallersOf
    <2> QED BY <1>9, <1>h, <2>1, <2>2 DEF DeleteSettled, Active
  <1>10. ASSUME NEW tab \in Tabs, CloseTab(tab) PROVE cancelled'[c]
    <2>1. CallerTab[c] # tab  BY <1>10 DEF CloseTab
    <2>2. c \notin CallersOf(tab)  BY <2>1 DEF CallersOf
    <2> QED BY <1>10, <1>h, <2>1, <2>2 DEF CloseTab, Active
  <1>11. CASE UNCHANGED vars  BY <1>11, <1>h DEF vars, Active
  <1> QED
    BY <1>1, <1>2, <1>3, <1>4, <1>5, <1>6, <1>7, <1>8, <1>9, <1>10, <1>11
    DEF ManagerNext, Advance, Rejected, StorageFails, Deletion

\* Only a read brings a call to its last look, or to its end.
LEMMA OnlyReadsLook ==
  ASSUME Managed, [ManagerNext]_vars, NEW c \in Callers
  PROVE  \/ \E w \in Urls : Verify(c, w)
         \/ /\ call'[c] = "ready" => call[c] = "ready"
            /\ checked'[c] = checked[c] \/ checked'[c] = {}
  <1> USE DEF Managed, ManagerTypeOK
  <1> DEFINE Stays == /\ call'[c] = "ready" => call[c] = "ready"
                      /\ checked'[c] = checked[c] \/ checked'[c] = {}
  <1>1. ASSUME NEW d \in Callers, Start(d) \/ Cancel(d) \/ Persisted(d) \/ Poll(d) \/ Downloaded(d)
        PROVE  Stays
    BY <1>1 DEF Start, Cancel, Persisted, Poll, Downloaded, SetCall
  <1>2. ASSUME NEW d \in Callers, NEW w \in Urls, Capture(d, w) \/ JoinDropped(d, w) \/ Join(d, w) \/ Create(d, w)
        PROVE  Stays
    BY <1>2 DEF Capture, SetCall, JoinDropped, Join, Create, JoinUnchanged
  <1>3. ASSUME NEW d \in Callers, Reject(d) PROVE Stays
    BY <1>3 DEF Reject, SetCall
  <1>4. ASSUME NEW t \in Slots, TransferStep(t) \/ Settled(t) PROVE Stays
    BY <1>4 DEF TransferStep, mvars, Settled, JoinUnchanged
  <1>5. ASSUME NEW tab \in Tabs, DeleteModel(tab) \/ Deletion(tab) \/ CloseTab(tab) PROVE Stays
    BY <1>5 DEF DeleteModel, Deletion, DeleteCommit, DeleteSettled, CloseTab
  <1>6. CASE UNCHANGED vars  BY <1>6 DEF vars
  <1>7. ASSUME NEW d \in Callers \ {c}, NEW w \in Urls, Verify(d, w) PROVE Stays
    BY <1>7 DEF Verify, SetCall
  <1> QED
    BY <1>1, <1>2, <1>3, <1>4, <1>5, <1>6, <1>7
    DEF ManagerNext, Advance, Rejected, StorageFails

\* What a call knows of a file in its second pass.
LEMMA JoinedFile ==
  ASSUME Managed, Sharing, Wholeness, NEW c \in Callers, call[c] = "reverify", NEW u \in Urls
  PROVE  /\ captured[c][u] \in Nat /\ files[u].gen \in Nat /\ captured[c][u] <= files[u].gen
         /\ u \notin Private => captured[c][u] = files[u].gen
         /\ captured[c][u] = files[u].gen => Installed(u)
  <1>1. JoinFollows(c, u)  BY DEF Sharing, CallsOrdered
  <1>2. Noted(c, u)  BY DEF Managed, Generations, Captured
  <1>3. files[u].gen \in Nat  BY DEF Managed, Typed, VariablesTyped, AssetRecord
  <1>4. u \notin Private => files[u].gen = 0  BY DEF Wholeness, GensUniform
  <1>5. join[c][u] = "ok"  BY <1>1 DEF JoinFollows
  <1>6. captured[c][u] = files[u].gen => Installed(u)
    BY <1>5 DEF Wholeness, JoinedIsInstalled
  <1> QED BY <1>2, <1>3, <1>4, <1>6 DEF Noted

\* The last private file read is as new as it was first, and so are the others:
\* a deletion takes them all at once.
LEMMA LookStep ==
  ASSUME Managed, Sharing, Wholeness, [ManagerNext]_vars, NEW c \in Callers, LooksLast(c),
         NEW u \in Private
  PROVE  Installed(u) /\ files[u].gen = captured[c][u]
  <1>u. u \in Urls  BY StoreAssumption
  <1>r. call[c] = "reverify" /\ ~(Private \subseteq checked[c])  BY DEF LooksLast
  <1>1. PICK w \in Urls : Verify(c, w)
    <2>1. ~(Private \subseteq {})  BY <1>u
    <2> QED BY <1>r, <2>1, OnlyReadsLook DEF LooksLast
  <1>2. /\ NextFile(c, w) /\ ~Deleted(c, w)
        /\ \/ checked[c] \cup {w} = Urls
           \/ checked'[c] = checked[c] \cup {w} /\ call'[c] = "reverify"
    BY <1>1, <1>r DEF Verify, SetCall, Managed, ManagerTypeOK
  <1>3. Private \subseteq checked[c] \cup {w}
    BY <1>2, StoreAssumption DEF LooksLast
  <1>4. w \in Private
    <2>1. PICK p \in Private : p \notin checked[c]  BY <1>r
    <2> QED BY <1>3, <2>1
  <1>5. files[w].gen = captured[c][w]  BY <1>2, <1>4 DEF Deleted
  <1>6. files[u].gen = captured[c][u]
    <2>1. CASE u = w  BY <1>5, <2>1
    <2>2. CASE u # w
      <3>1. u \in checked[c] \cap Private  BY <1>3, <2>2
      <3>2. captured[c][w] <= captured[c][u]
        BY <1>r, <1>4, <3>1 DEF Wholeness, ReadAgain
      <3>3. files[u].gen = files[w].gen  BY <1>4 DEF Wholeness, GensUniform
      <3>4. captured[c][u] \in Nat /\ files[u].gen \in Nat /\ captured[c][u] <= files[u].gen
        BY <1>u, <1>r, JoinedFile
      <3> QED BY <1>5, <3>2, <3>3, <3>4
    <2> QED BY <2>1, <2>2
  <1> QED BY <1>u, <1>r, <1>6, JoinedFile

\* The last read of all: what is missing then, another tab has deleted.
LEMMA ReadyStep ==
  ASSUME Managed, Sharing, Wholeness, [ManagerNext]_vars,
         NEW c \in Callers, call[c] # "ready", call'[c] = "ready"
  PROVE  /\ deletion[CallerTab[c]] = "none"
         /\ \A u \in Urls : Installed(u) \/ (u \in Private /\ files[u].gen > captured[c][u])
  <1>1. PICK w \in Urls : Verify(c, w)  BY OnlyReadsLook
  <1>2. call[c] = "reverify" /\ ~cancelled[c]
    BY <1>1 DEF Verify, SetCall, Managed, ManagerTypeOK
  <1>3. deletion[CallerTab[c]] = "none"
    BY <1>2 DEF Wholeness, DeletionHeeded, Active
  <1>4. ASSUME NEW u \in Urls PROVE Installed(u) \/ (u \in Private /\ files[u].gen > captured[c][u])
    <2>1. CASE captured[c][u] = files[u].gen  BY <1>2, <2>1, JoinedFile
    <2>2. CASE captured[c][u] # files[u].gen  BY <1>2, <2>2, JoinedFile
    <2> QED BY <2>1, <2>2
  <1> QED BY <1>3, <1>4

\* A call that resolves has seen all its private files installed in the generation
\* it first read, after any deletion of its own tab and any that committed before
\* its last look at them; nothing but a deletion of another tab can have taken
\* them since.  Wherever the browser has Web Locks and an older release left no
\* foreign file.
THEOREM ReadyMeansWhole == HasLocks /\ RegistryIsSound => (ManagerSpec => ReadyIsWhole)
  <1> SUFFICES ASSUME HasLocks, RegistryIsSound PROVE ManagerSpec => ReadyIsWhole
    OBVIOUS
  <1> DEFINE Inv == Managed /\ Sharing /\ Serial /\ AllGenuine /\ Wholeness
  <1>1. ManagerInit => Inv
    <2> SUFFICES ASSUME ManagerInit PROVE Inv  OBVIOUS
    <2>1. TransferInit  BY DEF ManagerInit
    <2> QED BY <2>1, InitManaged, InitSharing, InitWhole, InitSerial, InitGenuine
  <1>2. Inv /\ [ManagerNext]_vars => Inv'
    <2> SUFFICES ASSUME Inv, [ManagerNext]_vars PROVE Inv'  OBVIOUS
    <2>1. [TransferNext]_tvars  BY ManagerStepsTransfer
    <2>2. Managed'
      <3>1. Typed' /\ Fenced'  BY <2>1, NextTyped, NextFenced DEF Managed
      <3> QED BY <3>1, ManagerTyped, GenerationsHold, MapsHold DEF Managed
    <2>3. Sharing'  BY ListeningKept, InMapKept, SurvivalKept, OrderKept DEF Sharing
    <2>4. Serial' /\ AllGenuine'  BY <2>1, NextSerial, NextGenuine DEF Managed
    <2>5. DoneIsInstalled' /\ JoinedIsInstalled'
      BY DoneKept, JoinedKept DEF Wholeness
    <2>6. SameGeneration' /\ GensUniform'
      BY <2>1, SameKept, UniformKept DEF Wholeness, Managed
    <2>7. DeletionHeeded' /\ \A c \in Callers : ReadAgain(c)'
      BY HeedKept, AgainKept DEF Wholeness
    <2> QED BY <2>2, <2>3, <2>4, <2>5, <2>6, <2>7 DEF Wholeness
  <1>3. Inv /\ [ManagerNext]_vars =>
          [\A c \in Callers :
             /\ LooksLast(c) => \A u \in Private : Installed(u) /\ files[u].gen = captured[c][u]
             /\ call[c] # "ready" /\ call'[c] = "ready" =>
                  /\ deletion[CallerTab[c]] = "none"
                  /\ \A u \in Urls : \/ Installed(u)
                                     \/ u \in Private /\ files[u].gen > captured[c][u]]_vars
    BY LookStep, ReadyStep
  <1> HIDE DEF Inv
  <1> QED BY <1>1, <1>2, <1>3, PTL DEF ManagerSpec, ReadyIsWhole
=============================================================================
