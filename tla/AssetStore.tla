----------------------------- MODULE AssetStore -----------------------------
(***************************************************************************)
(* The durable checkpoint of the browser asset store: one record and one   *)
(* chunk list per URL, in IndexedDB, shared by every tab of the origin.    *)
(* Translated from packages/wfloat-web/src/assets/store.ts and the         *)
(* manifest test of manager.ts.                                            *)
(*                                                                         *)
(* Data abstraction.  A file is a sequence of unit chunks and every chunk  *)
(* of version v of a file is the value v, so record.bytes and              *)
(* record.chunks are the same number.  SHA-256 is collision free: a        *)
(* content is its own digest.  An absent optional field (sha256,           *)
(* sizeBytes, validator) is NoSha, 0 or NoTag.                             *)
(***************************************************************************)
EXTENDS Naturals, Sequences

CONSTANTS
  Urls,       \* the files of one model
  Private,    \* the files deleteModelAssets removes; the rest are shared
  Versions,   \* the contents a server may answer with
  Length,     \* [Versions -> Nat \ {0}], the number of chunks of a version
  Manifest,   \* [Urls -> [sha256, sizeBytes]], the registry entry of a file
  NoTag       \* the absent validator

NoSha == <<>>

Content(v) == [i \in 1 .. Length[v] |-> v]

AssetRecord == [gen : Nat, bytes : Nat, complete : BOOLEAN,
                sha256 : Seq(Versions), sizeBytes : Nat,
                validator : Versions \cup {NoTag}]

ASSUME StoreAssumption ==
  /\ Private \subseteq Urls
  /\ Length \in [Versions -> Nat \ {0}]
  /\ Manifest \in [Urls -> [sha256 : Seq(Versions), sizeBytes : Nat]]
  /\ NoTag \notin Versions

EmptyRecord(g) == [gen |-> g, bytes |-> 0, complete |-> FALSE,
                   sha256 |-> NoSha, sizeBytes |-> 0, validator |-> NoTag]

\* What reset() writes: the checkpoint is gone, the manifest fields are set.
ResetRecord(g, u) == [EmptyRecord(g) EXCEPT !.sha256 = Manifest[u].sha256,
                                            !.sizeBytes = Manifest[u].sizeBytes]

Compatible(r, u) ==
  /\ Manifest[u].sha256 # NoSha => r.sha256 = Manifest[u].sha256
  /\ Manifest[u].sizeBytes # 0 => r.sizeBytes = Manifest[u].sizeBytes

\* Mutant of Current: a compare without the generation.
CurrentAnyGeneration(actual, expected) ==
  actual.bytes = expected.bytes /\ actual.complete = expected.complete
\* The compare of the compare-and-set, and the error of a failing one.
Current(actual, expected) ==
  /\ actual.gen = expected.gen
  /\ actual.bytes = expected.bytes
  /\ actual.complete = expected.complete

Mismatch(actual, expected) ==
  IF actual.gen # expected.gen THEN "deleted" ELSE "conflict"

\* chunks.put(chunk, [url, index]): later chunks stay where they are, and one
\* stored beyond a missing chunk is not seen by a reader, who stops there.
Put(content, i, v) ==
  IF i > Len(content) + 1 THEN content
  ELSE [k \in 1 .. (IF Len(content) < i THEN i ELSE Len(content)) |->
          IF k = i THEN v ELSE content[k]]
=============================================================================
