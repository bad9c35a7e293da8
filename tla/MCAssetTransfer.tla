-------------------------- MODULE MCAssetTransfer ---------------------------
(* Instances of AssetTransfer: two tabs write a registry file u1, whose    *)
(* digest and length are known, or a runtime file u2, of which neither is, *)
(* and the server may answer with two contents of two chunks.              *)
EXTENDS AssetTransfer, FiniteSets, TLC

CONSTANTS u1, u2, v1, v2

MCLength == [v \in Versions |-> 2]
MCManifest ==
  [u \in Urls |-> IF u = u1 THEN [sha256 |-> <<v1, v1>>, sizeBytes |-> 2]
                  ELSE [sha256 |-> NoSha, sizeBytes |-> 0]]
OldRelease == {<<v2, v2>>}
NoStaleFiles == {}

\* BOUND: transfers of different files do not disturb each other, so a
\* behaviour writes one of the files.
Untouched(u) ==
  /\ \A t \in Slots : UrlOf(t) = u => ~Alive(t)
  /\ files[u].bytes = 0 /\ files[u].sizeBytes = 0
OneFileWritten == Cardinality({u \in Urls : ~Untouched(u)}) <= 1
=============================================================================
