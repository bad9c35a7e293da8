--------------------------- MODULE MCAssetManager ---------------------------
(* Instances of AssetManager: two calls in one tab, files of one chunk.    *)
EXTENDS AssetManager, TLC

CONSTANTS u1, u2, v1, a, b, c1, c2

MCLength == [v \in Versions |-> 1]
RegistryManifest == [u \in Urls |-> [sha256 |-> <<v1>>, sizeBytes |-> 1]]
NoStaleFiles == {}
InstalledBefore == {<<v1>>}
OneTab == [c \in Callers |-> a]
PrivateFirst == [u \in Urls |-> IF u = u1 THEN 1 ELSE 2]
\* All callers are in one tab, so they are interchangeable.
CallerSymmetry == Permutations(Callers)

\* BOUND: the calls overlap where the shared file u2 is installed.  Where its
\* transfer is still to come or cannot begin, one call begins when the other has
\* ended, and nothing is deleted.
Quiet(u) == files[u].complete /\ \A t \in Slots : UrlOf(t) = u => ~Alive(t)
Waiting(u) == \A t \in Slots : UrlOf(t) = u => pc[t] \in {"free", "lock", "stat", "closing"}
OverlapOnOneFile ==
  \/ Quiet(u2)
  \/ /\ Waiting(u2) /\ Cardinality({c \in Callers : Active(c)}) <= 1
     /\ \A tab \in Tabs : deletion[tab] = "none" /\ files[u1].gen = 0
=============================================================================
