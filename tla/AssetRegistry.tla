--------------------------- MODULE AssetRegistry ----------------------------
(***************************************************************************)
(* What the asset store promises its readers, free of checkpoints, writers *)
(* and tabs: a file is installed whole or not at all, always with a        *)
(* content its registry entry accepts, an installed file is withdrawn only *)
(* because the registry no longer accepts it, and a deletion removes the   *)
(* private files of the model together and starts their next generation.   *)
(***************************************************************************)
EXTENDS AssetStore

CONSTANT StaleFiles   \* files an older release may have left, by content

VARIABLES
  gen,        \* [Urls -> Nat], the deletions so far
  installed   \* [Urls -> {<<>>} \cup {<<content>>}]

Acceptable(c, u) ==
  /\ Manifest[u].sha256 = NoSha \/ c = Manifest[u].sha256
  /\ \E v \in Versions : c = Content(v)

Init ==
  /\ gen = [u \in Urls |-> 0]
  /\ installed \in [Urls -> {<<>>} \cup {<<c>> : c \in StaleFiles}]

Install(u) ==
  /\ installed[u] = <<>>
  /\ \E v \in Versions :
       /\ Acceptable(Content(v), u)
       /\ installed' = [installed EXCEPT ![u] = <<Content(v)>>]
  /\ UNCHANGED gen

Withdraw(u) ==
  /\ installed[u] # <<>>
  /\ ~Acceptable(installed[u][1], u)
  /\ installed' = [installed EXCEPT ![u] = <<>>]
  /\ UNCHANGED gen

Remove ==
  /\ gen' = [u \in Urls |-> IF u \in Private THEN gen[u] + 1 ELSE gen[u]]
  /\ installed' = [u \in Urls |-> IF u \in Private THEN <<>> ELSE installed[u]]

Next == Remove \/ \E u \in Urls : Install(u) \/ Withdraw(u)

Spec == Init /\ [][Next]_<<gen, installed>>
=============================================================================
