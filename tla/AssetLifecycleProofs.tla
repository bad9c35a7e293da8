------------------------ MODULE AssetLifecycleProofs ------------------------
(***************************************************************************)
(* Theorems about the asset lifecycle of the Python package, for any       *)
(* number of processes, threads, models and files: the counts and modes of *)
(* the locks, that files are safe from writers and writers from one        *)
(* another, and that a success means a whole model.                        *)
(***************************************************************************)
EXTENDS AssetLifecycle, TLAPS, FiniteSetTheorems

----------------------------------------------------------------------------
(* The invariant. *)

Owner == [refs : Nat, shared : BOOLEAN]
ModelState == [epoch : Nat, deleting : BOOLEAN, leases : Nat]
HasFile(m, a) == \E i \in DOMAIN FilesOf[m] : FilesOf[m][i] = a

Typed ==
  /\ whole \in [Files -> BOOLEAN] /\ part \in [Files -> Checkpoints]
  /\ ready \in [Shared -> BOOLEAN] /\ install \in [Procs -> [Shared -> Callers \cup {None}]]
  /\ states \in [Procs -> [Models -> ModelState]]
  /\ xfer \in [Procs -> [Files -> TransferRecord]] /\ call \in [Callers -> CallRecord]
  /\ owners \in [Procs -> [Locks -> Owner]]

\* The locks: how many hold each, in which mode, and not across processes.
Count(p, l) == Cardinality(Threads(p, l)) + Cardinality(Workers(p, l))
Counted == \A p \in Procs, l \in Locks : owners[p][l].refs = Count(p, l)
Reads(x) == x.at \in Leasing \cup {"reading"}
InMode ==
  /\ \A c \in Callers : \A l \in Held(call[c]) : owners[My(c)][l].shared <=> Reads(call[c])
  /\ \A p \in Procs, a \in Files : \A l \in HeldBy(xfer[p][a]) : ~owners[p][l].shared
Exclusion ==
  \A p, q \in Procs, l \in Locks :
    p # q /\ owners[p][l].refs > 0 /\ owners[q][l].refs > 0 => owners[p][l].shared /\ owners[q][l].shared
HeldAreLocks ==
  /\ \A c \in Callers : Held(call[c]) \subseteq Locks
  /\ \A p \in Procs, a \in Files : HeldBy(xfer[p][a]) \subseteq Locks
LockInv == Counted /\ InMode /\ Exclusion /\ HeldAreLocks

\* The leases of a model, and its one deletion.
Lessees(p, m) == {c \in Callers : My(c) = p /\ call[c].at \in Leasing /\ call[c].model = m}
Leased == \A p \in Procs, m \in Models : states[p][m].leases = Cardinality(Lessees(p, m))
OneDrains ==
  \A c, d \in Callers : call[c].at = "drain" /\ call[d].at = "drain" /\ My(c) = My(d)
                        /\ call[c].model = call[d].model => c = d

\* Where a call is, by itself.
Placed(x) ==
  /\ x.at # "idle" => x.model \in Models
  /\ x.i >= 1 /\ (x.at \in {"begin", "peek", "reading", "mutation", "model"} => x.i = 1)
  /\ x.at \in {"join", "replace"} => x.i \in DOMAIN FilesOf[x.model]
  /\ x.at = "replace" => FilesOf[x.model][x.i] \in Shared
  /\ x.at \in Leasing \cup {"lease"} => x.op = "load"
  /\ x.at \in Deleting \cup {"exclusive"} => x.op = "delete"
  /\ \A a \in Files : x.subs[a] = "waiting" => x.at \in {"look", "join", "wait"} /\ HasFile(x.model, a)

\* What that says of the deletions, in the states S of the models of its process.
Fresh(S, m, e) == ~S[m].deleting /\ S[m].epoch = e
Begun == {"peek", "reading", "mutation", "model"} \cup Writing
Aged(x, S) ==
  /\ x.at \in Begun => /\ x.epoch <= S[x.model].epoch
                       /\ S[x.model].deleting => x.epoch < S[x.model].epoch
  /\ x.at = "drain" => S[x.model].deleting
  /\ x.at \in Leasing => Fresh(S, x.model, x.outer)

\* What it says of the files, w, and of the extracted archives, r.
Complete(m, w, r) ==
  /\ \A j \in DOMAIN FilesOf[m] : w[FilesOf[m][j]]
  /\ \A s \in TreesOf(m) : r[s]
Known(x, w, j) ==
  w[FilesOf[x.model][j]] \/ x.subs[FilesOf[x.model][j]] \in {"waiting", "error"}
Found(x, w, r) ==
  LET n == DOMAIN FilesOf[x.model] IN
  /\ x.at \in {"look", "join"} => \A j \in n : j < x.i => Known(x, w, j)
  /\ x.at = "wait" => \A j \in n : Known(x, w, j)
  /\ x.at \in {"install", "replace", "last"} => \A j \in n : w[FilesOf[x.model][j]]
  /\ x.at \in {"install", "replace"} =>
       \A j \in n : j < x.i /\ FilesOf[x.model][j] \in Shared => r[FilesOf[x.model][j]]
  /\ x.at = "last" => Complete(x.model, w, r)
Stocked(x, S, w, r) ==
  /\ x.at \in Leasing \ {"verify"} => Complete(x.model, w, r)
  /\ x.at \in Writing /\ Fresh(S, x.model, x.epoch) => Found(x, w, r)

Fitting(x, S, w, r) == Placed(x) /\ Aged(x, S) /\ Stocked(x, S, w, r)
CallFits(c) == Fitting(call[c], states[My(c)], whole, ready)

\* A transfer and those who wait for it.
TransferFits(p, a) ==
  LET t == xfer[p][a] IN
  /\ t.at = "none" => Users(p, a) = {}
  /\ t.at # "none" => t.model \in Models /\ HasFile(t.model, a)
  /\ t.at # "none" /\ ~t.stop =>
       /\ Users(p, a) # {}
       /\ a \notin Shared => \A c \in Users(p, a) : Fresh(states[p], call[c].model, call[c].epoch)
  /\ t.at \in {"release", "done"} /\ ~t.failed /\ Users(p, a) # {} => whole[a]

LifecycleInv ==
  /\ Typed /\ LockInv /\ Leased /\ OneDrains
  /\ \A c \in Callers : CallFits(c)
  /\ \A p \in Procs, a \in Files : TransferFits(p, a)

\* Only a checkpoint that is the file asked for is about to be published, and a
\* call that deletes does nothing else.
Verified ==
  \A p \in Procs, a \in Files : xfer[p][a].at \in {"adopt", "publish"} => part[a] = "good"
DeletionAts == {"exclusive"} \cup Deleting \cup Ended
Dedicated == \A c \in Callers : call[c].op = "delete" => call[c].at \in DeletionAts

----------------------------------------------------------------------------
(* Counting. *)

LEMMA PlusOne ==
  ASSUME NEW S, IsFiniteSet(S), NEW e, e \notin S
  PROVE  IsFiniteSet(S \cup {e}) /\ Cardinality(S \cup {e}) = Cardinality(S) + 1
  BY FS_AddElement

LEMMA MinusOne ==
  ASSUME NEW S, IsFiniteSet(S), NEW e \in S
  PROVE  IsFiniteSet(S \ {e}) /\ Cardinality(S \ {e}) = Cardinality(S) - 1
  BY FS_RemoveElement

LEMMA SomeCounted ==
  ASSUME NEW S, IsFiniteSet(S)
  PROVE  Cardinality(S) \in Nat /\ (S # {} => Cardinality(S) > 0)
  <1>1. Cardinality(S) \in Nat  BY FS_CardinalityType
  <1>2. Cardinality(S) = 0 <=> S = {}  BY FS_EmptySet
  <1> QED BY <1>1, <1>2

LEMMA HoldersFinite ==
  ASSUME NEW p, NEW l
  PROVE  IsFiniteSet(Threads(p, l)) /\ IsFiniteSet(Workers(p, l))
  <1>1. Threads(p, l) \subseteq Callers /\ Workers(p, l) \subseteq Files  BY DEF Threads, Workers
  <1> QED BY <1>1, LifecycleAssumption, FS_Subset DEF LifecycleAssumption

LEMMA HomeOf == \A c \in Callers : My(c) \in Procs
  <1>1. ProcOf \in [Callers -> Procs]  BY LifecycleAssumption DEF LifecycleAssumption
  <1> QED BY <1>1 DEF My

\* Who is in a block that gives a lock back has it.
LEMMA HolderHas ==
  ASSUME Counted, HeldAreLocks
  PROVE  /\ \A c \in Callers : \A l \in Held(call[c]) : owners[My(c)][l].refs > 0
         /\ \A p \in Procs, a \in Files : \A l \in HeldBy(xfer[p][a]) : owners[p][l].refs > 0
  <1>1. ASSUME NEW p \in Procs, NEW l \in Locks, Threads(p, l) # {} \/ Workers(p, l) # {}
        PROVE  owners[p][l].refs > 0
    <2>1. owners[p][l].refs = Cardinality(Threads(p, l)) + Cardinality(Workers(p, l))
      BY DEF Counted, Count
    <2> QED BY <1>1, <2>1, HoldersFinite, SomeCounted
  <1>2. ASSUME NEW c \in Callers, NEW l \in Held(call[c])
        PROVE  owners[My(c)][l].refs > 0
    <2>1. c \in Threads(My(c), l) /\ l \in Locks  BY <1>2 DEF Threads, HeldAreLocks
    <2> QED BY <1>1, <1>2, <2>1, HomeOf
  <1>3. ASSUME NEW p \in Procs, NEW a \in Files, NEW l \in HeldBy(xfer[p][a])
        PROVE  owners[p][l].refs > 0
    <2>1. a \in Workers(p, l) /\ l \in Locks  BY DEF Workers, HeldAreLocks
    <2> QED BY <1>1, <2>1
  <1> QED BY <1>2, <1>3

\* The same of the next state.
LEMMA HoldersHave ==
  ASSUME Counted', HeldAreLocks'
  PROVE  /\ \A c \in Callers : \A l \in Held(call'[c]) : owners'[My(c)][l].refs > 0
         /\ \A p \in Procs, a \in Files : \A l \in HeldBy(xfer'[p][a]) : owners'[p][l].refs > 0
  <1>1. ASSUME NEW p \in Procs, NEW l \in Locks, Threads(p, l)' # {} \/ Workers(p, l)' # {}
        PROVE  owners'[p][l].refs > 0
    <2>1. owners'[p][l].refs = Cardinality(Threads(p, l)') + Cardinality(Workers(p, l)')
      BY DEF Counted, Count
    <2>2. IsFiniteSet(Threads(p, l)') /\ IsFiniteSet(Workers(p, l)')
      <3>1. Threads(p, l)' \subseteq Callers /\ Workers(p, l)' \subseteq Files
        BY DEF Threads, Workers
      <3> QED BY <3>1, LifecycleAssumption, FS_Subset DEF LifecycleAssumption
    <2> QED BY <1>1, <2>1, <2>2, SomeCounted
  <1>2. ASSUME NEW c \in Callers, NEW l \in Held(call'[c])
        PROVE  owners'[My(c)][l].refs > 0
    <2>1. c \in Threads(My(c), l)' /\ l \in Locks  BY <1>2 DEF Threads, HeldAreLocks, My
    <2> QED BY <1>1, <1>2, <2>1, HomeOf
  <1>3. ASSUME NEW p \in Procs, NEW a \in Files, NEW l \in HeldBy(xfer'[p][a])
        PROVE  owners'[p][l].refs > 0
    <2>1. a \in Workers(p, l)' /\ l \in Locks  BY DEF Workers, HeldAreLocks
    <2> QED BY <1>1, <2>1
  <1> QED BY <1>2, <1>3

----------------------------------------------------------------------------
(* Giving and taking locks. *)

LEMMA LessOwner ==
  ASSUME NEW o \in Owner, o.refs > 0
  PROVE  /\ Less(o) \in Owner /\ Less(o).refs = o.refs - 1
         /\ Less(o).refs > 0 => Less(o).shared = o.shared
  <1>1. CASE o.refs = 1  BY <1>1 DEF Less, NoOwner, Owner
  <1>2. CASE o.refs # 1
    <2>1. o.refs - 1 \in Nat  BY <1>2 DEF Owner
    <2>2. Less(o) = [o EXCEPT !.refs = o.refs - 1]  BY <1>2 DEF Less
    <2> QED BY <2>1, <2>2 DEF Owner
  <1> QED BY <1>1, <1>2

LEMMA GivenLocks ==
  ASSUME Typed, LockInv, NEW p \in Procs, NEW G \in SUBSET Locks, owners' = Given(p, G),
         \A l \in G : owners[p][l].refs > 0,
         \A q \in Procs, l \in Locks :
           Count(q, l)' = IF q = p /\ l \in G THEN Count(q, l) - 1 ELSE Count(q, l)
  PROVE  /\ owners' \in [Procs -> [Locks -> Owner]] /\ Counted' /\ Exclusion'
         /\ \A q \in Procs, l \in Locks :
              owners'[q][l].refs > 0 => owners'[q][l].shared = owners[q][l].shared
  <1>1. \A q \in Procs, l \in Locks : owners[q][l] \in Owner /\ owners[q][l].refs = Count(q, l)
    BY DEF Typed, LockInv, Counted
  <1>2. \A l \in Locks : l \notin G => owners'[p][l] = owners[p][l]
    BY DEF Given, Typed
  <1>3. \A l \in G : owners'[p][l] = Less(owners[p][l])
    BY DEF Given, Typed
  <1>5. \A q \in Procs : q # p => owners'[q] = owners[q]
    BY DEF Given, Typed
  <1>6. \A q \in Procs, l \in Locks :
          /\ owners'[q][l] \in Owner
          /\ owners'[q][l].refs = IF q = p /\ l \in G THEN owners[q][l].refs - 1 ELSE owners[q][l].refs
          /\ owners'[q][l].refs > 0 => owners'[q][l].shared = owners[q][l].shared
    <2> SUFFICES ASSUME NEW q \in Procs, NEW l \in Locks
                 PROVE  /\ owners'[q][l] \in Owner
                        /\ owners'[q][l].refs = IF q = p /\ l \in G THEN owners[q][l].refs - 1
                                                ELSE owners[q][l].refs
                        /\ owners'[q][l].refs > 0 => owners'[q][l].shared = owners[q][l].shared
      OBVIOUS
    <2>1. CASE q # p \/ l \notin G  BY <1>1, <1>2, <1>5, <2>1
    <2>2. CASE q = p /\ l \in G
      <3>1. owners[p][l] \in Owner /\ owners[p][l].refs > 0 /\ owners'[p][l] = Less(owners[p][l])
        BY <1>1, <1>3, <2>2
      <3>2. Less(owners[p][l]) \in Owner /\ Less(owners[p][l]).refs = owners[p][l].refs - 1
            /\ (Less(owners[p][l]).refs > 0 => Less(owners[p][l]).shared = owners[p][l].shared)
        BY <3>1, LessOwner
      <3> HIDE DEF Count
      <3> QED BY <2>2, <3>1, <3>2
    <2> QED BY <2>1, <2>2
  <1>7. owners' \in [Procs -> [Locks -> Owner]]
    <2>1. owners' = [owners EXCEPT ![p] = owners'[p]]  BY DEF Given, Typed
    <2>2. owners'[p] \in [Locks -> Owner]
      <3>1. owners'[p] = [l \in Locks |-> owners'[p][l]]  BY DEF Given, Typed
      <3> QED BY <1>6, <3>1
    <2> QED BY <2>1, <2>2 DEF Typed
  <1>8. Counted'  BY <1>1, <1>6 DEF Counted
  <1>9. Exclusion'
    <2>1. \A q \in Procs, l \in Locks : owners'[q][l].refs > 0 => owners[q][l].refs > 0
      BY <1>1, <1>6 DEF Owner
    <2> QED BY <1>6, <2>1 DEF Exclusion, LockInv
  <1> QED BY <1>6, <1>7, <1>8, <1>9

LEMMA TakenLocks ==
  ASSUME Typed, LockInv, NEW p \in Procs, NEW G \in SUBSET Locks, NEW b \in BOOLEAN,
         owners' = Accessed(p, G, b), \A l \in G : MayAccess(p, l, b),
         \A q \in Procs, l \in Locks :
           Count(q, l)' = IF q = p /\ l \in G THEN Count(q, l) + 1 ELSE Count(q, l)
  PROVE  /\ owners' \in [Procs -> [Locks -> Owner]] /\ Counted' /\ Exclusion'
         /\ \A l \in G : owners'[p][l].shared = b
         /\ \A q \in Procs, l \in Locks :
              owners[q][l].refs > 0 => owners'[q][l].shared = owners[q][l].shared
  <1>1. \A q \in Procs, l \in Locks : owners[q][l] \in Owner /\ owners[q][l].refs = Count(q, l)
    BY DEF Typed, LockInv, Counted
  <1>2. \A l \in Locks : l \notin G => owners'[p][l] = owners[p][l]
    BY DEF Accessed, Typed
  <1>3. \A l \in G : owners'[p][l] = [refs |-> owners[p][l].refs + 1, shared |-> b]
    BY DEF Accessed, Typed
  <1>4. \A q \in Procs : q # p => owners'[q] = owners[q]
    BY DEF Accessed, Typed
  <1>12. \A l \in G : owners'[p][l].refs = owners[p][l].refs + 1 /\ owners'[p][l].shared = b
    <2> TAKE l \in G
    <2> DEFINE o == [refs |-> owners[p][l].refs + 1, shared |-> b]
    <2>1. owners'[p][l] = o  BY <1>3
    <2>2. o.refs = owners[p][l].refs + 1 /\ o.shared = b  OBVIOUS
    <2> HIDE DEF o
    <2> QED BY <2>1, <2>2
  <1>5. \A l \in G : owners[p][l].refs > 0 => owners[p][l].shared = b
    BY <1>1 DEF MayAccess, Owner
  <1>6. \A l \in G, q \in Procs :
          q # p /\ owners[q][l].refs > 0 => b /\ owners[q][l].shared
    <2> SUFFICES ASSUME NEW l \in G, NEW q \in Procs, q # p, owners[q][l].refs > 0
                 PROVE  b /\ owners[q][l].shared
      OBVIOUS
    <2>1. CASE owners[p][l].refs > 0
      BY <1>5, <2>1 DEF LockInv, Exclusion
    <2>2. CASE ~(owners[p][l].refs > 0)
      BY <2>2 DEF MayAccess
    <2> QED BY <2>1, <2>2
  <1>7. \A q \in Procs, l \in Locks :
          /\ owners'[q][l] \in Owner
          /\ owners'[q][l].refs = IF q = p /\ l \in G THEN owners[q][l].refs + 1 ELSE owners[q][l].refs
    <2> SUFFICES ASSUME NEW q \in Procs, NEW l \in Locks
                 PROVE  /\ owners'[q][l] \in Owner
                        /\ owners'[q][l].refs = IF q = p /\ l \in G THEN owners[q][l].refs + 1
                                                ELSE owners[q][l].refs
      OBVIOUS
    <2>1. CASE q # p \/ l \notin G  BY <1>1, <1>2, <1>4, <2>1
    <2>2. CASE q = p /\ l \in G
      <3>1. owners[p][l].refs + 1 \in Nat  BY <1>1, <2>2 DEF Owner
      <3>2. [refs |-> owners[p][l].refs + 1, shared |-> b] \in Owner  BY <3>1 DEF Owner
      <3> QED BY <1>3, <1>12, <2>2, <3>2
    <2> QED BY <2>1, <2>2
  <1>8. owners' \in [Procs -> [Locks -> Owner]]
    <2>1. owners' = [owners EXCEPT ![p] = owners'[p]]  BY DEF Accessed, Typed
    <2>2. owners'[p] \in [Locks -> Owner]
      <3>1. owners'[p] = [l \in Locks |-> owners'[p][l]]  BY DEF Accessed, Typed
      <3> QED BY <1>7, <3>1
    <2> QED BY <2>1, <2>2 DEF Typed
  <1>9. Counted'  BY <1>1, <1>7 DEF Counted
  <1>10. Exclusion'
    <2> SUFFICES ASSUME NEW q1 \in Procs, NEW q2 \in Procs, NEW l \in Locks, q1 # q2,
                        owners'[q1][l].refs > 0, owners'[q2][l].refs > 0
                 PROVE  owners'[q1][l].shared /\ owners'[q2][l].shared
      BY DEF Exclusion
    <2>1. CASE l \notin G
      BY <1>2, <1>4, <2>1 DEF Exclusion, LockInv
    <2>2. CASE l \in G /\ q1 # p /\ q2 # p
      BY <1>4, <2>2 DEF Exclusion, LockInv
    <2>3. CASE l \in G /\ q1 = p
      BY <1>12, <1>4, <1>6, <2>3
    <2>4. CASE l \in G /\ q2 = p
      BY <1>12, <1>4, <1>6, <2>4
    <2> QED BY <2>1, <2>2, <2>3, <2>4
  <1>11. \A q \in Procs, l \in Locks :
              owners[q][l].refs > 0 => owners'[q][l].shared = owners[q][l].shared
    BY <1>2, <1>12, <1>4, <1>5
  <1> QED BY <1>12, <1>8, <1>9, <1>10, <1>11

LEMMA ThreadCounts ==
  ASSUME Typed, NEW c \in Callers, NEW y, call' = [call EXCEPT ![c] = y],
         \A p \in Procs, a \in Files : HeldBy(xfer'[p][a]) = HeldBy(xfer[p][a])
  PROVE  \A q \in Procs, l \in Locks :
           Count(q, l)' = IF q = My(c) /\ l \in Held(y) \ Held(call[c]) THEN Count(q, l) + 1
                          ELSE IF q = My(c) /\ l \in Held(call[c]) \ Held(y) THEN Count(q, l) - 1
                          ELSE Count(q, l)
  <1> SUFFICES ASSUME NEW q \in Procs, NEW l \in Locks
               PROVE  Count(q, l)' = IF q = My(c) /\ l \in Held(y) \ Held(call[c]) THEN Count(q, l) + 1
                          ELSE IF q = My(c) /\ l \in Held(call[c]) \ Held(y) THEN Count(q, l) - 1
                          ELSE Count(q, l)
    OBVIOUS
  <1> DEFINE T == Threads(q, l)  T2 == Threads(q, l)'  W == Workers(q, l)
  <1>1. Workers(q, l)' = W  BY DEF Workers
  <1>2. call'[c] = y /\ \A d \in Callers : d # c => call'[d] = call[d]  BY DEF Typed
  <1>3. T2 = {d \in Callers : My(d) = q /\ l \in Held(call'[d])}
    BY DEF Threads, My
  <1>4. T = {d \in Callers : My(d) = q /\ l \in Held(call[d])}
    BY DEF Threads
  <1>5. IsFiniteSet(T) /\ IsFiniteSet(W) /\ Cardinality(T) \in Nat /\ Cardinality(W) \in Nat
    BY HoldersFinite, SomeCounted
  <1>6. Count(q, l) = Cardinality(T) + Cardinality(W) /\ Count(q, l)' = Cardinality(T2) + Cardinality(W)
    BY <1>1 DEF Count
  <1>7. CASE q = My(c) /\ l \in Held(y) \ Held(call[c])
    <2>1. c \notin T /\ T2 = T \cup {c}  BY <1>2, <1>3, <1>4, <1>7
    <2> HIDE DEF T, T2, W
    <2>2. Cardinality(T2) = Cardinality(T) + 1  BY <1>5, <2>1, PlusOne
    <2> QED BY <1>5, <1>6, <1>7, <2>2
  <1>8. CASE q = My(c) /\ l \in Held(call[c]) \ Held(y)
    <2>1. c \in T /\ T2 = T \ {c}  BY <1>2, <1>3, <1>4, <1>8
    <2> HIDE DEF T, T2, W
    <2>2. Cardinality(T2) = Cardinality(T) - 1  BY <1>5, <2>1, MinusOne
    <2> QED BY <1>5, <1>6, <1>8, <2>2
  <1>9. CASE ~(q = My(c) /\ l \in Held(y) \ Held(call[c])) /\ ~(q = My(c) /\ l \in Held(call[c]) \ Held(y))
    <2>1. T2 = T  BY <1>2, <1>3, <1>4, <1>9
    <2> HIDE DEF T, T2, W
    <2> QED BY <1>6, <1>9, <2>1
  <1> QED BY <1>7, <1>8, <1>9

LEMMA WorkerCounts ==
  ASSUME Typed, NEW p \in Procs, NEW a \in Files,
         \A d \in Callers : Held(call'[d]) = Held(call[d]),
         \A q \in Procs, f \in Files :
           q # p \/ f # a => HeldBy(xfer'[q][f]) = HeldBy(xfer[q][f])
  PROVE  LET H == HeldBy(xfer[p][a])  H2 == HeldBy(xfer'[p][a]) IN
         \A q \in Procs, l \in Locks :
           Count(q, l)' = IF q = p /\ l \in H2 \ H THEN Count(q, l) + 1
                          ELSE IF q = p /\ l \in H \ H2 THEN Count(q, l) - 1
                          ELSE Count(q, l)
  <1> DEFINE H == HeldBy(xfer[p][a])  H2 == HeldBy(xfer'[p][a])
  <1> SUFFICES ASSUME NEW q \in Procs, NEW l \in Locks
               PROVE  Count(q, l)' = IF q = p /\ l \in H2 \ H THEN Count(q, l) + 1
                          ELSE IF q = p /\ l \in H \ H2 THEN Count(q, l) - 1
                          ELSE Count(q, l)
    OBVIOUS
  <1> DEFINE T == Threads(q, l)  W == Workers(q, l)  W2 == Workers(q, l)'
  <1>1. Threads(q, l)' = T  BY DEF Threads, My
  <1>3. W2 = {f \in Files : l \in HeldBy(xfer'[q][f])}  BY DEF Workers
  <1>4. W = {f \in Files : l \in HeldBy(xfer[q][f])}  BY DEF Workers
  <1>5. IsFiniteSet(T) /\ IsFiniteSet(W) /\ Cardinality(T) \in Nat /\ Cardinality(W) \in Nat
    BY HoldersFinite, SomeCounted
  <1>6. Count(q, l) = Cardinality(T) + Cardinality(W) /\ Count(q, l)' = Cardinality(T) + Cardinality(W2)
    BY <1>1 DEF Count
  <1>7. CASE q = p /\ l \in H2 \ H
    <2>1. a \notin W /\ W2 = W \cup {a}  BY <1>3, <1>4, <1>7
    <2> HIDE DEF T, W, W2
    <2>2. Cardinality(W2) = Cardinality(W) + 1  BY <1>5, <2>1, PlusOne
    <2> QED BY <1>5, <1>6, <1>7, <2>2
  <1>8. CASE q = p /\ l \in H \ H2
    <2>1. a \in W /\ W2 = W \ {a}  BY <1>3, <1>4, <1>8
    <2> HIDE DEF T, W, W2
    <2>2. Cardinality(W2) = Cardinality(W) - 1  BY <1>5, <2>1, MinusOne
    <2> QED BY <1>5, <1>6, <1>8, <2>2
  <1>9. CASE ~(q = p /\ l \in H2 \ H) /\ ~(q = p /\ l \in H \ H2)
    <2>1. W2 = W  BY <1>3, <1>4, <1>9
    <2> HIDE DEF T, W, W2
    <2> QED BY <1>6, <1>9, <2>1
  <1> QED BY <1>7, <1>8, <1>9

\* A thread stays in its blocks, leaves some, or enters others.
LEMMA ThreadKeeps ==
  ASSUME Typed, LockInv, NEW c \in Callers, NEW y, call' = [call EXCEPT ![c] = y],
         Held(y) = Held(call[c]), Held(y) # {} => (Reads(y) <=> Reads(call[c])),
         \A p \in Procs, a \in Files : HeldBy(xfer'[p][a]) = HeldBy(xfer[p][a]), owners' = owners
  PROVE  LockInv'
  <1>1. call'[c] = y /\ \A d \in Callers : d # c => call'[d] = call[d]  BY DEF Typed
  <1>2. Counted'
    <2> HIDE DEF Count, Held
    <2>1. \A q \in Procs, l \in Locks :
           Count(q, l)' = IF q = My(c) /\ l \in Held(y) \ Held(call[c]) THEN Count(q, l) + 1
                          ELSE IF q = My(c) /\ l \in Held(call[c]) \ Held(y) THEN Count(q, l) - 1
                          ELSE Count(q, l)
      BY ThreadCounts
    <2>2. \A q \in Procs, l \in Locks : Count(q, l)' = Count(q, l)  BY <2>1
    <2> QED BY <2>2 DEF LockInv, Counted
  <1>3. Exclusion'  BY DEF LockInv, Exclusion
  <1>4. HeldAreLocks'  BY <1>1 DEF LockInv, HeldAreLocks
  <1>5. InMode'  BY <1>1 DEF LockInv, InMode, My
  <1> QED BY <1>2, <1>3, <1>4, <1>5 DEF LockInv

LEMMA ThreadGives ==
  ASSUME Typed, LockInv, NEW c \in Callers, NEW y, NEW G, call' = [call EXCEPT ![c] = y],
         G \subseteq Held(call[c]), Held(y) = Held(call[c]) \ G, owners' = Given(My(c), G),
         Held(y) # {} => (Reads(y) <=> Reads(call[c])),
         \A p \in Procs, a \in Files : HeldBy(xfer'[p][a]) = HeldBy(xfer[p][a])
  PROVE  LockInv' /\ owners' \in [Procs -> [Locks -> Owner]]
  <1>1. call'[c] = y /\ \A d \in Callers : d # c => call'[d] = call[d]  BY DEF Typed
  <1>2. Counted /\ HeldAreLocks /\ InMode  BY DEF LockInv
  <1>3. G \in SUBSET Locks /\ My(c) \in Procs  BY <1>2, HomeOf DEF HeldAreLocks
  <1>4. \A l \in G : owners[My(c)][l].refs > 0  BY <1>2, <1>3, HolderHas
  <1>5. \A q \in Procs, l \in Locks :
          Count(q, l)' = IF q = My(c) /\ l \in G THEN Count(q, l) - 1 ELSE Count(q, l)
    <2> HIDE DEF Count, Held
    <2>1. \A q \in Procs, l \in Locks :
           Count(q, l)' = IF q = My(c) /\ l \in Held(y) \ Held(call[c]) THEN Count(q, l) + 1
                          ELSE IF q = My(c) /\ l \in Held(call[c]) \ Held(y) THEN Count(q, l) - 1
                          ELSE Count(q, l)
      BY ThreadCounts
    <2> QED BY <2>1
  <1>6. /\ owners' \in [Procs -> [Locks -> Owner]] /\ Counted' /\ Exclusion'
        /\ \A q \in Procs, l \in Locks :
             owners'[q][l].refs > 0 => owners'[q][l].shared = owners[q][l].shared
    BY <1>3, <1>4, <1>5, GivenLocks
  <1>7. HeldAreLocks'  BY <1>1, <1>2 DEF HeldAreLocks
  <1>8. /\ \A d \in Callers : \A l \in Held(call'[d]) : owners'[My(d)][l].refs > 0
        /\ \A p \in Procs, a \in Files : \A l \in HeldBy(xfer'[p][a]) : owners'[p][l].refs > 0
    BY <1>6, <1>7, HoldersHave
  <1>9. InMode'
    <2>1. \A d \in Callers : \A l \in Held(call'[d]) :
            l \in Held(call[d]) /\ l \in Locks /\ (Reads(call'[d]) <=> Reads(call[d]))
      BY <1>1, <1>2 DEF HeldAreLocks
    <2>2. \A d \in Callers : \A l \in Held(call'[d]) : owners'[My(d)][l].shared <=> Reads(call'[d])
      BY <1>2, <1>6, <1>8, <2>1, HomeOf DEF InMode
    <2>3. \A p \in Procs, a \in Files : \A l \in HeldBy(xfer'[p][a]) : ~owners'[p][l].shared
      BY <1>2, <1>6, <1>8 DEF InMode, HeldAreLocks
    <2> QED BY <2>2, <2>3 DEF InMode, My
  <1> QED BY <1>6, <1>7, <1>9 DEF LockInv

LEMMA ThreadTakes ==
  ASSUME Typed, LockInv, NEW c \in Callers, NEW y, NEW G \in SUBSET Locks, NEW b \in BOOLEAN,
         call' = [call EXCEPT ![c] = y],
         G \cap Held(call[c]) = {}, Held(y) = Held(call[c]) \cup G, owners' = Accessed(My(c), G, b),
         \A l \in G : MayAccess(My(c), l, b),
         Reads(y) <=> b, Held(call[c]) # {} => (Reads(y) <=> Reads(call[c])),
         \A p \in Procs, a \in Files : HeldBy(xfer'[p][a]) = HeldBy(xfer[p][a])
  PROVE  LockInv' /\ owners' \in [Procs -> [Locks -> Owner]]
  <1>1. call'[c] = y /\ \A d \in Callers : d # c => call'[d] = call[d]  BY DEF Typed
  <1>2. Counted /\ HeldAreLocks /\ InMode  BY DEF LockInv
  <1>3. My(c) \in Procs  BY HomeOf
  <1>4. /\ \A d \in Callers : \A l \in Held(call[d]) : owners[My(d)][l].refs > 0
        /\ \A p \in Procs, a \in Files : \A l \in HeldBy(xfer[p][a]) : owners[p][l].refs > 0
    BY <1>2, HomeOf, HolderHas
  <1>5. \A q \in Procs, l \in Locks :
          Count(q, l)' = IF q = My(c) /\ l \in G THEN Count(q, l) + 1 ELSE Count(q, l)
    <2> HIDE DEF Count, Held
    <2>1. \A q \in Procs, l \in Locks :
           Count(q, l)' = IF q = My(c) /\ l \in Held(y) \ Held(call[c]) THEN Count(q, l) + 1
                          ELSE IF q = My(c) /\ l \in Held(call[c]) \ Held(y) THEN Count(q, l) - 1
                          ELSE Count(q, l)
      BY ThreadCounts
    <2>2. Held(y) \ Held(call[c]) = G /\ Held(call[c]) \ Held(y) = {}  OBVIOUS
    <2> QED BY <2>1, <2>2
  <1>6. /\ owners' \in [Procs -> [Locks -> Owner]] /\ Counted' /\ Exclusion'
        /\ \A l \in G : owners'[My(c)][l].shared = b
        /\ \A q \in Procs, l \in Locks :
             owners[q][l].refs > 0 => owners'[q][l].shared = owners[q][l].shared
    BY <1>3, <1>5, TakenLocks
  <1>7. HeldAreLocks'  BY <1>1, <1>2 DEF HeldAreLocks
  <1>9. InMode'
    <2>1. \A d \in Callers : \A l \in Held(call[d]) :
            l \in Locks /\ (Reads(call'[d]) <=> Reads(call[d]))
      BY <1>1, <1>2 DEF HeldAreLocks
    <2>2. \A d \in Callers : \A l \in Held(call[d]) : owners'[My(d)][l].shared <=> Reads(call'[d])
      BY <1>2, <1>4, <1>6, <2>1, HomeOf DEF InMode
    <2>3. \A l \in G : owners'[My(c)][l].shared <=> Reads(call'[c])
      BY <1>1, <1>6
    <2>4. \A d \in Callers : \A l \in Held(call'[d]) : owners'[My(d)][l].shared <=> Reads(call'[d])
      BY <1>1, <2>2, <2>3
    <2>5. \A p \in Procs, a \in Files : \A l \in HeldBy(xfer'[p][a]) : ~owners'[p][l].shared
      BY <1>2, <1>4, <1>6 DEF InMode, HeldAreLocks
    <2> QED BY <2>4, <2>5 DEF InMode, My
  <1> QED BY <1>6, <1>7, <1>9 DEF LockInv

\* A worker that gives its locks back, or gets those of the thread that begins it.
LEMMA WorkerGives ==
  ASSUME Typed, LockInv, NEW p \in Procs, NEW a \in Files, owners' = Given(p, HeldBy(xfer[p][a])),
         HeldBy(xfer'[p][a]) = {}, call' = call,
         \A q \in Procs, f \in Files : q # p \/ f # a => HeldBy(xfer'[q][f]) = HeldBy(xfer[q][f])
  PROVE  LockInv' /\ owners' \in [Procs -> [Locks -> Owner]]
  <1> DEFINE G == HeldBy(xfer[p][a])
  <1>2. Counted /\ HeldAreLocks /\ InMode  BY DEF LockInv
  <1>3. G \in SUBSET Locks  BY <1>2 DEF HeldAreLocks
  <1>4. \A l \in G : owners[p][l].refs > 0  BY <1>2, HolderHas
  <1>5. \A q \in Procs, l \in Locks :
          Count(q, l)' = IF q = p /\ l \in G THEN Count(q, l) - 1 ELSE Count(q, l)
    <2>1. \A d \in Callers : Held(call'[d]) = Held(call[d])  OBVIOUS
    <2>2. \A q \in Procs, l \in Locks :
           Count(q, l)' = IF q = p /\ l \in HeldBy(xfer'[p][a]) \ G THEN Count(q, l) + 1
                          ELSE IF q = p /\ l \in G \ HeldBy(xfer'[p][a]) THEN Count(q, l) - 1
                          ELSE Count(q, l)
      BY <2>1, WorkerCounts
    <2> QED BY <2>2
  <1> HIDE DEF G
  <1>6. /\ owners' \in [Procs -> [Locks -> Owner]] /\ Counted' /\ Exclusion'
        /\ \A q \in Procs, l \in Locks :
             owners'[q][l].refs > 0 => owners'[q][l].shared = owners[q][l].shared
    <2>1. owners' = Given(p, G)  BY DEF G
    <2> QED BY <1>3, <1>4, <1>5, <2>1, GivenLocks
  <1>0. \A q \in Procs, f \in Files : HeldBy(xfer'[q][f]) \subseteq HeldBy(xfer[q][f])
    OBVIOUS
  <1>7. HeldAreLocks'  BY <1>0, <1>2 DEF HeldAreLocks
  <1>8. /\ \A d \in Callers : \A l \in Held(call'[d]) : owners'[My(d)][l].refs > 0
        /\ \A q \in Procs, f \in Files : \A l \in HeldBy(xfer'[q][f]) : owners'[q][l].refs > 0
    BY <1>6, <1>7, HoldersHave
  <1>9. InMode'
    <2>2. \A d \in Callers : \A l \in Held(call'[d]) : owners'[My(d)][l].shared <=> Reads(call'[d])
      BY <1>2, <1>6, <1>8, HomeOf DEF InMode, HeldAreLocks
    <2>3. \A q \in Procs, f \in Files : \A l \in HeldBy(xfer'[q][f]) : ~owners'[q][l].shared
      BY <1>0, <1>2, <1>6, <1>8 DEF InMode, HeldAreLocks
    <2> QED BY <2>2, <2>3 DEF InMode, My
  <1> QED BY <1>6, <1>7, <1>9 DEF LockInv

LEMMA WorkerTakes ==
  ASSUME Typed, LockInv, NEW p \in Procs, NEW a \in Files, NEW c \in Callers, My(c) = p,
         NEW y, call' = [call EXCEPT ![c] = y], Held(y) = Held(call[c]),
         ~Reads(call[c]), ~Reads(y), NEW G, G \subseteq Held(call[c]),
         owners' = Accessed(p, G, FALSE), HeldBy(xfer[p][a]) = {}, HeldBy(xfer'[p][a]) = G,
         \A q \in Procs, f \in Files : q # p \/ f # a => HeldBy(xfer'[q][f]) = HeldBy(xfer[q][f])
  PROVE  LockInv' /\ owners' \in [Procs -> [Locks -> Owner]]
  <1>1. call'[c] = y /\ \A d \in Callers : d # c => call'[d] = call[d]  BY DEF Typed
  <1>2. Counted /\ HeldAreLocks /\ InMode  BY DEF LockInv
  <1>3. G \in SUBSET Locks  BY <1>2 DEF HeldAreLocks
  <1>4. /\ \A d \in Callers : \A l \in Held(call[d]) : owners[My(d)][l].refs > 0
        /\ \A q \in Procs, f \in Files : \A l \in HeldBy(xfer[q][f]) : owners[q][l].refs > 0
    BY <1>2, HomeOf, HolderHas
  <1>5. \A d \in Callers : Held(call'[d]) = Held(call[d])  BY <1>1
  <1>6. \A q \in Procs, l \in Locks :
          Count(q, l)' = IF q = p /\ l \in G THEN Count(q, l) + 1 ELSE Count(q, l)
    <2>2. \A q \in Procs, l \in Locks :
           Count(q, l)' = IF q = p /\ l \in HeldBy(xfer'[p][a]) \ HeldBy(xfer[p][a]) THEN Count(q, l) + 1
                          ELSE IF q = p /\ l \in HeldBy(xfer[p][a]) \ HeldBy(xfer'[p][a]) THEN Count(q, l) - 1
                          ELSE Count(q, l)
      BY <1>5, WorkerCounts
    <2> QED BY <2>2
  <1>7. \A l \in G : MayAccess(p, l, FALSE)
    <2> SUFFICES ASSUME NEW l \in G PROVE MayAccess(p, l, FALSE)  OBVIOUS
    <2>1. owners[p][l].refs > 0  BY <1>4
    <2>2. ~owners[p][l].shared  BY <1>2 DEF InMode
    <2>3. owners[p][l].shared \in BOOLEAN  BY <1>3 DEF Typed, Owner
    <2> QED BY <2>1, <2>2, <2>3 DEF MayAccess
  <1>8. /\ owners' \in [Procs -> [Locks -> Owner]] /\ Counted' /\ Exclusion'
        /\ \A l \in G : owners'[p][l].shared = FALSE
        /\ \A q \in Procs, l \in Locks :
             owners[q][l].refs > 0 => owners'[q][l].shared = owners[q][l].shared
    <2>1. FALSE \in BOOLEAN  OBVIOUS
    <2> QED BY ONLY Typed, LockInv, p \in Procs, owners' = Accessed(p, G, FALSE), <2>1, <1>3, <1>6, <1>7,
               TakenLocks
  <1>9. HeldAreLocks'
    <2>1. \A q \in Procs, f \in Files : HeldBy(xfer'[q][f]) \subseteq Locks
      BY <1>2, <1>3 DEF HeldAreLocks
    <2> QED BY <1>2, <1>5, <2>1 DEF HeldAreLocks
  <1>10. InMode'
    <2>1. \A d \in Callers : \A l \in Held(call'[d]) : owners'[My(d)][l].shared <=> Reads(call'[d])
      <3>1. \A d \in Callers : Reads(call'[d]) <=> Reads(call[d])  BY <1>1
      <3>2. \A d \in Callers : \A l \in Held(call[d]) : owners'[My(d)][l].shared = owners[My(d)][l].shared
        BY <1>2, <1>4, <1>8, HomeOf DEF HeldAreLocks
      <3>3. \A d \in Callers : \A l \in Held(call[d]) : owners[My(d)][l].shared <=> Reads(call[d])
        BY <1>2 DEF InMode
      <3> SUFFICES ASSUME NEW d \in Callers, NEW l \in Held(call'[d])
                   PROVE  owners'[My(d)][l].shared <=> Reads(call'[d])
        OBVIOUS
      <3>4. l \in Held(call[d])  BY <1>5
      <3>5. /\ owners'[My(d)][l].shared = owners[My(d)][l].shared
            /\ owners[My(d)][l].shared <=> Reads(call[d])
            /\ Reads(call'[d]) <=> Reads(call[d])
        BY <3>1, <3>2, <3>3, <3>4
      <3> HIDE DEF Reads
      <3> QED BY ONLY <3>5
    <2>2. \A q \in Procs, f \in Files : \A l \in HeldBy(xfer'[q][f]) : ~owners'[q][l].shared
      <3>1. \A q \in Procs, f \in Files : \A l \in HeldBy(xfer[q][f]) :
              owners'[q][l].shared = owners[q][l].shared
        BY <1>2, <1>4, <1>8 DEF HeldAreLocks
      <3>2. \A q \in Procs, f \in Files : \A l \in HeldBy(xfer[q][f]) : ~owners[q][l].shared
        BY <1>2 DEF InMode
      <3>3. \A l \in HeldBy(xfer'[p][a]) : ~owners'[p][l].shared  BY <1>8
      <3> SUFFICES ASSUME NEW q \in Procs, NEW f \in Files, NEW l \in HeldBy(xfer'[q][f])
                   PROVE  ~owners'[q][l].shared
        OBVIOUS
      <3>4. CASE q = p /\ f = a  BY <3>3, <3>4
      <3>5. CASE q # p \/ f # a
        <4>1. l \in HeldBy(xfer[q][f])  BY <3>5
        <4>2. owners'[q][l].shared = owners[q][l].shared /\ ~owners[q][l].shared
          BY <3>1, <3>2, <4>1
        <4> QED BY ONLY <4>2
      <3> QED BY <3>4, <3>5
    <2> QED BY <2>1, <2>2 DEF InMode, My
  <1> QED BY <1>8, <1>9, <1>10 DEF LockInv

----------------------------------------------------------------------------
(* The files of a model; leases. *)

LEMMA ModelFiles ==
  ASSUME NEW m \in Models
  PROVE  /\ FilesOf[m] \in Seq(Files)
         /\ \A j \in DOMAIN FilesOf[m] : j \in Nat /\ j >= 1 /\ FilesOf[m][j] \in Files
         /\ TreesOf(m) \subseteq Shared /\ TreesOf(m) \subseteq Files
         /\ \A s \in TreesOf(m) : HasFile(m, s)
         /\ \A a : a \in PrivateOf(m) <=> HasFile(m, a) /\ a \notin Shared
  <1>1. FilesOf[m] \in Seq(Files)  BY LifecycleAssumption DEF LifecycleAssumption
  <1>2. \A j \in DOMAIN FilesOf[m] : j \in Nat /\ j >= 1 /\ FilesOf[m][j] \in Files
    BY <1>1
  <1> QED BY <1>1, <1>2 DEF TreesOf, PrivateOf, HasFile

\* A file that is not shared belongs to one model.
LEMMA OneModel ==
  ASSUME NEW m \in Models, NEW n \in Models, NEW a, a \notin Shared, HasFile(m, a), HasFile(n, a)
  PROVE  m = n
  <1>1. a \in PrivateOf(m) \cap PrivateOf(n)  BY ModelFiles
  <1> QED BY <1>1, LifecycleAssumption DEF LifecycleAssumption

Lessee(x, m) == x.at \in Leasing /\ x.model = m

LEMMA LeasesMoved ==
  ASSUME Typed, Leased, NEW c \in Callers, NEW y, call' = [call EXCEPT ![c] = y],
         \A q \in Procs, m \in Models :
           states'[q][m].leases =
             IF q = My(c) /\ Lessee(y, m) /\ ~Lessee(call[c], m) THEN states[q][m].leases + 1
             ELSE IF q = My(c) /\ ~Lessee(y, m) /\ Lessee(call[c], m) THEN states[q][m].leases - 1
             ELSE states[q][m].leases
  PROVE  Leased' /\ \A q \in Procs, m \in Models : states'[q][m].leases \in Nat
  <1> SUFFICES ASSUME NEW q \in Procs, NEW m \in Models
               PROVE  /\ states'[q][m].leases = Cardinality(Lessees(q, m)')
                      /\ states'[q][m].leases \in Nat
    BY DEF Leased
  <1> DEFINE L == Lessees(q, m)  L2 == Lessees(q, m)'
  <1>1. call'[c] = y /\ \A d \in Callers : d # c => call'[d] = call[d]  BY DEF Typed
  <1>2. L = {d \in Callers : My(d) = q /\ Lessee(call[d], m)}  BY DEF Lessees, Lessee
  <1>3. L2 = {d \in Callers : My(d) = q /\ Lessee(call'[d], m)}  BY DEF Lessees, Lessee, My
  <1>4. states[q][m].leases = Cardinality(L)  BY DEF Leased
  <1>5. IsFiniteSet(L) /\ IsFiniteSet(L2) /\ Cardinality(L) \in Nat /\ Cardinality(L2) \in Nat
    <2>1. L \subseteq Callers /\ L2 \subseteq Callers  BY <1>2, <1>3
    <2> QED BY <2>1, LifecycleAssumption, FS_Subset, SomeCounted DEF LifecycleAssumption
  <1>6. CASE q = My(c) /\ Lessee(y, m) /\ ~Lessee(call[c], m)
    <2>1. c \notin L /\ L2 = L \cup {c}  BY <1>1, <1>2, <1>3, <1>6
    <2> HIDE DEF L, L2
    <2>2. Cardinality(L2) = Cardinality(L) + 1  BY <1>5, <2>1, PlusOne
    <2> QED BY <1>4, <1>5, <1>6, <2>2 DEF L, L2
  <1>7. CASE q = My(c) /\ ~Lessee(y, m) /\ Lessee(call[c], m)
    <2>1. c \in L /\ L2 = L \ {c}  BY <1>1, <1>2, <1>3, <1>7
    <2> HIDE DEF L, L2
    <2>2. Cardinality(L2) = Cardinality(L) - 1  BY <1>5, <2>1, MinusOne
    <2> QED BY <1>4, <1>5, <1>7, <2>2 DEF L, L2
  <1>8. CASE ~(q = My(c) /\ Lessee(y, m) /\ ~Lessee(call[c], m))
             /\ ~(q = My(c) /\ ~Lessee(y, m) /\ Lessee(call[c], m))
    <2>1. L2 = L  BY <1>1, <1>2, <1>3, <1>8
    <2> HIDE DEF L, L2
    <2> QED BY <1>4, <1>5, <1>8, <2>1 DEF L, L2
  <1> QED BY <1>6, <1>7, <1>8

----------------------------------------------------------------------------
(* What steps of others leave alone. *)

SameFor(m, S, S2) == S2[m].epoch = S[m].epoch /\ S2[m].deleting = S[m].deleting
KeepsFor(m, w, w2, r, r2) ==
  (\A a \in Files : HasFile(m, a) /\ w[a] => w2[a]) /\ (\A s \in Shared : r[s] => r2[s])
SameDeletions(S, S2) == \A m \in Models : SameFor(m, S, S2)
Grows(w, w2, r, r2) == (\A a \in Files : w[a] => w2[a]) /\ (\A s \in Shared : r[s] => r2[s])

LEMMA CompleteKept ==
  ASSUME NEW m \in Models, NEW w, NEW w2, NEW r, NEW r2, KeepsFor(m, w, w2, r, r2), Complete(m, w, r)
  PROVE  Complete(m, w2, r2)
  BY ModelFiles DEF KeepsFor, Complete, HasFile

LEMMA FittingStays ==
  ASSUME NEW x, NEW S, NEW S2, NEW w, NEW w2, NEW r, NEW r2,
         x.at # "idle" => SameFor(x.model, S, S2) /\ KeepsFor(x.model, w, w2, r, r2),
         Fitting(x, S, w, r)
  PROVE  Fitting(x, S2, w2, r2)
  <1>1. Placed(x)  BY DEF Fitting
  <1>2. Aged(x, S2)
    <2>1. CASE x.at = "idle"  BY <2>1 DEF Aged, Begun, Writing, Leasing
    <2>2. CASE x.at # "idle"  BY <2>2 DEF Fitting, Aged, SameFor, Fresh
    <2> QED BY <2>1, <2>2
  <1>3. Stocked(x, S2, w2, r2)
    <2>1. CASE x.at = "idle"  BY <2>1 DEF Stocked, Writing, Leasing
    <2>2. CASE x.at # "idle"
      <3>1. x.model \in Models /\ KeepsFor(x.model, w, w2, r, r2)  BY <1>1, <2>2 DEF Placed
      <3>2. Fresh(S2, x.model, x.epoch) => Fresh(S, x.model, x.epoch)
        BY <2>2 DEF SameFor, Fresh
      <3>3. \A j \in DOMAIN FilesOf[x.model] :
              FilesOf[x.model][j] \in Files /\ HasFile(x.model, FilesOf[x.model][j])
        BY <3>1, ModelFiles DEF HasFile
      <3>4. Found(x, w, r) => Found(x, w2, r2)
        <4>1. Complete(x.model, w, r) => Complete(x.model, w2, r2)  BY <3>1, CompleteKept
        <4>2. \A j \in DOMAIN FilesOf[x.model] : Known(x, w, j) => Known(x, w2, j)
          BY <3>1, <3>3 DEF Known, KeepsFor
        <4>3. \A j \in DOMAIN FilesOf[x.model] : w[FilesOf[x.model][j]] => w2[FilesOf[x.model][j]]
          BY <3>1, <3>3 DEF KeepsFor
        <4>4. \A s \in Shared : r[s] => r2[s]  BY <3>1 DEF KeepsFor
        <4> QED BY <4>1, <4>2, <4>3, <4>4 DEF Found
      <3>5. x.at \in Leasing \ {"verify"} => Complete(x.model, w2, r2)
        BY <3>1, CompleteKept DEF Fitting, Stocked
      <3> QED BY <3>2, <3>4, <3>5 DEF Fitting, Stocked
    <2> QED BY <2>1, <2>2
  <1> QED BY <1>1, <1>2, <1>3 DEF Fitting

LEMMA FittingKept ==
  ASSUME NEW x, NEW S, NEW S2, NEW w, NEW w2, NEW r, NEW r2,
         SameDeletions(S, S2), Grows(w, w2, r, r2), Fitting(x, S, w, r)
  PROVE  Fitting(x, S2, w2, r2)
  <1>1. x.at # "idle" => x.model \in Models  BY DEF Fitting, Placed
  <1>2. x.at # "idle" => SameFor(x.model, S, S2)  BY <1>1 DEF SameDeletions
  <1>3. KeepsFor(x.model, w, w2, r, r2)  BY DEF Grows, KeepsFor
  <1> QED BY <1>2, <1>3, FittingStays

Calm == \A q \in Procs : SameDeletions(states[q], states'[q])
Growing == Grows(whole, whole', ready, ready')

\* A step of one thread that neither begins nor ends a deletion.
LEMMA ThreadInv ==
  ASSUME LifecycleInv, NEW c \in Callers, NEW y, call' = [call EXCEPT ![c] = y],
         Typed', LockInv', Leased', Calm, Growing, Fitting(y, states[My(c)], whole', ready'),
         y.at # "drain", \A p \in Procs, a \in Files : TransferFits(p, a)'
  PROVE  LifecycleInv'
  <1>1. call'[c] = y /\ \A d \in Callers : d # c => call'[d] = call[d]
    BY DEF LifecycleInv, Typed
  <1>2. OneDrains'  BY <1>1 DEF LifecycleInv, OneDrains, My
  <1>3. ASSUME NEW d \in Callers PROVE CallFits(d)'
    <2>1. SameDeletions(states[My(d)], states'[My(d)])  BY HomeOf DEF Calm
    <2>2. CASE d = c
      <3>1. Grows(whole', whole', ready', ready')  BY DEF Grows
      <3>2. Fitting(y, states'[My(c)], whole', ready')  BY <2>1, <2>2, <3>1, FittingKept
      <3> QED BY <1>1, <2>2, <3>2 DEF CallFits, My
    <2>3. CASE d # c
      <3>1. Fitting(call[d], states[My(d)], whole, ready)  BY DEF LifecycleInv, CallFits
      <3>2. Fitting(call[d], states'[My(d)], whole', ready')  BY <2>1, <3>1, FittingKept DEF Growing
      <3> QED BY <1>1, <2>3, <3>2 DEF CallFits, My
    <2> QED BY <2>2, <2>3
  <1> QED BY <1>2, <1>3 DEF LifecycleInv

Waits(x, a) == x.subs[a] = "waiting"

\* Whoever waits goes on waiting, for the same.
LEMMA TransfersStay ==
  ASSUME LifecycleInv, NEW c \in Callers, NEW y, call' = [call EXCEPT ![c] = y], xfer' = xfer,
         Calm, Growing, \A a \in Files : Waits(y, a) <=> Waits(call[c], a),
         (\E a \in Files : Waits(y, a)) => y.epoch = call[c].epoch /\ y.model = call[c].model
  PROVE  \A p \in Procs, a \in Files : TransferFits(p, a)'
  <1> SUFFICES ASSUME NEW p \in Procs, NEW a \in Files PROVE TransferFits(p, a)'  OBVIOUS
  <1>1. call'[c] = y /\ \A d \in Callers : d # c => call'[d] = call[d]
    BY DEF LifecycleInv, Typed
  <1>2. Users(p, a)' = Users(p, a)  BY <1>1 DEF Users, Waits, My
  <1>3. \A d \in Users(p, a) : /\ d \in Callers /\ My(d) = p /\ call'[d].epoch = call[d].epoch
                               /\ call'[d].model = call[d].model /\ call[d].model \in Models
    <2> SUFFICES ASSUME NEW d \in Users(p, a)
                 PROVE  /\ d \in Callers /\ My(d) = p /\ call'[d].epoch = call[d].epoch
                        /\ call'[d].model = call[d].model /\ call[d].model \in Models
      OBVIOUS
    <2>1. d \in Callers /\ My(d) = p /\ Waits(call[d], a)  BY DEF Users, Waits
    <2>2. Placed(call[d])  BY <2>1 DEF LifecycleInv, CallFits, Fitting
    <2>3. call[d].model \in Models  BY <2>1, <2>2 DEF Placed, Waits
    <2> QED BY <1>1, <2>1, <2>3
  <1>4. TransferFits(p, a)  BY DEF LifecycleInv
  <1>5. SameDeletions(states[p], states'[p])  BY DEF Calm
  <1>6. \A d \in Users(p, a) : Fresh(states[p], call[d].model, call[d].epoch)
                               => Fresh(states'[p], call'[d].model, call'[d].epoch)
    BY <1>3, <1>5 DEF Fresh, SameDeletions, SameFor
  <1>7. whole[a] => whole'[a]  BY DEF Growing, Grows
  <1> HIDE DEF Users
  <1> QED BY <1>2, <1>4, <1>6, <1>7 DEF TransferFits

\* A thread withdraws: what it alone waited for is stopped.
LEMMA TransfersLeft ==
  ASSUME LifecycleInv, NEW c \in Callers, NEW y, call' = [call EXCEPT ![c] = y], xfer' = Withdrawn(c),
         Calm, Growing, \A a \in Files : ~Waits(y, a)
  PROVE  /\ \A p \in Procs, a \in Files : TransferFits(p, a)'
         /\ xfer' \in [Procs -> [Files -> TransferRecord]]
         /\ \A p \in Procs, a \in Files : HeldBy(xfer'[p][a]) = HeldBy(xfer[p][a])
  <1>1. call'[c] = y /\ \A d \in Callers : d # c => call'[d] = call[d]
    BY DEF LifecycleInv, Typed
  <1>2. xfer \in [Procs -> [Files -> TransferRecord]]  BY DEF LifecycleInv, Typed
  <1>3. My(c) \in Procs  BY HomeOf
  <1>4. \A p \in Procs : p # My(c) => xfer'[p] = xfer[p]  BY <1>2 DEF Withdrawn
  <1>5. \A a \in Files : xfer'[My(c)][a] = IF Users(My(c), a) = {c} THEN [xfer[My(c)][a] EXCEPT !.stop = TRUE]
                                           ELSE xfer[My(c)][a]
    <2> HIDE DEF Users
    <2> QED BY <1>2, <1>3 DEF Withdrawn
  <1>6. \A t \in TransferRecord : LET t2 == [t EXCEPT !.stop = TRUE] IN
          /\ t2 \in TransferRecord /\ t2.at = t.at /\ t2.model = t.model /\ t2.failed = t.failed
          /\ t2.stop
    BY DEF TransferRecord
  <1>7. \A p \in Procs, a \in Files :
          /\ xfer'[p][a] \in TransferRecord /\ xfer'[p][a].at = xfer[p][a].at
          /\ xfer'[p][a].model = xfer[p][a].model /\ xfer'[p][a].failed = xfer[p][a].failed
          /\ xfer'[p][a] = xfer[p][a] \/ (p = My(c) /\ Users(p, a) = {c})
          /\ p = My(c) /\ Users(p, a) = {c} => xfer'[p][a].stop
    <2> HIDE DEF Users
    <2> SUFFICES ASSUME NEW p \in Procs, NEW a \in Files
                 PROVE  /\ xfer'[p][a] \in TransferRecord /\ xfer'[p][a].at = xfer[p][a].at
                        /\ xfer'[p][a].model = xfer[p][a].model /\ xfer'[p][a].failed = xfer[p][a].failed
                        /\ xfer'[p][a] = xfer[p][a] \/ (p = My(c) /\ Users(p, a) = {c})
                        /\ p = My(c) /\ Users(p, a) = {c} => xfer'[p][a].stop
      OBVIOUS
    <2>1. xfer[p][a] \in TransferRecord  BY <1>2
    <2>2. CASE p = My(c) /\ Users(p, a) = {c}  BY <1>5, <1>6, <2>1, <2>2
    <2>3. CASE ~(p = My(c) /\ Users(p, a) = {c})  BY <1>4, <1>5, <2>1, <2>3
    <2> QED BY <2>2, <2>3
  <1>8. xfer' \in [Procs -> [Files -> TransferRecord]]
    <2>1. xfer' = [xfer EXCEPT ![My(c)] = xfer'[My(c)]]  BY <1>2, <1>3 DEF Withdrawn
    <2>2. xfer'[My(c)] \in [Files -> TransferRecord]
      <3>1. xfer'[My(c)] = [a \in Files |-> xfer'[My(c)][a]]
        <4> HIDE DEF Users
        <4> QED BY <1>2, <1>3 DEF Withdrawn
      <3> QED BY <1>3, <1>7, <3>1
    <2> QED BY <1>2, <2>1, <2>2
  <1>9. \A p \in Procs, a \in Files : HeldBy(xfer'[p][a]) = HeldBy(xfer[p][a])
    BY <1>7 DEF HeldBy
  <1>10. ASSUME NEW p \in Procs, NEW a \in Files PROVE TransferFits(p, a)'
    <2>1. Users(p, a)' = Users(p, a) \ {c}  BY <1>1 DEF Users, Waits, My
    <2>2. \A d \in Users(p, a)' : /\ d \in Callers /\ My(d) = p /\ call'[d] = call[d]
                                  /\ call[d].model \in Models
      <3> SUFFICES ASSUME NEW d \in Users(p, a)'
                   PROVE  d \in Callers /\ My(d) = p /\ call'[d] = call[d] /\ call[d].model \in Models
        OBVIOUS
      <3>1. d \in Callers /\ My(d) = p /\ Waits(call[d], a) /\ d # c  BY <2>1 DEF Users, Waits
      <3>2. Placed(call[d])  BY <3>1 DEF LifecycleInv, CallFits, Fitting
      <3> QED BY <1>1, <3>1, <3>2 DEF Placed, Waits
    <2>3. TransferFits(p, a)  BY DEF LifecycleInv
    <2>4. SameDeletions(states[p], states'[p])  BY DEF Calm
    <2>5. \A d \in Users(p, a)' : Fresh(states[p], call[d].model, call[d].epoch)
                                  => Fresh(states'[p], call'[d].model, call'[d].epoch)
      BY <2>2, <2>4 DEF Fresh, SameDeletions, SameFor
    <2>6. whole[a] => whole'[a]  BY DEF Growing, Grows
    <2>7. c \in Users(p, a) => p = My(c)  BY DEF Users
    <2> DEFINE t == xfer[p][a]  t2 == xfer'[p][a]  U == Users(p, a)  U2 == Users(p, a)'
    <2>8. t2.at = "none" => U2 = {}  BY <1>7, <2>1, <2>3 DEF TransferFits
    <2>9. t2.at # "none" => t2.model \in Models /\ HasFile(t2.model, a)
      BY <1>7, <2>3 DEF TransferFits
    <2>10. t2.at # "none" /\ ~t2.stop =>
             /\ U2 # {}
             /\ a \notin Shared => \A d \in U2 : Fresh(states'[p], call'[d].model, call'[d].epoch)
      <3> SUFFICES ASSUME t2.at # "none", ~t2.stop
                   PROVE  /\ U2 # {}
                          /\ a \notin Shared => \A d \in U2 : Fresh(states'[p], call'[d].model, call'[d].epoch)
        OBVIOUS
      <3>1. ~(p = My(c) /\ U = {c}) /\ t2 = t  BY <1>7
      <3>2. U # {} /\ (a \notin Shared => \A d \in U : Fresh(states[p], call[d].model, call[d].epoch))
        <4> HIDE DEF U
        <4> QED BY <2>3, <3>1 DEF TransferFits, U
      <3> HIDE DEF U, t, t2
      <3>3. U2 # {}  BY <2>1, <2>7, <3>1, <3>2 DEF U
      <3>4. \A d \in U2 : d \in U  BY <2>1 DEF U
      <3> QED BY <2>5, <3>2, <3>3, <3>4
    <2>11. t2.at \in {"release", "done"} /\ ~t2.failed /\ U2 # {} => whole'[a]
      BY <1>7, <2>1, <2>3, <2>6 DEF TransferFits
    <2> QED BY <2>8, <2>9, <2>10, <2>11 DEF TransferFits
  <1> QED BY <1>8, <1>9, <1>10

----------------------------------------------------------------------------
(* Threads that go on, take locks or leave. *)

\* A thread that goes on, its subscriptions as they were.
LEMMA GoesOn ==
  ASSUME LifecycleInv, NEW c \in Callers, NEW y \in CallRecord, call' = [call EXCEPT ![c] = y],
         xfer' = xfer, part' = part, whole' = whole, ready' \in [Shared -> BOOLEAN], Growing,
         install' \in [Procs -> [Shared -> Callers \cup {None}]],
         states' \in [Procs -> [Models -> ModelState]], Calm, Leased',
         owners' \in [Procs -> [Locks -> Owner]], LockInv',
         \A a \in Files : Waits(y, a) <=> Waits(call[c], a),
         (\E a \in Files : Waits(y, a)) => y.epoch = call[c].epoch /\ y.model = call[c].model,
         y.at # "drain", Fitting(y, states[My(c)], whole, ready')
  PROVE  LifecycleInv'
  <1>1. Typed'  BY DEF LifecycleInv, Typed
  <1>2. \A p \in Procs, a \in Files : TransferFits(p, a)'  BY TransfersStay
  <1>3. Fitting(y, states[My(c)], whole', ready')  OBVIOUS
  <1> QED BY <1>1, <1>2, <1>3, ThreadInv

\* One that does nothing else.
LEMMA QuietInv ==
  ASSUME LifecycleInv, NEW c \in Callers, NEW y \in CallRecord, call' = [call EXCEPT ![c] = y], Elsewhere,
         Held(y) = Held(call[c]), Held(y) # {} => (Reads(y) <=> Reads(call[c])),
         \A a \in Files : Waits(y, a) <=> Waits(call[c], a),
         (\E a \in Files : Waits(y, a)) => y.epoch = call[c].epoch /\ y.model = call[c].model,
         \A m \in Models : Lessee(y, m) <=> Lessee(call[c], m),
         y.at # "drain", Fitting(y, states[My(c)], whole, ready)
  PROVE  LifecycleInv'
  <1>1. Typed /\ LockInv /\ Leased  BY DEF LifecycleInv
  <1>2. /\ UNCHANGED <<whole, part, ready, owners, states, xfer, install>>
        /\ Calm /\ Growing /\ \A p \in Procs, a \in Files : HeldBy(xfer'[p][a]) = HeldBy(xfer[p][a])
    BY DEF Elsewhere, durables, Calm, Growing, SameDeletions, SameFor, Grows
  <1>3. LockInv'  BY <1>1, <1>2, ThreadKeeps
  <1>4. Leased'  BY <1>1, <1>2, LeasesMoved
  <1>5. Fitting(y, states[My(c)], whole, ready')  BY <1>2
  <1>6. /\ states' \in [Procs -> [Models -> ModelState]] /\ owners' \in [Procs -> [Locks -> Owner]]
        /\ ready' \in [Shared -> BOOLEAN] /\ install' \in [Procs -> [Shared -> Callers \cup {None}]]
    BY <1>1, <1>2 DEF Typed
  <1> QED BY <1>2, <1>3, <1>4, <1>5, <1>6, GoesOn

\* The locks of the blocks a thread is in.
LEMMA HeldAt ==
  ASSUME NEW x
  PROVE  /\ x.at \in {"idle", "begin", "peek", "mutation", "lease", "exclusive", "ready", "failed", "inuse"}
            => Held(x) = {}
         /\ x.at = "model" => Held(x) = {"mutation"}
         /\ x.at \in Writing \ {"replace"} => Held(x) = {"mutation", x.model}
         /\ x.at = "replace" => Held(x) = {"mutation", x.model, FilesOf[x.model][x.i]}
         /\ x.at \in Leasing => Held(x) = {x.model} \cup TreesOf(x.model)
         /\ x.at \in {"reading"} \cup Deleting => Held(x) = {x.model}
  BY DEF Held, Writing, Leasing, Deleting

Moved(x, at) == [x EXCEPT !.at = at]
Stepped(x, at) == [x EXCEPT !.at = at, !.i = x.i + 1]
Left(x, at) ==
  IF at \in Ended THEN Over(x, at) ELSE [x EXCEPT !.at = at, !.i = 1, !.subs = NoCall.subs]

LEMMA MovedRecord ==
  ASSUME NEW x \in CallRecord, NEW at \in Ats
  PROVE  LET y == Moved(x, at) IN
         /\ y \in CallRecord /\ y.at = at /\ y.op = x.op /\ y.model = x.model /\ y.i = x.i
         /\ y.epoch = x.epoch /\ y.outer = x.outer /\ y.cancelled = x.cancelled /\ y.subs = x.subs
  BY DEF CallRecord, Moved

LEMMA SteppedRecord ==
  ASSUME NEW x \in CallRecord, NEW at \in Ats
  PROVE  LET y == Stepped(x, at) IN
         /\ y \in CallRecord /\ y.at = at /\ y.op = x.op /\ y.model = x.model /\ y.i = x.i + 1
         /\ y.epoch = x.epoch /\ y.outer = x.outer /\ y.cancelled = x.cancelled /\ y.subs = x.subs
  <1>1. x.i \in Nat  BY DEF CallRecord
  <1> DEFINE k == x.i + 1
  <1>2. k \in Nat  BY <1>1
  <1> HIDE DEF k
  <1>3. Stepped(x, at) = [x EXCEPT !.at = at, !.i = k]  BY DEF Stepped, k
  <1>4. LET y == [x EXCEPT !.at = at, !.i = k] IN
         /\ y \in CallRecord /\ y.at = at /\ y.op = x.op /\ y.model = x.model /\ y.i = k
         /\ y.epoch = x.epoch /\ y.outer = x.outer /\ y.cancelled = x.cancelled /\ y.subs = x.subs
    BY <1>2 DEF CallRecord
  <1> QED BY <1>3, <1>4 DEF k

LEMMA NoCallRecord ==
  /\ NoCall \in CallRecord /\ NoCall.at = "idle" /\ NoCall.op = "none" /\ NoCall.i = 1
  /\ \A a \in Files : NoCall.subs[a] = "none"
  <1> DEFINE s == [a \in Files |-> "none"]
  <1>1. s \in [Files -> {"none", "waiting", "ok", "error"}] /\ \A a \in Files : s[a] = "none"
    OBVIOUS
  <1> HIDE DEF s
  <1>2. NoCall = [at |-> "idle", op |-> "none", model |-> None, i |-> 1, epoch |-> 0, outer |-> 0,
                  cancelled |-> FALSE, subs |-> s]
    BY DEF NoCall, s
  <1>3. "idle" \in Ats /\ 0 \in Nat /\ 1 \in Nat  BY DEF Ats
  <1> QED BY <1>1, <1>2, <1>3 DEF CallRecord

LEMMA LeftRecord ==
  ASSUME NEW x \in CallRecord, NEW at \in Ended \cup {"lease", "mutation"}
  PROVE  LET y == Left(x, at) IN
         /\ y \in CallRecord /\ y.at = at /\ y.op = x.op /\ y.model = x.model /\ y.i = 1
         /\ at \notin Ended => y.epoch = x.epoch
         /\ \A a \in Files : y.subs[a] = "none"
  <1>1. /\ at \in Ats /\ NoCall.subs \in [Files -> {"none", "waiting", "ok", "error"}]
        /\ \A a \in Files : NoCall.subs[a] = "none"
    <2>1. at \in Ats  BY DEF Ats, Ended
    <2> QED BY <2>1, NoCallRecord DEF CallRecord
  <1>2. CASE at \in Ended
    <2>1. Left(x, at) = [NoCall EXCEPT !.at = at, !.op = x.op, !.model = x.model]
      BY <1>2 DEF Left, Over
    <2>2. LET y == [NoCall EXCEPT !.at = at, !.op = x.op, !.model = x.model] IN
          /\ y \in CallRecord /\ y.at = at /\ y.op = x.op /\ y.model = x.model /\ y.i = NoCall.i
          /\ y.subs = NoCall.subs
      BY <1>1, NoCallRecord DEF CallRecord
    <2> QED BY <1>1, <1>2, <2>1, <2>2, NoCallRecord
  <1>3. CASE at \notin Ended
    <2>1. Left(x, at) = [x EXCEPT !.at = at, !.i = 1, !.subs = NoCall.subs]
      BY <1>3 DEF Left
    <2> DEFINE s == NoCall.subs
    <2> HIDE DEF s
    <2>2. Left(x, at) = [x EXCEPT !.at = at, !.i = 1, !.subs = s]  BY <2>1 DEF s
    <2>3. s \in [Files -> {"none", "waiting", "ok", "error"}] /\ \A a \in Files : s[a] = "none"
      BY <1>1 DEF s
    <2>4. LET y == [x EXCEPT !.at = at, !.i = 1, !.subs = s] IN
          /\ y \in CallRecord /\ y.at = at /\ y.op = x.op /\ y.model = x.model /\ y.i = 1
          /\ y.epoch = x.epoch /\ y.subs = s
      BY <1>1, <2>3 DEF CallRecord
    <2> QED BY <1>3, <2>2, <2>3, <2>4
  <1> QED BY <1>2, <1>3

LEMMA LeaveInv ==
  ASSUME LifecycleInv, NEW c \in Callers, NEW at \in Ended \cup {"lease", "mutation"}, Leave(c, at),
         call[c].at # "idle", at = "lease" => call[c].op = "load", at = "mutation" => call[c].at = "reading",
         states' \in [Procs -> [Models -> ModelState]], Calm, Leased'
  PROVE  LifecycleInv'
  <1> DEFINE x == call[c]  y == Left(x, at)
  <1>1. Typed /\ LockInv /\ x \in CallRecord /\ Fitting(x, states[My(c)], whole, ready)
    BY DEF LifecycleInv, Typed, CallFits
  <1>2. /\ call' = [call EXCEPT ![c] = y] /\ owners' = Given(My(c), Held(x)) /\ xfer' = Withdrawn(c)
        /\ whole' = whole /\ part' = part /\ ready' = ready
    BY DEF Leave, Left, durables
  <1>3. install' \in [Procs -> [Shared -> Callers \cup {None}]]
    <2>1. install \in [Procs -> [Shared -> Callers \cup {None}]] /\ My(c) \in Procs
      BY <1>1, HomeOf DEF Typed
    <2>2. install' = [install EXCEPT ![My(c)] = [s \in Shared |-> IF install[My(c)][s] = c THEN None
                                                                 ELSE install[My(c)][s]]]
      BY DEF Leave
    <2> QED BY <2>1, <2>2
  <1>4. /\ y \in CallRecord /\ y.at = at /\ y.op = x.op /\ y.model = x.model /\ y.i = 1
        /\ at \notin Ended => y.epoch = x.epoch
        /\ \A a \in Files : y.subs[a] = "none"
    <2> HIDE DEF x
    <2> QED BY <1>1, LeftRecord
  <1> HIDE DEF y
  <1>5. Held(y) = {} /\ at \notin Writing \cup Leasing \cup Deleting
    <2>1. at \in {"ready", "failed", "inuse", "lease", "mutation"}  BY DEF Ended
    <2> QED BY <1>4, <2>1, HeldAt DEF Writing, Leasing, Deleting
  <1>6. /\ Growing /\ \A a \in Files : ~Waits(y, a)
    BY <1>2, <1>4 DEF Growing, Grows, Waits
  <1>7. /\ \A p \in Procs, a \in Files : TransferFits(p, a)'
        /\ xfer' \in [Procs -> [Files -> TransferRecord]]
        /\ \A p \in Procs, a \in Files : HeldBy(xfer'[p][a]) = HeldBy(xfer[p][a])
    BY <1>2, <1>6, TransfersLeft
  <1>8. LockInv' /\ owners' \in [Procs -> [Locks -> Owner]]
    <2> DEFINE G == Held(x)
    <2>1. owners' = Given(My(c), G) /\ G \subseteq Held(call[c]) /\ Held(y) = Held(call[c]) \ G
      BY <1>2, <1>5
    <2> HIDE DEF G
    <2> QED BY <1>1, <1>2, <1>5, <1>7, <2>1, ThreadGives
  <1>9. Typed'  BY <1>1, <1>2, <1>3, <1>4, <1>7, <1>8 DEF Typed
  <1>10. Fitting(y, states[My(c)], whole', ready')
    <2>1. Placed(x) /\ Aged(x, states[My(c)])  BY <1>1 DEF Fitting
    <2>2. Placed(y)
      <3>1. y.at # "idle" => y.model \in Models  BY <1>4, <2>1 DEF Placed
      <3>2. y.at \notin {"join", "replace"}  BY <1>4, <1>5 DEF Writing
      <3>3. y.at \in Leasing \cup {"lease"} => y.op = "load"  BY <1>4, <1>5
      <3>4. y.at \notin Deleting \cup {"exclusive"}  BY <1>4, <1>5 DEF Ended
      <3>5. y.i >= 1 /\ y.i = 1  BY <1>4
      <3>6. \A a \in Files : y.subs[a] # "waiting"  BY <1>4
      <3> HIDE DEF x
      <3> QED BY <3>1, <3>2, <3>3, <3>4, <3>5, <3>6 DEF Placed
    <2>3. Aged(y, states[My(c)])
      <3>1. CASE at = "mutation"
        <4>1. x.at \in Begun /\ y.model = x.model /\ y.epoch = x.epoch
          BY <1>4, <3>1 DEF Begun, Ended
        <4>2. y.at # "drain" /\ y.at \notin Leasing  BY <1>4, <1>5, <3>1
        <4> QED BY <2>1, <4>1, <4>2 DEF Aged
      <3>2. CASE at # "mutation"
        <4>1. y.at \notin Begun  BY <1>4, <1>5, <3>2 DEF Begun, Ended
        <4> QED BY <1>4, <1>5, <4>1 DEF Aged, Deleting
      <3> QED BY <3>1, <3>2
    <2>4. Stocked(y, states[My(c)], whole', ready')  BY <1>4, <1>5 DEF Stocked
    <2> QED BY <2>2, <2>3, <2>4 DEF Fitting
  <1>11. y.at # "drain"  BY <1>4, <1>5 DEF Deleting
  <1> QED BY <1>2, <1>6, <1>7, <1>8, <1>9, <1>10, <1>11, ThreadInv

\* Leaving without a lease, by whatever way.
LEMMA LeavesInv ==
  ASSUME LifecycleInv, NEW c \in Callers, NEW at \in Ended \cup {"lease", "mutation"}, Leave(c, at),
         call[c].at # "idle", at = "lease" => call[c].op = "load", at = "mutation" => call[c].at = "reading",
         states' = states, call[c].at \notin Leasing
  PROVE  LifecycleInv'
  <1>1. Typed /\ Leased  BY DEF LifecycleInv
  <1>2. states' \in [Procs -> [Models -> ModelState]] /\ Calm
    BY <1>1 DEF Typed, Calm, SameDeletions, SameFor
  <1>3. call' = [call EXCEPT ![c] = Left(call[c], at)]  BY DEF Leave, Left
  <1>4. Left(call[c], at).at = at /\ at \notin Leasing
    <2>1. call[c] \in CallRecord  BY <1>1 DEF Typed
    <2>2. at \notin Leasing  BY DEF Ended, Leasing
    <2> QED BY <2>1, <2>2, LeftRecord
  <1>5. \A m \in Models : ~Lessee(Left(call[c], at), m) /\ ~Lessee(call[c], m)
    BY <1>4 DEF Lessee
  <1>6. Leased'  BY <1>1, <1>3, <1>5, LeasesMoved
  <1> QED BY <1>2, <1>6, LeaveInv

LEMMA FailsInv ==
  ASSUME LifecycleInv, NEW c \in Callers, Fails(c) \/ InUse(c), call[c].at # "idle", call[c].at \notin Leasing
  PROVE  LifecycleInv'
  <1>1. \E at \in Ended : Leave(c, at) /\ states' = states
    BY DEF Fails, InUse, Ended
  <1>2. PICK at \in Ended : Leave(c, at) /\ states' = states  BY <1>1
  <1>3. at \in Ended \cup {"lease", "mutation"} /\ at # "lease" /\ at # "mutation"  BY DEF Ended
  <1> QED BY <1>2, <1>3, LeavesInv

LEMMA DownloadedInv ==
  ASSUME LifecycleInv, NEW c \in Callers, Downloaded(c), call[c].at # "idle", call[c].at \notin Leasing
  PROVE  LifecycleInv'
  <1>1. CASE call[c].op = "load"
    <2>1. Leave(c, "lease") /\ states' = states  BY <1>1 DEF Downloaded
    <2> QED BY <1>1, <2>1, LeavesInv
  <1>2. CASE call[c].op # "load"
    <2>1. Leave(c, "ready") /\ states' = states  BY <1>2 DEF Downloaded
    <2>2. "ready" \in Ended  BY DEF Ended
    <2> QED BY <2>1, <2>2, LeavesInv
  <1> QED BY <1>1, <1>2

----------------------------------------------------------------------------
(* The steps of the threads. *)

LEMMA CallOf ==
  ASSUME LifecycleInv, NEW c \in Callers
  PROVE  /\ Typed /\ LockInv /\ My(c) \in Procs /\ call[c] \in CallRecord
         /\ Placed(call[c]) /\ Aged(call[c], states[My(c)])
         /\ Stocked(call[c], states[My(c)], whole, ready)
         /\ call[c].i \in Nat
         /\ State(c) = states[My(c)][call[c].model]
         /\ Check(c) <=> ~call[c].cancelled /\ Fresh(states[My(c)], call[c].model, call[c].epoch)
         /\ call[c].at # "idle" => call[c].model \in Models /\ State(c) \in ModelState
                                   /\ (AssetsReady(call[c].model) <=> Complete(call[c].model, whole, ready))
  <1>1. Typed /\ LockInv /\ My(c) \in Procs  BY HomeOf DEF LifecycleInv
  <1>2. call[c] \in CallRecord  BY <1>1 DEF Typed
  <1>3. Fitting(call[c], states[My(c)], whole, ready)  BY DEF LifecycleInv, CallFits
  <1>4. call[c].i \in Nat
    <2> DEFINE x == call[c]
    <2>1. x \in CallRecord  BY <1>2
    <2> HIDE DEF x
    <2>2. x.i \in Nat  BY <2>1 DEF CallRecord
    <2> QED BY <2>2 DEF x
  <1>5. call[c].at # "idle" => call[c].model \in Models  BY <1>3 DEF Fitting, Placed
  <1>6. Check(c) <=> ~call[c].cancelled /\ Fresh(states[My(c)], call[c].model, call[c].epoch)
    BY DEF Check, Current, State, Fresh
  <1>7. call[c].at # "idle" => State(c) \in ModelState  BY <1>1, <1>5 DEF State, Typed
  <1>8. AssetsReady(call[c].model) <=> Complete(call[c].model, whole, ready)
    BY DEF AssetsReady, Complete
  <1> QED BY <1>1, <1>2, <1>3, <1>4, <1>5, <1>6, <1>7, <1>8 DEF Fitting, State

LEMMA AtInv ==
  ASSUME LifecycleInv, NEW c \in Callers, NEW at \in Ats, At(c, at), Elsewhere,
         Held(Moved(call[c], at)) = Held(call[c]),
         Held(call[c]) # {} => (Reads(Moved(call[c], at)) <=> Reads(call[c])),
         at \in Leasing <=> call[c].at \in Leasing, at # "drain",
         Fitting(Moved(call[c], at), states[My(c)], whole, ready)
  PROVE  LifecycleInv'
  <1> DEFINE x == call[c]  y == Moved(x, at)
  <1>1. x \in CallRecord  BY CallOf
  <1>2. /\ y \in CallRecord /\ y.at = at /\ y.model = x.model /\ y.epoch = x.epoch /\ y.subs = x.subs
    <2> HIDE DEF x
    <2> QED BY <1>1, MovedRecord
  <1>3. call' = [call EXCEPT ![c] = y]  BY DEF At, Moved
  <1>4. \A m \in Models : Lessee(y, m) <=> Lessee(x, m)  BY <1>2 DEF Lessee
  <1>5. \A a \in Files : Waits(y, a) <=> Waits(x, a)  BY <1>2 DEF Waits
  <1>6. /\ Held(y) = Held(call[c])
        /\ Held(y) # {} => (Reads(y) <=> Reads(call[c]))
        /\ Fitting(y, states[My(c)], whole, ready)
    OBVIOUS
  <1>7. y.epoch = call[c].epoch /\ y.model = call[c].model /\ y.at # "drain"  BY <1>2
  <1> HIDE DEF y
  <1>8. /\ \A a \in Files : Waits(y, a) <=> Waits(call[c], a)
        /\ \A m \in Models : Lessee(y, m) <=> Lessee(call[c], m)
    BY <1>4, <1>5
  <1> HIDE DEF x
  <1>9. /\ y \in CallRecord
        /\ (\E a \in Files : Waits(y, a)) => y.epoch = call[c].epoch /\ y.model = call[c].model
    BY <1>2, <1>6, <1>7
  <1> QED BY <1>3, <1>6, <1>7, <1>8, <1>9, QuietInv

LEMMA SteppedInv ==
  ASSUME LifecycleInv, NEW c \in Callers, NEW at \in Ats, Next1(c, at), Elsewhere,
         Held(Stepped(call[c], at)) = Held(call[c]),
         Reads(Stepped(call[c], at)) <=> Reads(call[c]),
         at \in Leasing <=> call[c].at \in Leasing, at # "drain",
         Fitting(Stepped(call[c], at), states[My(c)], whole, ready)
  PROVE  LifecycleInv'
  <1> DEFINE x == call[c]  y == Stepped(x, at)
  <1>1. x \in CallRecord  BY CallOf
  <1>2. /\ y \in CallRecord /\ y.at = at /\ y.model = x.model /\ y.epoch = x.epoch /\ y.subs = x.subs
    <2> HIDE DEF x
    <2> QED BY <1>1, SteppedRecord
  <1>3. call' = [call EXCEPT ![c] = y]  BY DEF Next1, Stepped
  <1>4. \A m \in Models : Lessee(y, m) <=> Lessee(x, m)  BY <1>2 DEF Lessee
  <1>5. \A a \in Files : Waits(y, a) <=> Waits(x, a)  BY <1>2 DEF Waits
  <1>6. /\ Held(y) = Held(call[c])
        /\ Held(y) # {} => (Reads(y) <=> Reads(call[c]))
        /\ Fitting(y, states[My(c)], whole, ready)
    OBVIOUS
  <1>7. y.epoch = call[c].epoch /\ y.model = call[c].model /\ y.at # "drain"  BY <1>2
  <1> HIDE DEF y
  <1>8. /\ \A a \in Files : Waits(y, a) <=> Waits(call[c], a)
        /\ \A m \in Models : Lessee(y, m) <=> Lessee(call[c], m)
    BY <1>4, <1>5
  <1> HIDE DEF x
  <1>9. /\ y \in CallRecord
        /\ (\E a \in Files : Waits(y, a)) => y.epoch = call[c].epoch /\ y.model = call[c].model
    BY <1>2, <1>6, <1>7
  <1> QED BY <1>3, <1>6, <1>7, <1>8, <1>9, QuietInv

LEMMA TakeInv ==
  ASSUME LifecycleInv, NEW c \in Callers, NEW at \in Ats, NEW l \in Locks, NEW b \in BOOLEAN,
         Take(c, l, b, at), MayAccess(My(c), l, b), l \notin Held(call[c]),
         Held(Moved(call[c], at)) = Held(call[c]) \cup {l},
         Reads(Moved(call[c], at)) <=> b,
         Held(call[c]) # {} => (Reads(Moved(call[c], at)) <=> Reads(call[c])),
         at \notin Leasing, call[c].at \notin Leasing, at # "drain",
         Fitting(Moved(call[c], at), states[My(c)], whole, ready)
  PROVE  LifecycleInv'
  <1> DEFINE x == call[c]  y == Moved(x, at)
  <1>1. x \in CallRecord /\ Typed /\ LockInv /\ Leased  BY CallOf DEF LifecycleInv
  <1>2. /\ y \in CallRecord /\ y.at = at /\ y.model = x.model /\ y.epoch = x.epoch /\ y.subs = x.subs
    <2> HIDE DEF x
    <2> QED BY <1>1, MovedRecord
  <1>3. /\ call' = [call EXCEPT ![c] = y] /\ owners' = Accessed(My(c), {l}, b)
        /\ UNCHANGED <<whole, part, ready, states, xfer, install>>
    BY DEF Take, At, Moved, durables
  <1>4. \A m \in Models : ~Lessee(y, m) /\ ~Lessee(x, m)  BY <1>2 DEF Lessee
  <1>5. \A a \in Files : Waits(y, a) <=> Waits(x, a)  BY <1>2 DEF Waits
  <1>6. /\ Held(y) = Held(call[c]) \cup {l} /\ (Reads(y) <=> b)
        /\ Held(call[c]) # {} => (Reads(y) <=> Reads(call[c]))
        /\ Fitting(y, states[My(c)], whole, ready)
    OBVIOUS
  <1> HIDE DEF y
  <1>7. \A p \in Procs, a \in Files : HeldBy(xfer'[p][a]) = HeldBy(xfer[p][a])  BY <1>3
  <1>8. LockInv' /\ owners' \in [Procs -> [Locks -> Owner]]
    <2> DEFINE G == {l}
    <2>1. /\ G \in SUBSET Locks /\ G \cap Held(call[c]) = {} /\ Held(y) = Held(call[c]) \cup G
          /\ owners' = Accessed(My(c), G, b) /\ \A k \in G : MayAccess(My(c), k, b)
      BY <1>3, <1>6
    <2> HIDE DEF G
    <2> QED BY <1>1, <1>3, <1>6, <1>7, <2>1, ThreadTakes
  <1>9. Leased'  BY <1>1, <1>3, <1>4, LeasesMoved
  <1>10. /\ Calm /\ Growing /\ Fitting(y, states[My(c)], whole, ready')
         /\ states' \in [Procs -> [Models -> ModelState]]
         /\ ready' \in [Shared -> BOOLEAN] /\ install' \in [Procs -> [Shared -> Callers \cup {None}]]
    BY <1>1, <1>3, <1>6 DEF Typed, Calm, Growing, SameDeletions, SameFor, Grows
  <1> QED BY <1>2, <1>3, <1>5, <1>8, <1>9, <1>10, GoesOn

\* What must be known of a call in each kind of place.
LEMMA OutsideFits ==
  ASSUME NEW y, NEW S, NEW w, NEW r, y.at \in {"begin", "exclusive", "mark", "ready", "failed", "inuse"},
         y.model \in Models, y.i >= 1, y.at = "begin" => y.i = 1,
         y.at \in {"exclusive", "mark"} => y.op = "delete",
         \A a \in Files : y.subs[a] # "waiting"
  PROVE  Fitting(y, S, w, r)
  <1>1. y.at \notin Begun /\ y.at \notin Leasing /\ y.at \notin Writing /\ y.at # "drain" /\ y.at # "lease"
    BY DEF Begun, Writing, Leasing
  <1>2. y.at \in Deleting => y.at = "mark"  BY <1>1 DEF Deleting
  <1>3. Placed(y)  BY <1>1, <1>2 DEF Placed, Writing
  <1> QED BY <1>1, <1>3 DEF Fitting, Aged, Stocked

LEMMA BegunFits ==
  ASSUME NEW y, NEW S, NEW w, NEW r, y.at \in {"peek", "reading", "mutation", "model"},
         y.model \in Models, y.i = 1, \A a \in Files : y.subs[a] # "waiting",
         y.epoch <= S[y.model].epoch, S[y.model].deleting => y.epoch < S[y.model].epoch
  PROVE  Fitting(y, S, w, r)
  <1>1. y.at \notin Leasing /\ y.at \notin Writing /\ y.at \notin Deleting /\ y.at # "drain" /\ y.at # "lease"
    BY DEF Deleting, Writing, Leasing
  <1>2. Placed(y)  BY <1>1 DEF Placed, Writing
  <1> QED BY <1>1, <1>2 DEF Fitting, Aged, Stocked

LEMMA WritingFits ==
  ASSUME NEW y, NEW S, NEW w, NEW r, y.at \in Writing, y.model \in Models, y.i >= 1,
         y.at \in {"join", "replace"} => y.i \in DOMAIN FilesOf[y.model],
         y.at = "replace" => FilesOf[y.model][y.i] \in Shared,
         \A a \in Files : y.subs[a] = "waiting" => y.at \in {"look", "join", "wait"} /\ HasFile(y.model, a),
         y.epoch <= S[y.model].epoch, S[y.model].deleting => y.epoch < S[y.model].epoch,
         Fresh(S, y.model, y.epoch) => Found(y, w, r)
  PROVE  Fitting(y, S, w, r)
  <1>1. y.at \notin Leasing /\ y.at \notin Deleting /\ y.at # "drain" /\ y.at # "lease"
        /\ y.at \notin {"idle", "begin", "peek", "reading", "mutation", "model", "exclusive"}
    BY DEF Deleting, Writing, Leasing
  <1>2. Placed(y)  BY <1>1 DEF Placed
  <1> QED BY <1>1, <1>2 DEF Fitting, Aged, Stocked

LEMMA LeasingFits ==
  ASSUME NEW y, NEW S, NEW w, NEW r, y.at \in Leasing, y.model \in Models, y.i >= 1, y.op = "load",
         \A a \in Files : y.subs[a] # "waiting", Fresh(S, y.model, y.outer),
         y.at # "verify" => Complete(y.model, w, r)
  PROVE  Fitting(y, S, w, r)
  <1>1. y.at \notin Begun /\ y.at \notin Writing /\ y.at \notin Deleting /\ y.at # "drain" /\ y.at # "lease"
        /\ y.at \notin {"idle", "begin", "peek", "reading", "mutation", "model", "exclusive", "join", "replace"}
    BY DEF Begun, Deleting, Writing, Leasing
  <1>2. Placed(y)  BY <1>1 DEF Placed
  <1> QED BY <1>1, <1>2 DEF Fitting, Aged, Stocked

\* Only those that look, join or wait have subscriptions.
LEMMA NoneWaits ==
  ASSUME NEW x \in CallRecord, Placed(x), x.at \notin {"look", "join", "wait"}
  PROVE  \A a \in Files : x.subs[a] # "waiting"
  BY DEF Placed

LEMMA CallInv ==
  ASSUME LifecycleInv, NEW c \in Callers, NEW op \in {"download", "load", "delete"}, NEW m \in Models,
         Call(c, op, m)
  PROVE  LifecycleInv'
  <1> DEFINE x == call[c]
             at == IF op = "delete" THEN "exclusive"
                   ELSE IF op = "load" /\ states[My(c)][m].deleting THEN "failed" ELSE "begin"
             e == states[My(c)][m].epoch
             y == [NoCall EXCEPT !.op = op, !.model = m, !.outer = e, !.at = at]
  <1>1. /\ Typed /\ My(c) \in Procs /\ x \in CallRecord /\ Placed(x) /\ x.at = "idle"
    BY CallOf DEF Call
  <1>2. at \in {"exclusive", "failed", "begin"} /\ at \in Ats /\ (at = "exclusive" => op = "delete")
    BY DEF Ats
  <1>3. e \in Nat
    <2>1. states[My(c)][m] \in ModelState  BY <1>1 DEF Typed
    <2> QED BY <2>1 DEF ModelState
  <1>4. call' = [call EXCEPT ![c] = y] /\ Elsewhere  BY DEF Call
  <1> HIDE DEF at, e
  <1>5. /\ y \in CallRecord /\ y.at = at /\ y.op = op /\ y.model = m /\ y.i = 1
        /\ \A a \in Files : y.subs[a] = "none"
    BY <1>2, <1>3, NoCallRecord DEF CallRecord
  <1> HIDE DEF y
  <1>6. Held(x) = {} /\ Held(y) = {}  BY <1>1, <1>2, <1>5, HeldAt
  <1>7. \A a \in Files : ~Waits(y, a) /\ ~Waits(x, a)
    <2> HIDE DEF x
    <2>1. \A a \in Files : x.subs[a] # "waiting"  BY <1>1, NoneWaits
    <2> QED BY <1>5, <2>1 DEF Waits
  <1>8. \A n \in Models : ~Lessee(y, n) /\ ~Lessee(x, n)  BY <1>1, <1>2, <1>5 DEF Lessee, Leasing
  <1>9. Fitting(y, states[My(c)], whole, ready)  BY <1>2, <1>5, OutsideFits
  <1>10. y.at # "drain"  BY <1>2, <1>5
  <1> QED BY <1>4, <1>5, <1>6, <1>7, <1>8, <1>9, <1>10, QuietInv

LEMMA CancelInv ==
  ASSUME LifecycleInv, NEW c \in Callers, Cancel(c)
  PROVE  LifecycleInv'
  <1> DEFINE x == call[c]  y == [x EXCEPT !.cancelled = TRUE]
  <1>1. /\ Typed /\ x \in CallRecord /\ Fitting(x, states[My(c)], whole, ready)
        /\ x.op # "delete" /\ Placed(x) /\ x.at # "idle"
    BY CallOf DEF Cancel, LifecycleInv, CallFits, Active
  <1>2. call' = [call EXCEPT ![c] = y] /\ Elsewhere  BY DEF Cancel
  <1>3. /\ y \in CallRecord /\ y.at = x.at /\ y.op = x.op /\ y.model = x.model /\ y.i = x.i
        /\ y.epoch = x.epoch /\ y.outer = x.outer /\ y.subs = x.subs
    <2> HIDE DEF x
    <2> QED BY <1>1 DEF CallRecord
  <1> HIDE DEF y
  <1>4. Held(y) = Held(x) /\ (Reads(y) <=> Reads(x))  BY <1>3 DEF Held, Reads
  <1>5. /\ \A a \in Files : Waits(y, a) <=> Waits(x, a)
        /\ \A n \in Models : Lessee(y, n) <=> Lessee(x, n)
    BY <1>3 DEF Waits, Lessee
  <1>6. Fitting(y, states[My(c)], whole, ready)
    <2>1. Placed(y)  BY <1>1, <1>3 DEF Placed
    <2>2. Aged(y, states[My(c)])  BY <1>1, <1>3 DEF Aged, Fitting
    <2>3. Found(x, whole, ready) => Found(y, whole, ready)  BY <1>3 DEF Found, Known
    <2>4. Stocked(y, states[My(c)], whole, ready)  BY <1>1, <1>3, <2>3 DEF Stocked, Fitting
    <2> QED BY <2>1, <2>2, <2>4 DEF Fitting
  <1>7. y.at # "drain"  BY <1>1, <1>3 DEF Placed, Deleting
  <1> HIDE DEF x
  <1>8. /\ Held(y) = Held(call[c])
        /\ Held(y) # {} => (Reads(y) <=> Reads(call[c]))
        /\ \A a \in Files : Waits(y, a) <=> Waits(call[c], a)
        /\ \A n \in Models : Lessee(y, n) <=> Lessee(call[c], n)
        /\ y.epoch = call[c].epoch /\ y.model = call[c].model
    BY <1>3, <1>4, <1>5 DEF x
  <1> QED BY <1>2, <1>3, <1>6, <1>7, <1>8, QuietInv

LEMMA BeginInv ==
  ASSUME LifecycleInv, NEW c \in Callers, Begin(c)
  PROVE  LifecycleInv'
  <1> DEFINE x == call[c]
  <1>1. /\ Typed /\ My(c) \in Procs /\ x \in CallRecord /\ Placed(x) /\ x.at = "begin"
        /\ x.model \in Models /\ x.i = 1 /\ State(c) = states[My(c)][x.model] /\ State(c) \in ModelState
    BY CallOf DEF Begin, Placed
  <1>2. \A a \in Files : x.subs[a] # "waiting"
    <2> HIDE DEF x
    <2> QED BY <1>1, NoneWaits
  <1>3. CASE x.cancelled \/ State(c).deleting
    <2>1. Fails(c)  BY <1>3 DEF Begin
    <2>2. x.at \notin Leasing  BY <1>1 DEF Leasing
    <2> QED BY <1>1, <2>1, <2>2, FailsInv
  <1>4. CASE ~(x.cancelled \/ State(c).deleting)
    <2> DEFINE e == State(c).epoch  y == [x EXCEPT !.at = "peek", !.epoch = e]
    <2>1. call' = [call EXCEPT ![c] = y] /\ Elsewhere  BY <1>4 DEF Begin
    <2>2. e \in Nat /\ "peek" \in Ats  BY <1>1 DEF ModelState, Ats
    <2>3. e <= states[My(c)][x.model].epoch /\ ~states[My(c)][x.model].deleting
      BY <1>1, <1>4, <2>2
    <2> HIDE DEF e
    <2>4. /\ y \in CallRecord /\ y.at = "peek" /\ y.op = x.op /\ y.model = x.model /\ y.i = x.i
          /\ y.epoch = e /\ y.subs = x.subs
      <3> HIDE DEF x
      <3> QED BY <1>1, <2>2 DEF CallRecord
    <2> HIDE DEF y
    <2>5. Held(x) = {} /\ Held(y) = {}  BY <1>1, <2>4, HeldAt
    <2>6. \A a \in Files : ~Waits(y, a) /\ ~Waits(x, a)  BY <1>2, <2>4 DEF Waits
    <2>7. \A n \in Models : ~Lessee(y, n) /\ ~Lessee(x, n)  BY <1>1, <2>4 DEF Lessee, Leasing
    <2>8. Fitting(y, states[My(c)], whole, ready)
      <3>1. \A a \in Files : y.subs[a] # "waiting"  BY <1>2, <2>4
      <3>2. y.model \in Models /\ y.i = 1 /\ y.epoch <= states[My(c)][y.model].epoch
            /\ ~states[My(c)][y.model].deleting
        BY <1>1, <2>3, <2>4
      <3> QED BY <2>4, <3>1, <3>2, BegunFits
    <2>9. y.at # "drain"  BY <2>4
    <2> QED BY <2>1, <2>4, <2>5, <2>6, <2>7, <2>8, <2>9, QuietInv
  <1> QED BY <1>3, <1>4

\* A call that has begun moves on before it writes.
LEMMA BegunMoves ==
  ASSUME LifecycleInv, NEW c \in Callers, NEW at \in {"peek", "reading", "mutation", "model"},
         call[c].at \in {"peek", "reading", "mutation", "model"}
  PROVE  Fitting(Moved(call[c], at), states[My(c)], whole, ready)
  <1> DEFINE x == call[c]  y == Moved(x, at)
  <1>1. /\ x \in CallRecord /\ Placed(x) /\ Aged(x, states[My(c)]) /\ x.model \in Models /\ x.i = 1
    BY CallOf DEF Placed
  <1>2. at \in Ats /\ x.at \in Begun /\ x.at \notin {"look", "join", "wait"}  BY DEF Ats, Begun
  <1>3. x.epoch <= states[My(c)][x.model].epoch
        /\ (states[My(c)][x.model].deleting => x.epoch < states[My(c)][x.model].epoch)
    BY <1>1, <1>2 DEF Aged
  <1> HIDE DEF x
  <1>4. \A a \in Files : x.subs[a] # "waiting"  BY <1>1, <1>2, NoneWaits
  <1>5. /\ y.at = at /\ y.model = x.model /\ y.i = x.i /\ y.epoch = x.epoch /\ y.subs = x.subs
    BY <1>1, <1>2, MovedRecord
  <1> HIDE DEF y
  <1>6. Fitting(y, states[My(c)], whole, ready)
    <2>1. \A a \in Files : y.subs[a] # "waiting"  BY <1>4, <1>5
    <2> QED BY <1>1, <1>3, <1>5, <2>1, BegunFits
  <1> QED BY <1>6 DEF x, y

LEMMA LockNames ==
  ASSUME NEW m \in Models
  PROVE  /\ "mutation" \in Locks /\ m \in Locks /\ m # "mutation"
         /\ \A s \in Shared : s \in Locks /\ s # m /\ s # "mutation"
  BY LifecycleAssumption DEF LifecycleAssumption, Locks

LEMMA PeekInv ==
  ASSUME LifecycleInv, NEW c \in Callers, Peek(c)
  PROVE  LifecycleInv'
  <1> DEFINE x == call[c]  m == x.model
  <1>1. x \in CallRecord /\ x.at = "peek" /\ m \in Models  BY CallOf DEF Peek
  <1>2. x.at # "idle" /\ x.at \notin Leasing  BY <1>1 DEF Leasing
  <1>3. CASE Fails(c)  BY <1>2, <1>3, FailsInv
  <1>4. CASE MayAccess(My(c), m, TRUE) /\ Take(c, m, TRUE, "reading")
    <2> DEFINE y == Moved(x, "reading")
    <2>1. "reading" \in Ats  BY DEF Ats
    <2>2. y.at = "reading" /\ y.model = m
      <3> HIDE DEF x
      <3> QED BY <1>1, <2>1, MovedRecord
    <2>3. Held(x) = {} /\ Held(y) = {m} /\ Reads(y)
      <3> HIDE DEF y
      <3> QED BY <1>1, <2>2, HeldAt DEF Reads
    <2>4. Fitting(y, states[My(c)], whole, ready)  BY <1>1, BegunMoves
    <2>5. m \in Locks  BY <1>1, LockNames
    <2>6. "reading" \notin Leasing  BY DEF Leasing
    <2> QED BY <1>2, <1>4, <2>1, <2>3, <2>4, <2>5, <2>6, TakeInv
  <1>5. CASE At(c, "mutation") /\ Elsewhere
    <2> DEFINE y == Moved(x, "mutation")
    <2>1. "mutation" \in Ats  BY DEF Ats
    <2>2. y.at = "mutation"
      <3> HIDE DEF x
      <3> QED BY <1>1, <2>1, MovedRecord
    <2>3. Held(x) = {} /\ Held(y) = {}
      <3> HIDE DEF y
      <3> QED BY <1>1, <2>2, HeldAt
    <2>4. Fitting(y, states[My(c)], whole, ready)  BY <1>1, BegunMoves
    <2>5. "mutation" \notin Leasing  BY DEF Leasing
    <2> QED BY <1>2, <1>5, <2>1, <2>3, <2>4, <2>5, AtInv
  <1> QED BY <1>3, <1>4, <1>5 DEF Peek

LEMMA ReadingInv ==
  ASSUME LifecycleInv, NEW c \in Callers, Reading(c)
  PROVE  LifecycleInv'
  <1>1. call[c].at = "reading" /\ call[c].at # "idle" /\ call[c].at \notin Leasing
    BY DEF Reading, Leasing
  <1>2. CASE Downloaded(c)  BY <1>1, <1>2, DownloadedInv
  <1>3. CASE Fails(c)  BY <1>1, <1>3, FailsInv
  <1>4. CASE Leave(c, "mutation") /\ UNCHANGED states  BY <1>1, <1>4, LeavesInv
  <1> QED BY <1>2, <1>3, <1>4 DEF Reading

LEMMA ClaimInv ==
  ASSUME LifecycleInv, NEW c \in Callers, Claim(c)
  PROVE  LifecycleInv'
  <1> DEFINE x == call[c]  m == x.model
  <1>1. x \in CallRecord /\ x.at \in {"mutation", "model"} /\ m \in Models /\ Placed(x)
        /\ Aged(x, states[My(c)]) /\ x.i = 1
    <2>1. x.at \in {"mutation", "model"}  BY DEF Claim
    <2> QED BY <2>1, CallOf DEF Placed
  <1>2. x.at # "idle" /\ x.at \notin Leasing /\ x.at \notin {"look", "join", "wait"}
    BY <1>1 DEF Leasing
  <1>3. CASE InUse(c)  BY <1>2, <1>3, FailsInv
  <1>4. CASE /\ x.at = "mutation" /\ MayAccess(My(c), "mutation", FALSE)
             /\ Take(c, "mutation", FALSE, "model")
    <2> DEFINE y == Moved(x, "model")
    <2>1. "model" \in Ats  BY DEF Ats
    <2>2. y.at = "model"
      <3> HIDE DEF x
      <3> QED BY <1>1, <2>1, MovedRecord
    <2>3. Held(x) = {} /\ Held(y) = {"mutation"} /\ ~Reads(y)
      <3> HIDE DEF y
      <3> QED BY <1>4, <2>2, HeldAt DEF Reads, Leasing
    <2>4. Fitting(y, states[My(c)], whole, ready)  BY <1>1, BegunMoves
    <2>5. "mutation" \in Locks  BY <1>1, LockNames
    <2>6. "model" \notin Leasing  BY DEF Leasing
    <2> QED BY <1>2, <1>4, <2>1, <2>3, <2>4, <2>5, <2>6, TakeInv
  <1>5. CASE /\ x.at = "model" /\ MayAccess(My(c), m, FALSE)
             /\ Take(c, m, FALSE, "look")
    <2> DEFINE y == Moved(x, "look")
    <2>1. "look" \in Ats /\ "look" \in Writing \ {"replace"} /\ "look" \notin Leasing
      BY DEF Ats, Writing, Leasing
    <2>2. /\ y.at = "look" /\ y.model = m /\ y.i = 1 /\ y.epoch = x.epoch /\ y.subs = x.subs
      <3> HIDE DEF x
      <3> QED BY <1>1, <2>1, MovedRecord
    <2>3. Held(x) = {"mutation"} /\ Held(y) = {"mutation", m} /\ ~Reads(y) /\ ~Reads(x)
      <3> HIDE DEF y
      <3> QED BY <1>5, <2>1, <2>2, HeldAt DEF Reads, Leasing
    <2>4. m \in Locks /\ m # "mutation"  BY <1>1, LockNames
    <2>5. Fitting(y, states[My(c)], whole, ready)
      <3>1. \A a \in Files : y.subs[a] # "waiting"
        <4>1. \A a \in Files : x.subs[a] # "waiting"
          <5> HIDE DEF x
          <5> QED BY <1>1, <1>2, NoneWaits
        <4> QED BY <2>2, <4>1
      <3>2. x.at \in Begun  BY <1>5 DEF Begun
      <3>3. y.epoch <= states[My(c)][y.model].epoch
            /\ (states[My(c)][y.model].deleting => y.epoch < states[My(c)][y.model].epoch)
        BY <1>1, <2>2, <3>2 DEF Aged
      <3> HIDE DEF y
      <3>4. Found(y, whole, ready)
        <4>1. \A j \in DOMAIN FilesOf[m] : ~(j < 1)  BY <1>1, ModelFiles
        <4> QED BY <2>2, <4>1 DEF Found
      <3>5. y.at \in Writing /\ y.model \in Models /\ y.i >= 1 /\ y.at \notin {"join", "replace"}
        BY <1>1, <2>1, <2>2
      <3> QED BY <3>1, <3>3, <3>4, <3>5, WritingFits
    <2> QED BY <1>2, <1>5, <2>1, <2>3, <2>4, <2>5, TakeInv
  <1> QED BY <1>3, <1>4, <1>5 DEF Claim

\* A writer that goes on writing.
LEMMA WritingOf ==
  ASSUME LifecycleInv, NEW c \in Callers, call[c].at \in Writing
  PROVE  /\ call[c] \in CallRecord /\ call[c].model \in Models /\ call[c].i \in Nat /\ call[c].i >= 1
         /\ call[c].at # "idle" /\ call[c].at \notin Leasing /\ ~Reads(call[c])
         /\ Check(c) => Found(call[c], whole, ready)
         /\ \A a \in Files : call[c].subs[a] = "waiting" => HasFile(call[c].model, a)
  <1>1. /\ call[c] \in CallRecord /\ Placed(call[c]) /\ call[c].i \in Nat
        /\ Stocked(call[c], states[My(c)], whole, ready)
        /\ Check(c) <=> ~call[c].cancelled /\ Fresh(states[My(c)], call[c].model, call[c].epoch)
    BY CallOf
  <1>2. call[c].at # "idle" /\ call[c].at \notin Leasing /\ call[c].at # "reading"
    BY DEF Writing, Leasing
  <1>3. call[c].model \in Models /\ call[c].i >= 1
        /\ \A a \in Files : call[c].subs[a] = "waiting" => HasFile(call[c].model, a)
    BY <1>1, <1>2 DEF Placed
  <1>4. Check(c) => Found(call[c], whole, ready)  BY <1>1 DEF Stocked
  <1> QED BY <1>1, <1>2, <1>3, <1>4 DEF Reads

LEMMA WritesOn ==
  ASSUME LifecycleInv, NEW c \in Callers, call[c].at \in Writing, NEW y, NEW w, NEW r,
         y.at \in Writing, y.model = call[c].model, y.epoch = call[c].epoch, y.i >= 1,
         y.at \in {"join", "replace"} => y.i \in DOMAIN FilesOf[y.model],
         y.at = "replace" => FilesOf[y.model][y.i] \in Shared,
         \A a \in Files : y.subs[a] = "waiting" => y.at \in {"look", "join", "wait"} /\ HasFile(y.model, a),
         Fresh(states[My(c)], y.model, y.epoch) => Found(y, w, r)
  PROVE  Fitting(y, states[My(c)], w, r)
  <1>1. Aged(call[c], states[My(c)]) /\ call[c].at \in Begun  BY CallOf DEF Begun
  <1>2. /\ y.epoch <= states[My(c)][y.model].epoch
        /\ states[My(c)][y.model].deleting => y.epoch < states[My(c)][y.model].epoch
    BY <1>1 DEF Aged
  <1>3. y.model \in Models  BY WritingOf
  <1> QED BY <1>2, <1>3, WritingFits

LEMMA LookInv ==
  ASSUME LifecycleInv, NEW c \in Callers, Look(c)
  PROVE  LifecycleInv'
  <1> DEFINE x == call[c]  m == x.model
  <1>1. x.at = "look" /\ x.at \in Writing \ {"replace"} /\ x.at \in Writing  BY DEF Look, Writing
  <1>2. /\ x \in CallRecord /\ m \in Models /\ x.i \in Nat /\ x.i >= 1
        /\ x.at # "idle" /\ x.at \notin Leasing /\ ~Reads(x)
        /\ Check(c) => Found(x, whole, ready)
        /\ \A a \in Files : x.subs[a] = "waiting" => HasFile(m, a)
    BY <1>1, WritingOf
  <1>3. Held(x) = {"mutation", m}  BY <1>1, HeldAt
  <1>4. /\ FilesOf[m] \in Seq(Files)
        /\ \A j \in DOMAIN FilesOf[m] : j \in Nat /\ j >= 1
    BY <1>2, ModelFiles
  <1>5. File(c) = FilesOf[m][x.i] /\ (MoreFiles(c) <=> x.i \in DOMAIN FilesOf[m])
    BY DEF File, MoreFiles
  <1>6. CASE Fails(c)  BY <1>2, <1>6, FailsInv
  <1>7. CASE MoreFiles(c) /\ Check(c) /\ whole[File(c)] /\ Next1(c, "look") /\ Elsewhere
    <2> DEFINE y == Stepped(x, "look")
    <2>1. "look" \in Ats /\ "look" \in Writing \ {"replace"} /\ "look" \notin Leasing
      BY DEF Ats, Writing, Leasing
    <2>2. y.at = "look" /\ y.model = m /\ y.i = x.i + 1 /\ y.epoch = x.epoch /\ y.subs = x.subs
      <3> HIDE DEF x
      <3> QED BY <1>2, <2>1, SteppedRecord
    <2>3. Held(y) = {"mutation", m} /\ ~Reads(y)
      <3> HIDE DEF y
      <3> QED BY <2>1, <2>2, HeldAt DEF Reads, Leasing
    <2>4. Fitting(y, states[My(c)], whole, ready)
      <3> HIDE DEF y
      <3>1. Found(y, whole, ready)
        <4>1. \A j \in DOMAIN FilesOf[m] : j < y.i => Known(y, whole, j)
          <5> SUFFICES ASSUME NEW j \in DOMAIN FilesOf[m], j < y.i PROVE Known(y, whole, j)
            OBVIOUS
          <5>1. j = x.i \/ j < x.i  BY <1>2, <1>4, <2>2
          <5>2. CASE j = x.i  BY <1>5, <1>7, <2>2, <5>2 DEF Known
          <5>3. CASE j < x.i
            <6>1. Known(x, whole, j)  BY <1>1, <1>2, <1>7, <5>3 DEF Found
            <6> QED BY <2>2, <6>1 DEF Known
          <5> QED BY <5>1, <5>2, <5>3
        <4> QED BY <2>2, <4>1 DEF Found
      <3>2. y.i >= 1  BY <1>2, <2>2
      <3>3. /\ y.at \in Writing /\ y.at \notin {"join", "replace"} /\ y.at \in {"look", "join", "wait"}
        BY <2>1, <2>2
      <3>4. \A a \in Files : y.subs[a] = "waiting" => HasFile(y.model, a)  BY <1>2, <2>2
      <3> QED BY <1>1, <2>2, <3>1, <3>2, <3>3, <3>4, WritesOn
    <2> QED BY <1>2, <1>3, <1>7, <2>1, <2>3, <2>4, SteppedInv
  <1>8. ASSUME NEW at \in {"join", "wait"}, At(c, at), Elsewhere, Check(c) \/ at = "wait",
               IF at = "join" THEN MoreFiles(c) ELSE ~MoreFiles(c)
        PROVE  LifecycleInv'
    <2> DEFINE y == Moved(x, at)
    <2>1. at \in Ats /\ at \in Writing \ {"replace"} /\ at \notin Leasing /\ at # "drain"
      BY DEF Ats, Writing, Leasing
    <2>2. y.at = at /\ y.model = m /\ y.i = x.i /\ y.epoch = x.epoch /\ y.subs = x.subs
      <3> HIDE DEF x
      <3> QED BY <1>2, <2>1, MovedRecord
    <2>3. Held(y) = {"mutation", m} /\ ~Reads(y)
      <3> HIDE DEF y
      <3> QED BY <2>1, <2>2, HeldAt DEF Reads, Leasing
    <2>4. Fitting(y, states[My(c)], whole, ready)
      <3> HIDE DEF y
      <3>1. Fresh(states[My(c)], y.model, y.epoch) => Found(y, whole, ready)
        <4> SUFFICES ASSUME Fresh(states[My(c)], y.model, y.epoch) PROVE Found(y, whole, ready)
          OBVIOUS
        <4>1. Found(x, whole, ready)
          <5>1. Stocked(x, states[My(c)], whole, ready)  BY CallOf
          <5> QED BY <1>1, <2>2, <5>1 DEF Stocked
        <4>2. \A j \in DOMAIN FilesOf[m] : j < x.i => Known(y, whole, j)
          BY <1>1, <2>2, <4>1 DEF Found, Known
        <4>3. CASE at = "join"  BY <2>2, <4>2, <4>3 DEF Found
        <4>4. CASE at = "wait"
          <5>1. x.i \notin DOMAIN FilesOf[m]  BY <1>5, <1>8, <4>4
          <5>2. \A j \in DOMAIN FilesOf[m] : j < x.i  BY <1>2, <1>4, <5>1
          <5> QED BY <2>2, <4>2, <4>4, <5>2 DEF Found
        <4> QED BY <4>3, <4>4
      <3>2. y.i >= 1 /\ y.at # "replace" /\ (y.at = "join" => y.i \in DOMAIN FilesOf[y.model])
        BY <1>2, <1>5, <1>8, <2>2
      <3>3. y.at \in Writing /\ y.at \in {"look", "join", "wait"}  BY <2>1, <2>2
      <3>4. \A a \in Files : y.subs[a] = "waiting" => HasFile(y.model, a)  BY <1>2, <2>2
      <3> QED BY <1>1, <2>2, <3>1, <3>2, <3>3, <3>4, WritesOn
    <2> QED BY <1>2, <1>3, <1>8, <2>1, <2>3, <2>4, AtInv
  <1>9. CASE MoreFiles(c) /\ Check(c) /\ ~whole[File(c)] /\ At(c, "join") /\ Elsewhere
    BY <1>8, <1>9
  <1>10. CASE ~MoreFiles(c) /\ At(c, "wait") /\ Elsewhere  BY <1>8, <1>10
  <1> QED BY <1>6, <1>7, <1>9, <1>10 DEF Look

\* The thread subscribes.
Joined(x, a) == [x EXCEPT !.at = "look", !.i = x.i + 1, !.subs = [x.subs EXCEPT ![a] = "waiting"]]

LEMMA JoinedRecord ==
  ASSUME NEW x \in CallRecord, NEW a \in Files
  PROVE  LET y == Joined(x, a) IN
         /\ y \in CallRecord /\ y.at = "look" /\ y.op = x.op /\ y.model = x.model /\ y.i = x.i + 1
         /\ y.epoch = x.epoch /\ y.subs[a] = "waiting" /\ \A f \in Files : f # a => y.subs[f] = x.subs[f]
  <1> DEFINE k == x.i + 1  s == [x.subs EXCEPT ![a] = "waiting"]
  <1>1. x.subs \in [Files -> {"none", "waiting", "ok", "error"}] /\ x.i \in Nat  BY DEF CallRecord
  <1>2. /\ s \in [Files -> {"none", "waiting", "ok", "error"}] /\ s[a] = "waiting"
        /\ \A f \in Files : f # a => s[f] = x.subs[f]
    BY <1>1
  <1>3. k \in Nat  BY <1>1
  <1>4. "look" \in Ats  BY DEF Ats, Writing
  <1>5. Joined(x, a) = [x EXCEPT !.at = "look", !.i = k, !.subs = s]  BY DEF Joined
  <1> HIDE DEF k, s
  <1>6. LET y == [x EXCEPT !.at = "look", !.i = k, !.subs = s] IN
         /\ y \in CallRecord /\ y.at = "look" /\ y.op = x.op /\ y.model = x.model /\ y.i = k
         /\ y.epoch = x.epoch /\ y.subs = s
    BY <1>2, <1>3, <1>4 DEF CallRecord
  <1>7. k = x.i + 1  BY DEF k
  <1> HIDE DEF Joined
  <1> QED BY <1>2, <1>5, <1>6, <1>7

LEMMA JoinTransfers ==
  ASSUME LifecycleInv, NEW c \in Callers, NEW a \in Files, NEW y, call' = [call EXCEPT ![c] = y],
         ~Waits(call[c], a), Waits(y, a), \A f \in Files : f # a => (Waits(y, f) <=> Waits(call[c], f)),
         y.model = call[c].model, y.epoch = call[c].epoch, y.model \in Models, HasFile(y.model, a),
         Fresh(states[My(c)], y.model, y.epoch), states' = states, whole' = whole,
         \A q \in Procs, f \in Files : q # My(c) \/ f # a => xfer'[q][f] = xfer[q][f],
         \/ xfer' = xfer /\ xfer[My(c)][a].at # "none" /\ ~xfer[My(c)][a].stop
         \/ /\ xfer[My(c)][a].at = "none" /\ xfer'[My(c)][a].at = "start"
            /\ xfer'[My(c)][a].model = y.model
  PROVE  \A p \in Procs, f \in Files : TransferFits(p, f)'
  <1>1. call'[c] = y /\ \A d \in Callers : d # c => call'[d] = call[d]
    BY DEF LifecycleInv, Typed
  <1>2. \A p \in Procs, f \in Files : p # My(c) \/ f # a => Users(p, f)' = Users(p, f)
    BY <1>1 DEF Users, Waits, My
  <1>3. Users(My(c), a)' = Users(My(c), a) \cup {c}
    BY <1>1 DEF Users, Waits, My
  <1>4. \A d \in Callers : call'[d].model = call[d].model /\ call'[d].epoch = call[d].epoch
    BY <1>1
  <1>5. \A p \in Procs, f \in Files : Users(p, f) \subseteq Callers  BY DEF Users
  <1> HIDE DEF Users
  <1> SUFFICES ASSUME NEW p \in Procs, NEW f \in Files PROVE TransferFits(p, f)'  OBVIOUS
  <1>6. TransferFits(p, f)  BY DEF LifecycleInv
  <1>7. CASE p # My(c) \/ f # a
    <2>1. Users(p, f)' = Users(p, f) /\ xfer'[p][f] = xfer[p][f]  BY <1>2, <1>7
    <2>2. \A d \in Users(p, f) : Fresh(states[p], call[d].model, call[d].epoch)
                                 => Fresh(states'[p], call'[d].model, call'[d].epoch)
      BY <1>4, <1>5
    <2> QED BY <1>6, <2>1, <2>2 DEF TransferFits
  <1>8. CASE p = My(c) /\ f = a
    <2>1. Fresh(states'[p], call'[c].model, call'[c].epoch)  BY <1>1, <1>8
    <2>2. \A d \in Users(p, f) : Fresh(states[p], call[d].model, call[d].epoch)
                                 => Fresh(states'[p], call'[d].model, call'[d].epoch)
      BY <1>4, <1>5
    <2>3. Users(p, f)' = Users(p, f) \cup {c}  BY <1>3, <1>8
    <2>4. CASE xfer' = xfer /\ xfer[My(c)][a].at # "none" /\ ~xfer[My(c)][a].stop
      <3>1. xfer'[p][f] = xfer[p][f] /\ xfer[p][f].at # "none" /\ ~xfer[p][f].stop  BY <1>8, <2>4
      <3> QED BY <1>6, <2>1, <2>2, <2>3, <3>1 DEF TransferFits
    <2>5. CASE /\ xfer[My(c)][a].at = "none" /\ xfer'[My(c)][a].at = "start"
               /\ xfer'[My(c)][a].model = y.model
      <3>1. Users(p, f) = {}  BY <1>6, <1>8, <2>5 DEF TransferFits
      <3>2. Users(p, f)' = {c}  BY <2>3, <3>1
      <3>3. /\ xfer'[p][f].at = "start" /\ xfer'[p][f].model \in Models
            /\ HasFile(xfer'[p][f].model, f)
        BY <1>8, <2>5
      <3> QED BY <2>1, <3>2, <3>3 DEF TransferFits
    <2> QED BY <2>4, <2>5
  <1> QED BY <1>7, <1>8

LEMMA JoinInv ==
  ASSUME LifecycleInv, NEW c \in Callers, Join(c)
  PROVE  LifecycleInv'
  <1> DEFINE x == call[c]  m == x.model  a == File(c)  p == My(c)  t == xfer[p][a]
  <1>1. x.at = "join" /\ x.at \in Writing \ {"replace"} /\ x.at \in Writing  BY DEF Join, Writing
  <1>2. /\ x \in CallRecord /\ m \in Models /\ x.i \in Nat /\ x.i >= 1
        /\ x.at # "idle" /\ x.at \notin Leasing /\ ~Reads(x)
        /\ Check(c) => Found(x, whole, ready)
        /\ \A f \in Files : x.subs[f] = "waiting" => HasFile(m, f)
    BY <1>1, WritingOf
  <1>3. /\ Typed /\ LockInv /\ Leased /\ p \in Procs /\ x.i \in DOMAIN FilesOf[m]
        /\ Check(c) => Fresh(states[p], m, x.epoch)
    BY <1>1, CallOf DEF Placed, LifecycleInv
  <1>4. a = FilesOf[m][x.i] /\ a \in Files /\ HasFile(m, a)
    BY <1>2, <1>3, ModelFiles DEF File, HasFile
  <1>5. CASE Fails(c)  BY <1>2, <1>5, FailsInv
  <1>6. ASSUME Check(c), Subscribed(c, a), UNCHANGED <<durables, states, install>>,
               \/ t.at # "none" /\ ~t.stop /\ UNCHANGED <<owners, xfer>>
               \/ t.at = "none" /\ Create(c, a)
        PROVE  LifecycleInv'
    <2> DEFINE y == Joined(x, a)
    <2>1. call' = [call EXCEPT ![c] = y]
      <3>1. call' = [call EXCEPT ![c].at = "look", ![c].i = @ + 1, ![c].subs[a] = "waiting"]
        BY <1>6 DEF Subscribed
      <3> HIDE DEF a
      <3> QED BY <1>3, <3>1 DEF Joined, Typed
    <2>2. /\ y \in CallRecord /\ y.at = "look" /\ y.op = x.op /\ y.model = m /\ y.i = x.i + 1
          /\ y.epoch = x.epoch /\ y.subs[a] = "waiting" /\ \A f \in Files : f # a => y.subs[f] = x.subs[f]
      <3> HIDE DEF x, a
      <3> QED BY <1>2, <1>4, JoinedRecord
    <2> HIDE DEF y
    <2>3. /\ whole' = whole /\ part' = part /\ ready' = ready /\ states' = states /\ install' = install
      BY <1>6 DEF durables
    <2>4. Held(x) = {"mutation", m} /\ Held(y) = Held(x) /\ ~Reads(y)
      <3>1. y.at \in Writing \ {"replace"} /\ y.at \notin Leasing \cup {"reading"}
        BY <2>2 DEF Writing, Leasing
      <3> QED BY <1>1, <2>2, <3>1, HeldAt DEF Reads
    <2>5. Leased'
      <3>1. \A n \in Models : ~Lessee(y, n) /\ ~Lessee(x, n)  BY <1>2, <2>2 DEF Lessee, Leasing
      <3> QED BY <1>3, <2>1, <2>3, <3>1, LeasesMoved
    <2>6. Calm /\ Growing /\ y.at # "drain"
      BY <2>2, <2>3 DEF Calm, Growing, SameDeletions, SameFor, Grows
    <2>7. Fitting(y, states[My(c)], whole', ready')
      <3>1. Found(y, whole', ready')
        <4>1. \A j \in DOMAIN FilesOf[m] : j < y.i => Known(y, whole', j)
          <5> SUFFICES ASSUME NEW j \in DOMAIN FilesOf[m], j < y.i PROVE Known(y, whole', j)
            OBVIOUS
          <5>0. j \in Nat /\ FilesOf[m][j] \in Files  BY <1>2, ModelFiles
          <5>1. j = x.i \/ j < x.i  BY <1>2, <2>2, <5>0
          <5>2. CASE j = x.i  BY <1>4, <2>2, <5>2 DEF Known
          <5>3. CASE j < x.i
            <6>1. Known(x, whole, j)  BY <1>1, <1>2, <1>6, <5>3 DEF Found
            <6> QED BY <2>2, <2>3, <5>0, <6>1 DEF Known
          <5> QED BY <5>1, <5>2, <5>3
        <4> QED BY <2>2, <4>1 DEF Found
      <3>2. y.i >= 1  BY <1>2, <2>2
      <3>3. y.at \in Writing /\ y.at \notin {"join", "replace"} /\ y.at \in {"look", "join", "wait"}
        BY <2>2 DEF Writing
      <3>4. \A f \in Files : y.subs[f] = "waiting" => HasFile(y.model, f)  BY <1>2, <1>4, <2>2
      <3> QED BY <1>1, <2>2, <3>1, <3>2, <3>3, <3>4, WritesOn
    <2>8. /\ \A q \in Procs, f \in Files : q # p \/ f # a => xfer'[q][f] = xfer[q][f]
          /\ \/ xfer' = xfer /\ t.at # "none" /\ ~t.stop /\ owners' = owners
             \/ /\ t.at = "none" /\ xfer'[p][a].at = "start" /\ xfer'[p][a].model = m
                /\ xfer' \in [Procs -> [Files -> TransferRecord]]
                /\ owners' = Accessed(p, {"mutation", m}, FALSE)
      <3>1. CASE t.at # "none" /\ ~t.stop /\ UNCHANGED <<owners, xfer>>  BY <3>1
      <3>2. CASE t.at = "none" /\ Create(c, a)
        <4> DEFINE t2 == [NoTransfer EXCEPT !.at = "start", !.model = m]
        <4>1. t2 \in TransferRecord /\ t2.at = "start" /\ t2.model = m
          BY <1>2 DEF NoTransfer, TransferRecord, Working
        <4>2. xfer' = [xfer EXCEPT ![p][a] = t2] /\ owners' = Accessed(p, {"mutation", m}, FALSE)
          BY <3>2 DEF Create
        <4>3. xfer \in [Procs -> [Files -> TransferRecord]]  BY <1>3 DEF Typed
        <4> HIDE DEF t2, a
        <4> QED BY <1>3, <1>4, <3>2, <4>1, <4>2, <4>3
      <3> QED BY <1>6, <3>1, <3>2
    <2>9. \A q \in Procs, f \in Files : TransferFits(q, f)'
      <3>1. Waits(y, a) /\ \A f \in Files : f # a => (Waits(y, f) <=> Waits(x, f))
        BY <2>2 DEF Waits
      <3>2. CASE ~Waits(x, a)
        <4>1. /\ ~Waits(call[c], a) /\ Waits(y, a)
              /\ \A f \in Files : f # a => (Waits(y, f) <=> Waits(call[c], f))
          BY <3>1, <3>2
        <4>2. /\ y.model = call[c].model /\ y.epoch = call[c].epoch /\ y.model \in Models
              /\ HasFile(y.model, a) /\ Fresh(states[My(c)], y.model, y.epoch)
          BY <1>2, <1>3, <1>4, <1>6, <2>2
        <4>3. \A q \in Procs, f \in Files : q # My(c) \/ f # a => xfer'[q][f] = xfer[q][f]
          BY <2>8
        <4>4. \/ xfer' = xfer /\ xfer[My(c)][a].at # "none" /\ ~xfer[My(c)][a].stop
              \/ /\ xfer[My(c)][a].at = "none" /\ xfer'[My(c)][a].at = "start"
                 /\ xfer'[My(c)][a].model = y.model
          BY <2>2, <2>8
        <4> HIDE DEF a
        <4> QED BY ONLY LifecycleInv, c \in Callers, <1>4, <2>1, <2>3, <4>1, <4>2, <4>3, <4>4, JoinTransfers
      <3>3. CASE Waits(x, a)
        <4>1. c \in Users(p, a)  BY <3>3 DEF Users, Waits
        <4>2. t.at # "none"  BY <1>3, <1>4, <4>1 DEF LifecycleInv, TransferFits
        <4>3. xfer' = xfer  BY <2>8, <4>2
        <4>4. \A f \in Files : Waits(y, f) <=> Waits(call[c], f)  BY <3>1, <3>3
        <4> QED BY <2>1, <2>2, <2>6, <4>3, <4>4, TransfersStay
      <3> QED BY <3>2, <3>3
    <2>10. LockInv' /\ owners' \in [Procs -> [Locks -> Owner]]
      <3>1. CASE xfer' = xfer /\ owners' = owners
        <4>1. LockInv'  BY <1>2, <1>3, <2>1, <2>4, <3>1, ThreadKeeps
        <4> QED BY <1>3, <3>1, <4>1 DEF Typed
      <3>2. CASE /\ t.at = "none" /\ xfer'[p][a].at = "start" /\ xfer'[p][a].model = m
                 /\ owners' = Accessed(p, {"mutation", m}, FALSE)
        <4> DEFINE G == {"mutation", m}
        <4>1. HeldBy(xfer[p][a]) = {} /\ HeldBy(xfer'[p][a]) = G
          BY <3>2 DEF HeldBy, Working
        <4>2. \A q \in Procs, f \in Files : q # p \/ f # a => HeldBy(xfer'[q][f]) = HeldBy(xfer[q][f])
          BY <2>8
        <4>3. G \subseteq Held(call[c]) /\ owners' = Accessed(p, G, FALSE)  BY <2>4, <3>2
        <4> HIDE DEF G, a, p
        <4>4. p \in Procs /\ My(c) = p  BY <1>3 DEF p
        <4> QED BY <1>2, <1>3, <1>4, <2>1, <2>4, <4>1, <4>2, <4>3, <4>4, WorkerTakes, ZenonT(40)
      <3> QED BY <2>8, <3>1, <3>2
    <2>11. Typed'
      <3>1. xfer' \in [Procs -> [Files -> TransferRecord]]  BY <1>3, <2>8 DEF Typed
      <3> QED BY <1>3, <2>1, <2>2, <2>3, <2>10, <3>1 DEF Typed
    <2> QED BY <2>1, <2>5, <2>6, <2>7, <2>9, <2>10, <2>11, ThreadInv
  <1>7. CASE /\ Check(c) /\ t.at = "none" /\ Create(c, a) /\ Subscribed(c, a)
             /\ UNCHANGED <<durables, states, install>>
    BY <1>6, <1>7
  <1>8. CASE Check(c) /\ t.at # "none" /\ ~t.stop /\ Subscribed(c, a) /\ Elsewhere
    BY <1>6, <1>8 DEF Elsewhere
  <1> QED BY <1>5, <1>7, <1>8 DEF Join

\* The subscriptions have ended, and none of them badly.
LEMMA WaitInv ==
  ASSUME LifecycleInv, NEW c \in Callers, Wait(c)
  PROVE  LifecycleInv'
  <1> DEFINE x == call[c]  m == x.model  y == [x EXCEPT !.at = "install", !.i = 1]
  <1>1. x.at = "wait" /\ x.at \in Writing \ {"replace"} /\ x.at \in Writing  BY DEF Wait, Writing
  <1>2. /\ x \in CallRecord /\ m \in Models /\ x.i \in Nat /\ x.i >= 1
        /\ x.at # "idle" /\ x.at \notin Leasing /\ ~Reads(x)
        /\ Check(c) => Found(x, whole, ready)
    BY <1>1, WritingOf
  <1>3. CASE Fails(c)  BY <1>2, <1>3, FailsInv
  <1>4. CASE /\ Check(c) /\ Subs(c) \cap {"error", "waiting"} = {}
             /\ call' = [call EXCEPT ![c].at = "install", ![c].i = 1] /\ Elsewhere
    <2>1. call' = [call EXCEPT ![c] = y]  BY <1>4
    <2>2. \A f \in Files : x.subs[f] \notin {"error", "waiting"}  BY <1>4 DEF Subs
    <2>3. /\ y \in CallRecord /\ y.at = "install" /\ y.model = m /\ y.i = 1 /\ y.epoch = x.epoch
          /\ y.subs = x.subs
      <3>1. "install" \in Ats  BY DEF Ats, Writing
      <3> HIDE DEF x
      <3> QED BY <1>2, <3>1 DEF CallRecord
    <2> HIDE DEF y
    <2>4. Held(x) = {"mutation", m} /\ Held(y) = Held(x) /\ ~Reads(y)
      <3>1. y.at \in Writing \ {"replace"} /\ y.at \notin Leasing \cup {"reading"}
        BY <2>3 DEF Writing, Leasing
      <3> QED BY <1>1, <2>3, <3>1, HeldAt DEF Reads
    <2>5. \A n \in Models : ~Lessee(y, n) /\ ~Lessee(x, n)  BY <1>2, <2>3 DEF Lessee, Leasing
    <2>6. \A f \in Files : ~Waits(y, f) /\ ~Waits(x, f)  BY <2>2, <2>3 DEF Waits
    <2>7. Fitting(y, states[My(c)], whole, ready)
      <3>1. Found(y, whole, ready)
        <4>1. \A j \in DOMAIN FilesOf[m] : j \in Nat /\ j >= 1 /\ FilesOf[m][j] \in Files
          BY <1>2, ModelFiles
        <4>2. \A j \in DOMAIN FilesOf[m] : Known(x, whole, j)  BY <1>1, <1>2, <1>4 DEF Found
        <4>3. \A j \in DOMAIN FilesOf[m] : whole[FilesOf[m][j]]  BY <2>2, <4>1, <4>2 DEF Known
        <4>4. \A j \in DOMAIN FilesOf[m] : ~(j < 1)  BY <4>1
        <4> QED BY <2>3, <4>3, <4>4 DEF Found
      <3>2. y.i >= 1 /\ y.at \in Writing /\ y.at \notin {"join", "replace"}  BY <2>3 DEF Writing
      <3>3. \A f \in Files : y.subs[f] # "waiting"  BY <2>2, <2>3
      <3> QED BY <1>1, <2>3, <3>1, <3>2, <3>3, WritesOn
    <2>8. y.at # "drain"  BY <2>3
    <2> QED BY <1>2, <1>4, <2>1, <2>3, <2>4, <2>5, <2>6, <2>7, <2>8, QuietInv
  <1> QED BY <1>3, <1>4 DEF Wait

\* A writer of which every file is there.
LEMMA InstallerOf ==
  ASSUME LifecycleInv, NEW c \in Callers, call[c].at \in {"install", "replace"}
  PROVE  LET m == call[c].model IN
         /\ \A f \in Files : call[c].subs[f] # "waiting"
         /\ Fresh(states[My(c)], m, call[c].epoch) =>
              /\ \A j \in DOMAIN FilesOf[m] : whole[FilesOf[m][j]]
              /\ \A j \in DOMAIN FilesOf[m] : j < call[c].i /\ FilesOf[m][j] \in Shared
                                              => ready[FilesOf[m][j]]
  <1> DEFINE x == call[c]  m == x.model
  <1>1. x \in CallRecord /\ Placed(x) /\ Stocked(x, states[My(c)], whole, ready)  BY CallOf
  <1>2. x.at \in Writing /\ x.at \notin {"look", "join", "wait", "last"}  BY DEF Writing
  <1>3. \A f \in Files : x.subs[f] # "waiting"  BY <1>1, <1>2 DEF Placed
  <1>4. Fresh(states[My(c)], m, x.epoch) => Found(x, whole, ready)  BY <1>1, <1>2 DEF Stocked
  <1>5. Found(x, whole, ready) =>
          /\ \A j \in DOMAIN FilesOf[m] : whole[FilesOf[m][j]]
          /\ \A j \in DOMAIN FilesOf[m] : j < x.i /\ FilesOf[m][j] \in Shared => ready[FilesOf[m][j]]
    BY DEF Found
  <1> QED BY <1>3, <1>4, <1>5

LEMMA InstallInv ==
  ASSUME LifecycleInv, NEW c \in Callers, Install(c)
  PROVE  LifecycleInv'
  <1> DEFINE x == call[c]  m == x.model  s == File(c)  p == My(c)
  <1>1. x.at = "install" /\ x.at \in Writing \ {"replace"} /\ x.at \in Writing  BY DEF Install, Writing
  <1>2. /\ x \in CallRecord /\ m \in Models /\ x.i \in Nat /\ x.i >= 1
        /\ x.at # "idle" /\ x.at \notin Leasing /\ ~Reads(x)
    BY <1>1, WritingOf
  <1>3. Typed /\ LockInv /\ Leased /\ p \in Procs  BY CallOf DEF LifecycleInv
  <1>4. Held(x) = {"mutation", m}  BY <1>1, HeldAt
  <1>5. s = FilesOf[m][x.i] /\ (MoreFiles(c) <=> x.i \in DOMAIN FilesOf[m])
    BY DEF File, MoreFiles
  <1>6. /\ \A f \in Files : x.subs[f] # "waiting"
        /\ Fresh(states[p], m, x.epoch) =>
             /\ \A j \in DOMAIN FilesOf[m] : whole[FilesOf[m][j]]
             /\ \A j \in DOMAIN FilesOf[m] : j < x.i /\ FilesOf[m][j] \in Shared => ready[FilesOf[m][j]]
    BY <1>1, InstallerOf
  <1>7. /\ FilesOf[m] \in Seq(Files)
        /\ \A j \in DOMAIN FilesOf[m] : j \in Nat /\ j >= 1
    BY <1>2, ModelFiles
  <1>8. CASE Fails(c) \/ InUse(c)  BY <1>2, <1>8, FailsInv
  <1>9. CASE ~MoreFiles(c) /\ At(c, "last") /\ Elsewhere
    <2> DEFINE y == Moved(x, "last")
    <2>1. "last" \in Ats /\ "last" \in Writing \ {"replace"} /\ "last" \notin Leasing
      BY DEF Ats, Writing, Leasing
    <2>2. y.at = "last" /\ y.model = m /\ y.i = x.i /\ y.epoch = x.epoch /\ y.subs = x.subs
      <3> HIDE DEF x
      <3> QED BY <1>2, <2>1, MovedRecord
    <2>3. Held(y) = {"mutation", m}
      <3> HIDE DEF y
      <3> QED BY <2>1, <2>2, HeldAt
    <2>4. ~Reads(y)
      <3> HIDE DEF y
      <3> QED BY <2>2 DEF Reads, Leasing
    <2>5. Fitting(y, states[p], whole, ready)
      <3> HIDE DEF y
      <3>1. Fresh(states[p], y.model, y.epoch) => Found(y, whole, ready)
        <4> SUFFICES ASSUME Fresh(states[p], y.model, y.epoch) PROVE Found(y, whole, ready)
          OBVIOUS
        <4>1. Fresh(states[p], m, x.epoch)  BY <2>2
        <4>2. x.i \notin DOMAIN FilesOf[m]  BY <1>5, <1>9
        <4>3. \A j \in DOMAIN FilesOf[m] : j < x.i  BY <1>2, <1>7, <4>2
        <4>4. \A j \in DOMAIN FilesOf[m] : FilesOf[m][j] \in Shared => ready[FilesOf[m][j]]
          BY <1>6, <4>1, <4>3
        <4>5. Complete(m, whole, ready)  BY <1>6, <4>1, <4>4 DEF Complete, TreesOf
        <4> QED BY <1>6, <2>2, <4>1, <4>5 DEF Found
      <3>2. y.at \in Writing /\ y.at \notin {"join", "replace"} /\ y.i >= 1  BY <1>2, <2>1, <2>2
      <3>3. \A f \in Files : y.subs[f] # "waiting"  BY <1>6, <2>2
      <3> QED BY <1>1, <2>2, <3>1, <3>2, <3>3, WritesOn
    <2> QED BY <1>2, <1>4, <1>9, <2>1, <2>3, <2>4, <2>5, AtInv
  <1>10. ASSUME MoreFiles(c), s \in Shared => ready[s], Next1(c, "install"), Elsewhere
         PROVE  LifecycleInv'
    <2> DEFINE y == Stepped(x, "install")
    <2>1. "install" \in Ats /\ "install" \in Writing \ {"replace"} /\ "install" \notin Leasing
      BY DEF Ats, Writing, Leasing
    <2>2. y.at = "install" /\ y.model = m /\ y.i = x.i + 1 /\ y.epoch = x.epoch /\ y.subs = x.subs
      <3> HIDE DEF x
      <3> QED BY <1>2, <2>1, SteppedRecord
    <2>3. Held(y) = {"mutation", m}
      <3> HIDE DEF y
      <3> QED BY <2>1, <2>2, HeldAt
    <2>4. ~Reads(y)
      <3> HIDE DEF y
      <3> QED BY <2>2 DEF Reads, Leasing
    <2>5. Fitting(y, states[p], whole, ready)
      <3> HIDE DEF y
      <3>1. Fresh(states[p], y.model, y.epoch) => Found(y, whole, ready)
        <4> SUFFICES ASSUME Fresh(states[p], y.model, y.epoch) PROVE Found(y, whole, ready)
          OBVIOUS
        <4>1. Fresh(states[p], m, x.epoch)  BY <2>2
        <4>2. \A j \in DOMAIN FilesOf[m] : j < y.i => j = x.i \/ j < x.i  BY <1>2, <1>7, <2>2
        <4>3. \A j \in DOMAIN FilesOf[m] : j < y.i /\ FilesOf[m][j] \in Shared => ready[FilesOf[m][j]]
          BY <1>5, <1>6, <1>10, <4>1, <4>2
        <4> QED BY <1>6, <2>2, <4>1, <4>3 DEF Found
      <3>2. y.at \in Writing /\ y.at \notin {"join", "replace"} /\ y.i >= 1  BY <1>2, <2>1, <2>2
      <3>3. \A f \in Files : y.subs[f] # "waiting"  BY <1>6, <2>2
      <3> QED BY <1>1, <2>2, <3>1, <3>2, <3>3, WritesOn
    <2> QED BY <1>2, <1>4, <1>10, <2>1, <2>3, <2>4, <2>5, SteppedInv
  <1>11. CASE /\ MoreFiles(c) /\ s \in Shared /\ MayAccess(p, s, FALSE) /\ At(c, "replace")
              /\ owners' = Accessed(p, {s}, FALSE) /\ install' = [install EXCEPT ![p][s] = c]
              /\ UNCHANGED <<durables, states, xfer>>
    <2> DEFINE y == Moved(x, "replace")
    <2>1. "replace" \in Ats /\ "replace" \in Writing /\ "replace" \notin Leasing
      BY DEF Ats, Writing, Leasing
    <2>2. y \in CallRecord /\ y.at = "replace" /\ y.model = m /\ y.i = x.i /\ y.epoch = x.epoch
          /\ y.subs = x.subs
      <3> HIDE DEF x
      <3> QED BY <1>2, <2>1, MovedRecord
    <2>3. call' = [call EXCEPT ![c] = y]  BY <1>11 DEF At, Moved
    <2> HIDE DEF y
    <2>4. Held(y) = {"mutation", m, s} /\ ~Reads(y)
      <3>1. Held(y) = {"mutation", m, s}  BY <1>5, <2>2, HeldAt
      <3> QED BY <2>2, <3>1 DEF Reads, Leasing
    <2>5. s \in Locks /\ s # m /\ s # "mutation"  BY <1>2, <1>11, LockNames
    <2>6. Fitting(y, states[p], whole, ready)
      <3>1. Fresh(states[p], y.model, y.epoch) => Found(y, whole, ready)
        BY <1>6, <2>2 DEF Found
      <3>2. y.at \in Writing /\ y.i >= 1 /\ y.i \in DOMAIN FilesOf[y.model]
            /\ FilesOf[y.model][y.i] \in Shared
        BY <1>2, <1>5, <1>11, <2>1, <2>2
      <3>3. \A f \in Files : y.subs[f] # "waiting"  BY <1>6, <2>2
      <3> QED BY <1>1, <2>2, <3>1, <3>2, <3>3, WritesOn
    <2>7. /\ whole' = whole /\ part' = part /\ ready' = ready /\ states' = states /\ xfer' = xfer
      BY <1>11 DEF durables
    <2>8. LockInv' /\ owners' \in [Procs -> [Locks -> Owner]]
      <3> DEFINE G == {s}
      <3>1. /\ G \in SUBSET Locks /\ G \cap Held(call[c]) = {} /\ Held(y) = Held(call[c]) \cup G
            /\ owners' = Accessed(My(c), G, FALSE) /\ \A l \in G : MayAccess(My(c), l, FALSE)
            /\ (Reads(y) <=> FALSE) /\ FALSE \in BOOLEAN /\ (Reads(y) <=> Reads(call[c]))
        BY <1>2, <1>4, <1>11, <2>4, <2>5
      <3>2. \A q \in Procs, f \in Files : HeldBy(xfer'[q][f]) = HeldBy(xfer[q][f])  BY <2>7
      <3> HIDE DEF G
      <3> QED BY <1>3, <2>3, <3>1, <3>2, ThreadTakes
    <2>9. Leased'
      <3>1. \A n \in Models : ~Lessee(y, n) /\ ~Lessee(x, n)  BY <1>2, <2>1, <2>2 DEF Lessee
      <3> QED BY <1>3, <2>3, <2>7, <3>1, LeasesMoved
    <2>10. install' \in [Procs -> [Shared -> Callers \cup {None}]]
      <3>1. install \in [Procs -> [Shared -> Callers \cup {None}]]  BY <1>3 DEF Typed
      <3> HIDE DEF s
      <3> QED BY <1>3, <1>11, <3>1
    <2>11. /\ Calm /\ Growing /\ Fitting(y, states[My(c)], whole, ready')
           /\ states' \in [Procs -> [Models -> ModelState]] /\ ready' \in [Shared -> BOOLEAN]
      BY <1>3, <2>6, <2>7 DEF Typed, Calm, Growing, SameDeletions, SameFor, Grows
    <2>12. \A f \in Files : ~Waits(y, f) /\ ~Waits(x, f)  BY <1>6, <2>2 DEF Waits
    <2>13. y.at # "drain"  BY <2>2
    <2> QED BY <2>2, <2>3, <2>7, <2>8, <2>9, <2>10, <2>11, <2>12, <2>13, GoesOn
  <1> QED BY <1>8, <1>9, <1>10, <1>11 DEF Install

LEMMA ReplaceInv ==
  ASSUME LifecycleInv, NEW c \in Callers, Replace(c)
  PROVE  LifecycleInv'
  <1> DEFINE x == call[c]  m == x.model  s == File(c)  p == My(c)
  <1>1. x.at = "replace" /\ x.at \in Writing  BY DEF Replace, Writing
  <1>2. /\ x \in CallRecord /\ m \in Models /\ x.i \in Nat /\ x.i >= 1
        /\ x.at # "idle" /\ x.at \notin Leasing /\ ~Reads(x)
    BY <1>1, WritingOf
  <1>3. /\ Typed /\ LockInv /\ Leased /\ p \in Procs
        /\ x.i \in DOMAIN FilesOf[m] /\ FilesOf[m][x.i] \in Shared
    BY <1>1, CallOf DEF LifecycleInv, Placed
  <1>4. s = FilesOf[m][x.i] /\ s \in Shared  BY <1>3 DEF File
  <1>5. Held(x) = {"mutation", m, s}  BY <1>1, <1>4, HeldAt
  <1>6. /\ \A f \in Files : x.subs[f] # "waiting"
        /\ Fresh(states[p], m, x.epoch) =>
             /\ \A j \in DOMAIN FilesOf[m] : whole[FilesOf[m][j]]
             /\ \A j \in DOMAIN FilesOf[m] : j < x.i /\ FilesOf[m][j] \in Shared => ready[FilesOf[m][j]]
    BY <1>1, InstallerOf
  <1>7. CASE Fails(c)  BY <1>2, <1>7, FailsInv
  <1>8. CASE /\ ready' = [ready EXCEPT ![s] = TRUE] /\ Next1(c, "install")
             /\ owners' = Given(p, {s}) /\ install' = [install EXCEPT ![p][s] = None]
             /\ UNCHANGED <<whole, part, states, xfer>>
    <2> DEFINE y == Stepped(x, "install")
    <2>1. "install" \in Ats /\ "install" \in Writing \ {"replace"} /\ "install" \notin Leasing
      BY DEF Ats, Writing, Leasing
    <2>2. y \in CallRecord /\ y.at = "install" /\ y.model = m /\ y.i = x.i + 1 /\ y.epoch = x.epoch
          /\ y.subs = x.subs
      <3> HIDE DEF x
      <3> QED BY <1>2, <2>1, SteppedRecord
    <2>3. call' = [call EXCEPT ![c] = y]  BY <1>8 DEF Next1, Stepped
    <2> HIDE DEF y
    <2>4. Held(y) = {"mutation", m} /\ ~Reads(y)
      <3>1. Held(y) = {"mutation", m}  BY <2>1, <2>2, HeldAt
      <3> QED BY <2>2, <3>1 DEF Reads, Leasing
    <2>5. s \in Locks /\ s # m /\ s # "mutation"  BY <1>2, <1>4, LockNames
    <2>6. ready' \in [Shared -> BOOLEAN] /\ ready'[s] /\ \A l \in Shared : ready[l] => ready'[l]
      <3>1. ready \in [Shared -> BOOLEAN]  BY <1>3 DEF Typed
      <3> HIDE DEF s
      <3> QED BY <1>4, <1>8, <3>1
    <2>7. Fitting(y, states[p], whole, ready')
      <3>1. Fresh(states[p], y.model, y.epoch) => Found(y, whole, ready')
        <4> SUFFICES ASSUME Fresh(states[p], y.model, y.epoch) PROVE Found(y, whole, ready')
          OBVIOUS
        <4>1. Fresh(states[p], m, x.epoch)  BY <2>2
        <4>2. \A j \in DOMAIN FilesOf[m] : j < y.i => j = x.i \/ j < x.i
          BY <1>2, <2>2, ModelFiles
        <4>3. \A j \in DOMAIN FilesOf[m] : j < y.i /\ FilesOf[m][j] \in Shared => ready'[FilesOf[m][j]]
          BY <1>4, <1>6, <2>6, <4>1, <4>2
        <4> QED BY <1>6, <2>2, <4>1, <4>3 DEF Found
      <3>2. y.at \in Writing /\ y.at \notin {"join", "replace"} /\ y.i >= 1  BY <1>2, <2>1, <2>2
      <3>3. \A f \in Files : y.subs[f] # "waiting"  BY <1>6, <2>2
      <3> QED BY <1>1, <2>2, <3>1, <3>2, <3>3, WritesOn
    <2>8. whole' = whole /\ part' = part /\ states' = states /\ xfer' = xfer
      BY <1>8
    <2>9. LockInv' /\ owners' \in [Procs -> [Locks -> Owner]]
      <3> DEFINE G == {s}
      <3>1. /\ G \subseteq Held(call[c]) /\ Held(y) = Held(call[c]) \ G
            /\ owners' = Given(My(c), G) /\ (Reads(y) <=> Reads(call[c]))
        BY <1>2, <1>5, <1>8, <2>4, <2>5
      <3>2. \A q \in Procs, f \in Files : HeldBy(xfer'[q][f]) = HeldBy(xfer[q][f])  BY <2>8
      <3> HIDE DEF G
      <3> QED BY <1>3, <2>3, <3>1, <3>2, ThreadGives
    <2>10. Leased'
      <3>1. \A n \in Models : ~Lessee(y, n) /\ ~Lessee(x, n)  BY <1>2, <2>1, <2>2 DEF Lessee
      <3> QED BY <1>3, <2>3, <2>8, <3>1, LeasesMoved
    <2>11. install' \in [Procs -> [Shared -> Callers \cup {None}]]
      <3>1. install \in [Procs -> [Shared -> Callers \cup {None}]]  BY <1>3 DEF Typed
      <3> HIDE DEF s
      <3> QED BY <1>3, <1>8, <3>1
    <2>12. /\ Calm /\ Growing /\ states' \in [Procs -> [Models -> ModelState]]
      BY <1>3, <2>6, <2>8 DEF Typed, Calm, Growing, SameDeletions, SameFor, Grows
    <2>13. \A f \in Files : ~Waits(y, f) /\ ~Waits(x, f)  BY <1>6, <2>2 DEF Waits
    <2>14. y.at # "drain" /\ Fitting(y, states[My(c)], whole, ready')  BY <2>2, <2>7
    <2> QED BY <2>2, <2>3, <2>6, <2>8, <2>9, <2>10, <2>11, <2>12, <2>13, <2>14, GoesOn
  <1> QED BY <1>7, <1>8 DEF Replace

LEMMA LastInv ==
  ASSUME LifecycleInv, NEW c \in Callers, Last(c)
  PROVE  LifecycleInv'
  <1>1. call[c].at # "idle" /\ call[c].at \notin Leasing  BY DEF Last, Leasing
  <1>2. Downloaded(c) \/ Fails(c)  BY DEF Last
  <1> QED BY <1>1, <1>2, DownloadedInv, FailsInv

LEMMA BreaksInv ==
  ASSUME LifecycleInv, NEW c \in Callers, Breaks(c)
  PROVE  LifecycleInv'
  <1>1. call[c].at # "idle" /\ call[c].at \notin Leasing /\ Fails(c)  BY DEF Breaks, Leasing
  <1> QED BY <1>1, FailsInv

----------------------------------------------------------------------------
(* Leases. *)

LEMMA LeaseStates ==
  ASSUME Typed, NEW p \in Procs, NEW m \in Models, NEW k,
         states' = [states EXCEPT ![p][m].leases = k]
  PROVE  /\ states'[p][m].leases = k
         /\ \A q \in Procs, n \in Models : q # p \/ n # m => states'[q][n].leases = states[q][n].leases
         /\ Calm
         /\ k \in Nat => states' \in [Procs -> [Models -> ModelState]]
  <1>1. states \in [Procs -> [Models -> ModelState]]  BY DEF Typed
  <1> DEFINE s == states[p][m]  s2 == [s EXCEPT !.leases = k]
  <1>2. s \in ModelState  BY <1>1
  <1>3. /\ s2.leases = k /\ s2.epoch = s.epoch /\ s2.deleting = s.deleting
        /\ k \in Nat => s2 \in ModelState
    <2> HIDE DEF s
    <2> QED BY <1>2 DEF ModelState
  <1>4. states' = [states EXCEPT ![p] = [states[p] EXCEPT ![m] = s2]]  BY <1>1 DEF ModelState
  <1> HIDE DEF s2
  <1>5. states'[p][m] = s2 /\ \A q \in Procs, n \in Models : q # p \/ n # m => states'[q][n] = states[q][n]
    BY <1>1, <1>4
  <1>6. Calm  BY <1>3, <1>5 DEF Calm, SameDeletions, SameFor
  <1>7. k \in Nat => states' \in [Procs -> [Models -> ModelState]]
    <2> SUFFICES ASSUME k \in Nat PROVE states' \in [Procs -> [Models -> ModelState]]  OBVIOUS
    <2>1. s2 \in ModelState  BY <1>3
    <2>2. [states[p] EXCEPT ![m] = s2] \in [Models -> ModelState]  BY <1>1, <2>1
    <2> QED BY <1>1, <1>4, <2>2
  <1> QED BY <1>3, <1>5, <1>6, <1>7

\* A thread with a lease.
LEMMA LesseeOf ==
  ASSUME LifecycleInv, NEW c \in Callers, call[c].at \in Leasing
  PROVE  /\ call[c] \in CallRecord /\ call[c].at # "idle" /\ call[c].model \in Models /\ call[c].i >= 1
         /\ call[c].op = "load"
         /\ \A a \in Files : call[c].subs[a] # "waiting"
         /\ Fresh(states[My(c)], call[c].model, call[c].outer)
         /\ call[c].at # "verify" => Complete(call[c].model, whole, ready)
  <1> DEFINE x == call[c]
  <1>1. /\ x \in CallRecord /\ Placed(x) /\ Aged(x, states[My(c)]) /\ Stocked(x, states[My(c)], whole, ready)
    BY CallOf
  <1>2. x.at # "idle" /\ x.at \notin {"look", "join", "wait"}  BY DEF Leasing
  <1>3. \A a \in Files : x.subs[a] # "waiting"
    <2> HIDE DEF x
    <2> QED BY <1>1, <1>2, NoneWaits
  <1>4. x.model \in Models /\ x.i >= 1 /\ x.op = "load"  BY <1>1, <1>2 DEF Placed
  <1>5. Fresh(states[My(c)], x.model, x.outer)  BY <1>1 DEF Aged
  <1>6. x.at # "verify" => Complete(x.model, whole, ready)  BY <1>1 DEF Stocked
  <1> QED BY <1>1, <1>2, <1>3, <1>4, <1>5, <1>6

LEMMA LeaseInv ==
  ASSUME LifecycleInv, NEW c \in Callers, Lease(c)
  PROVE  LifecycleInv'
  <1> DEFINE x == call[c]  m == x.model  p == My(c)  G == {m} \cup TreesOf(m)
             y == Moved(x, "verify")  k == states[p][m].leases + 1
  <1>1. x.at = "lease" /\ x.at # "idle" /\ x.at \notin Leasing /\ x.at \notin {"look", "join", "wait"}
    BY DEF Lease, Leasing
  <1>2. /\ x \in CallRecord /\ m \in Models /\ p \in Procs /\ Typed /\ LockInv /\ Leased
        /\ Placed(x) /\ x.op = "load" /\ x.i >= 1
    BY <1>1, CallOf DEF Placed, LifecycleInv
  <1>3. CASE Fails(c) \/ InUse(c)  BY <1>1, <1>3, FailsInv
  <1>4. CASE /\ Current(c, x.outer) /\ \A l \in G : MayAccess(p, l, TRUE)
             /\ owners' = Accessed(p, G, TRUE) /\ At(c, "verify")
             /\ states' = [states EXCEPT ![p][m].leases = @ + 1]
             /\ UNCHANGED <<durables, xfer, install>>
    <2>1. "verify" \in Ats /\ "verify" \in Leasing  BY DEF Ats, Leasing
    <2>2. y \in CallRecord /\ y.at = "verify" /\ y.model = m /\ y.i = x.i /\ y.epoch = x.epoch
          /\ y.op = x.op /\ y.outer = x.outer /\ y.subs = x.subs
      <3> HIDE DEF x
      <3> QED BY <1>2, <2>1, MovedRecord
    <2>3. call' = [call EXCEPT ![c] = y]  BY <1>4 DEF At, Moved
    <2> HIDE DEF y
    <2>4. Held(x) = {} /\ Held(y) = G /\ Reads(y) /\ G \in SUBSET Locks
      <3>1. Held(x) = {}  BY <1>1, HeldAt
      <3>2. Held(y) = G  BY <2>1, <2>2, HeldAt
      <3>3. G \in SUBSET Locks  BY <1>2, LockNames, ModelFiles
      <3> QED BY <2>1, <2>2, <3>1, <3>2, <3>3 DEF Reads
    <2>5. /\ whole' = whole /\ part' = part /\ ready' = ready /\ xfer' = xfer /\ install' = install
      BY <1>4 DEF durables
    <2>6. LockInv' /\ owners' \in [Procs -> [Locks -> Owner]]
      <3>1. /\ G \cap Held(call[c]) = {} /\ Held(y) = Held(call[c]) \cup G
            /\ owners' = Accessed(My(c), G, TRUE) /\ \A l \in G : MayAccess(My(c), l, TRUE)
            /\ (Reads(y) <=> TRUE) /\ TRUE \in BOOLEAN /\ Held(call[c]) = {}
        BY <1>4, <2>4
      <3>2. \A q \in Procs, f \in Files : HeldBy(xfer'[q][f]) = HeldBy(xfer[q][f])  BY <2>5
      <3> HIDE DEF G
      <3> QED BY <1>2, <2>3, <2>4, <3>1, <3>2, ThreadTakes
    <2>7. /\ states'[p][m].leases = k
          /\ \A q \in Procs, n \in Models : q # p \/ n # m => states'[q][n].leases = states[q][n].leases
          /\ Calm
          /\ k \in Nat => states' \in [Procs -> [Models -> ModelState]]
      <3>1. states' = [states EXCEPT ![p][m].leases = k]  BY <1>2, <1>4 DEF Typed
      <3> HIDE DEF k, m, p
      <3> QED BY <1>2, <3>1, LeaseStates
    <2>8. Leased' /\ \A q \in Procs, n \in Models : states'[q][n].leases \in Nat
      <3>1. \A n \in Models : ~Lessee(x, n) /\ (Lessee(y, n) <=> n = m)
        BY <1>1, <2>1, <2>2 DEF Lessee
      <3>2. \A q \in Procs, n \in Models :
              states'[q][n].leases =
                IF q = My(c) /\ Lessee(y, n) /\ ~Lessee(call[c], n) THEN states[q][n].leases + 1
                ELSE IF q = My(c) /\ ~Lessee(y, n) /\ Lessee(call[c], n) THEN states[q][n].leases - 1
                ELSE states[q][n].leases
        BY <2>7, <3>1
      <3> HIDE DEF x, m, p
      <3> QED BY <1>2, <2>3, <3>2, LeasesMoved, ZenonT(40)
    <2>9. states' \in [Procs -> [Models -> ModelState]]
      <3>1. states'[p][m].leases \in Nat  BY <1>2, <2>8
      <3>2. k \in Nat  BY <2>7, <3>1
      <3> QED BY <2>7, <3>2
    <2>10. \A a \in Files : x.subs[a] # "waiting"
      <3> HIDE DEF x
      <3> QED BY <1>1, <1>2, NoneWaits
    <2>11. Fitting(y, states[My(c)], whole, ready')
      <3>1. Fresh(states[My(c)], y.model, y.outer)  BY <1>4, <2>2 DEF Current, State, Fresh
      <3>2. \A a \in Files : y.subs[a] # "waiting"  BY <2>2, <2>10
      <3> QED BY <1>2, <2>1, <2>2, <3>1, <3>2, LeasingFits
    <2>12. /\ Growing /\ y.at # "drain" /\ ready' \in [Shared -> BOOLEAN]
           /\ install' \in [Procs -> [Shared -> Callers \cup {None}]]
      BY <1>2, <2>2, <2>5 DEF Typed, Growing, Grows
    <2>13. \A a \in Files : ~Waits(y, a) /\ ~Waits(x, a)  BY <2>2, <2>10 DEF Waits
    <2> QED BY <2>2, <2>3, <2>5, <2>6, <2>7, <2>8, <2>9, <2>11, <2>12, <2>13, GoesOn
  <1> QED BY <1>3, <1>4 DEF Lease

\* The lease ends with the call.
LEMMA UnleasedInv ==
  ASSUME LifecycleInv, NEW c \in Callers, NEW at \in Ended, Unleased(c, at), call[c].at \in Leasing
  PROVE  LifecycleInv'
  <1> DEFINE x == call[c]  m == x.model  p == My(c)  y == Left(x, at)  k == states[p][m].leases - 1
  <1>1. /\ x \in CallRecord /\ m \in Models /\ p \in Procs /\ Typed /\ Leased /\ x.at # "idle"
    BY LesseeOf, CallOf DEF LifecycleInv
  <1>2. at \in Ended \cup {"lease", "mutation"} /\ at \notin Leasing /\ at # "lease" /\ at # "mutation"
    BY DEF Ended, Leasing
  <1>3. /\ states'[p][m].leases = k
        /\ \A q \in Procs, n \in Models : q # p \/ n # m => states'[q][n].leases = states[q][n].leases
        /\ Calm
        /\ k \in Nat => states' \in [Procs -> [Models -> ModelState]]
    <2>1. states' = [states EXCEPT ![p][m].leases = k]  BY <1>1 DEF Typed, Unleased
    <2> HIDE DEF k, m, p
    <2> QED BY <1>1, <2>1, LeaseStates
  <1>4. Leased' /\ \A q \in Procs, n \in Models : states'[q][n].leases \in Nat
    <2>1. y.at = at
      <3> HIDE DEF x
      <3> QED BY <1>1, <1>2, LeftRecord
    <2>2. call' = [call EXCEPT ![c] = y]
      <3>1. Leave(c, at)  BY DEF Unleased
      <3> QED BY <3>1 DEF Leave, Left
    <2> HIDE DEF y
    <2>3. \A n \in Models : ~Lessee(y, n) /\ (Lessee(x, n) <=> n = m)
      BY <1>2, <2>1 DEF Lessee
    <2>4. \A q \in Procs, n \in Models :
            states'[q][n].leases =
              IF q = My(c) /\ Lessee(y, n) /\ ~Lessee(call[c], n) THEN states[q][n].leases + 1
              ELSE IF q = My(c) /\ ~Lessee(y, n) /\ Lessee(call[c], n) THEN states[q][n].leases - 1
              ELSE states[q][n].leases
      BY <1>3, <2>3
    <2>5. Typed /\ Leased  BY <1>1
    <2> QED BY ONLY c \in Callers, <2>2, <2>4, <2>5, LeasesMoved
  <1>5. states' \in [Procs -> [Models -> ModelState]]
    <2>1. states'[p][m].leases \in Nat  BY <1>1, <1>4
    <2>2. k \in Nat  BY <1>3, <2>1
    <2> QED BY <1>3, <2>2
  <1>6. Leave(c, at)  BY DEF Unleased
  <1> QED BY <1>1, <1>2, <1>3, <1>4, <1>5, <1>6, LeaveInv

\* The lease is kept.
LEMMA LesseeMoves ==
  ASSUME LifecycleInv, NEW c \in Callers, NEW at \in Leasing, At(c, at), Elsewhere,
         call[c].at \in Leasing, Complete(call[c].model, whole, ready)
  PROVE  LifecycleInv'
  <1> DEFINE x == call[c]  m == x.model  y == Moved(x, at)
  <1>1. /\ x \in CallRecord /\ x.at # "idle" /\ m \in Models /\ x.i >= 1 /\ x.op = "load"
        /\ \A a \in Files : x.subs[a] # "waiting"
        /\ Fresh(states[My(c)], m, x.outer)
    BY LesseeOf
  <1>2. at \in Ats /\ at # "drain"  BY DEF Ats, Leasing
  <1>3. y.at = at /\ y.model = m /\ y.i = x.i /\ y.op = x.op /\ y.outer = x.outer /\ y.subs = x.subs
    <2> HIDE DEF x
    <2> QED BY <1>1, <1>2, MovedRecord
  <1>4. Held(x) = {m} \cup TreesOf(m)  BY HeldAt
  <1>5. Held(y) = Held(x) /\ (Reads(y) <=> Reads(x))
    <2> HIDE DEF y
    <2> QED BY <1>3, <1>4, HeldAt DEF Reads
  <1>6. Fitting(y, states[My(c)], whole, ready)
    <2> HIDE DEF y
    <2>1. \A a \in Files : y.subs[a] # "waiting"  BY <1>1, <1>3
    <2>2. Fresh(states[My(c)], y.model, y.outer) /\ Complete(y.model, whole, ready)  BY <1>1, <1>3
    <2>3. y.at \in Leasing /\ y.model \in Models /\ y.i >= 1 /\ y.op = "load"  BY <1>1, <1>3
    <2> QED BY <2>1, <2>2, <2>3, LeasingFits
  <1> QED BY <1>2, <1>5, <1>6, AtInv

LEMMA VerifyInv ==
  ASSUME LifecycleInv, NEW c \in Callers, Verify(c)
  PROVE  LifecycleInv'
  <1>1. call[c].at \in Leasing /\ call[c].at # "idle"  BY DEF Verify, Leasing
  <1>2. CASE AssetsReady(call[c].model)
    <2>1. Complete(call[c].model, whole, ready)  BY <1>1, <1>2, CallOf
    <2>2. At(c, "initialize") /\ Elsewhere /\ "initialize" \in Leasing  BY <1>2 DEF Verify, Leasing
    <2> QED BY <1>1, <2>1, <2>2, LesseeMoves
  <1>3. CASE ~AssetsReady(call[c].model)
    <2>1. Unleased(c, "failed") /\ "failed" \in Ended  BY <1>3 DEF Verify, Ended
    <2> QED BY <1>1, <2>1, UnleasedInv
  <1> QED BY <1>2, <1>3

LEMMA InitializeInv ==
  ASSUME LifecycleInv, NEW c \in Callers, Initialize(c)
  PROVE  LifecycleInv'
  <1>1. call[c].at \in Leasing /\ call[c].at # "verify"  BY DEF Initialize, Leasing
  <1>2. Complete(call[c].model, whole, ready)  BY <1>1, LesseeOf
  <1>3. "loaded" \in Leasing /\ "retained" \in Leasing /\ "failed" \in Ended  BY DEF Leasing, Ended
  <1>4. \/ Elsewhere /\ At(c, "loaded")
        \/ Elsewhere /\ At(c, "retained")
        \/ Unleased(c, "failed")
    BY DEF Initialize
  <1> QED BY <1>1, <1>2, <1>3, <1>4, LesseeMoves, UnleasedInv

LEMMA UnloadInv ==
  ASSUME LifecycleInv, NEW c \in Callers, Unload(c)
  PROVE  LifecycleInv'
  <1>1. call[c].at \in Leasing /\ "ready" \in Ended /\ Unleased(c, "ready")
    BY DEF Unload, Leasing, Ended
  <1> QED BY <1>1, UnleasedInv

----------------------------------------------------------------------------
(* Deletions. *)

LEMMA ExclusiveInv ==
  ASSUME LifecycleInv, NEW c \in Callers, Exclusive(c)
  PROVE  LifecycleInv'
  <1> DEFINE x == call[c]  m == x.model  y == Moved(x, "mark")
  <1>1. x.at = "exclusive" /\ x.at # "idle" /\ x.at \notin Leasing /\ x.at \notin {"look", "join", "wait"}
    BY DEF Exclusive, Leasing
  <1>2. x \in CallRecord /\ m \in Models /\ Placed(x) /\ x.op = "delete" /\ x.i >= 1
    BY <1>1, CallOf DEF Placed
  <1>3. CASE InUse(c)  BY <1>1, <1>3, FailsInv
  <1>4. CASE MayAccess(My(c), m, FALSE) /\ Take(c, m, FALSE, "mark")
    <2>1. "mark" \in Ats /\ "mark" \notin Leasing  BY DEF Ats, Deleting, Leasing
    <2>2. y.at = "mark" /\ y.model = m /\ y.op = x.op /\ y.i = x.i /\ y.subs = x.subs
      <3> HIDE DEF x
      <3> QED BY <1>2, <2>1, MovedRecord
    <2>3. \A a \in Files : x.subs[a] # "waiting"
      <3> HIDE DEF x
      <3> QED BY <1>1, <1>2, NoneWaits
    <2>4. Held(x) = {} /\ Held(y) = {m} /\ ~Reads(y)
      <3> HIDE DEF y
      <3>1. Held(x) = {}  BY <1>1, HeldAt
      <3>2. y.at \in Deleting  BY <2>2 DEF Deleting
      <3>3. Held(y) = {m}  BY <2>2, <3>2, HeldAt
      <3> QED BY <2>1, <2>2, <3>1, <3>3 DEF Reads
    <2>5. Fitting(y, states[My(c)], whole, ready)
      <3> HIDE DEF y
      <3>1. \A a \in Files : y.subs[a] # "waiting"  BY <2>2, <2>3
      <3> QED BY <1>2, <2>2, <3>1, OutsideFits
    <2>6. m \in Locks  BY <1>2, LockNames
    <2> QED BY <1>1, <1>4, <2>1, <2>4, <2>5, <2>6, TakeInv
  <1> QED BY <1>3, <1>4 DEF Exclusive

LEMMA StoppedOnes ==
  ASSUME Typed, NEW p \in Procs, NEW m \in Models, xfer' = Stopped(p, m)
  PROVE  /\ xfer' \in [Procs -> [Files -> TransferRecord]]
         /\ \A q \in Procs, f \in Files :
              LET t == xfer[q][f]  t2 == xfer'[q][f] IN
              /\ t2.at = t.at /\ t2.model = t.model /\ t2.failed = t.failed
              /\ ~t2.stop => ~t.stop
              /\ q = p /\ f \in PrivateOf(m) /\ t.at # "none" => t2.stop
  <1>1. xfer \in [Procs -> [Files -> TransferRecord]]  BY DEF Typed
  <1>2. \A q \in Procs : q # p => xfer'[q] = xfer[q]  BY <1>1 DEF Stopped
  <1>3. \A f \in Files : xfer'[p][f] = IF f \in PrivateOf(m) /\ xfer[p][f].at # "none"
                                       THEN [xfer[p][f] EXCEPT !.stop = TRUE] ELSE xfer[p][f]
    BY <1>1 DEF Stopped
  <1>4. \A t \in TransferRecord : LET t2 == [t EXCEPT !.stop = TRUE] IN
          /\ t2 \in TransferRecord /\ t2.at = t.at /\ t2.model = t.model /\ t2.failed = t.failed
          /\ t2.stop
    BY DEF TransferRecord
  <1>5. ASSUME NEW q \in Procs, NEW f \in Files
        PROVE  LET t == xfer[q][f]  t2 == xfer'[q][f] IN
               /\ t2 \in TransferRecord /\ t2.at = t.at /\ t2.model = t.model /\ t2.failed = t.failed
               /\ ~t2.stop => ~t.stop
               /\ q = p /\ f \in PrivateOf(m) /\ t.at # "none" => t2.stop
    <2>1. xfer[q][f] \in TransferRecord  BY <1>1
    <2>2. CASE q = p /\ f \in PrivateOf(m) /\ xfer[q][f].at # "none"  BY <1>3, <1>4, <2>1, <2>2
    <2>3. CASE ~(q = p /\ f \in PrivateOf(m) /\ xfer[q][f].at # "none")
      <3>1. xfer'[q][f] = xfer[q][f]  BY <1>2, <1>3, <2>3
      <3> QED BY <2>1, <2>3, <3>1
    <2> QED BY <2>2, <2>3
  <1>6. xfer' \in [Procs -> [Files -> TransferRecord]]
    <2>1. xfer' = [xfer EXCEPT ![p] = xfer'[p]]  BY <1>1 DEF Stopped
    <2>2. xfer'[p] = [f \in Files |-> xfer'[p][f]]  BY <1>1 DEF Stopped
    <2>3. xfer'[p] \in [Files -> TransferRecord]  BY <1>5, <2>2
    <2> QED BY <1>1, <2>1, <2>3
  <1> QED BY <1>5, <1>6

\* A deletion begins, or ends.
LEMMA MarkedStates ==
  ASSUME Typed, NEW p \in Procs, NEW m \in Models,
         states' = [states EXCEPT ![p][m].deleting = TRUE, ![p][m].epoch = @ + 1]
  PROVE  /\ states' \in [Procs -> [Models -> ModelState]]
         /\ states'[p][m].epoch = states[p][m].epoch + 1 /\ states'[p][m].deleting
         /\ states'[p][m].leases = states[p][m].leases
         /\ \A q \in Procs, n \in Models : q # p \/ n # m => states'[q][n] = states[q][n]
  <1>1. states \in [Procs -> [Models -> ModelState]]  BY DEF Typed
  <1> DEFINE s == states[p][m]  e == s.epoch + 1
  <1>2. s \in ModelState /\ s.epoch \in Nat  BY <1>1 DEF ModelState
  <1>3. e \in Nat  BY <1>2
  <1>4. states' = [states EXCEPT ![p] = [states[p] EXCEPT ![m] =
                     [states[p][m] EXCEPT !.deleting = TRUE, !.epoch = e]]]
    BY <1>1 DEF ModelState
  <1> DEFINE s2 == [s EXCEPT !.deleting = TRUE, !.epoch = e]
  <1> HIDE DEF e
  <1>5. s2 \in ModelState /\ s2.epoch = e /\ s2.deleting /\ s2.leases = s.leases
    <2> HIDE DEF s
    <2> QED BY <1>2, <1>3 DEF ModelState
  <1>6. states' = [states EXCEPT ![p] = [states[p] EXCEPT ![m] = s2]]  BY <1>4
  <1> HIDE DEF s2
  <1>7. states'[p][m] = s2 /\ \A q \in Procs, n \in Models : q # p \/ n # m => states'[q][n] = states[q][n]
    BY ONLY p \in Procs, m \in Models, <1>1, <1>6
  <1>8. states' \in [Procs -> [Models -> ModelState]]
    <2>1. [states[p] EXCEPT ![m] = s2] \in [Models -> ModelState]  BY <1>1, <1>5
    <2> QED BY <1>1, <1>6, <2>1
  <1> QED BY <1>5, <1>7, <1>8 DEF e

LEMMA UnmarkedStates ==
  ASSUME Typed, NEW p \in Procs, NEW m \in Models,
         states' = [states EXCEPT ![p][m].deleting = FALSE]
  PROVE  /\ states' \in [Procs -> [Models -> ModelState]]
         /\ states'[p][m].epoch = states[p][m].epoch /\ ~states'[p][m].deleting
         /\ states'[p][m].leases = states[p][m].leases
         /\ \A q \in Procs, n \in Models : q # p \/ n # m => states'[q][n] = states[q][n]
  <1>1. states \in [Procs -> [Models -> ModelState]]  BY DEF Typed
  <1> DEFINE s == states[p][m]  s2 == [s EXCEPT !.deleting = FALSE]
  <1>2. s \in ModelState  BY <1>1
  <1>3. states' = [states EXCEPT ![p] = [states[p] EXCEPT ![m] = s2]]  BY <1>1 DEF ModelState
  <1>4. s2 \in ModelState /\ s2.epoch = s.epoch /\ ~s2.deleting /\ s2.leases = s.leases
    <2> HIDE DEF s
    <2> QED BY <1>2 DEF ModelState
  <1> HIDE DEF s2
  <1>5. states'[p][m] = s2 /\ \A q \in Procs, n \in Models : q # p \/ n # m => states'[q][n] = states[q][n]
    BY <1>1, <1>3
  <1>6. states' \in [Procs -> [Models -> ModelState]]
    <2>1. [states[p] EXCEPT ![m] = s2] \in [Models -> ModelState]  BY <1>1, <1>4
    <2> QED BY <1>1, <1>3, <2>1
  <1> QED BY <1>4, <1>5, <1>6

\* Who waits for a file looks, joins or waits, for a model that has it.
LEMMA UserOf ==
  ASSUME LifecycleInv, NEW p \in Procs, NEW a \in Files, NEW d \in Users(p, a)
  PROVE  /\ d \in Callers /\ My(d) = p /\ Waits(call[d], a) /\ call[d].at \in {"look", "join", "wait"}
         /\ call[d].model \in Models /\ HasFile(call[d].model, a)
  <1>1. d \in Callers /\ My(d) = p /\ Waits(call[d], a)  BY DEF Users, Waits
  <1>2. Placed(call[d])  BY <1>1, CallOf
  <1>3. call[d].at \in {"look", "join", "wait"} /\ HasFile(call[d].model, a)
    BY <1>1, <1>2 DEF Placed, Waits
  <1> QED BY <1>1, <1>2, <1>3 DEF Placed

LEMMA MarkInv ==
  ASSUME LifecycleInv, NEW c \in Callers, Mark(c)
  PROVE  LifecycleInv'
  <1> DEFINE x == call[c]  m == x.model  p == My(c)  y == Moved(x, "drain")  S == states[p][m]
  <1>1. x.at = "mark" /\ x.at # "idle" /\ x.at \notin Leasing /\ x.at \in Deleting
    BY DEF Mark, Leasing, Deleting
  <1>2. /\ x \in CallRecord /\ m \in Models /\ p \in Procs /\ Placed(x) /\ x.op = "delete" /\ x.i >= 1
        /\ Typed /\ LockInv /\ Leased /\ State(c) = S /\ S \in ModelState
    BY <1>1, CallOf DEF Placed, LifecycleInv
  <1>3. \A a \in Files : x.subs[a] # "waiting"
    <2>1. x.at \notin {"look", "join", "wait"}  BY <1>1
    <2> HIDE DEF x
    <2> QED BY <1>2, <2>1, NoneWaits
  <1>4. ASSUME NEW at \in {"inuse", "failed"}, Leave(c, at), states' = states
        PROVE  LifecycleInv'
    <2>1. at \in Ended \cup {"lease", "mutation"} /\ at # "lease" /\ at # "mutation"  BY DEF Ended
    <2> QED BY <1>1, <1>4, <2>1, LeavesInv
  <1>5. CASE S.leases > 0 \/ S.deleting
    <2>1. Leave(c, IF S.leases > 0 THEN "inuse" ELSE "failed") /\ states' = states
      BY <1>2, <1>5 DEF Mark
    <2> QED BY <1>4, <2>1
  <1>6. CASE ~(S.leases > 0 \/ S.deleting)
    <2>1. /\ states' = [states EXCEPT ![p][m].deleting = TRUE, ![p][m].epoch = @ + 1]
          /\ xfer' = Stopped(p, m) /\ At(c, "drain")
          /\ UNCHANGED <<whole, part, ready, owners, install>>
      BY <1>2, <1>6 DEF Mark, durables
    <2>2. "drain" \in Ats  BY DEF Ats, Deleting
    <2>3. /\ y \in CallRecord /\ y.at = "drain" /\ y.op = x.op /\ y.model = m /\ y.i = x.i
          /\ y.epoch = x.epoch /\ y.subs = x.subs
      <3> HIDE DEF x
      <3> QED BY <1>2, <2>2, MovedRecord
    <2>4. call' = [call EXCEPT ![c] = y]  BY <2>1 DEF At, Moved
    <2> HIDE DEF y
    <2>5. call'[c] = y /\ \A d \in Callers : d # c => call'[d] = call[d]  BY <1>2, <2>4 DEF Typed
    <2>6. /\ states' \in [Procs -> [Models -> ModelState]]
          /\ states'[p][m].epoch = S.epoch + 1 /\ states'[p][m].deleting
          /\ states'[p][m].leases = S.leases
          /\ \A q \in Procs, n \in Models : q # p \/ n # m => states'[q][n] = states[q][n]
      <3> HIDE DEF p, m
      <3> QED BY <1>2, <2>1, MarkedStates
    <2>7. /\ xfer' \in [Procs -> [Files -> TransferRecord]]
          /\ \A q \in Procs, f \in Files :
              LET t == xfer[q][f]  t2 == xfer'[q][f] IN
              /\ t2.at = t.at /\ t2.model = t.model /\ t2.failed = t.failed
              /\ ~t2.stop => ~t.stop
              /\ q = p /\ f \in PrivateOf(m) /\ t.at # "none" => t2.stop
      <3> HIDE DEF p, m
      <3> QED BY <1>2, <2>1, StoppedOnes
    <2>8. LockInv'
      <3>1. Held(x) = {m} /\ ~Reads(x)  BY <1>1, HeldAt DEF Reads
      <3>2. Held(y) = {m} /\ ~Reads(y)
        <4>1. y.at \in Deleting /\ y.at \notin Leasing  BY <2>3 DEF Deleting, Leasing
        <4> QED BY <2>3, <4>1, HeldAt DEF Reads
      <3>3. \A q \in Procs, f \in Files : HeldBy(xfer'[q][f]) = HeldBy(xfer[q][f])
        BY <2>7 DEF HeldBy
      <3> QED BY <1>2, <2>1, <2>4, <3>1, <3>2, <3>3, ThreadKeeps
    <2>9. Leased'
      <3>1. \A n \in Models : ~Lessee(y, n) /\ ~Lessee(x, n)  BY <1>1, <2>3 DEF Lessee, Leasing
      <3>2. \A q \in Procs, n \in Models : states'[q][n].leases = states[q][n].leases  BY <2>6
      <3>3. \A q \in Procs, n \in Models :
              states'[q][n].leases =
                IF q = My(c) /\ Lessee(y, n) /\ ~Lessee(call[c], n) THEN states[q][n].leases + 1
                ELSE IF q = My(c) /\ ~Lessee(y, n) /\ Lessee(call[c], n) THEN states[q][n].leases - 1
                ELSE states[q][n].leases
        BY <3>1, <3>2
      <3>4. Typed /\ Leased  BY <1>2
      <3>5. Leased' /\ \A q \in Procs, n \in Models : states'[q][n].leases \in Nat
        BY ONLY c \in Callers, <2>4, <3>3, <3>4, LeasesMoved
      <3> QED BY <3>5
    <2>10. \A d \in Callers : My(d) = p /\ call[d].model = m => call[d].at # "drain" /\ call[d].at \notin Leasing
      <3> SUFFICES ASSUME NEW d \in Callers, My(d) = p, call[d].model = m
                   PROVE  call[d].at # "drain" /\ call[d].at \notin Leasing
        OBVIOUS
      <3>1. Aged(call[d], states[p])  BY CallOf
      <3>2. call[d].at # "drain"  BY <1>6, <3>1 DEF Aged
      <3>3. ASSUME call[d].at \in Leasing PROVE FALSE
        <4>1. d \in Lessees(p, m)  BY <3>3 DEF Lessees
        <4>2. IsFiniteSet(Lessees(p, m))
          <5>1. Lessees(p, m) \subseteq Callers  BY DEF Lessees
          <5> QED BY <5>1, LifecycleAssumption, FS_Subset DEF LifecycleAssumption
        <4>3. Cardinality(Lessees(p, m)) > 0  BY <4>1, <4>2, SomeCounted
        <4>4. S.leases = Cardinality(Lessees(p, m))  BY <1>2 DEF Leased
        <4> QED BY <1>6, <4>3, <4>4
      <3> QED BY <3>2, <3>3
    <2>11. OneDrains'
      <3> SUFFICES ASSUME NEW d1 \in Callers, NEW d2 \in Callers, call'[d1].at = "drain",
                          call'[d2].at = "drain", My(d1) = My(d2), call'[d1].model = call'[d2].model
                   PROVE  d1 = d2
        BY DEF OneDrains, My
      <3> QED BY <2>3, <2>5, <2>10 DEF LifecycleInv, OneDrains
    <2>12. ASSUME NEW d \in Callers PROVE CallFits(d)'
      <3>1. CASE d = c
        <4>1. Placed(y)
          <5>1. y.at \notin Leasing \cup {"lease"}  BY <2>3 DEF Leasing
          <5> QED BY <1>2, <1>3, <2>3, <5>1 DEF Placed
        <4>2. y.at \notin Begun /\ y.at \notin Leasing /\ y.at \notin Writing
          BY <2>3 DEF Begun, Leasing, Writing
        <4>3. Aged(y, states'[p])  BY <2>3, <2>6, <4>2 DEF Aged
        <4>4. Stocked(y, states'[p], whole', ready')  BY <4>2 DEF Stocked
        <4> QED BY <2>5, <3>1, <4>1, <4>3, <4>4 DEF CallFits, Fitting, My
      <3>2. CASE d # c
        <4> DEFINE z == call[d]
        <4>1. /\ Fitting(z, states[My(d)], whole, ready) /\ My(d) \in Procs
              /\ z.at # "idle" => z.model \in Models
          BY HomeOf, CallOf DEF LifecycleInv, CallFits
        <4>2. Fitting(z, states'[My(d)], whole, ready)
          <5>1. CASE z.at = "idle" \/ My(d) # p \/ z.model # m
            <6>1. z.at # "idle" => SameFor(z.model, states[My(d)], states'[My(d)])
              BY <2>6, <4>1, <5>1 DEF SameFor
            <6>2. KeepsFor(z.model, whole, whole, ready, ready)  BY DEF KeepsFor
            <6> QED BY <4>1, <6>1, <6>2, FittingStays
          <5>2. CASE z.at # "idle" /\ My(d) = p /\ z.model = m
            <6>1. Placed(z) /\ Aged(z, states[p])  BY <4>1, <5>2 DEF Fitting
            <6>2. z.at # "drain" /\ z.at \notin Leasing  BY <2>10, <5>2
            <6>3. z.at \in Begun => z.epoch <= states'[p][m].epoch /\ z.epoch < states'[p][m].epoch
              <7>1. z \in CallRecord  BY <1>2 DEF Typed
              <7>2. z.epoch \in Nat
                <8> HIDE DEF z
                <8> QED BY <7>1 DEF CallRecord
              <7>3. S.epoch \in Nat  BY <1>2 DEF ModelState
              <7>4. z.at \in Begun => z.epoch <= S.epoch  BY <5>2, <6>1 DEF Aged
              <7> HIDE DEF z, S
              <7> QED BY <2>6, <7>2, <7>3, <7>4
            <6>4. Aged(z, states'[p])  BY <5>2, <6>2, <6>3 DEF Aged
            <6>5. ~Fresh(states'[p], m, z.epoch)  BY <2>6 DEF Fresh
            <6>6. Stocked(z, states'[p], whole, ready)  BY <5>2, <6>2, <6>5 DEF Stocked
            <6> QED BY <5>2, <6>1, <6>4, <6>6 DEF Fitting
          <5> QED BY <5>1, <5>2
        <4>3. call'[d] = z /\ whole' = whole /\ ready' = ready  BY <2>1, <2>5, <3>2
        <4> QED BY <4>2, <4>3 DEF CallFits, My
      <3> QED BY <3>1, <3>2
    <2>13. ASSUME NEW q \in Procs, NEW f \in Files PROVE TransferFits(q, f)'
      <3>1. Users(q, f)' = Users(q, f)  BY <1>3, <2>3, <2>5 DEF Users, My
      <3>2. \A d \in Users(q, f) :
              /\ d \in Callers /\ My(d) = q /\ call[d].model \in Models /\ HasFile(call[d].model, f)
              /\ call'[d].model = call[d].model /\ call'[d].epoch = call[d].epoch
        BY <2>3, <2>5, UserOf
      <3>3. TransferFits(q, f)  BY DEF LifecycleInv
      <3> DEFINE t == xfer[q][f]  t2 == xfer'[q][f]  U == Users(q, f)
      <3>4. /\ t2.at = t.at /\ t2.model = t.model /\ t2.failed = t.failed
            /\ ~t2.stop => ~t.stop
            /\ q = p /\ f \in PrivateOf(m) /\ t.at # "none" => t2.stop
        BY <2>7
      <3>5. /\ t.at = "none" => U = {}
            /\ t.at # "none" => t.model \in Models /\ HasFile(t.model, f)
            /\ t.at # "none" /\ ~t.stop =>
                 /\ U # {}
                 /\ f \notin Shared => \A d \in U : Fresh(states[q], call[d].model, call[d].epoch)
            /\ t.at \in {"release", "done"} /\ ~t.failed /\ U # {} => whole[f]
        <4> HIDE DEF U
        <4> QED BY <3>3 DEF TransferFits, U
      <3>6. t.at # "none" /\ ~t2.stop /\ f \notin Shared =>
              \A d \in U : Fresh(states'[q], call'[d].model, call'[d].epoch)
        <4> SUFFICES ASSUME t.at # "none", ~t2.stop, f \notin Shared, NEW d \in U
                     PROVE  Fresh(states'[q], call'[d].model, call'[d].epoch)
          OBVIOUS
        <4>1. Fresh(states[q], call[d].model, call[d].epoch)  BY <3>4, <3>5
        <4>2. /\ d \in Callers /\ My(d) = q /\ call[d].model \in Models /\ HasFile(call[d].model, f)
              /\ call'[d].model = call[d].model /\ call'[d].epoch = call[d].epoch
          BY <3>2
        <4>3. q # p \/ call[d].model # m
          <5> SUFFICES ASSUME q = p, call[d].model = m PROVE FALSE  OBVIOUS
          <5>1. f \in PrivateOf(m)  BY <1>2, <4>2, ModelFiles
          <5> QED BY <3>4, <5>1
        <4>4. states'[q][call[d].model] = states[q][call[d].model]  BY <2>6, <4>2, <4>3
        <4> QED BY <4>1, <4>2, <4>4 DEF Fresh
      <3>7. whole' = whole  BY <2>1
      <3> HIDE DEF U, t, t2
      <3>8. /\ t2.at = "none" => U = {}
            /\ t2.at # "none" => t2.model \in Models /\ HasFile(t2.model, f)
            /\ t2.at # "none" /\ ~t2.stop =>
                 /\ U # {}
                 /\ f \notin Shared => \A d \in U : Fresh(states'[q], call'[d].model, call'[d].epoch)
            /\ t2.at \in {"release", "done"} /\ ~t2.failed /\ U # {} => whole'[f]
        BY <3>4, <3>5, <3>6, <3>7
      <3>9. Users(q, f)' = U /\ xfer'[q][f] = t2  BY <3>1 DEF U, t2
      <3> HIDE DEF Users
      <3> QED BY <3>8, <3>9 DEF TransferFits
    <2>14. Typed'  BY <1>2, <2>1, <2>3, <2>4, <2>6, <2>7 DEF Typed
    <2> QED BY <2>8, <2>9, <2>11, <2>12, <2>13, <2>14 DEF LifecycleInv
  <1> QED BY <1>5, <1>6

\* Who writes, loads or deletes a model in a process has its lock there.
LEMMA ModelHeld ==
  ASSUME LifecycleInv, NEW d \in Callers, call[d].at \in Writing \cup Leasing \cup Deleting \cup {"reading"}
  PROVE  LET l == call[d].model IN
         /\ l \in Models /\ l \in Locks /\ l \in Held(call[d])
         /\ owners[My(d)][l].refs > 0
         /\ owners[My(d)][l].shared <=> Reads(call[d])
  <1> DEFINE z == call[d]  l == z.model
  <1>1. z.at # "idle"  BY DEF Writing, Leasing, Deleting
  <1>2. l \in Models /\ LockInv /\ My(d) \in Procs  BY <1>1, CallOf
  <1>3. l \in Locks  BY <1>2, LockNames
  <1>4. l \in Held(z)  BY HeldAt
  <1>5. owners[My(d)][l].refs > 0  BY <1>2, <1>4, HolderHas DEF LockInv
  <1>6. owners[My(d)][l].shared <=> Reads(z)  BY <1>2, <1>4 DEF LockInv, InMode
  <1> QED BY <1>2, <1>3, <1>4, <1>5, <1>6

\* So while a process deletes a model no other writes, loads or reads it.
LEMMA NoOther ==
  ASSUME LifecycleInv, NEW c \in Callers, NEW d \in Callers, My(c) # My(d), call[c].at \in Deleting,
         call[d].model = call[c].model
  PROVE  call[d].at \notin Writing \cup Leasing \cup {"reading"}
  <1> SUFFICES ASSUME call[d].at \in Writing \cup Leasing \cup {"reading"} PROVE FALSE  OBVIOUS
  <1> DEFINE l == call[c].model
  <1>1. l \in Locks /\ owners[My(c)][l].refs > 0 /\ (owners[My(c)][l].shared <=> Reads(call[c]))
    BY ModelHeld
  <1>2. owners[My(d)][l].refs > 0  BY ModelHeld
  <1>3. ~Reads(call[c])  BY DEF Reads, Deleting, Leasing
  <1>4. My(c) \in Procs /\ My(d) \in Procs /\ Exclusion  BY CallOf DEF LockInv
  <1>5. owners[My(c)][l].shared  BY <1>1, <1>2, <1>4 DEF Exclusion
  <1> QED BY <1>1, <1>3, <1>5

LEMMA RemoveInv ==
  ASSUME LifecycleInv, NEW c \in Callers, Remove(c)
  PROVE  LifecycleInv'
  <1> DEFINE x == call[c]  m == x.model  p == My(c)  S == states[p][m]
  <1>1. x.at = "drain" /\ x.at # "idle" /\ x.at \notin Leasing /\ x.at \in Deleting
    BY DEF Remove, Leasing, Deleting
  <1>2. /\ x \in CallRecord /\ m \in Models /\ p \in Procs /\ Typed /\ LockInv /\ Leased
        /\ State(c) = S /\ S \in ModelState /\ S.deleting
    BY <1>1, CallOf DEF Aged, LifecycleInv
  <1>3. \A a \in Files : x.subs[a] # "waiting"
    <2>1. x.at \notin {"look", "join", "wait"} /\ Placed(x)  BY <1>1, CallOf
    <2> HIDE DEF x
    <2> QED BY <1>2, <2>1, NoneWaits
  <1>4. PICK D \in SUBSET PrivateOf(m) :
          /\ whole' = [a \in Files |-> whole[a] /\ a \notin D]
          /\ part' = [a \in Files |-> IF a \in D THEN "none" ELSE part[a]]
          /\ call' = [call EXCEPT ![c] = Over(@, IF D = PrivateOf(m) THEN "ready" ELSE "failed")]
    BY DEF Remove
  <1> DEFINE at == IF D = PrivateOf(m) THEN "ready" ELSE "failed"  y == Left(x, at)
  <1>5. /\ states' = [states EXCEPT ![p][m].deleting = FALSE] /\ owners' = Given(p, Held(x))
        /\ ready' = ready /\ xfer' = xfer /\ install' = install
        /\ \A a \in PrivateOf(m) : xfer[p][a].at = "none"
    BY DEF Remove, Drained
  <1>6. at \in {"ready", "failed"} /\ at \in Ended /\ at \in Ended \cup {"lease", "mutation"}  BY DEF Ended
  <1> HIDE DEF at
  <1>7. call' = [call EXCEPT ![c] = y]  BY <1>4, <1>6 DEF Left, at
  <1>8. /\ y \in CallRecord /\ y.at = at /\ y.op = x.op /\ y.model = m /\ y.i = 1
        /\ \A a \in Files : y.subs[a] = "none"
    <2> HIDE DEF x
    <2> QED BY <1>2, <1>6, LeftRecord
  <1> HIDE DEF y
  <1>9. call'[c] = y /\ \A d \in Callers : d # c => call'[d] = call[d]  BY <1>2, <1>7 DEF Typed
  <1>10. /\ states' \in [Procs -> [Models -> ModelState]]
         /\ states'[p][m].epoch = S.epoch /\ ~states'[p][m].deleting
         /\ states'[p][m].leases = S.leases
         /\ \A q \in Procs, n \in Models : q # p \/ n # m => states'[q][n] = states[q][n]
    <2> HIDE DEF p, m
    <2> QED BY <1>2, <1>5, UnmarkedStates
  <1>11. LockInv' /\ owners' \in [Procs -> [Locks -> Owner]]
    <2> DEFINE G == Held(x)
    <2>1. Held(y) = {}  BY <1>6, <1>8, HeldAt
    <2>2. owners' = Given(My(c), G) /\ G \subseteq Held(call[c]) /\ Held(y) = Held(call[c]) \ G
      BY <1>5, <2>1
    <2>3. \A q \in Procs, f \in Files : HeldBy(xfer'[q][f]) = HeldBy(xfer[q][f])  BY <1>5
    <2> HIDE DEF G
    <2> QED BY <1>2, <1>7, <2>1, <2>2, <2>3, ThreadGives
  <1>12. Leased'
    <2>1. \A n \in Models : ~Lessee(y, n) /\ ~Lessee(x, n)  BY <1>1, <1>6, <1>8 DEF Lessee, Leasing
    <2>2. \A q \in Procs, n \in Models : states'[q][n].leases = states[q][n].leases  BY <1>10
    <2>3. \A q \in Procs, n \in Models :
            states'[q][n].leases =
              IF q = My(c) /\ Lessee(y, n) /\ ~Lessee(call[c], n) THEN states[q][n].leases + 1
              ELSE IF q = My(c) /\ ~Lessee(y, n) /\ Lessee(call[c], n) THEN states[q][n].leases - 1
              ELSE states[q][n].leases
      BY <2>1, <2>2
    <2>4. Typed /\ Leased  BY <1>2
    <2>5. Leased' /\ \A q \in Procs, n \in Models : states'[q][n].leases \in Nat
      BY ONLY c \in Callers, <1>7, <2>3, <2>4, LeasesMoved
    <2> QED BY <2>5
  <1>13. OneDrains'
    <2>1. y.at # "drain"  BY <1>6, <1>8
    <2> QED BY <1>9, <2>1 DEF LifecycleInv, OneDrains, My
  <1>14. \A a \in Files : a \notin PrivateOf(m) => (whole[a] => whole'[a])
    BY <1>2, <1>4 DEF Typed
  <1>15. ASSUME NEW d \in Callers PROVE CallFits(d)'
    <2>1. CASE d = c
      <3>1. \A a \in Files : y.subs[a] # "waiting"  BY <1>8
      <3>2. Fitting(y, states'[p], whole', ready')  BY <1>2, <1>6, <1>8, <3>1, OutsideFits
      <3> QED BY <1>9, <2>1, <3>2 DEF CallFits, My
    <2>2. CASE d # c
      <3> DEFINE z == call[d]
      <3>1. /\ Fitting(z, states[My(d)], whole, ready) /\ My(d) \in Procs
            /\ z.at # "idle" => z.model \in Models
        BY HomeOf, CallOf DEF LifecycleInv, CallFits
      <3>2. Fitting(z, states'[My(d)], whole', ready)
        <4>1. CASE z.at = "idle" \/ z.model # m
          <5>1. z.at # "idle" => SameFor(z.model, states[My(d)], states'[My(d)])
            BY <1>10, <3>1, <4>1 DEF SameFor
          <5>2. z.at # "idle" => KeepsFor(z.model, whole, whole', ready, ready)
            <6> SUFFICES ASSUME z.at # "idle", NEW a \in Files, HasFile(z.model, a), whole[a]
                         PROVE  whole'[a]
              BY DEF KeepsFor
            <6>1. a \notin PrivateOf(m)
              <7> SUFFICES ASSUME a \in PrivateOf(m) PROVE FALSE  OBVIOUS
              <7>1. HasFile(m, a) /\ a \notin Shared  BY <1>2, ModelFiles
              <7> QED BY <1>2, <3>1, <4>1, <7>1, OneModel
            <6> QED BY <1>14, <6>1
          <5> QED BY <3>1, <5>1, <5>2, FittingStays
        <4>2. CASE z.at # "idle" /\ z.model = m
          <5>1. Placed(z) /\ Aged(z, states[My(d)])  BY <3>1 DEF Fitting
          <5>2. CASE My(d) = p
            <6>1. z.at # "drain"
              <7> SUFFICES ASSUME z.at = "drain" PROVE FALSE  OBVIOUS
              <7> QED BY <1>1, <2>2, <4>2, <5>2 DEF LifecycleInv, OneDrains
            <6>2. z.at \notin Leasing  BY <1>2, <4>2, <5>1, <5>2 DEF Aged, Fresh
            <6>3. z.at \in Begun => z.epoch < S.epoch  BY <1>2, <4>2, <5>1, <5>2 DEF Aged
            <6>4. z.at \in Begun => z.epoch <= S.epoch  BY <4>2, <5>1, <5>2 DEF Aged
            <6>5. Aged(z, states'[p])  BY <1>10, <4>2, <6>1, <6>2, <6>4 DEF Aged
            <6>6. z.at \in Begun => ~Fresh(states'[p], m, z.epoch)
              <7>1. z \in CallRecord  BY <1>2 DEF Typed
              <7>2. z.epoch \in Nat
                <8> HIDE DEF z
                <8> QED BY <7>1 DEF CallRecord
              <7>3. S.epoch \in Nat  BY <1>2 DEF ModelState
              <7> HIDE DEF z, S
              <7> QED BY <1>10, <6>3, <7>2, <7>3 DEF Fresh
            <6>7. Stocked(z, states'[p], whole', ready)  BY <4>2, <6>2, <6>6 DEF Stocked, Begun
            <6> QED BY <5>1, <5>2, <6>5, <6>7 DEF Fitting
          <5>3. CASE My(d) # p
            <6>1. states'[My(d)][m] = states[My(d)][m]  BY <1>2, <1>10, <3>1, <5>3
            <6>2. z.at \notin Writing \cup Leasing  BY <1>1, <4>2, <5>3, NoOther
            <6>3. Aged(z, states'[My(d)])  BY <4>2, <5>1, <6>1, <6>2 DEF Aged
            <6>4. Stocked(z, states'[My(d)], whole', ready)  BY <6>2 DEF Stocked
            <6> QED BY <5>1, <6>3, <6>4 DEF Fitting
          <5> QED BY <5>2, <5>3
        <4> QED BY <4>1, <4>2
      <3>3. call'[d] = z /\ ready' = ready  BY <1>5, <1>9, <2>2
      <3> QED BY <3>2, <3>3 DEF CallFits, My
    <2> QED BY <2>1, <2>2
  <1>16. ASSUME NEW q \in Procs, NEW f \in Files PROVE TransferFits(q, f)'
    <2>1. Users(q, f)' = Users(q, f)
      <3>1. \A d \in Callers : call'[d].subs[f] = "waiting" <=> call[d].subs[f] = "waiting"
        BY <1>3, <1>8, <1>9
      <3> QED BY <3>1 DEF Users, My
    <2> DEFINE t == xfer[q][f]  U == Users(q, f)
    <2>2. \A d \in U :
            /\ d \in Callers /\ My(d) = q /\ call[d].model \in Models /\ HasFile(call[d].model, f)
            /\ call'[d].model = call[d].model /\ call'[d].epoch = call[d].epoch
            /\ call[d].at \in Writing
      <3> SUFFICES ASSUME NEW d \in U
                   PROVE  /\ d \in Callers /\ My(d) = q /\ call[d].model \in Models
                          /\ HasFile(call[d].model, f)
                          /\ call'[d].model = call[d].model /\ call'[d].epoch = call[d].epoch
                          /\ call[d].at \in Writing
        OBVIOUS
      <3>1. /\ d \in Callers /\ My(d) = q /\ Waits(call[d], f) /\ call[d].at \in {"look", "join", "wait"}
            /\ call[d].model \in Models /\ HasFile(call[d].model, f)
        BY UserOf
      <3>2. d # c  BY <1>3, <3>1 DEF Waits
      <3> QED BY <1>9, <3>1, <3>2 DEF Writing
    <2>3. /\ t.at = "none" => U = {}
          /\ t.at # "none" => t.model \in Models /\ HasFile(t.model, f)
          /\ t.at # "none" /\ ~t.stop =>
               /\ U # {}
               /\ f \notin Shared => \A d \in U : Fresh(states[q], call[d].model, call[d].epoch)
          /\ t.at \in {"release", "done"} /\ ~t.failed /\ U # {} => whole[f]
      <3>1. TransferFits(q, f)  BY DEF LifecycleInv
      <3> HIDE DEF U
      <3> QED BY <3>1 DEF TransferFits, U
    <2>4. t.at # "none" /\ ~t.stop /\ f \notin Shared =>
            \A d \in U : Fresh(states'[q], call'[d].model, call'[d].epoch)
      <3> SUFFICES ASSUME t.at # "none", ~t.stop, f \notin Shared, NEW d \in U
                   PROVE  Fresh(states'[q], call'[d].model, call'[d].epoch)
        OBVIOUS
      <3>1. Fresh(states[q], call[d].model, call[d].epoch)  BY <2>3
      <3>2. call[d].model \in Models /\ call'[d].model = call[d].model /\ call'[d].epoch = call[d].epoch
        BY <2>2
      <3>3. q # p \/ call[d].model # m  BY <1>2, <3>1 DEF Fresh
      <3>4. states'[q][call[d].model] = states[q][call[d].model]  BY <1>10, <3>2, <3>3
      <3> QED BY <3>1, <3>2, <3>4 DEF Fresh
    <2>5. t.at \in {"release", "done"} /\ ~t.failed /\ U # {} => whole'[f]
      <3> SUFFICES ASSUME t.at \in {"release", "done"}, ~t.failed, U # {} PROVE whole'[f]
        OBVIOUS
      <3>1. whole[f]  BY <2>3
      <3>2. CASE f \notin PrivateOf(m)  BY <1>14, <3>1, <3>2
      <3>3. CASE f \in PrivateOf(m)
        <4>1. q # p  BY <1>5, <3>3
        <4>2. PICK d \in U : TRUE  OBVIOUS
        <4>3. d \in Callers /\ My(d) = q /\ call[d].model \in Models /\ HasFile(call[d].model, f)
              /\ call[d].at \in Writing
          BY <2>2, <4>2
        <4>4. call[d].model = m
          <5>1. HasFile(m, f) /\ f \notin Shared  BY <1>2, <3>3, ModelFiles
          <5> QED BY <1>2, <4>3, <5>1, OneModel
        <4> QED BY <1>1, <4>1, <4>3, <4>4, NoOther
      <3> QED BY <3>2, <3>3
    <2>6. xfer'[q][f] = t  BY <1>5
    <2> HIDE DEF t, U
    <2>7. Users(q, f)' = U  BY <2>1 DEF U
    <2> HIDE DEF Users
    <2> QED BY <2>3, <2>4, <2>5, <2>6, <2>7 DEF TransferFits
  <1>17. Typed'
    <2>1. whole' \in [Files -> BOOLEAN] /\ part' \in [Files -> Checkpoints]
      BY <1>2, <1>4 DEF Typed, Checkpoints
    <2> QED BY <1>2, <1>5, <1>7, <1>8, <1>10, <1>11, <2>1 DEF Typed
  <1> QED BY <1>11, <1>12, <1>13, <1>15, <1>16, <1>17 DEF LifecycleInv

----------------------------------------------------------------------------
(* The workers, and the loss of a process. *)

\* Nobody moves between blocks.
LEMMA StillLocks ==
  ASSUME Typed, LockInv, owners' = owners,
         \A d \in Callers : Held(call'[d]) = Held(call[d]) /\ (Reads(call'[d]) <=> Reads(call[d])),
         \A q \in Procs, f \in Files : HeldBy(xfer'[q][f]) = HeldBy(xfer[q][f])
  PROVE  LockInv'
  <1>1. \A q \in Procs, l \in Locks : Threads(q, l)' = Threads(q, l) /\ Workers(q, l)' = Workers(q, l)
    BY DEF Threads, Workers, My
  <1>2. Counted'
    <2>1. \A q \in Procs, l \in Locks : Count(q, l)' = Count(q, l)  BY <1>1 DEF Count
    <2> QED BY <2>1 DEF LockInv, Counted
  <1>3. Exclusion'  BY DEF LockInv, Exclusion
  <1>4. HeldAreLocks'  BY DEF LockInv, HeldAreLocks
  <1>5. InMode'
    <2> HIDE DEF Held, Reads, HeldBy
    <2>1. \A c \in Callers : \A l \in Held(call[c]) : owners[My(c)][l].shared <=> Reads(call[c])
      BY DEF LockInv, InMode
    <2>2. \A q \in Procs, f \in Files : \A l \in HeldBy(xfer'[q][f]) : ~owners'[q][l].shared
      BY DEF LockInv, InMode
    <2>3. ASSUME NEW c \in Callers, NEW l \in Held(call'[c])
          PROVE  owners'[My(c)][l].shared <=> Reads(call'[c])
      <3>1. l \in Held(call[c]) /\ (Reads(call'[c]) <=> Reads(call[c]))  OBVIOUS
      <3>2. owners[My(c)][l].shared <=> Reads(call[c])  BY <2>1, <3>1
      <3>3. owners'[My(c)][l].shared = owners[My(c)][l].shared  OBVIOUS
      <3> QED BY ONLY <3>1, <3>2, <3>3
    <2> QED BY <2>2, <2>3 DEF InMode, My
  <1> QED BY <1>2, <1>3, <1>4, <1>5 DEF LockInv

\* A worker goes from t to t2 and no thread learns of it.
LEMMA WorkerInv ==
  ASSUME LifecycleInv, NEW p \in Procs, NEW a \in Files, NEW t2 \in TransferRecord,
         xfer' = [xfer EXCEPT ![p][a] = t2], xfer[p][a].at # "none", t2.at # "none",
         t2.model = xfer[p][a].model, t2.stop = xfer[p][a].stop,
         t2.at \in {"release", "done"} /\ ~t2.failed /\ Users(p, a) # {} => whole'[a],
         UNCHANGED <<ready, states, install, call>>,
         whole' \in [Files -> BOOLEAN], part' \in [Files -> Checkpoints],
         \A f \in Files : whole[f] => whole'[f],
         LockInv', owners' \in [Procs -> [Locks -> Owner]]
  PROVE  LifecycleInv'
  <1>1. Typed /\ Leased /\ OneDrains  BY DEF LifecycleInv
  <1>2. /\ xfer' \in [Procs -> [Files -> TransferRecord]] /\ xfer'[p][a] = t2
        /\ \A q \in Procs, f \in Files : q # p \/ f # a => xfer'[q][f] = xfer[q][f]
    BY <1>1 DEF Typed
  <1>3. Typed'  BY <1>1, <1>2 DEF Typed
  <1>4. Leased' /\ OneDrains'  BY <1>1 DEF Leased, Lessees, OneDrains, My
  <1>5. ASSUME NEW d \in Callers PROVE CallFits(d)'
    <2>1. Fitting(call[d], states[My(d)], whole, ready)  BY DEF LifecycleInv, CallFits
    <2>2. SameDeletions(states[My(d)], states[My(d)]) /\ Grows(whole, whole', ready, ready)
      BY DEF SameDeletions, SameFor, Grows
    <2>3. Fitting(call[d], states[My(d)], whole', ready)  BY <2>1, <2>2, FittingKept
    <2> QED BY <2>3 DEF CallFits, My
  <1>6. ASSUME NEW q \in Procs, NEW f \in Files PROVE TransferFits(q, f)'
    <2>1. Users(q, f)' = Users(q, f) /\ states' = states /\ call' = call  BY DEF Users, My
    <2>2. TransferFits(q, f)  BY DEF LifecycleInv
    <2> HIDE DEF Users
    <2>3. CASE q # p \/ f # a
      <3>1. xfer'[q][f] = xfer[q][f]  BY <1>2, <2>3
      <3> QED BY <2>1, <2>2, <3>1 DEF TransferFits
    <2>4. CASE q = p /\ f = a
      <3>1. xfer'[q][f] = t2  BY <1>2, <2>4
      <3> QED BY <2>1, <2>2, <2>4, <3>1 DEF TransferFits
    <2> QED BY <2>3, <2>4
  <1> QED BY <1>3, <1>4, <1>5, <1>6 DEF LifecycleInv

WorkerAt(t, at, failed) == [t EXCEPT !.at = at, !.failed = failed]

LEMMA WorkerRecord ==
  ASSUME NEW t \in TransferRecord, NEW at \in Working \cup {"none", "done"}, NEW b \in BOOLEAN
  PROVE  LET t2 == WorkerAt(t, at, b) IN
         t2 \in TransferRecord /\ t2.at = at /\ t2.failed = b /\ t2.model = t.model /\ t2.stop = t.stop
  BY DEF TransferRecord, WorkerAt

LEMMA WorkerMoved ==
  ASSUME NEW t \in TransferRecord, NEW at \in Working
  PROVE  [t EXCEPT !.at = at] = WorkerAt(t, at, t.failed) /\ t.failed \in BOOLEAN
  BY DEF TransferRecord, WorkerAt

\* A worker that keeps its locks.
LEMMA WorksOn ==
  ASSUME LifecycleInv, NEW p \in Procs, NEW a \in Files, xfer[p][a].at \in Working,
         NEW at \in Working, NEW b \in BOOLEAN, xfer' = [xfer EXCEPT ![p][a] = WorkerAt(xfer[p][a], at, b)],
         at = "release" /\ ~b => whole'[a],
         UNCHANGED <<ready, owners, states, install, call>>,
         whole' \in [Files -> BOOLEAN], part' \in [Files -> Checkpoints],
         \A f \in Files : whole[f] => whole'[f]
  PROVE  LifecycleInv'
  <1> DEFINE t == xfer[p][a]  t2 == WorkerAt(t, at, b)
  <1>1. Typed /\ LockInv /\ t \in TransferRecord  BY DEF LifecycleInv, Typed
  <1>2. /\ t2 \in TransferRecord /\ t2.at = at /\ t2.failed = b /\ t2.model = t.model /\ t2.stop = t.stop
    <2>1. at \in Working \cup {"none", "done"}  OBVIOUS
    <2> HIDE DEF t
    <2> QED BY <1>1, <2>1, WorkerRecord
  <1>3. xfer' = [xfer EXCEPT ![p][a] = t2]  OBVIOUS
  <1> HIDE DEF t2
  <1>4. xfer'[p][a] = t2 /\ \A q \in Procs, f \in Files : q # p \/ f # a => xfer'[q][f] = xfer[q][f]
    BY <1>1, <1>3 DEF Typed
  <1>5. HeldBy(t2) = HeldBy(t)  BY <1>2 DEF HeldBy
  <1>6. LockInv'
    <2>1. \A q \in Procs, f \in Files : HeldBy(xfer'[q][f]) = HeldBy(xfer[q][f])  BY <1>4, <1>5
    <2> QED BY <1>1, <2>1, StillLocks
  <1>7. xfer[p][a].at # "none" /\ t2.at # "none" /\ t2.at # "done"  BY <1>2 DEF Working
  <1>8. t2.at \in {"release", "done"} /\ ~t2.failed /\ Users(p, a) # {} => whole'[a]  BY <1>2, <1>7
  <1>9. owners' \in [Procs -> [Locks -> Owner]]  BY <1>1 DEF Typed
  <1>10. t2.model = xfer[p][a].model /\ t2.stop = xfer[p][a].stop  BY <1>2
  <1> HIDE DEF Users
  <1> QED BY <1>2, <1>3, <1>6, <1>7, <1>8, <1>9, <1>10, WorkerInv

LEMMA WorkerOf ==
  ASSUME LifecycleInv, NEW p \in Procs, NEW a \in Files
  PROVE  /\ xfer[p][a] \in TransferRecord /\ whole \in [Files -> BOOLEAN] /\ part \in [Files -> Checkpoints]
         /\ xfer \in [Procs -> [Files -> TransferRecord]]
  BY DEF LifecycleInv, Typed

\* The ways in which a worker goes on.
LEMMA GoesInv ==
  ASSUME LifecycleInv, NEW p \in Procs, NEW a \in Files, NEW at \in Working, xfer[p][a].at \in Working,
         xfer' = [xfer EXCEPT ![p][a].at = at], at = "release" => whole[a], part' \in [Files -> Checkpoints],
         UNCHANGED <<whole, ready, owners, states, install, call>>
  PROVE  LifecycleInv'
  <1> DEFINE t == xfer[p][a]
  <1>1. t \in TransferRecord /\ whole \in [Files -> BOOLEAN] /\ xfer \in [Procs -> [Files -> TransferRecord]]
    BY WorkerOf
  <1>2. [t EXCEPT !.at = at] = WorkerAt(t, at, t.failed) /\ t.failed \in BOOLEAN
    <2> HIDE DEF t
    <2> QED BY <1>1, WorkerMoved
  <1>3. xfer' = [xfer EXCEPT ![p][a] = [t EXCEPT !.at = at]]  BY <1>1
  <1> DEFINE b == t.failed
  <1>4. xfer' = [xfer EXCEPT ![p][a] = WorkerAt(xfer[p][a], at, b)] /\ b \in BOOLEAN  BY <1>2, <1>3
  <1> HIDE DEF b
  <1>5. /\ whole' \in [Files -> BOOLEAN] /\ \A f \in Files : whole[f] => whole'[f]
        /\ at = "release" /\ ~b => whole'[a]
        /\ UNCHANGED <<ready, owners, states, install, call>>
    BY <1>1
  <1> QED BY ONLY LifecycleInv, p \in Procs, a \in Files, xfer[p][a].at \in Working, at \in Working,
             part' \in [Files -> Checkpoints], <1>4, <1>5, WorksOn

LEMMA WorkerFailsInv ==
  ASSUME LifecycleInv, NEW p \in Procs, NEW a \in Files, xfer[p][a].at \in Working,
         WorkerFails(p, a), part' \in [Files -> Checkpoints]
  PROVE  LifecycleInv'
  <1> DEFINE t == xfer[p][a]
  <1>1. t \in TransferRecord /\ whole \in [Files -> BOOLEAN] /\ xfer \in [Procs -> [Files -> TransferRecord]]
    BY WorkerOf
  <1>2. xfer' = [xfer EXCEPT ![p][a] = WorkerAt(t, "release", TRUE)]
    BY <1>1 DEF WorkerFails, WorkerAt, TransferRecord
  <1>3. "release" \in Working /\ TRUE \in BOOLEAN  BY DEF Working
  <1>4. UNCHANGED <<whole, ready, owners, states, install, call>>  BY DEF WorkerFails
  <1>5. /\ whole' \in [Files -> BOOLEAN] /\ \A f \in Files : whole[f] => whole'[f]
        /\ "release" = "release" /\ ~TRUE => whole'[a]
        /\ UNCHANGED <<ready, owners, states, install, call>>
    BY <1>1, <1>4
  <1> QED BY ONLY LifecycleInv, p \in Procs, a \in Files, xfer[p][a].at \in Working,
             part' \in [Files -> Checkpoints], <1>2, <1>3, <1>4, <1>5, WorksOn

LEMMA PublishInv ==
  ASSUME LifecycleInv, NEW p \in Procs, NEW a \in Files, xfer[p][a].at \in Working, Publish(p, a),
         part[a] = "good"
  PROVE  LifecycleInv'
  <1> DEFINE t == xfer[p][a]
  <1>1. /\ t \in TransferRecord /\ whole \in [Files -> BOOLEAN] /\ part \in [Files -> Checkpoints]
        /\ xfer \in [Procs -> [Files -> TransferRecord]]
    BY WorkerOf
  <1>2. [t EXCEPT !.at = "release"] = WorkerAt(t, "release", t.failed) /\ t.failed \in BOOLEAN
    <2>1. "release" \in Working  BY DEF Working
    <2> HIDE DEF t
    <2> QED BY <1>1, <2>1, WorkerMoved
  <1>3. xfer' = [xfer EXCEPT ![p][a] = [t EXCEPT !.at = "release"]]  BY <1>1 DEF Publish
  <1>4. xfer' = [xfer EXCEPT ![p][a] = WorkerAt(t, "release", t.failed)]  BY <1>2, <1>3
  <1>5. /\ whole' = [whole EXCEPT ![a] = TRUE] /\ part' = [part EXCEPT ![a] = "none"]
        /\ UNCHANGED <<ready, owners, states, install, call>>
    BY DEF Publish
  <1>6. /\ whole' \in [Files -> BOOLEAN] /\ whole'[a] /\ \A f \in Files : whole[f] => whole'[f]
        /\ part' \in [Files -> Checkpoints]
    BY <1>1, <1>5 DEF Checkpoints
  <1>7. "release" \in Working  BY DEF Working
  <1> QED BY <1>2, <1>4, <1>5, <1>6, <1>7, WorksOn

LEMMA StartInv ==
  ASSUME LifecycleInv, NEW p \in Procs, NEW a \in Files, Start(p, a)
  PROVE  LifecycleInv'
  <1>1. /\ part \in [Files -> Checkpoints]
        /\ {"start", "adopt", "request", "read", "verify", "publish", "release"} \subseteq Working
    BY WorkerOf DEF Working
  <1>2. xfer[p][a].at \in Working  BY <1>1 DEF Start
  <1>3. CASE whole[a] /\ Worker(p, a, "release")
    <2>1. part' \in [Files -> Checkpoints]  BY <1>1, <1>3 DEF Worker
    <2> QED BY <1>1, <1>2, <1>3, <2>1, GoesInv DEF Worker
  <1>4. CASE Worker(p, a, "adopt")
    <2>1. part' \in [Files -> Checkpoints]  BY <1>1, <1>4 DEF Worker
    <2> QED BY <1>1, <1>2, <1>4, <2>1, GoesInv DEF Worker
  <1>5. CASE WorkerFails(p, a) /\ UNCHANGED part
    BY <1>1, <1>2, <1>5, WorkerFailsInv
  <1>6. CASE /\ part' = [part EXCEPT ![a] = "none"] /\ xfer' = [xfer EXCEPT ![p][a].at = "request"]
             /\ UNCHANGED <<whole, ready, owners, states, install, call>>
    <2>1. part' \in [Files -> Checkpoints]  BY <1>1, <1>6 DEF Checkpoints
    <2> QED BY <1>1, <1>2, <1>6, <2>1, GoesInv
  <1>7. CASE Worker(p, a, "request")
    <2>1. part' \in [Files -> Checkpoints]  BY <1>1, <1>7 DEF Worker
    <2> QED BY <1>1, <1>2, <1>7, <2>1, GoesInv DEF Worker
  <1> QED BY <1>3, <1>4, <1>5, <1>6, <1>7 DEF Start

LEMMA AdoptInv ==
  ASSUME LifecycleInv, Verified, NEW p \in Procs, NEW a \in Files, Adopt(p, a)
  PROVE  LifecycleInv'
  <1>1. xfer[p][a].at \in Working /\ Publish(p, a)  BY DEF Adopt, Working
  <1>2. part[a] = "good"  BY DEF Adopt, Verified
  <1> QED BY <1>1, <1>2, PublishInv

LEMMA ReceivesInv ==
  ASSUME LifecycleInv, NEW p \in Procs, NEW a \in Files, xfer[p][a].at \in Working,
         NEW q \in Checkpoints, Receives(p, a, q)
  PROVE  LifecycleInv'
  <1>1. part' \in [Files -> Checkpoints]  BY WorkerOf DEF Receives
  <1>2. CASE WorkerFails(p, a)  BY <1>1, <1>2, WorkerFailsInv
  <1>3. CASE /\ xfer' = [xfer EXCEPT ![p][a].at = "read"]
             /\ UNCHANGED <<whole, ready, owners, states, install, call>>
    <2>1. "read" \in Working /\ "read" # "release"  BY DEF Working
    <2> QED BY <1>1, <1>3, <2>1, GoesInv
  <1> QED BY <1>2, <1>3 DEF Receives

LEMMA RequestInv ==
  ASSUME LifecycleInv, NEW p \in Procs, NEW a \in Files, Request(p, a)
  PROVE  LifecycleInv'
  <1> DEFINE t == xfer[p][a]
  <1>1. /\ part \in [Files -> Checkpoints] /\ t \in TransferRecord
        /\ xfer \in [Procs -> [Files -> TransferRecord]]
    BY WorkerOf
  <1>2. t.at \in Working /\ t.at = "request"  BY DEF Request, Working
  <1>3. CASE \E q \in {"none", "some"} : Receives(p, a, q)
    <2>1. {"none", "some"} \subseteq Checkpoints  BY DEF Checkpoints
    <2> QED BY <1>2, <1>3, <2>1, ReceivesInv
  <1>4. CASE part' = [part EXCEPT ![a] = "none"]
             /\ UNCHANGED <<whole, ready, owners, states, xfer, install, call>>
    <2>1. part' \in [Files -> Checkpoints]  BY <1>1, <1>4 DEF Checkpoints
    <2>2. xfer' = [xfer EXCEPT ![p][a].at = "request"]
      <3>1. [t EXCEPT !.at = "request"] = t
        <4> HIDE DEF t
        <4> QED BY <1>1, <1>2 DEF TransferRecord
      <3>2. xfer = [xfer EXCEPT ![p][a] = t]  BY <1>1
      <3>3. xfer' = xfer  BY <1>4
      <3> QED BY <3>1, <3>2, <3>3
    <2>3. "request" \in Working /\ "request" # "release"  BY DEF Working
    <2> QED BY <1>2, <1>4, <2>1, <2>2, <2>3, GoesInv
  <1> QED BY <1>3, <1>4 DEF Request

LEMMA ReadInv ==
  ASSUME LifecycleInv, NEW p \in Procs, NEW a \in Files, Read(p, a)
  PROVE  LifecycleInv'
  <1>1. xfer[p][a].at \in Working /\ "verify" \in Working  BY DEF Read, Working
  <1>2. CASE \E q \in {"some", "good", "bad"} : Receives(p, a, q)
    <2>1. {"some", "good", "bad"} \subseteq Checkpoints  BY DEF Checkpoints
    <2> QED BY <1>1, <1>2, <2>1, ReceivesInv
  <1>3. CASE Worker(p, a, "verify")
    <2>1. part' \in [Files -> Checkpoints]  BY <1>3, WorkerOf DEF Worker
    <2> QED BY <1>1, <1>3, <2>1, GoesInv DEF Worker
  <1> QED BY <1>2, <1>3 DEF Read

LEMMA WorkerVerifiesInv ==
  ASSUME LifecycleInv, NEW p \in Procs, NEW a \in Files, WorkerVerifies(p, a)
  PROVE  LifecycleInv'
  <1>1. part \in [Files -> Checkpoints]  BY WorkerOf
  <1>2. xfer[p][a].at \in Working /\ "publish" \in Working  BY DEF WorkerVerifies, Working
  <1>3. CASE Worker(p, a, "publish")
    <2>1. part' \in [Files -> Checkpoints]  BY <1>1, <1>3 DEF Worker
    <2> QED BY <1>2, <1>3, <2>1, GoesInv DEF Worker
  <1>4. CASE WorkerFails(p, a) /\ UNCHANGED part  BY <1>1, <1>2, <1>4, WorkerFailsInv
  <1>5. CASE WorkerFails(p, a) /\ part' = [part EXCEPT ![a] = IF @ = "bad" THEN "none" ELSE @]
    <2>1. part' \in [Files -> Checkpoints]  BY <1>1, <1>5 DEF Checkpoints
    <2> QED BY <1>2, <1>5, <2>1, WorkerFailsInv
  <1> QED BY <1>3, <1>4, <1>5 DEF WorkerVerifies

LEMMA WorkerPublishesInv ==
  ASSUME LifecycleInv, Verified, NEW p \in Procs, NEW a \in Files, WorkerPublishes(p, a)
  PROVE  LifecycleInv'
  <1>1. part \in [Files -> Checkpoints]  BY WorkerOf
  <1>2. xfer[p][a].at \in Working  BY DEF WorkerPublishes, Working
  <1>3. CASE WorkerFails(p, a) /\ UNCHANGED part  BY <1>1, <1>2, <1>3, WorkerFailsInv
  <1>4. CASE Publish(p, a)
    <2>1. part[a] = "good"  BY DEF WorkerPublishes, Verified
    <2> QED BY <1>2, <1>4, <2>1, PublishInv
  <1> QED BY <1>3, <1>4 DEF WorkerPublishes

LEMMA WorkerBreaksInv ==
  ASSUME LifecycleInv, NEW p \in Procs, NEW a \in Files, WorkerBreaks(p, a)
  PROVE  LifecycleInv'
  <1>1. /\ part' \in [Files -> Checkpoints] /\ xfer[p][a].at \in Working /\ WorkerFails(p, a)
    BY WorkerOf DEF WorkerBreaks
  <1> QED BY <1>1, WorkerFailsInv

LEMMA ReleaseInv ==
  ASSUME LifecycleInv, NEW p \in Procs, NEW a \in Files, Release(p, a)
  PROVE  LifecycleInv'
  <1> DEFINE t == xfer[p][a]  t2 == WorkerAt(t, "done", t.failed)
  <1>1. /\ t \in TransferRecord /\ Typed /\ LockInv /\ t.at = "release"
        /\ xfer \in [Procs -> [Files -> TransferRecord]]
    BY WorkerOf DEF LifecycleInv, Release
  <1>2. [t EXCEPT !.at = "done"] = t2 /\ t.failed \in BOOLEAN
    <2> HIDE DEF t
    <2> QED BY <1>1 DEF TransferRecord, WorkerAt
  <1>3. xfer' = [xfer EXCEPT ![p][a] = [t EXCEPT !.at = "done"]]  BY <1>1 DEF Release
  <1>4. xfer' = [xfer EXCEPT ![p][a] = t2]  BY <1>2, <1>3
  <1>5. t2 \in TransferRecord /\ t2.at = "done" /\ t2.failed = t.failed /\ t2.model = t.model
        /\ t2.stop = t.stop
    <2> HIDE DEF t
    <2> QED BY <1>1, <1>2 DEF TransferRecord, WorkerAt
  <1> HIDE DEF t2
  <1>6. /\ owners' = Given(p, HeldBy(xfer[p][a])) /\ call' = call
        /\ UNCHANGED <<whole, part, ready, states, install>>
    BY DEF Release, durables
  <1>7. xfer'[p][a] = t2 /\ \A q \in Procs, f \in Files : q # p \/ f # a => xfer'[q][f] = xfer[q][f]
    BY <1>1, <1>4
  <1>8. LockInv' /\ owners' \in [Procs -> [Locks -> Owner]]
    <2>1. HeldBy(xfer'[p][a]) = {}  BY <1>5, <1>7 DEF HeldBy, Working
    <2>2. \A q \in Procs, f \in Files : q # p \/ f # a => HeldBy(xfer'[q][f]) = HeldBy(xfer[q][f])
      BY <1>7
    <2> QED BY <1>1, <1>6, <2>1, <2>2, WorkerGives
  <1>9. t2.at \in {"release", "done"} /\ ~t2.failed /\ Users(p, a) # {} => whole'[a]
    <2>1. TransferFits(p, a)  BY DEF LifecycleInv
    <2> HIDE DEF Users
    <2> QED BY <1>1, <1>5, <1>6, <2>1 DEF TransferFits
  <1>10. /\ xfer[p][a].at # "none" /\ t2.at # "none" /\ t2.model = xfer[p][a].model
         /\ t2.stop = xfer[p][a].stop
         /\ whole' \in [Files -> BOOLEAN] /\ part' \in [Files -> Checkpoints]
         /\ \A f \in Files : whole[f] => whole'[f]
         /\ UNCHANGED <<ready, states, install, call>>
    BY <1>1, <1>5, <1>6 DEF Typed
  <1> HIDE DEF Users
  <1> QED BY ONLY LifecycleInv, p \in Procs, a \in Files, <1>4, <1>5, <1>8, <1>9, <1>10, WorkerInv

\* The threads that wait are told.
Told(x, a, how) == [x EXCEPT !.subs = [x.subs EXCEPT ![a] = how]]
Hears(x, y, a, how) ==
  /\ y \in CallRecord /\ y.at = x.at /\ y.op = x.op /\ y.model = x.model /\ y.i = x.i
  /\ y.epoch = x.epoch /\ y.outer = x.outer /\ y.subs[a] = how
  /\ \A f \in Files : f # a => y.subs[f] = x.subs[f]

LEMMA ToldRecord ==
  ASSUME NEW x \in CallRecord, NEW a \in Files, NEW how \in {"ok", "error"}
  PROVE  Hears(x, Told(x, a, how), a, how)
  <1> DEFINE s == [x.subs EXCEPT ![a] = how]
  <1>1. x.subs \in [Files -> {"none", "waiting", "ok", "error"}]  BY DEF CallRecord
  <1>2. /\ s \in [Files -> {"none", "waiting", "ok", "error"}] /\ s[a] = how
        /\ \A f \in Files : f # a => s[f] = x.subs[f]
    BY <1>1
  <1>3. Told(x, a, how) = [x EXCEPT !.subs = s]  BY DEF Told
  <1> HIDE DEF s
  <1>4. LET y == [x EXCEPT !.subs = s] IN
         /\ y \in CallRecord /\ y.at = x.at /\ y.op = x.op /\ y.model = x.model /\ y.i = x.i
         /\ y.epoch = x.epoch /\ y.outer = x.outer /\ y.subs = s
    BY <1>2 DEF CallRecord
  <1> DEFINE y == [x EXCEPT !.subs = s]
  <1>5. Hears(x, y, a, how)
    <2> HIDE DEF y
    <2>1. /\ y \in CallRecord /\ y.at = x.at /\ y.op = x.op /\ y.model = x.model /\ y.i = x.i
          /\ y.epoch = x.epoch /\ y.outer = x.outer /\ y.subs = s
      BY <1>4 DEF y
    <2> QED BY <1>2, <2>1 DEF Hears
  <1> HIDE DEF Hears, y
  <1> QED BY <1>3, <1>5 DEF y

LEMMA DoneInv ==
  ASSUME LifecycleInv, NEW p \in Procs, NEW a \in Files, Done(p, a)
  PROVE  LifecycleInv'
  <1> DEFINE t == xfer[p][a]  how == IF t.failed THEN "error" ELSE "ok"  U == Users(p, a)
  <1>1. /\ t.at = "done" /\ Typed /\ LockInv /\ Leased /\ OneDrains
        /\ xfer \in [Procs -> [Files -> TransferRecord]] /\ call \in [Callers -> CallRecord]
    BY DEF Done, LifecycleInv, Typed
  <1>2. /\ xfer' = [xfer EXCEPT ![p][a] = NoTransfer]
        /\ UNCHANGED <<whole, part, ready, owners, states, install>>
    BY DEF Done, durables
  <1>3. how \in {"ok", "error"}  OBVIOUS
  <1>4. call' = [d \in Callers |-> IF d \notin U THEN call[d] ELSE [call[d] EXCEPT !.subs[a] = how]]
    BY DEF Done
  <1> HIDE DEF how, U
  <1>5. ASSUME NEW d \in Callers
        PROVE  /\ call'[d] \in CallRecord /\ call'[d].at = call[d].at /\ call'[d].op = call[d].op
               /\ call'[d].model = call[d].model /\ call'[d].i = call[d].i
               /\ call'[d].epoch = call[d].epoch /\ call'[d].outer = call[d].outer
               /\ \A f \in Files : f # a => call'[d].subs[f] = call[d].subs[f]
               /\ d \in U => call'[d].subs[a] = how
               /\ d \notin U => call'[d] = call[d]
    <2> DEFINE x == call[d]
    <2>1. x \in CallRecord  BY <1>1
    <2>2. CASE d \notin U
      <3>1. call'[d] = call[d]  BY <1>4, <2>2
      <3> QED BY <2>1, <2>2, <3>1
    <2>3. CASE d \in U
      <3>1. call'[d] = [x EXCEPT !.subs[a] = how]  BY <1>4, <2>3
      <3> HIDE DEF x
      <3>2. call'[d] = Told(x, a, how)  BY <2>1, <3>1 DEF Told, CallRecord
      <3>3. Hears(x, call'[d], a, how)
        <4> HIDE DEF Told, Hears
        <4>1. Hears(x, Told(x, a, how), a, how)  BY <1>3, <2>1, ToldRecord
        <4> QED BY <3>2, <4>1
      <3>4. /\ call'[d] \in CallRecord /\ call'[d].at = x.at /\ call'[d].op = x.op
            /\ call'[d].model = x.model /\ call'[d].i = x.i
            /\ call'[d].epoch = x.epoch /\ call'[d].outer = x.outer
            /\ \A f \in Files : f # a => call'[d].subs[f] = x.subs[f]
            /\ call'[d].subs[a] = how
        BY <3>3 DEF Hears
      <3> QED BY <2>3, <3>4 DEF x
    <2> QED BY <2>2, <2>3
  <1>6. call' \in [Callers -> CallRecord]  BY <1>4, <1>5
  <1>7. /\ xfer' \in [Procs -> [Files -> TransferRecord]] /\ xfer'[p][a] = NoTransfer
        /\ \A q \in Procs, f \in Files : q # p \/ f # a => xfer'[q][f] = xfer[q][f]
        /\ NoTransfer.at = "none"
    <2>1. NoTransfer \in TransferRecord /\ NoTransfer.at = "none"
      BY DEF NoTransfer, TransferRecord
    <2> QED BY <1>1, <1>2, <2>1
  <1>8. Typed'  BY <1>1, <1>2, <1>6, <1>7 DEF Typed
  <1>9. LockInv'
    <2>1. \A d \in Callers : Held(call'[d]) = Held(call[d]) /\ (Reads(call'[d]) <=> Reads(call[d]))
      BY <1>5 DEF Held, Reads
    <2>2. \A q \in Procs, f \in Files : HeldBy(xfer'[q][f]) = HeldBy(xfer[q][f])
      <3>1. HeldBy(xfer'[p][a]) = {} /\ HeldBy(xfer[p][a]) = {}  BY <1>1, <1>7 DEF HeldBy, Working
      <3> QED BY <1>7, <3>1
    <2>3. owners' = owners  BY <1>2
    <2> QED BY <1>1, <2>1, <2>2, <2>3, StillLocks
  <1>10. Leased'
    <2>1. \A q \in Procs, m \in Models : Lessees(q, m)' = Lessees(q, m)  BY <1>5 DEF Lessees, My
    <2> QED BY <1>1, <1>2, <2>1 DEF Leased
  <1>11. OneDrains'  BY <1>1, <1>5 DEF OneDrains, My
  <1>12. \A d \in U : d \in Callers /\ My(d) = p /\ Waits(call[d], a) /\ call[d].at \in {"look", "join", "wait"}
    BY UserOf DEF U
  <1>13. U # {} /\ how = "ok" => whole[a]
    <2>1. TransferFits(p, a)  BY DEF LifecycleInv
    <2>2. t.at = "done" /\ ~t.failed /\ U # {} => whole[a]
      <3> HIDE DEF Users
      <3> QED BY <2>1 DEF TransferFits, U
    <2> QED BY <1>1, <2>2 DEF how
  <1>14. ASSUME NEW d \in Callers PROVE CallFits(d)'
    <2> DEFINE x == call[d]  y == call'[d]
    <2>1. Fitting(x, states[My(d)], whole, ready)  BY DEF LifecycleInv, CallFits
    <2>2. CASE d \notin U
      <3>1. y = x  BY <1>5, <2>2
      <3> QED BY <1>2, <2>1, <3>1 DEF CallFits, My
    <2>3. CASE d \in U
      <3>1. /\ y.at = x.at /\ y.op = x.op /\ y.model = x.model /\ y.i = x.i /\ y.epoch = x.epoch
            /\ y.outer = x.outer /\ y.subs[a] = how /\ \A f \in Files : f # a => y.subs[f] = x.subs[f]
        BY <1>5, <2>3
      <3>2. x.at \in {"look", "join", "wait"}  BY <1>12, <2>3
      <3>3. how = "error" \/ whole[a]  BY <1>3, <1>13, <2>3
      <3> HIDE DEF x, y
      <3>4. Placed(y)
        <4>1. \A f \in Files : y.subs[f] = "waiting" => x.subs[f] = "waiting"  BY <1>3, <3>1
        <4> QED BY <2>1, <3>1, <4>1 DEF Fitting, Placed
      <3>5. Aged(y, states[My(d)])  BY <2>1, <3>1 DEF Fitting, Aged
      <3>6. x.model \in Models  BY <2>1, <3>2 DEF Fitting, Placed
      <3>7. \A j \in DOMAIN FilesOf[x.model] : Known(x, whole, j) => Known(y, whole, j)
        BY <3>1, <3>3, <3>6, ModelFiles DEF Known
      <3>8. Found(x, whole, ready) => Found(y, whole, ready)
        BY <3>1, <3>2, <3>7 DEF Found
      <3>9. x.at \notin Leasing  BY <3>2 DEF Leasing
      <3>10. Stocked(y, states[My(d)], whole, ready)  BY <2>1, <3>1, <3>8, <3>9 DEF Fitting, Stocked
      <3>11. Fitting(y, states[My(d)], whole, ready)  BY <3>4, <3>5, <3>10 DEF Fitting
      <3> QED BY <1>2, <3>11 DEF CallFits, My, y
    <2> QED BY <2>2, <2>3
  <1>15. ASSUME NEW q \in Procs, NEW f \in Files PROVE TransferFits(q, f)'
    <2>1. CASE q = p /\ f = a
      <3>1. Users(q, f)' = {}
        <4> SUFFICES ASSUME NEW d \in Callers, My(d) = q, call'[d].subs[f] = "waiting" PROVE FALSE
          BY DEF Users, My
        <4>1. CASE d \in U  BY <1>3, <1>5, <2>1, <4>1
        <4>2. CASE d \notin U
          <5>1. call[d].subs[a] = "waiting"  BY <1>5, <2>1, <4>2
          <5> QED BY <2>1, <4>2, <5>1 DEF U, Users
        <4> QED BY <4>1, <4>2
      <3>2. xfer'[q][f].at = "none"  BY <1>7, <2>1
      <3> HIDE DEF Users
      <3> QED BY <3>1, <3>2 DEF TransferFits
    <2>2. CASE q # p \/ f # a
      <3>1. \A d \in Callers : My(d) = q => call'[d].subs[f] = call[d].subs[f]
        BY <1>5, <1>12, <2>2
      <3>2. Users(q, f)' = Users(q, f)  BY <3>1 DEF Users, My
      <3>3. xfer'[q][f] = xfer[q][f] /\ states' = states /\ whole' = whole  BY <1>2, <1>7, <2>2
      <3>4. \A d \in Users(q, f) : call'[d].model = call[d].model /\ call'[d].epoch = call[d].epoch
        BY <1>5, UserOf
      <3>5. TransferFits(q, f)  BY DEF LifecycleInv
      <3> HIDE DEF Users
      <3> QED BY <3>2, <3>3, <3>4, <3>5 DEF TransferFits
    <2> QED BY <2>1, <2>2
  <1> QED BY <1>8, <1>9, <1>10, <1>11, <1>14, <1>15 DEF LifecycleInv

\* The process is killed: its threads, workers and locks are gone.
LEMMA CrashInv ==
  ASSUME LifecycleInv, NEW p \in Procs, Crash(p)
  PROVE  LifecycleInv'
  <1> DEFINE Gone(d) == My(d) = p /\ call[d].at # "idle"
  <1>1. /\ Typed /\ LockInv /\ Leased /\ OneDrains
        /\ call \in [Callers -> CallRecord] /\ whole' = whole /\ part' = part /\ ready' = ready
    BY DEF Crash, LifecycleInv, Typed, durables
  <1>2. /\ owners' = [owners EXCEPT ![p] = [l \in Locks |-> NoOwner]]
        /\ states' = [states EXCEPT ![p] = [m \in Models |-> NewState]]
        /\ xfer' = [xfer EXCEPT ![p] = [a \in Files |-> NoTransfer]]
        /\ install' = [install EXCEPT ![p] = [s \in Shared |-> None]]
    BY DEF Crash
  <1>3. call' = [d \in Callers |-> IF Gone(d) THEN Over(call[d], "failed") ELSE call[d]]
    BY DEF Crash
  <1> HIDE DEF Gone
  <1>4. ASSUME NEW d \in Callers
        PROVE  /\ call'[d] \in CallRecord
               /\ Gone(d) => /\ call'[d].at = "failed" /\ call'[d].model = call[d].model
                             /\ call'[d].i = 1 /\ \A a \in Files : call'[d].subs[a] = "none"
               /\ ~Gone(d) => call'[d] = call[d]
    <2> DEFINE x == call[d]
    <2>1. x \in CallRecord  BY <1>1
    <2>2. CASE ~Gone(d)  BY <1>3, <2>1, <2>2
    <2>3. CASE Gone(d)
      <3>1. call'[d] = Left(x, "failed")  BY <1>3, <2>3 DEF Left, Ended
      <3>2. "failed" \in Ended \cup {"lease", "mutation"} /\ "failed" \in Ended  BY DEF Ended
      <3> DEFINE y == Left(x, "failed")
      <3>3. /\ y \in CallRecord /\ y.at = "failed" /\ y.model = x.model /\ y.i = 1
            /\ \A a \in Files : y.subs[a] = "none"
        <4> HIDE DEF x
        <4> QED BY <2>1, <3>2, LeftRecord
      <3> HIDE DEF y
      <3> QED BY <2>3, <3>1, <3>3 DEF y
    <2> QED BY <2>2, <2>3
  <1>5. call' \in [Callers -> CallRecord]  BY <1>3, <1>4
  <1>6. NewState \in ModelState /\ NewState.leases = 0 /\ NoOwner \in Owner /\ NoOwner.refs = 0
        /\ NoTransfer \in TransferRecord /\ NoTransfer.at = "none"
    BY DEF NewState, ModelState, NoOwner, Owner, NoTransfer, TransferRecord
  <1>7. /\ \A l \in Locks : owners'[p][l] = NoOwner
        /\ \A m \in Models : states'[p][m] = NewState
        /\ \A a \in Files : xfer'[p][a] = NoTransfer
        /\ \A q \in Procs : q # p => owners'[q] = owners[q] /\ states'[q] = states[q] /\ xfer'[q] = xfer[q]
    BY <1>1, <1>2 DEF Typed
  <1>8. Typed'
    <2>1. [l \in Locks |-> NoOwner] \in [Locks -> Owner]  BY <1>6
    <2>2. [m \in Models |-> NewState] \in [Models -> ModelState]  BY <1>6
    <2>3. [a \in Files |-> NoTransfer] \in [Files -> TransferRecord]  BY <1>6
    <2>4. [s \in Shared |-> None] \in [Shared -> Callers \cup {None}]  OBVIOUS
    <2>5. /\ owners' \in [Procs -> [Locks -> Owner]] /\ states' \in [Procs -> [Models -> ModelState]]
          /\ xfer' \in [Procs -> [Files -> TransferRecord]]
      BY <1>1, <1>2, <2>1, <2>2, <2>3 DEF Typed
    <2>6. install' \in [Procs -> [Shared -> Callers \cup {None}]]  BY <1>1, <1>2, <2>4 DEF Typed
    <2> QED BY <1>1, <1>5, <2>5, <2>6 DEF Typed
  <1>9. \A d \in Callers : My(d) = p => Held(call'[d]) = {} /\ call'[d].at \in {"idle", "failed"}
                                        /\ \A a \in Files : call'[d].subs[a] # "waiting"
    <2> SUFFICES ASSUME NEW d \in Callers, My(d) = p
                 PROVE  Held(call'[d]) = {} /\ call'[d].at \in {"idle", "failed"}
                        /\ \A a \in Files : call'[d].subs[a] # "waiting"
      OBVIOUS
    <2>1. CASE Gone(d)  BY <1>4, <2>1, HeldAt
    <2>2. CASE ~Gone(d)
      <3>1. call[d].at = "idle" /\ call'[d] = call[d]  BY <1>4, <2>2 DEF Gone
      <3>2. Placed(call[d])  BY CallOf
      <3>3. \A a \in Files : call[d].subs[a] # "waiting"  BY <3>1, <3>2 DEF Placed
      <3> QED BY <3>1, <3>3, HeldAt
    <2> QED BY <2>1, <2>2
  <1>10. \A d \in Callers : My(d) # p => call'[d] = call[d]  BY <1>4 DEF Gone
  <1>11. \A a \in Files : HeldBy(xfer'[p][a]) = {}  BY <1>6, <1>7 DEF HeldBy, Working
  <1>12. LockInv'
    <2>1. Counted'
      <3> SUFFICES ASSUME NEW q \in Procs, NEW l \in Locks PROVE owners'[q][l].refs = Count(q, l)'
        BY DEF Counted
      <3>1. CASE q = p
        <4>1. Threads(q, l)' = {} /\ Workers(q, l)' = {}
          BY <1>9, <1>11, <3>1 DEF Threads, Workers, My
        <4>2. Count(q, l)' = Cardinality(Threads(q, l)') + Cardinality(Workers(q, l)')  BY DEF Count
        <4>3. Cardinality({}) = 0  BY FS_EmptySet
        <4> QED BY <1>6, <1>7, <3>1, <4>1, <4>2, <4>3
      <3>2. CASE q # p
        <4>1. Threads(q, l)' = Threads(q, l) /\ Workers(q, l)' = Workers(q, l)
          BY <1>7, <1>10, <3>2 DEF Threads, Workers, My
        <4>2. Count(q, l)' = Count(q, l)  BY <4>1 DEF Count
        <4> QED BY <1>1, <1>7, <3>2, <4>2 DEF LockInv, Counted
      <3> QED BY <3>1, <3>2
    <2>2. InMode'
      <3>1. \A c \in Callers : \A l \in Held(call'[c]) : owners'[My(c)][l].shared <=> Reads(call'[c])
        BY <1>1, <1>7, <1>9, <1>10, HomeOf DEF LockInv, InMode
      <3>2. \A q \in Procs, a \in Files : \A l \in HeldBy(xfer'[q][a]) : ~owners'[q][l].shared
        BY <1>1, <1>7, <1>11 DEF LockInv, InMode
      <3> QED BY <3>1, <3>2 DEF InMode, My
    <2>3. Exclusion'
      <3>1. \A l \in Locks : ~(owners'[p][l].refs > 0)  BY <1>6, <1>7
      <3> QED BY <1>1, <1>7, <3>1 DEF LockInv, Exclusion
    <2>4. HeldAreLocks'
      <3>1. \A d \in Callers : Held(call'[d]) \subseteq Locks  BY <1>1, <1>9, <1>10 DEF LockInv, HeldAreLocks
      <3>2. \A q \in Procs, a \in Files : HeldBy(xfer'[q][a]) \subseteq Locks
        BY <1>1, <1>7, <1>11 DEF LockInv, HeldAreLocks
      <3> QED BY <3>1, <3>2 DEF HeldAreLocks
    <2> QED BY <2>1, <2>2, <2>3, <2>4 DEF LockInv
  <1>13. Leased'
    <2> SUFFICES ASSUME NEW q \in Procs, NEW m \in Models
                 PROVE  states'[q][m].leases = Cardinality(Lessees(q, m)')
      BY DEF Leased
    <2>1. CASE q = p
      <3>1. Lessees(q, m)' = {}  BY <1>9, <2>1 DEF Lessees, My, Leasing
      <3>2. Cardinality({}) = 0  BY FS_EmptySet
      <3> QED BY <1>6, <1>7, <2>1, <3>1, <3>2
    <2>2. CASE q # p
      <3>1. Lessees(q, m)' = Lessees(q, m)  BY <1>10, <2>2 DEF Lessees, My
      <3> QED BY <1>1, <1>7, <2>2, <3>1 DEF Leased
    <2> QED BY <2>1, <2>2
  <1>14. OneDrains'
    <2>1. \A d \in Callers : call'[d].at = "drain" => call'[d] = call[d]  BY <1>9, <1>10
    <2> QED BY <1>1, <2>1 DEF OneDrains, My
  <1>15. ASSUME NEW d \in Callers PROVE CallFits(d)'
    <2> DEFINE x == call[d]  y == call'[d]
    <2>1. Fitting(x, states[My(d)], whole, ready)  BY DEF LifecycleInv, CallFits
    <2>2. My(d) \in Procs  BY HomeOf
    <2>3. CASE Gone(d)
      <3>1. x.model \in Models  BY <2>1, <2>3 DEF Fitting, Placed, Gone
      <3>2. y.at = "failed" /\ y.model = x.model /\ y.i = 1 /\ \A a \in Files : y.subs[a] # "waiting"
        BY <1>4, <2>3
      <3> HIDE DEF x, y
      <3>3. Fitting(y, states'[My(d)], whole', ready')  BY <3>1, <3>2, OutsideFits
      <3> QED BY <3>3 DEF CallFits, My, y
    <2>4. CASE ~Gone(d)
      <3>1. y = x  BY <1>4, <2>4
      <3>2. x.at # "idle" => states'[My(d)] = states[My(d)]  BY <1>7, <2>2, <2>4 DEF Gone
      <3> HIDE DEF x, y
      <3>3. x.at # "idle" => SameFor(x.model, states[My(d)], states'[My(d)])
                             /\ KeepsFor(x.model, whole, whole', ready, ready')
        BY <1>1, <3>2 DEF SameFor, KeepsFor
      <3>4. Fitting(x, states'[My(d)], whole', ready')  BY <2>1, <3>3, FittingStays
      <3> QED BY <3>1, <3>4 DEF CallFits, My, y
    <2> QED BY <2>3, <2>4
  <1>16. ASSUME NEW q \in Procs, NEW a \in Files PROVE TransferFits(q, a)'
    <2>1. CASE q = p
      <3>1. xfer'[q][a].at = "none"  BY <1>6, <1>7, <2>1
      <3>2. Users(q, a)' = {}  BY <1>9, <2>1 DEF Users, My
      <3> HIDE DEF Users
      <3> QED BY <3>1, <3>2 DEF TransferFits
    <2>2. CASE q # p
      <3>1. xfer'[q] = xfer[q] /\ states'[q] = states[q] /\ whole' = whole  BY <1>1, <1>7, <2>2
      <3>2. Users(q, a)' = Users(q, a) /\ \A d \in Users(q, a) : call'[d] = call[d]
        BY <1>10, <2>2 DEF Users, My
      <3>3. TransferFits(q, a)  BY DEF LifecycleInv
      <3> HIDE DEF Users
      <3> QED BY <3>1, <3>2, <3>3 DEF TransferFits
    <2> QED BY <2>1, <2>2
  <1> QED BY <1>8, <1>12, <1>13, <1>14, <1>15, <1>16 DEF LifecycleInv

----------------------------------------------------------------------------
(* The theorems. *)

LEMMA InitInv ==
  ASSUME LifecycleInit
  PROVE  LifecycleInv
  <1>1. PICK z \in Cache : whole = z.whole /\ part = z.part /\ ready = z.ready
    BY LifecycleAssumption DEF LifecycleInit, LifecycleAssumption
  <1>2. whole \in [Files -> BOOLEAN] /\ part \in [Files -> Checkpoints] /\ ready \in [Shared -> BOOLEAN]
    BY <1>1 DEF Cache
  <1>3. /\ \A p \in Procs : /\ \A l \in Locks : owners[p][l] = NoOwner
                            /\ \A m \in Models : states[p][m] = NewState
                            /\ \A a \in Files : xfer[p][a] = NoTransfer
        /\ \A c \in Callers : call[c] = NoCall
    BY DEF LifecycleInit
  <1>4. NewState \in ModelState /\ NewState.leases = 0 /\ NoOwner \in Owner /\ NoOwner.refs = 0
        /\ NoTransfer \in TransferRecord /\ NoTransfer.at = "none"
    BY DEF NewState, ModelState, NoOwner, Owner, NoTransfer, TransferRecord
  <1>5. NoCall \in CallRecord /\ NoCall.at = "idle" /\ NoCall.i = 1 /\ \A a \in Files : NoCall.subs[a] = "none"
    BY NoCallRecord
  <1>6. Typed
    <2> HIDE DEF NoCall, NewState, NoOwner, NoTransfer
    <2>1. /\ owners \in [Procs -> [Locks -> Owner]] /\ states \in [Procs -> [Models -> ModelState]]
          /\ xfer \in [Procs -> [Files -> TransferRecord]] /\ call \in [Callers -> CallRecord]
      BY <1>4, <1>5 DEF LifecycleInit
    <2>2. install \in [Procs -> [Shared -> Callers \cup {None}]]  BY DEF LifecycleInit
    <2> QED BY <1>2, <2>1, <2>2 DEF Typed
  <1>7. \A c \in Callers : Held(call[c]) = {}  BY <1>3, <1>5, HeldAt
  <1>8. \A p \in Procs, a \in Files : HeldBy(xfer[p][a]) = {}  BY <1>3, <1>4 DEF HeldBy, Working
  <1>9. Cardinality({}) = 0  BY FS_EmptySet
  <1>10. LockInv
    <2>1. Counted
      <3> SUFFICES ASSUME NEW p \in Procs, NEW l \in Locks PROVE owners[p][l].refs = Count(p, l)
        BY DEF Counted
      <3>1. Threads(p, l) = {} /\ Workers(p, l) = {}  BY <1>7, <1>8 DEF Threads, Workers
      <3> QED BY <1>3, <1>4, <1>9, <3>1 DEF Count
    <2>2. Exclusion  BY <1>3, <1>4 DEF Exclusion
    <2> QED BY <1>7, <1>8, <2>1, <2>2 DEF LockInv, InMode, HeldAreLocks
  <1>11. Leased
    <2> SUFFICES ASSUME NEW p \in Procs, NEW m \in Models
                 PROVE  states[p][m].leases = Cardinality(Lessees(p, m))
      BY DEF Leased
    <2>1. Lessees(p, m) = {}  BY <1>3, <1>5 DEF Lessees, Leasing
    <2> QED BY <1>3, <1>4, <1>9, <2>1
  <1>12. OneDrains  BY <1>3, <1>5 DEF OneDrains
  <1>13. \A c \in Callers : CallFits(c)
    <2> SUFFICES ASSUME NEW c \in Callers PROVE CallFits(c)  OBVIOUS
    <2> DEFINE x == call[c]
    <2>1. x.at = "idle" /\ x.i = 1 /\ \A a \in Files : x.subs[a] # "waiting"  BY <1>3, <1>5
    <2> HIDE DEF x
    <2>2. x.at \notin Begun /\ x.at \notin Leasing /\ x.at \notin Writing /\ x.at \notin Deleting
          /\ x.at # "drain" /\ x.at # "lease"
      BY <2>1 DEF Begun, Writing, Leasing, Deleting
    <2>3. Placed(x)  BY <2>1, <2>2 DEF Placed
    <2>4. Fitting(x, states[My(c)], whole, ready)  BY <2>2, <2>3 DEF Fitting, Aged, Stocked
    <2> QED BY <2>4 DEF CallFits, x
  <1>14. \A p \in Procs, a \in Files : TransferFits(p, a)
    <2> SUFFICES ASSUME NEW p \in Procs, NEW a \in Files PROVE TransferFits(p, a)  OBVIOUS
    <2>1. Users(p, a) = {}  BY <1>3, <1>5 DEF Users
    <2>2. xfer[p][a].at = "none"  BY <1>3, <1>4
    <2> HIDE DEF Users
    <2> QED BY <2>1, <2>2 DEF TransferFits
  <1> QED BY <1>6, <1>10, <1>11, <1>12, <1>13, <1>14 DEF LifecycleInv

LEMMA StutterInv ==
  ASSUME LifecycleInv, UNCHANGED avars
  PROVE  LifecycleInv'
  <1>1. UNCHANGED <<whole, part, ready, owners, states, xfer, install, call>>  BY DEF avars
  <1>2. Typed' /\ Leased' /\ OneDrains'
    <2>1. \A p \in Procs, m \in Models : Lessees(p, m)' = Lessees(p, m)  BY <1>1 DEF Lessees, My
    <2>2. Leased'  BY <1>1, <2>1 DEF LifecycleInv, Leased
    <2>3. Typed'  BY <1>1 DEF LifecycleInv, Typed
    <2>4. OneDrains'  BY <1>1 DEF LifecycleInv, OneDrains, My
    <2> QED BY <2>2, <2>3, <2>4
  <1>3. LockInv'
    <2>1. Typed /\ LockInv /\ owners' = owners  BY <1>1 DEF LifecycleInv
    <2>2. \A d \in Callers : Held(call'[d]) = Held(call[d]) /\ (Reads(call'[d]) <=> Reads(call[d]))
      BY <1>1
    <2>3. \A q \in Procs, f \in Files : HeldBy(xfer'[q][f]) = HeldBy(xfer[q][f])  BY <1>1
    <2> QED BY <2>1, <2>2, <2>3, StillLocks
  <1>4. \A c \in Callers : CallFits(c)'  BY <1>1 DEF LifecycleInv, CallFits, My
  <1>5. ASSUME NEW p \in Procs, NEW a \in Files PROVE TransferFits(p, a)'
    <2>1. Users(p, a)' = Users(p, a)  BY <1>1 DEF Users, My
    <2>2. TransferFits(p, a)  BY DEF LifecycleInv
    <2> HIDE DEF Users
    <2> QED BY <1>1, <2>1, <2>2 DEF TransferFits
  <1> QED BY <1>2, <1>3, <1>4, <1>5 DEF LifecycleInv

LEMMA NextInv ==
  ASSUME LifecycleInv, Verified, [LifecycleNext]_avars
  PROVE  LifecycleInv'
  <1>1. ASSUME NEW c \in Callers, Thread(c) PROVE LifecycleInv'
    <2>1. CASE Begin(c) \/ Peek(c) \/ Reading(c) \/ Claim(c)
      BY <2>1, BeginInv, PeekInv, ReadingInv, ClaimInv
    <2>2. CASE Look(c) \/ Join(c) \/ Wait(c)  BY <2>2, LookInv, JoinInv, WaitInv
    <2>3. CASE Install(c) \/ Replace(c) \/ Last(c)  BY <2>3, InstallInv, ReplaceInv, LastInv
    <2>4. CASE Lease(c) \/ Verify(c) \/ Initialize(c)  BY <2>4, LeaseInv, VerifyInv, InitializeInv
    <2>5. CASE Exclusive(c) \/ Mark(c) \/ Remove(c)  BY <2>5, ExclusiveInv, MarkInv, RemoveInv
    <2> QED BY <1>1, <2>1, <2>2, <2>3, <2>4, <2>5 DEF Thread
  <1>2. ASSUME NEW p \in Procs, NEW a \in Files, WorkerThread(p, a) PROVE LifecycleInv'
    <2>1. CASE Start(p, a) \/ Adopt(p, a) \/ Request(p, a) \/ Read(p, a)
      BY <2>1, StartInv, AdoptInv, RequestInv, ReadInv
    <2>2. CASE WorkerVerifies(p, a) \/ WorkerPublishes(p, a) \/ Release(p, a) \/ Done(p, a)
      BY <2>2, WorkerVerifiesInv, WorkerPublishesInv, ReleaseInv, DoneInv
    <2> QED BY <1>2, <2>1, <2>2 DEF WorkerThread
  <1>3. ASSUME NEW c \in Callers, NEW m \in Models, NEW op \in {"download", "load", "delete"},
               Call(c, op, m)
        PROVE  LifecycleInv'
    BY <1>3, CallInv
  <1>4. ASSUME NEW c \in Callers, Cancel(c) \/ Unload(c) \/ Breaks(c) PROVE LifecycleInv'
    BY <1>4, CancelInv, UnloadInv, BreaksInv
  <1>5. ASSUME NEW p \in Procs, Crash(p) PROVE LifecycleInv'
    BY <1>5, CrashInv
  <1>6. ASSUME NEW p \in Procs, NEW a \in Files, WorkerBreaks(p, a) PROVE LifecycleInv'
    BY <1>6, WorkerBreaksInv
  <1>7. CASE UNCHANGED avars  BY <1>7, StutterInv
  <1>8. CASE LifecycleNext
    <2>1. \/ \E c \in Callers, m \in Models, op \in {"download", "load", "delete"} : Call(c, op, m)
          \/ \E c \in Callers : Cancel(c) \/ Unload(c) \/ Breaks(c)
          \/ \E c \in Callers : Thread(c)
          \/ \E p \in Procs : Crash(p)
          \/ \E p \in Procs, a \in Files : WorkerThread(p, a)
          \/ \E p \in Procs, a \in Files : WorkerBreaks(p, a)
      BY <1>8 DEF LifecycleNext
    <2> QED BY <1>1, <1>2, <1>3, <1>4, <1>5, <1>6, <2>1
  <1> QED BY <1>7, <1>8

----------------------------------------------------------------------------
(* Successes. *)

\* A step of a thread is its own, within its call, and does not end well.
Alone(c) == call'[c].op = call[c].op /\ \A d \in Callers : d # c => call'[d] = call[d]
Silent(c) == Alone(c) /\ call'[c].at \notin {"ready", "loaded"}
\* A success of a thread with all that SuccessIsTrue asks for.
TrueFor(c) ==
  /\ AssetsReady(call[c].model)'
  /\ Current(c, IF call[c].op = "load" THEN call[c].outer ELSE call[c].epoch)

LEMMA LeaveGoes ==
  ASSUME LifecycleInv, NEW c \in Callers, NEW at \in Ended \cup {"lease", "mutation"}, Leave(c, at)
  PROVE  /\ Alone(c) /\ call'[c].at = at /\ call'[c].model = call[c].model
         /\ whole' = whole /\ ready' = ready
  <1> DEFINE x == call[c]  y == Left(x, at)
  <1>1. x \in CallRecord /\ Typed  BY CallOf
  <1>2. call' = [call EXCEPT ![c] = y] /\ whole' = whole /\ ready' = ready
    BY DEF Leave, Left, durables
  <1>3. y.at = at /\ y.model = x.model /\ y.op = x.op
    <2> HIDE DEF x
    <2> QED BY <1>1, LeftRecord
  <1> HIDE DEF y
  <1> QED BY <1>1, <1>2, <1>3 DEF Alone, Typed

LEMMA FailsGoes ==
  ASSUME LifecycleInv, NEW c \in Callers, Fails(c) \/ InUse(c)
  PROVE  Silent(c)
  <1>1. Leave(c, "failed") \/ Leave(c, "inuse")  BY DEF Fails, InUse
  <1>2. {"failed", "inuse"} \subseteq Ended  BY DEF Ended
  <1> QED BY <1>1, <1>2, LeaveGoes DEF Silent

LEMMA AtGoes ==
  ASSUME LifecycleInv, NEW c \in Callers, NEW at, At(c, at) \/ Next1(c, at)
  PROVE  Alone(c) /\ call'[c].at = at /\ call'[c].model = call[c].model
  <1> DEFINE x == call[c]  y == [x EXCEPT !.at = at]  z == [x EXCEPT !.at = at, !.i = x.i + 1]
  <1>1. x \in CallRecord /\ Typed  BY CallOf
  <1>2. /\ y.at = at /\ y.model = x.model /\ y.op = x.op
        /\ z.at = at /\ z.model = x.model /\ z.op = x.op
    <2> HIDE DEF x
    <2> QED BY <1>1 DEF CallRecord
  <1>3. call' = [call EXCEPT ![c] = y] \/ call' = [call EXCEPT ![c] = z]  BY DEF At, Next1
  <1> HIDE DEF y, z
  <1> QED BY <1>1, <1>2, <1>3 DEF Alone, Typed

\* A download ends well with every file, seen after the last deletion.
LEMMA DownloadedTrue ==
  ASSUME LifecycleInv, NEW c \in Callers, Downloaded(c), AssetsReady(call[c].model), Check(c)
  PROVE  Alone(c) /\ (Succeeds(c) => TrueFor(c))
  <1>1. PICK at \in {"lease", "ready"} : Leave(c, at) /\ (at = "ready" => call[c].op # "load")
    BY DEF Downloaded
  <1>2. at \in Ended \cup {"lease", "mutation"}  BY DEF Ended
  <1>3. /\ Alone(c) /\ call'[c].at = at /\ call'[c].model = call[c].model
        /\ whole' = whole /\ ready' = ready
    BY <1>1, <1>2, LeaveGoes
  <1>4. AssetsReady(call[c].model)'  BY <1>3 DEF AssetsReady
  <1>5. Succeeds(c) => call[c].op # "load"  BY <1>1, <1>3 DEF Succeeds
  <1> QED BY <1>3, <1>4, <1>5 DEF TrueFor, Check

LEMMA LastReady ==
  ASSUME LifecycleInv, NEW c \in Callers, call[c].at = "last", Check(c)
  PROVE  AssetsReady(call[c].model)
  <1>1. call[c].at \in Writing /\ call[c].at # "idle"  BY DEF Writing
  <1>2. Stocked(call[c], states[My(c)], whole, ready) /\ Fresh(states[My(c)], call[c].model, call[c].epoch)
    BY CallOf
  <1>3. Found(call[c], whole, ready)  BY <1>1, <1>2 DEF Stocked
  <1>4. Complete(call[c].model, whole, ready)  BY <1>3 DEF Found
  <1> QED BY <1>1, <1>4, CallOf

LEMMA UnleasedGoes ==
  ASSUME LifecycleInv, NEW c \in Callers, NEW at \in Ended, Unleased(c, at)
  PROVE  Alone(c) /\ call'[c].at = at
  BY LeaveGoes DEF Unleased

\* An engine is created with every file, before the next deletion.
LEMMA InitializeTrue ==
  ASSUME LifecycleInv, NEW c \in Callers, Initialize(c)
  PROVE  Alone(c) /\ (Succeeds(c) => TrueFor(c))
  <1>1. call[c].at = "initialize" /\ call[c].at \in Leasing /\ call[c].at # "idle" /\ call[c].at # "verify"
    BY DEF Initialize, Leasing
  <1>2. /\ call[c].op = "load" /\ Fresh(states[My(c)], call[c].model, call[c].outer)
        /\ Complete(call[c].model, whole, ready)
    BY <1>1, LesseeOf
  <1>3. AssetsReady(call[c].model) /\ Current(c, call[c].outer)
    BY <1>1, <1>2, CallOf DEF Fresh, Current, State
  <1>4. CASE Unleased(c, "failed")
    <2>1. "failed" \in Ended  BY DEF Ended
    <2>2. Alone(c) /\ call'[c].at = "failed"  BY <1>4, <2>1, UnleasedGoes
    <2> QED BY <1>1, <2>2 DEF Succeeds
  <1>5. CASE (At(c, "loaded") \/ At(c, "retained")) /\ Elsewhere
    <2>1. Alone(c) /\ call'[c].model = call[c].model  BY <1>5, AtGoes
    <2>2. whole' = whole /\ ready' = ready  BY <1>5 DEF Elsewhere, durables
    <2>3. AssetsReady(call[c].model)'  BY <1>3, <2>1, <2>2 DEF AssetsReady
    <2> QED BY <1>2, <1>3, <2>1, <2>3 DEF TrueFor
  <1> QED BY <1>4, <1>5 DEF Initialize

LEMMA SilentTrue ==
  ASSUME NEW c \in Callers, Silent(c)
  PROVE  Alone(c) /\ (Succeeds(c) => TrueFor(c))
  BY DEF Silent, Succeeds

\* A call that deletes, until it removes the files.
LEMMA DeletingGoes ==
  ASSUME LifecycleInv, NEW c \in Callers, Exclusive(c) \/ Mark(c)
  PROVE  Alone(c) /\ call'[c].at \in Deleting \cup {"failed", "inuse"}
  <1>1. {"inuse", "failed"} \subseteq Ended /\ {"mark", "drain"} \subseteq Deleting
    BY DEF Ended, Deleting
  <1>2. \/ Leave(c, "inuse") \/ Leave(c, "failed") \/ At(c, "mark") \/ At(c, "drain")
    BY DEF Exclusive, Mark, Take, InUse
  <1> QED BY <1>1, <1>2, LeaveGoes, AtGoes

LEMMA RemoveGoes ==
  ASSUME LifecycleInv, NEW c \in Callers, Remove(c)
  PROVE  /\ Alone(c) /\ call'[c].at \in {"ready", "failed"}
         /\ call[c].op = "delete" /\ call[c].at = "drain"
         /\ \E S \in SUBSET PrivateOf(call[c].model) :
              /\ whole' = [a \in Files |-> whole[a] /\ a \notin S]
              /\ part' = [a \in Files |-> IF a \in S THEN "none" ELSE part[a]]
              /\ call'[c].at = "ready" => S = PrivateOf(call[c].model)
  <1> DEFINE x == call[c]
  <1>1. x.op = "delete" /\ x.at = "drain"
    <2>1. x.at = "drain" /\ x.at \in Deleting  BY DEF Remove, Deleting
    <2>2. Placed(x)  BY CallOf
    <2> QED BY <2>1, <2>2 DEF Placed
  <1>2. PICK S \in SUBSET PrivateOf(x.model) :
          /\ whole' = [a \in Files |-> whole[a] /\ a \notin S]
          /\ part' = [a \in Files |-> IF a \in S THEN "none" ELSE part[a]]
          /\ call' = [call EXCEPT ![c] = Over(@, IF S = PrivateOf(x.model) THEN "ready" ELSE "failed")]
    BY DEF Remove
  <1> DEFINE at == IF S = PrivateOf(x.model) THEN "ready" ELSE "failed"  y == Over(x, at)
  <1>3. y.at = at /\ y.op = x.op
    <2> HIDE DEF x, at
    <2> QED BY NoCallRecord DEF Over, CallRecord
  <1>4. Typed /\ call' = [call EXCEPT ![c] = y]  BY <1>2, CallOf
  <1> HIDE DEF y
  <1>5. Alone(c) /\ call'[c].at = at  BY <1>3, <1>4 DEF Alone, Typed
  <1>6. at \in {"ready", "failed"} /\ (at = "ready" => S = PrivateOf(x.model))  OBVIOUS
  <1> HIDE DEF at
  <1> QED BY <1>1, <1>2, <1>5, <1>6

LEMMA ThreadTrue ==
  ASSUME LifecycleInv, NEW c \in Callers, Thread(c)
  PROVE  Alone(c) /\ (Succeeds(c) => TrueFor(c))
  <1>1. ASSUME NEW at, at \notin {"ready", "loaded"},
               At(c, at) \/ Next1(c, at) \/ Fails(c) \/ InUse(c)
        PROVE  Silent(c)
    BY <1>1, FailsGoes, AtGoes DEF Silent
  <1>2. CASE Begin(c)
    <2>1. CASE Fails(c)  BY <2>1, FailsGoes, SilentTrue
    <2>2. CASE call' = [call EXCEPT ![c].at = "peek", ![c].epoch = State(c).epoch]
      <3> DEFINE x == call[c]  e == State(c).epoch  y == [x EXCEPT !.at = "peek", !.epoch = e]
      <3>1. x \in CallRecord /\ Typed  BY CallOf
      <3>2. call' = [call EXCEPT ![c] = y]  BY <2>2
      <3>3. y.at = "peek" /\ y.op = x.op
        <4> HIDE DEF x, e
        <4> QED BY <3>1 DEF CallRecord
      <3> HIDE DEF y
      <3> QED BY <3>1, <3>2, <3>3, SilentTrue DEF Silent, Alone, Typed
    <2> QED BY <1>2, <2>1, <2>2 DEF Begin
  <1>3. CASE Peek(c)
    <2>1. Fails(c) \/ At(c, "reading") \/ At(c, "mutation")
      BY <1>3 DEF Peek, Take
    <2> QED BY <1>1, <2>1, FailsGoes, SilentTrue
  <1>4. CASE Reading(c)
    <2>1. CASE Fails(c)  BY <2>1, FailsGoes, SilentTrue
    <2>2. CASE AssetsReady(call[c].model) /\ Check(c) /\ Downloaded(c)  BY <2>2, DownloadedTrue
    <2>3. CASE Leave(c, "mutation")
      <3>1. "mutation" \in Ended \cup {"lease", "mutation"}  OBVIOUS
      <3> QED BY <2>3, <3>1, LeaveGoes, SilentTrue DEF Silent
    <2> QED BY <1>4, <2>1, <2>2, <2>3 DEF Reading
  <1>5. CASE Claim(c)
    <2>1. InUse(c) \/ At(c, "model") \/ At(c, "look")
      BY <1>5 DEF Claim, Take
    <2> QED BY <1>1, <2>1, FailsGoes, SilentTrue
  <1>6. CASE Look(c)  BY <1>1, <1>6, SilentTrue DEF Look
  <1>7. CASE Join(c)
    <2>1. CASE Fails(c)  BY <2>1, FailsGoes, SilentTrue
    <2>2. CASE Subscribed(c, File(c))
      <3> DEFINE x == call[c]  f == File(c)  k == x.i + 1  s == [x.subs EXCEPT ![f] = "waiting"]
                 y == [x EXCEPT !.at = "look", !.i = k, !.subs = s]
      <3>1. x \in CallRecord /\ Typed  BY CallOf
      <3>2. call' = [call EXCEPT ![c].at = "look", ![c].i = @ + 1, ![c].subs[f] = "waiting"]
        BY <2>2 DEF Subscribed
      <3>3. call' = [call EXCEPT ![c] = y]
        <4> HIDE DEF f
        <4> QED BY <3>2
      <3>4. y.at = "look" /\ y.op = x.op
        <4> HIDE DEF x, k, s
        <4> QED BY <3>1 DEF CallRecord
      <3> HIDE DEF y
      <3> QED BY <3>1, <3>3, <3>4, SilentTrue DEF Silent, Alone, Typed
    <2> QED BY <1>7, <2>1, <2>2 DEF Join
  <1>8. CASE Wait(c)
    <2>1. CASE Fails(c)  BY <2>1, FailsGoes, SilentTrue
    <2>2. CASE call' = [call EXCEPT ![c].at = "install", ![c].i = 1]
      <3> DEFINE x == call[c]  y == [x EXCEPT !.at = "install", !.i = 1]
      <3>1. x \in CallRecord /\ Typed  BY CallOf
      <3>2. call' = [call EXCEPT ![c] = y]  BY <2>2
      <3>3. y.at = "install" /\ y.op = x.op
        <4> HIDE DEF x
        <4> QED BY <3>1 DEF CallRecord
      <3> HIDE DEF y
      <3> QED BY <3>1, <3>2, <3>3, SilentTrue DEF Silent, Alone, Typed
    <2> QED BY <1>8, <2>1, <2>2 DEF Wait
  <1>9. CASE Install(c)
    <2>1. \/ Fails(c) \/ InUse(c) \/ At(c, "last") \/ At(c, "replace")
          \/ Next1(c, "install")
      BY <1>9 DEF Install
    <2> QED BY <1>1, <2>1, FailsGoes, SilentTrue
  <1>10. CASE Replace(c)  BY <1>1, <1>10, SilentTrue DEF Replace
  <1>11. CASE Last(c)
    <2>1. CASE Fails(c)  BY <2>1, FailsGoes, SilentTrue
    <2>2. CASE call[c].at = "last" /\ Check(c) /\ Downloaded(c)  BY <2>2, LastReady, DownloadedTrue
    <2> QED BY <1>11, <2>1, <2>2 DEF Last
  <1>12. CASE Lease(c)
    <2>1. Fails(c) \/ InUse(c) \/ At(c, "verify")
      BY <1>12 DEF Lease
    <2> QED BY <1>1, <2>1, FailsGoes, SilentTrue
  <1>13. CASE Verify(c)
    <2>1. "failed" \in Ended  BY DEF Ended
    <2>2. CASE Unleased(c, "failed")  BY <2>1, <2>2, UnleasedGoes, SilentTrue DEF Silent
    <2> QED BY <1>1, <1>13, <2>2, SilentTrue DEF Verify
  <1>14. CASE Initialize(c)  BY <1>14, InitializeTrue
  <1>15. CASE Exclusive(c) \/ Mark(c)
    BY <1>15, DeletingGoes, SilentTrue DEF Silent, Deleting
  <1>16. CASE Remove(c)
    <2>1. Alone(c) /\ call[c].op = "delete" /\ call[c].at = "drain"  BY <1>16, RemoveGoes
    <2> QED BY <2>1 DEF Succeeds
  <1> QED BY <1>2, <1>3, <1>4, <1>5, <1>6, <1>7, <1>8, <1>9, <1>10, <1>11, <1>12, <1>13, <1>14,
             <1>15, <1>16 DEF Thread

LEMMA OthersTrue ==
  ASSUME LifecycleInv, NEW c \in Callers, Cancel(c) \/ Unload(c) \/ Breaks(c)
  PROVE  Alone(c) /\ (Succeeds(c) => TrueFor(c))
  <1> DEFINE x == call[c]
  <1>1. x \in CallRecord /\ Typed /\ Placed(x)  BY CallOf
  <1>2. CASE Cancel(c)
    <2> DEFINE y == [x EXCEPT !.cancelled = TRUE]
    <2>1. call' = [call EXCEPT ![c] = y]  BY <1>2 DEF Cancel
    <2>2. y.at = x.at /\ y.op = x.op
      <3> HIDE DEF x
      <3> QED BY <1>1 DEF CallRecord
    <2> HIDE DEF y
    <2>3. Alone(c) /\ call'[c].at = x.at  BY <1>1, <2>1, <2>2 DEF Alone, Typed
    <2> QED BY <2>3 DEF Succeeds
  <1>3. CASE Unload(c)
    <2>1. x.at = "loaded" /\ x.at \in Leasing  BY <1>3 DEF Unload, Leasing
    <2>2. x.op = "load"  BY <1>1, <2>1 DEF Placed
    <2>3. "ready" \in Ended  BY DEF Ended
    <2>4. Alone(c) /\ call'[c].at = "ready"  BY <1>3, <2>3, UnleasedGoes DEF Unload
    <2> QED BY <2>1, <2>2, <2>4 DEF Succeeds
  <1>4. CASE Breaks(c)  BY <1>4, FailsGoes, SilentTrue DEF Breaks
  <1> QED BY <1>2, <1>3, <1>4

\* How a call begins.
LEMMA CalledAs ==
  ASSUME Typed, NEW d \in Callers, NEW m \in Models, NEW op \in {"download", "load", "delete"}, Call(d, op, m)
  PROVE  /\ \A g \in Callers : g # d => call'[g] = call[g]
         /\ call'[d].at \in {"exclusive", "failed", "begin"}
         /\ call'[d].op = op /\ (op = "delete" => call'[d].at = "exclusive")
  <1> DEFINE at == IF op = "delete" THEN "exclusive"
                   ELSE IF op = "load" /\ states[My(d)][m].deleting THEN "failed" ELSE "begin"
             e == states[My(d)][m].epoch
             y == [NoCall EXCEPT !.op = op, !.model = m, !.outer = e, !.at = at]
  <1>1. call' = [call EXCEPT ![d] = y]  BY DEF Call
  <1>2. at \in {"exclusive", "failed", "begin"} /\ (op = "delete" => at = "exclusive")  OBVIOUS
  <1>3. y.at = at /\ y.op = op
    <2> HIDE DEF at, e
    <2> QED BY NoCallRecord DEF CallRecord
  <1> HIDE DEF y, at
  <1> QED BY <1>1, <1>2, <1>3 DEF Typed

\* Workers tell the calls how a transfer ended, and leave them where they are.
LEMMA WorkersTell ==
  ASSUME LifecycleInv, NEW p \in Procs, NEW a \in Files, WorkerThread(p, a) \/ WorkerBreaks(p, a)
  PROVE  \A c \in Callers : call'[c].at = call[c].at /\ call'[c].op = call[c].op
  <1>1. CASE Done(p, a)
    <2> SUFFICES ASSUME NEW c \in Callers PROVE call'[c].at = call[c].at /\ call'[c].op = call[c].op
      OBVIOUS
    <2> DEFINE x == call[c]  how == IF xfer[p][a].failed THEN "error" ELSE "ok"
    <2>1. call'[c] = x \/ call'[c] = [x EXCEPT !.subs[a] = how]  BY <1>1 DEF Done
    <2>2. x \in CallRecord  BY CallOf
    <2>3. [x EXCEPT !.subs[a] = how].at = x.at /\ [x EXCEPT !.subs[a] = how].op = x.op
      <3> HIDE DEF x, how
      <3> QED BY <2>2 DEF CallRecord
    <2> QED BY <2>1, <2>3
  <1>2. CASE WorkerBreaks(p, a) \/ Release(p, a)
    BY <1>2 DEF WorkerBreaks, WorkerFails, Release
  <1>3. CASE Start(p, a) \/ Adopt(p, a)
    BY <1>3 DEF Start, Adopt, Worker, WorkerFails, Publish
  <1>4. CASE Request(p, a) \/ Read(p, a)
    BY <1>4 DEF Request, Read, Receives, Worker, WorkerFails
  <1>5. CASE WorkerVerifies(p, a) \/ WorkerPublishes(p, a)
    BY <1>5 DEF WorkerVerifies, WorkerPublishes, Worker, WorkerFails, Publish
  <1> QED BY <1>1, <1>2, <1>3, <1>4, <1>5 DEF WorkerThread

LEMMA CrashTells ==
  ASSUME LifecycleInv, NEW p \in Procs, Crash(p)
  PROVE  \A c \in Callers : call'[c].op = call[c].op /\ call'[c].at \in {"failed", call[c].at}
  <1> SUFFICES ASSUME NEW c \in Callers
               PROVE  call'[c].op = call[c].op /\ call'[c].at \in {"failed", call[c].at}
    OBVIOUS
  <1> DEFINE x == call[c]
  <1>1. call'[c] = Over(x, "failed") \/ call'[c] = x  BY DEF Crash
  <1>2. Over(x, "failed").at = "failed" /\ Over(x, "failed").op = x.op
    <2> HIDE DEF x
    <2> QED BY NoCallRecord DEF Over, CallRecord
  <1> HIDE DEF Over
  <1> QED BY <1>1, <1>2

\* No one else's step ends a call well.
LEMMA OwnEnd ==
  ASSUME LifecycleInv, [LifecycleNext]_avars, NEW c \in Callers,
         call'[c].at # call[c].at, call'[c].at \in {"ready", "loaded"}
  PROVE  Thread(c) \/ Cancel(c) \/ Unload(c) \/ Breaks(c)
  <1> SUFFICES ASSUME ~(Thread(c) \/ Cancel(c) \/ Unload(c) \/ Breaks(c)) PROVE FALSE
    OBVIOUS
  <1>1. ASSUME NEW d \in Callers, Thread(d) PROVE FALSE  BY <1>1, ThreadTrue DEF Alone
  <1>2. ASSUME NEW d \in Callers, Cancel(d) \/ Unload(d) \/ Breaks(d) PROVE FALSE
    BY <1>2, OthersTrue DEF Alone
  <1>3. ASSUME NEW d \in Callers, NEW m \in Models, NEW op \in {"download", "load", "delete"}, Call(d, op, m)
        PROVE  FALSE
    <2>1. Typed  BY CallOf
    <2>2. /\ \A g \in Callers : g # d => call'[g] = call[g]
          /\ call'[d].at \in {"exclusive", "failed", "begin"}
      BY <1>3, <2>1, CalledAs
    <2> QED BY <2>2
  <1>4. ASSUME NEW p \in Procs, NEW a \in Files, WorkerThread(p, a) \/ WorkerBreaks(p, a) PROVE FALSE
    BY <1>4, WorkersTell
  <1>5. ASSUME NEW p \in Procs, Crash(p) PROVE FALSE  BY <1>5, CrashTells
  <1>6. call' # call  OBVIOUS
  <1>7. \/ \E d \in Callers, m \in Models, op \in {"download", "load", "delete"} : Call(d, op, m)
        \/ \E d \in Callers : Cancel(d) \/ Unload(d) \/ Breaks(d)
        \/ \E d \in Callers : Thread(d)
        \/ \E p \in Procs : Crash(p)
        \/ \E p \in Procs, a \in Files : WorkerThread(p, a) \/ WorkerBreaks(p, a)
    BY <1>6 DEF LifecycleNext, avars
  <1> QED BY <1>1, <1>2, <1>3, <1>4, <1>5, <1>7

LEMMA ElsewhereTrue ==
  ASSUME LifecycleInv, [LifecycleNext]_avars, NEW c \in Callers, Succeeds(c)
  PROVE  TrueFor(c)
  <1>1. call'[c].at # call[c].at /\ call'[c].at \in {"ready", "loaded"}  BY DEF Succeeds
  <1>2. Thread(c) \/ Cancel(c) \/ Unload(c) \/ Breaks(c)  BY <1>1, OwnEnd
  <1> QED BY <1>2, ThreadTrue, OthersTrue

----------------------------------------------------------------------------
(* What the theorem of the successes rests on besides: checkpoints that are  *)
(* about to be published are verified, and deletions are calls of their own. *)

\* Two workers that touch files have the cache lock, each for its process.
LEMMA WorkersExclude ==
  ASSUME LifecycleInv, NEW p \in Procs, NEW q \in Procs, NEW a \in Files, NEW f \in Files,
         xfer[p][a].at \in Working, xfer[q][f].at \in Working
  PROVE  p = q
  <1>1. /\ LockInv /\ "mutation" \in HeldBy(xfer[p][a]) /\ "mutation" \in HeldBy(xfer[q][f])
        /\ "mutation" \in Locks
    BY DEF LifecycleInv, HeldBy, Locks
  <1>2. owners[p]["mutation"].refs > 0 /\ owners[q]["mutation"].refs > 0
    BY <1>1, HolderHas DEF LockInv
  <1>3. ~owners[p]["mutation"].shared  BY <1>1 DEF LockInv, InMode
  <1> QED BY <1>1, <1>2, <1>3 DEF LockInv, Exclusion

\* A worker has the lock of its model, so no other process reads or deletes it.
LEMMA WorkerExcludes ==
  ASSUME LifecycleInv, NEW p \in Procs, NEW a \in Files, xfer[p][a].at \in Working,
         NEW c \in Callers, call[c].at \in {"reading"} \cup Leasing \cup Deleting, My(c) # p
  PROVE  a \notin PrivateOf(call[c].model)
  <1> DEFINE t == xfer[p][a]  m == call[c].model
  <1> SUFFICES ASSUME a \in PrivateOf(m) PROVE FALSE  OBVIOUS
  <1>1. m \in Models /\ m \in Locks /\ owners[My(c)][m].refs > 0  BY ModelHeld
  <1>2. t.at # "none" /\ TransferFits(p, a)  BY DEF LifecycleInv, Working
  <1>3. t.model \in Models /\ HasFile(t.model, a)  BY <1>2 DEF TransferFits
  <1>4. HasFile(m, a) /\ a \notin Shared  BY <1>1, ModelFiles
  <1>5. t.model = m  BY <1>1, <1>3, <1>4, OneModel
  <1>6. LockInv /\ m \in HeldBy(t)  BY <1>5 DEF LifecycleInv, HeldBy
  <1>7. owners[p][m].refs > 0 /\ ~owners[p][m].shared
    BY <1>6, HolderHas DEF LockInv, InMode
  <1>8. My(c) \in Procs  BY HomeOf
  <1> QED BY <1>1, <1>6, <1>7, <1>8 DEF LockInv, Exclusion

\* A step that leaves the checkpoints alone and begins transfers at most.
Spares ==
  part' = part /\ \A q \in Procs, f \in Files : xfer'[q][f].at \in {xfer[q][f].at, "start"}

LEMMA LeaveSpares ==
  ASSUME LifecycleInv, NEW c \in Callers, NEW at, Leave(c, at)
  PROVE  Spares
  <1>1. xfer \in [Procs -> [Files -> TransferRecord]]  BY DEF LifecycleInv, Typed
  <1>2. part' = part /\ xfer' = Withdrawn(c)  BY DEF Leave, durables
  <1>3. ASSUME NEW q \in Procs, NEW f \in Files PROVE xfer'[q][f].at = xfer[q][f].at
    <2> DEFINE t == xfer[q][f]
    <2>1. xfer'[q][f] = t \/ xfer'[q][f] = [t EXCEPT !.stop = TRUE]
      <3> HIDE DEF Users
      <3> QED BY <1>1, <1>2 DEF Withdrawn
    <2>2. [t EXCEPT !.stop = TRUE].at = t.at
      <3>1. t \in TransferRecord  BY <1>1
      <3> HIDE DEF t
      <3> QED BY <3>1 DEF TransferRecord
    <2> QED BY <2>1, <2>2
  <1> QED BY <1>2, <1>3 DEF Spares

LEMMA StillSpares ==
  ASSUME part' = part, xfer' = xfer
  PROVE  Spares
  BY DEF Spares

LEMMA CreateSpares ==
  ASSUME LifecycleInv, NEW c \in Callers, NEW a \in Files, Create(c, a), part' = part
  PROVE  Spares
  <1> DEFINE t == [NoTransfer EXCEPT !.at = "start", !.model = call[c].model]
  <1>1. xfer \in [Procs -> [Files -> TransferRecord]]  BY DEF LifecycleInv, Typed
  <1>2. xfer' = [xfer EXCEPT ![My(c)][a] = t]  BY DEF Create
  <1>3. t.at = "start"  BY DEF NoTransfer
  <1> HIDE DEF t
  <1> QED BY <1>1, <1>2, <1>3 DEF Spares

LEMMA StoppedSpares ==
  ASSUME LifecycleInv, NEW p \in Procs, NEW m, xfer' = Stopped(p, m), part' = part
  PROVE  Spares
  <1>1. xfer \in [Procs -> [Files -> TransferRecord]]  BY DEF LifecycleInv, Typed
  <1>2. ASSUME NEW q \in Procs, NEW f \in Files PROVE xfer'[q][f].at = xfer[q][f].at
    <2> DEFINE t == xfer[q][f]
    <2>1. xfer'[q][f] = t \/ xfer'[q][f] = [t EXCEPT !.stop = TRUE]
      <3> HIDE DEF PrivateOf
      <3> QED BY <1>1 DEF Stopped
    <2>2. [t EXCEPT !.stop = TRUE].at = t.at
      <3>1. t \in TransferRecord  BY <1>1
      <3> HIDE DEF t
      <3> QED BY <3>1 DEF TransferRecord
    <2> QED BY <2>1, <2>2
  <1> QED BY <1>2 DEF Spares

LEMMA ThreadSpares ==
  ASSUME LifecycleInv, NEW c \in Callers, Thread(c) \/ Cancel(c) \/ Unload(c) \/ Breaks(c), ~Remove(c)
  PROVE  Spares
  <1>1. CASE \E at : Leave(c, at)  BY <1>1, LeaveSpares
  <1>2. CASE part' = part /\ xfer' = xfer  BY <1>2, StillSpares
  <1>3. CASE Join(c)
    <2>1. CASE Fails(c)  BY <1>1, <2>1 DEF Fails
    <2>2. CASE Create(c, File(c)) /\ UNCHANGED durables
      <3>1. call[c].at \in Writing /\ call[c].at = "join" /\ call[c].at # "idle"
        BY <1>3 DEF Join, Writing
      <3>2. Placed(call[c]) /\ call[c].model \in Models  BY <3>1, CallOf
      <3>3. File(c) \in Files  BY <3>1, <3>2 DEF Placed, File, Files
      <3> QED BY <2>2, <3>3, CreateSpares DEF durables
    <2>3. CASE Elsewhere  BY <1>2, <2>3 DEF Elsewhere, durables
    <2> QED BY <1>3, <2>1, <2>2, <2>3 DEF Join
  <1>4. CASE Mark(c)
    <2>1. CASE xfer' = Stopped(My(c), call[c].model) /\ UNCHANGED durables
      BY <2>1, HomeOf, StoppedSpares DEF durables
    <2> QED BY <1>1, <1>4, <2>1 DEF Mark
  <1>5. CASE Begin(c) \/ Peek(c) \/ Reading(c) \/ Claim(c)
    BY <1>1, <1>2, <1>5 DEF Begin, Peek, Reading, Claim, Fails, InUse, Downloaded, Take, Elsewhere, durables
  <1>6. CASE Look(c) \/ Wait(c)
    BY <1>1, <1>2, <1>6 DEF Look, Wait, Fails, Elsewhere, durables
  <1>7. CASE Install(c) \/ Replace(c) \/ Last(c)
    BY <1>1, <1>2, <1>7 DEF Install, Replace, Last, Fails, InUse, Downloaded, Elsewhere, durables
  <1>8. CASE Lease(c) \/ Verify(c) \/ Initialize(c) \/ Unload(c)
    BY <1>1, <1>2, <1>8 DEF Lease, Verify, Initialize, Unload, Unleased, Fails, InUse, Elsewhere, durables
  <1>9. CASE Exclusive(c)
    BY <1>1, <1>2, <1>9 DEF Exclusive, Take, InUse, durables
  <1>10. CASE Cancel(c) \/ Breaks(c)
    BY <1>1, <1>2, <1>10 DEF Cancel, Breaks, Fails, Elsewhere, durables
  <1> QED BY <1>3, <1>4, <1>5, <1>6, <1>7, <1>8, <1>9, <1>10 DEF Thread

\* The steps of a worker.
LEMMA WorkerChanges ==
  ASSUME LifecycleInv, Verified, NEW p \in Procs, NEW a \in Files, WorkerThread(p, a) \/ WorkerBreaks(p, a)
  PROVE  /\ \A q \in Procs, f \in Files : q # p \/ f # a => xfer'[q][f] = xfer[q][f]
         /\ \A f \in Files : f # a => part'[f] = part[f]
         /\ xfer[p][a].at \in Working \/ part' = part
         /\ xfer'[p][a].at \in {"adopt", "publish"} => part'[a] = "good"
  <1>1. xfer \in [Procs -> [Files -> TransferRecord]] /\ part \in [Files -> Checkpoints]
    BY WorkerOf
  <1> DEFINE Goes(at) == xfer' = [xfer EXCEPT ![p][a].at = at]
  <1>2. ASSUME NEW at, Goes(at)
        PROVE  /\ xfer'[p][a].at = at
               /\ \A q \in Procs, f \in Files : q # p \/ f # a => xfer'[q][f] = xfer[q][f]
    BY <1>1, <1>2 DEF TransferRecord
  <1>3. ASSUME WorkerFails(p, a)
        PROVE  /\ xfer'[p][a].at = "release"
               /\ \A q \in Procs, f \in Files : q # p \/ f # a => xfer'[q][f] = xfer[q][f]
    BY <1>1, <1>3 DEF WorkerFails, TransferRecord
  <1>4. ASSUME NEW q, part' = [part EXCEPT ![a] = q] PROVE \A f \in Files : f # a => part'[f] = part[f]
    BY <1>1, <1>4
  <1> HIDE DEF Goes
  <1>5. CASE Start(p, a)
    <2>1. xfer[p][a].at \in Working  BY <1>5 DEF Start, Working
    <2>2. \/ Goes("release") /\ part' = part
          \/ Goes("adopt") /\ part' = part /\ part[a] = "good"
          \/ WorkerFails(p, a) /\ part' = part
          \/ Goes("request") /\ part' = [part EXCEPT ![a] = "none"]
          \/ Goes("request") /\ part' = part
      BY <1>5 DEF Start, Worker, Goes
    <2> QED BY <1>2, <1>3, <1>4, <2>1, <2>2
  <1>6. CASE Adopt(p, a) \/ WorkerPublishes(p, a)
    <2>1. xfer[p][a].at \in Working  BY <1>6 DEF Adopt, WorkerPublishes, Working
    <2>2. \/ Goes("release") /\ part' = [part EXCEPT ![a] = "none"]
          \/ WorkerFails(p, a) /\ part' = part
      BY <1>6 DEF Adopt, WorkerPublishes, Publish, Goes
    <2> QED BY <1>2, <1>3, <1>4, <2>1, <2>2
  <1>7. CASE Request(p, a) \/ Read(p, a)
    <2>1. xfer[p][a].at \in Working /\ xfer[p][a].at \notin {"adopt", "publish"}
      BY <1>7 DEF Request, Read, Working
    <2>2. ASSUME NEW q, Receives(p, a, q)
          PROVE  (WorkerFails(p, a) \/ Goes("read")) /\ part' = [part EXCEPT ![a] = q]
      BY <2>2 DEF Receives, Goes
    <2>3. \/ \E q : Receives(p, a, q)
          \/ xfer' = xfer /\ part' = [part EXCEPT ![a] = "none"]
          \/ Goes("verify") /\ part' = part
      BY <1>7 DEF Request, Read, Worker, Goes
    <2>4. CASE \E q : Receives(p, a, q)  BY <1>2, <1>3, <1>4, <2>1, <2>2, <2>4
    <2>5. CASE xfer' = xfer /\ part' = [part EXCEPT ![a] = "none"]  BY <1>4, <2>1, <2>5
    <2>6. CASE Goes("verify") /\ part' = part  BY <1>2, <2>1, <2>6
    <2> QED BY <2>3, <2>4, <2>5, <2>6
  <1>8. CASE WorkerVerifies(p, a)
    <2>1. xfer[p][a].at \in Working  BY <1>8 DEF WorkerVerifies, Working
    <2> DEFINE q == IF part[a] = "bad" THEN "none" ELSE part[a]
    <2>2. \/ Goes("publish") /\ part' = part /\ part[a] = "good"
          \/ WorkerFails(p, a) /\ part' = part
          \/ WorkerFails(p, a) /\ part' = [part EXCEPT ![a] = q]
      BY <1>8 DEF WorkerVerifies, Worker, Goes
    <2> HIDE DEF q
    <2> QED BY <1>2, <1>3, <1>4, <2>1, <2>2
  <1>9. CASE WorkerBreaks(p, a)
    <2>1. WorkerFails(p, a) /\ part' = part  BY <1>9 DEF WorkerBreaks
    <2> QED BY <1>3, <2>1
  <1>10. CASE Release(p, a)
    <2>1. Goes("done") /\ part' = part  BY <1>10 DEF Release, durables, Goes
    <2> QED BY <1>2, <2>1
  <1>11. CASE Done(p, a)
    <2>1. xfer' = [xfer EXCEPT ![p][a] = NoTransfer] /\ part' = part  BY <1>11 DEF Done, durables
    <2>2. NoTransfer.at = "none"  BY DEF NoTransfer
    <2> HIDE DEF NoTransfer
    <2> QED BY <1>1, <2>1, <2>2
  <1> QED BY <1>5, <1>6, <1>7, <1>8, <1>9, <1>10, <1>11 DEF WorkerThread

LEMMA VerifiedGoesOn ==
  ASSUME LifecycleInv, Verified, [LifecycleNext]_avars
  PROVE  Verified'
  <1> SUFFICES ASSUME NEW p \in Procs, NEW a \in Files, xfer'[p][a].at \in {"adopt", "publish"}
               PROVE  part'[a] = "good"
    BY DEF Verified
  <1>1. CASE Spares
    <2>1. xfer[p][a].at \in {"adopt", "publish"}  BY <1>1 DEF Spares
    <2> QED BY <1>1, <2>1 DEF Spares, Verified
  <1>2. ASSUME NEW c \in Callers, Remove(c) PROVE part'[a] = "good"
    <2>1. xfer' = xfer /\ xfer[p][a].at \in Working  BY <1>2 DEF Remove, Working
    <2>2. PICK S \in SUBSET PrivateOf(call[c].model) :
            part' = [f \in Files |-> IF f \in S THEN "none" ELSE part[f]]
      BY <1>2, RemoveGoes
    <2>3. a \notin PrivateOf(call[c].model)
      <3>1. CASE My(c) = p  BY <1>2, <2>1, <3>1 DEF Remove, Drained, Working
      <3>2. CASE My(c) # p
        <4>1. call[c].at \in Deleting  BY <1>2 DEF Remove, Deleting
        <4> QED BY <2>1, <3>2, <4>1, WorkerExcludes
      <3> QED BY <3>1, <3>2
    <2> QED BY <2>1, <2>2, <2>3 DEF Verified
  <1>3. ASSUME NEW q \in Procs, NEW f \in Files, WorkerThread(q, f) \/ WorkerBreaks(q, f)
        PROVE  part'[a] = "good"
    <2>1. CASE p = q /\ a = f  BY <1>3, <2>1, WorkerChanges
    <2>2. CASE p # q \/ a # f
      <3>1. xfer'[p][a] = xfer[p][a]  BY <1>3, <2>2, WorkerChanges
      <3>2. xfer[p][a].at \in Working /\ part[a] = "good"  BY <3>1 DEF Working, Verified
      <3>3. CASE part' = part  BY <3>2, <3>3
      <3>4. CASE xfer[q][f].at \in Working
        <4>1. p = q  BY <3>2, <3>4, WorkersExclude
        <4> QED BY <1>3, <2>2, <3>2, <4>1, WorkerChanges
      <3> QED BY <1>3, <3>3, <3>4, WorkerChanges
    <2> QED BY <2>1, <2>2
  <1>4. ASSUME NEW c \in Callers, NEW m \in Models, NEW op \in {"download", "load", "delete"}, Call(c, op, m)
        PROVE  Spares
    BY <1>4, StillSpares DEF Call, Elsewhere, durables
  <1>5. ASSUME NEW c \in Callers, Thread(c) \/ Cancel(c) \/ Unload(c) \/ Breaks(c) PROVE part'[a] = "good"
    BY <1>1, <1>2, <1>5, ThreadSpares
  <1>6. ASSUME NEW q \in Procs, Crash(q) PROVE part'[a] = "good"
    <2>1. xfer' = [xfer EXCEPT ![q] = [f \in Files |-> NoTransfer]] /\ part' = part
      BY <1>6 DEF Crash, durables
    <2>2. NoTransfer.at = "none" /\ xfer \in [Procs -> [Files -> TransferRecord]]
      BY WorkerOf DEF NoTransfer
    <2>3. xfer'[p][a] = xfer[p][a] \/ xfer'[p][a] = NoTransfer
      <3> HIDE DEF NoTransfer
      <3> QED BY <2>1, <2>2
    <2> QED BY <2>1, <2>2, <2>3 DEF Verified
  <1>7. CASE UNCHANGED avars  BY <1>1, <1>7, StillSpares DEF avars
  <1>8. CASE LifecycleNext
    <2>1. \/ \E c \in Callers, m \in Models, op \in {"download", "load", "delete"} : Call(c, op, m)
          \/ \E c \in Callers : Thread(c) \/ Cancel(c) \/ Unload(c) \/ Breaks(c)
          \/ \E q \in Procs : Crash(q)
          \/ \E q \in Procs, f \in Files : WorkerThread(q, f) \/ WorkerBreaks(q, f)
      BY <1>8 DEF LifecycleNext
    <2> QED BY <1>1, <1>3, <1>4, <1>5, <1>6, <2>1
  <1> QED BY <1>7, <1>8

\* What a call that deletes can do.
LEMMA DeletionSteps ==
  ASSUME LifecycleInv, NEW c \in Callers, call[c].at \in DeletionAts, call[c].op = "delete",
         Thread(c) \/ Cancel(c) \/ Unload(c) \/ Breaks(c)
  PROVE  Exclusive(c) \/ Mark(c) \/ Remove(c)
  <1>1. call[c].at \in {"exclusive", "mark", "drain", "ready", "failed", "inuse"}
    BY DEF DeletionAts, Deleting, Ended
  <1>2. ~Cancel(c) /\ ~Unload(c) /\ ~Breaks(c)  BY <1>1 DEF Cancel, Unload, Breaks
  <1>3. ~Begin(c) /\ ~Peek(c) /\ ~Reading(c) /\ ~Claim(c) /\ ~Look(c) /\ ~Join(c) /\ ~Wait(c)
    BY <1>1 DEF Begin, Peek, Reading, Claim, Look, Join, Wait
  <1>4. ~Install(c) /\ ~Replace(c) /\ ~Last(c) /\ ~Lease(c) /\ ~Verify(c) /\ ~Initialize(c)
    BY <1>1 DEF Install, Replace, Last, Lease, Verify, Initialize
  <1> QED BY <1>2, <1>3, <1>4 DEF Thread

LEMMA DedicatedGoesOn ==
  ASSUME LifecycleInv, Dedicated, [LifecycleNext]_avars
  PROVE  Dedicated'
  <1> SUFFICES ASSUME NEW c \in Callers, call'[c].op = "delete" PROVE call'[c].at \in DeletionAts
    BY DEF Dedicated
  <1>1. ASSUME call'[c].at = call[c].at, call'[c].op = call[c].op PROVE call'[c].at \in DeletionAts
    BY <1>1 DEF Dedicated
  <1>2. ASSUME NEW d \in Callers, Thread(d) \/ Cancel(d) \/ Unload(d) \/ Breaks(d)
        PROVE  call'[c].at \in DeletionAts
    <2>1. Alone(d)  BY <1>2, ThreadTrue, OthersTrue
    <2>2. CASE d # c  BY <1>1, <2>1, <2>2 DEF Alone
    <2>3. CASE d = c
      <3>1. call[c].op = "delete" /\ call[c].at \in DeletionAts  BY <2>1, <2>3 DEF Alone, Dedicated
      <3>2. Exclusive(c) \/ Mark(c) \/ Remove(c)  BY <1>2, <2>3, <3>1, DeletionSteps
      <3>3. call'[c].at \in Deleting \cup {"failed", "inuse", "ready"}  BY <3>2, DeletingGoes, RemoveGoes
      <3> QED BY <3>3 DEF DeletionAts, Ended
    <2> QED BY <2>2, <2>3
  <1>3. ASSUME NEW d \in Callers, NEW m \in Models, NEW op \in {"download", "load", "delete"}, Call(d, op, m)
        PROVE  call'[c].at \in DeletionAts
    <2>1. Typed  BY CallOf
    <2>2. CASE d # c  BY <1>1, <1>3, <2>1, <2>2, CalledAs
    <2>3. CASE d = c  BY <1>3, <2>1, <2>3, CalledAs DEF DeletionAts
    <2> QED BY <2>2, <2>3
  <1>4. ASSUME NEW p \in Procs, NEW a \in Files, WorkerThread(p, a) \/ WorkerBreaks(p, a)
        PROVE  call'[c].at \in DeletionAts
    BY <1>1, <1>4, WorkersTell
  <1>5. ASSUME NEW p \in Procs, Crash(p) PROVE call'[c].at \in DeletionAts
    <2>1. call'[c].op = call[c].op /\ call'[c].at \in {"failed", call[c].at}  BY <1>5, CrashTells
    <2> QED BY <1>1, <2>1 DEF DeletionAts, Ended
  <1>6. CASE UNCHANGED avars  BY <1>1, <1>6 DEF avars
  <1>7. CASE LifecycleNext
    <2>1. \/ \E d \in Callers, m \in Models, op \in {"download", "load", "delete"} : Call(d, op, m)
          \/ \E d \in Callers : Thread(d) \/ Cancel(d) \/ Unload(d) \/ Breaks(d)
          \/ \E p \in Procs : Crash(p)
          \/ \E p \in Procs, a \in Files : WorkerThread(p, a) \/ WorkerBreaks(p, a)
      BY <1>7 DEF LifecycleNext
    <2> QED BY <1>2, <1>3, <1>4, <1>5, <2>1
  <1> QED BY <1>6, <1>7

\* A deletion ends well with every private file gone, and nobody at work on one.
LEMMA DeletionTrue ==
  ASSUME LifecycleInv, Dedicated, [LifecycleNext]_avars, NEW c \in Callers, Deletes(c),
         NEW a \in PrivateOf(call[c].model)
  PROVE  whole'[a] = FALSE /\ part'[a] = "none" /\ \A p \in Procs : ~Touching(p, a)
  <1> DEFINE m == call[c].model
  <1>1. call[c].op = "delete" /\ call[c].at # "ready" /\ call'[c].at = "ready"  BY DEF Deletes
  <1>2. call[c].at \in DeletionAts  BY <1>1 DEF Dedicated
  <1>3. Exclusive(c) \/ Mark(c) \/ Remove(c)  BY <1>1, <1>2, OwnEnd, DeletionSteps
  <1>4. Remove(c)  BY <1>1, <1>3, DeletingGoes DEF Deleting
  <1>5. PICK S \in SUBSET PrivateOf(m) :
          /\ whole' = [f \in Files |-> whole[f] /\ f \notin S]
          /\ part' = [f \in Files |-> IF f \in S THEN "none" ELSE part[f]]
          /\ call'[c].at = "ready" => S = PrivateOf(m)
    BY <1>4, RemoveGoes
  <1>6. call[c].at \in Deleting /\ call[c].at # "idle"  BY <1>4 DEF Remove, Deleting
  <1>7. m \in Models  BY <1>6, CallOf
  <1>8. a \in Files  BY <1>7 DEF PrivateOf, Files
  <1>9. whole'[a] = FALSE /\ part'[a] = "none"
    <2>1. a \in S  BY <1>1, <1>5
    <2>2. whole'[a] = (whole[a] /\ a \notin S) /\ part'[a] = "none"  BY <1>5, <1>8, <2>1
    <2> HIDE DEF m
    <2> QED BY <2>1, <2>2
  <1>10. ASSUME NEW p \in Procs PROVE ~Touching(p, a)
    <2> SUFFICES ASSUME Touching(p, a) PROVE FALSE  OBVIOUS
    <2>1. xfer[p][a].at \in Working  BY DEF Touching
    <2>2. CASE My(c) = p  BY <1>4, <2>1, <2>2 DEF Remove, Drained, Working
    <2>3. CASE My(c) # p  BY <1>6, <1>8, <2>1, <2>3, WorkerExcludes
    <2> QED BY <2>2, <2>3
  <1> QED BY <1>9, <1>10

LEMMA AtFirst ==
  ASSUME LifecycleInit
  PROVE  Verified /\ Dedicated
  <1>1. \A p \in Procs, a \in Files : xfer[p][a] = NoTransfer  BY DEF LifecycleInit
  <1>2. \A c \in Callers : call[c] = NoCall  BY DEF LifecycleInit
  <1>3. NoTransfer.at = "none"  BY DEF NoTransfer
  <1>4. NoCall.op = "none"  BY NoCallRecord
  <1> HIDE DEF NoCall, NoTransfer
  <1> QED BY <1>1, <1>2, <1>3, <1>4 DEF Verified, Dedicated

LEMMA FilesSafe ==
  ASSUME LifecycleInv
  PROVE  FilesAreProtected
  <1>1. ModelsKeepFiles
    <2> SUFFICES ASSUME NEW c \in Callers, call[c].at \in Leasing \ {"verify"}
                 PROVE  AssetsReady(call[c].model)
      BY DEF ModelsKeepFiles
    <2>1. call[c].at # "idle" /\ Complete(call[c].model, whole, ready)  BY LesseeOf
    <2> QED BY <2>1, CallOf
  <1>2. FilesHaveOneWriter
    <2> SUFFICES ASSUME NEW p \in Procs, NEW a \in Files, Touching(p, a)
                 PROVE  /\ \A q \in Procs \ {p} : ~Touching(q, a)
                        /\ \A c \in Callers :
                             call[c].at \in {"reading"} \cup Leasing \cup Deleting /\ My(c) # p
                             => a \notin PrivateOf(call[c].model)
                        /\ ~xfer[p][a].stop =>
                             \E c \in Users(p, a) : a \in Shared \/ Current(c, call[c].epoch)
      BY DEF FilesHaveOneWriter
    <2>1. xfer[p][a].at \in Working  BY DEF Touching
    <2>2. \A q \in Procs \ {p} : ~Touching(q, a)  BY <2>1, WorkersExclude DEF Touching
    <2>3. \A c \in Callers : call[c].at \in {"reading"} \cup Leasing \cup Deleting /\ My(c) # p
                             => a \notin PrivateOf(call[c].model)
      BY <2>1, WorkerExcludes
    <2>4. ASSUME ~xfer[p][a].stop
          PROVE  \E c \in Users(p, a) : a \in Shared \/ Current(c, call[c].epoch)
      <3>1. xfer[p][a].at # "none" /\ TransferFits(p, a)  BY <2>1 DEF LifecycleInv, Working
      <3>2. /\ Users(p, a) # {}
            /\ a \notin Shared => \A c \in Users(p, a) : Fresh(states[p], call[c].model, call[c].epoch)
        BY <2>4, <3>1 DEF TransferFits
      <3>3. PICK c \in Users(p, a) : TRUE  BY <3>2
      <3>4. My(c) = p  BY <3>3 DEF Users
      <3>5. a \notin Shared => Current(c, call[c].epoch)
        BY <3>2, <3>3, <3>4 DEF Fresh, Current, State
      <3> QED BY <3>3, <3>5
    <2> QED BY <2>2, <2>3, <2>4
  <1> QED BY <1>1, <1>2 DEF FilesAreProtected

----------------------------------------------------------------------------
(* The theorems. *)

\* The locks of a process are counted right and in the mode of those who have
\* them, no file is read or loaded while it is written, only what was verified
\* is published, and every thread that goes on knows what it has found
\* (_FileAccess, _download and AssetLease).
THEOREM LifecycleInvariant == LifecycleSpec => [](LifecycleInv /\ Verified /\ Dedicated)
  <1>1. LifecycleInit => LifecycleInv /\ Verified /\ Dedicated  BY InitInv, AtFirst
  <1>2. LifecycleInv /\ Verified /\ Dedicated /\ [LifecycleNext]_avars
          => LifecycleInv' /\ Verified' /\ Dedicated'
    BY NextInv, VerifiedGoesOn, DedicatedGoesOn
  <1> QED BY <1>1, <1>2, PTL DEF LifecycleSpec

\* The types, the counts of the locks of each process, and that two processes
\* have a lock only as readers (_FileAccess).
THEOREM LifecycleTypeCorrect == LifecycleSpec => []LifecycleTypeOK
  <1>1. LifecycleInv => LifecycleTypeOK
    <2>1. Typed /\ LockInv => LifecycleTypeOK
      BY DEF Typed, LockInv, Counted, Count, Owner, ModelState, Exclusion, LifecycleTypeOK
    <2> QED BY <2>1 DEF LifecycleInv
  <1> QED BY <1>1, LifecycleInvariant, PTL

\* Files are safe from writers, and writers from one another, whichever
\* processes download, load and delete (the locks of _FileAccess and
\* _WriterAccess, the leases, and the deletion that waits for the writers).
THEOREM FilesProtected == LifecycleSpec => []FilesAreProtected
  <1>1. LifecycleInv => FilesAreProtected  BY FilesSafe
  <1> QED BY <1>1, LifecycleInvariant, PTL

\* A download or a load succeeds only with every file of the model, and only
\* if no deletion of this process has begun since it was asked for; a deletion
\* only with the private files and their checkpoints gone and no worker at work
\* on one (download_model, load_with_lifecycle, delete_model_assets).
THEOREM SuccessTrue == LifecycleSpec => SuccessIsTrue
  <1>1. LifecycleInv /\ Verified /\ Dedicated /\ [LifecycleNext]_avars =>
          [\A c \in Callers :
             /\ Succeeds(c) =>
                  /\ AssetsReady(call[c].model)'
                  /\ Current(c, IF call[c].op = "load" THEN call[c].outer ELSE call[c].epoch)
             /\ Deletes(c) =>
                  \A a \in PrivateOf(call[c].model) :
                    whole'[a] = FALSE /\ part'[a] = "none" /\ \A p \in Procs : ~Touching(p, a)]_avars
    BY ElsewhereTrue, DeletionTrue DEF TrueFor
  <1> QED BY <1>1, LifecycleInvariant, PTL DEF LifecycleSpec, SuccessIsTrue
=============================================================================
