---------------------------- MODULE UploadsProofs ----------------------------
(* The bytes behind a client's files, whatever the number of files, handlers *)
(* and cleanup runs.                                                         *)
EXTENDS Uploads, FiniteSetTheorems, TLAPS

\* A request reserves a file that has no row; only a file with a row is being
\* completed or removed, and only a completed one is late.
HandlersSound == \A f \in File :
    /\ f \in reserving => row[f].state = "none"
    /\ row[f].state = "none" => completing[f] = {} /\ removing[f] = "none"
    /\ row[f].state \in {"none", "pending"} => ~row[f].late

\* Unless the store was told to delete it, a version that a row names, or that
\* a completion of a pending row saw, is the one the store holds.
BytesSound == \A f \in File \ dangling :
    /\ row[f].version # 0 /\ row[f].state # "removed" => object[f] = row[f].version
    /\ row[f].state = "pending" => \A v \in completing[f] \ {0} : object[f] = v

\* Once cleaned up nothing is ready, and no completion of a pending row is left.
CleanupSound ==
    /\ job # "none" => project.archived
    /\ cleaner.running => job = "processing"
    /\ job = "completed" => \A f \in File :
          /\ row[f].state # "ready"
          /\ row[f].state = "pending" => completing[f] = {}

\* The inductive invariant.
UInv == TypeOK /\ HandlersSound /\ BytesSound /\ CleanupSound

USE UploadsAssumption

-----------------------------------------------------------------------------

LEMMA InitInvariant == Init => UInv
  BY DEF Init, UInv, TypeOK, HandlersSound, BytesSound, CleanupSound, Row, NoRow, Cleaner, NoRun

\* The versions of all keys together are at most MaxPuts, so those of one are.
LEMMA PutBounded ==
    ASSUME TypeOK, NEW f \in File,
           Cardinality({p \in File \X (1..MaxPuts) : p[2] <= puts[p[1]]}) < MaxPuts
    PROVE  puts[f] + 1 \in 0..MaxPuts
<1> DEFINE Version == 1..MaxPuts
           All == {p \in File \X Version : p[2] <= puts[p[1]]}
           Own == {f} \X Version
<1>0. puts[f] \in 0..MaxPuts /\ Cardinality(All) < MaxPuts
  BY DEF TypeOK
<1> SUFFICES ASSUME puts[f] = MaxPuts PROVE FALSE
  BY <1>0
<1>1. IsFiniteSet(Version) /\ Cardinality(Version) = MaxPuts
  BY FS_Interval
<1>2. IsFiniteSet({f}) /\ Cardinality({f}) = 1
  BY FS_Singleton
<1>3. Own \subseteq All
  OBVIOUS
<1> HIDE DEF Version
<1>4. IsFiniteSet(Own) /\ Cardinality(Own) = 1 * MaxPuts
  <2>1. IsFiniteSet(Own) /\ Cardinality(Own) = Cardinality({f}) * Cardinality(Version)
    BY <1>1, <1>2, FS_Product, Zenon
  <2>2. QED
    BY <1>1, <1>2, <2>1
<1>5. IsFiniteSet(All)
  <2>1. IsFiniteSet(File \X Version)
    BY <1>1, FS_Product
  <2>2. QED
    BY <2>1, FS_Subset
<1>6. Cardinality(Own) <= Cardinality(All)
  BY <1>3, <1>5, FS_Subset
<1>7. Cardinality(All) \in Nat
  BY <1>5, FS_CardinalityType
<1> HIDE DEF All, Own
<1>8. QED
  BY <1>0, <1>4, <1>6, <1>7

LEMMA ProjectInvariant ==
    ASSUME UInv, Advance \/ Archive \/ UNCHANGED vars PROVE UInv'
<1>1. CASE Advance
  BY <1>1 DEF Advance, UInv, TypeOK, HandlersSound, BytesSound, CleanupSound, handlers, cleanup
<1>2. CASE Archive
  BY <1>2 DEF Archive, UInv, TypeOK, HandlersSound, BytesSound, CleanupSound, handlers, cleanup
<1>3. CASE UNCHANGED vars
  BY <1>3 DEF vars, UInv, TypeOK, HandlersSound, BytesSound, CleanupSound, handlers, cleanup
<1>4. QED
  BY <1>1, <1>2, <1>3

LEMMA ReservationInvariant ==
    ASSUME UInv, NEW f \in File, RequestUpload(f) \/ Reserve(f) \/ Expire(f) PROVE UInv'
<1>1. CASE RequestUpload(f)
  BY <1>1 DEF RequestUpload, Rows, UInv, TypeOK, HandlersSound, BytesSound, CleanupSound, cleanup
<1>2. CASE Reserve(f)
  <2>1. CASE UNCHANGED <<row, live>>
    BY <1>2, <2>1 DEF Reserve, UInv, TypeOK, HandlersSound, BytesSound, CleanupSound, cleanup
  <2>2. CASE row' = [row EXCEPT ![f].state = "pending"] /\ live' = live \cup {f}
    <3>1. row'[f].state = "pending" /\ row'[f].version = row[f].version /\ row'[f].late = row[f].late
      BY <2>2 DEF UInv, TypeOK, Row
    <3>2. \A g \in File \ {f} : row'[g] = row[g]
      BY <2>2 DEF UInv, TypeOK
    <3>3. row' \in [File -> Row]
      BY <2>2 DEF UInv, TypeOK, Row
    <3>4. row[f].state = "none" /\ completing[f] = {} /\ row[f].version = 0 /\ f \in reserving
      BY <1>2 DEF Reserve, UInv, TypeOK, HandlersSound
    <3>5. TypeOK'
      BY <1>2, <2>2, <3>1, <3>2, <3>3, <3>4 DEF Reserve, UInv, TypeOK, cleanup
    <3>6. HandlersSound' /\ BytesSound' /\ CleanupSound'
      BY <1>2, <3>1, <3>2, <3>4 DEF Reserve, UInv, TypeOK, HandlersSound, BytesSound, CleanupSound, cleanup
    <3>7. QED
      BY <3>5, <3>6 DEF UInv
  <2>3. QED
    BY <1>2, <2>1, <2>2 DEF Reserve
<1>3. CASE Expire(f)
  BY <1>3 DEF Expire, UInv, TypeOK, HandlersSound, BytesSound, CleanupSound, handlers, cleanup
<1>4. QED
  BY <1>1, <1>2, <1>3

LEMMA PutInvariant == ASSUME UInv, NEW f \in File, Put(f) PROVE UInv'
<1>1. puts[f] + 1 \in 0..MaxPuts
  BY PutBounded DEF Put, UInv
<1>2. TypeOK'
  <2>1. /\ puts' \in [File -> 0..MaxPuts] /\ object' \in [File -> 0..MaxPuts]
        /\ puts'[f] = puts[f] + 1 /\ object'[f] = puts[f] + 1
        /\ \A g \in File \ {f} : puts'[g] = puts[g] /\ object'[g] = object[g]
    BY <1>1 DEF Put, UInv, TypeOK
  <2>2. \A g \in File : puts[g] \in Nat /\ puts'[g] \in Nat /\ puts[g] <= puts'[g]
    BY <2>1 DEF UInv, TypeOK
  <2>3. \A g \in File : row[g].version <= puts'[g] /\ object'[g] \in {0, puts'[g]}
    BY <2>1, <2>2 DEF UInv, TypeOK, Row
  <2>4. \A g \in File : \A v \in completing[g] : v <= puts'[g]
    BY <2>2 DEF UInv, TypeOK
  <2>5. QED
    BY <2>1, <2>3, <2>4 DEF Put, UInv, TypeOK, handlers, cleanup
<1>3. HandlersSound' /\ CleanupSound'
  BY DEF Put, UInv, HandlersSound, CleanupSound, handlers, cleanup
<1>4. BytesSound'
  <2>1. object[f] = 0 /\ \A g \in File \ {f} : object'[g] = object[g]
    BY DEF Put, UInv, TypeOK
  <2>2. UNCHANGED <<row, completing, dangling>>
    BY DEF Put, handlers
  <2>3. row[f].version \in Nat /\ completing[f] \subseteq Nat
    BY DEF UInv, TypeOK, Row
  <2>4. SUFFICES ASSUME NEW g \in File \ dangling
                 PROVE  /\ row[g].version # 0 /\ row[g].state # "removed" => object'[g] = row[g].version
                        /\ row[g].state = "pending" => \A v \in completing[g] \ {0} : object'[g] = v
    BY <2>2 DEF BytesSound
  <2>5. QED
    BY <2>1, <2>3 DEF UInv, BytesSound
<1>5. QED
  BY <1>2, <1>3, <1>4 DEF UInv

\* Completions that do not write the row.
LEMMA InspectionInvariant ==
    ASSUME UInv, NEW f \in File, BeginComplete(f) \/ Inspect(f) \/ GiveUp(f) PROVE UInv'
<1>1. CASE BeginComplete(f)
  BY <1>1 DEF BeginComplete, MayUpload, Pending, UInv, TypeOK, HandlersSound, BytesSound, CleanupSound, cleanup
<1>2. CASE Inspect(f)
  <2>1. TypeOK'
    BY <1>2 DEF Inspect, UInv, TypeOK, cleanup
  <2>2. HandlersSound' /\ BytesSound' /\ CleanupSound'
    BY <1>2 DEF Inspect, UInv, TypeOK, HandlersSound, BytesSound, CleanupSound, cleanup
  <2>3. QED
    BY <2>1, <2>2 DEF UInv
<1>3. CASE GiveUp(f)
  BY <1>3 DEF GiveUp, UInv, TypeOK, HandlersSound, BytesSound, CleanupSound, cleanup
<1>4. QED
  BY <1>1, <1>2, <1>3

\* One row written by a completion that saw version v.
LEMMA RowWritten ==
    ASSUME UInv, NEW f \in File, NEW v \in completing[f] \ {0}, NEW r \in Row,
           row' = [row EXCEPT ![f] = r],
           completing' = [completing EXCEPT ![f] = @ \ {v}],
           UNCHANGED <<project, live, object, puts, reserving, removing, dangling, cleanup>>,
           \/ r = row[f]
           \/ row[f].state = "pending" /\ r.state = "ready" /\ r.version = v
           \/ row[f].state = "pending" /\ r.state = "rejected" /\ r.version = 0
    PROVE  UInv'
<1>1. row'[f] = r /\ completing'[f] = completing[f] \ {v}
  BY DEF UInv, TypeOK
<1>2. \A g \in File \ {f} : row'[g] = row[g] /\ completing'[g] = completing[g]
  BY DEF UInv, TypeOK
<1>3. v \in 1..MaxPuts /\ v <= puts[f]
  BY DEF UInv, TypeOK
<1>4. row' \in [File -> Row] /\ completing' \in [File -> SUBSET (0..MaxPuts)]
  BY DEF UInv, TypeOK
<1>5. row[f].state # "none"
  BY DEF UInv, HandlersSound
<1>6. TypeOK'
  BY <1>1, <1>2, <1>3, <1>4 DEF UInv, TypeOK, cleanup
<1>7. HandlersSound'
  BY <1>1, <1>2, <1>5 DEF UInv, HandlersSound
<1>8. BytesSound'
  BY <1>1, <1>2 DEF UInv, BytesSound
<1>9. CleanupSound'
  BY <1>1, <1>2 DEF UInv, CleanupSound, cleanup
<1>10. QED
  BY <1>6, <1>7, <1>8, <1>9 DEF UInv

LEMMA CompleteInvariant == ASSUME UInv, NEW f \in File, Complete(f) \/ Reject(f) PROVE UInv'
<1>1. CASE Complete(f)
  <2>1. PICK v \in completing[f] \ {0} : /\ row' = [row EXCEPT ![f] = Completed(f, v)]
                                         /\ completing' = [completing EXCEPT ![f] = @ \ {v}]
    BY <1>1 DEF Complete
  <2>2. v \in 0..MaxPuts
    BY DEF UInv, TypeOK
  <2>3. Completed(f, v) \in Row
    BY <2>2 DEF Completed, UInv, TypeOK, Row
  <2>4. \/ Completed(f, v) = row[f]
        \/ /\ row[f].state = "pending" /\ Completed(f, v).state = "ready"
           /\ Completed(f, v).version = v
    BY DEF Completed, Pending
  <2>5. QED
    BY <1>1, <2>1, <2>3, <2>4, RowWritten DEF Complete
<1>2. CASE Reject(f)
  <2>1. PICK v \in completing[f] \ {0} : completing' = [completing EXCEPT ![f] = @ \ {v}]
    BY <1>2 DEF Reject
  <2>2. row[f] \in Row
    BY DEF UInv, TypeOK
  <2>3. CASE f \in Pending
    <3> DEFINE r == [row[f] EXCEPT !.state = "rejected"]
    <3>1. r \in Row /\ r.state = "rejected" /\ r.version = 0 /\ row[f].state = "pending"
      BY <2>2, <2>3 DEF UInv, TypeOK, Row, Pending
    <3>2. row' = [row EXCEPT ![f] = r]
      BY <1>2, <2>3 DEF Reject
    <3> HIDE DEF r
    <3>3. QED
      BY <1>2, <2>1, <3>1, <3>2, RowWritten DEF Reject
  <2>4. CASE f \notin Pending
    <3>1. row' = [row EXCEPT ![f] = row[f]]
      BY <1>2, <2>4 DEF Reject, UInv, TypeOK
    <3>2. QED
      BY <1>2, <2>1, <2>2, <3>1, RowWritten DEF Reject
  <2>5. QED
    BY <2>3, <2>4
<1>3. QED
  BY <1>1, <1>2

LEMMA RemovalInvariant ==
    ASSUME UInv, NEW f \in File,
           BeginRemove(f) \/ DeleteObject(f) \/ CommitRemove(f) \/ FailRemove(f)
    PROVE  UInv'
<1>1. CASE BeginRemove(f)
  BY <1>1 DEF BeginRemove, Pending, Ready, UInv, TypeOK, HandlersSound, BytesSound, CleanupSound, cleanup
<1>2. CASE DeleteObject(f)
  <2>1. TypeOK'
    BY <1>2 DEF DeleteObject, UInv, TypeOK, cleanup
  <2>2. HandlersSound' /\ BytesSound' /\ CleanupSound'
    BY <1>2 DEF DeleteObject, UInv, TypeOK, HandlersSound, BytesSound, CleanupSound, cleanup
  <2>3. QED
    BY <2>1, <2>2 DEF UInv
<1>3. CASE CommitRemove(f)
  <2>1. row' \in [File -> Row] /\ row'[f].state = "removed" /\ row'[f].version = row[f].version
    BY <1>3 DEF CommitRemove, UInv, TypeOK, Row
  <2>2. \A g \in File \ {f} : row'[g] = row[g]
    BY <1>3 DEF CommitRemove, UInv, TypeOK
  <2>3. row[f].state # "none"
    BY <1>3 DEF CommitRemove, UInv, HandlersSound
  <2>4. TypeOK'
    BY <1>3, <2>1, <2>2 DEF CommitRemove, UInv, TypeOK, cleanup
  <2>5. HandlersSound' /\ BytesSound' /\ CleanupSound'
    BY <1>3, <2>1, <2>2, <2>3 DEF CommitRemove, UInv, TypeOK, HandlersSound, BytesSound, CleanupSound, cleanup
  <2>6. QED
    BY <2>4, <2>5 DEF UInv
<1>4. CASE FailRemove(f)
  BY <1>4 DEF FailRemove, UInv, TypeOK, HandlersSound, BytesSound, CleanupSound, cleanup
<1>5. QED
  BY <1>1, <1>2, <1>3, <1>4

LEMMA CleanInvariant == ASSUME UInv, Clean PROVE UInv'
<1>1. CASE Claim
  BY <1>1 DEF Claim, Selectable, Rows, Cleaner, UInv, TypeOK, HandlersSound, BytesSound, CleanupSound, handlers
<1>2. ASSUME NEW f \in File, DeleteNext(f) PROVE UInv'
  <2>1. cleaner' \in Cleaner /\ cleaner'.running = cleaner.running
    BY <1>2 DEF DeleteNext, UInv, TypeOK, Cleaner
  <2>2. TypeOK'
    BY <1>2, <2>1 DEF DeleteNext, UInv, TypeOK, handlers
  <2>3. HandlersSound' /\ BytesSound' /\ CleanupSound'
    BY <1>2, <2>1 DEF DeleteNext, UInv, TypeOK, HandlersSound, BytesSound, CleanupSound, handlers
  <2>4. QED
    BY <2>2, <2>3 DEF UInv
<1>3. CASE CommitCleanup
  <2>1. \A f \in File : row'[f] = Cleaned(f)
    BY <1>3 DEF CommitCleanup
  <2>2. \A f \in File :
           /\ Cleaned(f) \in Row /\ Cleaned(f).version = row[f].version
           /\ row[f].state = "none" => Cleaned(f) = row[f]
           /\ row[f].state # "none" => Cleaned(f).state = "removed"
    BY DEF Cleaned, Rows, UInv, TypeOK, Row
  <2>3. row' \in [File -> Row]
    BY <1>3, <2>2 DEF CommitCleanup
  <2>4. TypeOK'
    BY <1>3, <2>1, <2>2, <2>3 DEF CommitCleanup, UInv, TypeOK, handlers, NoRun, Cleaner
  <2>5. HandlersSound'
    BY <1>3, <2>1, <2>2 DEF CommitCleanup, UInv, HandlersSound, handlers
  <2>6. BytesSound'
    BY <1>3, <2>1, <2>2 DEF CommitCleanup, UInv, TypeOK, BytesSound, Rows, handlers
  <2>7. CleanupSound'
    BY <1>3, <2>1, <2>2 DEF CommitCleanup, UInv, CleanupSound, handlers, NoRun
  <2>8. QED
    BY <2>4, <2>5, <2>6, <2>7 DEF UInv
<1>4. CASE FailCleanup
  BY <1>4 DEF FailCleanup, NoRun, Cleaner, UInv, TypeOK, HandlersSound, BytesSound, CleanupSound, handlers
<1>5. CASE CrashCleanup
  BY <1>5 DEF CrashCleanup, NoRun, Cleaner, UInv, TypeOK, HandlersSound, BytesSound, CleanupSound, handlers
<1>6. QED
  BY <1>1, <1>2, <1>3, <1>4, <1>5 DEF Clean, Delete

LEMMA NextInvariant == UInv /\ [Next]_vars => UInv'
<1> SUFFICES ASSUME UInv, [Next]_vars PROVE UInv'
  OBVIOUS
<1>1. CASE Browse
  BY <1>1, ReservationInvariant, PutInvariant, InspectionInvariant, CompleteInvariant,
     RemovalInvariant DEF Browse
<1>2. QED
  BY <1>1, ProjectInvariant, CleanInvariant DEF Next

\* The inductive invariant holds in every behaviour of the files.
THEOREM UploadsInvariant == Spec => []UInv
<1>1. QED
  BY InitInvariant, NextInvariant, PTL DEF Spec

\* Type correctness, for any files, limits and bounds.
THEOREM UploadsTypeOK == Spec => []TypeOK
<1>1. UInv => TypeOK
  BY DEF UInv
<1>2. QED
  BY <1>1, UploadsInvariant, PTL

\* remove_brief_file, complete_upload, cleanup: the bytes of a downloadable
\* file are missing only between a deletion and its commit, or after the
\* commit was lost.
THEOREM UploadsOnlyDeletedIsMissing == Spec => []OnlyDeletedIsMissing
<1>1. UInv => OnlyDeletedIsMissing
  BY DEF UInv, TypeOK, BytesSound, OnlyDeletedIsMissing, ReadyWithoutVersion, Ready,
     MissingReferences, References, Inaccessible
<1>2. QED
  BY <1>1, UploadsInvariant, PTL

\* cleanup_archived_project_storage: nothing is ready after it, for good.
THEOREM UploadsCleanedForGood == Spec => []CleanedForGood
<1>1. UInv => CleanedForGood
  BY DEF UInv, CleanupSound, CleanedForGood, Ready
<1>2. QED
  BY <1>1, UploadsInvariant, PTL

-----------------------------------------------------------------------------
(* How a row moves *)

\* A new reservation writes its row, and only its row.
Reserves(f) == /\ row[f].state = "none" /\ row'[f].state = "pending"
               /\ f \in Reference => Cardinality(ActiveReferences) < Limit
               /\ \A g \in File \ {f} : row'[g] = row[g] /\ (g \in live' => g \in live)

\* Any other step completes, rejects or removes rows, and extends no reservation.
Settles(f) == /\ f \in live' => f \in live
              /\ \/ row'[f] = row[f]
                 \/ row'[f].state = "removed"
                 \/ row[f].state = "pending" /\ row'[f].state = "rejected"
                 \/ row[f].state = "pending" /\ row'[f].state = "ready" /\ (f \in live \/ row'[f].late)

LEMMA ActiveFinite == IsFiniteSet(ActiveReferences) /\ Cardinality(ActiveReferences) \in Nat
<1>1. IsFiniteSet(ActiveReferences)
  BY FS_Subset DEF ActiveReferences
<1>2. QED
  BY <1>1, FS_CardinalityType

LEMMA RowMoves ==
    ASSUME UInv, [Next]_vars
    PROVE  (\E f \in File : Reserves(f)) \/ (\A f \in File : Settles(f))
<1> USE DEF UInv, TypeOK, Settles
<1>1. CASE UNCHANGED row /\ live' \subseteq live
  BY <1>1
<1>2. ASSUME NEW f \in File, Reserve(f) PROVE Reserves(f) \/ \A g \in File : Settles(g)
  <2>1. row[f].state = "none" /\ row[f] \in Row
    BY <1>2 DEF Reserve, HandlersSound
  <2>2. CASE f \in Reference /\ Cardinality(ActiveReferences) >= Limit
    BY <1>1, <1>2, <2>2 DEF Reserve
  <2>3. CASE ~(f \in Reference /\ Cardinality(ActiveReferences) >= Limit)
    <3>1. row' = [row EXCEPT ![f].state = "pending"] /\ live' = live \cup {f}
      BY <1>2, <2>3 DEF Reserve
    <3>2. f \in Reference => Cardinality(ActiveReferences) < Limit
      BY <2>3, ActiveFinite
    <3>3. row'[f].state = "pending" /\ \A g \in File \ {f} : row'[g] = row[g]
      BY <2>1, <3>1 DEF Row
    <3>4. QED
      BY <2>1, <3>1, <3>2, <3>3 DEF Reserves
  <2>4. QED
    BY <2>2, <2>3
<1>3. ASSUME NEW f \in File, Complete(f) PROVE \A g \in File : Settles(g)
  <2>1. PICK v \in completing[f] \ {0} : row' = [row EXCEPT ![f] = Completed(f, v)]
    BY <1>3 DEF Complete
  <2>2. live' = live /\ row'[f] = Completed(f, v) /\ \A g \in File \ {f} : row'[g] = row[g]
    BY <1>3, <2>1 DEF Complete
  <2>3. Settles(f)
    <3>1. CASE f \in Pending
      <4>1. Completed(f, v).state = "ready" /\ (Completed(f, v).late <=> f \notin live)
        BY <3>1 DEF Completed
      <4>2. row[f].state = "pending"
        BY <3>1 DEF Pending
      <4>3. QED
        BY <2>2, <4>1, <4>2
    <3>2. CASE f \notin Pending
      BY <2>2, <3>2 DEF Completed
    <3>3. QED
      BY <3>1, <3>2
  <2>4. QED
    BY <2>2, <2>3
<1>4. ASSUME NEW f \in File, Reject(f) PROVE \A g \in File : Settles(g)
  <2>1. row[f] \in Row
    OBVIOUS
  <2>2. CASE f \in Pending
    BY <1>4, <2>1, <2>2 DEF Reject, Pending, Row
  <2>3. CASE f \notin Pending
    BY <1>1, <1>4, <2>3 DEF Reject
  <2>4. QED
    BY <2>2, <2>3
<1>5. ASSUME NEW f \in File, CommitRemove(f) PROVE \A g \in File : Settles(g)
  BY <1>5 DEF CommitRemove, Row
<1>6. CASE CommitCleanup
  BY <1>6 DEF CommitCleanup, Cleaned, Row
<1>7. CASE Browse
  <2>1. PICK f \in File :
       \/ RequestUpload(f) \/ Reserve(f) \/ Expire(f) \/ Put(f)
       \/ BeginComplete(f) \/ Inspect(f) \/ GiveUp(f) \/ Complete(f) \/ Reject(f)
       \/ BeginRemove(f) \/ DeleteObject(f) \/ CommitRemove(f) \/ FailRemove(f)
    BY <1>7 DEF Browse
  <2>2. CASE Reserve(f) \/ Complete(f) \/ Reject(f) \/ CommitRemove(f)
    BY <1>2, <1>3, <1>4, <1>5, <2>2
  <2>3. CASE ~(Reserve(f) \/ Complete(f) \/ Reject(f) \/ CommitRemove(f))
    <3>1. UNCHANGED row /\ live' \subseteq live
      BY <2>1, <2>3 DEF RequestUpload, Expire, Put, BeginComplete, Inspect, GiveUp,
                        BeginRemove, DeleteObject, FailRemove
    <3>2. QED
      BY <1>1, <3>1
  <2>4. QED
    BY <2>2, <2>3
<1>8. CASE ~Browse /\ ~CommitCleanup
  <2>1. UNCHANGED row /\ live' \subseteq live
    BY <1>8 DEF Next, vars, Advance, Archive, Clean, Claim, Delete, DeleteNext, FailCleanup, CrashCleanup
  <2>2. QED
    BY <1>1, <2>1
<1>9. QED
  BY <1>6, <1>7, <1>8

\* complete_upload, remove_brief_file: a removed or rejected row stays so.
THEOREM UploadsRemovedIsFinal == Spec => RemovedIsFinal
<1> DEFINE Act == \A f \in File : row[f].state \in {"rejected", "removed"} =>
                     row'[f].state \in {row[f].state, "removed"}
<1>1. UInv /\ [Next]_vars => [Act]_vars
  <2> SUFFICES ASSUME UInv, [Next]_vars, NEW f \in File, row[f].state \in {"rejected", "removed"}
               PROVE  row'[f].state \in {row[f].state, "removed"}
    OBVIOUS
  <2>1. CASE \E g \in File : Reserves(g)
    BY <2>1 DEF Reserves
  <2>2. CASE \A g \in File : Settles(g)
    BY <2>2 DEF Settles
  <2>3. QED
    BY <2>1, <2>2, RowMoves
<1>2. QED
  BY <1>1, UploadsInvariant, PTL DEF Spec, RemovedIsFinal

-----------------------------------------------------------------------------
(* The limit *)

\* What ReferencesAreLimited counts.
Counted == {f \in ActiveReferences : ~row[f].late}

LEMMA CountedFinite ==
    /\ IsFiniteSet(Counted) /\ Cardinality(Counted) \in Nat
    /\ Cardinality(Counted) <= Cardinality(ActiveReferences)
<1>1. Counted \subseteq ActiveReferences
  BY DEF Counted
<1>2. IsFiniteSet(Counted) /\ Cardinality(Counted) <= Cardinality(ActiveReferences)
  BY <1>1, ActiveFinite, FS_Subset
<1>3. QED
  BY <1>2, FS_CardinalityType

LEMMA LimitedNext ==
    ASSUME UInv, [Next]_vars, Cardinality(Counted) <= Limit
    PROVE  Cardinality(Counted') <= Limit
<1>1. IsFiniteSet(Counted) /\ Cardinality(Counted) \in Nat /\ Limit \in Nat
  BY CountedFinite
<1>2. CASE \A f \in File : Settles(f)
  <2>1. Counted' \subseteq Counted
    BY <1>2 DEF Counted, ActiveReferences, Settles, UInv, HandlersSound
  <2>2. IsFiniteSet(Counted') /\ Cardinality(Counted') <= Cardinality(Counted)
    BY <1>1, <2>1, FS_Subset
  <2>3. Cardinality(Counted') \in Nat
    BY <2>2, FS_CardinalityType
  <2>4. QED
    BY <1>1, <2>2, <2>3
<1>3. ASSUME NEW f \in File, Reserves(f) PROVE Cardinality(Counted') <= Limit
  <2>1. CASE f \notin Reference
    <3>1. Counted' \subseteq Counted
      BY <1>3, <2>1 DEF Counted, ActiveReferences, Reserves
    <3>2. IsFiniteSet(Counted') /\ Cardinality(Counted') <= Cardinality(Counted)
      BY <1>1, <3>1, FS_Subset
    <3>3. Cardinality(Counted') \in Nat
      BY <3>2, FS_CardinalityType
    <3>4. QED
      BY <1>1, <3>2, <3>3
  <2>2. CASE f \in Reference
    <3>1. Counted' \subseteq Counted \cup {f}
      BY <1>3 DEF Counted, ActiveReferences, Reserves
    <3>2. IsFiniteSet(Counted \cup {f}) /\ Cardinality(Counted \cup {f}) <= Cardinality(Counted) + 1
      <4>1. /\ IsFiniteSet(Counted \cup {f})
            /\ Cardinality(Counted \cup {f}) =
                  IF f \in Counted THEN Cardinality(Counted) ELSE Cardinality(Counted) + 1
        BY <1>1, FS_AddElement
      <4>2. QED
        BY <1>1, <4>1
    <3>3. IsFiniteSet(Counted') /\ Cardinality(Counted') <= Cardinality(Counted \cup {f})
      BY <3>1, <3>2, FS_Subset
    <3>4. Cardinality(Counted') \in Nat /\ Cardinality(Counted \cup {f}) \in Nat
      BY <3>2, <3>3, FS_CardinalityType
    <3>5. Cardinality(Counted) + 1 <= Limit
      BY <1>1, <1>3, <2>2, ActiveFinite, CountedFinite DEF Reserves
    <3>6. QED
      BY <1>1, <3>2, <3>3, <3>4, <3>5
  <2>3. QED
    BY <2>1, <2>2
<1>4. QED
  BY <1>2, <1>3, RowMoves

\* request_upload: the limit on references, for any number of concurrent
\* requests, completions, removals and expiries.
THEOREM UploadsReferencesAreLimited == Spec => []ReferencesAreLimited
<1>1. Init => Cardinality(Counted) <= Limit
  <2> SUFFICES ASSUME Init PROVE Cardinality(Counted) <= Limit
    OBVIOUS
  <2>1. Counted = {}
    BY DEF Init, Counted, ActiveReferences, NoRow
  <2>2. QED
    BY <2>1, FS_EmptySet
<1>2. Cardinality(Counted) <= Limit /\ UInv /\ [Next]_vars => (Cardinality(Counted) <= Limit)'
  BY LimitedNext
<1>3. Cardinality(Counted) <= Limit <=> ReferencesAreLimited
  BY DEF Counted, ReferencesAreLimited
<1>4. QED
  BY <1>1, <1>2, <1>3, UploadsInvariant, PTL DEF Spec

=============================================================================
