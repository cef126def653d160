---------------------------- MODULE ReviewProofs ----------------------------
(* Review keeps versions, requests, status and credit consistent, whatever   *)
(* the number of editors, uploads, versions and reassignments.               *)
EXTENDS DeliveryReconciliation, FiniteSetTheorems, TLAPS

\* The open assignment is the last, and versions were made by somebody under
\* one of them.
TermsSound ==
    /\ holder # None => term > 0 /\ editorOf[term] = holder
    /\ \A f \in File : files[f].number > 0 => files[f].term <= term /\ files[f].uploader # None

\* Versions to come have no request.
FutureSound == \A v \in 1..MaxVersions : v > made => revision[v] = "none"

\* The inductive invariant.
RInv ==
    /\ TypeOK
    /\ TermsSound
    /\ FutureSound
    /\ VersionsAreAttributed
    /\ RevisionsMatchVersions
    /\ StatusMatchesReview
    /\ AuthorIsCredited
    /\ OnlyDeletionLeavesReview

\* What a step that makes no version, request or assignment keeps.
Kept ==
    /\ UNCHANGED <<made, revision, acceptance, credit, holder, term, editorOf>>
    /\ \A f \in File : files[f].number > 0 => files'[f] = files[f]
    /\ \A f \in File : files[f].number = 0 => files'[f].number = 0 /\ files'[f].state # "ready"

LEMMA InitInvariant == Init => RInv
<1> SUFFICES ASSUME Init PROVE RInv
  OBVIOUS
<1>1. Returned = {}
  BY DEF Init, Returned
<1>2. TypeOK
  <2>1. files \in [File -> FileRow]
    BY ReviewAssumption DEF Init, FileRow
  <2>2. /\ editorOf \in [1..MaxTerm -> Editor \cup {None}]
        /\ revision \in [1..MaxVersions -> {"none", "requested", "addressed"}]
        /\ checking \in [File -> Statuses \cup {"none"}]
    <3>1. /\ editorOf = [t \in 1..MaxTerm |-> None]
          /\ revision = [v \in 1..MaxVersions |-> "none"]
          /\ checking = [f \in File |-> "none"]
      BY DEF Init
    <3>2. editorOf \in [1..MaxTerm -> Editor \cup {None}]
      BY <3>1
    <3>3. revision \in [1..MaxVersions -> {"none", "requested", "addressed"}]
      BY <3>1
    <3>4. checking \in [File -> Statuses \cup {"none"}]
      BY <3>1
    <3>5. QED
      BY <3>2, <3>3, <3>4
  <2>3. /\ status \in Statuses /\ holder \in Editor \cup {None} /\ gone \in SUBSET Editor
        /\ credit \in SUBSET Editor /\ archived \in BOOLEAN
        /\ term = 0 /\ made = 0 /\ acceptance = 0
    BY DEF Init, Statuses
  <2>4. QED
    BY <2>1, <2>2, <2>3, ReviewAssumption DEF TypeOK
<1>3. TermsSound /\ FutureSound /\ VersionsAreAttributed
  BY DEF Init, TermsSound, FutureSound, VersionsAreAttributed
<1>4. RevisionsMatchVersions
  BY <1>1, FS_EmptySet, ReviewAssumption DEF Init, RevisionsMatchVersions
<1>5. StatusMatchesReview /\ AuthorIsCredited /\ OnlyDeletionLeavesReview
  BY DEF Init, StatusMatchesReview, AuthorIsCredited, OnlyDeletionLeavesReview, Revising
<1>6. QED
  BY <1>2, <1>3, <1>4, <1>5 DEF RInv

-----------------------------------------------------------------------------
(* Steps that only move the status or an unsubmitted upload *)

\* The authors of versions are fixed.
LEMMA AuthorsKept ==
    ASSUME RInv, NEW v \in Nat \ {0},
           \A f \in File : files[f].number > 0 => files'[f] = files[f],
           \A f \in File : files[f].number = 0 => files'[f].number # v,
           \A t \in 1..term : editorOf'[t] = editorOf[t]
    PROVE  Author(v)' = Author(v)
<1>1. \A f \in File : files[f].number \in Nat /\ files[f].term \in Nat
  BY ReviewAssumption DEF RInv, TypeOK, FileRow
<1>2. \A f \in File : files'[f].number = v <=> files[f].number = v
  BY <1>1
<1>3. \A f \in File : files[f].number = v =>
          editorOf'[files'[f].term] = editorOf[files[f].term]
  <2> SUFFICES ASSUME NEW f \in File, files[f].number = v
               PROVE  editorOf'[files'[f].term] = editorOf[files[f].term]
    OBVIOUS
  <2>1. files'[f] = files[f] /\ files[f].term \in 1..term
    BY <1>1 DEF RInv, TermsSound, VersionsAreAttributed, TypeOK
  <2>2. QED
    BY <2>1
<1>4. QED
  BY <1>2, <1>3 DEF Author

\* A step of the Kept kind keeps what does not speak of the status.
LEMMA KeptInvariant ==
    ASSUME RInv, Kept
    PROVE  /\ TermsSound' /\ FutureSound' /\ VersionsAreAttributed' /\ RevisionsMatchVersions'
           /\ AuthorIsCredited'
<1>1. \A f \in File : files[f].number \in Nat /\ files[f].state \in {"none", "pending", "ready", "rejected"}
  BY ReviewAssumption DEF RInv, TypeOK, FileRow
<1>2. TermsSound'
  BY <1>1 DEF RInv, TermsSound, Kept
<1>3. FutureSound'
  BY DEF RInv, FutureSound, Kept
<1>4. VersionsAreAttributed'
  BY <1>1 DEF RInv, VersionsAreAttributed, Kept
<1>5. RevisionsMatchVersions'
  <2>1. Returned' = Returned
    BY DEF Returned, Kept
  <2>2. \A n \in 1..made : \E f \in File : files'[f].number = n
    <3> SUFFICES ASSUME NEW n \in 1..made PROVE \E f \in File : files'[f].number = n
      OBVIOUS
    <3>1. PICK f \in File : files[f].number = n
      BY DEF RInv, RevisionsMatchVersions
    <3>2. files[f].number > 0
      BY <3>1
    <3>3. QED
      BY <3>1, <3>2 DEF Kept
  <2>3. \A f \in File : files'[f].number = 1 => files'[f].category = "draft"
    BY <1>1 DEF RInv, RevisionsMatchVersions, Kept
  <2>4. QED
    BY <2>1, <2>2, <2>3 DEF RInv, RevisionsMatchVersions, Kept
<1>6. AuthorIsCredited'
  <2>1. acceptance > 0 => Author(acceptance)' = Author(acceptance)
    <3> SUFFICES ASSUME acceptance > 0 PROVE Author(acceptance)' = Author(acceptance)
      OBVIOUS
    <3>1. acceptance \in Nat \ {0} /\ acceptance' = acceptance
      BY ReviewAssumption DEF RInv, TypeOK, Kept
    <3>2. \A f \in File : files[f].number = 0 => files'[f].number # acceptance
      BY <3>1 DEF Kept
    <3>3. \A t \in 1..term : editorOf'[t] = editorOf[t]
      BY DEF Kept
    <3>4. \A f \in File : files[f].number > 0 => files'[f] = files[f]
      BY DEF Kept
    <3> DEFINE v == acceptance
    <3>5. v \in Nat \ {0}
      BY <3>1
    <3> QED
      <4>1. {editorOf'[files'[f].term] : f \in {g \in File : files'[g].number = v}}
            = {editorOf[files[f].term] : f \in {g \in File : files[g].number = v}}
        BY <3>1, <3>2, <3>3, <3>4, <1>1, AuthorsKept DEF Author
      <4>2. QED
        BY <4>1, <3>1 DEF Author
  <2>2. QED
    BY <2>1 DEF RInv, AuthorIsCredited, Kept
<1>7. QED
  BY <1>2, <1>3, <1>4, <1>5, <1>6

\* The status may stay, or move on from a status the editor starts from.
LEMMA StartedInvariant ==
    ASSUME RInv, Open, Kept, UNCHANGED gone,
           status' = status \/ (status \in DOMAIN Started /\ status' = Started[status])
    PROVE  StatusMatchesReview' /\ OnlyDeletionLeavesReview' /\ status' \in Statuses
<1>1. \/ status' = status
      \/ status \in {"editor_assigned", "editing"} /\ status' = "editing"
      \/ status \in Revising /\ status' = "revision_in_progress"
  BY DEF Started, Revising
<1>2. status' \in Statuses
  BY <1>1 DEF RInv, TypeOK, Statuses
<1>3. StatusMatchesReview'
  BY <1>1 DEF RInv, StatusMatchesReview, Kept, Revising
<1>4. OnlyDeletionLeavesReview'
  BY <1>1 DEF RInv, OnlyDeletionLeavesReview, Kept, Revising
<1>5. QED
  BY <1>2, <1>3, <1>4

LEMMA StartInvariant ==
    ASSUME RInv, NEW e \in Editor, Start(e)
    PROVE  RInv'
<1>1. Kept
  <2>1. \A f \in File : files[f].number = 0 => files[f].state # "ready"
    BY DEF RInv, VersionsAreAttributed
  <2>2. QED
    BY <2>1 DEF Start, staff, Kept
<1>2. StatusMatchesReview' /\ OnlyDeletionLeavesReview' /\ status' \in Statuses
  BY <1>1, StartedInvariant DEF Start, staff
<1>3. TypeOK'
  BY <1>2 DEF Start, staff, RInv, TypeOK
<1>4. QED
  BY <1>1, <1>2, <1>3, KeptInvariant DEF RInv

\* Uploads change nothing of the review until they are submitted.
LEMMA UploadInvariant ==
    ASSUME RInv, UNCHANGED <<review, staff, archived>>, Kept,
           files' \in [File -> FileRow], checking' \in [File -> Statuses \cup {"none"}]
    PROVE  RInv'
<1>1. TypeOK'
  BY DEF RInv, TypeOK, review, staff
<1>2. StatusMatchesReview' /\ OnlyDeletionLeavesReview'
  BY DEF RInv, StatusMatchesReview, OnlyDeletionLeavesReview, review, staff
<1>3. QED
  BY <1>1, <1>2, KeptInvariant DEF RInv

\* Writing one upload that is not a version yet.
LEMMA UploadWritten ==
    ASSUME RInv, UNCHANGED <<review, staff>>, NEW f \in File, NEW row \in FileRow,
           files[f].state # "ready", row.number = files[f].number, row.state # "ready",
           files' = [files EXCEPT ![f] = row]
    PROVE  Kept /\ files' \in [File -> FileRow]
<1>1. files[f].number = 0
  BY ReviewAssumption DEF RInv, VersionsAreAttributed, TypeOK, FileRow
<1>2. files' \in [File -> FileRow]
  BY DEF RInv, TypeOK
<1>3. \A g \in File : g # f => files'[g] = files[g]
  BY DEF RInv, TypeOK
<1>4. files'[f] = row
  BY DEF RInv, TypeOK
<1>5. \A g \in File : files[g].number = 0 => files[g].state # "ready"
  BY DEF RInv, VersionsAreAttributed
<1>6. QED
  BY <1>1, <1>2, <1>3, <1>4, <1>5 DEF Kept, review, staff

\* Nothing written at all.
LEMMA UploadsSame ==
    ASSUME RInv, UNCHANGED <<review, staff, files>>
    PROVE  Kept /\ files' \in [File -> FileRow]
<1>1. \A g \in File : files[g].number = 0 => files[g].state # "ready"
  BY DEF RInv, VersionsAreAttributed
<1>2. QED
  BY <1>1 DEF Kept, review, staff, RInv, TypeOK

LEMMA RequestUploadInvariant ==
    ASSUME RInv, NEW e \in Editor, NEW f \in File, NEW category \in {"draft", "final"},
           RequestUpload(e, f, category)
    PROVE  RInv'
<1> DEFINE row == [files[f] EXCEPT !.state = "pending", !.uploader = e, !.category = category]
<1>1. files' = [files EXCEPT ![f] = row] /\ UNCHANGED <<review, staff, checking, archived>>
  BY DEF RequestUpload
<1>2. files[f] \in FileRow /\ files[f].state = "none"
  BY DEF RInv, TypeOK, RequestUpload
<1>3. row \in FileRow /\ row.number = files[f].number /\ row.state = "pending"
  BY <1>2 DEF FileRow
<1> HIDE DEF row
<1>4. Kept /\ files' \in [File -> FileRow]
  BY <1>1, <1>2, <1>3, UploadWritten
<1>5. QED
  BY <1>1, <1>4, UploadInvariant DEF RInv, TypeOK

LEMMA RejectUploadInvariant ==
    ASSUME RInv, NEW f \in File, RejectUpload(f)
    PROVE  RInv'
<1>1. UNCHANGED <<review, staff, archived>> /\ checking' \in [File -> Statuses \cup {"none"}]
  BY DEF RejectUpload, RInv, TypeOK
<1>2. CASE files[f].state = "pending"
  <2> DEFINE row == [files[f] EXCEPT !.state = "rejected"]
  <2>1. files' = [files EXCEPT ![f] = row]
    BY <1>2 DEF RejectUpload
  <2>2. files[f] \in FileRow
    BY DEF RInv, TypeOK
  <2>3. row \in FileRow /\ row.number = files[f].number /\ row.state = "rejected"
    BY <2>2 DEF FileRow
  <2> HIDE DEF row
  <2>4. Kept /\ files' \in [File -> FileRow]
    BY <1>1, <1>2, <2>1, <2>3, UploadWritten
  <2>5. QED
    BY <1>1, <2>4, UploadInvariant
<1>3. CASE files[f].state # "pending"
  BY <1>1, <1>3, UploadsSame, UploadInvariant DEF RejectUpload
<1>4. QED
  BY <1>2, <1>3

LEMMA CheckingInvariant ==
    ASSUME RInv, NEW f \in File, BeginComplete(f) \/ AbandonUpload(f)
    PROVE  RInv'
<1>1. UNCHANGED <<review, staff, files, archived>>
  BY DEF BeginComplete, AbandonUpload
<1>2. checking' \in [File -> Statuses \cup {"none"}]
  BY DEF RInv, TypeOK, BeginComplete, AbandonUpload
<1>3. QED
  BY <1>1, <1>2, UploadsSame, UploadInvariant

-----------------------------------------------------------------------------
(* Versions *)

\* A version submitted by the editor of the open assignment.
LEMMA SubmitInvariant ==
    ASSUME RInv, NEW f \in File, Submitter(f), Submit(f), UNCHANGED <<staff, archived>>,
           checking' \in [File -> Statuses \cup {"none"}]
    PROVE  RInv'
<1> DEFINE row == [files[f] EXCEPT !.state = "ready", !.number = made + 1, !.term = term]
<1>1. /\ made \in Nat /\ made + 1 \in 1..MaxVersions /\ made' = made + 1
      /\ term \in 1..MaxTerm /\ term' = term /\ holder' = holder /\ editorOf' = editorOf
      /\ editorOf[term] = files[f].uploader
      /\ files[f] \in FileRow /\ files[f].state = "pending" /\ files[f].number = 0
      /\ files[f].uploader # None
  BY ReviewAssumption DEF RInv, TypeOK, TermsSound, VersionsAreAttributed, FileRow,
     Submit, Submitter, Open, staff
<1>2. files' = [files EXCEPT ![f] = row]
  BY DEF Submit
<1>3. /\ row \in FileRow /\ row.number = made + 1 /\ row.term = term /\ row.state = "ready"
      /\ row.uploader = files[f].uploader /\ row.category = files[f].category
  <2>1. made + 1 \in 0..MaxVersions /\ term \in 0..MaxTerm
    BY <1>1, ReviewAssumption
  <2>2. files[f] \in FileRow
    BY <1>1
  <2>3. QED
    BY <2>1, <2>2 DEF FileRow
<1> HIDE DEF row
<1>4. /\ files' \in [File -> FileRow] /\ files'[f] = row
      /\ \A g \in File : g # f => files'[g] = files[g]
  BY <1>2, <1>3 DEF RInv, TypeOK
<1>5. \A v \in 1..MaxVersions :
          revision'[v] = IF revision[v] = "requested" THEN "addressed" ELSE revision[v]
  BY DEF Submit, Address
<1>6. revision' \in [1..MaxVersions -> {"none", "requested", "addressed"}]
  <2>1. \A v \in 1..MaxVersions : revision[v] \in {"none", "requested", "addressed"}
    BY DEF RInv, TypeOK
  <2>2. QED
    BY <2>1 DEF Submit, Address
<1>7. acceptance = 0 /\ acceptance' = 0 /\ status' = "awaiting_review"
      /\ UNCHANGED <<credit, gone, archived>>
  BY ReviewAssumption DEF Submit, Submitter, Open, RInv, TypeOK, StatusMatchesReview, staff
<1>8. \A g \in File : files[g].number \in Nat /\ files[g].term \in Nat
  BY ReviewAssumption DEF RInv, TypeOK, FileRow
<1>9. TypeOK'
  BY <1>1, <1>4, <1>6, <1>7, ReviewAssumption DEF RInv, TypeOK, Statuses
<1>10. TermsSound'
  BY <1>1, <1>3, <1>4, <1>8 DEF RInv, TermsSound, TypeOK
<1>11. FutureSound'
  BY <1>1, <1>5 DEF RInv, FutureSound
<1>12. VersionsAreAttributed'
  <2> SUFFICES ASSUME NEW g \in File
               PROVE  /\ files'[g].state = "ready" <=> files'[g].number > 0
                      /\ files'[g].number > 0 => /\ files'[g].number <= made'
                                                /\ files'[g].term > 0
                                                /\ editorOf'[files'[g].term] = files'[g].uploader
    BY DEF VersionsAreAttributed
  <2>1. CASE g = f
    BY <1>1, <1>3, <1>4, <2>1
  <2>2. CASE g # f
    BY <1>1, <1>4, <1>8, <2>2 DEF RInv, VersionsAreAttributed
  <2>3. QED
    BY <2>1, <2>2
<1>13. RevisionsMatchVersions'
  <2>1. \A n \in 1..made' : \E g \in File : files'[g].number = n
    <3> SUFFICES ASSUME NEW n \in 1..made + 1 PROVE \E g \in File : files'[g].number = n
      BY <1>1
    <3>1. CASE n = made + 1
      BY <1>3, <1>4, <3>1
    <3>2. CASE n \in 1..made
      <4>1. PICK g \in File : files[g].number = n
        BY <3>2 DEF RInv, RevisionsMatchVersions
      <4>2. g # f
        BY <1>1, <3>2, <4>1
      <4>3. QED
        BY <1>4, <4>1, <4>2
    <3>3. QED
      BY <1>1, <3>1, <3>2
  <2>2. \A g \in File : files'[g].number = 1 => files'[g].category = "draft"
    BY <1>1, <1>3, <1>4 DEF RInv, RevisionsMatchVersions, Submit, Submittable
  <2>3. \A v \in 1..MaxVersions :
           /\ revision'[v] = "requested" => v = made'
           /\ revision'[v] = "addressed" => v < made'
    BY <1>1, <1>5 DEF RInv, RevisionsMatchVersions
  <2>4. Returned' = Returned
    BY <1>5 DEF Returned
  <2>5. QED
    BY <2>1, <2>2, <2>3, <2>4 DEF RInv, RevisionsMatchVersions
<1>14. StatusMatchesReview'
  <2>1. revision'[made'] = "none"
    BY <1>1, <1>5 DEF RInv, FutureSound
  <2>2. QED
    BY <1>1, <1>7, <2>1 DEF StatusMatchesReview, Revising
<1>15. AuthorIsCredited'
  BY <1>7 DEF RInv, AuthorIsCredited
<1>16. OnlyDeletionLeavesReview'
  <2>1. revision'[made'] = "none"
    BY <1>1, <1>5 DEF RInv, FutureSound
  <2>2. QED
    BY <1>7, <2>1 DEF OnlyDeletionLeavesReview
<1>17. QED
  BY <1>9, <1>10, <1>11, <1>12, <1>13, <1>14, <1>15, <1>16 DEF RInv

LEMMA CompleteUploadInvariant ==
    ASSUME RInv, NEW f \in File, NEW repeated \in BOOLEAN, CompleteUpload(f, repeated)
    PROVE  RInv'
<1>1. checking' \in [File -> Statuses \cup {"none"}]
  BY DEF CompleteUpload, RInv, TypeOK
<1>2. CASE Submit(f)
  BY <1>1, <1>2, SubmitInvariant DEF CompleteUpload
<1>3. CASE Resubmit(f)
  <2>1. UNCHANGED <<files, made, revision, acceptance, credit, staff, archived>>
    BY <1>3 DEF Resubmit, CompleteUpload
  <2>2. Kept
    <3>1. \A g \in File : files[g].number = 0 => files[g].state # "ready"
      BY DEF RInv, VersionsAreAttributed
    <3>2. QED
      BY <2>1, <3>1 DEF Kept, staff
  <2>3. Open /\ (status' = status \/ (status \in DOMAIN Started /\ status' = Started[status]))
    BY <1>3 DEF Resubmit, CompleteUpload, Submitter, StatusAtSubmit
  <2>4. StatusMatchesReview' /\ OnlyDeletionLeavesReview' /\ status' \in Statuses
    BY <2>1, <2>2, <2>3, StartedInvariant DEF staff
  <2>5. TypeOK'
    BY <1>1, <2>1, <2>4 DEF RInv, TypeOK, staff
  <2>6. QED
    BY <2>2, <2>4, <2>5, KeptInvariant DEF RInv
<1>4. QED
  BY <1>2, <1>3 DEF CompleteUpload

\* The client reviews version v, with nothing else changing hands.
LEMMA ReviewedFacts ==
    ASSUME RInv, NEW v \in 1..MaxVersions, Reviewed(v)
    PROVE  /\ v = made /\ status = "awaiting_review" /\ revision[v] = "none"
           /\ acceptance = 0 /\ credit = {} /\ v \notin Returned
  BY ReviewAssumption DEF RInv, TypeOK, Reviewed, StatusMatchesReview, AuthorIsCredited, Returned

\* The requests of a project are finitely many.
LEMMA ReturnedFinite == ASSUME RInv PROVE IsFiniteSet(Returned) /\ Cardinality(Returned) \in Nat
<1>1. IsFiniteSet(1..MaxVersions)
  BY FS_Interval, ReviewAssumption
<1>2. IsFiniteSet(Returned)
  BY <1>1, FS_Subset DEF Returned
<1>3. QED
  BY <1>2, FS_CardinalityType

\* A request adds one to the requests made.
LEMMA ReviseReturned ==
    ASSUME RInv, NEW v \in 1..MaxVersions, Revise(v)
    PROVE  /\ Returned' = Returned \cup {v}
           /\ Cardinality(Returned') <= Limit
           /\ Limit - Cardinality(Returned) > 0
           /\ Limit - Cardinality(Returned') = Limit - Cardinality(Returned) - 1
<1>1. Returned' = Returned \cup {v}
  BY DEF RInv, TypeOK, Revise, Returned
<1>2. v \notin Returned
  BY ReviewedFacts DEF Revise
<1>3. Cardinality(Returned \cup {v}) = Cardinality(Returned) + 1
  BY <1>2, ReturnedFinite, FS_AddElement
<1>4. QED
  BY <1>1, <1>3, ReturnedFinite, ReviewAssumption DEF Revise, Allowed

LEMMA ReviseInvariant ==
    ASSUME RInv, NEW v \in 1..MaxVersions, Revise(v)
    PROVE  RInv'
<1>1. v = made /\ acceptance = 0 /\ revision[v] = "none" /\ made \in Nat /\ made > 0
  BY ReviewedFacts DEF Revise
<1>2. /\ UNCHANGED <<made, acceptance, credit, staff, files, checking, archived>>
      /\ status' = "revision_requested" /\ revision' = [revision EXCEPT ![v] = "requested"]
  BY DEF Revise
<1>3. \A w \in 1..MaxVersions : revision'[w] = IF w = v THEN "requested" ELSE revision[w]
  BY <1>2 DEF RInv, TypeOK
<1>4. TypeOK'
  BY <1>2 DEF RInv, TypeOK, Statuses, staff
<1>5. TermsSound' /\ VersionsAreAttributed'
  BY <1>2 DEF RInv, TermsSound, VersionsAreAttributed, staff
<1>6. FutureSound'
  BY <1>1, <1>2, <1>3 DEF RInv, FutureSound
<1>7. RevisionsMatchVersions'
  BY <1>1, <1>2, <1>3, ReviseReturned DEF RInv, RevisionsMatchVersions
<1>8. StatusMatchesReview' /\ OnlyDeletionLeavesReview'
  BY <1>1, <1>2, <1>3 DEF StatusMatchesReview, OnlyDeletionLeavesReview, Revising
<1>9. AuthorIsCredited'
  BY <1>1, <1>2 DEF RInv, AuthorIsCredited
<1>10. QED
  BY <1>4, <1>5, <1>6, <1>7, <1>8, <1>9 DEF RInv

LEMMA AcceptInvariant ==
    ASSUME RInv, NEW v \in 1..MaxVersions, Accept(v)
    PROVE  RInv'
<1>1. v = made /\ acceptance = 0 /\ credit = {} /\ revision[v] = "none" /\ v > 0
  BY ReviewedFacts DEF Accept
<1>2. /\ UNCHANGED <<made, revision, staff, files, checking, archived>>
      /\ status' = "completed" /\ acceptance' = v /\ credit' = Credited(v)
  BY <1>1 DEF Accept
<1>3. \A f \in File : files[f].number = v => editorOf[files[f].term] \in Editor
  <2> SUFFICES ASSUME NEW f \in File, files[f].number = v
               PROVE  editorOf[files[f].term] \in Editor
    OBVIOUS
  <2>1. files[f].state = "ready" /\ editorOf[files[f].term] = files[f].uploader
    BY <1>1 DEF RInv, VersionsAreAttributed
  <2>2. files[f].term \in 1..MaxTerm
    BY <1>1, ReviewAssumption DEF RInv, VersionsAreAttributed, TypeOK, FileRow
  <2>3. files[f].uploader # None
    BY <1>1 DEF RInv, TermsSound
  <2>4. QED
    BY <2>1, <2>2, <2>3 DEF RInv, TypeOK
<1>4. Credited(v) \in SUBSET Editor
  BY <1>3 DEF Credited, Author
<1>5. TypeOK'
  BY <1>1, <1>2, <1>4 DEF RInv, TypeOK, Statuses, staff
<1>6. TermsSound' /\ FutureSound' /\ VersionsAreAttributed'
  BY <1>2 DEF RInv, TermsSound, FutureSound, VersionsAreAttributed, staff
<1>7. RevisionsMatchVersions'
  BY <1>2 DEF RInv, RevisionsMatchVersions, Returned
<1>8. StatusMatchesReview' /\ OnlyDeletionLeavesReview'
  BY <1>1, <1>2 DEF StatusMatchesReview, OnlyDeletionLeavesReview, Revising
<1>9. AuthorIsCredited'
  BY <1>1, <1>2 DEF AuthorIsCredited, Credited, Author, staff
<1>10. QED
  BY <1>5, <1>6, <1>7, <1>8, <1>9 DEF RInv

-----------------------------------------------------------------------------
(* Staff and accounts *)

LEMMA AssignInvariant ==
    ASSUME RInv, NEW e \in Editor, Assign(e)
    PROVE  RInv'
<1>1. /\ UNCHANGED <<made, revision, acceptance, credit, gone, files, checking, archived>>
      /\ status # "completed" /\ acceptance = 0
      /\ term' = term + 1 /\ holder' = e
      /\ editorOf' = [editorOf EXCEPT ![term + 1] = e]
      /\ status' = IF status = "awaiting_assignment" THEN "editor_assigned" ELSE status
  BY ReviewAssumption DEF Assign, Staffed, RInv, StatusMatchesReview, TypeOK
<1>2. term + 1 \in 1..MaxTerm /\ term \in Nat
  BY ReviewAssumption DEF Assign, RInv, TypeOK
<1>3. \A t \in 1..MaxTerm : editorOf'[t] = IF t = term + 1 THEN e ELSE editorOf[t]
  BY <1>1, <1>2 DEF RInv, TypeOK
<1>4. TypeOK'
  BY <1>1, <1>2, ReviewAssumption DEF RInv, TypeOK, Statuses
<1>5. \A f \in File : files[f].number > 0 =>
          files[f].term \in 1..term /\ editorOf'[files[f].term] = editorOf[files[f].term]
  <2> SUFFICES ASSUME NEW f \in File, files[f].number > 0
               PROVE  files[f].term \in 1..term /\ editorOf'[files[f].term] = editorOf[files[f].term]
    OBVIOUS
  <2>1. files[f].term \in 0..MaxTerm
    BY DEF RInv, TypeOK, FileRow
  <2>2. files[f].term \in 1..term
    BY <1>2, <2>1, ReviewAssumption DEF RInv, TermsSound, VersionsAreAttributed
  <2>3. QED
    BY <1>2, <1>3, <2>1, <2>2, ReviewAssumption
<1>6. TermsSound'
  BY <1>1, <1>2, <1>3, <1>5 DEF RInv, TermsSound
<1>7. VersionsAreAttributed'
  BY <1>1, <1>5 DEF RInv, VersionsAreAttributed
<1>8. FutureSound' /\ RevisionsMatchVersions'
  BY <1>1 DEF RInv, FutureSound, RevisionsMatchVersions, Returned
<1>9. StatusMatchesReview' /\ OnlyDeletionLeavesReview'
  BY <1>1 DEF RInv, StatusMatchesReview, OnlyDeletionLeavesReview, Revising
<1>10. AuthorIsCredited'
  BY <1>1 DEF RInv, AuthorIsCredited
<1>11. QED
  BY <1>4, <1>6, <1>7, <1>8, <1>9, <1>10 DEF RInv

LEMMA DeleteEditorInvariant ==
    ASSUME RInv, NEW e \in Editor, DeleteEditor(e)
    PROVE  RInv'
<1>1. /\ UNCHANGED <<made, revision, acceptance, credit, term, editorOf, files, checking, archived>>
      /\ gone' = gone \cup {e}
      /\ holder' = holder \/ holder' = None
      /\ \/ status' = status
         \/ status # "completed" /\ status' = "awaiting_assignment"
  BY DEF DeleteEditor, Unstaffed
<1>2. TypeOK'
  BY <1>1 DEF RInv, TypeOK, Statuses
<1>3. TermsSound' /\ VersionsAreAttributed' /\ FutureSound' /\ AuthorIsCredited'
  BY <1>1 DEF RInv, TermsSound, VersionsAreAttributed, FutureSound, AuthorIsCredited, Author
<1>4. RevisionsMatchVersions'
  BY <1>1 DEF RInv, RevisionsMatchVersions, Returned
<1>5. StatusMatchesReview'
  BY <1>1 DEF RInv, StatusMatchesReview, Revising
<1>6. OnlyDeletionLeavesReview'
  BY <1>1 DEF OnlyDeletionLeavesReview
<1>7. QED
  BY <1>2, <1>3, <1>4, <1>5, <1>6 DEF RInv

\* A step that touches nothing but the client's archive flag, or nothing.
LEMMA SameInvariant ==
    ASSUME RInv, UNCHANGED <<review, staff, files, checking>>, archived' \in BOOLEAN
    PROVE  RInv'
<1>1. TypeOK'
  BY DEF RInv, TypeOK, review, staff
<1>2. Kept
  BY UploadsSame
<1>3. StatusMatchesReview' /\ OnlyDeletionLeavesReview'
  BY DEF RInv, StatusMatchesReview, OnlyDeletionLeavesReview, review, staff
<1>4. QED
  BY <1>1, <1>2, <1>3, KeptInvariant DEF RInv

LEMMA NextInvariant == RInv /\ [Next]_vars => RInv'
<1> SUFFICES ASSUME RInv, [Next]_vars PROVE RInv'
  OBVIOUS
<1>1. ASSUME NEW e \in Editor, Start(e) PROVE RInv'
  BY <1>1, StartInvariant
<1>2. ASSUME NEW e \in Editor, NEW f \in File, NEW category \in {"draft", "final"},
             RequestUpload(e, f, category)
      PROVE  RInv'
  BY <1>2, RequestUploadInvariant
<1>3. ASSUME NEW f \in File, BeginComplete(f) \/ RejectUpload(f) \/ AbandonUpload(f) PROVE RInv'
  BY <1>3, CheckingInvariant, RejectUploadInvariant
<1>4. ASSUME NEW f \in File, NEW repeated \in BOOLEAN, CompleteUpload(f, repeated) PROVE RInv'
  BY <1>4, CompleteUploadInvariant
<1>5. ASSUME NEW v \in 1..MaxVersions, Revise(v) \/ Accept(v) PROVE RInv'
  BY <1>5, ReviseInvariant, AcceptInvariant
<1>6. ASSUME NEW e \in Editor, Assign(e) \/ DeleteEditor(e) PROVE RInv'
  BY <1>6, AssignInvariant, DeleteEditorInvariant
<1>7. CASE DeleteClient
  BY <1>7, SameInvariant DEF DeleteClient
<1>8. CASE UNCHANGED vars
  BY <1>8, SameInvariant DEF vars, RInv, TypeOK
<1>9. QED
  BY <1>1, <1>2, <1>3, <1>4, <1>5, <1>6, <1>7, <1>8 DEF Next, Edit, Decide, Manage

-----------------------------------------------------------------------------
(* The theorems *)

\* The inductive invariant holds in every behaviour.
THEOREM ReviewInvariant == Spec => []RInv
  BY InitInvariant, NextInvariant, PTL DEF Spec

\* Rows keep their types.
THEOREM ReviewTypeOK == Spec => []TypeOK
<1>1. RInv => TypeOK
  BY DEF RInv
<1>2. QED
  BY <1>1, ReviewInvariant, PTL

\* complete_upload and transition: a ready output is a version of the
\* assignment of the editor who uploaded it.
THEOREM ReviewVersionsAreAttributed == Spec => []VersionsAreAttributed
<1>1. RInv => VersionsAreAttributed
  BY DEF RInv
<1>2. QED
  BY <1>1, ReviewInvariant, PTL

\* transition: versions without gap, requests answered in order, within the
\* allowance.
THEOREM ReviewRevisionsMatchVersions == Spec => []RevisionsMatchVersions
<1>1. RInv => RevisionsMatchVersions
  BY DEF RInv
<1>2. QED
  BY <1>1, ReviewInvariant, PTL

\* transition: the status tells where the review is.
THEOREM ReviewStatusMatchesReview == Spec => []StatusMatchesReview
<1>1. RInv => StatusMatchesReview
  BY DEF RInv
<1>2. QED
  BY <1>1, ReviewInvariant, PTL

\* credit_acceptance: the author of the latest version is credited, nobody else.
THEOREM ReviewAuthorIsCredited == Spec => []AuthorIsCredited
<1>1. RInv => AuthorIsCredited
  BY DEF RInv
<1>2. QED
  BY <1>1, ReviewInvariant, PTL

\* archive_deleted_identity: a project with a version leaves the review only
\* with an editor's deletion.
THEOREM ReviewOnlyDeletionLeavesReview == Spec => []OnlyDeletionLeavesReview
<1>1. RInv => OnlyDeletionLeavesReview
  BY DEF RInv
<1>2. QED
  BY <1>1, ReviewInvariant, PTL

-----------------------------------------------------------------------------
(* What a step may do to the review *)

\* A finished review is finished.
LEMMA FinishedFacts ==
    ASSUME RInv
    PROVE  /\ Open => acceptance = 0
           /\ status # "completed" => acceptance = 0
           /\ \A f \in File : files[f].number > 0 => files[f].state = "ready"
  BY ReviewAssumption DEF RInv, TypeOK, StatusMatchesReview, VersionsAreAttributed, Open

\* A step of Next delivers, sends back, accepts, or leaves the rows of the
\* review as they are.
LEMMA ReviewStep ==
    ASSUME RInv, [Next]_vars
    PROVE  \/ \E f \in File : Submit(f) /\ Submitter(f)
           \/ \E v \in 1..MaxVersions : Revise(v)
           \/ \E v \in 1..MaxVersions : Accept(v)
           \/ /\ UNCHANGED <<made, revision, acceptance, credit>>
              /\ status' # status => acceptance = 0
              /\ \A f \in File : files[f].state = "ready" => files'[f] = files[f]
<1> DEFINE Quiet == /\ UNCHANGED <<made, revision, acceptance, credit>>
                    /\ status' # status => acceptance = 0
                    /\ \A f \in File : files[f].state = "ready" => files'[f] = files[f]
<1>1. ASSUME NEW e \in Editor, Start(e) PROVE Quiet
  BY <1>1, FinishedFacts DEF Start
<1>2. ASSUME NEW e \in Editor, NEW f \in File, NEW category \in {"draft", "final"},
             RequestUpload(e, f, category)
      PROVE  Quiet
  <2>1. \A g \in File \ {f} : files'[g] = files[g]
    BY <1>2 DEF RequestUpload, RInv, TypeOK
  <2>2. QED
    BY <1>2, <2>1 DEF RequestUpload, review
<1>3. ASSUME NEW f \in File, BeginComplete(f) \/ AbandonUpload(f) PROVE Quiet
  BY <1>3 DEF BeginComplete, AbandonUpload, review
<1>4. ASSUME NEW f \in File, RejectUpload(f) PROVE Quiet
  <2>1. \A g \in File : files[g].state = "ready" => files'[g] = files[g]
    <3>1. CASE files[f].state = "pending"
      <4>1. \A g \in File \ {f} : files'[g] = files[g]
        BY <1>4, <3>1 DEF RejectUpload, RInv, TypeOK
      <4>2. QED
        BY <3>1, <4>1
    <3>2. CASE files[f].state # "pending"
      BY <1>4, <3>2 DEF RejectUpload
    <3>3. QED
      BY <3>1, <3>2
  <2>2. QED
    BY <1>4, <2>1 DEF RejectUpload, review
<1>5. ASSUME NEW f \in File, NEW repeated \in BOOLEAN, CompleteUpload(f, repeated)
      PROVE  (Submit(f) /\ Submitter(f)) \/ Quiet
  BY <1>5, FinishedFacts DEF CompleteUpload, Resubmit, Submitter, Open
<1>6. ASSUME NEW e \in Editor, Assign(e) PROVE Quiet
  BY <1>6, FinishedFacts DEF Assign
<1>7. ASSUME NEW e \in Editor, DeleteEditor(e) PROVE Quiet
  BY <1>7, FinishedFacts DEF DeleteEditor, Unstaffed
<1>8. CASE DeleteClient \/ UNCHANGED vars
  BY <1>8 DEF DeleteClient, vars, review
<1>9. QED
  BY <1>1, <1>2, <1>3, <1>4, <1>5, <1>6, <1>7, <1>8 DEF Next, Edit, Decide, Manage

\* Completion is terminal, versions and answered requests are never rewritten.
THEOREM ReviewHistoryIsKept == Spec => HistoryIsKept
<1> DEFINE Same == /\ acceptance > 0 => UNCHANGED review
                   /\ \A f \in File : files[f].number > 0 => files'[f] = files[f]
                   /\ \A v \in 1..MaxVersions : revision[v] = "addressed" =>
                                                  revision'[v] = "addressed"
<1>1. RInv /\ [Next]_vars => [Same]_vars
  <2> SUFFICES ASSUME RInv, [Next]_vars PROVE Same
    OBVIOUS
  <2> USE FinishedFacts
  <2>1. ASSUME NEW f \in File, Submit(f), Submitter(f) PROVE Same
    <3>1. acceptance = 0 /\ files[f].state = "pending"
      BY <2>1 DEF Submit, Submitter
    <3>2. \A g \in File \ {f} : files'[g] = files[g]
      BY <2>1 DEF Submit, RInv, TypeOK
    <3>3. \A v \in 1..MaxVersions : revision[v] = "addressed" => revision'[v] = "addressed"
      BY <2>1 DEF Submit, Address
    <3>4. QED
      BY <3>1, <3>2, <3>3
  <2>2. ASSUME NEW v \in 1..MaxVersions, Revise(v) PROVE Same
    <3>1. \A w \in 1..MaxVersions \ {v} : revision'[w] = revision[w]
      BY <2>2 DEF Revise, RInv, TypeOK
    <3>2. QED
      BY <2>2, <3>1, ReviewedFacts DEF Revise
  <2>3. ASSUME NEW v \in 1..MaxVersions, Accept(v) PROVE Same
    BY <2>3, ReviewedFacts DEF Accept
  <2>4. CASE /\ UNCHANGED <<made, revision, acceptance, credit>>
             /\ status' # status => acceptance = 0
             /\ \A f \in File : files[f].state = "ready" => files'[f] = files[f]
    BY <2>4 DEF review
  <2>5. QED
    BY <2>1, <2>2, <2>3, <2>4, ReviewStep
<1>2. QED
  BY <1>1, ReviewInvariant, PTL DEF Spec, HistoryIsKept

\* Review implements Agreement.
THEOREM ReviewImplementsAgreement == Spec => ImplementsAgreement
<1>1. Init => Abstract!Init
  <2> SUFFICES ASSUME Init PROVE Abstract!Init
    OBVIOUS
  <2>1. Returned = {}
    BY DEF Init, Returned
  <2>2. Limit - Cardinality(Returned) = Limit
    BY <2>1, FS_EmptySet, ReviewAssumption
  <2>3. QED
    BY <2>1, <2>2 DEF Init, Abstract!Init
<1>2. RInv /\ [Next]_vars => [Abstract!Next]_(Abstract!agreement)
  <2> SUFFICES ASSUME RInv, [Next]_vars
               PROVE  Abstract!Next \/ UNCHANGED <<made, Returned, Limit - Cardinality(Returned), acceptance>>
    BY DEF Abstract!agreement
  <2>1. ASSUME NEW f \in File, Submit(f), Submitter(f) PROVE Abstract!Deliver
    <3>1. acceptance = 0
      BY <2>1, FinishedFacts DEF Submitter
    <3>2. Returned' = Returned
      BY <2>1 DEF Submit, Address, Returned
    <3>3. QED
      BY <2>1, <3>1, <3>2 DEF Submit, Abstract!Deliver
  <2>2. ASSUME NEW v \in 1..MaxVersions, Revise(v) PROVE Abstract!SendBack
    <3>1. v = made /\ made > 0 /\ acceptance = 0 /\ made \notin Returned
      BY <2>2, ReviewedFacts DEF Revise
    <3>2. Returned' = Returned \cup {made} /\ UNCHANGED <<made, acceptance>>
      BY <2>2, <3>1, ReviseReturned DEF Revise
    <3>3. /\ Limit - Cardinality(Returned) > 0
          /\ Limit - Cardinality(Returned') = Limit - Cardinality(Returned) - 1
      BY <2>2, ReviseReturned
    <3>4. QED
      BY <3>1, <3>2, <3>3 DEF Abstract!SendBack
  <2>3. ASSUME NEW v \in 1..MaxVersions, Accept(v) PROVE Abstract!Accept
    BY <2>3, ReviewedFacts DEF Accept, Returned, Abstract!Accept
  <2>4. CASE UNCHANGED <<made, revision, acceptance>>
    BY <2>4 DEF Returned
  <2>5. QED
    BY <2>1, <2>2, <2>3, <2>4, ReviewStep DEF Abstract!Next
<1>3. QED
  BY <1>1, <1>2, ReviewInvariant, PTL DEF Spec, ImplementsAgreement, Abstract!Spec

-----------------------------------------------------------------------------
(* The audit of delivery *)

\* No two files are the same version.
UniqueNumbers == \A f, g \in File : files[f].number > 0 /\ files[f].number = files[g].number => f = g

\* Only a submission numbers a file.
LEMMA NumbersStep ==
    ASSUME RInv, [Next]_vars
    PROVE  \/ \E f \in File : Submit(f)
           \/ \A f \in File : files'[f].number = files[f].number
<1> DEFINE Same == \A f \in File : files'[f].number = files[f].number
<1>1. ASSUME NEW e \in Editor, NEW f \in File, NEW category \in {"draft", "final"},
             RequestUpload(e, f, category)
      PROVE  Same
  <2> DEFINE row == [files[f] EXCEPT !.state = "pending", !.uploader = e, !.category = category]
  <2>1. files' = [files EXCEPT ![f] = row]
    BY <1>1 DEF RequestUpload
  <2>2. row.number = files[f].number
    BY DEF RInv, TypeOK, FileRow
  <2> HIDE DEF row
  <2>3. QED
    BY <2>1, <2>2 DEF RInv, TypeOK
<1>2. ASSUME NEW f \in File, RejectUpload(f) PROVE Same
  <2> DEFINE row == [files[f] EXCEPT !.state = "rejected"]
  <2>1. files' = files \/ files' = [files EXCEPT ![f] = row]
    BY <1>2 DEF RejectUpload
  <2>2. row.number = files[f].number
    BY DEF RInv, TypeOK, FileRow
  <2> HIDE DEF row
  <2>3. QED
    BY <2>1, <2>2 DEF RInv, TypeOK
<1>3. QED
  BY <1>1, <1>2 DEF Next, Edit, Decide, Manage, Start, BeginComplete, AbandonUpload,
     CompleteUpload, Resubmit, Revise, Accept, Assign, DeleteEditor, DeleteClient, vars

LEMMA NumbersStayUnique == RInv /\ UniqueNumbers /\ [Next]_vars => UniqueNumbers'
<1> SUFFICES ASSUME RInv, UniqueNumbers, [Next]_vars PROVE UniqueNumbers'
  OBVIOUS
<1>1. ASSUME NEW f \in File, Submit(f) PROVE UniqueNumbers'
  <2> DEFINE row == [files[f] EXCEPT !.state = "ready", !.number = made + 1, !.term = term]
  <2>1. files' = [files EXCEPT ![f] = row]
    BY <1>1 DEF Submit
  <2>2. row.number = made + 1
    BY DEF RInv, TypeOK, FileRow
  <2> HIDE DEF row
  <2>3. \A g \in File : files'[g].number = IF g = f THEN made + 1 ELSE files[g].number
    BY <2>1, <2>2 DEF RInv, TypeOK
  <2>4. \A g \in File : files[g].number # made + 1
    BY ReviewAssumption DEF RInv, TypeOK, FileRow, VersionsAreAttributed
  <2>5. QED
    BY <2>3, <2>4 DEF UniqueNumbers
<1>2. CASE \A f \in File : files'[f].number = files[f].number
  BY <1>2 DEF UniqueNumbers
<1>3. QED
  BY <1>1, <1>2, NumbersStep

\* There are as many submitted files as versions, at most.
LEMMA SubmittedBound ==
    ASSUME RInv, UniqueNumbers
    PROVE  Cardinality(Submitted) \in Nat /\ Cardinality(Submitted) <= made
<1> DEFINE numbering == [f \in Submitted |-> files[f].number]
<1>1. made \in Nat
  BY DEF RInv, TypeOK
<1>2. \A f \in Submitted : files[f].number \in 1..made
  BY <1>1 DEF Submitted, RInv, TypeOK, FileRow, VersionsAreAttributed
<1>3. numbering \in Injection(Submitted, 1..made)
  BY <1>2 DEF Injection, IsInjective, Submitted, UniqueNumbers
<1>4. IsFiniteSet(1..made) /\ Cardinality(1..made) = made
  BY <1>1, FS_Interval
<1> HIDE DEF numbering
<1>5. IsFiniteSet(Submitted) /\ Cardinality(Submitted) <= made
  BY <1>3, <1>4, FS_Injection
<1>6. QED
  BY <1>5, FS_CardinalityType

\* Whoever audits finds what the invariant excludes.
LEMMA AuditPasses ==
    ASSUME RInv, UniqueNumbers
    PROVE  DeliveryReconciles
<1>1. /\ made \in 0..MaxVersions /\ acceptance \in 0..MaxVersions
      /\ \A f \in File : files[f].number \in 0..made
      /\ \A f \in File : files[f].number > 0 <=> files[f].state = "ready"
      /\ \A f \in File : files[f].number > 0 =>
             files[f].term > 0 /\ editorOf[files[f].term] = files[f].uploader
  BY ReviewAssumption DEF RInv, TypeOK, FileRow, VersionsAreAttributed
<1>2. \A n \in 1..made : \E f \in Submitted : files[f].number = n
  <2> SUFFICES ASSUME NEW n \in 1..made PROVE \E f \in Submitted : files[f].number = n
    OBVIOUS
  <2>1. PICK f \in File : files[f].number = n
    BY DEF RInv, RevisionsMatchVersions
  <2>2. QED
    BY <2>1 DEF Submitted
<1>3. \A v \in Nat : v > 0 => (NewerExists(v) <=> v < made)
  <2> SUFFICES ASSUME NEW v \in Nat, v > 0 PROVE NewerExists(v) <=> v < made
    OBVIOUS
  <2>1. ASSUME v < made PROVE NewerExists(v)
    <3>1. PICK f \in Submitted : files[f].number = made
      BY <1>1, <1>2, <2>1
    <3>2. QED
      BY <2>1, <3>1 DEF NewerExists, Submitted
  <2>2. ASSUME NewerExists(v) PROVE v < made
    BY <1>1, <2>2 DEF NewerExists
  <2>3. QED
    BY <2>1, <2>2
<1>4. made > 0 <=> Submitted # {}
  BY <1>1, <1>2 DEF Submitted
<1>5. VersionFileFindings = {} /\ VersionAssignmentFindings = {}
  BY <1>1 DEF VersionFileFindings, VersionAssignmentFindings, Submitted
<1>6. SequenceFindings = {}
  <2>1. Cardinality(Submitted) \in Nat /\ Cardinality(Submitted) <= made
    BY SubmittedBound
  <2>2. \A n \in 1..Cardinality(Submitted) : \E f \in File : files[f].number = n
    <3> SUFFICES ASSUME NEW n \in 1..Cardinality(Submitted)
                 PROVE  \E f \in File : files[f].number = n
      OBVIOUS
    <3>1. n \in 1..made
      BY <1>1, <2>1
    <3>2. QED
      BY <1>2, <3>1 DEF Submitted
  <2>3. QED
    BY <2>2 DEF SequenceFindings
<1>7. LimitFindings = {}
  BY ReturnedFinite, ReviewAssumption DEF LimitFindings, RInv, RevisionsMatchVersions
<1>8. AcceptanceFindings = {}
  BY <1>1, <1>3 DEF AcceptanceFindings, RInv, StatusMatchesReview, AuthorIsCredited
<1>9. AcceptanceLinkFindings = {}
  <2> SUFFICES ASSUME acceptance > 0
               PROVE  \E f \in File : files[f].number = acceptance /\ files[f].term # 0
    BY <1>1 DEF AcceptanceLinkFindings
  <2>1. acceptance = made
    BY DEF RInv, AuthorIsCredited
  <2>2. PICK f \in Submitted : files[f].number = made
    BY <1>1, <1>2, <2>1
  <2>3. f \in File /\ files[f].term > 0
    BY <1>1, <2>2 DEF Submitted
  <2>4. QED
    BY <2>1, <2>2, <2>3
<1>10. \A v \in Returned : /\ v \in 1..MaxVersions
                           /\ revision[v] = "requested" => v = made
                           /\ revision[v] = "addressed" => v < made
  BY DEF Returned, RInv, RevisionsMatchVersions
<1>11. ProjectStateFindings = {}
  <2>1. status \in InReview => Submitted # {}
    BY <1>1, <1>4 DEF InReview, RInv, StatusMatchesReview, AuthorIsCredited
  <2>2. status = "awaiting_review" => \A v \in Returned : revision[v] # "requested"
    BY <1>10 DEF RInv, StatusMatchesReview
  <2>3. status \in Revising => \E v \in Returned : revision[v] = "requested"
    <3> SUFFICES ASSUME status \in Revising PROVE \E v \in Returned : revision[v] = "requested"
      OBVIOUS
    <3>1. made \in 1..MaxVersions /\ revision[made] = "requested"
      BY <1>1 DEF RInv, StatusMatchesReview
    <3>2. QED
      BY <3>1 DEF Returned
  <2>4. status = "completed" => acceptance # 0
    BY <1>1 DEF RInv, StatusMatchesReview
  <2>5. QED
    BY <2>1, <2>2, <2>3, <2>4 DEF ProjectStateFindings
<1>12. ASSUME gone = {} PROVE VersionStatusFindings = {} /\ RevisionFindings = {}
  <2>1. VersionStatusFindings = {}
    BY <1>1, <1>4, <1>12 DEF VersionStatusFindings, InReview, RInv, OnlyDeletionLeavesReview, Submitted
  <2>2. \A v \in Returned : revision[v] = "requested" => ~NewerExists(v) /\ status \in Revising
    BY <1>1, <1>3, <1>10, <1>12 DEF RInv, OnlyDeletionLeavesReview
  <2>3. \A v \in Returned : revision[v] = "addressed" => NewerExists(v)
    BY <1>1, <1>3, <1>10
  <2>4. QED
    BY <2>1, <2>2, <2>3 DEF RevisionFindings
<1>13. QED
  BY <1>5, <1>6, <1>7, <1>8, <1>9, <1>11, <1>12 DEF DeliveryReconciles

\* run_delivery_reconciliation: the nightly audit never finds a version,
\* request, acceptance or status that this module's handlers wrote wrong.
THEOREM ReviewReconciles == Spec => []DeliveryReconciles
<1>1. Init => UniqueNumbers
  BY DEF Init, UniqueNumbers
<1>2. Spec => []UniqueNumbers
  BY <1>1, NumbersStayUnique, ReviewInvariant, PTL DEF Spec
<1>3. RInv /\ UniqueNumbers => DeliveryReconciles
  BY AuditPasses
<1>4. QED
  BY <1>2, <1>3, ReviewInvariant, PTL

=============================================================================
