----------------------- MODULE DeliveryReconciliation -----------------------
(* The nightly audit of delivery, core/delivery_reconciliation.py: every      *)
(* finding the report counts as critical, as the set of rows it counts, over *)
(* the rows of Review.  Its rules about texts, owners and terms are about    *)
(* columns Review has not, or that it holds once.                            *)
EXTENDS Review

InReview == {"awaiting_review", "completed"} \cup Revising

Submitted == {f \in File : files[f].number > 0}

\* invalid_version_file
VersionFileFindings == {f \in Submitted : files[f].state # "ready"}

\* invalid_version_assignment
VersionAssignmentFindings ==
    {f \in Submitted : files[f].term = 0 \/ editorOf[files[f].term] # files[f].uploader}

\* invalid_version_sequence_or_project_state: the numbers, then the status.
SequenceFindings ==
    {n \in 1..Cardinality(Submitted) : \A f \in File : files[f].number # n}
VersionStatusFindings == {f \in Submitted : status \notin InReview}

NewerExists(v) == \E f \in File : files[f].number > v

\* invalid_revision_state
RevisionFindings ==
    {v \in Returned :
        \/ revision[v] = "requested" /\ (NewerExists(v) \/ status \notin Revising)
        \/ revision[v] = "addressed" /\ ~NewerExists(v)}

\* invalid_revision_terms_or_limit
LimitFindings == {n \in {Cardinality(Returned)} : n > Limit}

\* invalid_acceptance_state
AcceptanceFindings ==
    {v \in {acceptance} \ {0} : status # "completed" \/ NewerExists(v)}

\* invalid_acceptance_link_or_owner
AcceptanceLinkFindings ==
    {v \in {acceptance} \ {0} : \A f \in File : files[f].number = v => files[f].term = 0}

\* invalid_review_project_state
ProjectStateFindings ==
    {s \in {status} \cap InReview :
        \/ Submitted = {}
        \/ s = "awaiting_review" /\ \E v \in Returned : revision[v] = "requested"
        \/ s \in Revising /\ \A v \in Returned : revision[v] # "requested"
        \/ s = "completed" /\ acceptance = 0}

-----------------------------------------------------------------------------

\* The audit of a review in which uploads complete late or twice, the client
\* returns and accepts, and the project changes hands: nothing is ever found in
\* the files, authors, numbers, allowance, acceptance or status of a project,
\* and, until an editor's identity is deleted, no version stands outside review
\* and no request outside revision.  A deletion in the middle of a review
\* leads there: it sends the project back to assignment with its versions.
DeliveryReconciles ==
    /\ VersionFileFindings = {} /\ VersionAssignmentFindings = {} /\ SequenceFindings = {}
    /\ LimitFindings = {}
    /\ AcceptanceFindings = {} /\ AcceptanceLinkFindings = {}
    /\ ProjectStateFindings = {}
    /\ gone = {} => VersionStatusFindings = {} /\ RevisionFindings = {}

=============================================================================
