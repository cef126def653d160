------------------------------- MODULE Review -------------------------------
(* Review of one paid project: core/delivery.py (transition), the editor's   *)
(* uploads in core/views.py that submit through it, reassignment by          *)
(* operations/assignments.py and identity deletion by identity_cleanup.py.   *)
(*                                                                           *)
(* transition locks policy, order and project before it reads, so each call  *)
(* is one action.  complete_upload is two: it reads the project's status and *)
(* asks the object store before its transaction begins.                      *)

EXTENDS Naturals, FiniteSets

CONSTANTS
    Editor,
    File,        \* upload reservations
    Limit,       \* revision_limit of the accepted terms
    Earning,     \* the accepted terms have an earning rule
    MaxVersions, \* bound on versions of the project
    MaxTerm,     \* bound on assignments of the project
    None

ASSUME ReviewAssumption ==
    /\ Limit \in Nat
    /\ MaxVersions \in Nat
    /\ Earning \in BOOLEAN
    /\ MaxTerm \in Nat
    /\ None \notin Editor

VARIABLES
    status,      \* projects.status, from awaiting_assignment on
    holder,      \* editor of the open assignment
    term,        \* number of assignments so far, the id of the last
    editorOf,    \* the editor of each assignment
    files,       \* draft and final uploads; number: the project_versions row
    made,        \* number of versions
    revision,    \* revision_requests, by the version they are about
    acceptance,  \* delivery_acceptances: the accepted version, or 0
    credit,      \* editors credited for an acceptance, as pending coins
    checking,    \* complete_upload under way: the status it read
    gone,        \* editors whose identity was deleted
    archived     \* the client's identity was deleted

review == <<status, made, revision, acceptance, credit>>
staff  == <<holder, term, editorOf, gone>>
vars   == <<review, staff, files, checking, archived>>

Statuses  == {"awaiting_assignment", "editor_assigned", "editing", "awaiting_review",
              "revision_requested", "revision_in_progress", "completed"}
Revising  == {"revision_requested", "revision_in_progress"}
FileRow   == [state : {"none", "pending", "ready", "rejected"}, uploader : Editor \cup {None},
              category : {"draft", "final"}, number : 0..MaxVersions, term : 0..MaxTerm]

TypeOK ==
    /\ status \in Statuses
    /\ holder \in Editor \cup {None}
    /\ term \in 0..MaxTerm
    /\ editorOf \in [1..MaxTerm -> Editor \cup {None}]
    /\ files \in [File -> FileRow]
    /\ made \in 0..MaxVersions
    /\ revision \in [1..MaxVersions -> {"none", "requested", "addressed"}]
    /\ acceptance \in 0..MaxVersions
    /\ credit \in SUBSET Editor
    /\ checking \in [File -> Statuses \cup {"none"}]
    /\ gone \in SUBSET Editor
    /\ archived \in BOOLEAN

Returned == {v \in 1..MaxVersions : revision[v] # "none"}

\* transition finds the project: visible, paid, not completed, with an editor.
Open == ~archived /\ status # "completed" /\ holder # None

-----------------------------------------------------------------------------
(* The editor *)

\* What "start" makes of a status; other statuses refuse it.
Started == [editor_assigned |-> "editing", editing |-> "editing",
            revision_requested |-> "revision_in_progress",
            revision_in_progress |-> "revision_in_progress"]

Start(e) ==
    /\ Open
    /\ holder = e /\ e \notin gone
    /\ status \in DOMAIN Started
    /\ status' = Started[status]
    /\ UNCHANGED <<made, revision, acceptance, credit, staff, files, checking, archived>>

\* can_upload
MayUpload(e) == Open /\ holder = e

RequestUpload(e, f, category) ==
    /\ MayUpload(e) /\ e \notin gone
    /\ files[f].state = "none"
    /\ files' = [files EXCEPT ![f] = [@ EXCEPT !.state = "pending", !.uploader = e,
                                                !.category = category]]
    /\ UNCHANGED <<review, staff, checking, archived>>

\* complete_upload up to the request to the object store; the browser may
\* send it again.
BeginComplete(f) ==
    /\ files[f].state = "pending"
    /\ checking[f] = "none"
    /\ MayUpload(files[f].uploader) /\ files[f].uploader \notin gone
    /\ checking' = [checking EXCEPT ![f] = status]
    /\ UNCHANGED <<review, staff, files, archived>>

\* The status complete_upload's transaction submits in: it starts the work
\* first if the status it read before asked for that.
StatusAtSubmit(seen) ==
    IF seen \in {"editor_assigned", "revision_requested"} /\ status \in DOMAIN Started
    THEN Started[status] ELSE status

MayStart(seen) ==
    seen \in {"editor_assigned", "revision_requested"} => status \in DOMAIN Started

\* The requests a new version answers.
Address ==
    [v \in 1..MaxVersions |-> IF revision[v] = "requested" THEN "addressed" ELSE revision[v]]

\* Mutant: an upload of the former editor is accepted.
SubmitterAnyone(f) == Open

\* The project's editor, who must be the uploader.
Submitter(f) == Open /\ holder = files[f].uploader

\* transition(submit) refuses other statuses and a final video without draft.
Submittable(f, now) ==
    /\ now \in {"editing", "revision_in_progress", "awaiting_review"}
    /\ made = 0 => files[f].category = "draft"

\* A file becomes ready and the next version in one transaction.
Submit(f) ==
    /\ files[f].state = "pending"
    /\ made < MaxVersions
    /\ Submittable(f, StatusAtSubmit(checking[f]))
    /\ made' = made + 1
    /\ files' = [files EXCEPT ![f] = [@ EXCEPT !.state = "ready", !.number = made + 1,
                                                !.term = term]]
    /\ revision' = Address
    /\ status' = "awaiting_review"
    /\ UNCHANGED <<acceptance, credit>>

\* A file that was submitted meanwhile is found, but work was started again.
Resubmit(f) ==
    /\ files[f].state = "ready"
    /\ status' = StatusAtSubmit(checking[f])
    /\ UNCHANGED <<files, made, revision, acceptance, credit>>

\* The rest of complete_upload; "repeated": another copy of the request is
\* still waiting for the object store.
CompleteUpload(f, repeated) ==
    /\ checking[f] # "none"
    /\ Submitter(f)
    /\ MayStart(checking[f])
    /\ Submit(f) \/ Resubmit(f)
    /\ checking' = IF repeated THEN checking ELSE [checking EXCEPT ![f] = "none"]
    /\ UNCHANGED <<staff, archived>>

\* The object is not what was announced.
RejectUpload(f) ==
    /\ checking[f] # "none"
    /\ files' = IF files[f].state = "pending"
                THEN [files EXCEPT ![f].state = "rejected"] ELSE files
    /\ checking' = [checking EXCEPT ![f] = "none"]
    /\ UNCHANGED <<review, staff, archived>>

\* The store does not answer, or submission is refused and all of it undone.
AbandonUpload(f) ==
    /\ checking[f] # "none"
    /\ checking' = [checking EXCEPT ![f] = "none"]
    /\ UNCHANGED <<review, staff, files, archived>>

-----------------------------------------------------------------------------
(* The client *)

\* Mutant: the version on the client's page need not be the latest.
ReviewedAny(v) == Open /\ v <= made /\ status = "awaiting_review"

\* The client acts on the version their page showed: it must still be the
\* latest, and under review.
Reviewed(v) == Open /\ v = made /\ status = "awaiting_review"

Allowed == Cardinality(Returned) < Limit

Revise(v) ==
    /\ Reviewed(v)
    /\ revision[v] = "none"
    /\ Allowed
    /\ revision' = [revision EXCEPT ![v] = "requested"]
    /\ status' = "revision_requested"
    /\ UNCHANGED <<made, acceptance, credit, staff, files, checking, archived>>

\* The editor who submitted version v.
Author(v) == {editorOf[files[f].term] : f \in {g \in File : files[g].number = v}}

\* Mutant: the current editor is credited for a version of the former one.
CreditedHolder(v) == {holder}

\* credit_acceptance: under the rule the order was agreed with, if any.
Credited(v) == IF Earning THEN Author(v) ELSE {}

Accept(v) ==
    /\ Reviewed(v)
    /\ acceptance' = v
    /\ credit' = credit \cup Credited(v)
    /\ status' = "completed"
    /\ UNCHANGED <<made, revision, staff, files, checking, archived>>

-----------------------------------------------------------------------------
(* Staff and accounts *)

Staffed == IF status = "awaiting_assignment" THEN "editor_assigned" ELSE status

\* write_assignment, for whichever editor Allocation chose (see there for how
\* this may be one whose identity was just deleted).
Assign(e) ==
    /\ status # "completed"
    /\ holder # e
    /\ term < MaxTerm
    /\ term' = term + 1
    /\ editorOf' = [editorOf EXCEPT ![term + 1] = e]
    /\ holder' = e
    /\ status' = Staffed
    /\ UNCHANGED <<made, revision, acceptance, credit, gone, files, checking, archived>>

\* Mutant: finished projects return to the queue too.
ReturnedAlways == "awaiting_assignment"

Unstaffed == IF status = "completed" THEN status ELSE "awaiting_assignment"

DeleteEditor(e) ==
    /\ e \notin gone
    /\ gone' = gone \cup {e}
    /\ IF holder = e
       THEN holder' = None /\ status' = Unstaffed
       ELSE UNCHANGED <<holder, status>>
    /\ UNCHANGED <<made, revision, acceptance, credit, term, editorOf, files, checking, archived>>

DeleteClient ==
    /\ ~archived
    /\ archived' = TRUE
    /\ UNCHANGED <<review, staff, files, checking>>

-----------------------------------------------------------------------------

Init ==
    /\ status = "awaiting_assignment"
    /\ holder = None /\ term = 0
    /\ editorOf = [t \in 1..MaxTerm |-> None]
    /\ files = [f \in File |-> [state |-> "none", uploader |-> None, category |-> "draft",
                                number |-> 0, term |-> 0]]
    /\ made = 0
    /\ revision = [v \in 1..MaxVersions |-> "none"]
    /\ acceptance = 0
    /\ credit = {}
    /\ checking = [f \in File |-> "none"]
    /\ gone = {}
    /\ archived = FALSE

Edit ==
    \/ \E e \in Editor : Start(e)
    \/ \E e \in Editor, f \in File, category \in {"draft", "final"} : RequestUpload(e, f, category)
    \/ \E f \in File : BeginComplete(f) \/ RejectUpload(f) \/ AbandonUpload(f)
    \/ \E f \in File, repeated \in BOOLEAN : CompleteUpload(f, repeated)

Decide == \E v \in 1..MaxVersions : Revise(v) \/ Accept(v)

Manage == (\E e \in Editor : Assign(e) \/ DeleteEditor(e)) \/ DeleteClient

Next == Edit \/ Decide \/ Manage

Spec == Init /\ [][Next]_vars

-----------------------------------------------------------------------------
(* Safety *)

\* PHASE_5: marking an output ready and creating its version share one
\* transaction, so nothing verified stays invisible and nothing visible is
\* unverified; and a version counts for the assignment of the editor who
\* uploaded it (invalid_version_files, invalid_version_assignments).
VersionsAreAttributed == \A f \in File :
    /\ files[f].state = "ready" <=> files[f].number > 0
    /\ files[f].number > 0 => /\ files[f].number <= made
                              /\ files[f].term > 0
                              /\ editorOf[files[f].term] = files[f].uploader

\* Versions are numbered 1, 2, ... without gap, the first is a draft, a request
\* is open exactly for the latest version and answered exactly by a later one,
\* and the allowance holds (_revision_findings, invalid_version_sequence).
RevisionsMatchVersions ==
    /\ \A n \in 1..made : \E f \in File : files[f].number = n
    /\ \A f \in File : files[f].number = 1 => files[f].category = "draft"
    /\ \A v \in 1..MaxVersions :
          /\ revision[v] = "requested" => v = made
          /\ revision[v] = "addressed" => v < made
    /\ Cardinality(Returned) <= Limit

\* The status tells where the review is (_project_state_findings).
StatusMatchesReview ==
    /\ status = "awaiting_review" => made > 0 /\ revision[made] = "none"
    /\ status \in Revising => made > 0 /\ revision[made] = "requested"
    /\ status = "completed" <=> acceptance > 0

\* The client accepts the latest version, and its author is credited, nobody
\* else, however often the project changed hands (_acceptance_findings).
AuthorIsCredited ==
    /\ acceptance > 0 => acceptance = made
    /\ credit = IF acceptance > 0 /\ Earning THEN Author(acceptance) ELSE {}

\* _version_findings and _revision_findings call a version of a project outside
\* review, and an open request of a project not under revision, invalid.  Only
\* an editor's deletion leads there.
OnlyDeletionLeavesReview == gone = {} =>
    /\ made > 0 => status \in {"awaiting_review", "completed"} \cup Revising
    /\ made > 0 /\ revision[made] = "requested" => status \in Revising

\* PRODUCT_RULES 6: completion is terminal, versions and requests are never
\* rewritten, and reassignment preserves the project's history.
HistoryIsKept ==
    [][/\ acceptance > 0 => UNCHANGED review
       /\ \A f \in File : files[f].number > 0 => files'[f] = files[f]
       /\ \A v \in 1..MaxVersions : revision[v] = "addressed" => revision'[v] = "addressed"]_vars

\* The promise of this module.
Abstract == INSTANCE Agreement WITH
    delivered <- made,
    returned  <- Returned,
    left      <- Limit - Cardinality(Returned),
    accepted  <- acceptance

ImplementsAgreement == Abstract!Spec

=============================================================================
