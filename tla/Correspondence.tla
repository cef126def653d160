---------------------------- MODULE Correspondence ----------------------------
(* The talk around one paid project: its conversation (operations/           *)
(* messages.py), the client's support requests (operations/support.py) and   *)
(* one paid consultation (operations/calls.py), with the notices they send   *)
(* and the events that change who may talk: assignment, completion, a        *)
(* payment that is lost again, and identity deletion.                        *)
(*                                                                           *)
(* A form is a request on its way: its author was checked when it arrived,   *)
(* and the browser may send it again with the same key.  post_message and    *)
(* post_support_message lock the project or request row before they read, so *)
(* each is one action; create_support_request locks nothing, but the unique  *)
(* key undoes all but the first of two copies that run together.             *)
(* schedule_call is two: it locks the call but not the editor it chooses.    *)

EXTENDS Naturals, FiniteSets

CONSTANTS
    Client,      \* the project's client, a user
    Editor, Admin,
    Key,         \* the request keys pages carry
    Body,        \* what can be written
    Digits,      \* the bodies with more than five digits in a row
    Status,      \* statuses of a support request
    Slot,        \* times of a consultation
    MaxForms,    \* bound on forms sent
    None

User == {Client} \cup Editor \cup Admin

ASSUME CorrespondenceAssumption ==
    /\ Client \notin Editor \cup Admin
    /\ Editor \cap Admin = {}
    /\ IsFiniteSet(Admin)
    /\ Digits \subseteq Body
    /\ "open" \in Status /\ "none" \notin Status
    /\ MaxForms \in Nat
    /\ None \notin User \cup Key \cup Slot

VARIABLES
    active,      \* users with is_active
    project,     \* completed, archived, funded (paid and still confirmed), drafted
    holder,      \* editor of the open assignment
    past,        \* editors ever assigned
    forms,       \* posted forms on their way
    sent,        \* how many were sent
    messages,    \* project_messages by request_key
    tickets,     \* support_requests by request_key: status and project
    replies,     \* support_messages by request_key, the opening ones included
    notices,     \* notifications about messages and tickets, by event_key
    call,        \* the call_requests row
    scheduling,  \* schedule_call under way: the editor and time it will write
    told         \* what the last notice about the call said to each user

people == <<active, project, holder, past>>
talk   == <<messages, tickets, replies, notices>>
calls  == <<call, scheduling, told>>
vars   == <<people, forms, sent, talk, calls>>

Audiences == {"shared", "internal"}
NoRow     == [author |-> None]
Row       == [author : User, audience : Audiences, body : Body]
Reply     == [author : User, audience : Audiences, body : Body, ticket : Key]
Form      == [to : {"project", "support"}, author : User, audience : Audiences,
              body : Body, key : Key, ticket : Key]
NoTicket  == [status |-> "none"]
Event     == [of : {"message", "opened", "reply"}, key : Key, recipient : User]
Word      == [word : {"nothing", "requested", "scheduled", "moved", "completed"},
              slot : Slot \cup {None}]
CallRow   == [stage : {"before", "after"}, status : {"requested", "scheduled", "completed"},
              editor : Editor \cup {None}, slot : Slot \cup {None}]

TypeOK ==
    /\ active \in SUBSET User
    /\ project \in [completed : BOOLEAN, archived : BOOLEAN, funded : BOOLEAN, drafted : BOOLEAN]
    /\ holder \in Editor \cup {None}
    /\ past \in SUBSET Editor
    /\ forms \in SUBSET Form
    /\ sent \in 0..MaxForms
    /\ messages \in [Key -> Row \cup {NoRow}]
    /\ tickets \in [Key -> [status : Status] \cup {NoTicket}]
    /\ replies \in [Key -> Reply \cup {NoRow}]
    /\ notices \in SUBSET Event
    /\ call \in CallRow
    /\ scheduling \in [editor : Editor \cup {None}, slot : Slot \cup {None}]
    /\ told \in [User -> Word]

-----------------------------------------------------------------------------
(* Who sees what *)

\* visible_projects.  The editor's approval is not asked again here: while the
\* work is open it stays (HolderStaysConfigured of Allocation).
Visible(u) ==
    /\ ~project.archived
    /\ u \in Editor => project.funded /\ holder = u

\* visible_messages and visible_support_messages: the keys of the rows u reads.
\* The client also reads the opening of their own request, which is shared.
VisibleMessages(u) ==
    {k \in Key : /\ messages[k] # NoRow
                 /\ Visible(u)
                 /\ u = Client => messages[k].audience = "shared"}

VisibleReplies(u) ==
    {k \in Key : /\ replies[k] # NoRow
                 /\ u \in Admin \/ (u = Client /\ replies[k].audience = "shared")}

\* The key of a page is its reader's own.
Writers(k) == {f.author : f \in {g \in forms : g.key = k}}
              \cup ({messages[k].author, replies[k].author} \ {None})

Send(f) ==
    /\ sent < MaxForms
    /\ f.author \in active
    /\ Writers(f.key) \subseteq {f.author}
    /\ forms' = forms \cup {f}
    /\ sent' = sent + 1
    /\ UNCHANGED <<people, talk, calls>>

\* The pages of a conversation are only shown to whom the project is visible.
SendMessage(f) ==
    /\ f.to = "project" /\ f.ticket = f.key
    /\ Visible(f.author)
    /\ Send(f)

SendTicket(f) ==
    /\ f.to = "support" /\ f.ticket = f.key
    /\ f.author = Client /\ f.audience = "shared"
    /\ Send(f)

SendReply(f) ==
    /\ f.to = "support"
    /\ f.author \in Admin
    /\ tickets[f.ticket] # NoTicket
    /\ Send(f)

\* A form arrives; "repeated": another copy of it is still on its way.
Arrive(f, repeated) == forms' = IF repeated THEN forms ELSE forms \ {f}

Notify(of, k, users) ==
    notices' = notices \cup {[of |-> of, key |-> k, recipient |-> u] : u \in users}

-----------------------------------------------------------------------------
(* The project's conversation *)

MessagingEnabled == ~project.completed

\* The client writes to everybody; a phone number is refused from the client
\* and from an editor who writes to everybody.
Allowed(f) ==
    /\ f.author = Client => f.audience = "shared"
    /\ f.author \notin Admin /\ f.audience = "shared" => f.body \notin Digits

\* Mutant: a copy of an answered form is taken again while it can be.
PostableAgain(f) == Allowed(f) /\ Visible(f.author) /\ MessagingEnabled

\* What post_message asks under the project's lock, before it writes.  An
\* existing key is answered with its row, or refused if the row differs.
Postable(f) ==
    /\ Allowed(f)
    /\ Visible(f.author)
    /\ messages[f.key] = NoRow
    /\ MessagingEnabled

\* Mutant: internal notes reach the client.
RecipientsAll(f) == ((Admin \cap active) \cup ({holder} \cap active) \cup {Client}) \ {f.author}

\* The active administrators, the current editor and, for a shared message, the
\* client; never the author.
Recipients(f) ==
    ((Admin \cap active) \cup ({holder} \cap active)
        \cup (IF f.audience = "shared" THEN {Client} ELSE {})) \ {f.author}

\* post_message
PostMessage(f, repeated) ==
    /\ f.to = "project"
    /\ Postable(f)
    /\ messages' = [messages EXCEPT ![f.key] =
           [author |-> f.author, audience |-> f.audience, body |-> f.body]]
    /\ Notify("message", f.key, Recipients(f))
    /\ Arrive(f, repeated)
    /\ UNCHANGED <<people, sent, tickets, replies, calls>>

RefuseMessage(f) ==
    /\ f.to = "project"
    /\ ~Postable(f)
    /\ Arrive(f, FALSE)
    /\ UNCHANGED <<people, sent, talk, calls>>

-----------------------------------------------------------------------------
(* Support *)

Answer(f) == [author |-> f.author, audience |-> f.audience, body |-> f.body, ticket |-> f.ticket]

\* Mutant: the opening message gets its own visibility.
OpeningInternal(f) == [Answer(f) EXCEPT !.audience = "internal"]

Opening(f) == [Answer(f) EXCEPT !.audience = "shared"]

\* create_support_request: the request and its opening message share the key.
OpenTicket(f, repeated) ==
    /\ f.to = "support" /\ f.author = Client
    /\ tickets[f.key] = NoTicket /\ replies[f.key] = NoRow
    /\ tickets' = [tickets EXCEPT ![f.key] = [status |-> "open"]]
    /\ replies' = [replies EXCEPT ![f.key] = Opening(f)]
    /\ Notify("opened", f.key, Admin \cap active)
    /\ Arrive(f, repeated)
    /\ UNCHANGED <<people, sent, messages, calls>>

\* post_support_message; only a shared reply is announced.
PostReply(f, repeated) ==
    /\ f.to = "support" /\ f.author \in Admin
    /\ replies[f.key] = NoRow
    /\ replies' = [replies EXCEPT ![f.key] = Answer(f)]
    /\ Notify("reply", f.key, IF f.audience = "shared" THEN {Client} ELSE {})
    /\ Arrive(f, repeated)
    /\ UNCHANGED <<people, sent, messages, tickets, calls>>

\* The key was used: the row is returned, or the form refused.
RefuseSupport(f) ==
    /\ f.to = "support"
    /\ replies[f.key] # NoRow
    /\ Arrive(f, FALSE)
    /\ UNCHANGED <<people, sent, talk, calls>>

\* change_support_status; each change has a notice of its own.
ChangeStatus(a, k, new) ==
    /\ a \in active
    /\ tickets[k] # NoTicket
    /\ tickets' = [tickets EXCEPT ![k].status = new]
    /\ UNCHANGED <<people, forms, sent, messages, replies, notices, calls>>

-----------------------------------------------------------------------------
(* The consultation *)

Idle  == [editor |-> None, slot |-> None]
Quiet == [word |-> "nothing", slot |-> None]
Says(word, slot) == [word |-> word, slot |-> slot]

\* schedule_call: the call is locked, the editor's account read ...
BeginSchedule(a, e, slot) ==
    /\ scheduling = Idle
    /\ a \in active
    /\ call.status # "completed"
    /\ project.funded
    /\ call.stage = "after" => project.drafted
    /\ e \in active
    /\ ~(call.status = "scheduled" /\ call.editor = e /\ call.slot = slot)
    /\ scheduling' = [editor |-> e, slot |-> slot]
    /\ UNCHANGED <<people, forms, sent, talk, call, told>>

\* Mutant: the consultant who is replaced is not told.
AnnouncedNew(e, slot) == [told EXCEPT ![Client] = Says("scheduled", slot),
                                      ![e] = Says("scheduled", slot)]

\* The notices of a schedule: to the client, the consultant and a former one.
Announced(e, slot) ==
    [u \in User |->
        IF u \in {Client, e} THEN Says("scheduled", slot)
        ELSE IF u = call.editor THEN Says("moved", None)
        ELSE told[u]]

\* ... and the rest of it.
CommitSchedule ==
    LET e == scheduling.editor
    IN /\ scheduling # Idle
       /\ call' = [call EXCEPT !.status = "scheduled", !.editor = e, !.slot = scheduling.slot]
       /\ told' = Announced(e, scheduling.slot)
       /\ scheduling' = Idle
       /\ UNCHANGED <<people, forms, sent, talk>>

\* Mutant: a consultation nobody holds can be completed.
CompletableAnyhow == call.status = "scheduled"

Completable == call.status = "scheduled" /\ call.editor # None

\* complete_call; completing again changes nothing.
CompleteCall(a) ==
    /\ scheduling = Idle
    /\ a \in active
    /\ Completable
    /\ call' = [call EXCEPT !.status = "completed"]
    /\ told' = [u \in User |-> IF u \in {Client, call.editor} THEN Says("completed", call.slot)
                               ELSE told[u]]
    /\ UNCHANGED <<people, forms, sent, talk, scheduling>>

-----------------------------------------------------------------------------
(* The rest of the system *)

\* An assignment, automatic or not (Allocation).
Assign(e) ==
    /\ ~project.completed
    /\ holder # e
    /\ holder' = e
    /\ past' = past \cup {e}
    /\ UNCHANGED <<active, project, forms, sent, talk, calls>>

\* A version is submitted, the delivery accepted (Review), or the payment of
\* the order set back to failed (Checkout).
Milestone ==
    /\ \/ ~project.drafted /\ holder # None /\ project' = [project EXCEPT !.drafted = TRUE]
       \/ /\ project.drafted /\ ~project.completed /\ ~project.archived /\ holder # None
          /\ project' = [project EXCEPT !.completed = TRUE]
       \/ project.funded /\ project' = [project EXCEPT !.funded = FALSE]
    /\ UNCHANGED <<active, holder, past, forms, sent, talk, calls>>

\* archive_deleted_identity.  It waits for a call row that names the editor and
\* is locked, not for one that is about to.
DeleteEditor(e) ==
    /\ e \in active
    /\ scheduling # Idle => call.editor # e
    /\ active' = active \ {e}
    /\ holder' = IF holder = e THEN None ELSE holder
    /\ call' = IF call.editor = e THEN [call EXCEPT !.editor = None] ELSE call
    /\ UNCHANGED <<project, past, forms, sent, talk, scheduling, told>>

DeleteClient ==
    /\ Client \in active
    /\ active' = active \ {Client}
    /\ project' = [project EXCEPT !.archived = TRUE]
    /\ UNCHANGED <<holder, past, forms, sent, talk, calls>>

DeleteAdmin(a) ==
    /\ a \in active
    /\ Cardinality(Admin \cap active) > 1
    /\ active' = active \ {a}
    /\ UNCHANGED <<project, holder, past, forms, sent, talk, calls>>

-----------------------------------------------------------------------------

\* The project was just paid; create_paid_calls made the request.
Init ==
    /\ active = User
    /\ project = [completed |-> FALSE, archived |-> FALSE, funded |-> TRUE, drafted |-> FALSE]
    /\ holder = None /\ past = {}
    /\ forms = {} /\ sent = 0
    /\ messages = [k \in Key |-> NoRow]
    /\ tickets = [k \in Key |-> NoTicket]
    /\ replies = [k \in Key |-> NoRow]
    /\ notices = {}
    /\ \E stage \in {"before", "after"} :
          call = [stage |-> stage, status |-> "requested", editor |-> None, slot |-> None]
    /\ scheduling = Idle
    /\ told = [u \in User |-> IF u \in {Client} \cup Admin THEN Says("requested", None) ELSE Quiet]

Converse ==
    \/ \E f \in Form : SendMessage(f)
    \/ \E f \in forms, repeated \in BOOLEAN : PostMessage(f, repeated)
    \/ \E f \in forms : RefuseMessage(f)

Support ==
    \/ \E f \in Form : SendTicket(f) \/ SendReply(f)
    \/ \E f \in forms, repeated \in BOOLEAN : OpenTicket(f, repeated) \/ PostReply(f, repeated)
    \/ \E f \in forms : RefuseSupport(f)
    \/ \E a \in Admin, k \in Key, new \in Status : ChangeStatus(a, k, new)

Consult ==
    \/ \E a \in Admin, e \in Editor, slot \in Slot : BeginSchedule(a, e, slot)
    \/ CommitSchedule
    \/ \E a \in Admin : CompleteCall(a)

Change ==
    \/ \E e \in Editor : Assign(e) \/ DeleteEditor(e)
    \/ \E a \in Admin : DeleteAdmin(a)
    \/ Milestone \/ DeleteClient

Next == Converse \/ Support \/ Consult \/ Change

Spec == Init /\ [][Next]_vars

-----------------------------------------------------------------------------
(* communication_reconciliation_report, the rules about authors *)

MessageFindings ==
    {k \in Key : /\ messages[k] # NoRow
                 /\ messages[k].author = Client => messages[k].audience # "shared"
                 /\ messages[k].author \notin Admin
                 /\ messages[k].author \notin past}

\* A request and its first message, which has the same key.
OpeningFindings ==
    {k \in Key : /\ tickets[k] # NoTicket
                 /\ \/ replies[k] = NoRow
                    \/ replies[k].author # Client
                    \/ replies[k].audience # "shared"
                    \/ replies[k].ticket # k}

ReplyFindings ==
    {k \in Key : /\ replies[k] # NoRow
                 /\ replies[k].author \notin Admin
                 /\ ~(replies[k].author = Client /\ replies[k].audience = "shared")}

-----------------------------------------------------------------------------
(* Safety *)

Noticed(of, k) == {n.recipient : n \in {m \in notices : m.of = of /\ m.key = k}}

\* Whoever is assigned, replaced or deleted while forms are on their way: every
\* row is announced to the people it is for and to nobody else.  A message
\* reaches the client exactly if it is shared and not the client's own, at most
\* one editor, who was assigned at some time, and never its author; notes among
\* the team stay there ("internal notes never enter client views or notices");
\* and whoever got a notice and still sees the project can read the row.
NoticesMatchRows ==
    /\ \A k \in Key :
          LET row == messages[k]
              to  == Noticed("message", k)
          IN  IF row = NoRow THEN to = {}
              ELSE /\ Client \in to <=> row.audience = "shared" /\ row.author # Client
                   /\ row.author \notin to
                   /\ to \cap Editor \subseteq past
                   /\ Cardinality(to \cap Editor) <= 1
    /\ \A k \in Key :
          /\ Noticed("opened", k) \subseteq Admin
          /\ Noticed("opened", k) # {} => tickets[k] # NoTicket
          /\ Client \in Noticed("reply", k) <=>
                replies[k] # NoRow /\ replies[k].author \in Admin /\ replies[k].audience = "shared"
    /\ \A n \in notices :
          CASE n.of = "message" -> Visible(n.recipient) => n.key \in VisibleMessages(n.recipient)
            [] OTHER -> n.key \in VisibleReplies(n.recipient)

\* The communication report finds no author or audience out of place, whatever
\* races between the page a form was sent from and its arrival.
CommunicationReconciles ==
    MessageFindings = {} /\ OpeningFindings = {} /\ ReplyFindings = {}

\* Everybody concerned knows the consultation as it is: the client its status
\* and time, an editor with an account that it is theirs at that time, or not
\* any more.  It takes reschedules, changes of consultant, deletions and a
\* completion in any order.
CallIsAnnounced ==
    /\ told[Client] = Says(call.status, call.slot)
    /\ \A e \in Editor \cap active :
          /\ call.editor = e <=> told[e].word \in {"scheduled", "completed"}
          /\ call.editor = e => told[e] = Says(call.status, call.slot)

-----------------------------------------------------------------------------
(* Action properties *)

\* A form sent twice is one row with one set of notices, also if the project was
\* reassigned or completed in between, and a completed project takes no new
\* message ("messaging is disabled").
RepeatsChangeNothing ==
    [][/\ \A k \in Key : messages[k] # NoRow =>
             messages'[k] = messages[k] /\ Noticed("message", k)' = Noticed("message", k)
       /\ \A k \in Key : replies[k] # NoRow =>
             replies'[k] = replies[k] /\ Noticed("reply", k)' = Noticed("reply", k)
       /\ project.completed => messages' = messages]_vars

\* A consultation is completed once, by an editor who had it scheduled.
CompletedWasHeld ==
    [][call.status = "completed" \/ call'.status = "completed" =>
          /\ call'.status = "completed"
          /\ call'.slot = call.slot
          /\ call.status # "completed" => call.editor # None]_vars

-----------------------------------------------------------------------------
(* What one would expect, and the code does not keep *)

\* A scheduled consultation has a consultant with an account.
ScheduledHasConsultant == call.status = "scheduled" => call.editor \in active

=============================================================================
