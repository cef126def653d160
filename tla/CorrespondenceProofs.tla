------------------------ MODULE CorrespondenceProofs ------------------------
(* Who reads what about a project, and what everybody was told of its        *)
(* consultation, whatever the number of people, keys, forms and changes.     *)
EXTENDS Correspondence, FiniteSetTheorems, TLAPS

\* The notice about row k that was sent to u.
Got(of, k, u) == [of |-> of, key |-> k, recipient |-> u] \in notices

\* A support form is the client's request or an administrator's reply.
FormsSound == \A f \in forms :
    f.to = "support" => \/ f.author = Client /\ f.ticket = f.key
                        \/ f.author \in Admin

MessageSound(k) ==
    /\ messages[k] = NoRow => \A u \in User : ~Got("message", k, u)
    /\ messages[k] # NoRow =>
          /\ messages[k].author = Client => messages[k].audience = "shared"
          /\ messages[k].author \in {Client} \cup Admin \cup past
          /\ ~Got("message", k, messages[k].author)
          /\ Got("message", k, Client) <=>
                messages[k].audience = "shared" /\ messages[k].author # Client
          /\ \E h \in past \cup {None} : \A e \in Editor : Got("message", k, e) => e = h

TicketSound(k) ==
    /\ \A u \in User : Got("opened", k, u) => u \in Admin /\ tickets[k] # NoTicket
    /\ tickets[k] # NoTicket =>
          /\ replies[k] # NoRow
          /\ replies[k].author = Client /\ replies[k].audience = "shared" /\ replies[k].ticket = k

ReplySound(k) ==
    /\ \A u \in User : Got("reply", k, u) => u = Client
    /\ Got("reply", k, Client) <=>
          replies[k] # NoRow /\ replies[k].author \in Admin /\ replies[k].audience = "shared"
    /\ replies[k] # NoRow =>
          \/ replies[k].author \in Admin
          \/ replies[k].author = Client /\ replies[k].audience = "shared"

TalkSound == \A k \in Key : MessageSound(k) /\ TicketSound(k) /\ ReplySound(k)

CallSound ==
    /\ scheduling # Idle => scheduling.editor \in Editor /\ call.status # "completed"
    /\ CallIsAnnounced

\* The inductive invariant.
CInv == /\ TypeOK
        /\ holder # None => holder \in past
        /\ FormsSound
        /\ TalkSound
        /\ CallSound

USE CorrespondenceAssumption DEF User

-----------------------------------------------------------------------------

LEMMA InitInvariant == Init => CInv
<1> SUFFICES ASSUME Init PROVE CInv
  OBVIOUS
<1>1. TypeOK
  <2>1. call \in CallRow
    BY DEF Init, CallRow
  <2>2. told \in [User -> Word]
    BY DEF Init, Says, Quiet, Word
  <2>3. scheduling \in [editor : Editor \cup {None}, slot : Slot \cup {None}]
    BY DEF Init, Idle
  <2>4. project \in [completed : BOOLEAN, archived : BOOLEAN, funded : BOOLEAN, drafted : BOOLEAN]
    BY DEF Init
  <2>5. QED
    BY <2>1, <2>2, <2>3, <2>4 DEF Init, TypeOK
<1>2. TalkSound
  BY DEF Init, TalkSound, MessageSound, TicketSound, ReplySound, Got, NoRow, NoTicket
<1>3. CallSound
  BY DEF Init, CallSound, CallIsAnnounced, Says, Quiet, Idle
<1>4. QED
  BY <1>1, <1>2, <1>3 DEF Init, CInv, FormsSound

\* The rows are told from their absence by their author and status.
LEMMA Rows ==
    ASSUME TypeOK, NEW k \in Key
    PROVE  /\ messages[k] # NoRow => messages[k] \in Row
           /\ replies[k] # NoRow => replies[k] \in Reply
           /\ \A r \in Row \cup Reply : r # NoRow
           /\ \A s \in Status : [status |-> s] # NoTicket
  BY DEF TypeOK, Row, Reply, NoRow, NoTicket

LEMMA CallSame == ASSUME CallSound, UNCHANGED <<calls, active>> PROVE CallSound'
  BY DEF CallSound, CallIsAnnounced, calls

LEMMA TalkSame ==
    ASSUME TalkSound, UNCHANGED talk, past \subseteq past' PROVE TalkSound'
<1> SUFFICES ASSUME NEW k \in Key PROVE (MessageSound(k) /\ TicketSound(k) /\ ReplySound(k))'
  BY DEF TalkSound
<1>1. MessageSound(k) /\ TicketSound(k) /\ ReplySound(k)
  BY DEF TalkSound
<1>2. QED
  BY <1>1 DEF MessageSound, TicketSound, ReplySound, Got, talk

\* The notices a form adds.
LEMMA Added ==
    ASSUME TypeOK, NEW of \in {"message", "opened", "reply"}, NEW k \in Key,
           NEW users \in SUBSET User, Notify(of, k, users)
    PROVE  /\ notices' \in SUBSET Event
           /\ \A o, j, u : Got(o, j, u)' <=> Got(o, j, u) \/ (o = of /\ j = k /\ u \in users)
<1> DEFINE new == {[of |-> of, key |-> k, recipient |-> u] : u \in users}
<1>1. notices' = notices \cup new
  BY DEF Notify
<1>2. new \subseteq Event
  BY DEF Event
<1>3. ASSUME NEW o, NEW j, NEW u
      PROVE  [of |-> o, key |-> j, recipient |-> u] \in new <=> o = of /\ j = k /\ u \in users
  <2> DEFINE n == [of |-> o, key |-> j, recipient |-> u]
  <2>1. n.of = o /\ n.key = j /\ n.recipient = u
    OBVIOUS
  <2>2. ASSUME n \in new PROVE o = of /\ j = k /\ u \in users
    <3>1. PICK v \in users : n = [of |-> of, key |-> k, recipient |-> v]
      BY <2>2
    <3>2. n.of = of /\ n.key = k /\ n.recipient = v
      BY <3>1
    <3>3. QED
      BY <2>1, <3>2
  <2>3. ASSUME o = of /\ j = k /\ u \in users PROVE n \in new
    BY <2>3
  <2>4. QED
    BY <2>2, <2>3
<1> HIDE DEF new
<1>4. notices' \in SUBSET Event
  BY <1>1, <1>2 DEF TypeOK
<1>5. \A o, j, u : Got(o, j, u)' <=> Got(o, j, u) \/ (o = of /\ j = k /\ u \in users)
  BY <1>1, <1>3 DEF Got
<1>6. QED
  BY <1>4, <1>5

-----------------------------------------------------------------------------

LEMMA SendInvariant ==
    ASSUME CInv, NEW f \in Form, SendMessage(f) \/ SendTicket(f) \/ SendReply(f) PROVE CInv'
<1>1. Send(f)
  BY DEF SendMessage, SendTicket, SendReply
<1>2. f.to = "support" => f.author \in Admin \/ (f.author = Client /\ f.ticket = f.key)
  BY DEF SendMessage, SendTicket, SendReply
<1>3. TypeOK' /\ FormsSound'
  BY <1>1, <1>2 DEF Send, CInv, TypeOK, FormsSound, people, talk, calls
<1>4. QED
  BY <1>1, <1>3, TalkSame, CallSame DEF CInv, Send, people

LEMMA RefuseInvariant ==
    ASSUME CInv, NEW f \in forms, RefuseMessage(f) \/ RefuseSupport(f) PROVE CInv'
<1>1. forms' \subseteq forms /\ UNCHANGED <<people, sent, talk, calls>>
  BY DEF RefuseMessage, RefuseSupport, Arrive
<1>2. TypeOK' /\ FormsSound'
  BY <1>1 DEF CInv, TypeOK, FormsSound, people, talk, calls
<1>3. QED
  BY <1>1, <1>2, TalkSame, CallSame DEF CInv, people

LEMMA PostMessageInvariant ==
    ASSUME CInv, NEW f \in forms, NEW repeated \in BOOLEAN, PostMessage(f, repeated) PROVE CInv'
<1> DEFINE row == [author |-> f.author, audience |-> f.audience, body |-> f.body]
           k == f.key
<1>1. f \in Form /\ f.key \in Key /\ f.author \in User /\ row \in Row
  BY DEF CInv, TypeOK, Form, Row
<1>2. messages' = [messages EXCEPT ![k] = row] /\ messages[k] = NoRow
  BY DEF PostMessage, Postable
<1>3. forms' \subseteq forms /\ UNCHANGED <<people, sent, tickets, replies, calls>>
  BY DEF PostMessage, Arrive
<1>4. Recipients(f) \in SUBSET User
  BY DEF Recipients, CInv, TypeOK
<1>5. /\ notices' \in SUBSET Event
      /\ \A o, j, u : Got(o, j, u)' <=> Got(o, j, u) \/ (o = "message" /\ j = k /\ u \in Recipients(f))
  BY <1>1, <1>4, Added DEF PostMessage, CInv
<1>6. messages'[k] = row /\ \A j \in Key \ {k} : messages'[j] = messages[j]
  BY <1>1, <1>2 DEF CInv, TypeOK
<1>7. TypeOK'
  <2>1. messages' \in [Key -> Row \cup {NoRow}]
    BY <1>1, <1>2 DEF CInv, TypeOK
  <2>2. QED
    BY <1>3, <1>5, <2>1 DEF CInv, TypeOK, people, calls
<1>8. MessageSound(k)'
  <2>1. row # NoRow
    BY <1>1, Rows DEF CInv
  <2>2. \A u \in User : ~Got("message", k, u)
    BY <1>1, <1>2 DEF CInv, TalkSound, MessageSound
  <2>3. \A u \in User : Got("message", k, u)' <=> u \in Recipients(f)
    BY <1>5, <2>2
  <2>4. Allowed(f) /\ Visible(f.author)
    BY DEF PostMessage, Postable
  <2>5. row.author = Client => row.audience = "shared"
    BY <2>4 DEF Allowed
  <2>6. row.author \in {Client} \cup Admin \cup past'
    BY <1>1, <1>3, <2>4 DEF Visible, CInv, TypeOK, people
  <2>7. Client \in Recipients(f) <=> row.audience = "shared" /\ row.author # Client
    BY DEF Recipients, CInv, TypeOK
  <2>8. f.author \notin Recipients(f)
    BY DEF Recipients
  <2>9. \E h \in past' \cup {None} : \A e \in Editor : Got("message", k, e)' => e = h
    <3>1. holder \in past' \cup {None}
      BY <1>3 DEF CInv, people
    <3>2. \A e \in Editor : Got("message", k, e)' => e = holder
      BY <2>3 DEF Recipients
    <3>3. QED
      BY <3>1, <3>2
  <2>10. row.author = f.author /\ row.author \in User
    BY <1>1
  <2> HIDE DEF row
  <2>11. QED
    BY <1>6, <2>1, <2>3, <2>5, <2>6, <2>7, <2>8, <2>9, <2>10 DEF MessageSound
<1>9. ASSUME NEW j \in Key, j # k PROVE MessageSound(j)'
  BY <1>3, <1>5, <1>6, <1>9 DEF CInv, TalkSound, MessageSound, people
<1>10. ASSUME NEW j \in Key PROVE TicketSound(j)' /\ ReplySound(j)'
  BY <1>3, <1>5 DEF CInv, TalkSound, TicketSound, ReplySound
<1>11. TalkSound'
  BY <1>8, <1>9, <1>10 DEF TalkSound
<1>12. FormsSound'
  BY <1>3 DEF CInv, FormsSound
<1>13. QED
  BY <1>3, <1>7, <1>11, <1>12, CallSame DEF CInv, people

LEMMA OpenTicketInvariant ==
    ASSUME CInv, NEW f \in forms, NEW repeated \in BOOLEAN, OpenTicket(f, repeated) PROVE CInv'
<1> DEFINE k == f.key
<1>1. f \in Form /\ k \in Key /\ f.author = Client /\ f.to = "support"
  BY DEF CInv, TypeOK, Form, OpenTicket
<1>2. /\ Opening(f) \in Reply /\ Opening(f).author = Client
      /\ Opening(f).audience = "shared" /\ Opening(f).ticket = k
  <2>1. f.ticket = k
    BY <1>1 DEF CInv, FormsSound
  <2>2. QED
    BY <1>1, <2>1 DEF Opening, Answer, Reply, Form, Audiences
<1>3. /\ tickets' = [tickets EXCEPT ![k] = [status |-> "open"]] /\ tickets[k] = NoTicket
      /\ replies' = [replies EXCEPT ![k] = Opening(f)] /\ replies[k] = NoRow
  BY DEF OpenTicket
<1>4. forms' \subseteq forms /\ UNCHANGED <<people, sent, messages, calls>>
  BY DEF OpenTicket, Arrive
<1>5. /\ notices' \in SUBSET Event
      /\ \A o, j, u : Got(o, j, u)' <=> Got(o, j, u) \/ (o = "opened" /\ j = k /\ u \in Admin \cap active)
  BY <1>1, Added DEF OpenTicket, CInv, TypeOK
<1>6. /\ tickets'[k] = [status |-> "open"] /\ replies'[k] = Opening(f)
      /\ \A j \in Key \ {k} : tickets'[j] = tickets[j] /\ replies'[j] = replies[j]
  BY <1>1, <1>3 DEF CInv, TypeOK
<1>7. TypeOK'
  <2>1. tickets' \in [Key -> [status : Status] \cup {NoTicket}]
    BY <1>1, <1>3 DEF CInv, TypeOK
  <2>2. replies' \in [Key -> Reply \cup {NoRow}]
    BY <1>1, <1>2, <1>3 DEF CInv, TypeOK
  <2>3. QED
    BY <1>4, <1>5, <2>1, <2>2 DEF CInv, TypeOK, people, calls
<1>8. tickets'[k] # NoTicket /\ replies'[k] # NoRow
  BY <1>1, <1>2, <1>6, Rows DEF CInv
<1>9. TicketSound(k)'
  BY <1>1, <1>2, <1>5, <1>6, <1>8 DEF CInv, TalkSound, TicketSound
<1>10. ReplySound(k)'
  <2>1. \A u \in User : ~Got("reply", k, u)
    BY <1>1, <1>3 DEF CInv, TalkSound, ReplySound
  <2>2. QED
    BY <1>1, <1>2, <1>5, <1>6, <1>8, <2>1 DEF ReplySound
<1>11. ASSUME NEW j \in Key, j # k PROVE TicketSound(j)' /\ ReplySound(j)'
  BY <1>5, <1>6, <1>11 DEF CInv, TalkSound, TicketSound, ReplySound
<1>12. ASSUME NEW j \in Key PROVE MessageSound(j)'
  BY <1>4, <1>5 DEF CInv, TalkSound, MessageSound, people
<1>13. TalkSound'
  BY <1>9, <1>10, <1>11, <1>12 DEF TalkSound
<1>14. FormsSound'
  BY <1>4 DEF CInv, FormsSound
<1>15. QED
  BY <1>4, <1>7, <1>13, <1>14, CallSame DEF CInv, people

LEMMA PostReplyInvariant ==
    ASSUME CInv, NEW f \in forms, NEW repeated \in BOOLEAN, PostReply(f, repeated) PROVE CInv'
<1> DEFINE k == f.key
           users == IF f.audience = "shared" THEN {Client} ELSE {}
<1>1. f \in Form /\ k \in Key /\ f.author \in Admin
  BY DEF CInv, TypeOK, Form, PostReply
<1>2. Answer(f) \in Reply /\ Answer(f).author = f.author /\ Answer(f).audience = f.audience
  BY <1>1 DEF Answer, Reply, Form
<1>3. replies' = [replies EXCEPT ![k] = Answer(f)] /\ replies[k] = NoRow
  BY DEF PostReply
<1>4. forms' \subseteq forms /\ UNCHANGED <<people, sent, messages, tickets, calls>>
  BY DEF PostReply, Arrive
<1>5. /\ notices' \in SUBSET Event
      /\ \A o, j, u : Got(o, j, u)' <=> Got(o, j, u) \/ (o = "reply" /\ j = k /\ u \in users)
  BY <1>1, Added DEF PostReply, CInv
<1>6. replies'[k] = Answer(f) /\ \A j \in Key \ {k} : replies'[j] = replies[j]
  BY <1>1, <1>3 DEF CInv, TypeOK
<1>7. TypeOK'
  <2>1. replies' \in [Key -> Reply \cup {NoRow}]
    BY <1>1, <1>2, <1>3 DEF CInv, TypeOK
  <2>2. QED
    BY <1>4, <1>5, <2>1 DEF CInv, TypeOK, people, calls
<1>8. replies'[k] # NoRow
  BY <1>1, <1>2, <1>6, Rows DEF CInv
<1>9. TicketSound(k)'
  BY <1>1, <1>3, <1>4, <1>5 DEF CInv, TalkSound, TicketSound
<1>10. ReplySound(k)'
  <2>1. \A u \in User : ~Got("reply", k, u)
    BY <1>1, <1>3 DEF CInv, TalkSound, ReplySound
  <2>2. QED
    BY <1>1, <1>2, <1>5, <1>6, <1>8, <2>1 DEF ReplySound
<1>11. ASSUME NEW j \in Key, j # k PROVE TicketSound(j)' /\ ReplySound(j)'
  BY <1>4, <1>5, <1>6, <1>11 DEF CInv, TalkSound, TicketSound, ReplySound
<1>12. ASSUME NEW j \in Key PROVE MessageSound(j)'
  BY <1>4, <1>5 DEF CInv, TalkSound, MessageSound, people
<1>13. TalkSound'
  BY <1>9, <1>10, <1>11, <1>12 DEF TalkSound
<1>14. FormsSound'
  BY <1>4 DEF CInv, FormsSound
<1>15. QED
  BY <1>4, <1>7, <1>13, <1>14, CallSame DEF CInv, people

LEMMA ChangeStatusInvariant ==
    ASSUME CInv, NEW a \in Admin, NEW k \in Key, NEW new \in Status, ChangeStatus(a, k, new)
    PROVE  CInv'
<1>1. /\ tickets' = [tickets EXCEPT ![k].status = new] /\ tickets[k] # NoTicket
      /\ UNCHANGED <<people, forms, sent, messages, replies, notices, calls>>
  BY DEF ChangeStatus
<1>2. tickets[k] \in [status : Status]
  BY <1>1 DEF CInv, TypeOK
<1>3. tickets'[k] = [status |-> new] /\ \A j \in Key \ {k} : tickets'[j] = tickets[j]
  BY <1>1, <1>2 DEF CInv, TypeOK
<1>4. tickets' \in [Key -> [status : Status] \cup {NoTicket}]
  BY <1>1, <1>2 DEF CInv, TypeOK
<1>5. tickets'[k] # NoTicket
  BY <1>3, Rows DEF CInv
<1>6. TypeOK'
  BY <1>1, <1>4 DEF CInv, TypeOK, people, calls
<1>7. ASSUME NEW j \in Key PROVE MessageSound(j)' /\ ReplySound(j)'
  BY <1>1 DEF CInv, TalkSound, MessageSound, ReplySound, Got, people
<1>8. ASSUME NEW j \in Key PROVE TicketSound(j)'
  BY <1>1, <1>3, <1>5 DEF CInv, TalkSound, TicketSound, Got
<1>9. QED
  BY <1>1, <1>6, <1>7, <1>8, CallSame DEF CInv, TalkSound, FormsSound, people

-----------------------------------------------------------------------------

LEMMA BeginScheduleInvariant ==
    ASSUME CInv, NEW a \in Admin, NEW e \in Editor, NEW slot \in Slot, BeginSchedule(a, e, slot)
    PROVE  CInv'
<1>1. TypeOK' /\ UNCHANGED <<people, forms, talk, call, told>>
  BY DEF BeginSchedule, CInv, TypeOK, people, talk
<1>2. CallSound'
  BY DEF BeginSchedule, CInv, CallSound, CallIsAnnounced, people
<1>3. QED
  BY <1>1, <1>2, TalkSame DEF CInv, FormsSound, people

LEMMA CommitScheduleInvariant == ASSUME CInv, CommitSchedule PROVE CInv'
<1> DEFINE e == scheduling.editor
<1>1. e \in Editor /\ scheduling.slot \in Slot \cup {None}
  BY DEF CommitSchedule, CInv, CallSound, TypeOK
<1>2. /\ UNCHANGED <<people, forms, sent, talk>> /\ scheduling' = Idle
      /\ told' = Announced(e, scheduling.slot)
  BY DEF CommitSchedule
<1>3. /\ call' \in CallRow /\ call'.status = "scheduled"
      /\ call'.editor = e /\ call'.slot = scheduling.slot
  BY <1>1 DEF CommitSchedule, CInv, TypeOK, CallRow
<1>4. \A u \in User : told'[u] = IF u \in {Client, e} THEN Says("scheduled", scheduling.slot)
                                 ELSE IF u = call.editor THEN Says("moved", None)
                                 ELSE told[u]
  BY <1>2 DEF Announced
<1>5. told' \in [User -> Word]
  BY <1>1, <1>2 DEF Announced, Says, Word, CInv, TypeOK
<1>6. TypeOK'
  BY <1>2, <1>3, <1>5 DEF CInv, TypeOK, Idle, people, talk
<1>7. CallSound'
  <2>1. told'[Client] = Says(call'.status, call'.slot)
    BY <1>3, <1>4
  <2>2. ASSUME NEW d \in Editor, d \in active'
        PROVE  /\ call'.editor = d <=> told'[d].word \in {"scheduled", "completed"}
               /\ call'.editor = d => told'[d] = Says(call'.status, call'.slot)
    <3>1. d \in active /\ d # Client /\ (call.editor = d <=> told[d].word \in {"scheduled", "completed"})
      BY <1>2, <2>2 DEF CInv, CallSound, CallIsAnnounced, people
    <3>2. CASE d = e
      BY <1>3, <1>4, <3>2 DEF Says
    <3>3. CASE d # e
      BY <1>3, <1>4, <3>1, <3>3 DEF Says
    <3>4. QED
      BY <3>2, <3>3
  <2>3. QED
    BY <1>2, <2>1, <2>2 DEF CallSound, CallIsAnnounced
<1>8. QED
  BY <1>2, <1>6, <1>7, TalkSame DEF CInv, FormsSound, people

LEMMA CompleteCallInvariant == ASSUME CInv, NEW a \in Admin, CompleteCall(a) PROVE CInv'
<1>1. call.editor \in Editor /\ call.status = "scheduled" /\ scheduling = Idle
  BY DEF CompleteCall, Completable, CInv, TypeOK, CallRow
<1>2. UNCHANGED <<people, forms, sent, talk, scheduling>>
  BY DEF CompleteCall
<1>3. /\ call' \in CallRow /\ call'.status = "completed"
      /\ call'.editor = call.editor /\ call'.slot = call.slot
  BY DEF CompleteCall, CInv, TypeOK, CallRow
<1>4. \A u \in User : told'[u] = IF u \in {Client, call.editor} THEN Says("completed", call.slot)
                                 ELSE told[u]
  BY DEF CompleteCall
<1>5. told' \in [User -> Word]
  BY DEF CompleteCall, Says, Word, CInv, TypeOK, CallRow
<1>6. TypeOK'
  BY <1>2, <1>3, <1>5 DEF CInv, TypeOK, people, talk
<1>7. CallSound'
  <2>1. told'[Client] = Says(call'.status, call'.slot)
    BY <1>3, <1>4
  <2>2. ASSUME NEW d \in Editor, d \in active'
        PROVE  /\ call'.editor = d <=> told'[d].word \in {"scheduled", "completed"}
               /\ call'.editor = d => told'[d] = Says(call'.status, call'.slot)
    <3>1. d # Client /\ (call.editor = d <=> told[d].word \in {"scheduled", "completed"})
      BY <1>2, <2>2 DEF CInv, CallSound, CallIsAnnounced, people
    <3>2. QED
      BY <1>3, <1>4, <3>1 DEF Says
  <2>3. QED
    BY <1>1, <1>2, <2>1, <2>2 DEF CallSound, CallIsAnnounced
<1>8. QED
  BY <1>2, <1>6, <1>7, TalkSame DEF CInv, FormsSound, people

LEMMA ChangeInvariant == ASSUME CInv, Change PROVE CInv'
<1>1. ASSUME NEW e \in Editor, Assign(e) PROVE CInv'
  <2>1. TypeOK' /\ past \subseteq past' /\ holder' \in past'
    BY <1>1 DEF Assign, CInv, TypeOK, talk, calls
  <2>2. UNCHANGED <<active, forms, talk, calls>>
    BY <1>1 DEF Assign
  <2>3. QED
    BY <2>1, <2>2, TalkSame, CallSame DEF CInv, FormsSound
<1>2. CASE Milestone
  <2>1. TypeOK' /\ UNCHANGED <<active, holder, past, forms, talk, calls>>
    BY <1>2 DEF Milestone, CInv, TypeOK, talk, calls
  <2>2. QED
    BY <2>1, TalkSame, CallSame DEF CInv, FormsSound
<1>3. ASSUME NEW e \in Editor, DeleteEditor(e) PROVE CInv'
  <2>1. /\ active' = active \ {e} /\ holder' \in {holder, None}
        /\ UNCHANGED <<project, past, forms, sent, talk, scheduling, told>>
    BY <1>3 DEF DeleteEditor
  <2>2. /\ call' \in CallRow /\ call'.status = call.status /\ call'.slot = call.slot
        /\ call'.editor = IF call.editor = e THEN None ELSE call.editor
    BY <1>3 DEF DeleteEditor, CInv, TypeOK, CallRow
  <2>3. TypeOK'
    BY <2>1, <2>2 DEF CInv, TypeOK, talk
  <2>4. CallSound'
    BY <2>1, <2>2 DEF CInv, CallSound, CallIsAnnounced
  <2>5. QED
    BY <2>1, <2>3, <2>4, TalkSame DEF CInv, FormsSound
<1>4. CASE DeleteClient
  <2>1. TypeOK' /\ active' \subseteq active /\ UNCHANGED <<holder, past, forms, talk, calls>>
    BY <1>4 DEF DeleteClient, CInv, TypeOK, talk, calls
  <2>2. CallSound'
    BY <2>1 DEF CInv, CallSound, CallIsAnnounced, calls
  <2>3. QED
    BY <2>1, <2>2, TalkSame DEF CInv, FormsSound
<1>5. ASSUME NEW a \in Admin, DeleteAdmin(a) PROVE CInv'
  <2>1. TypeOK' /\ active' \subseteq active /\ UNCHANGED <<holder, past, forms, talk, calls>>
    BY <1>5 DEF DeleteAdmin, CInv, TypeOK, talk, calls
  <2>2. CallSound'
    BY <2>1 DEF CInv, CallSound, CallIsAnnounced, calls
  <2>3. QED
    BY <2>1, <2>2, TalkSame DEF CInv, FormsSound
<1>6. QED
  BY <1>1, <1>2, <1>3, <1>4, <1>5 DEF Change

LEMMA NextInvariant == CInv /\ [Next]_vars => CInv'
<1> SUFFICES ASSUME CInv, [Next]_vars PROVE CInv'
  OBVIOUS
<1>1. CASE Converse
  BY <1>1, SendInvariant, RefuseInvariant, PostMessageInvariant DEF Converse
<1>2. CASE Support
  BY <1>2, SendInvariant, RefuseInvariant, OpenTicketInvariant, PostReplyInvariant,
     ChangeStatusInvariant DEF Support
<1>3. CASE Consult
  BY <1>3, BeginScheduleInvariant, CommitScheduleInvariant, CompleteCallInvariant DEF Consult
<1>4. CASE UNCHANGED vars
  <2>1. TypeOK' /\ UNCHANGED <<active, holder, past, forms, talk, calls>>
    BY <1>4 DEF vars, people, talk, calls, CInv, TypeOK
  <2>2. QED
    BY <2>1, TalkSame, CallSame DEF CInv, FormsSound
<1>5. QED
  BY <1>1, <1>2, <1>3, <1>4, ChangeInvariant DEF Next

\* The inductive invariant holds in every behaviour.
THEOREM CorrespondenceInvariant == Spec => []CInv
<1>1. QED
  BY InitInvariant, NextInvariant, PTL DEF Spec

\* Type correctness, for any people, keys, bodies and bounds.
THEOREM CorrespondenceTypeOK == Spec => []TypeOK
<1>1. CInv => TypeOK
  BY DEF CInv
<1>2. QED
  BY <1>1, CorrespondenceInvariant, PTL

\* schedule_call, complete_call: everybody concerned knows the consultation as
\* it is.
THEOREM CorrespondenceCallIsAnnounced == Spec => []CallIsAnnounced
<1>1. CInv => CallIsAnnounced
  BY DEF CInv, CallSound
<1>2. QED
  BY <1>1, CorrespondenceInvariant, PTL

\* communication_reconciliation_report finds no author or audience out of place.
THEOREM CorrespondenceReconciles == Spec => []CommunicationReconciles
<1>1. CInv => CommunicationReconciles
  <2> SUFFICES ASSUME CInv PROVE CommunicationReconciles
    OBVIOUS
  <2>1. MessageFindings = {}
    BY Rows DEF CInv, TalkSound, MessageSound, MessageFindings
  <2>2. OpeningFindings = {} /\ ReplyFindings = {}
    BY DEF CInv, TalkSound, TicketSound, ReplySound, OpeningFindings, ReplyFindings
  <2>3. QED
    BY <2>1, <2>2 DEF CommunicationReconciles
<1>2. QED
  BY <1>1, CorrespondenceInvariant, PTL

-----------------------------------------------------------------------------
(* Notices *)

LEMMA NoticedGot ==
    ASSUME TypeOK, NEW of, NEW k
    PROVE  Noticed(of, k) \in SUBSET User /\ \A u \in User : u \in Noticed(of, k) <=> Got(of, k, u)
  BY DEF TypeOK, Noticed, Got, Event

\* post_message, create_support_request, post_support_message: every row is
\* announced to the people it is for and to nobody else.
THEOREM CorrespondenceNoticesMatchRows == Spec => []NoticesMatchRows
<1>1. CInv => NoticesMatchRows
  <2> SUFFICES ASSUME CInv PROVE NoticesMatchRows
    OBVIOUS
  <2>1. ASSUME NEW k \in Key
        PROVE  LET row == messages[k]
                   to  == Noticed("message", k)
               IN  IF row = NoRow THEN to = {}
                   ELSE /\ Client \in to <=> row.audience = "shared" /\ row.author # Client
                        /\ row.author \notin to
                        /\ to \cap Editor \subseteq past
                        /\ Cardinality(to \cap Editor) <= 1
    <3> DEFINE to == Noticed("message", k)
    <3>1. to \in SUBSET User /\ \A u \in User : u \in to <=> Got("message", k, u)
      BY NoticedGot DEF CInv
    <3>2. MessageSound(k)
      BY DEF CInv, TalkSound
    <3> HIDE DEF to
    <3>3. CASE messages[k] = NoRow
      BY <3>1, <3>2, <3>3 DEF MessageSound, to
    <3>4. CASE messages[k] # NoRow
      <4>1. messages[k].author \in User
        BY <3>4, Rows DEF CInv, Row
      <4>2. PICK h \in past \cup {None} : \A e \in Editor : Got("message", k, e) => e = h
        BY <3>2, <3>4 DEF MessageSound
      <4>3. to \cap Editor \subseteq {h}
        BY <3>1, <4>2
      <4>4. to \cap Editor \subseteq past
        BY <4>2, <4>3 DEF CInv, TypeOK
      <4>5. Cardinality(to \cap Editor) <= 1
        <5>1. to \cap Editor = {} \/ to \cap Editor = {h}
          BY <4>3
        <5>2. Cardinality({}) = 0 /\ Cardinality({h}) = 1
          BY FS_EmptySet, FS_Singleton
        <5>3. QED
          BY <5>1, <5>2
      <4>6. QED
        BY <3>1, <3>2, <3>4, <4>1, <4>4, <4>5 DEF MessageSound, to
    <3>5. QED
      BY <3>3, <3>4
  <2>2. ASSUME NEW k \in Key
        PROVE  /\ Noticed("opened", k) \subseteq Admin
               /\ Noticed("opened", k) # {} => tickets[k] # NoTicket
               /\ Client \in Noticed("reply", k) <=>
                     replies[k] # NoRow /\ replies[k].author \in Admin /\ replies[k].audience = "shared"
    <3>1. TicketSound(k) /\ ReplySound(k)
      BY DEF CInv, TalkSound
    <3>2. /\ Noticed("opened", k) \in SUBSET User
          /\ \A u \in User : u \in Noticed("opened", k) <=> Got("opened", k, u)
          /\ \A u \in User : u \in Noticed("reply", k) <=> Got("reply", k, u)
      BY NoticedGot DEF CInv
    <3>3. QED
      BY <3>1, <3>2 DEF TicketSound, ReplySound
  <2>3. ASSUME NEW n \in notices
        PROVE  CASE n.of = "message" -> Visible(n.recipient) => n.key \in VisibleMessages(n.recipient)
                 [] OTHER -> n.key \in VisibleReplies(n.recipient)
    <3>1. /\ n \in Event /\ n.key \in Key /\ n.recipient \in User
          /\ n.of \in {"message", "opened", "reply"}
      BY DEF CInv, TypeOK, Event
    <3>2. Got(n.of, n.key, n.recipient)
      <4>1. n = [of |-> n.of, key |-> n.key, recipient |-> n.recipient]
        BY <3>1 DEF Event
      <4>2. QED
        BY <4>1 DEF Got
    <3>3. MessageSound(n.key) /\ TicketSound(n.key) /\ ReplySound(n.key)
      BY <3>1 DEF CInv, TalkSound
    <3>4. CASE n.of = "message"
      BY <3>1, <3>2, <3>3, <3>4 DEF MessageSound, VisibleMessages
    <3>5. CASE n.of = "opened"
      BY <3>1, <3>2, <3>3, <3>5 DEF TicketSound, VisibleReplies
    <3>6. CASE n.of = "reply"
      BY <3>1, <3>2, <3>3, <3>6 DEF ReplySound, VisibleReplies
    <3>7. QED
      BY <3>1, <3>4, <3>5, <3>6
  <2>4. QED
    BY <2>1, <2>2, <2>3 DEF NoticesMatchRows
<1>2. QED
  BY <1>1, CorrespondenceInvariant, PTL

-----------------------------------------------------------------------------
(* Steps *)

\* complete_call: completed once, by an editor who had it scheduled.
THEOREM CorrespondenceCompletedWasHeld == Spec => CompletedWasHeld
<1> DEFINE Act == call.status = "completed" \/ call'.status = "completed" =>
                     /\ call'.status = "completed"
                     /\ call'.slot = call.slot
                     /\ call.status # "completed" => call.editor # None
<1>1. CInv /\ [Next]_vars => [Act]_vars
  <2> SUFFICES ASSUME CInv, [Next]_vars PROVE Act
    OBVIOUS
  <2>1. CASE UNCHANGED call
    BY <2>1
  <2>2. CASE CommitSchedule
    BY <2>2 DEF CommitSchedule, CInv, CallSound, TypeOK, CallRow
  <2>3. ASSUME NEW a \in Admin, CompleteCall(a) PROVE Act
    BY <2>3 DEF CompleteCall, Completable, CInv, TypeOK, CallRow
  <2>4. ASSUME NEW e \in Editor, DeleteEditor(e) PROVE Act
    BY <2>4 DEF DeleteEditor, CInv, TypeOK, CallRow
  <2>5. CASE Converse \/ Support
    <3>1. UNCHANGED call
      BY <2>5 DEF Converse, Support, SendMessage, SendTicket, SendReply, Send, PostMessage,
         RefuseMessage, OpenTicket, PostReply, RefuseSupport, ChangeStatus, calls
    <3>2. QED
      BY <2>1, <3>1
  <2>6. CASE Consult
    BY <2>1, <2>2, <2>3, <2>6 DEF Consult, BeginSchedule
  <2>7. CASE Change
    BY <2>1, <2>4, <2>7 DEF Change, Assign, Milestone, DeleteClient, DeleteAdmin, calls
  <2>8. QED
    BY <2>1, <2>5, <2>6, <2>7 DEF Next, vars, calls
<1>2. QED
  BY <1>1, CorrespondenceInvariant, PTL DEF Spec, CompletedWasHeld

\* A row that is there stays with the notices it had.
LEMMA Repeated ==
    ASSUME CInv, [Next]_vars, NEW k \in Key
    PROVE  /\ messages[k] # NoRow =>
                messages'[k] = messages[k] /\ \A u \in User : Got("message", k, u)' <=> Got("message", k, u)
           /\ replies[k] # NoRow =>
                replies'[k] = replies[k] /\ \A u \in User : Got("reply", k, u)' <=> Got("reply", k, u)
           /\ project.completed => messages' = messages
<1> DEFINE Goal == /\ messages[k] # NoRow =>
                        /\ messages'[k] = messages[k]
                        /\ \A u \in User : Got("message", k, u)' <=> Got("message", k, u)
                   /\ replies[k] # NoRow =>
                        /\ replies'[k] = replies[k]
                        /\ \A u \in User : Got("reply", k, u)' <=> Got("reply", k, u)
                   /\ project.completed => messages' = messages
<1>1. CASE UNCHANGED <<messages, replies, notices>>
  BY <1>1 DEF Got
<1>2. ASSUME NEW f \in forms, NEW repeated \in BOOLEAN, PostMessage(f, repeated) PROVE Goal
  <2>1. f.key \in Key /\ Recipients(f) \in SUBSET User
    BY DEF CInv, TypeOK, Form, Recipients
  <2>2. \A o, j, u : Got(o, j, u)' <=> Got(o, j, u) \/ (o = "message" /\ j = f.key /\ u \in Recipients(f))
    BY <1>2, <2>1, Added DEF PostMessage, CInv
  <2>3. messages[f.key] = NoRow /\ ~project.completed /\ replies' = replies
    BY <1>2 DEF PostMessage, Postable, MessagingEnabled
  <2>4. k # f.key => messages'[k] = messages[k]
    BY <1>2 DEF PostMessage, CInv, TypeOK
  <2>5. QED
    BY <2>2, <2>3, <2>4
<1>3. ASSUME NEW f \in forms, NEW repeated \in BOOLEAN, OpenTicket(f, repeated) PROVE Goal
  <2>1. f.key \in Key
    BY DEF CInv, TypeOK, Form
  <2>2. \A o, j, u : Got(o, j, u)' <=> Got(o, j, u) \/ (o = "opened" /\ j = f.key /\ u \in Admin \cap active)
    BY <1>3, <2>1, Added DEF OpenTicket, CInv
  <2>3. replies[f.key] = NoRow /\ messages' = messages
    BY <1>3 DEF OpenTicket
  <2>4. k # f.key => replies'[k] = replies[k]
    BY <1>3 DEF OpenTicket, CInv, TypeOK
  <2>5. QED
    BY <2>2, <2>3, <2>4
<1>4. ASSUME NEW f \in forms, NEW repeated \in BOOLEAN, PostReply(f, repeated) PROVE Goal
  <2> DEFINE users == IF f.audience = "shared" THEN {Client} ELSE {}
  <2>1. f.key \in Key
    BY DEF CInv, TypeOK, Form
  <2>2. \A o, j, u : Got(o, j, u)' <=> Got(o, j, u) \/ (o = "reply" /\ j = f.key /\ u \in users)
    BY <1>4, <2>1, Added DEF PostReply, CInv
  <2>3. replies[f.key] = NoRow /\ messages' = messages
    BY <1>4 DEF PostReply
  <2>4. k # f.key => replies'[k] = replies[k]
    BY <1>4 DEF PostReply, CInv, TypeOK
  <2>5. QED
    BY <2>2, <2>3, <2>4
<1>5. CASE Converse
  BY <1>1, <1>2, <1>5 DEF Converse, SendMessage, Send, RefuseMessage, talk
<1>6. CASE Support
  BY <1>1, <1>3, <1>4, <1>6 DEF Support, SendTicket, SendReply, Send, RefuseSupport, ChangeStatus, talk
<1>7. CASE Consult \/ Change \/ UNCHANGED vars
  <2>1. UNCHANGED <<messages, replies, notices>>
    BY <1>7 DEF Consult, BeginSchedule, CommitSchedule, CompleteCall, Change, Assign,
         Milestone, DeleteClient, DeleteEditor, DeleteAdmin, vars, talk
  <2>2. QED
    BY <1>1, <2>1
<1>8. QED
  BY <1>5, <1>6, <1>7 DEF Next

\* request_key: a form sent twice is one row with one set of notices, and a
\* completed project takes no new message.
THEOREM CorrespondenceRepeatsChangeNothing == Spec => RepeatsChangeNothing
<1> DEFINE Act == /\ \A k \in Key : messages[k] # NoRow =>
                        messages'[k] = messages[k] /\ Noticed("message", k)' = Noticed("message", k)
                  /\ \A k \in Key : replies[k] # NoRow =>
                        replies'[k] = replies[k] /\ Noticed("reply", k)' = Noticed("reply", k)
                  /\ project.completed => messages' = messages
<1>1. CInv /\ [Next]_vars => [Act]_vars
  <2> SUFFICES ASSUME CInv, [Next]_vars PROVE [Act]_vars
    OBVIOUS
  <2>1. CASE Key = {}
    <3>1. messages' = messages
      BY <2>1, NextInvariant DEF CInv, TypeOK
    <3>2. QED
      BY <2>1, <3>1
  <2>2. CASE Key # {}
    <3>1. TypeOK /\ TypeOK'
      BY NextInvariant DEF CInv
    <3>2. project.completed => messages' = messages
      BY <2>2, Repeated
    <3>3. ASSUME NEW of \in {"message", "reply"}, NEW k \in Key,
                 \A u \in User : Got(of, k, u)' <=> Got(of, k, u)
          PROVE  Noticed(of, k)' = Noticed(of, k)
      <4>1. Noticed(of, k) \in SUBSET User /\ \A u \in User : u \in Noticed(of, k) <=> Got(of, k, u)
        BY <3>1, NoticedGot
      <4>2. Noticed(of, k)' \in SUBSET User /\ \A u \in User : u \in Noticed(of, k)' <=> Got(of, k, u)'
        BY <3>1 DEF TypeOK, Noticed, Got, Event
      <4>3. QED
        BY <3>3, <4>1, <4>2
    <3>4. QED
      BY <3>2, <3>3, Repeated
  <2>3. QED
    BY <2>1, <2>2
<1>2. QED
  BY <1>1, CorrespondenceInvariant, PTL DEF Spec, RepeatsChangeNothing

=============================================================================
