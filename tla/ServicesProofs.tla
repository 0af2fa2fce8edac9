--------------------------- MODULE ServicesProofs ---------------------------
(* Proofs about Services: of Messaging (conversations, previews and the map of *)
(* the gateway), of Lists (what a walk through the pages gets), and of all     *)
(* four parts beside one another.                                              *)
EXTENDS Services, FiniteSetTheorems, TLAPS

----------------------------------------------------------------------------
(* Messaging *)

\* The messages of c after (the last) m, all of them if m is not there.
After(m, c) ==
  LET log == messages[c]
  IN  {log[j] : j \in {j \in DOMAIN log : \A i \in DOMAIN log : log[i] = m => i < j}}

\* The log of a call comes from a socket.
Calls ==
  \A p \in Requests : pc[p] \in SendPc /\ req[p].op = "endCall" => req[p].by \in Sockets

\* Whoever is about to insert a conversation knows of those that came since it
\* looked, and only those match what it looked for.
Looked ==
  \A p \in Requests :
    pc[p] = "insertConversation" =>
      /\ req[p].user # req[p].with
      /\ \A c \in DOMAIN conversations : Matches(c, req[p]) => c \in raced[p]

\* Whoever is about to write a preview knows of the messages after its own.
Counted ==
  \A p, c \in Requests :
    pc[p] = "updatePreview" /\ req[p].conv = c => After(p, c) \subseteq passed[p]

\* A message is in the conversation its handler serves, and was inserted by it;
\* a conversation without a row has no messages.
Inserted == {"updatePreview", "findAgain", "done", "failed"}
Filed ==
  \A c \in Requests :
    /\ \A i \in DOMAIN messages[c] :
         /\ pc[messages[c][i]] \in Inserted
         /\ pc[messages[c][i]] = "updatePreview" => req[messages[c][i]].conv = c
    /\ c \in DOMAIN conversations => pc[c] = "done"
    /\ c \notin DOMAIN conversations => messages[c] = <<>>

Inv == /\ TypeOK /\ Calls /\ Filed /\ Looked /\ Counted
       /\ ConversationsExplained /\ PreviewExplained /\ GatewayExplained

LEMMA InvInit == Init => Inv
  <1>. SUFFICES ASSUME Init  PROVE Inv
    OBVIOUS
  <1>1. TypeOK
    BY DEF Init, TypeOK, CreatePc, SendPc
  <1>. QED
    BY <1>1 DEF Init, Inv, Calls, Filed, Looked, Counted, ConversationsExplained,
       PreviewExplained, SendPc, GatewayExplained, EntriesExplained, PushesToParticipants

----------------------------------------------------------------------------
(* Types *)

\* The request of a handler at work.
LEMMA Requested ==
  ASSUME TypeOK, NEW p \in Requests
  PROVE  /\ pc[p] \in CreatePc => req[p] \in CreateRequest
         /\ pc[p] \in SendPc => req[p] \in SendRequest
  <1>1. req[p] \in CreateRequest \/ req[p] \in SendRequest \/ req[p] = NoRequest
    BY DEF TypeOK
  <1>2. \A r \in CreateRequest : r.op = "create"
    BY DEF CreateRequest
  <1>3. \A r \in SendRequest : r.op \in {"send", "endCall"}
    BY DEF SendRequest
  <1>4. NoRequest.op = "none"
    BY DEF NoRequest, None
  <1>. QED  BY <1>1, <1>2, <1>3, <1>4 DEF TypeOK

\* Sockets found in the map are sockets.
LEMMA SocketsFound ==
  ASSUME TypeOK, NEW users
  PROVE  SocketsFor(users) \subseteq Sockets
  BY DEF SocketsFor, TypeOK

LEMMA PushTyped ==
  ASSUME NEW sockets \in SUBSET Sockets, NEW op \in {"send", "endCall", "typing", "call"},
         NEW c \in Requests \cup {None}, Push(sockets, op, c)
  PROVE  emitted' \subseteq
           Sockets \X {"send", "endCall", "typing", "call"} \X (Requests \cup {None})
  BY DEF Push

TypesKept ==
  /\ DOMAIN conversations \subseteq DOMAIN conversations'
  /\ TypeOK'

LEMMA CreateTypes ==
  ASSUME TypeOK, NEW p \in Requests,
         \/ \E u, w \in Users, stay \in Stays \cup {None} : FindExisting(p, u, w, stay)
         \/ InsertConversation(p)
  PROVE  TypesKept
  <1>. USE DEF CreatePc, SendPc, None
  <1>1. ASSUME NEW u \in Users, NEW w \in Users, NEW stay \in Stays \cup {None},
               FindExisting(p, u, w, stay)
        PROVE  TypesKept
    <2>1. [op |-> "create", user |-> u, with |-> w, stay |-> stay] \in CreateRequest
      BY DEF CreateRequest
    <2>. QED
      BY <1>1, <2>1 DEF TypeOK, TypesKept, FindExisting, Begin, Silent, rows, links, history,
         Exists
  <1>2. CASE InsertConversation(p)
    <2>1. req[p] \in CreateRequest
      BY <1>2, Requested DEF InsertConversation
    <2>. DEFINE row == [pair |-> <<req[p].user, req[p].with>>, stay |-> req[p].stay,
                        preview |-> None]
    <2>2. row \in Conversation
      BY <2>1 DEF Conversation, CreateRequest
    <2>3. conversations' = [c \in DOMAIN conversations \cup {p} |->
                             IF c = p THEN row ELSE conversations[c]]
      BY <1>2 DEF InsertConversation
    <2>. HIDE DEF row
    <2>4. /\ DOMAIN conversations' = DOMAIN conversations \cup {p}
          /\ conversations' \in [DOMAIN conversations' -> Conversation]
      BY <2>2, <2>3 DEF TypeOK
    <2>5. raced' \in [Requests -> SUBSET Requests]
      BY <1>2 DEF TypeOK, InsertConversation
    <2>6. /\ pc' = [pc EXCEPT ![p] = "done"] /\ req' = [req EXCEPT ![p] = NoRequest]
          /\ receiver' = [receiver EXCEPT ![p] = {}] /\ emitted' = {}
          /\ UNCHANGED <<messages, link, userSockets, dropped, passed, behind>>
      BY <1>2 DEF InsertConversation, Finish, End, Silent, links
    <2>. QED  BY <2>4, <2>5, <2>6 DEF TypeOK, TypesKept, Exists
  <1>. QED  BY <1>1, <1>2
\* Handlers of a message: the fields of the state other than pc and req.
LEMMA SendTypes ==
  ASSUME TypeOK, Calls, NEW p \in Requests,
         \/ \E u \in Users, c \in Requests : SendMessage(p, u, c, None)
         \/ \E s \in Sockets, c \in Requests : HandleSendMessage(p, s, c)
         \/ \E s \in Sockets, to \in Users, c \in Requests : HandleEndCall(p, s, to, c)
         \/ FindConversation(p) /\ ~Throw(p)
         \/ InsertMessage(p) \/ UpdatePreview(p)
  PROVE  TypesKept
  <1>. USE DEF CreatePc, SendPc, None
  <1>1. ASSUME NEW u \in Users, NEW c \in Requests, NEW by \in Sockets \cup {None},
               SendMessage(p, u, c, by)
        PROVE  TypesKept
    <2>1. [op |-> "send", user |-> u, conv |-> c, by |-> by] \in SendRequest
      BY DEF SendRequest
    <2>2. Exists(c)
      BY <1>1 DEF SendMessage, Admitted
    <2>. QED
      BY <1>1, <2>1, <2>2 DEF TypeOK, TypesKept, SendMessage, Begin, Silent, rows, links,
         history, Exists
  <1>2. ASSUME NEW s \in Sockets, NEW c \in Requests, HandleSendMessage(p, s, c)
        PROVE  TypesKept
    BY <1>1, <1>2, SocketsAssumption DEF HandleSendMessage
  <1>3. ASSUME NEW s \in Sockets, NEW to \in Users, NEW c \in Requests,
               HandleEndCall(p, s, to, c)
        PROVE  TypesKept
    <2>1. [op |-> "endCall", user |-> UserOf[s], conv |-> c, by |-> s] \in SendRequest
      BY SocketsAssumption DEF SendRequest
    <2>2. /\ SocketsFor({to}) \subseteq Sockets
          /\ emitted' \subseteq
               Sockets \X {"send", "endCall", "typing", "call"} \X (Requests \cup {None})
      BY <1>3, SocketsFound, PushTyped DEF HandleEndCall
    <2>3. receiver' \in [Requests -> SUBSET Sockets]
      BY <1>3, <2>2 DEF HandleEndCall, TypeOK
    <2>. QED
      BY <1>3, <2>1, <2>2, <2>3 DEF TypeOK, TypesKept, HandleEndCall, Begin, rows, links,
         history, Exists
  <1>4. CASE FindConversation(p) /\ ~Throw(p)
    <2>1. /\ pc[p] = "findConversation" /\ Exists(req[p].conv)
          /\ pc' = [pc EXCEPT ![p] = "insertMessage"] /\ emitted' = {}
          /\ UNCHANGED <<rows, links, req, receiver, history>>
      BY <1>4 DEF FindConversation, Admitted, Goto, Silent
    <2>. QED  BY <2>1 DEF TypeOK, TypesKept, rows, links, history, Exists
  <1>5. CASE InsertMessage(p)
    <2>1. req[p].conv \in Requests /\ Exists(req[p].conv)
      BY <1>5, Requested DEF InsertMessage, SendRequest, TypeOK
    <2>2. Append(messages[req[p].conv], p) \in Seq(Requests)
      BY <2>1 DEF TypeOK
    <2>3. messages' \in [Requests -> Seq(Requests)]
      BY <1>5, <2>1, <2>2 DEF InsertMessage, TypeOK
    <2>4. passed' \in [Requests -> SUBSET Requests]
      BY <1>5 DEF InsertMessage, TypeOK
    <2>5. /\ pc' = [pc EXCEPT ![p] = "updatePreview"] /\ emitted' = {}
          /\ pc[p] = "insertMessage"
          /\ UNCHANGED <<req, receiver, conversations, link, userSockets, dropped, behind, raced>>
      BY <1>5 DEF InsertMessage, Goto, Silent, links
    <2>. QED  BY <2>1, <2>3, <2>4, <2>5 DEF TypeOK, TypesKept, Exists
  <1>6. CASE UpdatePreview(p)
    <2>. DEFINE c == req[p].conv
    <2>1. /\ c \in Requests /\ c \in DOMAIN conversations
          /\ req[p].by \in Sockets \cup {None}
          /\ req[p].op \in {"send", "endCall"}
          /\ pc[p] = "updatePreview"
          /\ req[p].op = "endCall" => req[p].by \in Sockets
      BY <1>6, Requested DEF UpdatePreview, SendRequest, TypeOK, Exists, Calls
    <2>2. /\ DOMAIN conversations' = DOMAIN conversations
          /\ conversations' \in [DOMAIN conversations -> Conversation]
      <3>. DEFINE row == [conversations[c] EXCEPT !.preview = p]
      <3>1. conversations[c] \in Conversation
        BY <2>1 DEF TypeOK
      <3>2. row \in Conversation
        BY <3>1 DEF Conversation
      <3>3. conversations' = [conversations EXCEPT ![c] = row]
        BY <1>6 DEF UpdatePreview
      <3>. HIDE DEF row, c
      <3>. QED  BY <2>1, <3>2, <3>3 DEF TypeOK
    <2>3. behind' \in [Requests -> SUBSET Requests] /\ passed' \in [Requests -> SUBSET Requests]
      BY <1>6 DEF UpdatePreview, TypeOK
    <2>4. emitted' \subseteq
            Sockets \X {"send", "endCall", "typing", "call"} \X (Requests \cup {None})
      <3>1. req[p].op = "endCall" => receiver[p] \cup {req[p].by} \in SUBSET Sockets
        BY <2>1 DEF TypeOK
      <3>2. Silent \/ (req[p].op = "endCall" /\ Push(receiver[p] \cup {req[p].by}, "endCall", c))
        BY <1>6 DEF UpdatePreview
      <3>. QED  BY <2>1, <3>1, <3>2, PushTyped DEF Silent
    <2>5. /\ pc' \in [Requests -> CreatePc \cup SendPc \cup {"idle", "done", "failed"}]
          /\ \A q \in Requests \ {p} : pc'[q] = pc[q] /\ req'[q] = req[q]
          /\ \/ pc'[p] = "findAgain" /\ req'[p] = req[p]
             \/ pc'[p] = "done"
          /\ req' \in [Requests -> CreateRequest \cup SendRequest \cup {NoRequest}]
          /\ receiver' \in [Requests -> SUBSET Sockets]
      BY <1>6 DEF UpdatePreview, Goto, Finish, End, TypeOK
    <2>6. UNCHANGED <<messages, link, userSockets, dropped, raced>>
      BY <1>6 DEF UpdatePreview, links
    <2>. QED  BY <2>1, <2>2, <2>3, <2>4, <2>5, <2>6 DEF TypeOK, TypesKept, Exists
  <1>. QED  BY <1>1, <1>2, <1>3, <1>4, <1>5, <1>6
\* Handlers that end here, and change no row.
Ends(p) ==
  \/ EmitMessage(p)
  \/ \E s \in Sockets, c \in Requests : HandleTyping(p, s, c)
  \/ \E s \in Sockets, to \in Users : HandleCall(p, s, to)
  \/ Throw(p)

LEMMA EndTypes ==
  ASSUME TypeOK, NEW p \in Requests, Ends(p)
  PROVE  TypesKept
  <1>1. emitted' \subseteq
          Sockets \X {"send", "endCall", "typing", "call"} \X (Requests \cup {None})
    <2>. DEFINE Typed == emitted' \subseteq
            Sockets \X {"send", "endCall", "typing", "call"} \X (Requests \cup {None})
    <2>1. ASSUME NEW users, NEW op \in {"send", "endCall", "typing", "call"},
                 NEW c \in Requests \cup {None}, Push(SocketsFor(users), op, c)
          PROVE  Typed
      BY <2>1, SocketsFound, PushTyped
    <2>2. Silent => Typed
      BY DEF Silent
    <2>3. EmitMessage(p) => req[p].conv \in Requests
      BY Requested DEF EmitMessage, SendPc, SendRequest
    <2>. HIDE DEF Typed
    <2>4. EmitMessage(p) => Typed
      BY <2>1, <2>3 DEF EmitMessage
    <2>5. ASSUME NEW s \in Sockets, NEW c \in Requests, HandleTyping(p, s, c)
          PROVE  Typed
      BY <2>1, <2>5 DEF HandleTyping
    <2>6. ASSUME NEW s \in Sockets, NEW to \in Users, HandleCall(p, s, to)
          PROVE  Typed
      BY <2>1, <2>6 DEF HandleCall
    <2>7. Typed
      BY <2>2, <2>4, <2>5, <2>6 DEF Ends, Throw
    <2>. QED  BY <2>7 DEF Typed
  <1>2. PICK how \in {"done", "failed"} : End(p, how)
    BY DEF Ends, EmitMessage, HandleTyping, HandleCall, Throw, Finish
  <1>3. UNCHANGED <<rows, links, history>>
    BY DEF Ends, EmitMessage, HandleTyping, HandleCall, Throw
  <1>4. /\ pc' = [pc EXCEPT ![p] = how] /\ req' = [req EXCEPT ![p] = NoRequest]
        /\ receiver' = [receiver EXCEPT ![p] = {}]
    BY <1>2 DEF End
  <1>5. /\ DOMAIN conversations' = DOMAIN conversations
        /\ \A c : Exists(c)' <=> Exists(c)
    BY <1>3 DEF rows, Exists
  <1>6. \A q \in Requests :
          /\ pc'[q] \in CreatePc \cup SendPc => pc'[q] = pc[q] /\ req'[q] = req[q]
    BY <1>4 DEF TypeOK, CreatePc, SendPc
  <1>7. /\ pc' \in [Requests -> CreatePc \cup SendPc \cup {"idle", "done", "failed"}]
        /\ req' \in [Requests -> CreateRequest \cup SendRequest \cup {NoRequest}]
        /\ receiver' \in [Requests -> SUBSET Sockets]
    BY <1>4 DEF TypeOK
  <1>8. \A q \in Requests :
          /\ pc'[q] \in CreatePc => req'[q].op = "create"
          /\ pc'[q] \in SendPc => req'[q].op \in {"send", "endCall"}
          /\ pc'[q] \in {"insertMessage", "updatePreview", "findAgain"} =>
               Exists(req[q].conv)'
    BY <1>5, <1>6 DEF TypeOK, SendPc
  <1>. QED  BY <1>1, <1>3, <1>5, <1>7, <1>8 DEF TypeOK, TypesKept, rows, links, history, Exists

LEMMA LinkTypes ==
  ASSUME TypeOK,
         (\E s \in Sockets : HandleConnection(s) \/ HandleDisconnect(s)) \/ Restart
  PROVE  TypesKept
  <1>1. ASSUME NEW s \in Sockets, HandleConnection(s)  PROVE TypesKept
    <2>. DEFINE u == UserOf[s]
    <2>1. u \in Users
      BY SocketsAssumption
    <2>2. /\ link' \in [Sockets -> {"new", "open", "closed"}]
          /\ DOMAIN userSockets' \subseteq Users
          /\ userSockets' \in [DOMAIN userSockets' -> Sockets]
          /\ dropped' \subseteq Users
      <3>1. CASE /\ link' = [link EXCEPT ![s] = "open"]
                 /\ userSockets' = [v \in DOMAIN userSockets \cup {u} |->
                                      IF v = u THEN s ELSE userSockets[v]]
                 /\ dropped' = dropped \ {u}
        BY <2>1, <3>1 DEF TypeOK
      <3>2. CASE link' = [link EXCEPT ![s] = "closed"] /\ UNCHANGED <<userSockets, dropped>>
        BY <3>2 DEF TypeOK
      <3>. QED  BY <1>1, <3>1, <3>2 DEF HandleConnection
    <2>3. UNCHANGED <<rows, pc, req, receiver, history>> /\ emitted' = {}
      BY <1>1 DEF HandleConnection, Silent
    <2>. QED  BY <2>2, <2>3 DEF TypeOK, TypesKept, rows, history, Exists
  <1>2. ASSUME NEW s \in Sockets, HandleDisconnect(s)  PROVE TypesKept
    <2>1. UserOf[s] \in Users
      BY SocketsAssumption
    <2>2. /\ link' \in [Sockets -> {"new", "open", "closed"}]
          /\ DOMAIN userSockets' \subseteq Users
          /\ userSockets' \in [DOMAIN userSockets' -> Sockets]
          /\ dropped' \subseteq Users
      BY <1>2, <2>1 DEF HandleDisconnect, TypeOK
    <2>3. UNCHANGED <<rows, pc, req, receiver, history>> /\ emitted' = {}
      BY <1>2 DEF HandleDisconnect, Silent
    <2>. QED  BY <2>2, <2>3 DEF TypeOK, TypesKept, rows, history, Exists
  <1>3. CASE Restart
    <2>1. /\ link' \in [Sockets -> {"new", "open", "closed"}]
          /\ DOMAIN userSockets' = {} /\ userSockets' \in [DOMAIN userSockets' -> Sockets]
          /\ dropped' = {} /\ emitted' = {}
          /\ UNCHANGED <<rows, history>>
      BY <1>3 DEF Restart, TypeOK, Silent
    <2>2. /\ \A p \in Requests : \/ pc'[p] = "failed"
                                 \/ pc'[p] = pc[p] /\ req'[p] = req[p]
          /\ pc' \in [Requests -> CreatePc \cup SendPc \cup {"idle", "done", "failed"}]
          /\ req' \in [Requests -> CreateRequest \cup SendRequest \cup {NoRequest}]
          /\ receiver' \in [Requests -> SUBSET Sockets]
      BY <1>3 DEF Restart, Dies, TypeOK
    <2>. QED
      BY <2>1, <2>2 DEF TypeOK, TypesKept, rows, history, Exists, CreatePc, SendPc
  <1>. QED  BY <1>1, <1>2, <1>3

LEMMA StepTypes ==
  ASSUME TypeOK, Calls, NEW p \in Requests, Step(p)
  PROVE  TypesKept
  BY CreateTypes, SendTypes, EndTypes DEF Step, Ends, FindConversation, Crash

\* What a step of one handler leaves of the others.
LEMMA Frame ==
  ASSUME TypeOK, NEW p \in Requests, Step(p)
  PROVE  /\ \A q \in Requests \ {p} : pc'[q] = pc[q] /\ req'[q] = req[q]
         /\ UNCHANGED links
         /\ pc[p] \notin {"done", "failed"}
         /\ pc[p] = "updatePreview" => UpdatePreview(p) \/ pc'[p] = "failed"
         /\ pc'[p] = "updatePreview" => InsertMessage(p)
         /\ pc'[p] = "insertConversation" =>
              \E u, w \in Users, stay \in Stays \cup {None} : FindExisting(p, u, w, stay)
         /\ InsertConversation(p) \/ UNCHANGED raced
         /\ UpdatePreview(p) \/ InsertMessage(p) \/ UNCHANGED passed
         /\ UpdatePreview(p) \/ UNCHANGED behind
         /\ InsertMessage(p) \/ UNCHANGED messages
         /\ UpdatePreview(p) \/ InsertConversation(p) \/ UNCHANGED conversations
  <1>. USE DEF TypeOK, Begin, Goto, Finish, Throw, End, links, rows, history, CreatePc, SendPc
  <1>1. CASE \E u, w \in Users, stay \in Stays \cup {None} : FindExisting(p, u, w, stay)
    BY <1>1 DEF FindExisting
  <1>2. CASE \/ \E u \in Users, c \in Requests : SendMessage(p, u, c, None)
             \/ \E s \in Sockets, c \in Requests : HandleSendMessage(p, s, c)
             \/ \E s \in Sockets, to \in Users, c \in Requests : HandleEndCall(p, s, to, c)
    <2>1. /\ \E r, next : Begin(p, r, next) /\ next \in {"insertMessage", "findConversation"}
          /\ UNCHANGED <<rows, links, history>>
      BY <1>2 DEF SendMessage, HandleSendMessage, HandleEndCall
    <2>. QED  BY <2>1
  <1>3. CASE \/ \E s \in Sockets, c \in Requests : HandleTyping(p, s, c)
             \/ \E s \in Sockets, to \in Users : HandleCall(p, s, to)
             \/ EmitMessage(p) \/ FindConversation(p)
    BY <1>3 DEF HandleTyping, HandleCall, EmitMessage, FindConversation
  <1>4. CASE InsertConversation(p) \/ InsertMessage(p) \/ UpdatePreview(p)
    BY <1>4 DEF InsertConversation, InsertMessage, UpdatePreview
  <1>5. CASE Crash(p)
    BY <1>5 DEF Crash
  <1>. QED  BY <1>1, <1>2, <1>3, <1>4, <1>5 DEF Step
----------------------------------------------------------------------------
(* Conversations *)

LEMMA CallsStep ==
  ASSUME TypeOK, Calls, NEW p \in Requests, Step(p)
  PROVE  Calls'
  <1>1. \A q \in Requests \ {p} : pc'[q] = pc[q] /\ req'[q] = req[q]
    BY Frame
  <1>2. pc'[p] \in SendPc => \/ pc[p] \in SendPc /\ req'[p] = req[p]
                             \/ req'[p].op = "send"
                             \/ req'[p].by \in Sockets
    <2>. USE DEF TypeOK, SendPc, Begin, Goto, Finish, End, Throw
    <2>1. CASE \/ \E u, w \in Users, stay \in Stays \cup {None} : FindExisting(p, u, w, stay)
               \/ InsertConversation(p)
      BY <2>1 DEF FindExisting, InsertConversation
    <2>2. CASE Ends(p) \/ Crash(p)
      BY <2>2 DEF Ends, HandleTyping, HandleCall, EmitMessage, Crash
    <2>3. CASE \/ \E u \in Users, c \in Requests : SendMessage(p, u, c, None)
               \/ \E s \in Sockets, c \in Requests : HandleSendMessage(p, s, c)
      <3>1. PICK u, c, by : SendMessage(p, u, c, by)
        BY <2>3 DEF HandleSendMessage
      <3>. DEFINE q == [op |-> "send", user |-> u, conv |-> c, by |-> by]
      <3>2. Begin(p, q, "insertMessage") /\ q.op = "send"
        BY <3>1 DEF SendMessage
      <3>. HIDE DEF q
      <3>. QED  BY <3>2
    <2>4. ASSUME NEW s \in Sockets, NEW to \in Users, NEW c \in Requests,
                 HandleEndCall(p, s, to, c)
          PROVE  req'[p].by \in Sockets
      BY <2>4 DEF HandleEndCall
    <2>5. CASE FindConversation(p) \/ InsertMessage(p) \/ UpdatePreview(p)
      BY <2>5 DEF FindConversation, InsertMessage, UpdatePreview
    <2>. QED  BY <2>1, <2>2, <2>3, <2>4, <2>5 DEF Step, Ends
  <1>. QED  BY <1>1, <1>2 DEF Calls

\* Whom a conversation is between, and what about, is never written again.
LEMMA RowsKept ==
  ASSUME TypeOK, NEW p \in Requests, Step(p)
  PROVE  /\ DOMAIN conversations' \subseteq DOMAIN conversations \cup {p}
         /\ \A c \in DOMAIN conversations' :
              \/ c = p /\ InsertConversation(p)
              \/ /\ c \in DOMAIN conversations
                 /\ conversations'[c].pair = conversations[c].pair
                 /\ conversations'[c].stay = conversations[c].stay
  <1>1. CASE InsertConversation(p)
    BY <1>1 DEF InsertConversation, TypeOK
  <1>2. CASE UpdatePreview(p)
    <2>. DEFINE d == req[p].conv
                row == [conversations[d] EXCEPT !.preview = p]
    <2>1. d \in DOMAIN conversations /\ conversations[d] \in Conversation
      BY <1>2 DEF UpdatePreview, TypeOK, Exists, SendPc
    <2>2. row.pair = conversations[d].pair /\ row.stay = conversations[d].stay
      BY <2>1 DEF Conversation
    <2>3. conversations' = [conversations EXCEPT ![d] = row]
      BY <1>2 DEF UpdatePreview
    <2>. HIDE DEF d, row
    <2>. QED  BY <2>1, <2>2, <2>3 DEF TypeOK
  <1>3. CASE UNCHANGED conversations
    BY <1>3
  <1>. QED  BY <1>1, <1>2, <1>3, Frame

LEMMA RowsGrow ==
  ASSUME TypeOK, NEW p \in Requests, Step(p)
  PROVE  DOMAIN conversations \subseteq DOMAIN conversations'
  <1>1. CASE InsertConversation(p)
    BY <1>1 DEF InsertConversation
  <1>2. CASE UpdatePreview(p)
    BY <1>2 DEF UpdatePreview, TypeOK
  <1>3. CASE UNCHANGED conversations
    BY <1>3
  <1>. QED  BY <1>1, <1>2, <1>3, Frame

LEMMA LookedStep ==
  ASSUME TypeOK, Looked, NEW p \in Requests, Step(p)
  PROVE  Looked'
  <1>1. ASSUME NEW q \in Requests \ {p}, pc'[q] = "insertConversation"
        PROVE  /\ req'[q].user # req'[q].with
               /\ \A c \in DOMAIN conversations' : Matches(c, req[q])' => c \in raced'[q]
    <2>1. pc[q] = "insertConversation" /\ req'[q] = req[q]
      BY <1>1, Frame
    <2>2. raced[q] \subseteq raced'[q] /\ (InsertConversation(p) => p \in raced'[q])
      <3>1. CASE InsertConversation(p)
        BY <2>1, <3>1 DEF InsertConversation
      <3>2. CASE ~InsertConversation(p)
        BY <3>2, Frame
      <3>. QED  BY <3>1, <3>2
    <2>. QED  BY <2>1, <2>2, RowsKept DEF Looked, Matches
  <1>2. CASE pc'[p] = "insertConversation"
    <2>1. PICK u \in Users, w \in Users, stay \in Stays \cup {None} : FindExisting(p, u, w, stay)
      BY <1>2, Frame
    <2>2. req'[p] = [op |-> "create", user |-> u, with |-> w, stay |-> stay]
          /\ UNCHANGED conversations
      BY <2>1 DEF FindExisting, Begin, TypeOK, rows
    <2>3. \A c \in DOMAIN conversations' : ~Matches(c, req[p])'
      BY <2>1, <2>2 DEF FindExisting, Matches
    <2>. QED  BY <1>1, <2>1, <2>2, <2>3 DEF FindExisting, Looked
  <1>. QED  BY <1>1, <1>2 DEF Looked

LEMMA ConversationsStep ==
  ASSUME TypeOK, Looked, ConversationsExplained, NEW p \in Requests, Step(p)
  PROVE  ConversationsExplained'
  <1>1. raced \in [Requests -> SUBSET Requests]
    BY DEF TypeOK
  <1>2. CASE InsertConversation(p)
    <2>1. /\ conversations'[p].pair = <<req[p].user, req[p].with>>
          /\ conversations'[p].stay = req[p].stay
          /\ req[p].user # req[p].with
          /\ \A c \in DOMAIN conversations : Matches(c, req[p]) => c \in raced[p]
          /\ \A q \in Requests : raced[q] \subseteq raced'[q]
          /\ DOMAIN conversations' = DOMAIN conversations \cup {p}
      BY <1>2 DEF InsertConversation, TypeOK, Looked
    <2>2. \A c \in DOMAIN conversations' \ {p} :
            /\ c \in DOMAIN conversations /\ conversations[c] \in Conversation
            /\ conversations'[c] = conversations[c]
      BY <1>2 DEF InsertConversation, TypeOK
    <2>3. ASSUME NEW c \in DOMAIN conversations' \ {p}, Participants(c)' = Participants(p)',
                 conversations'[c].stay = conversations'[p].stay
          PROVE  c \in raced'[p]
      <3>1. PICK a \in Users, b \in Users : conversations[c].pair = <<a, b>>
        BY <2>2 DEF Conversation
      <3>2. {a, b} = {req[p].user, req[p].with}
        BY <2>1, <2>2, <2>3, <3>1 DEF Participants
      <3>3. Matches(c, req[p])
        BY <2>1, <2>2, <2>3, <3>1, <3>2 DEF Matches
      <3>. QED  BY <2>1, <2>2, <3>3
    <2>4. ASSUME NEW c \in DOMAIN conversations' \ {p}, NEW d \in DOMAIN conversations' \ {p},
                 c # d, Participants(c)' = Participants(d)',
                 conversations'[c].stay = conversations'[d].stay
          PROVE  c \in raced'[d] \/ d \in raced'[c]
      <3>1. c \in Requests /\ d \in Requests
        BY <2>1 DEF TypeOK
      <3>. QED  BY <2>1, <2>2, <2>4, <3>1 DEF ConversationsExplained, Participants
    <2>. QED  BY <2>3, <2>4 DEF ConversationsExplained
  <1>3. CASE ~InsertConversation(p)
    <2>1. UNCHANGED raced
      BY <1>3, Frame
    <2>. QED  BY <1>3, <2>1, RowsKept DEF ConversationsExplained, Participants
  <1>. QED  BY <1>2, <1>3
----------------------------------------------------------------------------
(* Previews *)

LEMMA AfterAppend ==
  ASSUME TypeOK, NEW c \in Requests, NEW p \in Requests,
         messages' = [messages EXCEPT ![c] = Append(@, p)]
  PROVE  /\ After(p, c)' = {}
         /\ \A m : After(m, c)' \subseteq After(m, c) \cup {p}
  <1>. DEFINE log == messages[c]
  <1>1. log \in Seq(Requests) /\ messages'[c] = Append(log, p)
    BY DEF TypeOK
  <1>2. /\ DOMAIN Append(log, p) = 1 .. Len(log) + 1
        /\ Len(log) \in Nat /\ DOMAIN log = 1 .. Len(log)
        /\ \A j \in 1 .. Len(log) : Append(log, p)[j] = log[j]
        /\ Append(log, p)[Len(log) + 1] = p
    BY <1>1
  <1>. HIDE DEF log
  <1>3. After(p, c)' = {}
    BY <1>1, <1>2 DEF After
  <1>4. ASSUME NEW m, NEW x \in After(m, c)', x # p
        PROVE  x \in After(m, c)
    <2>1. PICK j \in 1 .. Len(log) + 1 :
            /\ x = Append(log, p)[j]
            /\ \A i \in 1 .. Len(log) + 1 : Append(log, p)[i] = m => i < j
      BY <1>1, <1>2, <1>4 DEF After
    <2>2. j \in 1 .. Len(log)
      BY <1>2, <1>4, <2>1
    <2>3. x = log[j] /\ \A i \in 1 .. Len(log) : log[i] = m => i < j
      BY <1>2, <2>1, <2>2
    <2>. QED  BY <1>2, <2>2, <2>3 DEF After, log
  <1>. QED  BY <1>3, <1>4

LEMMA FiledStep ==
  ASSUME TypeOK, Filed, NEW p \in Requests, Step(p)
  PROVE  Filed'
  <1>1. \A q \in Requests \ {p} : pc'[q] = pc[q] /\ req'[q] = req[q]
    BY Frame
  <1>2. CASE InsertMessage(p)
    <2>. DEFINE c == req[p].conv
                log == messages[c]
    <2>1. /\ c \in Requests /\ c \in DOMAIN conversations
          /\ pc[p] = "insertMessage" /\ pc'[p] = "updatePreview" /\ req'[p] = req[p]
          /\ messages' = [messages EXCEPT ![c] = Append(@, p)]
          /\ UNCHANGED conversations
      BY <1>2, Requested DEF InsertMessage, SendPc, SendRequest, TypeOK, Exists, Goto
    <2>. HIDE DEF c
    <2>2. log \in Seq(Requests) /\ messages'[c] = Append(log, p)
      BY <2>1 DEF TypeOK
    <2>. HIDE DEF log
    <2>3. /\ DOMAIN Append(log, p) = 1 .. Len(log) + 1
          /\ Len(log) \in Nat /\ DOMAIN log = 1 .. Len(log)
          /\ \A j \in 1 .. Len(log) : Append(log, p)[j] = log[j] /\ log[j] \in Requests
          /\ Append(log, p)[Len(log) + 1] = p
      BY <2>2
    <2>4. \A i \in DOMAIN messages'[c] :
            \/ messages'[c][i] = p
            \/ i \in DOMAIN log /\ messages'[c][i] = log[i] /\ log[i] \in Requests
      BY <2>2, <2>3
    <2>5. \A i \in DOMAIN messages'[c] :
             /\ pc'[messages'[c][i]] \in Inserted
             /\ pc'[messages'[c][i]] = "updatePreview" => req'[messages'[c][i]].conv = c
      BY <1>1, <2>1, <2>4 DEF Filed, Inserted, log, c
    <2>6. \A d \in Requests \ {c} : messages'[d] = messages[d]
      BY <2>1 DEF TypeOK
    <2>7. ASSUME NEW d \in Requests \ {c}, NEW i \in DOMAIN messages[d]
          PROVE  messages[d][i] \in Requests \ {p}
      <3>1. messages[d] \in Seq(Requests)
        BY DEF TypeOK
      <3>2. pc[messages[d][i]] # "insertMessage"
        BY DEF Filed, Inserted
      <3>. QED  BY <2>1, <3>1, <3>2
    <2>. QED  BY <1>1, <2>1, <2>5, <2>6, <2>7 DEF Filed
  <1>3. CASE ~InsertMessage(p)
    <2>1. UNCHANGED messages /\ pc'[p] # "updatePreview"
      BY <1>3, Frame
    <2>2. pc[p] \in Inserted => pc'[p] \in Inserted
      <3>. USE DEF TypeOK, Begin, Goto, Finish, Throw, End, Inserted
      <3>1. CASE Ends(p) \/ Crash(p) \/ UpdatePreview(p)
        BY <3>1 DEF Ends, HandleTyping, HandleCall, EmitMessage, Crash, UpdatePreview
      <3>2. CASE ~(Ends(p) \/ Crash(p) \/ UpdatePreview(p))
        BY <1>3, <3>2 DEF Step, Ends, FindExisting, SendMessage, HandleSendMessage,
             HandleEndCall, InsertConversation, FindConversation
      <3>. QED  BY <3>1, <3>2
    <2>3. \A c \in DOMAIN conversations' :
             c \in DOMAIN conversations \/ (c = p /\ pc'[p] = "done")
      <3>1. InsertConversation(p) => pc'[p] = "done"
        BY DEF InsertConversation, Finish, End, TypeOK
      <3>2. CASE InsertConversation(p)
        BY <3>1, <3>2, RowsKept
      <3>3. CASE ~InsertConversation(p)
        BY <3>3, RowsKept
      <3>. QED  BY <3>2, <3>3
    <2>4. DOMAIN conversations \subseteq DOMAIN conversations'
      BY RowsGrow
    <2>5. ASSUME NEW c \in Requests, NEW i \in DOMAIN messages[c]
          PROVE  messages[c][i] \in Requests
      <3>1. messages[c] \in Seq(Requests)
        BY DEF TypeOK
      <3>. QED  BY <3>1
    <2>6. \A q \in Requests : /\ pc[q] \in Inserted => pc'[q] \in Inserted
                              /\ pc'[q] = "updatePreview" => pc[q] = pc'[q] /\ req'[q] = req[q]
                              /\ pc[q] = "done" => pc'[q] = "done"
      BY <1>1, <2>1, <2>2, Frame
    <2>7. ASSUME NEW c \in Requests, NEW i \in DOMAIN messages'[c]
          PROVE  /\ pc'[messages'[c][i]] \in Inserted
                 /\ pc'[messages'[c][i]] = "updatePreview" => req'[messages'[c][i]].conv = c
      BY <2>1, <2>5, <2>6 DEF Filed
    <2>8. ASSUME NEW c \in Requests
          PROVE  /\ c \in DOMAIN conversations' => pc'[c] = "done"
                 /\ c \notin DOMAIN conversations' => messages'[c] = <<>>
      BY <2>1, <2>3, <2>4, <2>6 DEF Filed
    <2>. QED  BY <2>7, <2>8 DEF Filed
  <1>. QED  BY <1>2, <1>3

LEMMA CountedStep ==
  ASSUME TypeOK, Counted, NEW p \in Requests, Step(p)
  PROVE  Counted'
  <1>1. ASSUME NEW q \in Requests \ {p}, NEW k \in Requests,
               pc'[q] = "updatePreview", req'[q].conv = k
        PROVE  After(q, k)' \subseteq passed'[q]
    <2>1. pc[q] = "updatePreview" /\ req[q].conv = k /\ After(q, k) \subseteq passed[q]
      BY <1>1, Frame DEF Counted
    <2>2. CASE InsertMessage(p)
      <3>1. PICK c \in Requests :
              c = req[p].conv /\ messages' = [messages EXCEPT ![c] = Append(@, p)]
        BY <2>2, Requested DEF InsertMessage, SendPc, SendRequest
      <3>2. passed'[q] = IF k = c THEN passed[q] \cup {p} ELSE passed[q]
        BY <2>1, <2>2, <3>1 DEF InsertMessage
      <3>3. k = c => After(q, k)' \subseteq After(q, k) \cup {p}
        BY <3>1, AfterAppend
      <3>4. k # c => After(q, k)' = After(q, k)
        BY <3>1 DEF After, TypeOK
      <3>. QED  BY <2>1, <3>2, <3>3, <3>4
    <2>3. CASE UpdatePreview(p)
      <3>1. passed'[q] = passed[q] /\ UNCHANGED messages
        BY <2>3 DEF UpdatePreview, TypeOK
      <3>. QED  BY <2>1, <3>1 DEF After
    <2>4. CASE ~(InsertMessage(p) \/ UpdatePreview(p))
      <3>1. UNCHANGED <<messages, passed>>
        BY <2>4, Frame
      <3>. QED  BY <2>1, <3>1 DEF After
    <2>. QED  BY <2>2, <2>3, <2>4
  <1>2. ASSUME NEW k \in Requests, pc'[p] = "updatePreview", req'[p].conv = k
        PROVE  After(p, k)' \subseteq passed'[p]
    <2>1. InsertMessage(p)
      BY <1>2, Frame
    <2>2. messages' = [messages EXCEPT ![k] = Append(@, p)]
      BY <1>2, <2>1 DEF InsertMessage, Goto
    <2>. QED  BY <2>2, AfterAppend
  <1>. QED  BY <1>1, <1>2 DEF Counted

\* What a conversation does not show, is behind or underway.
LEMMA PreviewStep ==
  ASSUME TypeOK, Filed, Counted, PreviewExplained, NEW p \in Requests, Step(p)
  PROVE  PreviewExplained'
  <1>. SUFFICES ASSUME NEW c \in DOMAIN conversations', NEW x \in Later(c)'
                PROVE  x \in behind'[c] \/ pc'[x] \in {"updatePreview", "failed"}
    BY DEF PreviewExplained
  <1>0. c \in Requests
    BY RowsKept DEF TypeOK
  <1>1. CASE InsertMessage(p)
    <2>1. /\ c \in DOMAIN conversations /\ UNCHANGED <<conversations, behind>>
          /\ pc'[p] = "updatePreview" /\ pc[p] = "insertMessage"
      BY <1>1 DEF InsertMessage, Goto, TypeOK
    <2>2. PICK d \in Requests :
            d = req[p].conv /\ messages' = [messages EXCEPT ![d] = Append(@, p)]
      BY <1>1, Requested DEF InsertMessage, SendPc, SendRequest
    <2>3. PICK m : m = conversations[c].preview /\ m = conversations'[c].preview
      BY <2>1
    <2>4. x \in After(m, c)' /\ Later(c) = After(m, c)
      BY <2>3 DEF Later, After
    <2>5. x \in After(m, c) \cup {p}
      <3>1. CASE d = c
        BY <2>2, <2>4, <3>1, AfterAppend
      <3>2. CASE d # c
        BY <1>0, <2>2, <2>4, <3>2 DEF After, TypeOK
      <3>. QED  BY <3>1, <3>2
    <2>6. CASE x = p
      BY <2>1, <2>6
    <2>7. CASE x # p
      <3>1. x \in Later(c)
        BY <2>4, <2>5, <2>7
      <3>2. x \in Requests
        BY <1>0, <3>1 DEF Later, TypeOK
      <3>. QED  BY <2>1, <2>7, <3>1, <3>2, Frame DEF PreviewExplained
    <2>. QED  BY <2>6, <2>7
  <1>2. CASE UpdatePreview(p)
    <2>1. PICK d \in Requests : d = req[p].conv
      BY <1>2, Requested DEF UpdatePreview, SendPc, SendRequest
    <2>2. /\ conversations' = [conversations EXCEPT ![d].preview = p]
          /\ behind' = [behind EXCEPT ![d] = passed[p]]
          /\ UNCHANGED messages /\ pc[p] = "updatePreview"
          /\ c \in DOMAIN conversations
      BY <1>2, <2>1 DEF UpdatePreview, TypeOK
    <2>3. CASE c = d
      <3>1. conversations[c] \in Conversation
        BY <2>2 DEF TypeOK
      <3>2. conversations'[c].preview = p
        BY <2>2, <2>3, <3>1 DEF TypeOK, Conversation
      <3>3. x \in After(p, c)
        BY <2>2, <3>2 DEF Later, After
      <3>4. behind'[c] = passed[p]
        BY <2>1, <2>2, <2>3 DEF TypeOK
      <3>. QED  BY <2>1, <2>2, <2>3, <3>3, <3>4 DEF Counted
    <2>4. CASE c # d
      <3>1. conversations'[c] = conversations[c] /\ behind'[c] = behind[c]
        BY <1>0, <2>2, <2>4 DEF TypeOK
      <3>2. x \in Later(c)
        BY <2>2, <3>1 DEF Later
      <3>3. PICK i \in DOMAIN messages[c] : x = messages[c][i]
        BY <3>2 DEF Later
      <3>4. x \in Requests
        BY <1>0, <3>3 DEF TypeOK
      <3>5. x # p
        BY <1>0, <2>1, <2>2, <2>4, <3>3 DEF Filed
      <3>. QED  BY <2>2, <3>1, <3>2, <3>4, <3>5, Frame DEF PreviewExplained
    <2>. QED  BY <2>3, <2>4
  <1>3. CASE ~(InsertMessage(p) \/ UpdatePreview(p))
    <2>1. UNCHANGED <<messages, behind>>
      BY <1>3, Frame
    <2>2. CASE InsertConversation(p) /\ c = p
      <3>1. messages[c] = <<>>
        BY <1>0, <2>2 DEF InsertConversation, Filed
      <3>. QED  BY <2>1, <3>1 DEF Later
    <2>3. CASE ~(InsertConversation(p) /\ c = p)
      <3>1. c \in DOMAIN conversations /\ conversations'[c] = conversations[c]
        <4>1. CASE InsertConversation(p)
          BY <2>3, <4>1 DEF InsertConversation, TypeOK
        <4>2. CASE ~InsertConversation(p)
          BY <1>3, <4>2, Frame
        <4>. QED  BY <4>1, <4>2
      <3>2. x \in Later(c)
        BY <2>1, <3>1 DEF Later
      <3>3. PICK i \in DOMAIN messages[c] : x = messages[c][i]
        BY <3>2 DEF Later
      <3>4. x \in Requests /\ pc[x] \in Inserted
        BY <1>0, <3>3 DEF TypeOK, Filed
      <3>5. pc[x] \in {"updatePreview", "failed"} => pc'[x] \in {"updatePreview", "failed"}
        BY <1>3, <3>4, Frame
      <3>. QED  BY <2>1, <3>1, <3>2, <3>5 DEF PreviewExplained
    <2>. QED  BY <2>2, <2>3
  <1>. QED  BY <1>1, <1>2, <1>3
----------------------------------------------------------------------------
(* The gateway *)

\* A message goes where the map says its participants are.
LEMMA GatewayStep ==
  ASSUME TypeOK, GatewayExplained, NEW p \in Requests, Step(p)
  PROVE  GatewayExplained'
  <1>1. EntriesExplained'
    BY Frame DEF GatewayExplained, EntriesExplained, links
  <1>2. ASSUME NEW s \in Sockets, NEW c \in Requests, <<s, "send", c>> \in emitted'
        PROVE  UserOf[s] \in Participants(c)'
    <2>1. \A sockets, op, d : Push(sockets, op, d) =>
            op = "send" /\ d = c /\ s \in sockets
      BY <1>2 DEF Push
    <2>2. ~Silent
      BY <1>2 DEF Silent
    <2>3. EmitMessage(p)
      <3>1. ~\E sockets, d : Push(sockets, "endCall", d) \/ Push(sockets, "typing", d)
                             \/ Push(sockets, "call", d)
        BY <2>1
      <3>2. CASE Ends(p)
        BY <2>2, <3>1, <3>2 DEF Ends, HandleTyping, HandleCall, Throw
      <3>3. CASE ~Ends(p)
        BY <2>2, <3>1, <3>3 DEF Step, Ends, FindExisting, InsertConversation, SendMessage,
           HandleSendMessage, HandleEndCall, FindConversation, InsertMessage, UpdatePreview,
           Crash
      <3>. QED  BY <3>2, <3>3
    <2>4. c = req[p].conv /\ s \in SocketsFor(Participants(c)) /\ UNCHANGED conversations
      BY <2>1, <2>3 DEF EmitMessage, rows
    <2>. QED
      BY <2>4 DEF SocketsFor, GatewayExplained, EntriesExplained, Participants
  <1>. QED  BY <1>1, <1>2 DEF GatewayExplained, PushesToParticipants

LEMMA GatewayLinks ==
  ASSUME TypeOK, GatewayExplained,
         (\E s \in Sockets : HandleConnection(s) \/ HandleDisconnect(s)) \/ Restart
  PROVE  GatewayExplained'
  <1>1. PushesToParticipants'
    BY DEF HandleConnection, HandleDisconnect, Restart, Silent, PushesToParticipants
  <1>. EntriesExplained /\ UserOf \in [Sockets -> Users]
    BY SocketsAssumption DEF GatewayExplained
  <1>2. ASSUME NEW s \in Sockets, HandleConnection(s)  PROVE EntriesExplained'
    <2>1. CASE /\ link' = [link EXCEPT ![s] = "open"]
               /\ userSockets' = [v \in DOMAIN userSockets \cup {UserOf[s]} |->
                                    IF v = UserOf[s] THEN s ELSE userSockets[v]]
               /\ dropped' = dropped \ {UserOf[s]}
      BY <2>1 DEF EntriesExplained, TypeOK
    <2>2. CASE link' = [link EXCEPT ![s] = "closed"] /\ UNCHANGED <<userSockets, dropped>>
      <3>1. \A u \in DOMAIN userSockets : userSockets[u] # s
        BY <1>2 DEF EntriesExplained, HandleConnection
      <3>. QED  BY <2>2, <3>1 DEF EntriesExplained, TypeOK
    <2>. QED  BY <1>2, <2>1, <2>2 DEF HandleConnection
  <1>3. ASSUME NEW s \in Sockets, HandleDisconnect(s)  PROVE EntriesExplained'
    <2>. DEFINE u == UserOf[s]
    <2>1. /\ link' = [link EXCEPT ![s] = "closed"]
          /\ userSockets' = [v \in DOMAIN userSockets \ {u} |-> userSockets[v]]
          /\ dropped \subseteq dropped'
          /\ (\E t \in Sockets \ {s} : link[t] = "open" /\ UserOf[t] = u) => u \in dropped'
      BY <1>3 DEF HandleDisconnect
    <2>. HIDE DEF u
    <2>2. \A v \in DOMAIN userSockets' : link'[userSockets'[v]] = "open" /\ UserOf[userSockets'[v]] = v
      BY <2>1 DEF EntriesExplained, TypeOK, u
    <2>3. ASSUME NEW t \in Sockets, link'[t] = "open"
          PROVE  UserOf[t] \in DOMAIN userSockets' \cup dropped'
      BY <2>1, <2>3 DEF EntriesExplained, TypeOK
    <2>. QED  BY <2>2, <2>3 DEF EntriesExplained
  <1>4. Restart => EntriesExplained'
    BY DEF Restart, EntriesExplained, TypeOK
  <1>. QED  BY <1>1, <1>2, <1>3, <1>4 DEF GatewayExplained

----------------------------------------------------------------------------
(* Steps of the gateway, and the theorems *)

\* Connections change no row; a restart only stops handlers.
LEMMA LinksInv ==
  ASSUME Inv, (\E s \in Sockets : HandleConnection(s) \/ HandleDisconnect(s)) \/ Restart
  PROVE  Inv'
  <1>. TypeOK /\ Calls /\ Filed /\ Looked /\ Counted
       /\ ConversationsExplained /\ PreviewExplained /\ GatewayExplained
    BY DEF Inv
  <1>0. GatewayExplained'
    BY GatewayLinks
  <1>1. TypeOK'
    BY LinkTypes DEF TypesKept
  <1>2. UNCHANGED <<rows, history>>
    BY DEF HandleConnection, HandleDisconnect, Restart
  <1>3. \A p \in Requests : \/ pc'[p] = pc[p] /\ req'[p] = req[p]
                            \/ pc'[p] = "failed" /\ pc[p] \in SendPc
    BY DEF HandleConnection, HandleDisconnect, Restart, Dies, TypeOK
  <1>4. Calls'
    BY <1>3 DEF Calls, SendPc
  <1>5. Filed'
    <2>1. \A q \in Requests : /\ pc[q] \in Inserted => pc'[q] \in Inserted
                              /\ pc'[q] = "updatePreview" => pc[q] = pc'[q] /\ req'[q] = req[q]
                              /\ pc[q] = "done" => pc'[q] = "done"
      BY <1>3 DEF Inserted, SendPc
    <2>2. ASSUME NEW c \in Requests, NEW i \in DOMAIN messages[c]
          PROVE  messages[c][i] \in Requests
      <3>1. messages[c] \in Seq(Requests)
        BY DEF TypeOK
      <3>. QED  BY <3>1
    <2>. QED  BY <1>2, <2>1, <2>2 DEF Filed, rows
  <1>6. Looked'
    BY <1>2, <1>3 DEF Looked, Matches, rows, history
  <1>7. Counted'
    BY <1>2, <1>3 DEF Counted, After, rows, history
  <1>8. ConversationsExplained'
    BY <1>2 DEF ConversationsExplained, Participants, rows, history
  <1>9. PreviewExplained'
    <2>1. ASSUME NEW c \in DOMAIN conversations, NEW x \in Later(c)
          PROVE  x \in Requests
      <3>1. c \in Requests /\ messages[c] \in Seq(Requests)
        BY DEF TypeOK
      <3>. QED  BY <3>1 DEF Later
    <2>2. \A c : Later(c)' = Later(c)
      BY <1>2 DEF Later, rows
    <2>. QED  BY <1>2, <1>3, <2>1, <2>2 DEF PreviewExplained, rows, history
  <1>. QED  BY <1>0, <1>1, <1>4, <1>5, <1>6, <1>7, <1>8, <1>9 DEF Inv

\* The conjunction is inductive.
THEOREM InvInductive == Inv /\ [Next]_vars => Inv'
  <1>. SUFFICES ASSUME Inv, [Next]_vars  PROVE Inv'
    OBVIOUS
  <1>1. ASSUME NEW p \in Requests, Step(p)  PROVE Inv'
    BY <1>1, StepTypes, CallsStep, FiledStep, LookedStep, CountedStep, ConversationsStep,
       PreviewStep, GatewayStep DEF Inv, TypesKept
  <1>2. CASE UNCHANGED vars
    <2>1. UNCHANGED <<conversations, messages, link, userSockets, dropped, emitted, pc, req,
                      receiver, passed, behind, raced>>
      BY <1>2 DEF vars, rows, links, history
    <2>2. TypeOK' /\ Calls' /\ Filed'
      BY <2>1 DEF Inv, TypeOK, Calls, Filed, Exists
    <2>3. Looked' /\ Counted'
      BY <2>1 DEF Inv, Looked, Counted, Matches, After
    <2>4. ConversationsExplained' /\ PreviewExplained' /\ GatewayExplained'
      BY <2>1 DEF Inv, ConversationsExplained, PreviewExplained, Later, GatewayExplained,
         EntriesExplained, PushesToParticipants, Participants
    <2>. QED  BY <2>2, <2>3, <2>4 DEF Inv
  <1>. QED  BY <1>1, <1>2, LinksInv DEF Next

THEOREM InvHolds == Spec => []Inv
  BY InvInit, InvInductive, PTL DEF Spec

\* Rows, the map and handlers have their types, for any users and sockets.
THEOREM TypesHold == Spec => []TypeOK
  <1>1. Inv => TypeOK
    BY DEF Inv
  <1>. QED  BY <1>1, InvHolds, PTL

\* createConversation (messaging.service.ts) makes a second conversation of two
\* users only when the two were looked for at once.
THEOREM ConversationsHold == Spec => []ConversationsExplained
  <1>1. Inv => ConversationsExplained
    BY DEF Inv
  <1>. QED  BY <1>1, InvHolds, PTL

\* sendMessage (messaging.service.ts) leaves a preview behind its conversation
\* only when two senders cross, or one fails between its statements.
THEOREM PreviewsHold == Spec => []PreviewExplained
  <1>1. Inv => PreviewExplained
    BY DEF Inv
  <1>. QED  BY <1>1, InvHolds, PTL

\* The map of messaging.gateway.ts names open sockets of the right users, and
\* misses only users who have closed another socket; a message is pushed to
\* participants only.
THEOREM GatewayHolds == Spec => []GatewayExplained
  <1>1. Inv => GatewayExplained
    BY DEF Inv
  <1>. QED  BY <1>1, InvHolds, PTL

----------------------------------------------------------------------------
(* Lists *)

LEMMA MinOfTwo ==
  ASSUME NEW a \in Int, NEW b \in Int
  PROVE  Min({a, b}) = IF a <= b THEN a ELSE b
  BY DEF Min

\* The lists there are, and that what they are sorted by can be compared.
ListNames == NewestLists \cup UnsortedLists \cup {"sorted"}

LEMMA KeysAreNumbers ==
  ASSUME ListsTypeOK, NEW name \in ListNames, NEW r \in selected
  PROVE  KeyOf(name, r) \in Int
  BY RowsAssumption, RanksAssumption DEF ListsTypeOK, ListNames, KeyOf, Newest, Ranked, Unsorted, NewestLists, UnsortedLists

\* D is what a page of the list may hold: Pages, for whatever the list is sorted by.
IsPage(name, S, n, size, D) ==
  LET skipped == Min({Skip(n, size), Cardinality(S)})
      taken == Min({size, Cardinality(S) - skipped})
  IN  /\ D \subseteq S /\ Cardinality(D) = taken
      /\ \E A \in SUBSET (S \ D) :
           /\ Cardinality(A) = skipped
           /\ \A a \in A, b \in S \ A : KeyOf(name, a) >= KeyOf(name, b)
           /\ \A a \in D, b \in S \ (A \cup D) : KeyOf(name, a) >= KeyOf(name, b)


\* The queries of one order are one query.
LEMMA NewestPages ==
  ASSUME NEW name \in NewestLists, NEW S, NEW n, NEW size
  PROVE  FindMany(name, S, n, size) = GetAllProperties(S, n, size)
  <1>1. /\ GetUserNotifications(S, n, size) = GetAllProperties(S, n, size)
        /\ FindByUser(S, n, size) = GetAllProperties(S, n, size)
        /\ GetGuestBookings(S, n, size) = GetAllProperties(S, n, size)
        /\ GetHostBookings(S, n, size) = GetAllProperties(S, n, size)
        /\ GetListingReviews(S, n, size) = GetAllProperties(S, n, size)
        /\ GetUserReviews(S, n, size) = GetAllProperties(S, n, size)
        /\ GetLogs(S, n, size) = GetAllProperties(S, n, size)
        /\ GetAuditLogs(S, n, size) = GetAllProperties(S, n, size)
        /\ GetPromotions(S, n, size) = GetAllProperties(S, n, size)
        /\ GetTickets(S, n, size) = GetAllProperties(S, n, size)
        /\ GetVerifications(S, n, size) = GetAllProperties(S, n, size)
        /\ GetAnnouncements(S, n, size) = GetAllProperties(S, n, size)
    BY DEF GetAllProperties, GetUserNotifications, FindByUser, GetGuestBookings,
      GetHostBookings, GetListingReviews, GetUserReviews, GetLogs, GetAuditLogs, GetPromotions,
      GetTickets, GetVerifications, GetAnnouncements
  <1>. QED BY <1>1 DEF FindMany, NewestLists

LEMMA UnsortedPages ==
  ASSUME NEW name \in UnsortedLists, NEW S, NEW n, NEW size
  PROVE  FindMany(name, S, n, size) = GetUsers(S, n, size)
  <1>1. /\ GetListings(S, n, size) = GetUsers(S, n, size)
        /\ GetBookings(S, n, size) = GetUsers(S, n, size)
        /\ GetPayments(S, n, size) = GetUsers(S, n, size)
        /\ GetReviews(S, n, size) = GetUsers(S, n, size)
    BY DEF GetUsers, GetListings, GetBookings, GetPayments, GetReviews
  <1>. QED BY <1>1 DEF FindMany, UnsortedLists

\* Whatever the list, findMany answers with a page.
LEMMA FoundPage ==
  ASSUME NEW name \in ListNames, NEW S, NEW n, NEW size, NEW D \in FindMany(name, S, n, size)
  PROVE  IsPage(name, S, n, size, D)
  <1>1. CASE name \in NewestLists
    <2>1. D \in GetAllProperties(S, n, size)
      BY <1>1, NewestPages
    <2>2. \A r : KeyOf(name, r) = r
      BY <1>1 DEF KeyOf, Newest, NewestLists, UnsortedLists
    <2>. QED  BY <2>1, <2>2 DEF GetAllProperties, Pages, Newest, kSubset, IsPage
  <1>2. CASE name \in UnsortedLists
    <2>1. D \in GetUsers(S, n, size)
      BY <1>2, UnsortedPages
    <2>2. \A r : KeyOf(name, r) = 0
      BY <1>2 DEF KeyOf, Unsorted, UnsortedLists, NewestLists
    <2>. QED  BY <2>1, <2>2 DEF GetUsers, Pages, Unsorted, kSubset, IsPage
  <1>3. CASE name = "sorted"
    <2>1. D \in GetSortedListings(S, n, size)
      BY <1>3 DEF FindMany
    <2>2. \A r : KeyOf(name, r) = rank[r]
      BY <1>3 DEF KeyOf, Ranked, NewestLists, UnsortedLists
    <2>. QED  BY <2>1, <2>2 DEF GetSortedListings, Pages, Ranked, kSubset, IsPage
  <1>. QED BY <1>1, <1>2, <1>3 DEF ListNames

----------------------------------------------------------------------------
(* Lists: rows that come before a row *)

\* The rows that any answer has before r, those that none has to have after it,
\* and those that the answer to the last page did not have to.
Above(S, name, r)  == {q \in S : KeyOf(name, q) > KeyOf(name, r)}
Beside(S, name, r) == {q \in S \ {r} : KeyOf(name, q) >= KeyOf(name, r)}
Before(r) == {q \in DOMAIN placed \ {r} : placed[q] >= placed[r]}

LEMMA RowSets ==
  ASSUME NEW S \in SUBSET Rows
  PROVE  IsFiniteSet(S) /\ Cardinality(S) \in Nat
  BY RowsAssumption, FS_Subset, FS_CardinalityType

\* A part has fewer rows than the whole.
LEMMA SubsetCounts ==
  ASSUME NEW T \in SUBSET Rows, NEW S \in SUBSET T
  PROVE  /\ Cardinality(S) <= Cardinality(T)
         /\ S # T => Cardinality(S) < Cardinality(T)
  BY RowSets, FS_Subset

LEMMA DisjointCounts ==
  ASSUME NEW A \in SUBSET Rows, NEW D \in SUBSET Rows, A \cap D = {}
  PROVE  Cardinality(A \cup D) = Cardinality(A) + Cardinality(D)
  <1>1. Cardinality(A \cup D) = Cardinality(A) + Cardinality(D) - Cardinality({})
    BY RowSets, FS_Union
  <1>2. Cardinality({}) = 0
    BY FS_EmptySet
  <1>. QED  BY <1>1, <1>2, RowSets

\* A row with n - 1 pages of rows above it that is not on the nth page has n pages
\* of rows that came before it.  It is not among the rows skipped: those above it
\* fill the skipped pages by themselves.  So it comes after the page, which is full.
LEMMA PageReached ==
  ASSUME NEW name \in ListNames, NEW S \in SUBSET Rows, NEW n \in Nat \ {0},
         NEW size \in Nat \ {0}, NEW D, IsPage(name, S, n, size, D),
         \A q \in S : KeyOf(name, q) \in Int,
         NEW r \in S \ D,
         Cardinality(Above(S, name, r)) >= (n - 1) * size
  PROVE  Cardinality(Beside(S, name, r)) >= n * size
  <1>. DEFINE before == (n - 1) * size
              up == Above(S, name, r)
  <1>1. before \in Nat /\ n * size = before + size
    OBVIOUS
  <1>2. Cardinality(S) \in Nat /\ up \in SUBSET S
    BY RowSets DEF Above
  <1>3. PICK skipped \in Nat :
           skipped = IF before <= Cardinality(S) THEN before ELSE Cardinality(S)
    BY <1>1, <1>2
  <1>4. PICK taken \in Nat :
           taken = IF size <= Cardinality(S) - skipped THEN size ELSE Cardinality(S) - skipped
    BY <1>2, <1>3
  <1>5. /\ Min({Skip(n, size), Cardinality(S)}) = skipped
        /\ Min({size, Cardinality(S) - skipped}) = taken
    BY <1>1, <1>2, <1>3, <1>4, MinOfTwo DEF Skip
  <1>6. D \in SUBSET S /\ Cardinality(D) = taken
    BY <1>5 DEF IsPage
  <1>7. PICK A \in SUBSET (S \ D) :
           /\ Cardinality(A) = skipped
           /\ \A a \in A, b \in S \ A : KeyOf(name, a) >= KeyOf(name, b)
           /\ \A a \in D, b \in S \ (A \cup D) : KeyOf(name, a) >= KeyOf(name, b)
    BY <1>5 DEF IsPage
  <1>8. \A q \in S : KeyOf(name, q) \in Int
    OBVIOUS
  <1>9. r \notin A
    <2>. SUFFICES ASSUME r \in A  PROVE FALSE
      OBVIOUS
    <2>1. up \in SUBSET A /\ up # A
      BY <1>7, <1>8 DEF Above
    <2>2. Cardinality(up) < skipped
      BY <2>1, <1>7, SubsetCounts
    <2>. QED  BY <2>2, <1>1, <1>2, <1>3, RowSets
  <1>10. A \cup D \in SUBSET Beside(S, name, r)
    BY <1>6, <1>7, <1>8, <1>9 DEF Beside
  <1>11. Cardinality(A \cup D) = skipped + taken
    BY <1>6, <1>7, DisjointCounts
  <1>12. A \cup D \in SUBSET S /\ A \cup D # S
    BY <1>6, <1>7, <1>9
  <1>13. skipped + taken < Cardinality(S)
    BY <1>11, <1>12, SubsetCounts
  <1>14. /\ skipped + taken <= Cardinality(Beside(S, name, r))
         /\ Cardinality(Beside(S, name, r)) \in Nat
    <2>1. Beside(S, name, r) \in SUBSET Rows
      BY DEF Beside
    <2>. QED  BY <2>1, <1>10, <1>11, SubsetCounts, RowSets
  <1>. QED  BY <1>1, <1>2, <1>3, <1>4, <1>13, <1>14

----------------------------------------------------------------------------
(* Lists: the walk of a client *)

\* The number of pages whose rows the client has got.
PagesRead == IF fetched THEN page ELSE page - 1

\* While no row leaves, a row that was there at first, has not been seen and has
\* not been overtaken had all pages read before it when the last of them was
\* fetched, and is counted beyond them where the count is not short.
Walked ==
  ~shrunk =>
    /\ first \subseteq selected
    /\ DOMAIN placed \subseteq selected
    /\ fetched \/ page > 1 => first \subseteq DOMAIN placed
    /\ \A r \in first \ seen :
         r \notin displaced =>
           /\ Cardinality(Before(r)) >= PagesRead * limit
           /\ fetched /\ total # -1 /\ ~short => total > page * limit

ListsInv ==
  /\ ListsTypeOK
  /\ list \in ListNames /\ first \subseteq used
  /\ fetched \in BOOLEAN /\ shrunk \in BOOLEAN /\ short \in BOOLEAN
  /\ Walked

LEMMA ListsInitial == ListsInit => ListsInv
  <1>. SUFFICES ASSUME ListsInit  PROVE ListsInv
    OBVIOUS
  <1>1. ListsTypeOK /\ list \in ListNames /\ first \subseteq used
    BY LimitsAssumption DEF ListsInit, ListsTypeOK, ListNames
  <1>2. \A r \in first : Cardinality(Before(r)) >= PagesRead * limit
    <2>1. PagesRead * limit = 0
      BY <1>1, LimitsAssumption DEF ListsInit, ListsTypeOK, PagesRead
    <2>2. \A r : Before(r) = {}
      BY DEF ListsInit, Before
    <2>. QED BY <2>1, <2>2, FS_EmptySet
  <1>3. /\ first = selected /\ DOMAIN placed = {}
        /\ fetched = FALSE /\ page = 1 /\ shrunk = FALSE /\ short = FALSE
    BY DEF ListsInit
  <1>4. Walked
    <2>1. ~(page > 1)
      BY <1>3
    <2>. QED  BY <1>2, <1>3, <2>1 DEF Walked
  <1>. QED  BY <1>1, <1>3, <1>4 DEF ListsInv

\* The rows that came before one that was there are not all there are.
LEMMA BeforeCounts ==
  ASSUME ListsInv, ~shrunk, NEW r \in first
  PROVE  /\ Cardinality(Before(r)) \in Nat /\ Cardinality(selected) \in Nat
         /\ Cardinality(Before(r)) < Cardinality(selected)
  <1>1. /\ selected \in SUBSET Rows /\ r \in selected
        /\ Before(r) \in SUBSET selected /\ Before(r) # selected
    BY DEF ListsInv, ListsTypeOK, Walked, Before
  <1>. QED  BY <1>1, SubsetCounts, RowSets

LEMMA EnterInv ==
  ASSUME ListsInv, NEW r \in Rows, Enter(r)
  PROVE  ListsInv'
  <1>1. rank' \in [selected' -> Ranks]
    BY DEF Enter, ListsInv, ListsTypeOK
  <1>2. /\ ListsTypeOK' /\ (list \in ListNames)' /\ (first \subseteq used)'
        /\ (fetched \in BOOLEAN)' /\ (shrunk \in BOOLEAN)' /\ (short \in BOOLEAN)'
    BY <1>1 DEF ListsInv, ListsTypeOK, Enter, client
  <1>3. Walked'
    BY DEF Enter, client, ListsInv, Walked, PagesRead, Before
  <1>. QED  BY <1>2, <1>3 DEF ListsInv

LEMMA LeaveInv ==
  ASSUME ListsInv, NEW r \in Rows, Leave(r)
  PROVE  ListsInv'
  <1>1. rank' \in [selected' -> Ranks]
    BY DEF Leave, ListsInv, ListsTypeOK
  <1>. QED  BY <1>1 DEF ListsInv, ListsTypeOK, Leave, client, Walked

\* Moving a row changes nothing that has been fetched.
LEMMA RerankInv ==
  ASSUME ListsInv, NEW r \in Rows, Rerank(r)
  PROVE  ListsInv'
  <1>1. rank' \in [selected' -> Ranks]
    BY DEF Rerank, ListsInv, ListsTypeOK
  <1>2. /\ ListsTypeOK' /\ (list \in ListNames)' /\ (first \subseteq used)'
        /\ (fetched \in BOOLEAN)' /\ (shrunk \in BOOLEAN)' /\ (short \in BOOLEAN)'
    BY <1>1 DEF ListsInv, ListsTypeOK, Rerank, client
  <1>3. Walked'
    BY DEF Rerank, client, ListsInv, Walked, PagesRead, Before
  <1>. QED  BY <1>2, <1>3 DEF ListsInv

LEMMA CountInv ==
  ASSUME ListsInv, Count
  PROVE  ListsInv'
  <1>1. Cardinality(selected) \in 0 .. Cardinality(Rows)
    <2>1. selected \in SUBSET Rows /\ Rows \in SUBSET Rows
      BY DEF ListsInv, ListsTypeOK
    <2>. QED  BY <2>1, RowSets, SubsetCounts
  <1>2. ListsTypeOK' /\ (list \in ListNames)' /\ (first \subseteq used)'
        /\ (fetched \in BOOLEAN)' /\ (shrunk \in BOOLEAN)' /\ (short \in BOOLEAN)'
    BY <1>1 DEF ListsInv, ListsTypeOK, Count
  <1>3. ASSUME ~shrunk, NEW r \in first \ seen, r \notin displaced, fetched
        PROVE  Cardinality(selected) > page * limit
    <2>1. Cardinality(Before(r)) >= page * limit
      BY <1>3 DEF ListsInv, Walked, PagesRead
    <2>2. page * limit \in Int
      BY LimitsAssumption DEF ListsInv, ListsTypeOK
    <2>. QED  BY <1>3, <2>1, <2>2, BeforeCounts
  <1>4. Walked'
    BY <1>3 DEF Count, ListsInv, Walked, PagesRead, Before
  <1>. QED  BY <1>2, <1>4 DEF ListsInv

LEMMA FetchInv ==
  ASSUME ListsInv, Fetch
  PROVE  ListsInv'
  <1>1. PICK D \in FindMany(list, selected, page, limit) : seen' = seen \cup D
    BY DEF Fetch
  <1>2. /\ list \in ListNames /\ selected \in SUBSET Rows
        /\ page \in Nat \ {0} /\ limit \in Nat \ {0}
    BY LimitsAssumption DEF ListsInv, ListsTypeOK
  <1>3. IsPage(list, selected, page, limit, D)
    BY <1>1, <1>2, FoundPage
  <1>4. D \subseteq selected
    BY <1>3 DEF IsPage
  <1>5. \A q \in selected : KeyOf(list, q) \in Int
    BY <1>2, KeysAreNumbers DEF ListsInv
  <1>6. /\ placed' = [q \in selected |-> KeyOf(list, q)]
        /\ displaced' \subseteq used
        /\ UNCHANGED <<selected, used, rank, list, page, limit, total, first, shrunk>>
    BY DEF Fetch, ListsInv, ListsTypeOK
  <1>7. DOMAIN placed' \subseteq used' /\ placed' \in [DOMAIN placed' -> Int]
    BY <1>5, <1>6 DEF ListsInv, ListsTypeOK
  <1>8. ListsTypeOK' /\ (list \in ListNames)' /\ (first \subseteq used)'
        /\ (shrunk \in BOOLEAN)'
    BY <1>1, <1>4, <1>6, <1>7 DEF ListsInv, ListsTypeOK
  <1>9. (fetched \in BOOLEAN)' /\ (short \in BOOLEAN)'
    BY DEF Fetch
  <1>10. ASSUME ~shrunk, NEW r \in first \ seen', r \notin displaced'
         PROVE  /\ Cardinality(Before(r)') >= page * limit
                /\ total # -1 /\ ~short' => total > page * limit
    <2>1. r \in selected \ D /\ first \subseteq selected
      BY <1>1, <1>10 DEF ListsInv, Walked
    <2>2. Cardinality(Above(selected, list, r)) >= (page - 1) * limit
      <3>1. Above(selected, list, r) \in SUBSET Rows
        BY <1>2 DEF Above
      <3>2. CASE page = 1
        <4>1. (page - 1) * limit = 0
          BY <1>2, <3>2
        <4>. QED  BY <3>1, <4>1, RowSets
      <3>3. CASE page # 1
        <4>1. page > 1 /\ ~fetched
          BY <1>2, <3>3 DEF Fetch
        <4>2. /\ r \in DOMAIN placed /\ DOMAIN placed \subseteq selected
              /\ r \notin displaced /\ ~Displaced(r)
          BY <1>10, <2>1, <3>3, <4>1 DEF Fetch, ListsInv, Walked
        <4>3. Cardinality(Before(r)) >= (page - 1) * limit
          BY <1>1, <1>10, <4>1, <4>2 DEF ListsInv, Walked, PagesRead
        <4>4. Before(r) \in SUBSET Above(selected, list, r)
          BY <1>5, <2>1, <4>2 DEF Before, Above, Displaced
        <4>5. /\ Cardinality(Before(r)) <= Cardinality(Above(selected, list, r))
              /\ Cardinality(Before(r)) \in Nat
              /\ Cardinality(Above(selected, list, r)) \in Nat
          BY <3>1, <4>4, SubsetCounts, RowSets
        <4>6. (page - 1) * limit \in Int
          BY <1>2
        <4>. QED  BY <4>3, <4>5, <4>6
      <3>. QED  BY <3>2, <3>3
    <2>3. Cardinality(Beside(selected, list, r)) >= page * limit
      BY <1>2, <1>3, <1>5, <2>1, <2>2, PageReached
    <2>4. Before(r)' = Beside(selected, list, r)
      BY <1>6, <2>1 DEF Before, Beside
    <2>5. /\ Beside(selected, list, r) \in SUBSET selected
          /\ Beside(selected, list, r) # selected
      BY <2>1 DEF Beside
    <2>6. /\ Cardinality(Beside(selected, list, r)) < Cardinality(selected)
          /\ Cardinality(Beside(selected, list, r)) \in Nat
          /\ Cardinality(selected) \in Nat
      BY <1>2, <2>5, SubsetCounts, RowSets
    <2>7. page * limit \in Int
      BY <1>2
    <2>8. total # -1 => total \in Nat
      BY <1>2, RowSets DEF ListsInv, ListsTypeOK
    <2>9. total # -1 /\ ~short' => Cardinality(selected) <= total
      <3>1. total # -1 /\ ~short' => ~(Cardinality(selected) > total)
        BY DEF Fetch
      <3>. QED  BY <3>1, <2>6, <2>8
    <2>. QED  BY <2>3, <2>4, <2>6, <2>7, <2>8, <2>9
  <1>11. Walked'
    <2>1. fetched'
      BY DEF Fetch
    <2>2. DOMAIN placed' = selected
      BY <1>6
    <2>3. ~shrunk => first \subseteq selected
      BY DEF ListsInv, Walked
    <2>. QED  BY <1>6, <1>10, <2>1, <2>2, <2>3 DEF Walked, PagesRead
  <1>. QED  BY <1>8, <1>9, <1>11 DEF ListsInv

LEMMA TurnInv ==
  ASSUME ListsInv, Turn
  PROVE  ListsInv'
  <1>1. ListsTypeOK' /\ (list \in ListNames)' /\ (first \subseteq used)'
        /\ (fetched \in BOOLEAN)' /\ (shrunk \in BOOLEAN)' /\ (short \in BOOLEAN)'
    <2>1. ListsTypeOK' /\ (list \in ListNames)' /\ (first \subseteq used)'
      BY DEF ListsInv, ListsTypeOK, Turn
    <2>2. (fetched \in BOOLEAN)' /\ (shrunk \in BOOLEAN)' /\ (short \in BOOLEAN)'
      BY DEF ListsInv, Turn
    <2>. QED  BY <2>1, <2>2
  <1>2. PagesRead' = PagesRead
    BY DEF ListsInv, ListsTypeOK, Turn, PagesRead
  <1>3. Walked'
    BY <1>2 DEF ListsInv, ListsTypeOK, Walked, Before, Turn
  <1>. QED  BY <1>1, <1>3 DEF ListsInv

\* The conjunction is inductive.
THEOREM ListsInvInductive == ListsInv /\ [ListsNext]_listVars => ListsInv'
  <1>. SUFFICES ASSUME ListsInv, [ListsNext]_listVars  PROVE ListsInv'
    OBVIOUS
  <1>1. CASE UNCHANGED listVars
    BY <1>1 DEF listVars, ListsInv, ListsTypeOK, Walked, PagesRead, Before
  <1>. QED
    BY <1>1, EnterInv, LeaveInv, RerankInv, CountInv, FetchInv, TurnInv DEF ListsNext

\* Math.ceil: the pages up to the last hold whatever was counted.
LEMMA LastPage ==
  ASSUME NEW count \in Nat, NEW size \in Nat \ {0}, NEW n \in Nat, n >= TotalPages(count, size)
  PROVE  n * size >= count
  <1>1. PICK q \in Nat : q = (count + size - 1) \div size
    OBVIOUS
  <1>2. count + size - 1 < (q + 1) * size
    BY <1>1
  <1>3. (q + 1) * size = q * size + size
    BY <1>1
  <1>4. n * size >= q * size
    BY <1>1 DEF TotalPages
  <1>5. n * size \in Nat /\ q * size \in Nat
    BY <1>1
  <1>. QED BY <1>2, <1>3, <1>4, <1>5

\* A client that reads a list page by page to the end (properties.service.ts and the
\* other lists) has got every row it began with, for tables and pages of any size and
\* whatever prices and ratings change meanwhile: but for rows that another has
\* overtaken between two pages, rows that left, and a last page fetched from more
\* rows than were counted.
THEOREM WalksAreComplete == ListsSpec => []WalkComplete
  <1>1. ListsInv => WalkComplete
    <2>. SUFFICES ASSUME ListsInv, Ended, ~shrunk, ~short, NEW r \in first \ seen,
                         r \notin displaced
                  PROVE  FALSE
      BY DEF WalkComplete
    <2>1. total > page * limit
      BY DEF ListsInv, Walked, Ended
    <2>2. total \in Nat /\ limit \in Nat \ {0} /\ page \in Nat
      <3>1. Rows \in SUBSET Rows
        OBVIOUS
      <3>. QED BY <3>1, LimitsAssumption, RowSets DEF ListsInv, ListsTypeOK, Ended
    <2>3. page * limit >= total
      BY <2>2, LastPage DEF Ended
    <2>. QED  BY <2>1, <2>2, <2>3
  <1>. QED  BY <1>1, ListsInitial, ListsInvInductive, PTL DEF ListsSpec

----------------------------------------------------------------------------
(* The parts side by side *)

MediaTheorems == INSTANCE MediaProofs WITH
  Users <- Uploaders, pc <- mpc, req <- mreq

WishlistsTheorems == INSTANCE WishlistsProofs WITH
  Users <- Owners, pc <- wpc, req <- wreq

\* A step of one part is a step of that part, and none of the others.
LEMMA PartsStep ==
  [PartsNext]_partsVars =>
    /\ [Next]_vars /\ [ListsNext]_listVars
    /\ [MediaPart!Next]_(MediaPart!vars) /\ [WishlistsPart!Next]_(WishlistsPart!vars)
  BY DEF PartsNext, MessagingStep, ListsStep, MediaStep, WishlistsStep, partsVars, mediaVars,
     wishlistsVars, MediaPart!vars, WishlistsPart!vars, WishlistsPart!history

\* Each part behaves as it would alone: what holds of a part holds beside the others.
THEOREM PartsRunApart ==
  PartsSpec => Spec /\ ListsSpec /\ MediaPart!Spec /\ WishlistsPart!Spec
  BY PartsStep, PTL DEF PartsSpec, PartsInit, Spec, ListsSpec, MediaPart!Spec,
     WishlistsPart!Spec

\* MediaProofs and WishlistsProofs speak of the same parts: expanded to the last
\* definition, the two sides are one formula.
LEMMA SameMediaInit == MediaPart!Init => MediaTheorems!Init
  BY DEF
     MediaPart!NoRequest, MediaPart!Init, MediaTheorems!NoRequest, MediaTheorems!Init

LEMMA SameMediaNext == MediaPart!Next => MediaTheorems!Next
  BY DEF
     MediaPart!Keys, MediaPart!BulkRequest, MediaPart!CleanupRequest, MediaPart!NoRequest,
     MediaPart!UploadPc, MediaPart!UpdatePc, MediaPart!DeletePc, MediaPart!BulkPc,
     MediaPart!CleanupPc, MediaPart!AwaitPc, MediaPart!Validated,
     MediaPart!GetResourceType, MediaPart!Destroyed, MediaPart!Live, MediaPart!Without,
     MediaPart!Begin, MediaPart!Refuse, MediaPart!Goto, MediaPart!Finish, MediaPart!Throw,
     MediaPart!RemoveFile, MediaPart!ReceiveUpload, MediaPart!KeyOf, MediaPart!MimeOf,
     MediaPart!StoreFile, MediaPart!Store, MediaPart!InsertRow, MediaPart!Mine,
     MediaPart!FindForUpdate, MediaPart!DeleteOld, MediaPart!StoreNew, MediaPart!UpdateRow,
     MediaPart!FindForDelete, MediaPart!DeleteFile, MediaPart!DeleteRow,
     MediaPart!SoftDelete, MediaPart!RowMissing, MediaPart!FindMany, MediaPart!UpdateMany,
     MediaPart!Age, MediaPart!Old, MediaPart!FindOld, MediaPart!DeleteOldFiles,
     MediaPart!DeleteOldRows, MediaPart!Crash, MediaPart!Batches, MediaPart!Step,
     MediaPart!Next, MediaTheorems!Keys, MediaTheorems!BulkRequest,
     MediaTheorems!CleanupRequest, MediaTheorems!NoRequest, MediaTheorems!UploadPc,
     MediaTheorems!UpdatePc, MediaTheorems!DeletePc, MediaTheorems!BulkPc,
     MediaTheorems!CleanupPc, MediaTheorems!AwaitPc, MediaTheorems!Validated,
     MediaTheorems!GetResourceType, MediaTheorems!Destroyed, MediaTheorems!Live,
     MediaTheorems!Without, MediaTheorems!Begin, MediaTheorems!Refuse, MediaTheorems!Goto,
     MediaTheorems!Finish, MediaTheorems!Throw, MediaTheorems!RemoveFile,
     MediaTheorems!ReceiveUpload, MediaTheorems!KeyOf, MediaTheorems!MimeOf,
     MediaTheorems!StoreFile, MediaTheorems!Store, MediaTheorems!InsertRow,
     MediaTheorems!Mine, MediaTheorems!FindForUpdate, MediaTheorems!DeleteOld,
     MediaTheorems!StoreNew, MediaTheorems!UpdateRow, MediaTheorems!FindForDelete,
     MediaTheorems!DeleteFile, MediaTheorems!DeleteRow, MediaTheorems!SoftDelete,
     MediaTheorems!RowMissing, MediaTheorems!FindMany, MediaTheorems!UpdateMany,
     MediaTheorems!Age, MediaTheorems!Old, MediaTheorems!FindOld,
     MediaTheorems!DeleteOldFiles, MediaTheorems!DeleteOldRows, MediaTheorems!Crash,
     MediaTheorems!Batches, MediaTheorems!Step, MediaTheorems!Next

LEMMA SameWishlistsInit == WishlistsPart!Init => WishlistsTheorems!Init
  BY DEF
     WishlistsPart!Ids, WishlistsPart!Wishlist, WishlistsPart!NoRequest,
     WishlistsPart!Init, WishlistsTheorems!Ids, WishlistsTheorems!Wishlist,
     WishlistsTheorems!NoRequest, WishlistsTheorems!Init

LEMMA SameWishlistsNext == WishlistsPart!Next => WishlistsTheorems!Next
  BY DEF
     WishlistsPart!history, WishlistsPart!Ids, WishlistsPart!Request,
     WishlistsPart!NoRequest, WishlistsPart!AwaitPc, WishlistsPart!Goto, WishlistsPart!End,
     WishlistsPart!Finish, WishlistsPart!Throw, WishlistsPart!Write,
     WishlistsPart!CreateWishlist, WishlistsPart!Allowed, WishlistsPart!FindWishlist,
     WishlistsPart!ReadItems, WishlistsPart!Respond, WishlistsPart!UpdateWishlist,
     WishlistsPart!DeleteWishlist, WishlistsPart!FindItem, WishlistsPart!InsertItem,
     WishlistsPart!RemoveItem, WishlistsPart!DeletePlace, WishlistsPart!Crash,
     WishlistsPart!Step, WishlistsPart!Next, WishlistsTheorems!history,
     WishlistsTheorems!Ids, WishlistsTheorems!Request, WishlistsTheorems!NoRequest,
     WishlistsTheorems!AwaitPc, WishlistsTheorems!Goto, WishlistsTheorems!End,
     WishlistsTheorems!Finish, WishlistsTheorems!Throw, WishlistsTheorems!Write,
     WishlistsTheorems!CreateWishlist, WishlistsTheorems!Allowed,
     WishlistsTheorems!FindWishlist, WishlistsTheorems!ReadItems,
     WishlistsTheorems!Respond, WishlistsTheorems!UpdateWishlist,
     WishlistsTheorems!DeleteWishlist, WishlistsTheorems!FindItem,
     WishlistsTheorems!InsertItem, WishlistsTheorems!RemoveItem,
     WishlistsTheorems!DeletePlace, WishlistsTheorems!Crash, WishlistsTheorems!Step,
     WishlistsTheorems!Next

LEMMA SameMedia == MediaPart!Spec => MediaTheorems!Spec
  <1>1. [MediaPart!Next]_(MediaPart!vars) => [MediaTheorems!Next]_(MediaTheorems!vars)
    BY SameMediaNext DEF MediaPart!vars, MediaTheorems!vars
  <1>. QED  BY <1>1, SameMediaInit, PTL DEF MediaPart!Spec, MediaTheorems!Spec

LEMMA SameWishlists == WishlistsPart!Spec => WishlistsTheorems!Spec
  <1>1. [WishlistsPart!Next]_(WishlistsPart!vars)
          => [WishlistsTheorems!Next]_(WishlistsTheorems!vars)
    BY SameWishlistsNext DEF WishlistsPart!vars, WishlistsTheorems!vars,
       WishlistsPart!history, WishlistsTheorems!history
  <1>. QED
    BY <1>1, SameWishlistsInit, PTL DEF WishlistsPart!Spec, WishlistsTheorems!Spec

LEMMA MediaBounds == MediaTheorems!Bounds
  BY FilesAssumption DEF MediaTheorems!Bounds, MediaPart!Mimes, MediaTheorems!Mimes

\* Rows, files, sockets, handlers and pages have their types in all four parts.
THEOREM PartsTypes == PartsSpec => []TypesOK
  <1>1. MediaTheorems!Spec => []MediaTheorems!TypeOK
    BY MediaBounds, MediaTheorems!TypesHold
  <1>2. WishlistsTheorems!Spec => []WishlistsTheorems!TypeOK
    BY ExistingAssumption, WishlistsTheorems!TypesHold
  <1>3. MediaTheorems!TypeOK => MediaPart!TypeOK
    BY DEF
       MediaPart!Mimes, MediaPart!Keys, MediaPart!Row, MediaPart!UploadRequest,
       MediaPart!UpdateRequest, MediaPart!DeleteRequest, MediaPart!BulkRequest,
       MediaPart!CleanupRequest, MediaPart!NoRequest, MediaPart!UploadPc,
       MediaPart!UpdatePc, MediaPart!DeletePc, MediaPart!BulkPc, MediaPart!CleanupPc,
       MediaPart!AwaitPc, MediaPart!TypeOK, MediaTheorems!Mimes, MediaTheorems!Keys,
       MediaTheorems!Row, MediaTheorems!UploadRequest, MediaTheorems!UpdateRequest,
       MediaTheorems!DeleteRequest, MediaTheorems!BulkRequest,
       MediaTheorems!CleanupRequest, MediaTheorems!NoRequest, MediaTheorems!UploadPc,
       MediaTheorems!UpdatePc, MediaTheorems!DeletePc, MediaTheorems!BulkPc,
       MediaTheorems!CleanupPc, MediaTheorems!AwaitPc, MediaTheorems!TypeOK
  <1>4. WishlistsTheorems!TypeOK => WishlistsPart!TypeOK
    BY DEF
       WishlistsPart!Ids, WishlistsPart!Wishlist, WishlistsPart!Request,
       WishlistsPart!NoRequest, WishlistsPart!AwaitPc, WishlistsPart!TypeOK,
       WishlistsTheorems!Ids, WishlistsTheorems!Wishlist, WishlistsTheorems!Request,
       WishlistsTheorems!NoRequest, WishlistsTheorems!AwaitPc, WishlistsTheorems!TypeOK
  <1>5. ListsSpec => []ListsTypeOK
    <2>1. ListsInv => ListsTypeOK
      BY DEF ListsInv
    <2>. QED  BY <2>1, ListsInitial, ListsInvInductive, PTL DEF ListsSpec
  <1>. QED
    BY <1>1, <1>2, <1>3, <1>4, <1>5, TypesHold, PartsRunApart, SameMedia, SameWishlists, PTL
    DEF TypesOK

\* A live row of media is without its file only while update or a permanent delete
\* is between the two, or after it failed there (media.service.ts).
THEOREM LiveRowsKeepFiles == PartsSpec => []LiveRowsHaveFiles
  <1>1. MediaTheorems!Spec => []MediaTheorems!LiveRowsHaveFiles
    BY MediaBounds, MediaTheorems!FilesHold
  <1>2. MediaTheorems!LiveRowsHaveFiles => LiveRowsHaveFiles
    BY DEF LiveRowsHaveFiles,
       MediaPart!Stored, MediaPart!Live, MediaPart!LiveRowsHaveFiles, MediaTheorems!Stored,
       MediaTheorems!Live, MediaTheorems!LiveRowsHaveFiles
  <1>. QED  BY <1>1, <1>2, PartsRunApart, SameMedia, PTL

\* An image is left in the store without a row only by a call that failed or is at
\* work, a deletion that failed, or two calls that replaced one file.
THEOREM OrphansAreExplained == PartsSpec => []OrphansExplained
  <1>1. MediaTheorems!Spec => []MediaTheorems!OrphansExplained
    BY MediaBounds, MediaTheorems!OrphansHold
  <1>2. MediaTheorems!OrphansExplained => OrphansExplained
    BY DEF OrphansExplained, MediaPart!OrphansExplained, MediaTheorems!OrphansExplained
  <1>. QED  BY <1>1, <1>2, PartsRunApart, SameMedia, PTL

\* getWishlist (wishlists.service.ts) shows a stranger nothing that was not shared,
\* unless the wishlist was made private between its two reads.
THEOREM StrangersAreShownShared == PartsSpec => []StrangersSeeShared
  <1>1. WishlistsTheorems!Spec => []WishlistsTheorems!StrangersSeeShared
    BY ExistingAssumption, WishlistsTheorems!StrangersHold
  <1>2. WishlistsTheorems!StrangersSeeShared => StrangersSeeShared
    BY DEF StrangersSeeShared, WishlistsPart!StrangersSeeShared,
       WishlistsTheorems!StrangersSeeShared
  <1>. QED  BY <1>1, <1>2, PartsRunApart, SameWishlists, PTL
=============================================================================
