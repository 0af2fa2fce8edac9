----------------------------- MODULE Messaging -----------------------------
(***************************************************************************)
(* Conversations, messages and the WebSocket gateway (src/messaging).      *)
(*                                                                         *)
(* A message is a row, and the preview its conversation shows in lists is  *)
(* written after it in a statement of its own.  The gateway of an instance *)
(* keeps one socket a user in a map of the process; events are emitted to  *)
(* the sockets found there.  Socket handlers up to their first await, and  *)
(* emits, are atomic.                                                      *)
(*                                                                         *)
(* Each member of Requests is one HTTP request or socket event, taken up   *)
(* with its first statement, before which it reads nothing; a conversation *)
(* or message is named after the request that inserts it.                  *)
(* A socket connects at most once: socket.io gives a reconnection a new id.*)
(***************************************************************************)
EXTENDS Naturals, Sequences

CONSTANTS
  Requests,     \* the requests and events served
  Users,        \* rows of users
  Stays,        \* bookings a conversation may be about
  Sockets,      \* connections made to the gateway
  UserOf        \* the subject of the token a socket presents

ASSUME SocketsAssumption == UserOf \in [Sockets -> Users]

VARIABLES
  conversations,  \* the rows, a function on the ids inserted so far
  messages,       \* the messages of a conversation in the order of insertion
  link,           \* whether a socket is new, open or closed
  userSockets,    \* the gateway's map, a function on the users it has
  pc,             \* the statement a handler awaits next
  req,            \* the request a handler serves
  receiver,       \* socket a call log goes to, looked up before the awaits
  emitted,        \* what the last step pushed: to which socket, in which
                  \* operation, about which conversation
  \* History, read by no handler:
  passed,         \* messages inserted into the conversation of a handler
                  \* between its own insert and its write of the preview
  behind,         \* passed of the handler that wrote a preview last
  raced,          \* conversations inserted since a handler looked for one
  dropped         \* users with an open socket older than the disconnect of
                  \* another that removed their entry

rows    == <<conversations, messages>>
links   == <<link, userSockets, dropped>>
history == <<passed, behind, raced>>
vars == <<rows, links, emitted, pc, req, receiver, history>>

----------------------------------------------------------------------------
(* Rows and requests *)

None == "none"

\* preview names the message whose text the conversation shows.
Conversation == [pair: Users \X Users, stay: Stays \cup {None},
                 preview: Requests \cup {None}]

CreateRequest == [op: {"create"}, user: Users, with: Users,
                  stay: Stays \cup {None}]
\* by is the socket of a gateway event, None for an HTTP request.
SendRequest == [op: {"send", "endCall"}, user: Users,
                conv: Requests, by: Sockets \cup {None}]
NoRequest == [op |-> None]

CreatePc == {"insertConversation"}
SendPc   == {"findConversation", "insertMessage", "updatePreview", "findAgain"}

Participants(c) == {conversations[c].pair[1], conversations[c].pair[2]}
Exists(c) == c \in DOMAIN conversations

\* The socket that the map has for each of the users.
SocketsFor(users) == {userSockets[u] : u \in users \cap DOMAIN userSockets}

\* server.to(socket).emit(..) for each of some sockets.
Push(sockets, op, c) == emitted' = {<<s, op, c>> : s \in sockets}
Silent == emitted' = {}

Init ==
  /\ conversations = [c \in {} |-> NoRequest]
  /\ messages = [c \in Requests |-> <<>>]
  /\ link = [s \in Sockets |-> "new"]
  /\ userSockets = [u \in {} |-> None]
  /\ pc = [p \in Requests |-> "idle"]
  /\ req = [p \in Requests |-> NoRequest]
  /\ receiver = [p \in Requests |-> {}]
  /\ emitted = {}
  /\ passed = [p \in Requests |-> {}]
  /\ behind = [c \in Requests |-> {}]
  /\ raced = [p \in Requests |-> {}]
  /\ dropped = {}

Begin(p, r, first) ==
  /\ pc[p] = "idle"
  /\ pc' = [pc EXCEPT ![p] = first]
  /\ req' = [req EXCEPT ![p] = r]

Goto(p, next) == pc' = [pc EXCEPT ![p] = next] /\ UNCHANGED <<req, receiver>>

End(p, how) == /\ pc' = [pc EXCEPT ![p] = how]
               /\ req' = [req EXCEPT ![p] = NoRequest]
               /\ receiver' = [receiver EXCEPT ![p] = {}]

Finish(p) == End(p, "done")
Throw(p)  == End(p, "failed") /\ Silent /\ UNCHANGED <<rows, links, history>>

----------------------------------------------------------------------------
(* createConversation *)

\* Mutant of Matches: a conversation the other one began is not found.
MatchesOneWay(c, q) ==
  /\ conversations[c].pair = <<q.user, q.with>>
  /\ q.stay # None => conversations[c].stay = q.stay

\* The where clause: the two users in either order and, if the request names a
\* booking, that booking.
Matches(c, q) == /\ conversations[c].pair \in {<<q.user, q.with>>, <<q.with, q.user>>}
                 /\ q.stay # None => conversations[c].stay = q.stay

FindExisting(p, u, w, stay) ==
  LET q == [op |-> "create", user |-> u, with |-> w, stay |-> stay]
  IN  /\ u # w
      /\ ~\E c \in DOMAIN conversations : Matches(c, q)
      /\ Begin(p, q, "insertConversation")
      /\ UNCHANGED <<rows, links, receiver, history>> /\ Silent

InsertConversation(p) ==
  LET row == [pair |-> <<req[p].user, req[p].with>>, stay |-> req[p].stay,
              preview |-> None]
  IN  /\ pc[p] = "insertConversation"
      /\ conversations' = [c \in DOMAIN conversations \cup {p} |->
                             IF c = p THEN row ELSE conversations[c]]
      /\ raced' = [q \in Requests |->
           IF q # p /\ pc[q] = "insertConversation" THEN raced[q] \cup {p}
                                                    ELSE raced[q]]
      /\ Finish(p)
      /\ UNCHANGED <<messages, links, passed, behind>> /\ Silent

----------------------------------------------------------------------------
(* sendMessage, over HTTP and from the gateway *)

\* Mutant of Admitted: a conversation that is not there is not refused.
AdmittedIfMissing(q) == Exists(q.conv) => q.user \in Participants(q.conv)

\* The first read of sendMessage finds the conversation, and the sender in it.
Admitted(q) == Exists(q.conv) /\ q.user \in Participants(q.conv)

SendMessage(p, u, c, by) ==
  LET q == [op |-> "send", user |-> u, conv |-> c, by |-> by]
  IN  /\ Admitted(q)
      /\ Begin(p, q, "insertMessage")
      /\ UNCHANGED <<rows, links, receiver, history>> /\ Silent

HandleSendMessage(p, s, c) == link[s] = "open" /\ SendMessage(p, UserOf[s], c, s)

\* endCall tells the other side at once and then logs the call as a message;
\* where that message goes is decided now.
HandleEndCall(p, s, to, c) ==
  /\ link[s] = "open"
  /\ Begin(p, [op |-> "endCall", user |-> UserOf[s], conv |-> c, by |-> s],
             "findConversation")
  /\ receiver' = [receiver EXCEPT ![p] = SocketsFor({to})]
  /\ Push(SocketsFor({to}), "endCall", None)
  /\ UNCHANGED <<rows, links, history>>

FindConversation(p) ==
  /\ pc[p] = "findConversation"
  /\ \/ /\ Admitted(req[p])
        /\ Goto(p, "insertMessage")
        /\ UNCHANGED <<rows, links, history>> /\ Silent
     \/ ~Admitted(req[p]) /\ Throw(p)

InsertMessage(p) ==
  LET c == req[p].conv
  IN  /\ pc[p] = "insertMessage"
      /\ messages' = [messages EXCEPT ![c] = Append(@, p)]
      /\ passed' = [q \in Requests |->
           IF q = p THEN {}
           ELSE IF pc[q] = "updatePreview" /\ req[q].conv = c
                THEN passed[q] \cup {p} ELSE passed[q]]
      /\ Goto(p, "updatePreview")
      /\ UNCHANGED <<conversations, links, behind, raced>> /\ Silent

\* Mutant of UpdatePreview: the preview is written once and then kept.
UpdateFirstPreview(p) ==
  LET c == req[p].conv
  IN  /\ pc[p] = "updatePreview"
      /\ conversations' = IF conversations[c].preview = None
                          THEN [conversations EXCEPT ![c].preview = p]
                          ELSE conversations
      /\ behind' = [behind EXCEPT ![c] = passed[p]]
      /\ passed' = [passed EXCEPT ![p] = {}]
      /\ \/ req[p].by = None /\ Finish(p) /\ Silent
         \/ /\ req[p].op = "send" /\ req[p].by # None
            /\ Goto(p, "findAgain")
            /\ Silent
         \/ /\ req[p].op = "endCall"
            /\ Push(receiver[p] \cup {req[p].by}, "endCall", c)
            /\ Finish(p)
      /\ UNCHANGED <<messages, links, raced>>

\* The HTTP handler returns; endCall emits the log; sendMessage of the gateway
\* goes on to look for the participants.
UpdatePreview(p) ==
  LET c == req[p].conv
  IN  /\ pc[p] = "updatePreview"
      /\ conversations' = [conversations EXCEPT ![c].preview = p]
      /\ behind' = [behind EXCEPT ![c] = passed[p]]
      /\ passed' = [passed EXCEPT ![p] = {}]
      /\ \/ req[p].by = None /\ Finish(p) /\ Silent
         \/ /\ req[p].op = "send" /\ req[p].by # None
            /\ Goto(p, "findAgain")
            /\ Silent
         \/ /\ req[p].op = "endCall"
            /\ Push(receiver[p] \cup {req[p].by}, "endCall", c)
            /\ Finish(p)
      /\ UNCHANGED <<messages, links, raced>>

EmitMessage(p) ==
  /\ pc[p] = "findAgain"
  /\ Push(SocketsFor(Participants(req[p].conv)), "send", req[p].conv)
  /\ Finish(p)
  /\ UNCHANGED <<rows, links, history>>

----------------------------------------------------------------------------
(* The other events: typing, and the signalling of calls *)

\* To the other participant, or to the first if the sender is neither.
HandleTyping(p, s, c) ==
  LET pair == conversations[c].pair
      other == IF UserOf[s] = pair[1] THEN pair[2] ELSE pair[1]
  IN  /\ link[s] = "open"
      /\ Exists(c)
      /\ pc[p] = "idle"
      /\ Push(SocketsFor({other}), "typing", c)
      /\ Finish(p)
      /\ UNCHANGED <<rows, links, history>>

\* callUser, answerCall and iceCandidate pass a signal on, without an await.
HandleCall(p, s, to) ==
  /\ link[s] = "open"
  /\ pc[p] = "idle"
  /\ Push(SocketsFor({to}), "call", None)
  /\ Finish(p)
  /\ UNCHANGED <<rows, links, history>>

----------------------------------------------------------------------------
(* Connections of the gateway *)

\* A valid token puts the socket into the map in place of any other of the
\* user; without one the socket is disconnected, and the map left alone.
HandleConnection(s) ==
  LET u == UserOf[s]
  IN  /\ link[s] = "new"
      /\ \/ /\ link' = [link EXCEPT ![s] = "open"]
            /\ userSockets' = [v \in DOMAIN userSockets \cup {u} |->
                                 IF v = u THEN s ELSE userSockets[v]]
            /\ dropped' = dropped \ {u}
         \/ /\ link' = [link EXCEPT ![s] = "closed"]
            /\ UNCHANGED <<userSockets, dropped>>
      /\ UNCHANGED <<rows, pc, req, receiver, history>> /\ Silent

\* Mutant of HandleDisconnect: the map keeps its entries.
HandleDisconnectOnly(s) ==
  LET u == UserOf[s]
      others == {t \in Sockets \ {s} : link[t] = "open" /\ UserOf[t] = u}
  IN  /\ link[s] = "open"
      /\ link' = [link EXCEPT ![s] = "closed"]
      /\ dropped' = IF others = {} THEN dropped ELSE dropped \cup {u}
      /\ UNCHANGED <<rows, userSockets, pc, req, receiver, history>> /\ Silent

\* The user's entry goes, whichever socket it names.
HandleDisconnect(s) ==
  LET u == UserOf[s]
      others == {t \in Sockets \ {s} : link[t] = "open" /\ UserOf[t] = u}
  IN  /\ link[s] = "open"
      /\ link' = [link EXCEPT ![s] = "closed"]
      /\ userSockets' = [v \in DOMAIN userSockets \ {u} |-> userSockets[v]]
      /\ dropped' = IF others = {} THEN dropped ELSE dropped \cup {u}
      /\ UNCHANGED <<rows, pc, req, receiver, history>> /\ Silent

\* The awaited statement fails, or the instance that runs the handler dies.
Crash(p) == pc[p] \in CreatePc \cup SendPc /\ Throw(p)

Dies(p) == pc[p] \in SendPc /\ req[p].by # None

\* The instance with the sockets dies: they close, the map is lost and the
\* handlers of its events stop.
Restart ==
  /\ link' = [s \in Sockets |-> IF link[s] = "open" THEN "closed" ELSE link[s]]
  /\ userSockets' = [u \in {} |-> None]
  /\ dropped' = {}
  /\ pc' = [p \in Requests |->
       IF Dies(p) THEN "failed" ELSE pc[p]]
  /\ req' = [p \in Requests |-> IF Dies(p) THEN NoRequest ELSE req[p]]
  /\ receiver' = [p \in Requests |-> {}]
  /\ UNCHANGED <<rows, history>> /\ Silent

----------------------------------------------------------------------------

Step(p) ==
  \/ \E u, w \in Users, stay \in Stays \cup {None} : FindExisting(p, u, w, stay)
  \/ \E u \in Users, c \in Requests : SendMessage(p, u, c, None)
  \/ \E s \in Sockets, c \in Requests : HandleSendMessage(p, s, c)
  \/ \E s \in Sockets, to \in Users, c \in Requests : HandleEndCall(p, s, to, c)
  \/ \E s \in Sockets, c \in Requests : HandleTyping(p, s, c)
  \/ \E s \in Sockets, to \in Users : HandleCall(p, s, to)
  \/ InsertConversation(p)
  \/ FindConversation(p) \/ InsertMessage(p) \/ UpdatePreview(p)
  \/ EmitMessage(p) \/ Crash(p)

Next == \/ \E p \in Requests : Step(p)
        \/ \E s \in Sockets : HandleConnection(s) \/ HandleDisconnect(s)
        \/ Restart

Spec == Init /\ [][Next]_vars

----------------------------------------------------------------------------
(* Properties *)

\* Rows, the map and handlers have their types, and a handler past its first
\* read serves a conversation that exists.
TypeOK ==
  /\ DOMAIN conversations \subseteq Requests
  /\ conversations \in [DOMAIN conversations -> Conversation]
  /\ messages \in [Requests -> Seq(Requests)]
  /\ link \in [Sockets -> {"new", "open", "closed"}]
  /\ DOMAIN userSockets \subseteq Users
  /\ userSockets \in [DOMAIN userSockets -> Sockets]
  /\ emitted \subseteq
       Sockets \X {"send", "endCall", "typing", "call"} \X (Requests \cup {None})
  /\ pc \in [Requests -> CreatePc \cup SendPc \cup {"idle", "done", "failed"}]
  /\ req \in [Requests -> CreateRequest \cup SendRequest \cup {NoRequest}]
  /\ receiver \in [Requests -> SUBSET Sockets]
  /\ passed \in [Requests -> SUBSET Requests]
  /\ behind \in [Requests -> SUBSET Requests]
  /\ raced \in [Requests -> SUBSET Requests]
  /\ dropped \subseteq Users
  /\ \A p \in Requests :
       /\ pc[p] \in CreatePc => req[p].op = "create"
       /\ pc[p] \in SendPc => req[p].op \in {"send", "endCall"}
       /\ pc[p] \in {"insertMessage", "updatePreview", "findAgain"} =>
            Exists(req[p].conv)

\* Two people have one conversation about one thing (a booking, or nothing in
\* particular), whoever began it, except for conversations begun at once: each
\* handler had looked before the other inserted.
ConversationsExplained ==
  \A c, d \in DOMAIN conversations :
    /\ c # d
    /\ Participants(c) = Participants(d)
    /\ conversations[c].stay = conversations[d].stay
    => c \in raced[d] \/ d \in raced[c]

\* The messages of a conversation after the one its preview shows.
Later(c) ==
  LET log == messages[c]
  IN  {log[j] : j \in {j \in DOMAIN log :
         \A i \in DOMAIN log : log[i] = conversations[c].preview => i < j}}

\* A conversation shows its last message, but for messages whose sender has
\* not written the preview (yet, or because it failed), and those that were
\* inserted while the sender of the message shown was about to write it.
PreviewExplained ==
  \A c \in DOMAIN conversations : \A p \in Later(c) :
    p \in behind[c] \/ pc[p] \in {"updatePreview", "failed"}

\* The map names open sockets of the right user, and all users with an open
\* socket, except one who has closed another socket after opening it: a user
\* with two tabs, or one that reconnects before the old socket times out.
EntriesExplained ==
  /\ \A u \in DOMAIN userSockets :
       link[userSockets[u]] = "open" /\ UserOf[userSockets[u]] = u
  /\ \A s \in Sockets :
       link[s] = "open" => UserOf[s] \in DOMAIN userSockets \cup dropped

\* A message is pushed to participants of its conversation only; the log of a
\* call goes back to the caller's socket, and to whom the call was with.
PushesToParticipants ==
  \A s \in Sockets, c \in Requests :
    <<s, "send", c>> \in emitted => UserOf[s] \in Participants(c)

GatewayExplained == EntriesExplained /\ PushesToParticipants
=============================================================================
