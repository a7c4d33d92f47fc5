------------------------------ MODULE Websocket ------------------------------
(***************************************************************************)
(* The sockets of src/status/src/services/websocket.js.  The service keeps *)
(* one socket per kind of request (per server for the status) and uses it  *)
(* for every request of that kind, whichever server the request names,     *)
(* until it is closed.  A socket has                                       *)
(*   to       the server it is connected to,                               *)
(*   ready    its readyState,                                              *)
(*   sent     the requests whose answers are still to come, in order (those*)
(*            of a socket that connects are sent when it opens),           *)
(*   waiting  the requests whose message and error listeners it holds, in  *)
(*            the order they were added.                                   *)
(* What the browser does to a socket is external.  A listener answers for  *)
(* its request at the first event of its kind, whatever request the event  *)
(* belongs to.                                                             *)
(***************************************************************************)
EXTENDS Naturals, Sequences

CONSTANT NoServer   \* the server of a socket that was never made

NoSocket == [to |-> NoServer, ready |-> "closed", sent |-> <<>>, waiting |-> <<>>]

ReadyStates == {"connecting", "open", "closing", "closed"}

\* Mutant: the socket is kept when it is closed.
CreateSocketKept(socket, address, message, listener) ==
    LET used == IF socket.to = NoServer
                THEN [NoSocket EXCEPT !.to = address, !.ready = "connecting"]
                ELSE socket
    IN  [used EXCEPT !.waiting = Append(@, listener),
                     !.sent = IF used.ready \in {"closing", "closed"} THEN @ ELSE Append(@, message)]

\* The socket the service has is used unless it is closed; a socket that is
\* closing takes the listeners and discards the message.
CreateSocket(socket, address, message, listener) ==
    LET used == IF socket.ready = "closed"
                THEN [NoSocket EXCEPT !.to = address, !.ready = "connecting"]
                ELSE socket
    IN  [used EXCEPT !.waiting = Append(@, listener),
                     !.sent = IF used.ready = "closing" THEN @ ELSE Append(@, message)]

\* The connection is made, and what was waiting for it is sent.
Opened(socket) == [socket EXCEPT !.ready = "open"]

\* The other side starts to close.
Closing(socket) == [socket EXCEPT !.ready = "closing"]

\* A message: every listener is removed and called with it.
Answered(socket) == [socket EXCEPT !.sent = Tail(@), !.waiting = <<>>]

\* Mutant: what was sent is still expected.
ClosedExpecting(socket) == [socket EXCEPT !.ready = "closed", !.waiting = <<>>]

\* The socket is closed.  If that is an error, the listeners are called; if
\* it is not, nothing will call them any more.
Closed(socket) == [socket EXCEPT !.ready = "closed", !.sent = <<>>, !.waiting = <<>>]

\* The sockets there can be: a closed one holds no request.
Sockets(servers, messages, listeners) ==
    {s \in [to : servers \cup {NoServer}, ready : ReadyStates,
            sent : Seq(messages), waiting : Seq(listeners)] :
        s.ready = "closed" => s.sent = <<>> /\ s.waiting = <<>>}
=============================================================================
