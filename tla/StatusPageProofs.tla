--------------------------- MODULE StatusPageProofs ---------------------------
(***************************************************************************)
(* What StatusService and SkipChainService keep true whatever chains,      *)
(* servers and rosters there are: one refresh loop runs, no server of the  *)
(* roster is forgotten, the table shows the statuses that the service has, *)
(* the page shows the blocks of the chain it has picked, and every variable*)
(* has its type.                                                           *)
(***************************************************************************)
EXTENDS StatusPage, Repetition, SequenceTheorems, TLAPS

\* The sockets of getStatus.
StatusSockets == Sockets(Servers, {"status"}, {"status"})

\* The types of the variables that StatusService and ServersStatus own.
RosterTypes ==
    /\ servers \subseteq Servers
    /\ status \in [Servers -> {"none", "online", "offline"}]
    /\ table \in [Servers -> {"none", "online", "offline"}]
    /\ status_sockets \in [Servers -> StatusSockets]
    /\ timers \in Nat

\* The invariant: each of its parts but the types is a property of the run.
RosterInv == RosterTypes /\ OneRefreshLoop /\ NoneForgotten /\ TableFollows

-----------------------------------------------------------------------------
\* A request for the status of a server leaves a listener on its socket, whatever
\* the socket was.
LEMMA GetStatusWaits ==
    ASSUME RosterTypes, NEW s \in Servers
    PROVE  GetStatus(s) \in StatusSockets /\ GetStatus(s).waiting # <<>>
<1> USE DEF StatusSockets, Sockets, ReadyStates
<1>1. status_sockets[s] \in StatusSockets
  BY DEF RosterTypes
<1> DEFINE used == IF status_sockets[s].ready = "closed"
                   THEN [NoSocket EXCEPT !.to = s, !.ready = "connecting"]
                   ELSE status_sockets[s]
<1>2. used \in StatusSockets /\ used.ready # "closed"
  <2>1. <<>> \in Seq({"status"})
    OBVIOUS
  <2>2. NoSocket \in StatusSockets
    BY <2>1 DEF NoSocket
  <2>3. /\ [NoSocket EXCEPT !.to = s, !.ready = "connecting"] \in StatusSockets
        /\ [NoSocket EXCEPT !.to = s, !.ready = "connecting"].ready = "connecting"
    BY <2>2
  <2> QED
    BY <1>1, <2>3
<1> DEFINE socket == CreateSocket(status_sockets[s], s, "status", "status")
<1>3. socket = [used EXCEPT !.waiting = Append(@, "status"),
                            !.sent = IF used.ready = "closing" THEN @ ELSE Append(@, "status")]
  BY DEF CreateSocket
<1> HIDE DEF used
<1>4. /\ socket \in StatusSockets
      /\ socket.waiting # <<>>
  <2> DEFINE waits == Append(used.waiting, "status")
             sends == IF used.ready = "closing" THEN used.sent ELSE Append(used.sent, "status")
  <2>1. waits \in Seq({"status"}) /\ waits # <<>> /\ sends \in Seq({"status"})
    BY <1>2
  <2>2. socket = [used EXCEPT !.waiting = waits, !.sent = sends]
    BY <1>3
  <2> HIDE DEF waits, sends, socket
  <2> QED
    BY <1>2, <2>1, <2>2
<1> HIDE DEF socket
<1>5. Head(socket.waiting) \in {"status"}
  BY <1>4
<1>6. <<Head(socket.waiting)>> \in Seq({"status"}) /\ <<Head(socket.waiting)>> # <<>>
  BY <1>5
<1> DEFINE len == IF Len(socket.sent) < MaxSent THEN Len(socket.sent) ELSE MaxSent
<1>7. len \in 0..Len(socket.sent)
  BY <1>4, PageAssumption
<1>8. SubSeq(socket.sent, 1, len) \in Seq({"status"})
  BY <1>4, <1>7
<1>9. GetStatus(s) = [socket EXCEPT !.waiting = <<Head(socket.waiting)>>,
                                    !.sent = SubSeq(socket.sent, 1, len)]
  BY DEF GetStatus, socket
<1> QED
  BY <1>4, <1>6, <1>8, <1>9

\* A round of requests: the timer is armed, and each server that is polled has a
\* listener on its socket.
LEMMA UpdateStatusPolls ==
    ASSUME RosterTypes, NEW polled \in SUBSET Servers, NEW running \in Nat,
           UpdateStatus(polled, running)
    PROVE  /\ timers' = running + 1
           /\ status_sockets' \in [Servers -> StatusSockets]
           /\ \A s \in polled : status_sockets'[s].waiting # <<>>
<1>1. /\ timers' = running + 1
      /\ status_sockets' = [s \in Servers |-> IF s \in polled THEN GetStatus(s)
                                               ELSE status_sockets[s]]
  BY DEF UpdateStatus
<1>2. \A s \in Servers : GetStatus(s) \in StatusSockets /\ GetStatus(s).waiting # <<>>
  BY GetStatusWaits
<1>3. \A s \in Servers : status_sockets[s] \in StatusSockets
  BY DEF RosterTypes
<1> QED
  BY <1>1, <1>2, <1>3

\* A new roster starts without statuses, and its servers are asked.
LEMMA OnGenesisUpdateKeeps ==
    ASSUME RosterInv, NEW chain \in Chains \cup {None}, OnGenesisUpdate(chain), env' = env
    PROVE  RosterInv'
<1>1. CASE chain = None
  BY <1>1 DEF OnGenesisUpdate, RosterInv, RosterTypes, OneRefreshLoop, NoneForgotten,
              TableFollows, roster
<1>2. CASE chain # None
  <2>1. /\ status' = NoStatus
        /\ servers' = Roster[chain]
        /\ UpdateStatus(Roster[chain], ClearTimer(timers))
        /\ table' = table
    BY <1>2 DEF OnGenesisUpdate
  <2>2. Roster[chain] \in SUBSET Servers
    BY <1>2, PageAssumption
  <2>3. ClearTimer(timers) = 0
    BY DEF ClearTimer, RosterInv, RosterTypes, OneRefreshLoop
  <2>4. /\ timers' = 1
        /\ status_sockets' \in [Servers -> StatusSockets]
        /\ \A s \in Roster[chain] : status_sockets'[s].waiting # <<>>
    <3>1. RosterTypes /\ 0 \in Nat /\ UpdateStatus(Roster[chain], 0)
      BY <2>1, <2>3 DEF RosterInv
    <3>2. /\ timers' = 0 + 1
          /\ status_sockets' \in [Servers -> StatusSockets]
          /\ \A s \in Roster[chain] : status_sockets'[s].waiting # <<>>
      BY <2>2, <3>1, UpdateStatusPolls
    <3> QED
      BY <3>2
  <2>5. RosterTypes'
    BY <2>1, <2>2, <2>4 DEF RosterInv, RosterTypes, NoStatus
  <2>6. OneRefreshLoop'
    BY <2>4 DEF OneRefreshLoop
  <2>7. NoneForgotten'
    BY <2>1, <2>4 DEF NoneForgotten
  <2>8. TableFollows'
    BY <2>1 DEF TableFollows, NoStatus
  <2> QED
    BY <2>5, <2>6, <2>7, <2>8 DEF RosterInv
<1> QED
  BY <1>1, <1>2

\* The timer of a round is over when it arms the next.
LEMMA RefreshKeeps ==
    ASSUME RosterInv, Refresh
    PROVE  RosterInv'
<1>1. /\ timers > 0 /\ UpdateStatus(servers, timers - 1)
      /\ UNCHANGED <<env, servers, status, table>>
  BY DEF Refresh
<1>2. timers = 1
  BY <1>1 DEF RosterInv, RosterTypes, OneRefreshLoop
<1>3. servers \in SUBSET Servers /\ UpdateStatus(servers, 0)
  BY <1>1, <1>2 DEF RosterInv, RosterTypes
<1>4. /\ timers' = 0 + 1
      /\ status_sockets' \in [Servers -> StatusSockets]
      /\ \A s \in servers : status_sockets'[s].waiting # <<>>
  <2>1. RosterTypes /\ 0 \in Nat
    BY DEF RosterInv
  <2> QED
    BY <1>3, <2>1, UpdateStatusPolls
<1>5. RosterTypes'
  BY <1>1, <1>4 DEF RosterInv, RosterTypes
<1>6. OneRefreshLoop'
  BY <1>4 DEF OneRefreshLoop
<1>7. NoneForgotten'
  BY <1>1, <1>4 DEF NoneForgotten
<1>8. TableFollows'
  BY <1>1 DEF RosterInv, TableFollows, NoStatus
<1> QED
  BY <1>5, <1>6, <1>7, <1>8 DEF RosterInv

\* A socket's event: it settles every request for the status of its server, or, if no
\* request was waiting, changes no status.
LEMMA StatusEventKeeps ==
    ASSUME RosterInv, NEW s \in Servers, StatusEvent(s)
    PROVE  RosterInv'
<1> DEFINE socket == status_sockets[s]
<1>1. socket \in StatusSockets
  BY DEF RosterInv, RosterTypes
<1>2. /\ UNCHANGED <<env, servers, timers>>
      /\ StatusOpens(s) \/ StatusAnswers(s) \/ StatusFails(s) \/ StatusCloses(s)
  BY DEF StatusEvent
<1>3. PICK next \in StatusSockets :
        /\ status_sockets' = [status_sockets EXCEPT ![s] = next]
        /\ \/ UNCHANGED <<status, table>>
              /\ (next.waiting = socket.waiting \/ socket.waiting = <<>> \/ env.lossy)
           \/ \E value \in {"online", "offline"} : SetStatus(s, value)
  <2>1. <<>> \in Seq({"status"})
    OBVIOUS
  <2>2. CASE StatusOpens(s)
    <3>1. Opened(socket) \in StatusSockets /\ Opened(socket).waiting = socket.waiting
      BY <1>1 DEF Opened, StatusSockets, Sockets, ReadyStates
    <3> QED
      BY <2>2, <3>1 DEF StatusOpens
  <2>3. CASE StatusAnswers(s)
    <3>1. socket.sent # <<>>
      BY <2>3 DEF StatusAnswers
    <3>2. Tail(socket.sent) \in Seq({"status"})
      BY <1>1, <3>1 DEF StatusSockets, Sockets
    <3>3. Answered(socket) \in StatusSockets
      BY <1>1, <2>1, <3>1, <3>2 DEF Answered, StatusSockets, Sockets
    <3> QED
      BY <2>3, <3>3 DEF StatusAnswers
  <2>4. CASE StatusFails(s)
    <3>1. Closed(socket) \in StatusSockets
      BY <1>1, <2>1 DEF Closed, StatusSockets, Sockets, ReadyStates
    <3> QED
      BY <2>4, <3>1 DEF StatusFails
  <2>5. CASE StatusCloses(s)
    <3>1. Closing(socket) \in StatusSockets /\ Closed(socket) \in StatusSockets
      BY <1>1, <2>1 DEF Closing, Closed, StatusSockets, Sockets, ReadyStates
    <3> QED
      BY <2>5, <3>1 DEF StatusCloses
  <2> QED
    BY <1>2, <2>2, <2>3, <2>4, <2>5
<1>4. /\ status' \in [Servers -> {"none", "online", "offline"}]
      /\ table' \in [Servers -> {"none", "online", "offline"}]
  BY <1>3 DEF SetStatus, RosterInv, RosterTypes
<1>5. RosterTypes'
  BY <1>2, <1>3, <1>4 DEF RosterInv, RosterTypes
<1>6. OneRefreshLoop'
  BY <1>2 DEF RosterInv, OneRefreshLoop
<1>7. NoneForgotten'
  <2> SUFFICES ASSUME ~env.lossy, NEW t \in servers, status'[t] = "none"
               PROVE  status_sockets'[t].waiting # <<>>
    BY <1>2 DEF NoneForgotten
  <2>1. t \in Servers
    BY DEF RosterInv, RosterTypes
  <2>2. CASE t # s
    <3>1. status[t] = "none" /\ status_sockets'[t] = status_sockets[t]
      BY <1>3, <2>1, <2>2 DEF SetStatus, RosterInv, RosterTypes
    <3> QED
      BY <3>1 DEF RosterInv, NoneForgotten
  <2>3. CASE t = s
    <3>1. status'[t] = status[t] /\ (next.waiting = socket.waiting \/ socket.waiting = <<>>)
      BY <1>3, <2>1, <2>3 DEF SetStatus, RosterInv, RosterTypes
    <3>2. socket.waiting # <<>>
      BY <2>3, <3>1 DEF RosterInv, NoneForgotten
    <3>3. status_sockets'[t] = next
      BY <1>3, <2>3 DEF RosterInv, RosterTypes
    <3> QED
      BY <3>1, <3>2, <3>3
  <2> QED
    BY <2>2, <2>3
<1>8. TableFollows'
  BY <1>3 DEF SetStatus, RosterInv, TableFollows, NoStatus
<1> QED
  BY <1>5, <1>6, <1>7, <1>8 DEF RosterInv

\* The answer for a chain brings its roster, or an update without blocks.
LEMMA ChainAnswersKeeps ==
    ASSUME RosterInv, ChainAnswers, env' = env
    PROVE  RosterInv'
<1>1. \/ \E chain \in Chains \cup {None} : OnGenesisUpdate(chain)
      \/ UNCHANGED roster
  BY DEF ChainAnswers, UpdateGenesis
<1>2. CASE UNCHANGED roster
  BY <1>2 DEF roster, RosterInv, RosterTypes, OneRefreshLoop, NoneForgotten, TableFollows,
              NoStatus
<1> QED
  BY <1>1, <1>2, OnGenesisUpdateKeeps

\* No other action touches what the two components own.
LEMMA OthersKeep ==
    ASSUME RosterInv, UNCHANGED <<env, roster>>
    PROVE  RosterInv'
BY DEF roster, RosterInv, RosterTypes, OneRefreshLoop, NoneForgotten, TableFollows, NoStatus

\* Every action keeps the invariant.
LEMMA NextKeeps ==
    ASSUME RosterInv, [Next]_vars
    PROVE  RosterInv'
<1>1. CASE IndexArrives
  BY <1>1, OthersKeep DEF IndexArrives
<1>2. CASE IndexFails
  BY <1>2, OthersKeep DEF IndexFails
<1>3. CASE Refresh
  BY <1>3, RefreshKeeps
<1>4. CASE ChainEvent
  <2>1. env' = env
    BY <1>4 DEF ChainEvent
  <2>2. CASE ChainOpens
    BY <2>1, <2>2, OthersKeep DEF ChainOpens
  <2>3. CASE ChainAnswers
    BY <2>1, <2>3, ChainAnswersKeeps
  <2>4. CASE ChainFails
    BY <2>1, <2>4, OthersKeep DEF ChainFails, CallsFail
  <2>5. CASE ChainCloses
    BY <2>1, <2>5, OthersKeep DEF ChainCloses
  <2>6. CASE ChainMalformed
    BY <2>1, <2>6, OthersKeep DEF ChainMalformed, CallsFail
  <2> QED
    BY <1>4, <2>2, <2>3, <2>4, <2>5, <2>6 DEF ChainEvent
<1>5. ASSUME NEW c \in Chains, HandleGenesisChange(c)
      PROVE  RosterInv'
  BY <1>5, OthersKeep DEF HandleGenesisChange
<1>6. ASSUME NEW s \in Servers, StatusEvent(s)
      PROVE  RosterInv'
  BY <1>6, StatusEventKeeps
<1>7. ASSUME NEW s \in Servers, ServerChanges(s)
      PROVE  RosterInv'
  BY <1>7, OthersKeep DEF ServerChanges
<1>8. CASE UNCHANGED vars
  BY <1>8, OthersKeep DEF vars, roster
<1> QED
  BY <1>1, <1>2, <1>3, <1>4, <1>5, <1>6, <1>7, <1>8 DEF Next

LEMMA InitHolds ==
    ASSUME Init
    PROVE  RosterInv
<1>1. <<>> \in Seq({"status"})
  OBVIOUS
<1>2. NoSocket \in StatusSockets
  BY <1>1 DEF NoSocket, StatusSockets, Sockets, ReadyStates
<1>3. RosterTypes
  BY <1>2 DEF Init, RosterTypes, NoStatus
<1> QED
  BY <1>3 DEF Init, RosterInv, OneRefreshLoop, NoneForgotten, TableFollows

\* However many chains and servers there are, whatever rosters they have, and however
\* changes of the chain, rounds of requests and events of sockets interleave: one
\* refresh loop runs, every server of the roster has a status or a request that will
\* give it one, and the table shows what the service has.
THEOREM StatusesFollow == Spec => [](OneRefreshLoop /\ NoneForgotten /\ TableFollows)
<1>1. Init => RosterInv
  BY InitHolds
<1>2. RosterInv /\ [Next]_vars => RosterInv'
  BY NextKeeps
<1>3. RosterInv => OneRefreshLoop /\ NoneForgotten /\ TableFollows
  BY DEF RosterInv
<1> QED
  BY <1>1, <1>2, <1>3, PTL DEF Spec

\* Requests for statuses that one chain left on a socket are settled while another chain
\* is shown: a server of the roster still has a status, or a request that waits for one.
THEOREM StatusIsComing == Spec => []NoneForgotten
BY StatusesFollow, PTL

\* The table is told of each status that is set, and a new roster starts without any: it
\* shows the statuses of the service, or the service has none yet.
THEOREM TableIsTold == Spec => []TableFollows
BY StatusesFollow, PTL

-----------------------------------------------------------------------------
(***************************************************************************)
(* The types.  The listeners that a failed socket calls are a sequence of  *)
(* any length: what they leave is defined by recursion on the number of    *)
(* listeners, and its type follows by induction on it.                     *)
(***************************************************************************)

\* The sockets that blocks are asked on: one that is in use has a server.
ChainSockets ==
    {s \in Sockets(Servers, Chains, Calls) : s.ready # "closed" => s.to \in Servers}

\* The socket that createSocket uses.
UsedSocket(socket, server) ==
    IF socket.ready = "closed"
    THEN [to |-> server, ready |-> "connecting", sent |-> <<>>, waiting |-> <<>>]
    ELSE socket

\* The call that _getUpdates leaves waiting on the socket it used.
CallOn(used, id, n, asked) == [id |-> id, at |-> n, asked |-> asked \cup {used.to}]

\* The socket when the call and its request are on it.
WithCall(used, id, n, asked) ==
    [used EXCEPT !.waiting = Append(used.waiting, CallOn(used, id, n, asked)),
                 !.sent = IF used.ready = "closing" THEN used.sent ELSE Append(used.sent, id)]

LEMMA UsedSocketType ==
    ASSUME NEW socket \in ChainSockets, NEW server \in Servers
    PROVE  /\ UsedSocket(socket, server) \in ChainSockets
           /\ UsedSocket(socket, server).ready # "closed"
           /\ UsedSocket(socket, server).to \in Servers
<1>1. <<>> \in Seq(Chains) /\ <<>> \in Seq(Calls)
  OBVIOUS
<1> HIDE DEF Calls
<1> QED
  BY <1>1 DEF ChainSockets, Sockets, UsedSocket, ReadyStates

\* The last entry of a sequence that grew can be replaced.
LEMMA LastReplaced ==
    ASSUME NEW S, NEW s \in Seq(S), NEW x \in S, NEW y \in S
    PROVE  [Append(s, x) EXCEPT ![Len(s) + 1] = y] = Append(s, y)
<1> DEFINE t == Append(s, x)
           left == [t EXCEPT ![Len(s) + 1] = y]
<1>1. t \in Seq(S) /\ Len(t) = Len(s) + 1 /\ Len(s) + 1 \in 1..Len(t)
  BY AppendProperties
<1>2. \A i \in 1..Len(s) : t[i] = s[i]
  BY AppendProperties
<1> HIDE DEF t
<1>3. left \in Seq(S) /\ Len(left) = Len(t)
  BY <1>1, ExceptSeq
<1>4. \A i \in 1..Len(left) : left[i] = IF i = Len(s) + 1 THEN y ELSE t[i]
  BY <1>1, <1>3, ExceptSeq
<1> HIDE DEF left
<1>5. /\ Append(s, y) \in Seq(S) /\ Len(Append(s, y)) = Len(s) + 1
      /\ \A i \in 1..Len(s) : Append(s, y)[i] = s[i]
      /\ Append(s, y)[Len(s) + 1] = y
  BY AppendProperties
<1>6. \A i \in 1..Len(left) : left[i] = Append(s, y)[i]
  BY <1>1, <1>2, <1>3, <1>4, <1>5
<1>7. left = Append(s, y)
  BY <1>1, <1>3, <1>5, <1>6, SeqEqual
<1> QED
  BY <1>7 DEF left, t

\* A record with one field replaced, and one with two.
LEMMA RecordReplaced ==
    ASSUME NEW a, NEW b, NEW c, NEW x
    PROVE  [[id |-> a, at |-> b, asked |-> c] EXCEPT !.asked = x] =
             [id |-> a, at |-> b, asked |-> x]
<1> DEFINE r == [id |-> a, at |-> b, asked |-> c]
<1>1. r.id = a /\ r.at = b /\ DOMAIN r = {"id", "at", "asked"} /\ r = [f \in DOMAIN r |-> r[f]]
  OBVIOUS
<1> HIDE DEF r
<1>2. [r EXCEPT !.asked = x] = [id |-> a, at |-> b, asked |-> x]
  BY <1>1
<1> QED
  BY <1>2 DEF r

\* A socket that is made has nothing to expect.
LEMMA SocketMade ==
    ASSUME NEW server
    PROVE  [NoSocket EXCEPT !.to = server, !.ready = "connecting"] =
             [to |-> server, ready |-> "connecting", sent |-> <<>>, waiting |-> <<>>]
<1> DEFINE r == NoSocket
           none == <<>>
<1>1. /\ r.sent = none /\ r.waiting = none /\ DOMAIN r = {"to", "ready", "sent", "waiting"}
      /\ r = [f \in DOMAIN r |-> r[f]]
  BY DEF NoSocket
<1> HIDE DEF r, none
<1> DEFINE u == [r EXCEPT !.to = server]
<1>2. u = [to |-> server, ready |-> r.ready, sent |-> none, waiting |-> none]
  BY <1>1
<1>3. /\ u.to = server /\ u.sent = none /\ u.waiting = none
      /\ DOMAIN u = {"to", "ready", "sent", "waiting"} /\ u = [f \in DOMAIN u |-> u[f]]
  BY <1>2
<1> HIDE DEF u
<1>4. [u EXCEPT !.ready = "connecting"] =
        [to |-> server, ready |-> "connecting", sent |-> none, waiting |-> none]
  BY <1>3
<1> QED
  BY <1>4 DEF u, r, none

\* _getUpdates adds its call to the listeners of the socket it used.
LEMMA GetUpdatesMakes ==
    ASSUME NEW socket \in ChainSockets, NEW id \in Chains, NEW n \in DOMAIN ServerList[id],
           NEW asked \in SUBSET Servers, NEW used, used = UsedSocket(socket, ServerList[id][n])
    PROVE  /\ ServerList[id][n] \in Servers
           /\ CallOn(used, id, n, asked) \in Calls
           /\ GetUpdates(socket, id, n, asked) = WithCall(used, id, n, asked)
<1>1. ServerList[id] \in Seq(Servers) /\ ServerList[id][n] \in Servers /\ n \in Nat
  BY PageAssumption
<1>2. used \in ChainSockets /\ used.ready # "closed" /\ used.to \in Servers
  BY <1>1, UsedSocketType
<1>3. CallOn(used, id, n, asked) \in Calls
  BY <1>1, <1>2 DEF CallOn, Calls
<1> DEFINE call == [id |-> id, at |-> n, asked |-> asked]
           sends == IF used.ready = "closing" THEN used.sent ELSE Append(used.sent, id)
           made == CreateSocket(socket, ServerList[id][n], id, call)
<1>4. used.waiting \in Seq(Calls) /\ used.sent \in Seq(Chains)
  BY <1>2 DEF ChainSockets, Sockets
<1>5. made = [used EXCEPT !.waiting = Append(used.waiting, call), !.sent = sends]
  <2>1. CASE socket.ready = "closed"
    <3>1. used = [NoSocket EXCEPT !.to = ServerList[id][n], !.ready = "connecting"]
      BY <2>1, SocketMade DEF UsedSocket
    <3> QED
      BY <2>1, <3>1 DEF CreateSocket
  <2>2. CASE socket.ready # "closed"
    <3>1. used = socket
      BY <2>2 DEF UsedSocket
    <3> QED
      BY <2>2, <3>1 DEF CreateSocket
  <2> QED
    BY <2>1, <2>2
<1> DEFINE k == Len(used.waiting) + 1
<1>6. /\ made.to = used.to /\ made.ready = used.ready /\ made.sent = sends
      /\ made.waiting = Append(used.waiting, call)
  BY <1>2, <1>5 DEF ChainSockets, Sockets
<1> HIDE DEF made
<1>7. Len(made.waiting) = k /\ made.waiting[k] = call
  BY <1>4, <1>6
<1>8. GetUpdates(socket, id, n, asked) =
        [made EXCEPT !.waiting[Len(made.waiting)].asked = @ \cup {made.to}]
  BY DEF GetUpdates, made
<1>9. GetUpdates(socket, id, n, asked) =
        [made EXCEPT !.waiting = [made.waiting EXCEPT ![k] =
            [made.waiting[k] EXCEPT !.asked = made.waiting[k].asked \cup {made.to}]]]
  BY <1>7, <1>8
<1>10. [call EXCEPT !.asked = call.asked \cup {made.to}] = CallOn(used, id, n, asked)
  <2> DEFINE all == asked \cup {used.to}
  <2>1. call.asked \cup {made.to} = all
    BY <1>6
  <2>2. CallOn(used, id, n, asked) = [id |-> id, at |-> n, asked |-> all]
    BY DEF CallOn
  <2> HIDE DEF all
  <2>3. [call EXCEPT !.asked = all] = [id |-> id, at |-> n, asked |-> all]
    BY RecordReplaced
  <2> QED
    BY <2>1, <2>2, <2>3
<1>11. [Append(used.waiting, call) EXCEPT ![k] = CallOn(used, id, n, asked)] =
         Append(used.waiting, CallOn(used, id, n, asked))
  <2>1. call \in Calls
    BY <1>1 DEF Calls
  <2> DEFINE new == CallOn(used, id, n, asked)
             w == used.waiting
  <2>2. call \in Calls /\ new \in Calls /\ w \in Seq(Calls)
    BY <1>3, <1>4, <2>1
  <2> HIDE DEF call, new, w
  <2>3. [Append(w, call) EXCEPT ![Len(w) + 1] = new] = Append(w, new)
    BY <2>2, LastReplaced
  <2> QED
    BY <2>3 DEF new, w
<1>12. GetUpdates(socket, id, n, asked) =
         [made EXCEPT !.waiting = Append(used.waiting, CallOn(used, id, n, asked))]
  <2> DEFINE new == [made.waiting EXCEPT ![k] =
                        [made.waiting[k] EXCEPT !.asked = made.waiting[k].asked \cup {made.to}]]
  <2>1. new = Append(used.waiting, CallOn(used, id, n, asked))
    BY <1>6, <1>7, <1>10, <1>11
  <2>2. GetUpdates(socket, id, n, asked) = [made EXCEPT !.waiting = new]
    BY <1>9
  <2> HIDE DEF new
  <2> QED
    BY <2>1, <2>2
<1> QED
  BY <1>1, <1>2, <1>3, <1>5, <1>12 DEF made, WithCall

\* What error listeners leave: a socket, and whether a call was rejected.
Ends == [socket : ChainSockets, rejected : BOOLEAN]

LEMMA GetUpdatesType ==
    ASSUME NEW socket \in ChainSockets, NEW id \in Chains, NEW n \in DOMAIN ServerList[id],
           NEW asked \in SUBSET Servers
    PROVE  GetUpdates(socket, id, n, asked) \in ChainSockets
<1> DEFINE used == UsedSocket(socket, ServerList[id][n])
<1>1. /\ ServerList[id][n] \in Servers
      /\ CallOn(used, id, n, asked) \in Calls
      /\ GetUpdates(socket, id, n, asked) = WithCall(used, id, n, asked)
  <2>1. used = UsedSocket(socket, ServerList[id][n])
    OBVIOUS
  <2> HIDE DEF used
  <2> QED
    BY <2>1, GetUpdatesMakes
<1>2. used \in ChainSockets /\ used.ready # "closed" /\ used.to \in Servers
  BY <1>1, UsedSocketType
<1> DEFINE waits == Append(used.waiting, CallOn(used, id, n, asked))
           sends == IF used.ready = "closing" THEN used.sent ELSE Append(used.sent, id)
<1> HIDE DEF used
<1>3. waits \in Seq(Calls) /\ sends \in Seq(Chains)
  <2>1. used.waiting \in Seq(Calls) /\ used.sent \in Seq(Chains)
    BY <1>2 DEF ChainSockets, Sockets
  <2> HIDE DEF Calls
  <2> QED
    BY <1>1, <2>1
<1> HIDE DEF waits, sends
<1>4. [used EXCEPT !.waiting = waits, !.sent = sends] \in ChainSockets
  BY <1>2, <1>3 DEF ChainSockets, Sockets
<1> QED
  BY <1>1, <1>4 DEF waits, sends, WithCall

LEMMA ClosedType ==
    ASSUME NEW socket \in ChainSockets
    PROVE  Closed(socket) \in ChainSockets
<1>1. <<>> \in Seq(Chains) /\ <<>> \in Seq(Calls)
  OBVIOUS
<1> QED
  BY <1>1 DEF Closed, ChainSockets, Sockets, ReadyStates

LEMMA TryNextServerType ==
    ASSUME NEW state \in Ends, NEW call \in Calls
    PROVE  TryNextServer(state, call) \in Ends
<1>1. CASE call.at < Len(ServerList[call.id])
  <2>1. call.id \in Chains /\ call.asked \in SUBSET Servers /\ call.at + 1 \in DOMAIN ServerList[call.id]
    BY <1>1, PageAssumption DEF Calls
  <2>2. GetUpdates(state.socket, call.id, call.at + 1, call.asked) \in ChainSockets
    BY <2>1, GetUpdatesType DEF Ends
  <2> QED
    BY <1>1, <2>2 DEF TryNextServer, Ends
<1>2. CASE ~(call.at < Len(ServerList[call.id]))
  BY <1>2 DEF TryNextServer, Ends
<1> QED
  BY <1>1, <1>2

LEMMA AnsweredType ==
    ASSUME NEW socket \in ChainSockets, socket.ready = "open", socket.sent # <<>>
    PROVE  Answered(socket) \in ChainSockets
<1>1. <<>> \in Seq(Calls) /\ socket.sent \in Seq(Chains)
  BY DEF ChainSockets, Sockets
<1>2. Tail(socket.sent) \in Seq(Chains)
  BY <1>1
<1> QED
  BY <1>1, <1>2 DEF Answered, ChainSockets, Sockets

\* The error listeners of a socket, called one after the other.
LEMMA AfterErrorsSteps ==
    ASSUME latest_block \in ChainSockets, NEW base \in ChainSockets
    PROVE  /\ Len(latest_block.waiting) \in Nat
           /\ AfterErrors(base) \in [0..Len(latest_block.waiting) -> Ends]
           /\ AfterErrors(base)[0] = [socket |-> base, rejected |-> FALSE]
           /\ \A n \in 1..Len(latest_block.waiting) :
                 AfterErrors(base)[n] = TryNextServer(AfterErrors(base)[n - 1], latest_block.waiting[n])
<1> DEFINE after == AfterErrors(base)
           m == Len(latest_block.waiting)
           start == [socket |-> base, rejected |-> FALSE]
           step == [p \in (1..m) \X Ends |-> TryNextServer(p[2], latest_block.waiting[p[1]])]
           next(f, n) == IF n = 0 THEN start ELSE TryNextServer(f[n - 1], latest_block.waiting[n])
<1>1. m \in Nat /\ \A n \in 1..m : latest_block.waiting[n] \in Calls
  BY DEF ChainSockets, Sockets
<1>2. start \in Ends
  BY DEF Ends
<1>3. step \in [(1..m) \X Ends -> Ends]
  <2>1. ASSUME NEW p \in (1..m) \X Ends
        PROVE  TryNextServer(p[2], latest_block.waiting[p[1]]) \in Ends
    <3>1. p[2] \in Ends /\ latest_block.waiting[p[1]] \in Calls
      BY <1>1
    <3> QED
      BY <3>1, TryNextServerType
  <2> QED
    BY <2>1
<1>4. PICK g \in [0..m -> Ends] : IsRepetition(g, m, start, step)
  <2> HIDE DEF m, start, step, next
  <2> QED
    BY <1>1, <1>2, <1>3, Repeats
<1> USE DEF IsRepetition
<1>5. g = [n \in 0..m |-> next(g, n)]
  <2>1. ASSUME NEW n \in 1..m PROVE g[n] = TryNextServer(g[n - 1], latest_block.waiting[n])
    <3>1. g[n - 1] \in Ends /\ <<n, g[n - 1]>> \in (1..m) \X Ends
      BY SMTT(20), <1>1, <1>4
    <3> QED
      BY <1>4, <3>1
  <2>2. ASSUME NEW n \in 0..m PROVE g[n] = next(g, n)
    <3> HIDE DEF start, m
    <3>1. n = 0 \/ n \in 1..m
      BY <1>1
    <3> QED
      BY <1>4, <2>1, <3>1
  <2> HIDE DEF next, m
  <2> QED
    BY <1>4, <2>2
<1>6. after = CHOOSE f : f = [n \in 0..m |-> next(f, n)]
  BY DEF AfterErrors
<1> HIDE DEF after
<1>7. after = [n \in 0..m |-> next(after, n)]
  <2> HIDE DEF next, m
  <2> QED
    BY <1>5, <1>6
<1>8. /\ DOMAIN after = 0..m /\ after[0] = start
      /\ \A n \in 1..m : after[n] = TryNextServer(after[n - 1], latest_block.waiting[n])
  <2>1. \A n \in 0..m : after[n] = next(after, n)
    <3> HIDE DEF next, m
    <3> QED
      BY <1>7
  <2>2. 0 \in 0..m /\ \A n \in 1..m : n \in 0..m /\ n # 0
    BY <1>1
  <2>3. DOMAIN after = 0..m
    <3> HIDE DEF next, m
    <3> QED
      BY <1>7
  <2> HIDE DEF start, m
  <2> QED
    BY <2>1, <2>2, <2>3
<1>9. \A n \in 0..m : after[n] \in Ends
  <2> DEFINE S == {n \in 0..m : after[n] \in Ends}
  <2>1. 0 \in S
    BY <1>1, <1>2, <1>8
  <2>2. ASSUME NEW n \in 0..m, n < m, n \in S PROVE n + 1 \in S
    <3>1. n + 1 \in 1..m /\ n + 1 \in 0..m /\ (n + 1) - 1 = n
      BY <1>1, <2>2
    <3>2. after[n + 1] = TryNextServer(after[n], latest_block.waiting[n + 1])
      BY <1>8, <3>1
    <3> QED
      BY <1>1, <2>2, <3>1, <3>2, TryNextServerType
  <2>3. \A n \in 0..m : n \in S
    <3> HIDE DEF S, m
    <3> QED
      BY <1>1, <2>1, <2>2, UpTo
  <2> QED
    BY <2>3
<1>10. after \in [0..m -> Ends]
  <2>1. after = [n \in 0..m |-> after[n]]
    <3> HIDE DEF next, m
    <3> QED
      BY <1>7
  <2> HIDE DEF m
  <2> QED
    BY <1>9, <2>1
<1> QED
  BY <1>1, <1>8, <1>10 DEF after

\* The types of the other variables.
GenesisTypes ==
    /\ env \in Environments /\ down \subseteq Servers
    /\ index \in {"loading", "loaded", "failed"}
    /\ curr_genesis \in Chains \cup {None} /\ blocks \in Chains \cup {None}
    /\ error \in BOOLEAN
    /\ latest_block \in ChainSockets
    /\ list \in [loaded : BOOLEAN, current : Chains \cup {None}, error : BOOLEAN]

LEMMA ChainEventKeepsTypes ==
    ASSUME GenesisTypes, ChainEvent
    PROVE  GenesisTypes'
<1>1. UNCHANGED <<env, down, index>> /\ latest_block \in ChainSockets
  BY DEF ChainEvent, GenesisTypes
<1>2. <<>> \in Seq(Calls) /\ Closed(latest_block) \in ChainSockets
  BY <1>1, ClosedType
<1>3. CASE ChainOpens
  <2>1. Opened(latest_block) \in ChainSockets
    BY <1>1, <1>3 DEF ChainOpens, Opened, ChainSockets, Sockets, ReadyStates
  <2> QED
    BY <1>1, <1>3, <2>1 DEF ChainOpens, GenesisTypes, genesis
<1>4. CASE ChainAnswers
  <2>1. latest_block.sent # <<>> /\ latest_block.sent \in Seq(Chains)
    BY <1>1, <1>4 DEF ChainAnswers, ChainSockets, Sockets
  <2>2. Tail(latest_block.sent) \in Seq(Chains)
    BY <2>1
  <2>3. Answered(latest_block) \in ChainSockets
    BY <1>1, <1>2, <2>1, <2>2 DEF Answered, ChainSockets, Sockets
  <2>4. /\ latest_block' = Answered(latest_block) /\ UNCHANGED <<curr_genesis, error>>
        /\ \/ \E chain \in Chains \cup {None} : UpdateGenesis(chain, curr_genesis)
           \/ UNCHANGED <<blocks, list>>
    BY <1>4 DEF ChainAnswers
  <2>5. CASE \E chain \in Chains \cup {None} : UpdateGenesis(chain, curr_genesis)
    <3>1. PICK chain \in Chains \cup {None} : UpdateGenesis(chain, curr_genesis)
      BY <2>5
    <3>2. blocks' = chain /\ list' = [list EXCEPT !.loaded = TRUE, !.current = curr_genesis]
      BY <3>1 DEF UpdateGenesis
    <3> QED
      BY <1>1, <2>3, <2>4, <3>2 DEF GenesisTypes
  <2>6. CASE UNCHANGED <<blocks, list>>
    BY <1>1, <2>3, <2>4, <2>6 DEF GenesisTypes
  <2> QED
    BY <2>4, <2>5, <2>6
<1>5. ASSUME NEW socket \in ChainSockets, CallsFail(socket)
      PROVE  GenesisTypes'
  <2>1. /\ latest_block' = AfterErrors(socket)[Len(latest_block.waiting)].socket
        /\ UpdateWithError \/ UNCHANGED <<error, list>>
        /\ UNCHANGED <<curr_genesis, blocks>>
    BY <1>5 DEF CallsFail
  <2>2. AfterErrors(socket)[Len(latest_block.waiting)] \in Ends
    <3> HIDE DEF GenesisTypes
    <3> DEFINE m == Len(latest_block.waiting)
               after == AfterErrors(socket)
    <3>1. m \in Nat /\ after \in [0..m -> Ends]
      BY <1>1, <1>5, AfterErrorsSteps
    <3> HIDE DEF m, after
    <3>2. m \in 0..m
      BY <3>1
    <3>3. after[m] \in Ends
      BY <3>1, <3>2
    <3> QED
      BY <3>3 DEF m, after
  <2>3. latest_block' \in ChainSockets
    BY <2>1, <2>2 DEF Ends
  <2> QED
    BY <1>1, <2>1, <2>3 DEF UpdateWithError, GenesisTypes
<1>6. CASE ChainCloses
  <2>1. latest_block.ready = "open" => Closing(latest_block) \in ChainSockets
    BY <1>1 DEF Closing, ChainSockets, Sockets, ReadyStates
  <2>2. latest_block' \in ChainSockets
    BY <1>2, <1>6, <2>1 DEF ChainCloses
  <2> QED
    BY <1>1, <1>6, <2>2 DEF ChainCloses, genesis, GenesisTypes
<1>7. CASE ChainFails
  BY <1>2, <1>5, <1>7 DEF ChainFails
<1>8. CASE ChainMalformed
  BY <1>1, <1>5, <1>8, AnsweredType DEF ChainMalformed
<1> QED
  BY <1>3, <1>4, <1>6, <1>7, <1>8 DEF ChainEvent

LEMMA NextKeepsTypes ==
    ASSUME GenesisTypes, [Next]_vars
    PROVE  GenesisTypes'
<1>1. \A c \in Chains : GetUpdates(latest_block, c, 1, {}) \in ChainSockets
  <2> SUFFICES ASSUME NEW c \in Chains
               PROVE  GetUpdates(latest_block, c, 1, {}) \in ChainSockets
    OBVIOUS
  <2>1. 1 \in DOMAIN ServerList[c]
    BY PageAssumption
  <2> QED
    BY <2>1, GetUpdatesType DEF GenesisTypes
<1>2. CASE IndexArrives
  BY <1>1, <1>2, PageAssumption DEF IndexArrives, GetLatestBlock, GenesisTypes
<1>3. CASE IndexFails
  BY <1>3 DEF IndexFails, UpdateWithError, GenesisTypes
<1>4. CASE Refresh
  BY <1>4 DEF Refresh, genesis, GenesisTypes
<1>5. CASE ChainEvent
  BY <1>5, ChainEventKeepsTypes
<1>6. ASSUME NEW c \in Chains, HandleGenesisChange(c)
      PROVE  GenesisTypes'
  BY <1>1, <1>6 DEF HandleGenesisChange, GetLatestBlock, GenesisTypes
<1>7. ASSUME NEW s \in Servers, StatusEvent(s)
      PROVE  GenesisTypes'
  BY <1>7 DEF StatusEvent, genesis, GenesisTypes
<1>8. ASSUME NEW s \in Servers, ServerChanges(s)
      PROVE  GenesisTypes'
  BY <1>8 DEF ServerChanges, genesis, GenesisTypes
<1>9. CASE UNCHANGED vars
  BY <1>9 DEF vars, GenesisTypes
<1> QED
  BY <1>2, <1>3, <1>4, <1>5, <1>6, <1>7, <1>8, <1>9 DEF Next

LEMMA InitTypes ==
    ASSUME Init
    PROVE  GenesisTypes
<1>1. <<>> \in Seq(Chains) /\ <<>> \in Seq(Calls)
  OBVIOUS
<1>2. NoSocket \in ChainSockets
  BY <1>1 DEF NoSocket, ChainSockets, Sockets, ReadyStates
<1>3. down \subseteq Servers
  BY DEF Init
<1> QED
  BY <1>2, <1>3 DEF Init, GenesisTypes

\* However the sockets of the page open, answer, fail and close, and whatever lists of
\* servers the chains have: every variable keeps its type.  A call that fails over names
\* a place of its chain's list, and a closed socket holds no request.
THEOREM PageTypes == Spec => []TypeOK
<1>1. Init => RosterInv /\ GenesisTypes
  BY InitHolds, InitTypes
<1>2. RosterInv /\ GenesisTypes /\ [Next]_vars => (RosterInv /\ GenesisTypes)'
  BY NextKeeps, NextKeepsTypes
<1>3. RosterInv /\ GenesisTypes => TypeOK
  BY DEF RosterInv, RosterTypes, StatusSockets, GenesisTypes, ChainSockets, TypeOK
<1> QED
  BY <1>1, <1>2, <1>3, PTL DEF Spec

-----------------------------------------------------------------------------
(***************************************************************************)
(* The blocks shown are those of the chain that was picked.  With a user   *)
(* who waits and sound connections one call is under way at a time, it is  *)
(* for the chosen chain, and so is the one request that was sent for it: an*)
(* answer can only be for that chain.                                      *)
(***************************************************************************)

\* At most one call is under way on the socket, it is for the chain, and its request
\* is the only one that is to be answered.
OneCall(socket, chain) ==
    /\ Len(socket.waiting) \in 0..1 /\ Len(socket.sent) = Len(socket.waiting)
    /\ socket.ready # "closing"
    /\ \A i \in 1..Len(socket.waiting) : socket.waiting[i].id = chain /\ socket.sent[i] = chain

CalmPage ==
    ~env.hurried /\ ~env.lossy =>
        /\ OneCall(latest_block, curr_genesis)
        /\ index # "loaded" => latest_block = NoSocket /\ ~list.loaded
        /\ error = list.error

PickInv == RosterInv /\ GenesisTypes /\ CalmPage /\ ChainMatches

\* A call on a socket without one is the only one on it.
LEMMA FirstCall ==
    ASSUME NEW socket \in ChainSockets, socket.waiting = <<>>, socket.sent = <<>>,
           socket.ready # "closing", NEW id \in Chains, NEW n \in DOMAIN ServerList[id],
           NEW asked \in SUBSET Servers
    PROVE  LET next == GetUpdates(socket, id, n, asked)
           IN  OneCall(next, id) /\ next.waiting # <<>>
<1> DEFINE used == UsedSocket(socket, ServerList[id][n])
           call == CallOn(used, id, n, asked)
<1>1. /\ ServerList[id][n] \in Servers
      /\ GetUpdates(socket, id, n, asked) = WithCall(used, id, n, asked)
  <2>1. used = UsedSocket(socket, ServerList[id][n])
    OBVIOUS
  <2> HIDE DEF used
  <2> QED
    BY <2>1, GetUpdatesMakes
<1>2. used \in ChainSockets
  BY <1>1, UsedSocketType
<1>3. used.waiting = <<>> /\ used.sent = <<>> /\ used.ready # "closing"
  BY DEF UsedSocket
<1>4. call.id = id
  BY DEF CallOn
<1> HIDE DEF used, call
<1> DEFINE next == WithCall(used, id, n, asked)
<1>5. next.waiting = <<call>> /\ next.sent = <<id>> /\ next.ready = used.ready
  BY <1>2, <1>3 DEF WithCall, ChainSockets, Sockets, call
<1> HIDE DEF next
<1>6. OneCall(next, id) /\ next.waiting # <<>>
  BY <1>3, <1>4, <1>5 DEF OneCall
<1> QED
  BY <1>1, <1>6 DEF next

\* An idle socket of a calm page: a call can only be the first.
LEMMA PickStarts ==
    ASSUME GenesisTypes, OneCall(latest_block, curr_genesis), latest_block.waiting = <<>>,
           NEW c \in Chains, GetLatestBlock(c)
    PROVE  OneCall(latest_block', c) /\ latest_block'.waiting # <<>>
<1>1. latest_block \in ChainSockets /\ latest_block.sent = <<>> /\ latest_block.ready # "closing"
  BY DEF GenesisTypes, OneCall, ChainSockets, Sockets
<1>2. 1 \in DOMAIN ServerList[c] /\ {} \in SUBSET Servers
  BY PageAssumption
<1> DEFINE next == GetUpdates(latest_block, c, 1, {})
<1>3. OneCall(next, c) /\ next.waiting # <<>>
  BY <1>1, <1>2, FirstCall
<1>4. latest_block' = next
  BY DEF GetLatestBlock
<1> QED
  BY <1>3, <1>4

\* The socket failed: the call goes to another server, or it is rejected.
LEMMA CalmFailure ==
    ASSUME GenesisTypes, OneCall(latest_block, curr_genesis),
           NEW STATE end, end = AfterErrors(Closed(latest_block))[Len(latest_block.waiting)]
    PROVE  /\ OneCall(end.socket, curr_genesis) /\ end.rejected \in BOOLEAN
           /\ latest_block.waiting = <<>> => ~end.rejected
           /\ latest_block.waiting # <<>> => end.rejected \/ end.socket.waiting # <<>>
<1> DEFINE start == [socket |-> Closed(latest_block), rejected |-> FALSE]
<1>1. latest_block \in ChainSockets
  BY DEF GenesisTypes
<1>2. start.socket = Closed(latest_block) /\ start.rejected = FALSE
  OBVIOUS
<1>3. /\ start.socket \in ChainSockets /\ start.socket.waiting = <<>> /\ start.socket.sent = <<>>
      /\ start.socket.ready = "closed"
  <2>1. /\ Closed(latest_block).waiting = <<>> /\ Closed(latest_block).sent = <<>>
        /\ Closed(latest_block).ready = "closed"
    BY <1>1 DEF Closed, ChainSockets, Sockets
  <2> QED
    BY <1>1, <1>2, <2>1, ClosedType
<1>4. OneCall(start.socket, curr_genesis)
  BY <1>3 DEF OneCall
<1>5. CASE latest_block.waiting = <<>>
  <2>1. end = start
    BY <1>1, <1>2, <1>3, <1>5, AfterErrorsSteps
  <2> HIDE DEF start
  <2> QED
    BY <1>2, <1>4, <1>5, <2>1
<1>6. CASE latest_block.waiting # <<>>
  <2> DEFINE call == latest_block.waiting[1]
  <2>1. Len(latest_block.waiting) = 1
    BY <1>1, <1>6 DEF OneCall, ChainSockets, Sockets
  <2>2. call \in Calls /\ call.id = curr_genesis
    BY <1>1, <2>1 DEF OneCall, ChainSockets, Sockets
  <2>3. end = TryNextServer(start, call)
    <3>1. \A n \in 1..1 :
             AfterErrors(Closed(latest_block))[n] = TryNextServer(AfterErrors(Closed(latest_block))[n - 1], latest_block.waiting[n])
      BY <1>1, <1>3, <2>1, AfterErrorsSteps
    <3>2. AfterErrors(Closed(latest_block))[0] = start
      BY <1>1, <1>3, AfterErrorsSteps
    <3>3. 1 \in 1..1 /\ 1 - 1 = 0
      OBVIOUS
    <3> HIDE DEF start
    <3>4. AfterErrors(Closed(latest_block))[1] = TryNextServer(start, latest_block.waiting[1])
      BY <3>1, <3>2, <3>3
    <3> QED
      BY <2>1, <3>4
  <2> HIDE DEF call
  <2>4. start \in Ends
    BY <1>3 DEF Ends
  <2> HIDE DEF start
  <2>5. CASE call.at < Len(ServerList[call.id])
    <3>1. call.id \in Chains /\ call.asked \in SUBSET Servers
          /\ call.at + 1 \in DOMAIN ServerList[call.id]
      BY <2>2, <2>5, PageAssumption DEF Calls
    <3> DEFINE next == GetUpdates(start.socket, call.id, call.at + 1, call.asked)
    <3>2. OneCall(next, call.id) /\ next.waiting # <<>>
      BY <1>3, <3>1, FirstCall
    <3>3. end = [start EXCEPT !.socket = next]
      BY <2>3, <2>5 DEF TryNextServer
    <3>4. end.socket = next /\ end.rejected = FALSE
      <4> HIDE DEF next
      <4> QED
        BY <1>2, <2>4, <3>3 DEF Ends
    <3> QED
      BY <1>6, <2>2, <3>2, <3>4
  <2>6. CASE ~(call.at < Len(ServerList[call.id]))
    <3>1. end = [start EXCEPT !.rejected = TRUE]
      BY <2>3, <2>6 DEF TryNextServer
    <3>2. end.socket = start.socket /\ end.rejected = TRUE
      BY <2>4, <3>1 DEF Ends
    <3> QED
      BY <1>4, <1>6, <3>2
  <2> QED
    BY <2>5, <2>6
<1> QED
  BY <1>5, <1>6

\* An event of the socket for blocks.
LEMMA ChainEventKeepsPick ==
    ASSUME PickInv, ChainEvent
    PROVE  CalmPage' /\ ChainMatches'
<1>1. UNCHANGED <<env, down, index>>
  BY DEF ChainEvent
<1> SUFFICES ASSUME ~env.hurried, ~env.lossy PROVE CalmPage' /\ ChainMatches'
  BY <1>1 DEF CalmPage, ChainMatches
<1>2. /\ latest_block \in ChainSockets /\ OneCall(latest_block, curr_genesis)
      /\ index # "loaded" => latest_block = NoSocket /\ ~list.loaded
      /\ error = list.error /\ GenesisTypes /\ ChainMatches
  BY DEF PickInv, CalmPage, GenesisTypes
<1>3. CASE ChainOpens
  <2>1. latest_block' = Opened(latest_block) /\ UNCHANGED genesis /\ UNCHANGED roster
        /\ latest_block.ready = "connecting"
    BY <1>3 DEF ChainOpens
  <2>2. /\ latest_block'.waiting = latest_block.waiting /\ latest_block'.sent = latest_block.sent
        /\ latest_block'.ready = "open"
    BY <1>2, <2>1 DEF Opened, ChainSockets, Sockets
  <2>3. OneCall(latest_block', curr_genesis)
    BY <1>2, <2>2 DEF OneCall
  <2>4. index = "loaded"
    BY <1>2, <2>1 DEF NoSocket
  <2> QED
    BY <1>1, <1>2, <2>1, <2>2, <2>3, <2>4 DEF CalmPage, ChainMatches, genesis, roster
<1>4. CASE ChainAnswers
  <2>1. latest_block' = Answered(latest_block) /\ latest_block.sent # <<>>
        /\ latest_block.ready = "open" /\ UNCHANGED <<curr_genesis, error>>
    BY <1>4 DEF ChainAnswers
  <2>2. Len(latest_block.waiting) = 1 /\ latest_block.waiting # <<>>
        /\ Len(latest_block.sent) = 1 /\ Head(latest_block.sent) = curr_genesis
    BY <1>2, <2>1 DEF OneCall, ChainSockets, Sockets
  <2>3. curr_genesis \in Chains /\ UpdateGenesis(curr_genesis, curr_genesis)
    BY <1>4, <2>2 DEF ChainAnswers
  <2>4. curr_genesis # None
    BY <2>3, PageAssumption
  <2>5. /\ blocks' = curr_genesis /\ servers' = Roster[curr_genesis]
        /\ list' = [list EXCEPT !.loaded = TRUE, !.current = curr_genesis]
    BY <2>3, <2>4 DEF UpdateGenesis, OnGenesisUpdate
  <2>6. list'.current = curr_genesis /\ list'.error = list.error
    BY <1>2, <2>5 DEF GenesisTypes
  <2>7. latest_block'.waiting = <<>> /\ latest_block'.sent = <<>> /\ latest_block'.ready = "open"
    <3>1. Tail(latest_block.sent) = <<>>
      <4>1. latest_block.sent \in Seq(Chains) /\ latest_block.sent # <<>>
        BY <1>2, <2>1 DEF ChainSockets, Sockets
      <4>2. Tail(latest_block.sent) \in Seq(Chains) /\ Len(Tail(latest_block.sent)) = 0
        BY <2>2, <4>1, HeadTailProperties
      <4>3. <<>> \in Seq(Chains) /\ Len(<<>>) = 0
        OBVIOUS
      <4> DEFINE rest == Tail(latest_block.sent)
                 none == <<>>
      <4>4. \A i \in 1..Len(rest) : rest[i] = none[i]
        BY <4>2
      <4> HIDE DEF rest, none
      <4>5. rest = none
        BY <4>2, <4>3, <4>4, SeqEqual DEF rest, none
      <4> QED
        BY <4>5 DEF rest, none
    <3> QED
      BY <1>2, <2>1, <3>1 DEF Answered, ChainSockets, Sockets
  <2>8. OneCall(latest_block', curr_genesis)
    BY <2>7 DEF OneCall
  <2>9. index = "loaded"
    BY <1>2, <2>1 DEF NoSocket
  <2> QED
    BY <1>1, <1>2, <2>1, <2>5, <2>6, <2>8, <2>9 DEF CalmPage, ChainMatches
<1>5. CASE ChainFails
  <2> DEFINE end == AfterErrors(Closed(latest_block))[Len(latest_block.waiting)]
  <2>1. /\ latest_block.ready # "closed" /\ latest_block' = end.socket
        /\ IF end.rejected THEN UpdateWithError ELSE UNCHANGED <<error, list>>
        /\ UNCHANGED <<curr_genesis, blocks>> /\ UNCHANGED roster
    BY <1>5 DEF ChainFails, CallsFail
  <2>2. /\ OneCall(end.socket, curr_genesis) /\ end.rejected \in BOOLEAN
        /\ latest_block.waiting = <<>> => ~end.rejected
        /\ latest_block.waiting # <<>> => end.rejected \/ end.socket.waiting # <<>>
    BY <1>2, CalmFailure
  <2> HIDE DEF end
  <2>3. index = "loaded"
    BY <1>2, <2>1 DEF NoSocket
  <2>4. CASE end.rejected
    <3>1. error' = TRUE /\ list'.error = TRUE
      BY <1>2, <2>1, <2>4 DEF UpdateWithError, GenesisTypes
    <3> QED
      BY <1>1, <2>1, <2>2, <2>3, <3>1 DEF CalmPage, ChainMatches
  <2>5. CASE ~end.rejected
    <3>1. UNCHANGED <<error, list>>
      BY <2>1, <2>5
    <3>2. CalmPage'
      BY <1>1, <1>2, <2>1, <2>2, <2>3, <3>1 DEF CalmPage
    <3>3. ChainMatches'
      BY <1>1, <1>2, <2>1, <2>2, <2>5, <3>1 DEF ChainMatches, roster
    <3> QED
      BY <3>2, <3>3
  <2> QED
    BY <2>2, <2>4, <2>5
<1>6. CASE ChainCloses
  BY <1>6 DEF ChainCloses
<1>7. CASE ChainMalformed
  BY <1>7 DEF ChainMalformed
<1> QED
  BY <1>3, <1>4, <1>5, <1>6, <1>7 DEF ChainEvent

LEMMA NextKeepsPick ==
    ASSUME PickInv, [Next]_vars
    PROVE  CalmPage' /\ ChainMatches'
<1>1. CASE ChainEvent
  BY <1>1, ChainEventKeepsPick
<1>2. CASE UNCHANGED <<env, index, genesis, latest_block, servers>>
  BY <1>2 DEF PickInv, CalmPage, ChainMatches, genesis
<1>3. CASE Refresh
  BY <1>2, <1>3 DEF Refresh
<1>4. ASSUME NEW s \in Servers, StatusEvent(s)
      PROVE  CalmPage' /\ ChainMatches'
  BY <1>2, <1>4 DEF StatusEvent
<1>5. ASSUME NEW s \in Servers, ServerChanges(s)
      PROVE  CalmPage' /\ ChainMatches'
  BY <1>2, <1>5 DEF ServerChanges, roster
<1>6. CASE UNCHANGED vars
  BY <1>2, <1>6 DEF vars, genesis
<1>7. CASE IndexArrives
  <2> SUFFICES ASSUME ~env.hurried, ~env.lossy PROVE CalmPage' /\ ChainMatches'
    BY <1>7 DEF IndexArrives, CalmPage, ChainMatches
  <2>1. /\ OneCall(latest_block, curr_genesis) /\ latest_block = NoSocket /\ error = list.error
        /\ GenesisTypes
    BY <1>7 DEF IndexArrives, PickInv, CalmPage
  <2>2. latest_block.waiting = <<>>
    BY <2>1 DEF NoSocket
  <2>3. GetLatestBlock(FirstChain) /\ FirstChain \in Chains
    BY <1>7, PageAssumption DEF IndexArrives
  <2>4. OneCall(latest_block', FirstChain) /\ latest_block'.waiting # <<>>
    BY <2>1, <2>2, <2>3, PickStarts
  <2> QED
    BY <1>7, <2>1, <2>4 DEF IndexArrives, CalmPage, ChainMatches
<1>8. CASE IndexFails
  <2>1. error' = TRUE /\ list'.error = TRUE /\ list'.loaded = list.loaded
    BY <1>8 DEF IndexFails, UpdateWithError, PickInv, GenesisTypes
  <2> QED
    BY <1>8, <2>1 DEF IndexFails, PickInv, CalmPage, ChainMatches
<1>9. ASSUME NEW c \in Chains, HandleGenesisChange(c)
      PROVE  CalmPage' /\ ChainMatches'
  <2> SUFFICES ASSUME ~env.hurried, ~env.lossy PROVE CalmPage' /\ ChainMatches'
    BY <1>9 DEF HandleGenesisChange, CalmPage, ChainMatches
  <2>1. /\ OneCall(latest_block, curr_genesis) /\ error = list.error /\ GenesisTypes
        /\ index # "loaded" => ~list.loaded
    BY DEF PickInv, CalmPage
  <2>2. latest_block.waiting = <<>> /\ GetLatestBlock(c) /\ list.loaded
    BY <1>9 DEF HandleGenesisChange
  <2>3. OneCall(latest_block', c) /\ latest_block'.waiting # <<>>
    BY <2>1, <2>2, PickStarts
  <2> QED
    BY <1>9, <2>1, <2>2, <2>3 DEF HandleGenesisChange, CalmPage, ChainMatches
<1> QED
  BY <1>1, <1>3, <1>4, <1>5, <1>6, <1>7, <1>8, <1>9 DEF Next

\* With a user who waits and connections that do not fail silently: when no call is under
\* way and none has failed, the blocks kept, the roster that is polled and the chain that
\* is shown as chosen are those of the last pick, whatever servers failed on the way.
THEOREM PickIsShown == Spec => []ChainMatches
<1>1. Init => PickInv
  <2> SUFFICES ASSUME Init PROVE PickInv
    OBVIOUS
  <2>1. /\ latest_block = NoSocket /\ index = "loading" /\ ~list.loaded /\ error = FALSE
        /\ list.error = FALSE
    BY DEF Init
  <2>2. OneCall(latest_block, curr_genesis)
    BY <2>1 DEF OneCall, NoSocket
  <2>3. CalmPage /\ ChainMatches
    BY <2>1, <2>2 DEF CalmPage, ChainMatches
  <2> QED
    BY <2>3, InitHolds, InitTypes DEF PickInv
<1>2. PickInv /\ [Next]_vars => PickInv'
  BY NextKeeps, NextKeepsTypes, NextKeepsPick DEF PickInv
<1>3. PickInv => ChainMatches
  BY DEF PickInv
<1> QED
  BY <1>1, <1>2, <1>3, PTL DEF Spec
=============================================================================
