---------------------------- MODULE ModuleRandom ----------------------------
(***************************************************************************)
(* ModuleRandom of src/status: it asks a server for a random number, shows *)
(* a bar that fills until the next one is due, and asks again.  The socket *)
(* is CothorityWebsocket.random.  A module that is unmounted goes on: its  *)
(* timer and its request are not cancelled, and the next module that is    *)
(* mounted starts a loop of its own.                                       *)
(***************************************************************************)
EXTENDS Websocket, SequencesExt

CONSTANTS
    RandomServer,
    Interval,      \* randomRefreshInterval, in steps of the bar
    RandomEnvs,    \* see randomEnv
    MaxMounts      \* bound: how often the module is mounted

ASSUME RandomAssumption ==
    /\ RandomServer # NoServer /\ Interval \in Nat \ {0} /\ MaxMounts \in Nat \ {0}
    /\ RandomEnvs \subseteq {"sound", "failing", "lossy"}

VARIABLES
    randomEnv,     \* connections fail, or close without an error, or do neither
    module,        \* per module ever mounted: its state, see Modules
    current,       \* the module that is mounted, 0 if none is
    random_socket  \* CothorityWebsocket.random

randomVars == <<randomEnv, module, current, random_socket>>

Mounts == 1..MaxMounts

\* counter: the bar; timer: a step of the bar is due; error, random: the state.
Modules == [counter : 0..Interval, timer : BOOLEAN, error : BOOLEAN, random : BOOLEAN]

Unborn == [counter |-> 0, timer |-> FALSE, error |-> FALSE, random |-> FALSE]

RandomInit ==
    /\ randomEnv \in RandomEnvs
    /\ module = <<>> /\ current = 0 /\ random_socket = NoSocket

\* getRandom on behalf of module m.  Requests are alike: of those whose answers
\* are to come, which become more with each module, no more are told apart than
\* there are modules.
GetRandom(socket, m) ==
    LET used == CreateSocket(socket, RandomServer, "random", m)
    IN  [used EXCEPT !.sent = SubSeq(@, 1, IF Len(@) < MaxMounts THEN Len(@) ELSE MaxMounts)]

\* componentWillMount.
MountRandom ==
    /\ current = 0 /\ Len(module) < MaxMounts
    /\ module' = Append(module, Unborn)
    /\ current' = Len(module) + 1
    /\ random_socket' = GetRandom(random_socket, Len(module) + 1)
    /\ UNCHANGED randomEnv

UnmountRandom ==
    /\ current # 0 /\ current' = 0
    /\ UNCHANGED <<randomEnv, module, random_socket>>

\* Mutant: a full bar asks for nothing.
CheckCountDownStops(m) ==
    LET counter == module[m].counter + 1
    IN  /\ module[m].timer
        /\ module' = [module EXCEPT ![m].counter = counter, ![m].timer = (counter < Interval)]
        /\ UNCHANGED <<randomEnv, current, random_socket>>

\* Mutant: the timer of the bar is armed also when the bar is full.
CheckCountDownTwice(m) ==
    LET counter == module[m].counter + 1
    IN  /\ module[m].timer
        /\ module' = [module EXCEPT ![m].counter = IF counter < Interval THEN counter ELSE 0]
        /\ random_socket' = IF counter < Interval THEN random_socket
                            ELSE GetRandom(random_socket, m)
        /\ UNCHANGED <<randomEnv, current>>

\* _checkCountDown: the bar grows; when it is full the next number is asked for.
CheckCountDown(m) ==
    LET counter == module[m].counter + 1
    IN  /\ module[m].timer
        /\ module' = [module EXCEPT ![m].counter = counter, ![m].timer = (counter < Interval)]
        /\ random_socket' = IF counter < Interval THEN random_socket
                            ELSE GetRandom(random_socket, m)
        /\ UNCHANGED <<randomEnv, current>>

RandomOpens ==
    /\ random_socket.ready = "connecting"
    /\ random_socket' = Opened(random_socket)
    /\ UNCHANGED module

\* The answer goes to every module that waits; each starts its bar anew.
RandomAnswers ==
    /\ random_socket.ready = "open" /\ random_socket.sent # <<>>
    /\ random_socket' = Answered(random_socket)
    /\ module' = [m \in DOMAIN module |->
                    IF m \in ToSet(random_socket.waiting)
                    THEN [module[m] EXCEPT !.counter = 0, !.timer = TRUE, !.random = TRUE]
                    ELSE module[m]]

\* The error stays, and no further number is asked for.
RandomFails ==
    /\ randomEnv # "sound" /\ random_socket.ready # "closed"
    /\ random_socket' = Closed(random_socket)
    /\ module' = [m \in DOMAIN module |->
                    IF m \in ToSet(random_socket.waiting)
                    THEN [module[m] EXCEPT !.error = TRUE] ELSE module[m]]

RandomCloses ==
    /\ randomEnv = "lossy"
    /\ \/ random_socket.ready = "open" /\ random_socket' = Closing(random_socket)
       \/ random_socket.ready = "closing" /\ random_socket' = Closed(random_socket)
    /\ UNCHANGED module

RandomEvent ==
    /\ RandomOpens \/ RandomAnswers \/ RandomFails \/ RandomCloses
    /\ UNCHANGED <<randomEnv, current>>

RandomNext ==
    \/ MountRandom \/ UnmountRandom \/ RandomEvent
    \/ \E m \in DOMAIN module : CheckCountDown(m)

RandomSpec == RandomInit /\ [][RandomNext]_randomVars

\* Timers fire, and requests end one way or the other.
RandomFairness ==
    /\ WF_randomVars(RandomEvent)
    /\ \A m \in Mounts : WF_randomVars(m \in DOMAIN module /\ CheckCountDown(m))

-----------------------------------------------------------------------------
\* Every variable has its type.
RandomTypeOK ==
    /\ randomEnv \in RandomEnvs
    /\ module \in Seq(Modules) /\ current \in 0..Len(module)
    /\ random_socket \in Sockets({RandomServer}, {"random"}, 1..Len(module))

\* A module has one loop: it waits for a number or for a timer and never for both,
\* nor twice for a number, and for neither after an error; however many modules
\* share the socket.
OneLoopEach ==
    \A m \in DOMAIN module :
        LET requests == Cardinality({i \in DOMAIN random_socket.waiting :
                                        random_socket.waiting[i] = m})
        IN  /\ requests + (IF module[m].timer THEN 1 ELSE 0) <= 1
            /\ module[m].error => requests = 0 /\ ~module[m].timer

\* While connections are sound, a module that is mounted asks for numbers again
\* and again: what module-random.js:13 says.
AsksAgain ==
    \A m \in Mounts :
        []<>(m \in DOMAIN module => m \in ToSet(random_socket.waiting) \/ randomEnv # "sound")
=============================================================================
