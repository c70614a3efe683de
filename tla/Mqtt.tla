-------------------------------- MODULE Mqtt --------------------------------
(***************************************************************************)
(* The MQTT connector (MQTTConnector.cpp) on the client library it is      *)
(* linked with (MQTTAsync.c, and the protocol and socket layers below it), *)
(* against a broker and a network that may refuse, break or go silent.     *)
(*                                                                         *)
(* Five threads meet: the publisher and the one that stops the agent call  *)
(* the connector; the library's send thread takes commands from a queue,   *)
(* and its receive thread reads the socket and calls the connector back.   *)
(* mqttasync_mutex is held for a step at a time, but for the callback of a *)
(* connection that was made; a sender leaves it between the look at the    *)
(* connection, the message's id and the queue.                             *)
(*                                                                         *)
(* The connector asks for a clean session, no retries and the default      *)
(* version, which is 3.1.1 (4) and, when that fails, 3.1 (3); 0 is a       *)
(* version not chosen yet.  Time passes in ticks of eleven seconds: a      *)
(* heartbeat comes every second one, a connection may take less than three.*)
(***************************************************************************)
EXTENDS Naturals, Sequences, FiniteSets

CONSTANTS
    Posix,        \* the publisher is cancelled before the connector stops
    Mute,         \* the broker may leave a CONNECT unanswered
    MaxId,        \* MAX_MSG_ID
    Fds,          \* the descriptors a socket may get
    MaxMessages,  \* bound: messages the publisher offers
    MaxRequests,  \* bound: requests for the agent's identity
    MaxFaults     \* bound: faults of the broker and the network

ASSUME MqttAssumption ==
    /\ Posix \in BOOLEAN /\ Mute \in BOOLEAN
    /\ MaxId \in Nat \ {0, 1}
    /\ Fds \subseteq Nat \ {0}
    /\ MaxMessages \in Nat /\ MaxRequests \in Nat /\ MaxFaults \in Nat

VARIABLES
    agent,      \* how far starting and stopping have come
    at,         \* where each sender is in sendMessage() or stop()
    token,      \* the message id it has been given
    sent,       \* messages the publisher has put into the queue
    beat,       \* ticks since the last heartbeat
    queue,      \* commands
    responses,  \* commands that wait for their answer
    outbound,   \* messages in flight
    msgID,      \* the id given last
    state,      \* connect_state: "none" (0), "tcp" (1) or "connack" (3)
    connected,
    version,    \* m->connect: the version of the attempt
    age,        \* and ticks since its start_time
    ping,       \* ping_outstanding
    got,        \* what the receive thread has read and not yet handled
    callback,   \* commands that onConnect has still to add
    sock,       \* the client's socket; 0 is none
    open,       \* sockets that are open
    partial,    \* the message that is written in part; 0 is none
    writes,     \* sockets that were closed with a write pending
    link,       \* the network's view of the client's socket
    inbox,      \* packets from the broker
    seen,       \* the first three packets of the session
    arrived,    \* messages the broker has got
    will,       \* what became of the last session's will
    requests,   \* requests so far
    garbled,    \* the broker got bytes of a packet of another connection
    faults      \* faults so far

agentVars == <<agent, at, token, sent, beat>>
idVars == <<responses, outbound, msgID>>
attemptVars == <<state, connected, version, age, ping>>
threadVars == <<got, callback>>
socketVars == <<sock, open, partial, writes>>
brokerVars == <<seen, arrived, will, requests, garbled>>
vars == <<agentVars, queue, idVars, attemptVars, threadVars, socketVars, link,
          inbox, brokerVars, faults>>

Senders == {"publisher", "stopper"}
Ids == 1..MaxId
Subscribes == {"agent", "identify"}        \* named after their topics
Publishes == {"identity", "will", "data"}
Messages == Subscribes \cup Publishes
Types == {"connect", "disconnect", "bye"} \cup Messages

(* A command; arg is a connect's version and a data message's number.      *)
Commands == [type : Types, token : 0..MaxId, arg : Nat]
Command(type, id, arg) == [type |-> type, token |-> id, arg |-> arg]

(* What the broker sends, and what the receive thread takes with it when   *)
(* it leaves the mutex: a packet, or the result of reading.                *)
Packets == [kind : {"connack", "refused", "suback", "puback", "pingresp",
                    "request"}, token : 0..MaxId]
Results == [kind : {"none", "error", "lost", "connack", "refused", "suback"},
            fd : Fds \cup {0}, token : 0..MaxId]
Nothing == [kind |-> "none", fd |-> 0, token |-> 0]

Init ==
    /\ agent = "off"
    /\ at = [s \in Senders |-> "idle"]
    /\ token = [s \in Senders |-> 0]
    /\ sent = 0
    /\ beat = 0
    /\ queue = <<>>
    /\ responses = {} /\ outbound = {} /\ msgID = 0
    /\ state = "none" /\ connected = FALSE /\ version = 0 /\ age = 0
    /\ ping = FALSE
    /\ got = Nothing /\ callback = 0
    /\ sock = 0 /\ open = {} /\ partial = 0 /\ writes = {}
    /\ link = "none" /\ inbox = <<>>
    /\ seen = <<>> /\ arrived = <<>> /\ will = "none" /\ requests = 0
    /\ garbled = FALSE
    /\ faults = 0

-----------------------------------------------------------------------------
(* Helpers                                                                 *)

(* Mutant: the mutex is left before the callback. *)
MutexFree_Always == TRUE

(* mqttasync_mutex: the receive thread keeps it through the callback. *)
MutexFree == callback = 0

(* MQTTAsync_assignMsgId: the next id that no command of the client has;   *)
(* the last one given ends the search.                                     *)
Taken == {queue[i].token : i \in 1..Len(queue)} \cup {c.token : c \in responses}

(* Mutant: the commands that wait for an answer are not looked at. *)
FreeIds_QueueOnly == Ids \ ({queue[i].token : i \in 1..Len(queue)} \cup {msgID})

FreeIds == Ids \ (Taken \cup {msgID})

(* Mutant: the id does not wrap. *)
NextId_NoWrap == IF FreeIds = {} THEN 0 ELSE msgID + 1

NextId ==
    IF FreeIds = {} THEN 0
    ELSE CHOOSE i \in FreeIds :
            \A j \in FreeIds :
                (i + MaxId - msgID - 1) % MaxId <= (j + MaxId - msgID - 1) % MaxId

(* MQTTAsync_addCommand: to the head, unless the same is there already.    *)
Kind(type) == IF type = "bye" THEN "disconnect" ELSE type
AddHead(c, q) ==
    IF q # <<>> /\ Kind(q[1].type) = Kind(c.type) THEN q ELSE <<c>> \o q

DisconnectInternal == Command("disconnect", 0, 0)

(* What becomes of the will when the socket is closed: a DISCONNECT takes  *)
(* it back, if it reaches the broker whole.                                *)
WillAfter(by) ==
    IF will # "kept" THEN will
    ELSE IF connected /\ link = "up" /\ partial = 0 THEN by
    ELSE "sent"

(* SocketBuffer_cleanup: what was still to be written stays. *)
WritesAfter == IF partial # 0 THEN writes \cup {sock} ELSE writes

(* Socket_close *)
CloseSocket ==
    /\ open' = open \ {sock}
    /\ writes' = WritesAfter
    /\ sock' = 0 /\ partial' = 0 /\ link' = "none" /\ inbox' = <<>>

(* MQTTAsync_closeOnly *)
CloseOnly(by) ==
    /\ will' = WillAfter(by)
    /\ CloseSocket
    /\ state' = "none" /\ connected' = FALSE /\ ping' = FALSE
    /\ seen' = <<>>
    /\ UNCHANGED <<version, arrived, requests, garbled>>

(* MQTTAsync_cleanSession *)
CleanSession ==
    /\ queue' = <<>>
    /\ responses' = {} /\ outbound' = {} /\ msgID' = 0

(* An attempt failed: the other version is tried, or that was all.         *)
ConnectFails ==
    /\ CloseOnly("dropped")
    /\ age' = 0
    /\ IF version = 4
       THEN queue' = AddHead(Command("connect", 0, 4), queue) /\ UNCHANGED idVars
       ELSE CleanSession

Fault == faults < MaxFaults /\ faults' = faults + 1

-----------------------------------------------------------------------------
(* The connector: the publisher's sendMessage, start and stop              *)

Start ==
    /\ agent = "off"
    /\ agent' = "running"
    /\ queue' = AddHead(Command("connect", 0, 0), queue)
    /\ UNCHANGED <<at, token, sent, beat, idVars, attemptVars,
                   threadVars, socketVars, link, inbox, brokerVars, faults>>

(* ConnectorManager lets messages through until stop() has returned.       *)
MaySend == agent = "running" \/ (agent = "stopping" /\ ~Posix)

(* A message is offered: is there a connection?                            *)
Offer ==
    /\ MaySend
    /\ MutexFree
    /\ at["publisher"] = "idle"
    /\ connected
    /\ sent < MaxMessages
    /\ at' = [at EXCEPT !["publisher"] = "checked"]
    /\ UNCHANGED <<agent, token, sent, beat, queue, idVars, attemptVars,
                   threadVars, socketVars, link, inbox, brokerVars, faults>>

(* A heartbeat finds no connection *)
Heartbeat ==
    /\ MaySend
    /\ MutexFree
    /\ at["publisher"] = "idle"
    /\ beat = 2
    /\ ~connected
    /\ beat' = 0
    /\ at' = [at EXCEPT !["publisher"] = "connecting"]
    /\ UNCHANGED <<agent, token, sent, queue, idVars, attemptVars,
                   threadVars, socketVars, link, inbox, brokerVars, faults>>

(* and asks for one.                                                       *)
Connect ==
    /\ at["publisher"] = "connecting"
    /\ at' = [at EXCEPT !["publisher"] = "idle"]
    /\ queue' = AddHead(Command("connect", 0, 0), queue)
    /\ UNCHANGED <<agent, token, sent, beat, idVars, attemptVars,
                   threadVars, socketVars, link, inbox, brokerVars, faults>>

After(s) == IF s = "stopper" THEN "disconnecting" ELSE "idle"

(* MQTTAsync_send: the connection is gone already, *)
GiveUp(s) ==
    /\ at[s] = "checked"
    /\ ~connected
    /\ at' = [at EXCEPT ![s] = After(s)]
    /\ UNCHANGED <<agent, token, sent, beat, queue, idVars, attemptVars,
                   threadVars, socketVars, link, inbox, brokerVars, faults>>

(* or the message gets an id, if there is one, *)
AssignId(s) ==
    /\ at[s] = "checked"
    /\ MutexFree
    /\ IF NextId = 0
       THEN at' = [at EXCEPT ![s] = After(s)] /\ UNCHANGED <<token, msgID>>
       ELSE /\ at' = [at EXCEPT ![s] = "numbered"]
            /\ token' = [token EXCEPT ![s] = NextId]
            /\ msgID' = NextId
    /\ UNCHANGED <<agent, sent, beat, queue, responses, outbound,
                   attemptVars, threadVars, socketVars, link, inbox,
                   brokerVars, faults>>

(* Mutant: a message goes to the head of the queue. *)
AddMessage_Head(s) ==
    /\ at[s] = "numbered"
    /\ at' = [at EXCEPT ![s] = After(s)]
    /\ sent' = IF s = "publisher" THEN sent + 1 ELSE sent
    /\ queue' = <<IF s = "publisher" THEN Command("data", token[s], sent')
                  ELSE Command("will", token[s], 0)>> \o queue
    /\ UNCHANGED <<agent, token, beat, idVars, attemptVars, threadVars,
                   socketVars, link, inbox, brokerVars, faults>>

(* and goes into the queue.                                                *)
AddMessage(s) ==
    /\ at[s] = "numbered"
    /\ at' = [at EXCEPT ![s] = After(s)]
    /\ sent' = IF s = "publisher" THEN sent + 1 ELSE sent
    /\ queue' = Append(queue, IF s = "publisher"
                              THEN Command("data", token[s], sent')
                              ELSE Command("will", token[s], 0))
    /\ UNCHANGED <<agent, token, beat, idVars, attemptVars, threadVars,
                   socketVars, link, inbox, brokerVars, faults>>

(* Agent::stop, up to where it calls the connector.                        *)
BeginStop ==
    /\ agent = "running"
    /\ agent' = "stopping"
    /\ at' = IF Posix THEN [at EXCEPT !["publisher"] = "idle"] ELSE at
    /\ UNCHANGED <<token, sent, beat, queue, idVars, attemptVars,
                   threadVars, socketVars, link, inbox, brokerVars, faults>>

(* stop(): the will message first, if there is a connection; if not, an    *)
(* attempt that goes on is left to itself.                                 *)
StopConnector ==
    /\ agent = "stopping"
    /\ MutexFree
    /\ at["stopper"] = "idle"
    /\ IF connected
       THEN at' = [at EXCEPT !["stopper"] = "checked"] /\ UNCHANGED agent
       ELSE agent' = "left" /\ UNCHANGED at
    /\ UNCHANGED <<token, sent, beat, queue, idVars, attemptVars,
                   threadVars, socketVars, link, inbox, brokerVars, faults>>

(* and then the end: is there a connection still?  No mutex is held, *)
LookAgain ==
    /\ at["stopper"] = "disconnecting"
    /\ at' = [at EXCEPT !["stopper"] = IF connected THEN "ending" ELSE "idle"]
    /\ agent' = IF connected THEN agent ELSE "left"
    /\ UNCHANGED <<token, sent, beat, queue, idVars, attemptVars, threadVars,
                   socketVars, link, inbox, brokerVars, faults>>

(* Mutant: the disconnect goes to the head of the queue. *)
AddBye_Head ==
    /\ at["stopper"] = "ending"
    /\ at' = [at EXCEPT !["stopper"] = "idle"]
    /\ agent' = "stopped"
    /\ queue' = AddHead(Command("bye", 0, 0), queue)
    /\ UNCHANGED <<token, sent, beat, idVars, attemptVars, threadVars,
                   socketVars, link, inbox, brokerVars, faults>>

(* until the command is added, in the order of the queue.                  *)
AddBye ==
    /\ at["stopper"] = "ending"
    /\ at' = [at EXCEPT !["stopper"] = "idle"]
    /\ agent' = "stopped"
    /\ queue' = Append(queue, Command("bye", 0, 0))
    /\ UNCHANGED <<token, sent, beat, idVars, attemptVars, threadVars,
                   socketVars, link, inbox, brokerVars, faults>>

Disconnect == LookAgain \/ AddBye

-----------------------------------------------------------------------------
(* The send thread: MQTTAsync_processCommand and MQTTAsync_checkTimeouts   *)

First == queue[1]
Next3(seq, x) == IF Len(seq) < 3 THEN Append(seq, x) ELSE seq

(* Only the first command counts; all but the two that change the          *)
(* connection wait for it, for a write to end and for a free id.           *)
Ready ==
    /\ MutexFree
    /\ queue # <<>>
    /\ (First.type \in Messages =>
            /\ connected /\ state = "none" /\ partial = 0
            /\ Cardinality(outbound) < MaxId - 1)

(* A CONNECT that is not needed is dropped, but m->connect is written.     *)
IgnoreConnect ==
    /\ Ready /\ First.type = "connect"
    /\ state # "none" \/ connected
    /\ queue' = Tail(queue)
    /\ version' = First.arg
    /\ age' = 0
    /\ UNCHANGED <<agentVars, idVars, state, connected, ping, threadVars,
                   socketVars, link, inbox, brokerVars, faults>>

(* The version of an attempt: the first, or the other one.                 *)
VersionAfter(v) == IF v = 0 THEN 4 ELSE 3

(* Socket_new: the TCP connection is on its way, but the packet that asks  *)
(* for it may be lost.                                                     *)
OpenSocket ==
    /\ Ready /\ First.type = "connect"
    /\ state = "none" /\ ~connected
    /\ \E fd \in Fds \ open :
          /\ sock' = fd
          /\ open' = open \cup {fd}
    /\ \/ link' = "opening" /\ UNCHANGED faults
       \/ link' = "silent" /\ Fault
    /\ state' = "tcp"
    /\ version' = VersionAfter(First.arg)
    /\ age' = 0
    /\ queue' = Tail(queue)
    /\ UNCHANGED <<agentVars, idVars, connected, ping, threadVars, partial,
                   writes, inbox, brokerVars>>

(* Or it fails at once: the name is not known, or there is no route, which *)
(* leaves a socket behind.                                                 *)
OpenSocketFails ==
    /\ Ready /\ First.type = "connect"
    /\ state = "none" /\ ~connected
    /\ Fault
    /\ \E fd \in (Fds \ open) \cup {0} :
          /\ sock' = fd
          /\ open' = open \cup ({fd} \ {0})
          /\ link' = IF fd = 0 THEN "none" ELSE "broken"
    /\ queue' = IF VersionAfter(First.arg) = 4
                THEN AddHead(Command("connect", 0, 4), Tail(queue))
                ELSE Tail(queue)
    /\ UNCHANGED <<agentVars, idVars, attemptVars, threadVars, partial,
                   writes, inbox, brokerVars>>

(* Mutant: the messages in flight are waited for, without an end. *)
ProcessDisconnect_Waits ==
    /\ Ready /\ Kind(First.type) = "disconnect"
    /\ outbound = {}
    /\ IF state # "none" \/ connected
       THEN /\ CloseOnly(IF First.type = "bye" THEN "forgotten" ELSE "dropped")
            /\ CleanSession
            /\ age' = 0
       ELSE /\ queue' = Tail(queue)
            /\ UNCHANGED <<idVars, attemptVars, socketVars, link, inbox,
                           brokerVars>>
    /\ UNCHANGED <<agentVars, threadVars, faults>>

(* A session ends at once: no time is given to what is in flight.          *)
ProcessDisconnect ==
    /\ Ready /\ Kind(First.type) = "disconnect"
    /\ IF state # "none" \/ connected
       THEN /\ CloseOnly(IF First.type = "bye" THEN "forgotten" ELSE "dropped")
            /\ CleanSession
            /\ age' = 0
       ELSE /\ queue' = Tail(queue)
            /\ UNCHANGED <<idVars, attemptVars, socketVars, link, inbox,
                           brokerVars>>
    /\ UNCHANGED <<agentVars, threadVars, faults>>

Answer(c) == [kind |-> IF c.type \in Subscribes THEN "suback" ELSE "puback",
              token |-> c.token]

(* The broker gets a whole packet.                                         *)
Reaches(c) ==
    /\ inbox' = Append(inbox, Answer(c))
    /\ seen' = Next3(seen, c.type)
    /\ arrived' = IF c.type = "data" THEN Append(arrived, c.arg) ELSE arrived
    /\ will' = IF c.type = "will" THEN "sent" ELSE will

(* MQTTProtocol_startPublish: a message is in flight before it is written. *)
OutboundAfter(c) == IF c.type \in Publishes THEN outbound \cup {c} ELSE outbound

(* Socket_putdatas: a packet is written, a message perhaps in part, or goes *)
(* into a connection that is broken already.                                *)
Putdatas(c) ==
    \/ /\ c.type = "data"
       /\ partial' = c.arg
       /\ UNCHANGED <<inbox, brokerVars>>
    \/ link = "up" /\ Reaches(c) /\ UNCHANGED <<partial, requests, garbled>>
    \/ link # "up" /\ UNCHANGED <<partial, inbox, brokerVars>>

(* A SUBSCRIBE or PUBLISH waits for its answer from now on. *)
Write ==
    /\ Ready /\ First.type \in Messages
    /\ queue' = Tail(queue)
    /\ responses' = responses \cup {First}
    /\ outbound' = OutboundAfter(First)
    /\ Putdatas(First)
    /\ UNCHANGED <<agentVars, msgID, attemptVars, threadVars, sock, open,
                   writes, link, faults>>

(* Or the socket turns out to be broken, and the library disconnects.      *)
WriteFails ==
    /\ Ready /\ First.type \in Messages
    /\ link = "broken"
    /\ queue' = AddHead(DisconnectInternal, Tail(queue))
    /\ outbound' = OutboundAfter(First)
    /\ UNCHANGED <<agentVars, responses, msgID, attemptVars, threadVars,
                   socketVars, link, inbox, brokerVars, faults>>

(* An attempt has taken more than thirty seconds.                          *)
CheckTimeouts ==
    /\ MutexFree
    /\ state # "none"
    /\ age = 3
    /\ ConnectFails
    /\ UNCHANGED <<agentVars, threadVars, faults>>

-----------------------------------------------------------------------------
(* The receive thread: MQTTAsync_cycle, which reads ...                    *)

Reading == got = Nothing /\ MutexFree /\ sock # 0

(* MQTTPacket_send_connect, and the broker's answer. *)
SendConnect ==
    \/ /\ inbox' = <<[kind |-> "connack", token |-> 0]>>
       /\ will' = "kept"
       /\ UNCHANGED faults
    \/ /\ \/ inbox' = <<[kind |-> "refused", token |-> 0]>>
          \/ Mute /\ inbox' = <<>>
       /\ UNCHANGED will
       /\ Fault

(* The TCP connection is made: MQTTAsync_connecting sends the CONNECT      *)
(* packet; without a version it cannot, and that is an error.              *)
TcpDone ==
    /\ Reading /\ state = "tcp"
    /\ link \in {"opening", "silent"}
    /\ IF version = 0
       THEN /\ ConnectFails
            /\ got' = [Nothing EXCEPT !.kind = "error", !.fd = sock]
            /\ UNCHANGED <<faults, callback>>
       ELSE /\ link' = "up"
            /\ state' = "connack"
            /\ seen' = <<>>
            /\ SendConnect
            /\ UNCHANGED <<queue, idVars, connected, version, age, ping,
                           threadVars, socketVars, arrived, requests, garbled>>
    /\ UNCHANGED agentVars

(* or it is refused, or nobody answered for long.                          *)
TcpFails ==
    /\ Reading /\ state = "tcp"
    /\ \/ link = "silent" /\ UNCHANGED faults
       \/ link = "opening" /\ Fault
    /\ ConnectFails
    /\ UNCHANGED <<agentVars, threadVars>>

(* The socket is broken: while CONNACK is awaited the attempt has failed;  *)
(* the receive thread hears of it in any case.                             *)
ReadError ==
    /\ Reading
    /\ link = "broken" /\ inbox = <<>>
    /\ got' = [Nothing EXCEPT !.kind = "error", !.fd = sock]
    /\ IF state = "connack" THEN ConnectFails
       ELSE UNCHANGED <<queue, idVars, attemptVars, socketVars, link, inbox,
                        brokerVars>>
    /\ UNCHANGED <<agentVars, callback, faults>>

Arriving(kind) == Reading /\ inbox # <<>> /\ inbox[1].kind = kind

(* What is handled after the mutex was left and taken again.               *)
ReceiveAnswer ==
    /\ \E kind \in {"connack", "refused", "suback"} : Arriving(kind)
    /\ got' = [kind |-> inbox[1].kind, fd |-> sock, token |-> inbox[1].token]
    /\ inbox' = Tail(inbox)
    /\ UNCHANGED <<agentVars, queue, idVars, attemptVars, callback, socketVars,
                   link, brokerVars, faults>>

(* Mutant: a PUBACK ends all that is in flight. *)
ReceivePuback_All ==
    /\ Arriving("puback")
    /\ inbox' = Tail(inbox)
    /\ outbound' = {}
    /\ responses' = {}
    /\ UNCHANGED <<agentVars, queue, msgID, attemptVars, threadVars, socketVars,
                   link, brokerVars, faults>>

Without(S, id) ==
    IF \E c \in S : c.token = id
    THEN {S \ {c} : c \in {d \in S : d.token = id}} ELSE {S}

(* A message is acknowledged: it and its command are found by the id.      *)
ReceivePuback ==
    /\ Arriving("puback")
    /\ inbox' = Tail(inbox)
    /\ outbound' \in Without(outbound, inbox[1].token)
    /\ responses' \in Without(responses, inbox[1].token)
    /\ UNCHANGED <<agentVars, queue, msgID, attemptVars, threadVars, socketVars,
                   link, brokerVars, faults>>

ReceivePingresp ==
    /\ Arriving("pingresp")
    /\ inbox' = Tail(inbox)
    /\ ping' = FALSE
    /\ UNCHANGED <<agentVars, queue, idVars, state, connected, version, age,
                   threadVars, socketVars, link, brokerVars, faults>>

(* A request for the agent's identity: the connector answers it at once.   *)
(* If it came with QoS 1, the acknowledgement cannot be written into a     *)
(* message that is written in part, and the connection counts as broken.   *)
ReceiveRequest ==
    /\ Arriving("request")
    /\ inbox' = Tail(inbox)
    /\ IF NextId # 0 /\ connected
       THEN /\ queue' = Append(queue, Command("identity", NextId, 0))
            /\ msgID' = NextId
       ELSE UNCHANGED <<queue, msgID>>
    /\ \/ UNCHANGED got
       \/ partial # 0 /\ got' = [Nothing EXCEPT !.kind = "error", !.fd = sock]
    /\ UNCHANGED <<agentVars, responses, outbound, attemptVars, callback,
                   socketVars, link, brokerVars, faults>>

(* MQTTProtocol_keepalive, when nothing came or went for long.             *)
Keepalive ==
    /\ Reading /\ connected
    /\ IF ping
       THEN /\ Fault
            /\ queue' = AddHead(DisconnectInternal, queue)
            /\ UNCHANGED <<ping, inbox>>
       ELSE /\ partial = 0
            /\ inbox = <<>>
            /\ ping' = TRUE
            /\ inbox' = IF link = "up"
                        THEN Append(inbox, [kind |-> "pingresp", token |-> 0])
                        ELSE inbox
            /\ UNCHANGED <<queue, faults>>
    /\ UNCHANGED <<agentVars, idVars, state, connected, version, age,
                   threadVars, socketVars, link, brokerVars>>

(* Socket_continueWrites: the write is found by the socket's number, the   *)
(* oldest of that number first, and an error ends it like success.         *)
ContinueWrite ==
    /\ got = Nothing /\ callback = 0
    /\ partial # 0
    /\ partial' = 0
    /\ IF link = "up" /\ sock \notin writes
       THEN /\ \E c \in outbound :
                  c.type = "data" /\ c.arg = partial /\ Reaches(c)
            /\ UNCHANGED <<link, requests, garbled>>
       ELSE /\ garbled' = (garbled \/ (link = "up" /\ sock \in writes))
            /\ link' = "broken"
            /\ will' = IF link = "up" /\ will = "kept" THEN "sent" ELSE will
            /\ UNCHANGED <<inbox, seen, arrived, requests>>
    /\ UNCHANGED <<agentVars, queue, idVars, attemptVars, threadVars, sock,
                   open, writes, faults>>

(***************************************************************************)
(* ... and MQTTAsync_receiveThread, which handles what was read, if the    *)
(* client still has a socket of that number.                               *)
(***************************************************************************)
Handling(kind) == MutexFree /\ got.kind = kind

(* Another socket, or none: nothing to do. *)
HandleUnknown ==
    /\ MutexFree
    /\ got.kind \notin {"none", "lost"}
    /\ got.fd # sock
    /\ got' = Nothing
    /\ UNCHANGED <<agentVars, queue, idVars, attemptVars, callback, socketVars,
                   link, inbox, brokerVars, faults>>

(* An error: a connection that was made is disconnected, anything else is  *)
(* closed.                                                                 *)
HandleError ==
    /\ Handling("error") /\ got.fd = sock
    /\ IF connected
       THEN /\ got' = [got EXCEPT !.kind = "lost"]
            /\ UNCHANGED <<attemptVars, socketVars, link, inbox, brokerVars>>
       ELSE /\ got' = Nothing
            /\ CloseOnly("dropped")
            /\ UNCHANGED age
    /\ UNCHANGED <<agentVars, queue, idVars, callback, faults>>

(* MQTTAsync_disconnect_internal looks at the connection without a lock    *)
(* and may find it gone, or add the command after it is gone.              *)
AddDisconnect ==
    /\ got.kind = "lost"
    /\ got' = Nothing
    /\ \/ queue' = AddHead(DisconnectInternal, queue)
       \/ ~connected /\ UNCHANGED queue
    /\ UNCHANGED <<agentVars, idVars, attemptVars, callback, socketVars, link,
                   inbox, brokerVars, faults>>

(* Mutant: connect_state is not reset. *)
HandleConnack_KeepsState ==
    /\ Handling("connack") /\ got.fd = sock
    /\ state = "connack"
    /\ connected' = TRUE
    /\ age' = 0
    /\ CleanSession
    /\ callback' = 3
    /\ got' = Nothing
    /\ UNCHANGED <<agentVars, state, version, ping, socketVars, link, inbox,
                   brokerVars, faults>>

(* MQTTAsync_completeConnection: what an earlier session left is dropped   *)
(* and the connector is called back.                                       *)
HandleConnack ==
    /\ Handling("connack") /\ got.fd = sock
    /\ state = "connack"
    /\ state' = "none"
    /\ connected' = TRUE
    /\ age' = 0
    /\ CleanSession
    /\ callback' = 3
    /\ got' = Nothing
    /\ UNCHANGED <<agentVars, version, ping, socketVars, link, inbox,
                   brokerVars, faults>>

(* A refusal, or a CONNACK that nobody waits for.                          *)
HandleRefusal ==
    /\ MutexFree /\ got.fd = sock
    /\ \/ got.kind = "refused"
       \/ got.kind = "connack" /\ state # "connack"
    /\ ConnectFails
    /\ got' = Nothing
    /\ UNCHANGED <<agentVars, callback, faults>>

HandleSuback ==
    /\ Handling("suback") /\ got.fd = sock
    /\ responses' \in Without(responses, got.token)
    /\ got' = Nothing
    /\ UNCHANGED <<agentVars, queue, outbound, msgID, attemptVars, callback,
                   socketVars, link, inbox, brokerVars, faults>>

(* handleOnConnect: two subscriptions, then the identity.                  *)
OnConnect ==
    /\ callback > 0
    /\ callback' = callback - 1
    /\ IF NextId # 0
       THEN /\ queue' = Append(queue,
                            Command(<<"identity", "identify", "agent">>[callback],
                                    NextId, 0))
            /\ msgID' = NextId
       ELSE UNCHANGED <<queue, msgID>>
    /\ UNCHANGED <<agentVars, responses, outbound, attemptVars, got, socketVars,
                   link, inbox, brokerVars, faults>>

-----------------------------------------------------------------------------
(* The broker, the network and time                                        *)

(* The connection breaks; what the broker has sent may still be read.      *)
Break ==
    /\ link = "up"
    /\ Fault
    /\ link' = "broken"
    /\ inbox' \in {inbox, <<>>}
    /\ will' = IF will = "kept" THEN "sent" ELSE will
    /\ UNCHANGED <<agentVars, queue, idVars, attemptVars, threadVars, socketVars,
                   seen, arrived, requests, garbled>>

(* Somebody asks who is there.                                             *)
Request ==
    /\ link = "up" /\ Len(seen) > 1
    /\ requests < MaxRequests
    /\ requests' = requests + 1
    /\ inbox' = Append(inbox, [kind |-> "request", token |-> 0])
    /\ UNCHANGED <<agentVars, queue, idVars, attemptVars, threadVars, socketVars,
                   link, seen, arrived, will, garbled, faults>>

(* No thread has anything to do. *)
Quiet ==
    /\ got = Nothing /\ inbox = <<>> /\ MutexFree
    /\ \A s \in Senders : at[s] = "idle"
    /\ queue # <<>> => First.type \notin {"connect", "disconnect", "bye"}
    /\ sock # 0 => link \notin {"opening", "broken"}

(* Eleven seconds pass while there is no connection: long enough for the   *)
(* threads to do what they can, and for a broker that answers at all.      *)
Tick ==
    /\ agent # "off" /\ ~connected
    /\ Quiet
    /\ (beat < 2 /\ MaySend) \/ (state # "none" /\ age < 3)
    /\ beat' = IF (beat < 2 /\ MaySend) THEN beat + 1 ELSE beat
    /\ age' = IF state # "none" /\ age < 3 THEN age + 1 ELSE age
    /\ UNCHANGED <<agent, at, token, sent, queue, idVars, state,
                   connected, version, ping, threadVars, socketVars, link,
                   inbox, brokerVars, faults>>

-----------------------------------------------------------------------------
Connector ==
    \/ Start \/ Offer \/ Heartbeat \/ Connect \/ BeginStop \/ StopConnector
    \/ Disconnect
    \/ \E s \in Senders : GiveUp(s) \/ AssignId(s) \/ AddMessage(s)

SendThread ==
    \/ IgnoreConnect \/ OpenSocket \/ OpenSocketFails \/ ProcessDisconnect
    \/ Write \/ WriteFails \/ CheckTimeouts

Receive ==
    \/ TcpDone \/ ReceiveAnswer \/ ReceivePuback \/ ReceivePingresp
    \/ ReceiveRequest

Handle ==
    \/ HandleUnknown \/ HandleError \/ AddDisconnect \/ HandleConnack
    \/ HandleRefusal \/ HandleSuback \/ OnConnect

ReceiveThread ==
    Receive \/ TcpFails \/ ReadError \/ Keepalive \/ ContinueWrite \/ Handle

Network == Break \/ Request \/ Tick

Next == Connector \/ SendThread \/ ReceiveThread \/ Network

Spec == Init /\ [][Next]_vars

(* The threads go on, and so does time; a connection that nobody answers   *)
(* is given up by the system in the end.                                   *)
Fairness ==
    /\ WF_vars(Heartbeat) /\ WF_vars(Connect)
    /\ \A s \in Senders :
          /\ WF_vars(GiveUp(s) \/ AssignId(s))
          /\ WF_vars(AddMessage(s))
    /\ WF_vars(StopConnector) /\ WF_vars(Disconnect)
    /\ WF_vars(SendThread)
    /\ WF_vars(Handle)
    /\ WF_vars(ReadError) /\ WF_vars(ContinueWrite)
    /\ WF_vars(TcpFails)
    /\ WF_vars(Tick)

FairSpec == Spec /\ Fairness

(* And the broker answers, unless the connection breaks.                   *)
AnsweredSpec == FairSpec /\ WF_vars(Receive)
-----------------------------------------------------------------------------
TypeOK ==
    /\ agent \in {"off", "running", "stopping", "stopped", "left"}
    /\ at \in [Senders -> {"idle", "connecting", "checked", "numbered",
                           "disconnecting", "ending"}]
    /\ token \in [Senders -> 0..MaxId]
    /\ sent \in 0..MaxMessages
    /\ beat \in 0..2
    /\ queue \in Seq(Commands)
    /\ responses \subseteq Commands
    /\ outbound \subseteq Commands
    /\ msgID \in 0..MaxId
    /\ state \in {"none", "tcp", "connack"}
    /\ connected \in BOOLEAN
    /\ version \in {0, 3, 4}
    /\ age \in 0..3
    /\ ping \in BOOLEAN
    /\ got \in Results
    /\ callback \in 0..3
    /\ sock \in Fds \cup {0}
    /\ open \subseteq Fds
    /\ partial \in 0..MaxMessages
    /\ writes \subseteq Fds
    /\ link \in {"none", "opening", "silent", "up", "broken"}
    /\ inbox \in Seq(Packets)
    /\ seen \in Seq(Messages)
    /\ arrived \in Seq(1..MaxMessages)
    /\ will \in {"none", "kept", "sent", "dropped", "forgotten"}
    /\ requests \in 0..MaxRequests
    /\ garbled \in BOOLEAN
    /\ faults \in 0..MaxFaults

(* No two commands of the client have the same message id, so an answer    *)
(* ends the command it is for (MQTTAsync_assignMsgId: "Make sure it isn't  *)
(* already being used").  It rests on the one sender there is after the    *)
(* publisher was cancelled, and on ids that do not run out: a sender holds *)
(* no mutex between AssignId and AddMessage, and if the receive thread     *)
(* took all other ids meanwhile, answering requests, it would take this    *)
(* one too.                                                                *)
TokensDiffer ==
    \A i \in 1..Len(queue) :
        queue[i].token # 0 =>
            /\ \A j \in 1..Len(queue) : queue[j].token = queue[i].token => i = j
            /\ \A c \in responses : c.token # queue[i].token

(* Whatever was queued before and whoever sends, a session begins with the *)
(* two subscriptions and the identity: a controller that gets a message    *)
(* can ask the agent for more.                                             *)
SubscribedFirst ==
    \A i \in 1..Len(seen) : seen[i] = <<"agent", "identify", "identity">>[i]

(* Messages reach the broker in the order they were offered, and once,     *)
(* over all the sessions.                                                  *)
InOrder == \A i, j \in 1..Len(arrived) : i < j => arrived[i] < arrived[j]

Held(n) ==
    \/ \E i \in 1..Len(queue) : queue[i].type = "data" /\ queue[i].arg = n
    \/ \E c \in outbound : c.type = "data" /\ c.arg = n

(* The client lets go of a message it has taken only when the broker has   *)
(* it, or with the session: never for another message's answer.            *)
DroppedOnlyWithSession ==
    [][\A n \in 1..MaxMessages :
        Held(n) /\ ~Held(n)'
            => (\E i \in 1..Len(arrived) : arrived[i] = n)
               \/ ~connected \/ ~connected']_vars

(* When the agent ends its session, its will has been published: stop()    *)
(* sends it before the DISCONNECT that takes it back from the broker, and  *)
(* nothing gets in between.  Only without a free id it is not sent.        *)
WillIsNotForgotten == will = "forgotten" => token["stopper"] = 0

(* However often the connection breaks, a heartbeat brings it back, down   *)
(* to the subscriptions and the identity, if the broker answers.           *)
Reconnects == agent = "running" ~> (Len(seen) = 3 \/ agent # "running")

(* When the publisher was cancelled and stop() has asked for it, the       *)
(* connection ends for good.                                               *)
StopEndsTheSession == (Posix /\ agent = "stopped") ~> [](~connected)

(* Told by MQTTAsync.h:643, "The time interval in seconds to allow a       *)
(* connect to complete": an attempt ends.  Each heartbeat in between puts  *)
(* another CONNECT into the queue, which is not needed, but starts the     *)
(* time again.                                                             *)
AttemptEnds == (state = "connack") ~> (state # "connack")

(* Told by SocketBuffer.c, "Cleanup any buffers for a specific socket":    *)
(* nothing of a closed socket's is written to the next one of its number.  *)
WholePackets == ~garbled
=============================================================================
