----------------------------- MODULE MqttProofs -----------------------------
(***************************************************************************)
(* Theorems about Mqtt for every number of ids, sockets, messages and      *)
(* faults.                                                                 *)
(***************************************************************************)
EXTENDS Mqtt, SequenceTheorems, FiniteSetTheorems, WellFoundedInduction, TLAPS

(***************************************************************************)
(* Sequences and ids                                                       *)
(***************************************************************************)

LEMMA Appended ==
    ASSUME NEW S, NEW q \in Seq(S), NEW c \in S
    PROVE  /\ Append(q, c) \in Seq(S)
           /\ Len(Append(q, c)) = Len(q) + 1
           /\ \A i \in 1..Len(q) : Append(q, c)[i] = q[i]
           /\ Append(q, c)[Len(q) + 1] = c
OBVIOUS

LEMMA Popped ==
    ASSUME NEW S, NEW q \in Seq(S), q # <<>>
    PROVE  /\ q[1] \in S /\ Len(q) \in Nat /\ Len(q) > 0
           /\ Tail(q) \in Seq(S)
           /\ Len(Tail(q)) = Len(q) - 1
           /\ \A i \in 1..Len(Tail(q)) : Tail(q)[i] = q[i + 1]
<1>1. q[1] \in S /\ Len(q) \in Nat /\ Len(q) > 0
  BY EmptySeq, ElementOfSeq, LenProperties
<1> QED
  BY <1>1, HeadTailProperties

LEMMA Pushed ==
    ASSUME NEW S, NEW q \in Seq(S), NEW c \in S
    PROVE  /\ <<c>> \o q \in Seq(S)
           /\ Len(<<c>> \o q) = Len(q) + 1
           /\ (<<c>> \o q)[1] = c
           /\ \A i \in 2..(Len(q) + 1) : (<<c>> \o q)[i] = q[i - 1]
<1>1. <<c>> \in Seq(S) /\ Len(<<c>>) = 1 /\ <<c>>[1] = c
  OBVIOUS
<1>2. Len(q) \in Nat
  BY LenProperties
<1>3. /\ <<c>> \o q \in Seq(S)
      /\ Len(<<c>> \o q) = 1 + Len(q)
      /\ \A i \in 1..(1 + Len(q)) :
            (<<c>> \o q)[i] = IF i <= 1 THEN <<c>>[i] ELSE q[i - 1]
  BY <1>1, ConcatProperties
<1>4. (<<c>> \o q)[1] = c
  BY <1>1, <1>2, <1>3
<1>5. \A i \in 2..(Len(q) + 1) : (<<c>> \o q)[i] = q[i - 1]
  BY <1>2, <1>3
<1> QED
  BY <1>2, <1>3, <1>4, <1>5

LEMMA HasLeast ==
    ASSUME NEW S \in SUBSET Nat, S # {}
    PROVE  \E n \in S : \A i \in S : n <= i
<1>1. PICK n \in S : \A i \in S : ~(<<i, n>> \in OpToRel(<, Nat))
  BY NatLessThanWellFounded, WFMin
<1>2. \A i \in S : ~(i < n)
  BY <1>1 DEF OpToRel
<1> QED
  BY <1>2

(* An id that is given is free. *)
LEMMA NextIdIsFree ==
    ASSUME msgID \in 0..MaxId
    PROVE  /\ FreeIds = {} => NextId = 0
           /\ FreeIds # {} => NextId \in FreeIds
           /\ NextId \in 0..MaxId
<1>0. MaxId \in Nat /\ MaxId > 0
  BY MqttAssumption
<1> DEFINE key(i) == (i + MaxId - msgID - 1) % MaxId
           keys == {key(i) : i \in FreeIds}
<1>1. FreeIds \subseteq 1..MaxId
  BY DEF FreeIds, Ids
<1>2. CASE FreeIds = {}
  BY <1>0, <1>2 DEF NextId
<1>3. CASE FreeIds # {}
  <2>1. \A i \in 1..MaxId : key(i) \in Nat
    <3> SUFFICES ASSUME NEW i \in 1..MaxId PROVE key(i) \in Nat
      OBVIOUS
    <3>1. i + MaxId - msgID - 1 \in Nat
      BY <1>0
    <3> QED
      BY <1>0, <3>1
  <2>2. keys \in SUBSET Nat /\ keys # {}
    <3> HIDE DEF key
    <3> QED
      BY <1>1, <1>3, <2>1
  <2>3. PICK n \in keys : \A k \in keys : n <= k
    <3> HIDE DEF keys
    <3> QED
      BY <2>2, HasLeast
  <2>4. \E i \in FreeIds : \A j \in FreeIds : key(i) <= key(j)
    <3> HIDE DEF key
    <3> QED
      BY <2>3
  <2>5. NextId = CHOOSE i \in FreeIds : \A j \in FreeIds : key(i) <= key(j)
    BY <1>3 DEF NextId
  <2>6. NextId \in FreeIds
    <3> HIDE DEF key
    <3> QED
      BY <2>4, <2>5
  <2> QED
    BY <1>0, <1>1, <1>3, <2>6
<1> QED
  BY <1>2, <1>3

-----------------------------------------------------------------------------
(***************************************************************************)
(* Types, and what a command carries                                       *)
(***************************************************************************)


CommandShape ==
    \A i \in 1..Len(queue) :
        /\ queue[i].type = "connect" => queue[i].arg \in {0, 4}
        /\ queue[i].type = "data" => queue[i].arg \in 1..sent

Shape ==
    /\ CommandShape
    /\ at["publisher"] \in {"checked", "numbered"} => sent < MaxMessages
    /\ at["publisher"] \notin {"disconnecting", "ending"}
    /\ at["stopper"] # "connecting"
    /\ state # "none" \/ connected => sock # 0
    /\ partial # 0 => connected

TypeInv == TypeOK /\ Shape

(* What the client puts at the head of its queue. *)
Heads == {Command("connect", 0, 0), Command("connect", 0, 4), DisconnectInternal}

(* q is the queue, perhaps without its first command or with another in    *)
(* front: it keeps the order of what it keeps.                             *)
Shifted(q) ==
    \E k \in {-1, 0, 1} : \A i \in 1..Len(q) :
        \/ i + k \in 1..Len(queue) /\ q[i] = queue[i + k]
        \/ i = 1 /\ q[i] \in Heads

LEMMA HeadsTyped ==
    /\ Heads \subseteq Commands
    /\ \A c \in Heads : /\ c.type \in {"connect", "disconnect"} /\ c.token = 0
                        /\ c.type = "connect" => c.arg \in {0, 4}
BY MqttAssumption DEF Heads, DisconnectInternal, Command, Commands, Types

LEMMA TailShifted ==
    ASSUME queue \in Seq(Commands), queue # <<>>
    PROVE  Tail(queue) \in Seq(Commands) /\ Shifted(Tail(queue))
<1>1. /\ Len(queue) \in Nat /\ Tail(queue) \in Seq(Commands)
      /\ Len(Tail(queue)) = Len(queue) - 1
      /\ \A i \in 1..Len(Tail(queue)) : Tail(queue)[i] = queue[i + 1]
  BY Popped
<1>2. \A i \in 1..Len(Tail(queue)) :
         i + 1 \in 1..Len(queue) /\ Tail(queue)[i] = queue[i + 1]
  BY <1>1
<1> QED
  BY <1>1, <1>2 DEF Shifted

LEMMA HeadShifted ==
    ASSUME queue \in Seq(Commands), NEW c \in Heads
    PROVE  AddHead(c, queue) \in Seq(Commands) /\ Shifted(AddHead(c, queue))
<1>1. Len(queue) \in Nat /\ c \in Commands
  BY LenProperties, HeadsTyped
<1>2. Shifted(queue)
  BY <1>1 DEF Shifted
<1>3. CASE AddHead(c, queue) = queue
  BY <1>2, <1>3
<1>4. CASE AddHead(c, queue) = <<c>> \o queue
  <2> DEFINE q == <<c>> \o queue
  <2>1. /\ q \in Seq(Commands) /\ Len(q) = Len(queue) + 1 /\ q[1] = c
        /\ \A i \in 2..(Len(queue) + 1) : q[i] = queue[i - 1]
    BY <1>1, Pushed
  <2> HIDE DEF q
  <2>2. \A i \in 1..Len(q) :
           \/ i + (-1) \in 1..Len(queue) /\ q[i] = queue[i + (-1)]
           \/ i = 1 /\ q[i] \in Heads
    <3> SUFFICES ASSUME NEW i \in 1..Len(q), i # 1
                 PROVE  i + (-1) \in 1..Len(queue) /\ q[i] = queue[i + (-1)]
      BY <2>1
    <3>1. i \in 2..(Len(queue) + 1) /\ i - 1 = i + (-1)
      BY <1>1, <2>1
    <3> QED
      BY <1>1, <2>1, <3>1
  <2> QED
    BY <1>4, <2>1, <2>2 DEF Shifted, q
<1> QED
  BY <1>3, <1>4 DEF AddHead

LEMMA HeadTailShifted ==
    ASSUME queue \in Seq(Commands), queue # <<>>, NEW c \in Heads
    PROVE  /\ AddHead(c, Tail(queue)) \in Seq(Commands)
           /\ Shifted(AddHead(c, Tail(queue)))
<1> DEFINE t == Tail(queue)
<1>1. /\ Len(queue) \in Nat /\ t \in Seq(Commands) /\ Len(t) = Len(queue) - 1
      /\ \A i \in 1..Len(t) : t[i] = queue[i + 1]
  BY Popped
<1>2. c \in Commands
  BY HeadsTyped
<1>3. CASE AddHead(c, t) = t
  BY <1>3, TailShifted
<1>4. CASE AddHead(c, t) = <<c>> \o t
  <2> DEFINE q == <<c>> \o t
  <2> HIDE DEF t
  <2>1. /\ q \in Seq(Commands) /\ Len(q) = Len(t) + 1 /\ q[1] = c
        /\ \A i \in 2..(Len(t) + 1) : q[i] = t[i - 1]
    BY <1>1, <1>2, Pushed
  <2> HIDE DEF q
  <2>2. \A i \in 1..Len(q) :
           \/ i + 0 \in 1..Len(queue) /\ q[i] = queue[i + 0]
           \/ i = 1 /\ q[i] \in Heads
    <3> SUFFICES ASSUME NEW i \in 1..Len(q), i # 1
                 PROVE  i \in 1..Len(queue) /\ q[i] = queue[i]
      BY <2>1
    <3>1. i \in 2..(Len(t) + 1) /\ i - 1 \in 1..Len(t)
      BY <1>1, <2>1
    <3>2. q[i] = t[i - 1] /\ t[i - 1] = queue[(i - 1) + 1]
      BY <1>1, <2>1, <3>1
    <3>3. (i - 1) + 1 = i
      BY <3>1
    <3> QED
      BY <1>1, <2>1, <3>1, <3>2, <3>3
  <2> QED
    BY <1>4, <2>1, <2>2 DEF Shifted, q, t
<1> QED
  BY <1>3, <1>4 DEF AddHead

LEMMA ShapeShifted ==
    ASSUME TypeInv, Shifted(queue'), sent' = sent
    PROVE  CommandShape'
<1>1. PICK k \in {-1, 0, 1} : \A i \in 1..Len(queue') :
         \/ i + k \in 1..Len(queue) /\ queue'[i] = queue[i + k]
         \/ i = 1 /\ queue'[i] \in Heads
  BY DEF Shifted
<1>2. \A i \in 1..Len(queue) :
        /\ queue[i].type = "connect" => queue[i].arg \in {0, 4}
        /\ queue[i].type = "data" => queue[i].arg \in 1..sent
  BY DEF TypeInv, Shape, CommandShape
<1>3. \A c \in Heads : /\ c.type \in {"connect", "disconnect"}
                       /\ c.type = "connect" => c.arg \in {0, 4}
  BY HeadsTyped
<1> QED
  BY <1>1, <1>2, <1>3 DEF CommandShape

LEMMA ShapeAppended ==
    ASSUME TypeInv, NEW c \in Commands, queue' = Append(queue, c),
           sent' \in Nat, sent' >= sent, c.type # "connect",
           c.type = "data" => c.arg \in 1..sent'
    PROVE  CommandShape' /\ queue' \in Seq(Commands)
<1>1. queue \in Seq(Commands) /\ Len(queue) \in Nat /\ sent \in Nat
  BY MqttAssumption, LenProperties DEF TypeInv, TypeOK
<1>2. /\ queue' \in Seq(Commands) /\ Len(queue') = Len(queue) + 1
      /\ \A i \in 1..Len(queue) : queue'[i] = queue[i]
      /\ queue'[Len(queue) + 1] = c
  BY <1>1, Appended
<1>3. \A i \in 1..Len(queue) :
        /\ queue[i].type = "connect" => queue[i].arg \in {0, 4}
        /\ queue[i].type = "data" => queue[i].arg \in 1..sent'
  BY <1>1 DEF TypeInv, Shape, CommandShape
<1>4. ASSUME NEW i \in 1..Len(queue')
      PROVE  /\ queue'[i].type = "connect" => queue'[i].arg \in {0, 4}
             /\ queue'[i].type = "data" => queue'[i].arg \in 1..sent'
  <2>1. CASE i \in 1..Len(queue)
    BY <1>2, <1>3, <2>1
  <2>2. CASE i = Len(queue) + 1
    BY <1>2, <2>2
  <2> QED
    BY <1>1, <1>2, <2>1, <2>2
<1> QED
  BY <1>2, <1>4 DEF CommandShape

LEMMA ShapeUnchanged ==
    ASSUME TypeInv, queue' = queue, sent' = sent
    PROVE  CommandShape'
BY DEF TypeInv, Shape, CommandShape

LEMMA ShapeEmpty == ASSUME queue' = <<>> PROVE CommandShape' /\ queue' \in Seq(Commands)
BY DEF CommandShape

(* The first command of a queue.                                           *)
LEMMA FirstTyped ==
    ASSUME TypeInv, queue # <<>>
    PROVE  /\ First \in Commands
           /\ First.type = "connect" => First.arg \in {0, 4}
           /\ First.type = "data" => First.arg \in 1..sent
<1>1. queue[1] \in Commands /\ 1 \in 1..Len(queue)
  BY Popped DEF TypeInv, TypeOK
<1> QED
  BY <1>1 DEF TypeInv, Shape, CommandShape, First

LEMMA ConstantsTyped ==
    /\ MaxId \in Nat /\ MaxId > 1 /\ 0 \in 0..MaxId
    /\ MaxMessages \in Nat /\ MaxRequests \in Nat /\ MaxFaults \in Nat
    /\ Fds \subseteq Nat \ {0}
BY MqttAssumption

(* What closing the socket leaves. *)
Closed ==
    /\ will' \in {"none", "kept", "sent", "dropped", "forgotten"}
    /\ sock' = 0 /\ open' \subseteq Fds /\ partial' = 0
    /\ writes' \subseteq Fds /\ link' = "none" /\ inbox' \in Seq(Packets)
    /\ state' = "none" /\ ~connected' /\ connected' \in BOOLEAN
    /\ ping' \in BOOLEAN /\ seen' \in Seq(Messages)
    /\ UNCHANGED <<version, arrived, requests, garbled>>

LEMMA CloseOnlyTyped ==
    ASSUME TypeInv, NEW by \in {"dropped", "forgotten"}, CloseOnly(by)
    PROVE  Closed
<1>1. writes' \subseteq Fds
  BY DEF CloseOnly, CloseSocket, WritesAfter, TypeInv, TypeOK, Shape
<1>2. inbox' \in Seq(Packets) /\ seen' \in Seq(Messages)
  BY EmptySeq DEF CloseOnly, CloseSocket
<1>3. ~connected' /\ connected' \in BOOLEAN /\ ping' \in BOOLEAN
  BY DEF CloseOnly
<1> QED
  BY <1>1, <1>2, <1>3 DEF CloseOnly, CloseSocket, WillAfter, TypeInv, TypeOK, Closed

LEMMA ConnectFailsTyped ==
    ASSUME TypeInv, ConnectFails
    PROVE  /\ Closed /\ age' = 0
           /\ queue' \in Seq(Commands) /\ (sent' = sent => CommandShape')
           /\ responses' \subseteq Commands /\ outbound' \subseteq Commands
           /\ msgID' \in 0..MaxId
<1>0. Closed
  BY CloseOnlyTyped DEF ConnectFails
<1>1. CASE version = 4
  <2>1. queue' = AddHead(Command("connect", 0, 4), queue)
    BY <1>1 DEF ConnectFails
  <2>2. queue' \in Seq(Commands) /\ Shifted(queue')
    BY <2>1, HeadShifted DEF Heads, TypeInv, TypeOK
  <2> QED
    BY <1>0, <1>1, <2>2, ShapeShifted DEF ConnectFails, idVars, TypeInv, TypeOK
<1>2. CASE version # 4
  <2>1. queue' = <<>> /\ responses' = {} /\ outbound' = {} /\ msgID' = 0
    BY <1>2 DEF ConnectFails, CleanSession
  <2> QED
    BY <1>0, <2>1, ShapeEmpty, ConstantsTyped DEF ConnectFails
<1> QED
  BY <1>1, <1>2

(* Every action keeps the types. *)
LEMMA WithoutIsSubset == \A S, id : \A T \in Without(S, id) : T \subseteq S
BY DEF Without

LEMMA ReachesTyped ==
    ASSUME TypeInv, NEW c \in Commands, c.type \in Messages, Reaches(c),
           c.type = "data" => c.arg \in 1..MaxMessages
    PROVE  /\ inbox' \in Seq(Packets) /\ seen' \in Seq(Messages)
           /\ arrived' \in Seq(1..MaxMessages)
           /\ will' \in {"none", "kept", "sent", "dropped", "forgotten"}
<1>1. Answer(c) \in Packets
  BY DEF Answer, Packets, Commands
<1>2. inbox' \in Seq(Packets)
  BY <1>1, Appended DEF Reaches, TypeInv, TypeOK
<1>3. seen' \in Seq(Messages)
  BY Appended DEF Reaches, Next3, TypeInv, TypeOK
<1>4. arrived' \in Seq(1..MaxMessages)
  BY Appended DEF Reaches, TypeInv, TypeOK
<1> QED
  BY <1>2, <1>3, <1>4 DEF Reaches, TypeInv, TypeOK

LEMMA TypeStep == TypeInv /\ [Next]_vars => TypeInv'
<1> SUFFICES ASSUME TypeInv, [Next]_vars PROVE TypeInv'
  OBVIOUS
<1> USE DEF TypeInv, TypeOK, Shape, agentVars, idVars, attemptVars,
            threadVars, socketVars, brokerVars
<1>1. CASE Start
  <2>1. queue' \in Seq(Commands) /\ Shifted(queue') /\ sent' = sent
    BY <1>1, HeadShifted DEF Start, Heads, agentVars
  <2>2. CommandShape'
    BY <2>1, ShapeShifted
  <2> QED
    BY <1>1, <2>1, <2>2, ConstantsTyped DEF Start
<1>2. CASE Offer
  BY <1>2, ShapeUnchanged, ConstantsTyped DEF Offer, Senders
<1>3. CASE Heartbeat
  BY <1>3, ShapeUnchanged, ConstantsTyped DEF Heartbeat, Senders
<1>4. CASE Connect
  <2>1. queue' \in Seq(Commands) /\ Shifted(queue') /\ sent' = sent
    BY <1>4, HeadShifted DEF Connect, Heads, agentVars
  <2>2. CommandShape'
    BY <2>1, ShapeShifted
  <2> QED
    BY <1>4, <2>1, <2>2, ConstantsTyped DEF Connect, Senders
<1>5. ASSUME NEW s \in Senders, GiveUp(s) PROVE TypeInv'
  BY <1>5, ShapeUnchanged, ConstantsTyped DEF GiveUp, After, Senders
<1>6. ASSUME NEW s \in Senders, AssignId(s) PROVE TypeInv'
  BY <1>6, ShapeUnchanged, ConstantsTyped, NextIdIsFree DEF AssignId, Senders, After
<1>7. ASSUME NEW s \in Senders, AddMessage(s) PROVE TypeInv'
  <2> DEFINE c == IF s = "publisher" THEN Command("data", token[s], sent')
                  ELSE Command("will", token[s], 0)
  <2>1. sent' \in 0..MaxMessages /\ sent' >= sent /\ (s = "publisher" => sent' > 0)
    BY <1>7, ConstantsTyped DEF AddMessage
  <2>2. c \in Commands /\ c.type # "connect" /\ (c.type = "data" => c.arg \in 1..sent')
    BY <2>1, ConstantsTyped DEF Command, Commands, Types, Messages, Publishes
  <2>3. queue' = Append(queue, c)
    BY <1>7 DEF AddMessage
  <2>4. CommandShape' /\ queue' \in Seq(Commands)
    BY <2>1, <2>2, <2>3, ShapeAppended, ConstantsTyped
  <2> QED
    BY <1>7, <2>1, <2>2, <2>3, <2>4, ConstantsTyped DEF AddMessage, Senders, After
<1>8. CASE BeginStop
  BY <1>8, ShapeUnchanged, ConstantsTyped DEF BeginStop, Senders
<1>9. CASE StopConnector
  BY <1>9, ShapeUnchanged, ConstantsTyped DEF StopConnector, Senders
<1>10. CASE Disconnect
  <2>1. CommandShape' /\ queue' \in Seq(Commands) /\ sent' = sent
    <3> DEFINE c == Command("bye", 0, 0)
    <3>1. c \in Commands /\ c.type = "bye"
      BY ConstantsTyped DEF Command, Commands, Types
    <3>2. queue' = Append(queue, c) \/ queue' = queue
      BY <1>10 DEF Disconnect, LookAgain, AddBye
    <3>3. sent' = sent /\ sent \in Nat
      BY <1>10, ConstantsTyped DEF Disconnect, LookAgain, AddBye
    <3> HIDE DEF c
    <3> QED
      BY <3>1, <3>2, <3>3, ShapeAppended, ShapeUnchanged
  <2>2. /\ agent' \in {"off", "running", "stopping", "stopped", "left"}
        /\ \E place \in {"idle", "ending"} : at' = [at EXCEPT !["stopper"] = place]
        /\ UNCHANGED <<token, sent, beat, idVars, attemptVars, threadVars,
                       socketVars, link, inbox, brokerVars, faults>>
    BY <1>10 DEF Disconnect, LookAgain, AddBye
  <2> QED
    BY <2>1, <2>2, ConstantsTyped DEF Senders
<1>11. CASE IgnoreConnect
  <2>1. queue' \in Seq(Commands) /\ Shifted(queue') /\ sent' = sent
    BY <1>11, TailShifted DEF IgnoreConnect, Ready, agentVars
  <2>2. CommandShape'
    BY <2>1, ShapeShifted
  <2>3. First.arg \in {0, 4} \/ First.type # "connect"
    BY <1>11, FirstTyped DEF IgnoreConnect, Ready
  <2> QED
    BY <1>11, <2>1, <2>2, <2>3, ConstantsTyped DEF IgnoreConnect
<1>12. CASE OpenSocket
  <2>1. queue' \in Seq(Commands) /\ Shifted(queue') /\ sent' = sent
    BY <1>12, TailShifted DEF OpenSocket, Ready, agentVars
  <2>2. CommandShape'
    BY <2>1, ShapeShifted
  <2>3. First.arg \in {0, 4} \/ First.type # "connect"
    BY <1>12, FirstTyped DEF OpenSocket, Ready
  <2> QED
    BY <1>12, <2>1, <2>2, <2>3, ConstantsTyped DEF OpenSocket, VersionAfter, Fault
<1>13. CASE OpenSocketFails
  <2>1. queue' \in Seq(Commands) /\ Shifted(queue') /\ sent' = sent
    BY <1>13, TailShifted, HeadTailShifted DEF OpenSocketFails, Ready, Heads, agentVars
  <2>2. CommandShape'
    BY <2>1, ShapeShifted
  <2> QED
    BY <1>13, <2>1, <2>2, ConstantsTyped DEF OpenSocketFails, Fault
<1>14. CASE ProcessDisconnect
  <2>1. CASE state # "none" \/ connected
    <3>1. PICK by \in {"dropped", "forgotten"} : CloseOnly(by)
      BY <1>14, <2>1 DEF ProcessDisconnect
    <3>3. Closed
      BY <3>1, CloseOnlyTyped
    <3>2. CleanSession /\ age' = 0 /\ UNCHANGED <<agentVars, threadVars, faults>>
      BY <1>14, <2>1 DEF ProcessDisconnect
    <3> QED
      BY <3>2, <3>3, ShapeEmpty, ConstantsTyped DEF CleanSession, Closed
  <2>2. CASE ~(state # "none" \/ connected)
    <3>1. queue' = Tail(queue) /\ queue # <<>>
      BY <1>14, <2>2 DEF ProcessDisconnect, Ready
    <3>2. UNCHANGED <<agentVars, threadVars, faults, idVars, attemptVars, socketVars,
                      link, inbox, brokerVars>>
      BY <1>14, <2>2 DEF ProcessDisconnect
    <3>3. queue' \in Seq(Commands) /\ CommandShape'
      BY <3>1, <3>2, TailShifted, ShapeShifted DEF agentVars
    <3> QED
      BY <3>2, <3>3
  <2> QED
    BY <1>14, <2>1, <2>2, ConstantsTyped DEF ProcessDisconnect, CleanSession
<1>15. CASE Write
  <2>1. First \in Commands /\ First.type \in Messages
    BY <1>15, FirstTyped DEF Write, Ready, Messages
  <2>2. First.type = "data" => First.arg \in 1..sent /\ First.arg \in 1..MaxMessages
    BY <1>15, FirstTyped, ConstantsTyped DEF Write, Ready
  <2>3. queue' \in Seq(Commands) /\ CommandShape'
    BY <1>15, TailShifted, ShapeShifted DEF Write, Ready, agentVars
  <2>4. responses' \subseteq Commands /\ outbound' \subseteq Commands
    BY <1>15, <2>1 DEF Write, OutboundAfter
  <2>5. /\ partial' \in 0..MaxMessages /\ inbox' \in Seq(Packets)
        /\ seen' \in Seq(Messages) /\ arrived' \in Seq(1..MaxMessages)
        /\ will' \in {"none", "kept", "sent", "dropped", "forgotten"}
        /\ UNCHANGED <<requests, garbled>>
    <3>1. CASE Reaches(First) /\ UNCHANGED <<partial, requests, garbled>>
      BY <2>1, <2>2, <3>1, ReachesTyped
    <3>2. CASE partial' = First.arg /\ First.type = "data" /\ UNCHANGED <<inbox, brokerVars>>
      BY <2>2, <3>2, ConstantsTyped
    <3>3. CASE UNCHANGED <<partial, inbox, brokerVars>>
      BY <3>3
    <3> QED
      BY <1>15, <3>1, <3>2, <3>3 DEF Write, Putdatas
  <2>6. connected
    BY <1>15 DEF Write, Ready
  <2> QED
    BY <1>15, <2>1, <2>2, <2>3, <2>4, <2>5, <2>6, ConstantsTyped DEF Write, Ready
<1>16. CASE WriteFails
  <2>1. First \in Commands /\ First.type \in Messages
    BY <1>16, FirstTyped DEF WriteFails, Ready, Messages
  <2>2. First.type = "data" => First.arg \in 1..sent /\ First.arg \in 1..MaxMessages
    BY <1>16, FirstTyped, ConstantsTyped DEF WriteFails, Ready
  <2>3. queue' \in Seq(Commands) /\ CommandShape'
    BY <1>16, HeadTailShifted, ShapeShifted DEF WriteFails, Ready, agentVars, Heads
  <2>4. outbound' \subseteq Commands
    BY <1>16, <2>1 DEF WriteFails, OutboundAfter
  <2> QED
    BY <1>16, <2>1, <2>2, <2>3, <2>4, ConstantsTyped DEF WriteFails
<1>17. CASE CheckTimeouts
  <2>1. /\ Closed /\ age' = 0
        /\ queue' \in Seq(Commands) /\ (sent' = sent => CommandShape')
        /\ responses' \subseteq Commands /\ outbound' \subseteq Commands
        /\ msgID' \in 0..MaxId
    BY <1>17, ConnectFailsTyped DEF CheckTimeouts
  <2> QED
    BY <1>17, <2>1, ConstantsTyped DEF CheckTimeouts, Closed
<1>18. CASE TcpDone
  <2>1. CASE version = 0
    <3>1. /\ Closed /\ age' = 0
          /\ queue' \in Seq(Commands) /\ (sent' = sent => CommandShape')
          /\ responses' \subseteq Commands /\ outbound' \subseteq Commands
          /\ msgID' \in 0..MaxId
      BY <1>18, <2>1, ConnectFailsTyped DEF TcpDone
    <3>2. /\ got' = [Nothing EXCEPT !.kind = "error", !.fd = sock]
          /\ UNCHANGED <<faults, callback, agentVars>>
      BY <1>18, <2>1 DEF TcpDone
    <3>3. got' \in Results
      BY <3>2, ConstantsTyped DEF Nothing, Results
    <3> QED
      BY SMTT(30), <3>1, <3>2, <3>3, ConstantsTyped DEF Closed
  <2>2. CASE version # 0
    <3>1. /\ link' = "up" /\ state' = "connack" /\ seen' = <<>> /\ SendConnect
          /\ UNCHANGED <<queue, idVars, connected, version, age, ping, threadVars,
                         socketVars, arrived, requests, garbled, agentVars>>
          /\ state = "tcp"
      BY <1>18, <2>2 DEF TcpDone
    <3>2. inbox' \in Seq(Packets)
      <4>1. [kind |-> "connack", token |-> 0] \in Packets
            /\ [kind |-> "refused", token |-> 0] \in Packets
        BY ConstantsTyped DEF Packets
      <4>2. \A p \in Packets : <<p>> \in Seq(Packets)
        OBVIOUS
      <4>3. inbox' \in {<<[kind |-> "connack", token |-> 0]>>, <<[kind |-> "refused", token |-> 0]>>, <<>>}
        BY <3>1 DEF SendConnect
      <4>4. <<>> \in Seq(Packets)
        BY EmptySeq
      <4> QED
        BY <4>1, <4>2, <4>3, <4>4
    <3>3. will' \in {"none", "kept", "sent", "dropped", "forgotten"} /\ faults' \in 0..MaxFaults
      BY <3>1, ConstantsTyped DEF SendConnect, Fault
    <3> QED
      BY <3>1, <3>2, <3>3, ShapeUnchanged
  <2> QED
    BY <1>18, <2>1, <2>2, ConstantsTyped DEF TcpDone
<1>19. CASE ReceiveAnswer
  <2>1. inbox # <<>> /\ inbox' = Tail(inbox) /\ inbox[1].kind \in {"connack", "refused", "suback"}
    BY <1>19 DEF ReceiveAnswer, Arriving
  <2>2. inbox[1] \in Packets /\ inbox' \in Seq(Packets)
    BY <2>1, Popped
  <2>3. got' \in Results
    BY <1>19, <2>1, <2>2 DEF ReceiveAnswer, Packets, Results
  <2> QED
    BY SMTT(30), <1>19, <2>1, <2>2, <2>3, ShapeUnchanged, ConstantsTyped DEF ReceiveAnswer
<1>20. CASE ReceivePuback
  <2>1. inbox # <<>> /\ inbox' = Tail(inbox)
    BY <1>20 DEF ReceivePuback, Arriving
  <2>2. inbox[1] \in Packets /\ inbox' \in Seq(Packets)
    BY <2>1, Popped
  <2> QED
    BY <1>20, <2>1, <2>2, WithoutIsSubset, ShapeUnchanged DEF ReceivePuback
<1>21. CASE ReceivePingresp
  <2>1. inbox # <<>> /\ inbox' = Tail(inbox)
    BY <1>21 DEF ReceivePingresp, Arriving
  <2>2. inbox[1] \in Packets /\ inbox' \in Seq(Packets)
    BY <2>1, Popped
  <2>3. ping' \in BOOLEAN
    BY <1>21 DEF ReceivePingresp
  <2> QED
    BY <1>21, <2>1, <2>2, <2>3, ShapeUnchanged DEF ReceivePingresp
<1>22. CASE ReceiveRequest
  <2>1. inbox # <<>> /\ inbox' = Tail(inbox)
    BY <1>22 DEF ReceiveRequest, Arriving
  <2>2. inbox[1] \in Packets /\ inbox' \in Seq(Packets)
    BY <2>1, Popped
  <2>3. msgID' \in 0..MaxId
    BY <1>22, NextIdIsFree DEF ReceiveRequest
  <2>4. queue' \in Seq(Commands) /\ CommandShape'
    <3> DEFINE c == Command("identity", NextId, 0)
    <3>1. c \in Commands /\ c.type = "identity"
      BY ConstantsTyped, NextIdIsFree DEF Command, Commands, Types, Messages, Publishes
    <3>2. queue' = Append(queue, c) \/ queue' = queue
      BY <1>22 DEF ReceiveRequest
    <3>3. sent' = sent /\ sent \in Nat
      BY <1>22, ConstantsTyped DEF ReceiveRequest
    <3> HIDE DEF c
    <3> QED
      BY <3>1, <3>2, <3>3, ShapeAppended, ShapeUnchanged
  <2>5. got' \in Results
    BY <1>22, ConstantsTyped DEF ReceiveRequest, Nothing, Results
  <2> QED
    BY <1>22, <2>1, <2>2, <2>3, <2>4, <2>5 DEF ReceiveRequest
<1>23. CASE TcpFails
  <2>1. /\ Closed /\ age' = 0
        /\ queue' \in Seq(Commands) /\ (sent' = sent => CommandShape')
        /\ responses' \subseteq Commands /\ outbound' \subseteq Commands
        /\ msgID' \in 0..MaxId
    BY <1>23, ConnectFailsTyped DEF TcpFails
  <2>2. faults' \in 0..MaxFaults
    BY <1>23, ConstantsTyped DEF TcpFails, Fault
  <2> QED
    BY <1>23, <2>1, <2>2, ConstantsTyped DEF TcpFails, Closed
<1>24. CASE ReadError
  <2>1. got' \in Results
    BY <1>24, ConstantsTyped DEF ReadError, Nothing, Results
  <2>2. CASE state = "connack"
    <3>1. /\ Closed /\ age' = 0
          /\ queue' \in Seq(Commands) /\ (sent' = sent => CommandShape')
          /\ responses' \subseteq Commands /\ outbound' \subseteq Commands
          /\ msgID' \in 0..MaxId
      BY <1>24, <2>2, ConnectFailsTyped DEF ReadError
    <3> QED
      BY SMTT(30), <1>24, <2>1, <3>1, ConstantsTyped DEF ReadError, Closed
  <2>3. CASE state # "connack"
    <3>1. UNCHANGED <<agentVars, queue, idVars, attemptVars, socketVars, link, inbox,
                      brokerVars, callback, faults>>
      BY <1>24, <2>3 DEF ReadError
    <3> QED
      BY <2>1, <3>1, ShapeUnchanged
  <2> QED
    BY <1>24, <2>1, <2>2, <2>3 DEF ReadError
<1>25. CASE Keepalive
  <2>1. queue' \in Seq(Commands) /\ CommandShape'
    <3>1. queue' = AddHead(DisconnectInternal, queue) \/ queue' = queue
      BY <1>25 DEF Keepalive
    <3> QED
      BY <1>25, <3>1, HeadShifted, ShapeShifted, ShapeUnchanged DEF Heads, Keepalive
  <2>2. inbox' \in Seq(Packets)
    <3> DEFINE p == [kind |-> "pingresp", token |-> 0]
    <3>1. p \in Packets /\ inbox \in Seq(Packets)
      BY ConstantsTyped DEF Packets
    <3>2. inbox' = Append(inbox, p) \/ inbox' = inbox
      BY <1>25 DEF Keepalive
    <3> HIDE DEF p
    <3>3. Append(inbox, p) \in Seq(Packets)
      BY <3>1, Appended
    <3> QED
      BY <3>1, <3>2, <3>3
  <2>3. ping' \in BOOLEAN
    BY <1>25 DEF Keepalive
  <2> QED
    BY <1>25, <2>1, <2>2, <2>3, ConstantsTyped DEF Keepalive, Fault
<1>26. CASE ContinueWrite
  <2>1. /\ inbox' \in Seq(Packets) /\ seen' \in Seq(Messages)
        /\ arrived' \in Seq(1..MaxMessages)
        /\ will' \in {"none", "kept", "sent", "dropped", "forgotten"}
    <3>1. CASE link = "up" /\ sock \notin writes
      <4>1. PICK c \in outbound : c.type = "data" /\ c.arg = partial /\ Reaches(c)
        BY <1>26, <3>1 DEF ContinueWrite
      <4>2. partial \in 1..MaxMessages
        BY <1>26, ConstantsTyped DEF ContinueWrite
      <4> QED
        BY <4>1, <4>2, ReachesTyped DEF Messages, Publishes
    <3>2. CASE ~(link = "up" /\ sock \notin writes)
      BY <1>26, <3>2 DEF ContinueWrite
    <3> QED
      BY <3>1, <3>2
  <2>2. partial' = 0 /\ garbled' \in BOOLEAN /\ link' \in {"up", "broken"} /\ requests' = requests
    BY <1>26 DEF ContinueWrite
  <2>3. UNCHANGED <<agentVars, queue, idVars, attemptVars, threadVars, sock, open, writes, faults>>
    BY <1>26 DEF ContinueWrite
  <2>4. CommandShape'
    BY <2>3, ShapeUnchanged DEF agentVars
  <2> QED
    BY <1>26, <2>1, <2>2, <2>3, <2>4, ShapeUnchanged, ConstantsTyped DEF ContinueWrite
<1>27. CASE HandleUnknown
  BY <1>27, ShapeUnchanged, ConstantsTyped DEF HandleUnknown, Nothing, Results
<1>28. CASE HandleError
  <2>1. CASE ~connected
    <3>1. Closed /\ got' = Nothing
          /\ UNCHANGED <<agentVars, queue, idVars, callback, faults, age>>
      BY <1>28, <2>1, CloseOnlyTyped DEF HandleError
    <3> QED
      BY <3>1, ShapeUnchanged, ConstantsTyped DEF Nothing, Results, Closed
  <2>2. CASE connected
    <3>1. [got EXCEPT !.kind = "lost"] \in Results
      BY DEF Results
    <3>2. got' = [got EXCEPT !.kind = "lost"]
          /\ UNCHANGED <<agentVars, queue, idVars, attemptVars, callback, socketVars,
                         link, inbox, brokerVars, faults>>
      BY <1>28, <2>2 DEF HandleError
    <3> QED
      BY <3>1, <3>2, ShapeUnchanged
  <2> QED
    BY <1>28, <2>1, <2>2 DEF HandleError, Nothing, Results
<1>29. CASE AddDisconnect
  <2>1. queue' \in Seq(Commands) /\ CommandShape'
    <3>1. queue' = AddHead(DisconnectInternal, queue) \/ queue' = queue
      BY <1>29 DEF AddDisconnect
    <3> QED
      BY <1>29, <3>1, HeadShifted, ShapeShifted, ShapeUnchanged DEF Heads, AddDisconnect
  <2> QED
    BY <1>29, <2>1, ConstantsTyped DEF AddDisconnect, Nothing, Results
<1>30. CASE HandleConnack
  <2>1. connected' \in BOOLEAN /\ sock # 0
    BY <1>30 DEF HandleConnack
  <2> QED
    BY <1>30, <2>1, ShapeEmpty, ConstantsTyped DEF HandleConnack, CleanSession, Nothing, Results
<1>31. CASE HandleRefusal
  <2>1. /\ Closed /\ age' = 0
        /\ queue' \in Seq(Commands) /\ (sent' = sent => CommandShape')
        /\ responses' \subseteq Commands /\ outbound' \subseteq Commands
        /\ msgID' \in 0..MaxId
    BY <1>31, ConnectFailsTyped DEF HandleRefusal
  <2> QED
    BY <1>31, <2>1, ConstantsTyped DEF HandleRefusal, Nothing, Results, Closed
<1>32. CASE HandleSuback
  BY <1>32, ShapeUnchanged, ConstantsTyped, WithoutIsSubset DEF HandleSuback, Nothing, Results
<1>33. CASE OnConnect
  <2>1. msgID' \in 0..MaxId /\ callback \in {1, 2, 3} /\ callback' \in 0..3
    BY <1>33, NextIdIsFree DEF OnConnect
  <2>2. queue' \in Seq(Commands) /\ CommandShape'
    <3> DEFINE type == <<"identity", "identify", "agent">>[callback]
               c == Command(type, NextId, 0)
    <3>1. type \in {"identity", "identify", "agent"}
      BY <2>1
    <3>2. queue' = Append(queue, c) \/ queue' = queue
      BY <1>33 DEF OnConnect
    <3> HIDE DEF type
    <3>3. c \in Commands /\ c.type \in {"identity", "identify", "agent"}
      BY <3>1, ConstantsTyped, NextIdIsFree DEF Command, Commands, Types, Messages, Publishes, Subscribes
    <3>4. sent' = sent /\ sent \in Nat
      BY <1>33, ConstantsTyped DEF OnConnect
    <3> HIDE DEF c
    <3> QED
      BY <3>2, <3>3, <3>4, ShapeAppended, ShapeUnchanged
  <2>3. connected' = connected
    BY <1>33 DEF OnConnect
  <2> QED
    BY <1>33, <2>1, <2>2, <2>3 DEF OnConnect
<1>34. CASE Break
  <2>1. inbox' \in Seq(Packets)
    BY <1>34, EmptySeq DEF Break
  <2> QED
    BY <1>34, <2>1, ShapeUnchanged, ConstantsTyped DEF Break, Fault
<1>35. CASE Request
  <2>1. inbox' \in Seq(Packets)
    <3>1. [kind |-> "request", token |-> 0] \in Packets /\ inbox \in Seq(Packets)
      BY ConstantsTyped DEF Packets
    <3> QED
      BY <1>35, <3>1, Appended DEF Request
  <2> QED
    BY <1>35, <2>1, ShapeUnchanged, ConstantsTyped DEF Request
<1>36. CASE Tick
  BY <1>36, ShapeUnchanged, ConstantsTyped DEF Tick
<1>37. CASE UNCHANGED vars
  BY <1>37, ShapeUnchanged DEF vars
<1> QED
  BY <1>1, <1>2, <1>3, <1>4, <1>5, <1>6, <1>7, <1>8, <1>9, <1>10, <1>11, <1>12, <1>13, <1>14, <1>15, <1>16, <1>17, <1>18, <1>19, <1>20, <1>21, <1>22, <1>23, <1>24, <1>25, <1>26, <1>27, <1>28, <1>29, <1>30, <1>31, <1>32, <1>33, <1>34, <1>35, <1>36, <1>37
     DEF Next, Connector, SendThread, ReceiveThread, Receive, Handle, Network

LEMMA TypeInit == Init => TypeInv
<1> SUFFICES ASSUME Init PROVE TypeInv
  OBVIOUS
<1>1. /\ queue \in Seq(Commands) /\ inbox \in Seq(Packets) /\ seen \in Seq(Messages)
      /\ arrived \in Seq(1..MaxMessages)
  BY EmptySeq DEF Init
<1>2. connected \in BOOLEAN /\ ping \in BOOLEAN /\ garbled \in BOOLEAN /\ ~connected
  BY DEF Init
<1>3. got \in Results
  BY ConstantsTyped DEF Init, Nothing, Results
<1>4. CommandShape
  BY DEF Init, CommandShape
<1>5. TypeOK
  BY <1>1, <1>2, <1>3, ConstantsTyped DEF Init, TypeOK
<1>6. Shape
  BY <1>2, <1>4 DEF Init, Shape, Senders
<1> QED
  BY <1>5, <1>6 DEF TypeInv

(* Every variable of the client, the broker and the network keeps the      *)
(* values it may have, whatever the order in which the connector's callers *)
(* and the library's two threads take their steps.                         *)
THEOREM TypeCorrect == Spec => []TypeOK
<1>1. Spec => []TypeInv
  BY TypeInit, TypeStep, PTL DEF Spec
<1>2. TypeInv => TypeOK
  BY DEF TypeInv
<1> QED
  BY <1>1, <1>2, PTL

(***************************************************************************)
(* What a step does to the queue, and to the order of the messages         *)
(***************************************************************************)

(* What others than the senders add at the end. *)
Added == {c \in Commands : c.type \in {"bye", "agent", "identify", "identity"}}
Byes == {c \in Commands : c.type = "bye"}

LEMMA ShiftedSame ==
    /\ queue' = queue => Shifted(queue')
    /\ queue' = <<>> => Shifted(queue')
<1>1. ASSUME queue' = queue PROVE Shifted(queue')
  <2>1. \A i \in 1..Len(queue) : i + 0 = i
    BY LenProperties
  <2> QED
    BY <1>1, <2>1 DEF Shifted
<1>2. ASSUME queue' = <<>> PROVE Shifted(queue')
  <2>1. 1..Len(queue') = {}
    BY <1>2
  <2> QED
    BY <2>1 DEF Shifted
<1> QED
  BY <1>1, <1>2

(* All but the three actions that move messages. *)
Moves ==
    /\ \/ Shifted(queue')
       \/ \E c \in Added : /\ queue' = Append(queue, c)
                           /\ c \in Byes => agent' = "stopped"
    /\ partial' \in {0, partial} /\ arrived' = arrived /\ sent' = sent

LEMMA ConnectFailsMoves ==
    ASSUME TypeInv, ConnectFails
    PROVE  Shifted(queue') /\ partial' = 0 /\ arrived' = arrived
<1>1. partial' = 0 /\ arrived' = arrived
  BY DEF ConnectFails, CloseOnly, CloseSocket
<1>2. CASE version = 4
  BY <1>1, <1>2, HeadShifted DEF ConnectFails, Heads, TypeInv, TypeOK
<1>3. CASE version # 4
  BY <1>1, <1>3, ShiftedSame DEF ConnectFails, CleanSession
<1> QED
  BY <1>1, <1>2, <1>3

LEMMA StepMoves ==
    ASSUME TypeInv, [Next]_vars
    PROVE  \/ Moves \/ Write \/ ContinueWrite
           \/ \E s \in Senders : AddMessage(s)
<1> DEFINE Goal == \/ Moves \/ Write \/ ContinueWrite
                   \/ \E s \in Senders : AddMessage(s)
<1> SUFFICES Goal
  OBVIOUS
<1> USE DEF TypeInv, TypeOK, Moves, agentVars, idVars, attemptVars, threadVars,
            socketVars, brokerVars
<1>1. CASE Start
  BY <1>1, HeadShifted DEF Start, Heads
<1>2. CASE Offer
  BY <1>2, ShiftedSame DEF Offer
<1>3. CASE Heartbeat
  BY <1>3, ShiftedSame DEF Heartbeat
<1>4. CASE Connect
  BY <1>4, HeadShifted DEF Connect, Heads
<1>5. ASSUME NEW s \in Senders, GiveUp(s) PROVE Goal
  BY <1>5, ShiftedSame DEF GiveUp
<1>6. ASSUME NEW s \in Senders, AssignId(s) PROVE Goal
  BY <1>6, ShiftedSame DEF AssignId
<1>7. ASSUME NEW s \in Senders, AddMessage(s) PROVE Goal
  BY <1>7 DEF AddMessage
<1>8. CASE BeginStop
  BY <1>8, ShiftedSame DEF BeginStop
<1>9. CASE StopConnector
  BY <1>9, ShiftedSame DEF StopConnector
<1>10. CASE Disconnect
  <2>1. Command("bye", 0, 0) \in Added
    BY ConstantsTyped DEF Added, Command, Commands, Types, Messages, Publishes
  <2> QED
    BY <1>10, <2>1, ShiftedSame DEF Disconnect, LookAgain, AddBye
<1>11. CASE IgnoreConnect
  BY <1>11, TailShifted DEF IgnoreConnect, Ready
<1>12. CASE OpenSocket
  BY <1>12, TailShifted DEF OpenSocket, Ready
<1>13. CASE OpenSocketFails
  BY <1>13, TailShifted, HeadTailShifted DEF OpenSocketFails, Ready, Heads
<1>14. CASE ProcessDisconnect
  BY <1>14, TailShifted, ShiftedSame DEF ProcessDisconnect, Ready, CleanSession, CloseOnly, CloseSocket
<1>15. CASE Write
  BY <1>15 DEF Write
<1>16. CASE WriteFails
  BY <1>16, HeadTailShifted DEF WriteFails, Ready, Heads
<1>17. CASE CheckTimeouts
  BY <1>17, ConnectFailsMoves, ShiftedSame DEF CheckTimeouts
<1>18. CASE TcpDone
  BY <1>18, ConnectFailsMoves, ShiftedSame DEF TcpDone
<1>19. CASE ReceiveAnswer
  BY <1>19, ShiftedSame DEF ReceiveAnswer
<1>20. CASE ReceivePuback
  BY <1>20, ShiftedSame DEF ReceivePuback
<1>21. CASE ReceivePingresp
  BY <1>21, ShiftedSame DEF ReceivePingresp
<1>22. CASE ReceiveRequest
  <2>1. Command("identity", NextId, 0) \in Added /\ Command("identity", NextId, 0) \notin Byes
    BY NextIdIsFree, ConstantsTyped DEF Added, Byes, Command, Commands, Types, Messages, Publishes
  <2> QED
    BY <1>22, <2>1, ShiftedSame DEF ReceiveRequest
<1>23. CASE TcpFails
  BY <1>23, ConnectFailsMoves, ShiftedSame DEF TcpFails
<1>24. CASE ReadError
  BY <1>24, ConnectFailsMoves, ShiftedSame DEF ReadError
<1>25. CASE Keepalive
  BY <1>25, HeadShifted, ShiftedSame DEF Keepalive, Heads
<1>26. CASE ContinueWrite
  BY <1>26 DEF ContinueWrite
<1>27. CASE HandleUnknown
  BY <1>27, ShiftedSame DEF HandleUnknown
<1>28. CASE HandleError
  BY <1>28, ShiftedSame DEF HandleError, CloseOnly, CloseSocket
<1>29. CASE AddDisconnect
  BY <1>29, HeadShifted, ShiftedSame DEF AddDisconnect, Heads
<1>30. CASE HandleConnack
  BY <1>30, ShiftedSame DEF HandleConnack, CleanSession
<1>31. CASE HandleRefusal
  BY <1>31, ConnectFailsMoves, ShiftedSame DEF HandleRefusal
<1>32. CASE HandleSuback
  BY <1>32, ShiftedSame DEF HandleSuback
<1>33. CASE OnConnect
  <2> DEFINE type == <<"identity", "identify", "agent">>[callback]
  <2>1. callback \in 1..3
    BY <1>33, ConstantsTyped DEF OnConnect
  <2>2. \A t \in {"identity", "identify", "agent"} :
            Command(t, NextId, 0) \in Added /\ Command(t, NextId, 0) \notin Byes
    BY NextIdIsFree, ConstantsTyped
    DEF Added, Byes, Command, Commands, Types, Messages, Publishes, Subscribes
  <2> QED
    BY <1>33, <2>1, <2>2, ShiftedSame DEF OnConnect
<1>34. CASE Break
  BY <1>34, ShiftedSame DEF Break
<1>35. CASE Request
  BY <1>35, ShiftedSame DEF Request
<1>36. CASE Tick
  BY <1>36, ShiftedSame DEF Tick
<1>37. CASE UNCHANGED vars
  BY <1>37, ShiftedSame DEF vars
<1> QED
  BY <1>1, <1>2, <1>3, <1>4, <1>5, <1>6, <1>7, <1>8, <1>9, <1>10, <1>11, <1>12, <1>13, <1>14, <1>15, <1>16, <1>17, <1>18, <1>19, <1>20, <1>21, <1>22, <1>23, <1>24, <1>25, <1>26, <1>27, <1>28, <1>29, <1>30, <1>31, <1>32, <1>33, <1>34, <1>35, <1>36, <1>37
     DEF Next, Connector, SendThread, ReceiveThread, Receive, Handle, Network

(***************************************************************************)
(* Messages go into the queue, into a socket and to the broker in order:   *)
(* what is queued is later than what is written in part, and that is later *)
(* than all that has arrived.                                              *)
(***************************************************************************)
IsData(i) == queue[i].type = "data"

Later ==
    /\ \A i, j \in 1..Len(queue) :
          i < j /\ IsData(i) /\ IsData(j) => queue[i].arg < queue[j].arg
    /\ \A i \in 1..Len(queue) : IsData(i) =>
          /\ partial < queue[i].arg
          /\ \A k \in 1..Len(arrived) : arrived[k] < queue[i].arg

OrderInv ==
    /\ Later
    /\ partial # 0 => \A k \in 1..Len(arrived) : arrived[k] < partial
    /\ partial <= sent
    /\ \A k \in 1..Len(arrived) : arrived[k] <= sent
    /\ InOrder

(* Where a queue that moved has its messages from. *)
LEMMA MovedFrom ==
    ASSUME TypeInv, Moves, queue' \in Seq(Commands)
    PROVE  \E k \in {-1, 0, 1} : \A i \in 1..Len(queue') :
               IsData(i)' => i + k \in 1..Len(queue) /\ queue'[i] = queue[i + k]
<1>1. CASE Shifted(queue')
  BY <1>1, HeadsTyped DEF Shifted, IsData
<1>2. ASSUME NEW c \in Added, queue' = Append(queue, c)
      PROVE  \A i \in 1..Len(queue') :
                 IsData(i)' => i + 0 \in 1..Len(queue) /\ queue'[i] = queue[i + 0]
  <2>1. c \in Commands /\ c.type # "data"
    BY DEF Added
  <2>2. /\ Len(queue) \in Nat /\ Len(queue') = Len(queue) + 1
        /\ \A i \in 1..Len(queue) : queue'[i] = queue[i]
        /\ queue'[Len(queue) + 1] = c
    BY <1>2, <2>1, Appended, LenProperties DEF TypeInv, TypeOK
  <2> QED
    BY <2>1, <2>2 DEF IsData
<1>3. CASE \E c \in Added : queue' = Append(queue, c)
  BY <1>2, <1>3
<1>4. Shifted(queue') \/ \E c \in Added : queue' = Append(queue, c)
  BY Zenon DEF Moves
<1> QED
  BY <1>1, <1>3, <1>4

LEMMA MovesKeepOrder ==
    ASSUME TypeInv, OrderInv, Moves, queue' \in Seq(Commands)
    PROVE  OrderInv'
<1>1. PICK k \in {-1, 0, 1} : \A i \in 1..Len(queue') :
         IsData(i)' => i + k \in 1..Len(queue) /\ queue'[i] = queue[i + k]
  BY MovedFrom
<1>2. /\ partial' \in {0, partial} /\ arrived' = arrived /\ sent' = sent
      /\ partial \in Nat /\ sent \in Nat
      /\ arrived \in Seq(1..MaxMessages) /\ Len(queue) \in Nat /\ Len(queue') \in Nat
  BY ConstantsTyped, LenProperties DEF Moves, TypeInv, TypeOK
<1>3. \A i \in 1..Len(queue) : IsData(i) => queue[i].arg \in 1..sent
  BY DEF TypeInv, Shape, CommandShape, IsData
<1>4. \A i \in 1..Len(queue') : IsData(i)' =>
         i + k \in 1..Len(queue) /\ IsData(i + k) /\ queue'[i].arg = queue[i + k].arg
  BY <1>1 DEF IsData
<1>5. ASSUME NEW i \in 1..Len(queue'), NEW j \in 1..Len(queue'), i < j, IsData(i)', IsData(j)'
      PROVE  queue'[i].arg < queue'[j].arg
  <2>1. i + k < j + k
    BY <1>2, <1>5
  <2> QED
    BY <1>4, <1>5, <2>1 DEF OrderInv, Later
<1>6. ASSUME NEW i \in 1..Len(queue'), IsData(i)'
      PROVE  /\ partial' < queue'[i].arg
             /\ \A n \in 1..Len(arrived) : arrived[n] < queue'[i].arg
  BY <1>2, <1>3, <1>4, <1>6 DEF OrderInv, Later
<1>7. Later'
  BY <1>2, <1>5, <1>6 DEF Later
<1> QED
  BY <1>2, <1>7 DEF OrderInv, InOrder

(* The queue, without its first command. *)
LEMMA FirstIsLeast ==
    ASSUME TypeInv, OrderInv, queue # <<>>, queue' = Tail(queue)
    PROVE  /\ \A i, j \in 1..Len(queue') :
                 i < j /\ IsData(i)' /\ IsData(j)' => queue'[i].arg < queue'[j].arg
           /\ \A i \in 1..Len(queue') : IsData(i)' =>
                 /\ partial < queue'[i].arg
                 /\ \A n \in 1..Len(arrived) : arrived[n] < queue'[i].arg
                 /\ First.type = "data" => First.arg < queue'[i].arg
           /\ First.type = "data" =>
                 /\ First.arg \in 1..sent
                 /\ partial < First.arg
                 /\ \A n \in 1..Len(arrived) : arrived[n] < First.arg
<1>1. /\ Len(queue) \in Nat /\ Len(queue) > 0 /\ Len(queue') = Len(queue) - 1
      /\ \A i \in 1..Len(queue') : queue'[i] = queue[i + 1]
  BY Popped DEF TypeInv, TypeOK
<1>2. \A i \in 1..Len(queue') : i + 1 \in 1..Len(queue) /\ (IsData(i)' <=> IsData(i + 1))
  BY <1>1 DEF IsData
<1>3. ASSUME NEW i \in 1..Len(queue'), NEW j \in 1..Len(queue'), i < j, IsData(i)', IsData(j)'
      PROVE  queue'[i].arg < queue'[j].arg
  <2>1. i + 1 < j + 1
    BY <1>1, <1>3
  <2> QED
    BY <1>1, <1>2, <1>3, <2>1 DEF OrderInv, Later
<1>4. ASSUME NEW i \in 1..Len(queue'), IsData(i)'
      PROVE  /\ partial < queue'[i].arg
             /\ \A n \in 1..Len(arrived) : arrived[n] < queue'[i].arg
             /\ First.type = "data" => First.arg < queue'[i].arg
  <2>1. 1 \in 1..Len(queue) /\ 1 < i + 1
    BY <1>1
  <2> QED
    BY <1>1, <1>2, <1>4, <2>1 DEF OrderInv, Later, First, IsData
<1>5. 1 \in 1..Len(queue)
  BY <1>1
<1> QED
  BY <1>3, <1>4, <1>5, FirstTyped DEF OrderInv, Later, First, IsData

LEMMA OrderStep == TypeInv /\ OrderInv /\ [Next]_vars => OrderInv'
<1> SUFFICES ASSUME TypeInv, OrderInv, [Next]_vars PROVE OrderInv'
  OBVIOUS
<1>0. TypeInv'
  BY TypeStep
<1>t. /\ partial \in Nat /\ sent \in Nat /\ Len(queue) \in Nat /\ Len(arrived) \in Nat
      /\ arrived \in Seq(1..MaxMessages) /\ queue \in Seq(Commands)
      /\ queue' \in Seq(Commands) /\ Len(queue') \in Nat
  BY <1>0, ConstantsTyped, LenProperties DEF TypeInv, TypeOK
<1>1. CASE Moves
  BY <1>1, <1>t, MovesKeepOrder
<1>2. ASSUME NEW s \in Senders, AddMessage(s) PROVE OrderInv'
  <2> DEFINE c == IF s = "publisher" THEN Command("data", token[s], sent')
                  ELSE Command("will", token[s], 0)
  <2>1. /\ queue' = Append(queue, c) /\ UNCHANGED <<partial, arrived>>
        /\ sent' = IF s = "publisher" THEN sent + 1 ELSE sent
    BY <1>2 DEF AddMessage, socketVars, brokerVars
  <2>2. c \in Commands /\ (c.type = "data" => c.arg = sent + 1 /\ sent' = sent + 1)
    BY <2>1, <1>t, ConstantsTyped
    DEF Command, Commands, Types, Messages, Publishes, TypeInv, TypeOK
  <2> HIDE DEF c
  <2>3. /\ Len(queue') = Len(queue) + 1
        /\ \A i \in 1..Len(queue) : queue'[i] = queue[i]
        /\ queue'[Len(queue) + 1] = c
    BY <1>t, <2>1, <2>2, Appended
  <2>4. \A i \in 1..Len(queue) : IsData(i) => queue[i].arg \in 1..sent
    BY DEF TypeInv, Shape, CommandShape, IsData
  <2>5. ASSUME NEW i \in 1..Len(queue'), IsData(i)'
        PROVE  \/ i \in 1..Len(queue) /\ IsData(i) /\ queue'[i].arg = queue[i].arg
               \/ i = Len(queue) + 1 /\ queue'[i].arg = sent + 1
    BY <1>t, <2>2, <2>3, <2>5 DEF IsData
  <2>6. Later'
    <3>1. ASSUME NEW i \in 1..Len(queue'), NEW j \in 1..Len(queue'), i < j, IsData(i)', IsData(j)'
          PROVE  queue'[i].arg < queue'[j].arg
      BY <1>t, <2>3, <2>4, <2>5, <3>1 DEF OrderInv, Later
    <3>2. ASSUME NEW i \in 1..Len(queue'), IsData(i)'
          PROVE  partial < queue'[i].arg /\ \A n \in 1..Len(arrived) : arrived[n] < queue'[i].arg
      <4>1. \A n \in 1..Len(arrived) : arrived[n] \in Nat
        BY <1>t, ElementOfSeq, ConstantsTyped
      <4>2. CASE i \in 1..Len(queue) /\ IsData(i) /\ queue'[i].arg = queue[i].arg
        BY <4>2 DEF OrderInv, Later
      <4>3. CASE queue'[i].arg = sent + 1
        BY <1>t, <4>1, <4>3 DEF OrderInv
      <4> QED
        BY <2>5, <3>2, <4>2, <4>3
    <3> QED
      BY <2>1, <3>1, <3>2 DEF Later
  <2>7. /\ partial' # 0 => \A k \in 1..Len(arrived') : arrived'[k] < partial'
        /\ InOrder'
    BY <2>1 DEF OrderInv, InOrder
  <2>8. partial' <= sent' /\ \A k \in 1..Len(arrived') : arrived'[k] <= sent'
    <3>1. \A k \in 1..Len(arrived) : arrived[k] \in Nat
      BY <1>t, ElementOfSeq, ConstantsTyped
    <3> QED
      BY <1>t, <2>1, <3>1 DEF OrderInv
  <2> QED
    BY <2>6, <2>7, <2>8 DEF OrderInv
<1>3. CASE Write
  <2>1. /\ queue # <<>> /\ queue' = Tail(queue) /\ sent' = sent
        /\ partial = 0
    BY <1>3 DEF Write, Ready, agentVars
  <2>2. \/ First.type = "data" /\ partial' = First.arg /\ arrived' = arrived
        \/ First.type = "data" /\ partial' = partial /\ arrived' = Append(arrived, First.arg)
        \/ partial' = partial /\ arrived' = arrived
    BY <1>3 DEF Write, Putdatas, Reaches, brokerVars
  <2>3. First.type = "data" => First.arg \in 1..MaxMessages
    BY <2>1, FirstIsLeast, ConstantsTyped DEF TypeInv, TypeOK
  <2>4. CASE First.type = "data" /\ partial' = First.arg /\ arrived' = arrived
    BY <1>t, <2>1, <2>4, FirstIsLeast DEF OrderInv, Later, InOrder
  <2>5. CASE First.type = "data" /\ partial' = partial /\ arrived' = Append(arrived, First.arg)
    <3>1. /\ Len(arrived') = Len(arrived) + 1
          /\ \A n \in 1..Len(arrived) : arrived'[n] = arrived[n]
          /\ arrived'[Len(arrived) + 1] = First.arg
      BY <1>t, <2>3, <2>5, Appended
    <3>2. \A n \in 1..Len(arrived') : n \in 1..Len(arrived) \/ n = Len(arrived) + 1
      BY <1>t, <3>1
    <3>3. InOrder'
      BY <1>t, <2>1, <2>5, <3>1, <3>2, FirstIsLeast DEF OrderInv, InOrder
    <3>4. Later'
      BY <1>t, <2>1, <2>5, <3>1, <3>2, FirstIsLeast DEF Later
    <3> QED
      BY <1>t, <2>1, <2>5, <3>1, <3>2, <3>3, <3>4, FirstIsLeast DEF OrderInv
  <2>6. CASE partial' = partial /\ arrived' = arrived
    BY <1>t, <2>1, <2>6, FirstIsLeast DEF OrderInv, Later, InOrder
  <2> QED
    BY <2>2, <2>4, <2>5, <2>6
<1>4. CASE ContinueWrite
  <2>1. /\ queue' = queue /\ sent' = sent /\ partial # 0 /\ partial' = 0
        /\ arrived' \in {arrived, Append(arrived, partial)}
    BY <1>4 DEF ContinueWrite, Reaches, agentVars
  <2>2. partial \in 1..MaxMessages
    BY <2>1, ConstantsTyped DEF TypeInv, TypeOK
  <2>3. CASE arrived' = arrived
    BY <1>t, <2>1, <2>3 DEF OrderInv, Later, InOrder, IsData, TypeInv, Shape, CommandShape
  <2>4. CASE arrived' = Append(arrived, partial)
    <3>1. /\ Len(arrived') = Len(arrived) + 1
          /\ \A n \in 1..Len(arrived) : arrived'[n] = arrived[n]
          /\ arrived'[Len(arrived) + 1] = partial
      BY <1>t, <2>2, <2>4, Appended
    <3>2. \A n \in 1..Len(arrived') : n \in 1..Len(arrived) \/ n = Len(arrived) + 1
      BY <1>t, <3>1
    <3>3. InOrder'
      BY <1>t, <2>1, <3>1, <3>2 DEF OrderInv, InOrder
    <3>4. Later'
      BY <1>t, <2>1, <3>1, <3>2 DEF OrderInv, Later, IsData, TypeInv, Shape, CommandShape
    <3> QED
      BY <1>t, <2>1, <3>1, <3>2, <3>3, <3>4 DEF OrderInv
  <2> QED
    BY <2>1, <2>3, <2>4
<1> QED
  BY <1>1, <1>2, <1>3, <1>4, StepMoves

LEMMA OrderInit == Init => OrderInv
<1> SUFFICES ASSUME Init PROVE OrderInv
  OBVIOUS
<1>1. 1..Len(queue) = {} /\ 1..Len(arrived) = {} /\ partial = 0 /\ sent = 0
  BY DEF Init
<1> QED
  BY <1>1 DEF OrderInv, Later, InOrder

(* Messages reach the broker in the order they were offered, and once: the *)
(* client never sends a message again and never overtakes one, over any    *)
(* number of sessions, of attempts and of writes that went on in parts.    *)
THEOREM MessagesInOrder == Spec => []InOrder
<1>1. Init => TypeInv /\ OrderInv
  BY TypeInit, OrderInit
<1>2. TypeInv /\ OrderInv /\ [Next]_vars => (TypeInv /\ OrderInv)'
  BY TypeStep, OrderStep
<1>3. TypeInv /\ OrderInv => InOrder
  BY DEF OrderInv
<1> QED
  BY <1>1, <1>2, <1>3, PTL DEF Spec

(***************************************************************************)
(* Between two sessions nothing is left of the one before; the answer to a *)
(* CONNECT comes before all else, and only then.                           *)
(***************************************************************************)
Welcomes == {"connack", "refused"}

SessionInv ==
    /\ connected =>
          /\ state = "none"
          /\ \A i \in 1..Len(inbox) : inbox[i].kind \notin Welcomes
    /\ ~connected =>
          /\ seen = <<>> /\ responses = {} /\ outbound = {}
          /\ partial = 0 /\ callback = 0
          /\ Len(inbox) <= 1
          /\ \A i \in 1..Len(inbox) : inbox[i].kind \in Welcomes
    /\ got.kind \in Welcomes => ~connected /\ inbox = <<>>
    /\ callback # 0 => got = Nothing

ClosedSession ==
    /\ ~connected' /\ seen' = <<>> /\ responses' = {} /\ outbound' = {}
    /\ partial' = 0 /\ inbox' = <<>>

LEMMA CloseOnlySession ==
    ASSUME SessionInv, NEW by, CloseOnly(by)
    PROVE  /\ ~connected' /\ seen' = <<>> /\ partial' = 0 /\ inbox' = <<>>
           /\ ~connected /\ UNCHANGED idVars => ClosedSession
BY DEF CloseOnly, CloseSocket, ClosedSession, idVars, SessionInv

LEMMA FailedSession ==
    ASSUME SessionInv, ConnectFails, state # "none" \/ ~connected
    PROVE  ClosedSession
BY CloseOnlySession DEF ConnectFails, CleanSession, ClosedSession, SessionInv

LEMMA ClosedIsSession ==
    ASSUME SessionInv, ClosedSession, callback = 0, callback' = callback,
           got' = got \/ got' = Nothing \/ got'.kind = "error"
    PROVE  SessionInv'
<1>1. Len(inbox') = 0 /\ 1..Len(inbox') = {}
  BY DEF ClosedSession
<1>2. Nothing.kind \notin Welcomes
  BY DEF Nothing, Welcomes
<1>3. "error" \notin Welcomes
  BY DEF Welcomes
<1> QED
  BY <1>1, <1>2, <1>3 DEF ClosedSession, SessionInv

LEMMA PacketTaken ==
    ASSUME TypeInv, SessionInv, inbox # <<>>, inbox' = Tail(inbox)
    PROVE  /\ ~connected => inbox' = <<>> /\ inbox[1].kind \in Welcomes
           /\ connected => /\ inbox[1].kind \notin Welcomes
                           /\ \A i \in 1..Len(inbox') : inbox'[i].kind \notin Welcomes
<1>1. /\ Len(inbox) \in Nat /\ Len(inbox) > 0 /\ Len(inbox') = Len(inbox) - 1
      /\ \A i \in 1..Len(inbox') : inbox'[i] = inbox[i + 1]
      /\ inbox' \in Seq(Packets)
  BY Popped DEF TypeInv, TypeOK
<1>2. 1 \in 1..Len(inbox) /\ \A i \in 1..Len(inbox') : i + 1 \in 1..Len(inbox)
  BY <1>1
<1>3. ~connected => Len(inbox') = 0
  BY <1>1 DEF SessionInv
<1>4. ~connected => inbox' = <<>>
  BY <1>1, <1>3, EmptySeq
<1> QED
  BY <1>1, <1>2, <1>4 DEF SessionInv

LEMMA PacketArrives ==
    ASSUME TypeInv, SessionInv, connected,
           \/ inbox' = inbox
           \/ \E p \in [kind : {"suback", "puback", "pingresp", "request"}, token : 0..MaxId] :
                 inbox' = Append(inbox, p)
    PROVE  \A i \in 1..Len(inbox') : inbox'[i].kind \notin Welcomes
<1>1. ASSUME NEW p \in [kind : {"suback", "puback", "pingresp", "request"}, token : 0..MaxId],
             inbox' = Append(inbox, p)
      PROVE  \A i \in 1..Len(inbox') : inbox'[i].kind \notin Welcomes
  <2>1. p \in Packets /\ inbox \in Seq(Packets) /\ p.kind \notin Welcomes
    BY DEF Packets, Welcomes, TypeInv, TypeOK
  <2>2. /\ Len(inbox) \in Nat /\ Len(inbox') = Len(inbox) + 1
        /\ \A i \in 1..Len(inbox) : inbox'[i] = inbox[i]
        /\ inbox'[Len(inbox) + 1] = p
    BY <1>1, <2>1, Appended, LenProperties
  <2>3. \A i \in 1..Len(inbox') : i \in 1..Len(inbox) \/ i = Len(inbox) + 1
    BY <2>2
  <2> QED
    BY <2>1, <2>2, <2>3 DEF SessionInv
<1> QED
  BY <1>1 DEF SessionInv

LEMMA AnswersArrive ==
    ASSUME TypeInv, SessionInv, connected,
           inbox' = inbox \/ \E c \in Commands : inbox' = Append(inbox, Answer(c))
    PROVE  \A i \in 1..Len(inbox') : inbox'[i].kind \notin Welcomes
<1>1. \A c \in Commands : Answer(c) \in [kind : {"suback", "puback", "pingresp", "request"},
                                         token : 0..MaxId]
  BY DEF Answer, Commands
<1> QED
  BY <1>1, PacketArrives

LEMMA SessionStep == TypeInv /\ SessionInv /\ [Next]_vars => SessionInv'
<1> SUFFICES ASSUME TypeInv, SessionInv, [Next]_vars PROVE SessionInv'
  OBVIOUS
<1> USE DEF TypeInv, TypeOK, SessionInv, Welcomes, MutexFree, agentVars, idVars,
            attemptVars, threadVars, socketVars, brokerVars
<1>1. CASE Start
  BY <1>1 DEF Start
<1>2. CASE Offer
  BY <1>2 DEF Offer
<1>3. CASE Heartbeat
  BY <1>3 DEF Heartbeat
<1>4. CASE Connect
  BY <1>4 DEF Connect
<1>5. ASSUME NEW s \in Senders, GiveUp(s) PROVE SessionInv'
  BY <1>5 DEF GiveUp
<1>6. ASSUME NEW s \in Senders, AssignId(s) PROVE SessionInv'
  BY <1>6 DEF AssignId
<1>7. ASSUME NEW s \in Senders, AddMessage(s) PROVE SessionInv'
  BY <1>7 DEF AddMessage
<1>8. CASE BeginStop
  BY <1>8 DEF BeginStop
<1>9. CASE StopConnector
  BY <1>9 DEF StopConnector
<1>10. CASE Disconnect
  BY <1>10 DEF Disconnect, LookAgain, AddBye
<1>11. CASE IgnoreConnect
  BY <1>11 DEF IgnoreConnect
<1>12. CASE OpenSocket
  BY <1>12 DEF OpenSocket
<1>13. CASE OpenSocketFails
  BY <1>13 DEF OpenSocketFails
<1>14. CASE ProcessDisconnect
  <2>1. CASE state # "none" \/ connected
    <3>1. ClosedSession /\ callback = 0 /\ UNCHANGED threadVars
      BY <1>14, <2>1, CloseOnlySession DEF ProcessDisconnect, Ready, CleanSession, ClosedSession
    <3> QED
      BY <3>1, ClosedIsSession DEF threadVars
  <2>2. CASE ~(state # "none" \/ connected)
    BY <1>14, <2>2 DEF ProcessDisconnect
  <2> QED
    BY <1>14, <2>1, <2>2 DEF ProcessDisconnect
<1>15. CASE Write
  <2>1. connected
    BY <1>15 DEF Write, Ready, Messages
  <2>2. inbox' = inbox \/ inbox' = Append(inbox, Answer(First))
    BY <1>15 DEF Write, Putdatas, Reaches
  <2>3. \A i \in 1..Len(inbox') : inbox'[i].kind \notin Welcomes
    BY <1>15, <2>1, <2>2, AnswersArrive, FirstTyped DEF Write, Ready
  <2> QED
    BY <1>15, <2>1, <2>2, <2>3 DEF Write, Messages, Putdatas, Reaches
<1>16. CASE WriteFails
  <2>1. connected
    BY <1>16 DEF WriteFails, Ready, Messages
  <2> QED
    BY <1>16, <2>1 DEF WriteFails
<1>17. CASE CheckTimeouts
  <2>1. ConnectFails /\ (state # "none" \/ ~connected) /\ callback = 0 /\ UNCHANGED threadVars
    BY <1>17 DEF CheckTimeouts, Reading
  <2>2. ClosedSession
    BY <2>1, FailedSession
  <2> QED
    BY <1>17, <2>1, <2>2, ClosedIsSession DEF CheckTimeouts
<1>18. CASE TcpDone
  <2>1. CASE version = 0
    <3>1. ClosedSession /\ callback = 0 /\ callback' = callback /\ got'.kind = "error" /\ got = Nothing
      BY <1>18, <2>1, FailedSession DEF TcpDone, Nothing, Reading
    <3> QED
      BY <3>1, ClosedIsSession
  <2>2. CASE version # 0
    <3>1. /\ seen' = <<>> /\ ~connected
          /\ inbox' \in {<<>>, <<[kind |-> "connack", token |-> 0]>>,
                        <<[kind |-> "refused", token |-> 0]>>}
          /\ UNCHANGED <<connected, responses, outbound, partial, got, callback>>
          /\ got = Nothing
      BY <1>18, <2>2 DEF TcpDone, SendConnect, Reading
    <3>2. CASE inbox' = <<>>
      <4>1. Len(inbox') = 0 /\ 1..Len(inbox') = {}
        BY <3>2
      <4> QED
        BY <3>1, <4>1 DEF Nothing
    <3>3. ASSUME NEW p \in [kind : Welcomes, token : {0}], inbox' = <<p>> PROVE SessionInv'
      <4>1. Len(inbox') = 1 /\ inbox'[1] = p
        BY <3>3
      <4>2. \A i \in 1..Len(inbox') : inbox'[i].kind \in Welcomes
        BY <4>1
      <4> QED
        BY <3>1, <4>1, <4>2 DEF Nothing
    <3> QED
      BY <3>1, <3>2, <3>3
  <2> QED
    BY <1>18, <2>1, <2>2 DEF TcpDone
<1>19. CASE ReceiveAnswer
  <2>1. inbox # <<>> /\ inbox' = Tail(inbox) /\ callback = 0 /\ callback' = 0
    BY <1>19 DEF ReceiveAnswer, Arriving, Reading, MutexFree
  <2>2. got'.kind = inbox[1].kind
    BY <1>19 DEF ReceiveAnswer
  <2>3. ~connected => inbox' = <<>>
    BY <2>1, PacketTaken
  <2> QED
    BY <1>19, <2>1, <2>2, <2>3, PacketTaken DEF ReceiveAnswer
<1>20. CASE ReceivePuback
  <2>1. inbox # <<>> /\ inbox' = Tail(inbox) /\ inbox[1].kind \notin Welcomes
    BY <1>20 DEF ReceivePuback, Arriving, Welcomes
  <2>2. connected /\ callback = 0
    BY <1>20, <2>1, PacketTaken DEF ReceivePuback, Arriving, Reading, MutexFree
  <2> QED
    BY <1>20, <2>1, <2>2, PacketTaken DEF ReceivePuback, Reading, MutexFree, Nothing
<1>21. CASE ReceivePingresp
  <2>1. inbox # <<>> /\ inbox' = Tail(inbox) /\ inbox[1].kind \notin Welcomes
    BY <1>21 DEF ReceivePingresp, Arriving, Welcomes
  <2>2. connected /\ callback = 0
    BY <1>21, <2>1, PacketTaken DEF ReceivePingresp, Arriving, Reading, MutexFree
  <2> QED
    BY <1>21, <2>1, <2>2, PacketTaken DEF ReceivePingresp, Reading, MutexFree, Nothing
<1>22. CASE ReceiveRequest
  <2>1. inbox # <<>> /\ inbox' = Tail(inbox) /\ inbox[1].kind \notin Welcomes
    BY <1>22 DEF ReceiveRequest, Arriving, Welcomes
  <2>2. connected /\ callback = 0
    BY <1>22, <2>1, PacketTaken DEF ReceiveRequest, Arriving, Reading, MutexFree
  <2> QED
    BY <1>22, <2>1, <2>2, PacketTaken DEF ReceiveRequest, Reading, MutexFree, Nothing
<1>23. CASE TcpFails
  <2>1. ConnectFails /\ (state # "none" \/ ~connected) /\ callback = 0 /\ UNCHANGED threadVars
    BY <1>23 DEF TcpFails, Reading
  <2>2. ClosedSession
    BY <2>1, FailedSession
  <2> QED
    BY <1>23, <2>1, <2>2, ClosedIsSession DEF TcpFails
<1>24. CASE ReadError
  <2>1. CASE state = "connack"
    <3>1. ClosedSession /\ callback = 0 /\ callback' = callback /\ got'.kind = "error" /\ got = Nothing
      BY <1>24, <2>1, FailedSession DEF ReadError, Nothing, Reading
    <3> QED
      BY <3>1, ClosedIsSession
  <2>2. CASE state # "connack"
    <3>1. /\ got'.kind = "error" /\ callback = 0
          /\ UNCHANGED <<idVars, attemptVars, socketVars, inbox, brokerVars, callback>>
      BY <1>24, <2>2 DEF ReadError, Nothing, Reading, MutexFree
    <3> QED
      BY <3>1
  <2> QED
    BY <1>24, <2>1, <2>2 DEF ReadError
<1>25. CASE Keepalive
  <2>1. connected
    BY <1>25 DEF Keepalive
  <2>2. \A i \in 1..Len(inbox') : inbox'[i].kind \notin Welcomes
    BY <1>25, <2>1, PacketArrives DEF Keepalive
  <2> QED
    BY <1>25, <2>1, <2>2 DEF Keepalive, Reading
<1>26. CASE ContinueWrite
  <2>1. connected
    BY <1>26 DEF ContinueWrite, Shape
  <2>2. inbox' = inbox \/ \E c \in Commands : inbox' = Append(inbox, Answer(c))
    BY <1>26 DEF ContinueWrite, Reaches
  <2>3. \A i \in 1..Len(inbox') : inbox'[i].kind \notin Welcomes
    BY <1>26, <2>1, <2>2, AnswersArrive DEF ContinueWrite
  <2> QED
    BY <1>26, <2>1, <2>2, <2>3 DEF ContinueWrite
<1>27. CASE HandleUnknown
  BY <1>27 DEF HandleUnknown, Nothing
<1>28. CASE HandleError
  <2>1. CASE connected
    <3>1. /\ got' = [got EXCEPT !.kind = "lost"] /\ callback = 0
          /\ UNCHANGED <<idVars, attemptVars, socketVars, inbox, brokerVars, callback>>
      BY <1>28, <2>1 DEF HandleError, Handling, MutexFree
    <3>2. got'.kind = "lost"
      BY <3>1 DEF Results
    <3> QED
      BY <3>1, <3>2
  <2>2. CASE ~connected
    <3>1. ClosedSession /\ callback = 0 /\ callback' = callback /\ got' = Nothing
      BY <1>28, <2>2, CloseOnlySession DEF HandleError, ClosedSession
    <3> QED
      BY <3>1, ClosedIsSession
  <2> QED
    BY <1>28, <2>1, <2>2 DEF HandleError
<1>29. CASE AddDisconnect
  BY <1>29 DEF AddDisconnect, Nothing
<1>30. CASE HandleConnack
  <2>1. /\ ~connected /\ inbox = <<>> /\ inbox' = <<>> /\ connected' /\ state' = "none"
        /\ got' = Nothing
    BY <1>30 DEF HandleConnack, Handling, Welcomes
  <2>2. 1..Len(inbox') = {} /\ Nothing.kind \notin Welcomes
    BY <2>1 DEF Nothing
  <2> QED
    BY <1>30, <2>1, <2>2 DEF HandleConnack
<1>31. CASE HandleRefusal
  <2>1. ~connected
    BY <1>31 DEF HandleRefusal
  <2>2. ClosedSession /\ callback' = callback /\ callback = 0 /\ got' = Nothing
    BY <1>31, <2>1, FailedSession DEF HandleRefusal
  <2> QED
    BY <1>31, <2>1, <2>2, ClosedIsSession DEF HandleRefusal
<1>32. CASE HandleSuback
  <2>1. responses = {} => responses' = {}
    BY <1>32 DEF HandleSuback, Without
  <2>2. Nothing.kind \notin Welcomes
    BY DEF Nothing
  <2> QED
    BY <1>32, <2>1, <2>2 DEF HandleSuback
<1>33. CASE OnConnect
  BY <1>33 DEF OnConnect
<1>34. CASE Break
  <2>1. inbox' = inbox \/ inbox' = <<>>
    BY <1>34 DEF Break
  <2>2. Len(inbox') <= Len(inbox) /\ \A i \in 1..Len(inbox') : i \in 1..Len(inbox) /\ inbox'[i] = inbox[i]
    BY <2>1, LenProperties
  <2> QED
    BY <1>34, <2>1, <2>2 DEF Break
<1>35. CASE Request
  <2>1. connected
    <3>1. Len(<<>>) = 0
      OBVIOUS
    <3> QED
      BY <1>35, <3>1 DEF Request
  <2>2. \A i \in 1..Len(inbox') : inbox'[i].kind \notin Welcomes
    BY <1>35, <2>1, PacketArrives DEF Request
  <2> QED
    BY <1>35, <2>1, <2>2 DEF Request
<1>36. CASE Tick
  BY <1>36 DEF Tick
<1>37. CASE UNCHANGED vars
  BY <1>37 DEF vars
<1> QED
  BY <1>1, <1>2, <1>3, <1>4, <1>5, <1>6, <1>7, <1>8, <1>9, <1>10, <1>11, <1>12, <1>13, <1>14, <1>15, <1>16, <1>17, <1>18, <1>19, <1>20, <1>21, <1>22, <1>23, <1>24, <1>25, <1>26, <1>27, <1>28, <1>29, <1>30, <1>31, <1>32, <1>33, <1>34, <1>35, <1>36, <1>37
     DEF Next, Connector, SendThread, ReceiveThread, Receive, Handle, Network

LEMMA SessionInit == Init => SessionInv
<1> SUFFICES ASSUME Init PROVE SessionInv
  OBVIOUS
<1>1. ~connected /\ seen = <<>> /\ responses = {} /\ outbound = {} /\ partial = 0
      /\ callback = 0 /\ inbox = <<>> /\ got = Nothing
  BY DEF Init
<1>2. Len(inbox) = 0 /\ 1..Len(inbox) = {} /\ Nothing.kind \notin Welcomes
  BY <1>1 DEF Nothing, Welcomes
<1> QED
  BY <1>1, <1>2 DEF SessionInv

(***************************************************************************)
(* Who stops: where threads can be cancelled the publisher is gone before  *)
(* the connector stops.                                                    *)
(***************************************************************************)
callerVars == <<agent, at, token, sent>>

CallersInv ==
    /\ agent # "running" => at["publisher"] = "idle"
    /\ at["stopper"] # "idle" => agent = "stopping"
    /\ at["stopper"] \in {"idle", "checked"} /\ agent \in {"off", "running", "stopping"}
          => token["stopper"] = 0

ByesInv == \A i \in 1..Len(queue) : queue[i].type = "bye" => agent = "stopped"

StopInv == CallersInv /\ ByesInv

(* Only the connector's callers change how far they have come.             *)
LEMMA AgentMoves == ASSUME [Next]_vars PROVE Connector \/ UNCHANGED callerVars
<1> USE DEF agentVars, callerVars
<1>1. ASSUME SendThread PROVE UNCHANGED callerVars
  BY <1>1 DEF SendThread, IgnoreConnect, OpenSocket, OpenSocketFails,
     ProcessDisconnect, Write, WriteFails, CheckTimeouts
<1>2. ASSUME Receive \/ TcpFails \/ ReadError \/ Keepalive \/ ContinueWrite
      PROVE  UNCHANGED callerVars
  BY <1>2 DEF Receive, TcpDone, ReceiveAnswer, ReceivePuback, ReceivePingresp,
     ReceiveRequest, TcpFails, ReadError, Keepalive, ContinueWrite
<1>3. ASSUME Handle PROVE UNCHANGED callerVars
  BY <1>3 DEF Handle, HandleUnknown, HandleError, AddDisconnect, HandleConnack,
     HandleRefusal, HandleSuback, OnConnect
<1>4. ASSUME Network PROVE UNCHANGED callerVars
  BY <1>4 DEF Network, Break, Request, Tick
<1> QED
  BY <1>1, <1>2, <1>3, <1>4 DEF Next, ReceiveThread, vars

LEMMA StopStep == Posix /\ TypeInv /\ StopInv /\ [Next]_vars => StopInv'
<1> SUFFICES ASSUME Posix, TypeInv, StopInv, [Next]_vars PROVE StopInv'
  OBVIOUS
<1> USE DEF TypeInv, TypeOK, Shape, Senders
<1>t. /\ Len(queue) \in Nat /\ queue' \in Seq(Commands) /\ Len(queue') \in Nat
  BY TypeStep, LenProperties
<1>1. \A i \in 1..Len(queue') : queue'[i].type = "bye" => agent' = "stopped"
  <2>1. agent = "stopped" => agent' = "stopped"
    BY AgentMoves DEF StopInv, CallersInv, Connector, callerVars, Start, Offer, Heartbeat, Connect,
       GiveUp, AssignId, AddMessage, BeginStop, StopConnector, Disconnect, LookAgain, AddBye
  <2>2. CASE Shifted(queue')
    BY <2>1, <2>2, HeadsTyped DEF Shifted, StopInv, ByesInv
  <2>3. ASSUME NEW c \in Commands, queue' = Append(queue, c),
               c \in Byes => agent' = "stopped"
        PROVE  \A i \in 1..Len(queue') : queue'[i].type = "bye" => agent' = "stopped"
    <3>1. /\ Len(queue') = Len(queue) + 1 /\ queue'[Len(queue) + 1] = c
          /\ \A i \in 1..Len(queue) : queue'[i] = queue[i]
      BY <2>3, Appended
    <3>2. \A i \in 1..Len(queue') : i \in 1..Len(queue) \/ i = Len(queue) + 1
      BY <1>t, <3>1
    <3> QED
      BY <2>1, <2>3, <3>1, <3>2 DEF StopInv, ByesInv, Byes
  <2>4. CASE Moves
    <3>1. Added \subseteq Commands
      BY DEF Added
    <3>2. CASE Shifted(queue')
      BY <2>2, <3>2
    <3>3. ASSUME NEW c \in Added, queue' = Append(queue, c), c \in Byes => agent' = "stopped"
          PROVE  \A i \in 1..Len(queue') : queue'[i].type = "bye" => agent' = "stopped"
      BY <2>3, <3>1, <3>3
    <3> QED
      BY <2>4, <3>2, <3>3, Zenon DEF Moves
  <2>5. CASE Write
    BY <2>2, <2>5, TailShifted DEF Write, Ready
  <2>6. CASE ContinueWrite
    BY <2>2, <2>6, ShiftedSame DEF ContinueWrite
  <2>7. ASSUME NEW s \in Senders, AddMessage(s)
        PROVE  \E c \in Commands : queue' = Append(queue, c) /\ c \notin Byes
    <3> DEFINE c == IF s = "publisher" THEN Command("data", token[s], sent')
                    ELSE Command("will", token[s], 0)
    <3>1. queue' = Append(queue, c) /\ sent' \in Nat
      BY <2>7, ConstantsTyped DEF AddMessage
    <3>2. c \in Commands /\ c \notin Byes
      BY <3>1, ConstantsTyped DEF Byes, Command, Commands, Types, Messages, Publishes
    <3> QED
      BY <3>1, <3>2
  <2> QED
    BY <2>3, <2>4, <2>5, <2>6, <2>7, StepMoves
<1>0. CallersInv
  BY DEF StopInv
<1>2. ASSUME UNCHANGED callerVars PROVE CallersInv'
  BY <1>0, <1>2 DEF callerVars, CallersInv
<1>3. ASSUME Start PROVE CallersInv'
  BY <1>0, <1>3 DEF Start, CallersInv
<1>4. ASSUME Offer \/ Heartbeat PROVE CallersInv'
  BY <1>0, <1>4 DEF Offer, Heartbeat, MaySend, CallersInv
<1>5. ASSUME Connect PROVE CallersInv'
  BY <1>0, <1>5 DEF Connect, CallersInv
<1>6. ASSUME BeginStop PROVE CallersInv'
  BY <1>0, <1>6 DEF BeginStop, CallersInv
<1>7. ASSUME StopConnector PROVE CallersInv'
  BY <1>0, <1>7 DEF StopConnector, CallersInv
<1>8. ASSUME Disconnect PROVE CallersInv'
  BY <1>0, <1>8 DEF Disconnect, LookAgain, AddBye, CallersInv
<1>9. ASSUME NEW s \in Senders, GiveUp(s) PROVE CallersInv'
  BY <1>0, <1>9 DEF GiveUp, After, CallersInv
<1>10. ASSUME NEW s \in Senders, AssignId(s) PROVE CallersInv'
  BY <1>0, <1>10 DEF AssignId, After, CallersInv
<1>11. ASSUME NEW s \in Senders, AddMessage(s) PROVE CallersInv'
  BY <1>0, <1>11 DEF AddMessage, After, CallersInv
<1>12. CallersInv'
  BY <1>2, <1>3, <1>4, <1>5, <1>6, <1>7, <1>8, <1>9, <1>10, <1>11, AgentMoves
     DEF Connector
<1> QED
  BY <1>1, <1>12 DEF StopInv, ByesInv

(***************************************************************************)
(* A sender that has seen a connection and is not done is not overtaken by *)
(* another session: once the connection it saw is gone, nothing asks for a *)
(* new one.                                                                *)
(***************************************************************************)
Committed ==
    \/ at["publisher"] \in {"checked", "numbered"}
    \/ at["stopper"] # "idle" \/ token["stopper"] # 0 \/ agent = "stopped"

NoReturn ==
    Committed /\ ~connected =>
        /\ state = "none" /\ inbox = <<>>
        /\ got.kind \notin Welcomes
        /\ \A i \in 1..Len(queue) : queue[i].type # "connect"

LEMMA NewlyCommitted ==
    ASSUME Posix, TypeInv, StopInv, [Next]_vars, Committed'
    PROVE  /\ Committed \/ connected
           /\ ~Start /\ ~Connect
<1> USE DEF TypeInv, TypeOK, Shape, Senders, StopInv, CallersInv, Committed
<1>1. CASE UNCHANGED callerVars
  <2>1. ~Start
    BY <1>1 DEF callerVars, Start
  <2>2. ~Connect
    BY <1>1 DEF callerVars, Connect
  <2> QED
    BY <1>1, <2>1, <2>2 DEF callerVars
<1>2. CASE Connector
  BY <1>2 DEF Connector, Start, Offer, Heartbeat, Connect, BeginStop,
     StopConnector, Disconnect, LookAgain, AddBye, GiveUp, AssignId, AddMessage, After
<1> QED
  BY <1>1, <1>2, AgentMoves

(* What the queue becomes while nobody asks for a connection. *)
Calm == {c \in Commands : c.type # "connect"}

CalmQueue ==
    \/ queue' = queue \/ queue' = <<>>
    \/ queue # <<>> /\ queue' = Tail(queue)
    \/ queue' = AddHead(DisconnectInternal, queue)
    \/ \E c \in Calm : queue' = Append(queue, c)

LEMMA CalmStays ==
    ASSUME TypeInv, TypeInv', CalmQueue,
           \A i \in 1..Len(queue) : queue[i].type # "connect"
    PROVE  \A i \in 1..Len(queue') : queue'[i].type # "connect"
<1>t. queue \in Seq(Commands) /\ Len(queue) \in Nat
  BY LenProperties DEF TypeInv, TypeOK
<1>1. CASE queue' = queue \/ queue' = <<>>
  BY <1>1
<1>2. CASE queue # <<>> /\ queue' = Tail(queue)
  <2>1. /\ Len(queue') = Len(queue) - 1
        /\ \A i \in 1..Len(queue') : queue'[i] = queue[i + 1] /\ i + 1 \in 1..Len(queue)
    BY <1>t, <1>2, Popped
  <2> QED
    BY <2>1
<1>3. CASE queue' = AddHead(DisconnectInternal, queue)
  <2>1. CASE queue' = queue
    BY <2>1
  <2>2. CASE queue' = <<DisconnectInternal>> \o queue
    <3>1. DisconnectInternal \in Commands /\ DisconnectInternal.type # "connect"
      BY HeadsTyped DEF Heads, DisconnectInternal, Command
    <3>2. /\ Len(queue') = Len(queue) + 1 /\ queue'[1] = DisconnectInternal
          /\ \A i \in 2..(Len(queue) + 1) : queue'[i] = queue[i - 1]
      BY <1>t, <2>2, <3>1, Pushed
    <3>3. \A i \in 2..(Len(queue) + 1) : queue'[i].type # "connect"
      <4>1. \A i \in 2..(Len(queue) + 1) : i - 1 \in 1..Len(queue)
        BY <1>t
      <4> QED
        BY <3>2, <4>1
    <3>4. \A i \in 1..Len(queue') : i = 1 \/ i \in 2..(Len(queue) + 1)
      BY <1>t, <3>2
    <3> QED
      BY <3>1, <3>2, <3>3, <3>4
  <2> QED
    BY <1>3, <2>1, <2>2 DEF AddHead
<1>4. ASSUME NEW c \in Calm, queue' = Append(queue, c)
      PROVE  \A i \in 1..Len(queue') : queue'[i].type # "connect"
  <2>1. c \in Commands /\ c.type # "connect"
    BY DEF Calm
  <2>2. /\ Len(queue') = Len(queue) + 1 /\ queue'[Len(queue) + 1] = c
        /\ \A i \in 1..Len(queue) : queue'[i] = queue[i]
    BY <1>t, <1>4, <2>1, Appended
  <2>3. \A i \in 1..Len(queue') : i \in 1..Len(queue) \/ i = Len(queue) + 1
    BY <1>t, <2>2
  <2> QED
    BY <2>1, <2>2, <2>3
<1> QED
  BY <1>1, <1>2, <1>3, <1>4 DEF CalmQueue

LEMMA NobodyAsks ==
    ASSUME TypeInv, SessionInv, [Next]_vars, ~Start, ~Connect,
           ~connected, state = "none", inbox = <<>>, got.kind \notin Welcomes,
           \A i \in 1..Len(queue) : queue[i].type # "connect"
    PROVE  state' = "none" /\ inbox' = <<>> /\ got'.kind \notin Welcomes /\ CalmQueue
<1> DEFINE Goal == state' = "none" /\ inbox' = <<>> /\ got'.kind \notin Welcomes /\ CalmQueue
<1> SUFFICES Goal
  OBVIOUS
<1> USE DEF TypeInv, TypeOK, SessionInv, CalmQueue, Reading, MutexFree, agentVars, idVars,
            attemptVars, threadVars, socketVars, brokerVars
<1>1. CASE Start
  BY <1>1 DEF Start
<1>2. CASE Offer
  BY <1>2 DEF Offer
<1>3. CASE Heartbeat
  BY <1>3 DEF Heartbeat
<1>4. CASE Connect
  BY <1>4 DEF Connect
<1>5. ASSUME NEW s \in Senders, GiveUp(s) PROVE Goal
  BY <1>5 DEF GiveUp
<1>6. ASSUME NEW s \in Senders, AssignId(s) PROVE Goal
  BY <1>6 DEF AssignId
<1>7. ASSUME NEW s \in Senders, AddMessage(s) PROVE Goal
  <2>1. \E c \in Calm : queue' = Append(queue, c)
    <3> DEFINE c == IF s = "publisher" THEN Command("data", token[s], sent')
                    ELSE Command("will", token[s], 0)
    <3>1. queue' = Append(queue, c) /\ sent' \in Nat
      BY <1>7, ConstantsTyped DEF AddMessage
    <3>2. c \in Calm
      BY <3>1, ConstantsTyped DEF Calm, Command, Commands, Types, Messages, Publishes
    <3> QED
      BY <3>1, <3>2
  <2> QED
    BY <1>7, <2>1 DEF AddMessage
<1>8. CASE BeginStop
  BY <1>8 DEF BeginStop
<1>9. CASE StopConnector
  BY <1>9 DEF StopConnector
<1>10. CASE Disconnect
  <2>1. Command("bye", 0, 0) \in Calm
    BY ConstantsTyped DEF Calm, Command, Commands, Types
  <2>2. queue' = queue \/ queue' = Append(queue, Command("bye", 0, 0))
    BY <1>10 DEF Disconnect, LookAgain, AddBye
  <2> QED
    BY <1>10, <2>1, <2>2 DEF Disconnect, LookAgain, AddBye
<1>11. CASE IgnoreConnect
  <2>1. First.type # "connect"
    BY <1>11, LenProperties DEF IgnoreConnect, Ready, First
  <2> QED
    BY <1>11, <2>1 DEF IgnoreConnect
<1>12. CASE OpenSocket
  <2>1. First.type # "connect"
    BY <1>12, LenProperties DEF OpenSocket, Ready, First
  <2> QED
    BY <1>12, <2>1 DEF OpenSocket
<1>13. CASE OpenSocketFails
  <2>1. First.type # "connect"
    BY <1>13, LenProperties DEF OpenSocketFails, Ready, First
  <2> QED
    BY <1>13, <2>1 DEF OpenSocketFails
<1>14. CASE ProcessDisconnect
  BY <1>14 DEF ProcessDisconnect, Ready
<1>15. CASE Write
  BY <1>15 DEF Write, Ready, Messages
<1>16. CASE WriteFails
  BY <1>16 DEF WriteFails, Ready, Messages
<1>17. CASE CheckTimeouts
  BY <1>17 DEF CheckTimeouts, Welcomes
<1>18. CASE TcpDone
  BY <1>18 DEF TcpDone, Welcomes
<1>19. CASE ReceiveAnswer
  BY <1>19 DEF ReceiveAnswer, Arriving
<1>20. CASE ReceivePuback
  BY <1>20 DEF ReceivePuback, Arriving
<1>21. CASE ReceivePingresp
  BY <1>21 DEF ReceivePingresp, Arriving
<1>22. CASE ReceiveRequest
  BY <1>22 DEF ReceiveRequest, Arriving
<1>23. CASE TcpFails
  BY <1>23 DEF TcpFails, Welcomes
<1>24. CASE ReadError
  <2>1. [Nothing EXCEPT !.kind = "error", !.fd = sock].kind \notin Welcomes
    BY DEF Nothing, Welcomes
  <2> QED
    BY <1>24, <2>1 DEF ReadError
<1>25. CASE Keepalive
  BY <1>25 DEF Keepalive
<1>26. CASE ContinueWrite
  BY <1>26 DEF ContinueWrite
<1>27. CASE HandleUnknown
  <2>1. Nothing.kind \notin Welcomes
    BY DEF Nothing, Welcomes
  <2> QED
    BY <1>27, <2>1 DEF HandleUnknown
<1>28. CASE HandleError
  <2>1. Nothing.kind \notin Welcomes
    BY DEF Nothing, Welcomes
  <2> QED
    BY <1>28, <2>1 DEF HandleError, CloseOnly, CloseSocket
<1>29. CASE AddDisconnect
  <2>1. Nothing.kind \notin Welcomes
    BY DEF Nothing, Welcomes
  <2> QED
    BY <1>29, <2>1 DEF AddDisconnect
<1>30. CASE HandleConnack
  BY <1>30 DEF HandleConnack, Handling
<1>31. CASE HandleRefusal
  BY <1>31 DEF HandleRefusal, Welcomes
<1>32. CASE HandleSuback
  <2>1. Nothing.kind \notin Welcomes
    BY DEF Nothing, Welcomes
  <2> QED
    BY <1>32, <2>1 DEF HandleSuback
<1>33. CASE OnConnect
  BY <1>33 DEF OnConnect
<1>34. CASE Break
  BY <1>34 DEF Break
<1>35. CASE Request
  <2>1. Len(<<>>) = 0
    OBVIOUS
  <2> QED
    BY <1>35, <2>1 DEF Request
<1>36. CASE Tick
  BY <1>36 DEF Tick
<1>37. CASE UNCHANGED vars
  BY <1>37 DEF vars
<1> QED
  BY <1>1, <1>2, <1>3, <1>4, <1>5, <1>6, <1>7, <1>8, <1>9, <1>10, <1>11, <1>12, <1>13, <1>14, <1>15, <1>16, <1>17, <1>18, <1>19, <1>20, <1>21, <1>22, <1>23, <1>24, <1>25, <1>26, <1>27, <1>28, <1>29, <1>30, <1>31, <1>32, <1>33, <1>34, <1>35, <1>36, <1>37
     DEF Next, Connector, SendThread, ReceiveThread, Receive, Handle, Network

(* A session is ended by nothing but a command in the queue. *)
LEMMA Ends ==
    ASSUME SessionInv, [Next]_vars, connected, ~connected'
    PROVE  ProcessDisconnect
<1> USE DEF SessionInv, agentVars, idVars, attemptVars, threadVars, socketVars, brokerVars
<1>1. CASE Start
  BY <1>1 DEF Start
<1>2. CASE Offer
  BY <1>2 DEF Offer
<1>3. CASE Heartbeat
  BY <1>3 DEF Heartbeat
<1>4. CASE Connect
  BY <1>4 DEF Connect
<1>5. ASSUME NEW s \in Senders, GiveUp(s) PROVE ProcessDisconnect
  BY <1>5 DEF GiveUp
<1>6. ASSUME NEW s \in Senders, AssignId(s) PROVE ProcessDisconnect
  BY <1>6 DEF AssignId
<1>7. ASSUME NEW s \in Senders, AddMessage(s) PROVE ProcessDisconnect
  BY <1>7 DEF AddMessage
<1>8. CASE BeginStop
  BY <1>8 DEF BeginStop
<1>9. CASE StopConnector
  BY <1>9 DEF StopConnector
<1>10. CASE Disconnect
  BY <1>10 DEF Disconnect, LookAgain, AddBye
<1>11. CASE IgnoreConnect
  BY <1>11 DEF IgnoreConnect
<1>12. CASE OpenSocket
  BY <1>12 DEF OpenSocket
<1>13. CASE OpenSocketFails
  BY <1>13 DEF OpenSocketFails
<1>14. CASE ProcessDisconnect
  BY <1>14 DEF ProcessDisconnect
<1>15. CASE Write
  BY <1>15 DEF Write
<1>16. CASE WriteFails
  BY <1>16 DEF WriteFails
<1>17. CASE CheckTimeouts
  BY <1>17 DEF CheckTimeouts, Welcomes
<1>18. CASE TcpDone
  BY <1>18 DEF TcpDone, Welcomes
<1>19. CASE ReceiveAnswer
  BY <1>19 DEF ReceiveAnswer
<1>20. CASE ReceivePuback
  BY <1>20 DEF ReceivePuback
<1>21. CASE ReceivePingresp
  BY <1>21 DEF ReceivePingresp
<1>22. CASE ReceiveRequest
  BY <1>22 DEF ReceiveRequest
<1>23. CASE TcpFails
  BY <1>23 DEF TcpFails, Welcomes
<1>24. CASE ReadError
  BY <1>24 DEF ReadError, Welcomes
<1>25. CASE Keepalive
  BY <1>25 DEF Keepalive
<1>26. CASE ContinueWrite
  BY <1>26 DEF ContinueWrite
<1>27. CASE HandleUnknown
  BY <1>27 DEF HandleUnknown
<1>28. CASE HandleError
  BY <1>28 DEF HandleError
<1>29. CASE AddDisconnect
  BY <1>29 DEF AddDisconnect
<1>30. CASE HandleConnack
  BY <1>30 DEF HandleConnack
<1>31. CASE HandleRefusal
  BY <1>31 DEF HandleRefusal, Welcomes
<1>32. CASE HandleSuback
  BY <1>32 DEF HandleSuback
<1>33. CASE OnConnect
  BY <1>33 DEF OnConnect
<1>34. CASE Break
  BY <1>34 DEF Break
<1>35. CASE Request
  BY <1>35 DEF Request
<1>36. CASE Tick
  BY <1>36 DEF Tick
<1>37. CASE UNCHANGED vars
  BY <1>37 DEF vars
<1> QED
  BY <1>1, <1>2, <1>3, <1>4, <1>5, <1>6, <1>7, <1>8, <1>9, <1>10, <1>11, <1>12, <1>13, <1>14, <1>15, <1>16, <1>17, <1>18, <1>19, <1>20, <1>21, <1>22, <1>23, <1>24, <1>25, <1>26, <1>27, <1>28, <1>29, <1>30, <1>31, <1>32, <1>33, <1>34, <1>35, <1>36, <1>37
     DEF Next, Connector, SendThread, ReceiveThread, Receive, Handle, Network

LEMMA NoReturnStep ==
    Posix /\ TypeInv /\ SessionInv /\ StopInv /\ NoReturn /\ [Next]_vars => NoReturn'
<1> SUFFICES ASSUME Posix, TypeInv, SessionInv, StopInv, NoReturn, [Next]_vars,
                    Committed', ~connected'
             PROVE  /\ state' = "none" /\ inbox' = <<>>
                    /\ got'.kind \notin Welcomes
                    /\ \A i \in 1..Len(queue') : queue'[i].type # "connect"
  BY DEF NoReturn
<1>1. CASE connected
  <2>1. ProcessDisconnect
    BY <1>1, Ends
  <2>2. /\ state' = "none" /\ inbox' = <<>> /\ queue' = <<>> /\ got' = got
    BY <1>1, <2>1 DEF ProcessDisconnect, CloseOnly, CloseSocket, CleanSession, threadVars
  <2>3. got'.kind \notin Welcomes
    BY <1>1, <2>2 DEF SessionInv
  <2> QED
    BY <2>2, <2>3
<1>2. CASE ~connected
  <2>1. /\ state = "none" /\ inbox = <<>> /\ got.kind \notin Welcomes
        /\ \A i \in 1..Len(queue) : queue[i].type # "connect"
        /\ ~Start /\ ~Connect
    BY <1>2, NewlyCommitted DEF NoReturn
  <2>2. state' = "none" /\ inbox' = <<>> /\ got'.kind \notin Welcomes /\ CalmQueue
    BY <1>2, <2>1, NobodyAsks
  <2> QED
    BY <2>1, <2>2, CalmStays, TypeStep
<1> QED
  BY <1>1, <1>2

(***************************************************************************)
(* A session begins with the subscriptions and the identity.  What is left *)
(* of this opening stands in the queue, behind nothing but commands that   *)
(* change the connection; it needs three ids, and as long as the callback  *)
(* goes on it alone takes any.                                             *)
(***************************************************************************)
Wanted == <<"agent", "identify", "identity">>
Opened == 3 - callback

OpensAt(h) ==
    /\ \A i \in 1..h : queue[i].type \in {"connect", "disconnect"}
    /\ \A k \in (Len(seen) + 1)..Opened :
          /\ h + k - Len(seen) <= Len(queue)
          /\ queue[h + k - Len(seen)].type = Wanted[k]
    /\ callback # 0 => Len(queue) = h + Opened

UsedIds == Taken \cup {msgID}

OpeningIds ==
    /\ callback = 3 => UsedIds \subseteq {0}
    /\ callback = 2 => \E x \in Ids : UsedIds \subseteq {0, x}
    /\ callback = 1 => \E x, y \in Ids : UsedIds \subseteq {0, x, y}

OpeningInv ==
    /\ Len(seen) <= 3 /\ SubscribedFirst
    /\ callback # 0 => seen = <<>> /\ responses = {} /\ ~Committed
    /\ connected /\ link = "up" /\ Len(seen) < 3 =>
          partial = 0 /\ \E h \in 0..Len(queue) : OpensAt(h)
    /\ OpeningIds

(* What a step does to the queue of a session that goes on. *)
QueueKeeps ==
    \/ queue' = queue
    \/ \E c \in Heads : queue' = AddHead(c, queue)
    \/ /\ callback = 0
       /\ \/ queue # <<>> /\ First.type = "connect" /\ queue' = Tail(queue)
          \/ \E c \in Commands :
                /\ queue' = Append(queue, c)
                /\ c \in Byes => at["stopper"] \in {"disconnecting", "ending"}
          \/ link # "up"

Continues ==
    /\ connected /\ QueueKeeps
    /\ UNCHANGED <<seen, callback, partial>>
    /\ link' = "up" => link = "up"
    /\ will' = "kept" => will = "kept"
    /\ callback # 0 => UNCHANGED <<responses, msgID>>

LEMMA SessionContinues ==
    ASSUME TypeInv, SessionInv, OpeningInv, [Next]_vars, connected'
    PROVE  Continues \/ HandleConnack \/ OnConnect \/ Write \/ ContinueWrite
<1> DEFINE Goal == Continues \/ HandleConnack \/ OnConnect \/ Write \/ ContinueWrite
<1> SUFFICES Goal
  OBVIOUS
<1> USE DEF TypeInv, TypeOK, Shape, SessionInv, OpeningInv, Continues, QueueKeeps,
            MutexFree, agentVars, idVars, attemptVars, threadVars, socketVars,
            brokerVars
<1>1. CASE Start
  BY <1>1 DEF Start, Heads
<1>2. CASE Offer
  BY <1>2 DEF Offer
<1>3. CASE Heartbeat
  BY <1>3 DEF Heartbeat
<1>4. CASE Connect
  BY <1>4 DEF Connect, Heads
<1>5. ASSUME NEW s \in Senders, GiveUp(s) PROVE Goal
  BY <1>5 DEF GiveUp
<1>6. ASSUME NEW s \in Senders, AssignId(s) PROVE Goal
  BY <1>6 DEF AssignId
<1>7. ASSUME NEW s \in Senders, AddMessage(s) PROVE Goal
  <2>1. \E c \in Commands : queue' = Append(queue, c) /\ c \notin Byes
    <3> DEFINE c == IF s = "publisher" THEN Command("data", token[s], sent')
                    ELSE Command("will", token[s], 0)
    <3>1. queue' = Append(queue, c) /\ sent' \in Nat
      BY <1>7, ConstantsTyped DEF AddMessage
    <3>2. c \in Commands /\ c \notin Byes
      BY <3>1, ConstantsTyped DEF Byes, Command, Commands, Types, Messages, Publishes
    <3> QED
      BY <3>1, <3>2
  <2>2. callback = 0
    BY <1>7 DEF AddMessage, Committed, Senders
  <2> QED
    BY <1>7, <2>1, <2>2 DEF AddMessage
<1>8. CASE BeginStop
  BY <1>8 DEF BeginStop
<1>9. CASE StopConnector
  BY <1>9 DEF StopConnector
<1>10. CASE Disconnect
  <2>1. Command("bye", 0, 0) \in Commands
    BY ConstantsTyped DEF Command, Commands, Types
  <2>2. callback = 0
    BY <1>10 DEF Disconnect, LookAgain, AddBye, Committed
  <2> QED
    BY <1>10, <2>1, <2>2 DEF Disconnect, LookAgain, AddBye
<1>11. CASE IgnoreConnect
  BY <1>11 DEF IgnoreConnect, Ready
<1>12. CASE OpenSocket
  BY <1>12 DEF OpenSocket
<1>13. CASE OpenSocketFails
  BY <1>13 DEF OpenSocketFails
<1>14. CASE ProcessDisconnect
  BY <1>14 DEF ProcessDisconnect, CloseOnly
<1>15. CASE Write
  BY <1>15 DEF Write
<1>16. CASE WriteFails
  BY <1>16 DEF WriteFails, Ready
<1>17. CASE CheckTimeouts
  BY <1>17 DEF CheckTimeouts, Welcomes, ConnectFails, CloseOnly, Reading
<1>18. CASE TcpDone
  BY <1>18 DEF TcpDone, ConnectFails, CloseOnly
<1>19. CASE ReceiveAnswer
  BY <1>19 DEF ReceiveAnswer, Arriving, Reading
<1>20. CASE ReceivePuback
  BY <1>20 DEF ReceivePuback, Arriving, Reading
<1>21. CASE ReceivePingresp
  BY <1>21 DEF ReceivePingresp, Arriving, Reading
<1>22. CASE ReceiveRequest
  <2>1. /\ Command("identity", NextId, 0) \in Commands
        /\ Command("identity", NextId, 0) \notin Byes
    BY NextIdIsFree, ConstantsTyped DEF Byes, Command, Commands, Types, Messages, Publishes
  <2>2. callback = 0
    BY <1>22 DEF ReceiveRequest, Arriving, Reading
  <2> QED
    BY <1>22, <2>1, <2>2 DEF ReceiveRequest
<1>23. CASE TcpFails
  BY <1>23 DEF TcpFails, Welcomes, ConnectFails, CloseOnly, Reading
<1>24. CASE ReadError
  BY <1>24 DEF ReadError, Welcomes, ConnectFails, CloseOnly, Reading
<1>25. CASE Keepalive
  BY <1>25 DEF Keepalive, Heads, Reading
<1>26. CASE ContinueWrite
  BY <1>26 DEF ContinueWrite
<1>27. CASE HandleUnknown
  BY <1>27 DEF HandleUnknown
<1>28. CASE HandleError
  BY <1>28 DEF HandleError, CloseOnly, Handling
<1>29. CASE AddDisconnect
  BY <1>29 DEF AddDisconnect, Heads, Nothing
<1>30. CASE HandleConnack
  BY <1>30 DEF HandleConnack
<1>31. CASE HandleRefusal
  BY <1>31 DEF HandleRefusal, Welcomes, ConnectFails, CloseOnly, Reading
<1>32. CASE HandleSuback
  BY <1>32 DEF HandleSuback, Handling
<1>33. CASE OnConnect
  BY <1>33 DEF OnConnect
<1>34. CASE Break
  BY <1>34 DEF Break
<1>35. CASE Request
  BY <1>35 DEF Request
<1>36. CASE Tick
  BY <1>36 DEF Tick
<1>37. CASE UNCHANGED vars
  BY <1>37 DEF vars
<1> QED
  BY <1>1, <1>2, <1>3, <1>4, <1>5, <1>6, <1>7, <1>8, <1>9, <1>10, <1>11, <1>12, <1>13, <1>14, <1>15, <1>16, <1>17, <1>18, <1>19, <1>20, <1>21, <1>22, <1>23, <1>24, <1>25, <1>26, <1>27, <1>28, <1>29, <1>30, <1>31, <1>32, <1>33, <1>34, <1>35, <1>36, <1>37
     DEF Next, Connector, SendThread, ReceiveThread, Receive, Handle, Network

(* The queue keeps what is left of the opening. *)
LEMMA OpensPushed ==
    ASSUME TypeInv, NEW h \in 0..Len(queue), OpensAt(h), NEW c \in Heads,
           queue' = <<c>> \o queue, UNCHANGED <<seen, callback>>
    PROVE  \E g \in 0..Len(queue') : OpensAt(g)'
<1>t. queue \in Seq(Commands) /\ Len(queue) \in Nat /\ callback \in 0..3
      /\ Len(seen) \in Nat /\ h \in Nat /\ c \in Commands
  BY LenProperties, HeadsTyped DEF TypeInv, TypeOK
<1>1. /\ Len(queue') = Len(queue) + 1 /\ queue'[1] = c
      /\ \A i \in 2..(Len(queue) + 1) : queue'[i] = queue[i - 1]
  BY <1>t, Pushed
<1>2. \A i \in 1..(h + 1) : queue'[i].type \in {"connect", "disconnect"}
  <2>1. \A i \in 1..(h + 1) : i = 1 \/ (i \in 2..(Len(queue) + 1) /\ i - 1 \in 1..h)
    BY <1>t
  <2> QED
    BY <1>1, <2>1, HeadsTyped DEF OpensAt
<1>3. ASSUME NEW k \in (Len(seen) + 1)..Opened
      PROVE  /\ (h + 1) + k - Len(seen) <= Len(queue')
             /\ queue'[(h + 1) + k - Len(seen)].type = Wanted[k]
  <2> DEFINE j == h + k - Len(seen)
  <2>1. /\ j <= Len(queue) /\ queue[j].type = Wanted[k]
        /\ j \in Nat /\ j >= 1
    <3>1. j <= Len(queue) /\ queue[j].type = Wanted[k]
      BY <1>t DEF OpensAt
    <3>2. j \in Nat /\ j >= 1
      BY <1>t DEF Opened
    <3> QED
      BY <3>1, <3>2
  <2>2. (h + 1) + k - Len(seen) = j + 1
    BY <1>t DEF Opened
  <2> HIDE DEF j
  <2>3. j + 1 \in 2..(Len(queue) + 1) /\ (j + 1) - 1 = j
    BY <1>t, <2>1
  <2>4. queue'[j + 1] = queue[j]
    BY <1>1, <2>3
  <2> QED
    BY <1>1, <2>1, <2>2, <2>3, <2>4
<1>4. Opened' = Opened /\ Len(seen') = Len(seen)
  BY DEF Opened
<1>5. OpensAt(h + 1)'
  BY <1>t, <1>1, <1>2, <1>3, <1>4 DEF OpensAt, Opened
<1>6. h + 1 \in 0..Len(queue')
  BY <1>t, <1>1
<1> QED
  BY <1>5, <1>6

LEMMA OpensAppended ==
    ASSUME TypeInv, NEW h \in 0..Len(queue), OpensAt(h), NEW c \in Commands,
           queue' = Append(queue, c), callback = 0, UNCHANGED <<seen, callback>>
    PROVE  \E g \in 0..Len(queue') : OpensAt(g)'
<1>t. queue \in Seq(Commands) /\ Len(queue) \in Nat /\ Len(seen) \in Nat /\ h \in Nat
  BY LenProperties DEF TypeInv, TypeOK
<1>1. /\ Len(queue') = Len(queue) + 1
      /\ \A i \in 1..Len(queue) : queue'[i] = queue[i]
  BY <1>t, Appended
<1>2. \A i \in 1..h : queue'[i].type \in {"connect", "disconnect"}
  BY <1>t, <1>1 DEF OpensAt
<1>3. ASSUME NEW k \in (Len(seen) + 1)..Opened
      PROVE  /\ h + k - Len(seen) <= Len(queue')
             /\ queue'[h + k - Len(seen)].type = Wanted[k]
  <2> DEFINE j == h + k - Len(seen)
  <2>1. j <= Len(queue) /\ queue[j].type = Wanted[k] /\ j \in Nat /\ j >= 1
    BY <1>t DEF OpensAt, Opened
  <2> HIDE DEF j
  <2>2. j \in 1..Len(queue)
    BY <1>t, <2>1
  <2>3. j <= Len(queue') /\ queue'[j].type = Wanted[k]
    BY <1>t, <1>1, <2>1, <2>2
  <2> QED
    BY <2>3 DEF j
<1>4. Opened' = Opened /\ Len(seen') = Len(seen)
  BY DEF Opened
<1>5. OpensAt(h)'
  BY <1>2, <1>3, <1>4 DEF OpensAt
<1> QED
  BY <1>t, <1>1, <1>5

(* A CONNECT or the opening is first. *)
LEMMA OpensTailed ==
    ASSUME TypeInv, NEW h \in 0..Len(queue), OpensAt(h), queue # <<>>, callback = 0,
           Len(seen) < 3, queue' = Tail(queue), callback' = callback
    PROVE  /\ First.type \in {"connect", "disconnect"} /\ seen' = seen =>
                 \E g \in 0..Len(queue') : OpensAt(g)'
           /\ First.type \in Messages =>
                 /\ First.type = Wanted[Len(seen) + 1]
                 /\ seen' = Append(seen, First.type) =>
                        \E g \in 0..Len(queue') : OpensAt(g)'
<1>t. /\ queue \in Seq(Commands) /\ Len(queue) \in Nat /\ Len(seen) \in Nat /\ h \in Nat
      /\ seen \in Seq(Messages)
  BY LenProperties DEF TypeInv, TypeOK
<1>0. Opened = 3 /\ Opened' = 3
  BY DEF Opened
<1>1. /\ Len(queue) > 0 /\ Len(queue') = Len(queue) - 1
      /\ \A i \in 1..Len(queue') : queue'[i] = queue[i + 1]
  BY <1>t, Popped
<1>2. \A k \in (Len(seen) + 1)..3 : /\ h + k - Len(seen) <= Len(queue)
                                    /\ queue[h + k - Len(seen)].type = Wanted[k]
  BY <1>0 DEF OpensAt
<1>3. h = 0 => First.type = Wanted[Len(seen) + 1]
  <2>1. Len(seen) + 1 \in (Len(seen) + 1)..3
    BY <1>t
  <2>2. 0 + (Len(seen) + 1) - Len(seen) = 1
    BY <1>t
  <2> QED
    BY <1>2, <2>1, <2>2 DEF First
<1>4. h # 0 => First.type \in {"connect", "disconnect"}
  BY <1>t DEF OpensAt, First
<1>5. \A n \in 1..3 : Wanted[n] \in Messages /\ Wanted[n] \notin {"connect", "disconnect"}
  BY DEF Wanted, Messages, Subscribes, Publishes
<1>6. Len(seen) + 1 \in 1..3
  BY <1>t
<1>7. ASSUME First.type \in {"connect", "disconnect"}, seen' = seen
      PROVE  \E g \in 0..Len(queue') : OpensAt(g)'
  <2>1. h > 0 /\ h - 1 \in 0..Len(queue')
    BY <1>t, <1>1, <1>3, <1>5, <1>6, <1>7
  <2>2. \A i \in 1..(h - 1) : queue'[i].type \in {"connect", "disconnect"}
    <3>1. \A i \in 1..(h - 1) : i \in 1..Len(queue') /\ i + 1 \in 1..h
      BY <1>t, <1>1, <2>1
    <3> QED
      BY <1>1, <3>1 DEF OpensAt
  <2>3. ASSUME NEW k \in (Len(seen) + 1)..3
        PROVE  /\ (h - 1) + k - Len(seen) <= Len(queue')
               /\ queue'[(h - 1) + k - Len(seen)].type = Wanted[k]
    <3> DEFINE j == (h - 1) + k - Len(seen)
    <3>1. j + 1 = h + k - Len(seen) /\ j \in Nat /\ j >= 1
      BY <1>t, <2>1
    <3>2. j + 1 <= Len(queue) /\ queue[j + 1].type = Wanted[k]
      BY <1>2, <3>1
    <3> HIDE DEF j
    <3>3. j \in 1..Len(queue')
      BY <1>t, <1>1, <3>1, <3>2
    <3>4. j <= Len(queue') /\ queue'[j].type = Wanted[k]
      BY <1>t, <1>1, <3>2, <3>3
    <3> QED
      BY <3>4 DEF j
  <2>4. OpensAt(h - 1)'
    BY <1>0, <1>7, <2>2, <2>3 DEF OpensAt
  <2> QED
    BY <2>1, <2>4
<1>8. ASSUME First.type \in Messages PROVE h = 0 /\ First.type = Wanted[Len(seen) + 1]
  BY <1>3, <1>4, <1>8 DEF Messages, Subscribes, Publishes
<1>9. ASSUME First.type \in Messages, seen' = Append(seen, First.type)
      PROVE  \E g \in 0..Len(queue') : OpensAt(g)'
  <2>1. h = 0
    BY <1>8, <1>9
  <2>2. Len(seen') = Len(seen) + 1
    BY <1>t, <1>9, Appended
  <2>3. ASSUME NEW k \in (Len(seen) + 2)..3
        PROVE  /\ 0 + k - (Len(seen) + 1) <= Len(queue')
               /\ queue'[0 + k - (Len(seen) + 1)].type = Wanted[k]
    <3> DEFINE j == 0 + k - (Len(seen) + 1)
    <3>1. j + 1 = 0 + k - Len(seen) /\ j \in Nat /\ j >= 1 /\ k \in (Len(seen) + 1)..3
      BY <1>t
    <3>2. j + 1 <= Len(queue) /\ queue[j + 1].type = Wanted[k]
      BY <1>2, <2>1, <3>1
    <3> HIDE DEF j
    <3>3. j \in 1..Len(queue')
      BY <1>t, <1>1, <3>1, <3>2
    <3>4. j <= Len(queue') /\ queue'[j].type = Wanted[k]
      BY <1>t, <1>1, <3>2, <3>3
    <3> QED
      BY <3>4 DEF j
  <2>4. (Len(seen) + 1) + 1 = Len(seen) + 2
    BY <1>t
  <2>5. OpensAt(0)'
    BY <1>0, <2>2, <2>3, <2>4 DEF OpensAt
  <2>6. 0 \in 0..Len(queue')
    BY <1>t, <1>1
  <2> QED
    BY <2>5, <2>6
<1> QED
  BY <1>7, <1>8, <1>9

LEMMA OpensKept ==
    ASSUME TypeInv, NEW h \in 0..Len(queue), OpensAt(h), Continues, Len(seen) < 3,
           link = "up"
    PROVE  \E g \in 0..Len(queue') : OpensAt(g)'
<1>0. UNCHANGED <<seen, callback>>
  BY DEF Continues
<1>1. CASE queue' = queue
  <2>1. OpensAt(h)'
    BY <1>0, <1>1 DEF OpensAt, Opened
  <2> QED
    BY <1>1, <2>1
<1>2. ASSUME NEW c \in Heads, queue' = AddHead(c, queue)
      PROVE  \E g \in 0..Len(queue') : OpensAt(g)'
  <2>1. CASE queue' = queue
    BY <1>1, <2>1
  <2>2. CASE queue' = <<c>> \o queue
    BY <1>0, <2>2, OpensPushed
  <2> QED
    BY <1>2, <2>1, <2>2 DEF AddHead
<1>3. CASE callback = 0 /\ queue # <<>> /\ First.type = "connect" /\ queue' = Tail(queue)
  BY <1>0, <1>3, OpensTailed
<1>4. ASSUME NEW c \in Commands, queue' = Append(queue, c), callback = 0
      PROVE  \E g \in 0..Len(queue') : OpensAt(g)'
  BY <1>0, <1>4, OpensAppended
<1> QED
  BY <1>1, <1>2, <1>3, <1>4 DEF Continues, QueueKeeps

(* The callback adds the next of the three. *)
LEMMA OnConnectOpens ==
    ASSUME TypeInv, OpeningInv, MaxId > 2, OnConnect
    PROVE  /\ NextId \in Ids /\ NextId \notin UsedIds
           /\ queue' = Append(queue, Command(Wanted[Opened'], NextId, 0))
           /\ Command(Wanted[Opened'], NextId, 0) \in Commands
           /\ Opened' \in 1..3 /\ Opened' = Opened + 1 /\ callback' = callback - 1
           /\ msgID' = NextId /\ UNCHANGED <<seen, responses, link>>
<1>1. callback \in 1..3
  BY ConstantsTyped DEF OnConnect, TypeInv, TypeOK
<1>2. FreeIds # {}
  <2>1. \A x, y \in Ids : \E z \in {1, 2, 3} : z # x /\ z # y
    BY ConstantsTyped DEF Ids
  <2>2. 1 \in Ids /\ 2 \in Ids /\ 3 \in Ids /\ 0 \notin Ids
    BY ConstantsTyped DEF Ids
  <2>3. \E x, y \in Ids : UsedIds \subseteq {0, x, y}
    BY <1>1, <2>2 DEF OpeningInv, OpeningIds
  <2>4. \E z \in Ids : z \notin UsedIds
    BY <2>1, <2>2, <2>3
  <2> QED
    BY <2>4 DEF FreeIds, UsedIds
<1>3. NextId \in Ids /\ NextId \notin UsedIds /\ NextId # 0
  BY <1>2, NextIdIsFree, ConstantsTyped DEF FreeIds, UsedIds, Ids, TypeInv, TypeOK
<1>4. Opened' = Opened + 1 /\ callback' = callback - 1 /\ Opened' \in 1..3
  BY <1>1 DEF OnConnect, Opened
<1>5. Wanted[Opened'] = <<"identity", "identify", "agent">>[callback]
  <2>1. callback = 1 => Opened' = 3
    BY <1>4 DEF Opened
  <2>2. callback = 2 => Opened' = 2
    BY <1>4 DEF Opened
  <2>3. callback = 3 => Opened' = 1
    BY <1>4 DEF Opened
  <2> QED
    BY <1>1, <2>1, <2>2, <2>3 DEF Wanted
<1>6. Command(Wanted[Opened'], NextId, 0) \in Commands
  <2>1. \A n \in 1..3 : Wanted[n] \in Types
    BY DEF Wanted, Types, Messages, Subscribes, Publishes
  <2> QED
    BY <1>3, <1>4, <2>1 DEF Command, Commands, Ids
<1> QED
  BY <1>3, <1>4, <1>5, <1>6 DEF OnConnect, brokerVars

LEMMA OnConnectKeeps ==
    ASSUME TypeInv, OpeningInv, MaxId > 2, OnConnect, NEW h \in 0..Len(queue), OpensAt(h)
    PROVE  \E g \in 0..Len(queue') : OpensAt(g)'
<1> DEFINE c == Command(Wanted[Opened'], NextId, 0)
<1>t. queue \in Seq(Commands) /\ Len(queue) \in Nat /\ h \in Nat /\ callback \in 1..3
  BY LenProperties, ConstantsTyped DEF TypeInv, TypeOK, OnConnect
<1>1. /\ queue' = Append(queue, c) /\ c \in Commands /\ UNCHANGED seen
      /\ Opened' = Opened + 1 /\ c.type = Wanted[Opened']
  BY OnConnectOpens DEF Command
<1>0. Len(seen) = 0 /\ Len(seen') = 0 /\ Opened \in 0..2 /\ Len(queue) = h + Opened
  BY <1>t, <1>1 DEF OpeningInv, OpensAt, Opened
<1> HIDE DEF c
<1>2. /\ Len(queue') = Len(queue) + 1 /\ queue'[Len(queue) + 1] = c
      /\ \A i \in 1..Len(queue) : queue'[i] = queue[i]
  BY <1>t, <1>1, Appended
<1>3. \A i \in 1..h : queue'[i].type \in {"connect", "disconnect"}
  BY <1>t, <1>0, <1>2 DEF OpensAt
<1>4. ASSUME NEW k \in 1..Opened'
      PROVE  h + k - 0 <= Len(queue') /\ queue'[h + k - 0].type = Wanted[k]
  <2>1. CASE k = Opened'
    <3>1. h + k - 0 = Len(queue) + 1
      BY <1>t, <1>0, <1>1, <2>1
    <3> QED
      BY <1>t, <1>1, <1>2, <2>1, <3>1
  <2>2. CASE k # Opened'
    <3>1. k \in 1..Opened /\ k \in (0 + 1)..Opened
      BY <1>0, <1>1, <2>2
    <3>2. h + k - 0 <= Len(queue) /\ queue[h + k - 0].type = Wanted[k]
      BY <1>0, <3>1 DEF OpensAt
    <3>3. h + k - 0 \in 1..Len(queue)
      BY <1>t, <3>1, <3>2
    <3> QED
      BY <1>t, <1>2, <3>2, <3>3
  <2> QED
    BY <2>1, <2>2
<1>5. OpensAt(h)'
  <2>1. Len(queue') = h + Opened'
    BY <1>t, <1>0, <1>1, <1>2
  <2>2. \A k \in (Len(seen') + 1)..Opened' :
           /\ h + k - Len(seen') <= Len(queue')
           /\ queue'[h + k - Len(seen')].type = Wanted[k]
    <3>1. Len(seen') + 1 = 1
      BY <1>0
    <3> QED
      BY <1>0, <1>4, <3>1
  <2> QED
    BY <1>3, <2>1, <2>2 DEF OpensAt
<1> QED
  BY <1>t, <1>2, <1>5

(* Ids, while the callback goes on. *)
LEMMA TakenPushed ==
    ASSUME TypeInv, NEW c \in Heads, queue' = AddHead(c, queue), responses' = responses
    PROVE  Taken' \subseteq Taken \cup {0}
<1>t. queue \in Seq(Commands) /\ Len(queue) \in Nat /\ c \in Commands /\ c.token = 0
  BY LenProperties, HeadsTyped DEF TypeInv, TypeOK
<1>1. CASE queue' = queue
  BY <1>1 DEF Taken
<1>2. CASE queue' = <<c>> \o queue
  <2>1. /\ Len(queue') = Len(queue) + 1 /\ queue'[1] = c
        /\ \A i \in 2..(Len(queue) + 1) : queue'[i] = queue[i - 1]
    BY <1>t, <1>2, Pushed
  <2>2. \A i \in 1..Len(queue') :
           i = 1 \/ (i \in 2..(Len(queue) + 1) /\ i - 1 \in 1..Len(queue))
    BY <1>t, <2>1
  <2>3. \A i \in 1..Len(queue') : queue'[i].token = 0
              \/ \E j \in 1..Len(queue) : queue'[i].token = queue[j].token
    BY <1>t, <2>1, <2>2
  <2> QED
    BY <2>3 DEF Taken
<1> QED
  BY <1>1, <1>2 DEF AddHead

LEMMA TakenAppended ==
    ASSUME TypeInv, NEW c \in Commands, queue' = Append(queue, c), responses' = responses
    PROVE  Taken' = Taken \cup {c.token}
<1>1. /\ Len(queue) \in Nat /\ Len(queue') = Len(queue) + 1
      /\ queue'[Len(queue) + 1] = c
      /\ \A i \in 1..Len(queue) : queue'[i] = queue[i]
  BY Appended, LenProperties DEF TypeInv, TypeOK
<1>2. \A i \in 1..Len(queue') : i \in 1..Len(queue) \/ i = Len(queue) + 1
  BY <1>1
<1>3. Len(queue) + 1 \in 1..Len(queue') /\ \A i \in 1..Len(queue) : i \in 1..Len(queue')
  BY <1>1
<1>4. {queue'[i].token : i \in 1..Len(queue')}
         = {queue[i].token : i \in 1..Len(queue)} \cup {c.token}
  BY <1>1, <1>2, <1>3
<1> QED
  BY <1>4 DEF Taken

LEMMA TakenEmpty ==
    ASSUME queue' = <<>>, responses' = {}
    PROVE  Taken' = {}
BY DEF Taken

LEMMA OpeningIdsStep ==
    ASSUME Posix, MaxId > 2, TypeInv, SessionInv, OpeningInv, [Next]_vars
    PROVE  OpeningIds'
<1>t. callback \in 0..3 /\ callback' \in 0..3
  BY TypeStep DEF TypeInv, TypeOK
<1> SUFFICES ASSUME callback' # 0 PROVE OpeningIds'
  BY <1>t DEF OpeningIds
<1>0. connected'
  BY SessionStep DEF SessionInv
<1>1. CASE HandleConnack
  <2>1. callback' = 3 /\ UsedIds' = {0}
    BY <1>1, TakenEmpty DEF HandleConnack, CleanSession, UsedIds
  <2> QED
    BY <2>1 DEF OpeningIds
<1>2. CASE Write \/ ContinueWrite
  BY <1>2 DEF Write, ContinueWrite, Ready, MutexFree, threadVars
<1>3. CASE Continues
  <2>1. callback' = callback /\ UNCHANGED <<responses, msgID>>
    BY <1>3 DEF Continues
  <2>2. Taken' \subseteq Taken \cup {0}
    <3>1. CASE queue' = queue
      BY <2>1, <3>1 DEF Taken
    <3>2. ASSUME NEW c \in Heads, queue' = AddHead(c, queue) PROVE Taken' \subseteq Taken \cup {0}
      BY <2>1, <3>2, TakenPushed
    <3> QED
      BY <1>3, <2>1, <3>1, <3>2 DEF Continues, QueueKeeps
  <2>3. UsedIds' \subseteq UsedIds \cup {0}
    BY <2>1, <2>2 DEF UsedIds
  <2>4. OpeningIds
    BY DEF OpeningInv
  <2> QED
    BY <2>1, <2>3, <2>4 DEF OpeningIds
<1>4. CASE OnConnect
  <2>1. /\ NextId \in Ids /\ callback' = callback - 1 /\ msgID' = NextId
        /\ responses' = responses
    BY <1>4, OnConnectOpens
  <2>2. Taken' = Taken \cup {NextId}
    BY <1>4, <2>1, OnConnectOpens, TakenAppended DEF Command
  <2>3. UsedIds' \subseteq UsedIds \cup {NextId}
    BY <2>1, <2>2 DEF UsedIds
  <2>4. callback = 3 \/ callback = 2
    BY <1>t, <2>1
  <2>5. CASE callback = 3
    <3>1. callback' = 2 /\ UsedIds' \subseteq {0, NextId}
      BY <2>1, <2>3, <2>5 DEF OpeningInv, OpeningIds
    <3> QED
      BY <2>1, <3>1 DEF OpeningIds
  <2>6. CASE callback = 2
    <3>1. PICK x \in Ids : UsedIds \subseteq {0, x}
      BY <2>6 DEF OpeningInv, OpeningIds
    <3>2. callback' = 1 /\ UsedIds' \subseteq {0, x, NextId}
      BY <2>1, <2>3, <2>6, <3>1
    <3> QED
      BY <2>1, <3>2 DEF OpeningIds
  <2> QED
    BY <2>4, <2>5, <2>6
<1> QED
  BY <1>0, <1>1, <1>2, <1>3, <1>4, SessionContinues

(* Nobody has seen the connection while the callback goes on. *)
LEMMA CallbackAlone ==
    ASSUME Posix, TypeInv, SessionInv, StopInv, NoReturn, OpeningInv, [Next]_vars,
           callback' # 0
    PROVE  ~Committed' /\ seen' = <<>> /\ responses' = {}
<1>t. callback \in 0..3
  BY DEF TypeInv, TypeOK
<1>0. connected'
  BY SessionStep DEF SessionInv
<1>1. CASE HandleConnack
  <2>1. ~Committed
    BY <1>1 DEF HandleConnack, Handling, NoReturn, SessionInv, Welcomes
  <2>2. UNCHANGED <<at, token, agent>>
    BY <1>1 DEF HandleConnack, agentVars
  <2>3. seen = <<>>
    BY <1>1 DEF HandleConnack, Handling, SessionInv, Welcomes
  <2>4. seen' = <<>> /\ responses' = {}
    BY <1>1, <2>3 DEF HandleConnack, CleanSession, brokerVars
  <2> QED
    BY <2>1, <2>2, <2>4 DEF Committed
<1>2. CASE ~HandleConnack
  <2>1. Continues \/ OnConnect
    BY <1>0, <1>2, SessionContinues DEF Write, ContinueWrite, Ready, MutexFree, threadVars
  <2>2. callback # 0 /\ UNCHANGED <<seen, responses>>
    BY <1>t, <2>1 DEF Continues, OnConnect, brokerVars
  <2>3. ~Committed
    BY <2>2 DEF OpeningInv
  <2>4. ~Committed'
    <3>1. CASE UNCHANGED callerVars
      BY <2>3, <3>1 DEF callerVars, Committed
    <3>2. CASE Connector
      BY <2>2, <2>3, <3>2 DEF Connector, Start, Offer, Heartbeat, Connect, BeginStop,
         StopConnector, Disconnect, LookAgain, AddBye, GiveUp, AssignId, AddMessage, After, MutexFree,
         Committed, TypeInv, TypeOK, Senders
    <3> QED
      BY <3>1, <3>2, AgentMoves
  <2> QED
    BY <2>2, <2>4 DEF OpeningInv
<1> QED
  BY <1>1, <1>2

LEMMA OpeningStep ==
    Posix /\ MaxId > 2 /\ TypeInv /\ SessionInv /\ StopInv /\ NoReturn /\ OpeningInv
        /\ [Next]_vars => OpeningInv'
<1> SUFFICES ASSUME Posix, MaxId > 2, TypeInv, SessionInv, StopInv, NoReturn,
                    OpeningInv, [Next]_vars
             PROVE  OpeningInv'
  OBVIOUS
<1>t. /\ Len(seen) \in Nat /\ seen \in Seq(Messages) /\ Len(seen) <= 3
      /\ Len(queue) \in Nat /\ callback \in 0..3
  BY LenProperties DEF TypeInv, TypeOK, OpeningInv
<1>u. Len(seen) = 3 \/ Len(seen) < 3
  <2>1. Len(seen) \in Nat /\ Len(seen) <= 3
    BY <1>t
  <2> QED
    BY <2>1
<1> DEFINE Goal == /\ Len(seen') <= 3 /\ SubscribedFirst'
                   /\ connected' /\ link' = "up" /\ Len(seen') < 3 =>
                        partial' = 0 /\ \E h \in 0..Len(queue') : OpensAt(h)'
<1>0. OpeningIds' /\ (callback' # 0 => ~Committed' /\ seen' = <<>> /\ responses' = {})
  BY OpeningIdsStep, CallbackAlone
<1> SUFFICES Goal
  BY <1>0 DEF OpeningInv
<1>f. ASSUME seen' = seen, Len(seen) = 3 PROVE Goal
  <2>1. SubscribedFirst
    BY DEF OpeningInv
  <2> QED
    BY <1>f, <2>1 DEF SubscribedFirst
<1>1. CASE ~connected'
  <2>1. seen' = <<>>
    BY <1>1, SessionStep DEF SessionInv
  <2>2. Len(seen') = 0 /\ 1..Len(seen') = {}
    BY <2>1
  <2> QED
    BY <1>1, <2>2 DEF SubscribedFirst
<1>2. CASE HandleConnack
  <2>1. seen = <<>> /\ partial = 0
    BY <1>2 DEF HandleConnack, Handling, SessionInv, Welcomes
  <2>2. seen' = <<>> /\ partial' = 0 /\ queue' = <<>> /\ callback' = 3
    BY <1>2, <2>1 DEF HandleConnack, CleanSession, socketVars, brokerVars
  <2>3. Len(seen') = 0 /\ Len(queue') = 0 /\ Opened' = 0
    BY <2>2 DEF Opened
  <2>4. OpensAt(0)'
    BY <2>3 DEF OpensAt
  <2>5. SubscribedFirst' /\ 0 \in 0..Len(queue')
    BY <2>3 DEF SubscribedFirst
  <2> QED
    BY <2>2, <2>3, <2>4, <2>5
<1>3. CASE OnConnect
  <2>1. /\ UNCHANGED <<seen, link>> /\ connected' = connected /\ partial' = partial
    BY <1>3 DEF OnConnect, brokerVars, attemptVars, socketVars
  <2>2. ASSUME connected', link' = "up", Len(seen') < 3
        PROVE  partial' = 0 /\ \E h \in 0..Len(queue') : OpensAt(h)'
    <3>1. partial = 0 /\ \E h \in 0..Len(queue) : OpensAt(h)
      BY <2>1, <2>2 DEF OpeningInv
    <3> QED
      BY <1>3, <2>1, <3>1, OnConnectKeeps
  <2> QED
    BY <1>t, <2>1, <2>2 DEF OpeningInv, SubscribedFirst
<1>4. CASE Continues
  <2>1. connected /\ UNCHANGED <<seen, partial>> /\ (link' = "up" => link = "up")
    BY <1>4 DEF Continues
  <2>2. ASSUME connected', link' = "up", Len(seen') < 3
        PROVE  partial' = 0 /\ \E h \in 0..Len(queue') : OpensAt(h)'
    <3>1. link = "up" /\ Len(seen) < 3
      BY <2>1, <2>2
    <3>2. partial = 0 /\ \E h \in 0..Len(queue) : OpensAt(h)
      BY <2>1, <3>1 DEF OpeningInv
    <3> QED
      BY <1>4, <2>1, <3>1, <3>2, OpensKept
  <2> QED
    BY <1>t, <2>1, <2>2 DEF OpeningInv, SubscribedFirst
<1>5. CASE Write
  <2>0. /\ queue # <<>> /\ First.type \in Messages /\ callback = 0 /\ callback' = 0
        /\ connected /\ link' = link /\ queue' = Tail(queue) /\ Putdatas(First)
    BY <1>5 DEF Write, Ready, MutexFree, Messages, threadVars
  <2>1. CASE Len(seen) = 3
    <3>1. seen' = seen
      BY <1>t, <2>0, <2>1 DEF Putdatas, Reaches, Next3, brokerVars
    <3> QED
      BY <1>f, <2>1, <3>1
  <2>2. CASE Len(seen) < 3 /\ link # "up"
    <3>1. seen' = seen
      BY <2>0, <2>2 DEF Putdatas, brokerVars
    <3> QED
      BY <1>t, <2>0, <2>2, <3>1 DEF OpeningInv, SubscribedFirst
  <2>3. CASE Len(seen) < 3 /\ link = "up"
    <3>1. PICK h \in 0..Len(queue) : OpensAt(h)
      BY <2>0, <2>3 DEF OpeningInv
    <3>2. /\ First.type = Wanted[Len(seen) + 1]
          /\ seen' = Append(seen, First.type) => \E g \in 0..Len(queue') : OpensAt(g)'
      BY <2>0, <2>3, <3>1, OpensTailed
    <3>3. First.type # "data"
      <4>1. \A n \in 1..3 : Wanted[n] # "data"
        BY DEF Wanted
      <4> QED
        BY <1>t, <2>3, <3>2, <4>1
    <3>4. seen' = Append(seen, First.type) /\ partial' = partial
      BY <2>0, <2>3, <3>3 DEF Putdatas, Reaches, Next3
    <3>5. /\ Len(seen') = Len(seen) + 1 /\ seen'[Len(seen) + 1] = First.type
          /\ \A i \in 1..Len(seen) : seen'[i] = seen[i]
      BY <1>t, <2>0, <3>4, Appended
    <3>6. SubscribedFirst'
      <4>1. \A i \in 1..Len(seen') : i \in 1..Len(seen) \/ i = Len(seen) + 1
        BY <1>t, <3>5
      <4> QED
        BY <3>2, <3>5, <4>1 DEF SubscribedFirst, OpeningInv, Wanted
    <3>7. partial = 0
      BY <2>0, <2>3 DEF OpeningInv
    <3> QED
      BY <1>t, <2>3, <3>2, <3>4, <3>5, <3>6, <3>7
  <2> QED
    BY <1>u, <2>1, <2>2, <2>3
<1>6. CASE ContinueWrite
  <2>0. connected /\ partial # 0 /\ connected' = connected
    BY <1>6 DEF ContinueWrite, attemptVars, TypeInv, Shape
  <2>1. CASE link = "up" /\ sock \notin writes
    <3>0. Len(seen) < 3 => FALSE
      BY <2>0, <2>1 DEF OpeningInv
    <3>1. Len(seen) = 3
      BY <1>u, <3>0
    <3>2. seen' = seen
      BY <1>6, <2>1, <3>1 DEF ContinueWrite, Reaches, Next3
    <3> QED
      BY <1>f, <3>1, <3>2
  <2>2. CASE ~(link = "up" /\ sock \notin writes)
    <3>1. seen' = seen /\ link' = "broken"
      BY <1>6, <2>2 DEF ContinueWrite
    <3> QED
      BY <1>t, <3>1 DEF OpeningInv, SubscribedFirst
  <2> QED
    BY <2>1, <2>2
<1> QED
  BY <1>1, <1>2, <1>3, <1>4, <1>5, <1>6, SessionContinues

LEMMA StopInit == Init => StopInv /\ NoReturn
<1> SUFFICES ASSUME Init PROVE StopInv /\ NoReturn
  OBVIOUS
<1>1. CallersInv
  BY DEF Init, CallersInv, Senders
<1>2. 1..Len(queue) = {}
  BY DEF Init
<1>3. ~Committed
  BY DEF Init, Committed, Senders
<1> QED
  BY <1>1, <1>2, <1>3 DEF StopInv, ByesInv, NoReturn

LEMMA OpeningInit == Init => OpeningInv
<1> SUFFICES ASSUME Init PROVE OpeningInv
  OBVIOUS
<1>1. seen = <<>> /\ callback = 0 /\ ~connected
  BY DEF Init
<1>2. Len(seen) = 0 /\ 1..Len(seen) = {}
  BY <1>1
<1> QED
  BY <1>1, <1>2 DEF OpeningInv, OpeningIds, SubscribedFirst

(* Where the publisher is cancelled before the connector stops, and there  *)
(* are ids enough for the three, every session begins with the two         *)
(* subscriptions and the identity, whatever was queued before, whoever     *)
(* sends and however the last session ended.                               *)
THEOREM OpeningComesFirst ==
    ASSUME Posix, MaxId > 2
    PROVE  Spec => []SubscribedFirst
<1> DEFINE All == TypeInv /\ SessionInv /\ StopInv /\ NoReturn /\ OpeningInv
<1>1. Init => All
  BY TypeInit, SessionInit, StopInit, OpeningInit
<1>2. All /\ [Next]_vars => All'
  BY TypeStep, SessionStep, StopStep, NoReturnStep, OpeningStep
<1>3. All => SubscribedFirst
  BY DEF OpeningInv
<1> QED
  BY <1>1, <1>2, <1>3, PTL DEF Spec

(***************************************************************************)
(* What is said last: the will is published ahead of the end of a session. *)
(***************************************************************************)
WillAhead(n) == \E j \in 1..n : queue[j].type = "will"

WillInv ==
    /\ WillIsNotForgotten
    /\ will = "forgotten" => agent = "stopped"
    /\ token["stopper"] # 0 /\ connected /\ link = "up" /\ will = "kept" =>
          /\ at["stopper"] \in {"disconnecting", "ending"} => WillAhead(Len(queue))
          /\ \A i \in 1..Len(queue) : queue[i].type = "bye" => WillAhead(i - 1)

(* The broker forgets a will only when it is told to.                      *)
LEMMA Forgets ==
    ASSUME [Next]_vars, will' = "forgotten", will # "forgotten"
    PROVE  /\ queue # <<>> /\ First.type = "bye"
           /\ connected /\ link = "up" /\ will = "kept"
<1> DEFINE Goal == /\ queue # <<>> /\ First.type = "bye"
                   /\ connected /\ link = "up" /\ will = "kept"
<1> SUFFICES Goal
  OBVIOUS
<1> USE DEF agentVars, idVars, attemptVars, threadVars, socketVars, brokerVars
<1>1. CASE Start
  BY <1>1 DEF Start
<1>2. CASE Offer
  BY <1>2 DEF Offer
<1>3. CASE Heartbeat
  BY <1>3 DEF Heartbeat
<1>4. CASE Connect
  BY <1>4 DEF Connect
<1>5. ASSUME NEW s \in Senders, GiveUp(s) PROVE Goal
  BY <1>5 DEF GiveUp
<1>6. ASSUME NEW s \in Senders, AssignId(s) PROVE Goal
  BY <1>6 DEF AssignId
<1>7. ASSUME NEW s \in Senders, AddMessage(s) PROVE Goal
  BY <1>7 DEF AddMessage
<1>8. CASE BeginStop
  BY <1>8 DEF BeginStop
<1>9. CASE StopConnector
  BY <1>9 DEF StopConnector
<1>10. CASE Disconnect
  BY <1>10 DEF Disconnect, LookAgain, AddBye
<1>11. CASE IgnoreConnect
  BY <1>11 DEF IgnoreConnect
<1>12. CASE OpenSocket
  BY <1>12 DEF OpenSocket
<1>13. CASE OpenSocketFails
  BY <1>13 DEF OpenSocketFails
<1>14. CASE ProcessDisconnect
  BY <1>14 DEF ProcessDisconnect, Ready, CloseOnly, WillAfter, Kind
<1>15. CASE Write
  BY <1>15 DEF Write, Putdatas, Reaches
<1>16. CASE WriteFails
  BY <1>16 DEF WriteFails
<1>17. CASE CheckTimeouts
  BY <1>17 DEF CheckTimeouts, ConnectFails, CloseOnly, WillAfter
<1>18. CASE TcpDone
  BY <1>18 DEF TcpDone, ConnectFails, CloseOnly, WillAfter, SendConnect
<1>19. CASE ReceiveAnswer
  BY <1>19 DEF ReceiveAnswer
<1>20. CASE ReceivePuback
  BY <1>20 DEF ReceivePuback
<1>21. CASE ReceivePingresp
  BY <1>21 DEF ReceivePingresp
<1>22. CASE ReceiveRequest
  BY <1>22 DEF ReceiveRequest
<1>23. CASE TcpFails
  BY <1>23 DEF TcpFails, ConnectFails, CloseOnly, WillAfter
<1>24. CASE ReadError
  BY <1>24 DEF ReadError, ConnectFails, CloseOnly, WillAfter
<1>25. CASE Keepalive
  BY <1>25 DEF Keepalive
<1>26. CASE ContinueWrite
  BY <1>26 DEF ContinueWrite, Reaches
<1>27. CASE HandleUnknown
  BY <1>27 DEF HandleUnknown
<1>28. CASE HandleError
  BY <1>28 DEF HandleError, CloseOnly, WillAfter
<1>29. CASE AddDisconnect
  BY <1>29 DEF AddDisconnect
<1>30. CASE HandleConnack
  BY <1>30 DEF HandleConnack
<1>31. CASE HandleRefusal
  BY <1>31 DEF HandleRefusal, ConnectFails, CloseOnly, WillAfter
<1>32. CASE HandleSuback
  BY <1>32 DEF HandleSuback
<1>33. CASE OnConnect
  BY <1>33 DEF OnConnect
<1>34. CASE Break
  BY <1>34 DEF Break
<1>35. CASE Request
  BY <1>35 DEF Request
<1>36. CASE Tick
  BY <1>36 DEF Tick
<1>37. CASE UNCHANGED vars
  BY <1>37 DEF vars
<1> QED
  BY <1>1, <1>2, <1>3, <1>4, <1>5, <1>6, <1>7, <1>8, <1>9, <1>10, <1>11, <1>12, <1>13, <1>14, <1>15, <1>16, <1>17, <1>18, <1>19, <1>20, <1>21, <1>22, <1>23, <1>24, <1>25, <1>26, <1>27, <1>28, <1>29, <1>30, <1>31, <1>32, <1>33, <1>34, <1>35, <1>36, <1>37
     DEF Next, Connector, SendThread, ReceiveThread, Receive, Handle, Network

(* Commands keep their order and do not get lost, but for the first one.   *)
Last == {"will", "bye"}

Shift(d) ==
    /\ \A j \in 1..Len(queue) : queue[j].type \in Last =>
          j + d \in 1..Len(queue') /\ queue'[j + d] = queue[j]
    /\ \A i \in 1..Len(queue') : queue'[i].type = "bye" =>
          \/ i - d \in 1..Len(queue) /\ queue[i - d] = queue'[i]
          \/ d = 0 /\ i = Len(queue) + 1 /\ at["stopper"] \in {"disconnecting", "ending"}

LEMMA QueueShifts ==
    ASSUME TypeInv,
           \/ Continues /\ link = "up"
           \/ queue # <<>> /\ First.type \notin Last /\ queue' = Tail(queue)
    PROVE  \E d \in {-1, 0, 1} : Shift(d)
<1>t. queue \in Seq(Commands) /\ Len(queue) \in Nat
  BY LenProperties DEF TypeInv, TypeOK
<1>1. CASE queue' = queue
  <2>1. \A j \in 1..Len(queue) : j + 0 = j /\ j - 0 = j
    BY <1>t
  <2>2. Shift(0)
    BY <1>1, <2>1 DEF Shift
  <2> QED
    BY <2>2
<1>2. ASSUME NEW c \in Heads, queue' = AddHead(c, queue)
      PROVE  \E d \in {-1, 0, 1} : Shift(d)
  <2>1. CASE queue' = <<c>> \o queue
    <3>1. c \in Commands /\ c.type \notin Last
      BY HeadsTyped DEF Last
    <3>2. /\ Len(queue') = Len(queue) + 1 /\ queue'[1] = c
          /\ \A i \in 2..(Len(queue) + 1) : queue'[i] = queue[i - 1]
      BY <1>t, <2>1, <3>1, Pushed
    <3>3. ASSUME NEW j \in 1..Len(queue)
          PROVE  j + 1 \in 1..Len(queue') /\ queue'[j + 1] = queue[j]
      <4>1. j + 1 \in 2..(Len(queue) + 1) /\ (j + 1) - 1 = j
        BY <1>t
      <4>2. queue'[j + 1] = queue[(j + 1) - 1]
        BY <3>2, <4>1
      <4> QED
        BY <1>t, <3>2, <4>1, <4>2
    <3>4. ASSUME NEW i \in 1..Len(queue'), queue'[i].type = "bye"
          PROVE  i - 1 \in 1..Len(queue) /\ queue[i - 1] = queue'[i]
      <4>1. i # 1
        BY <3>1, <3>2, <3>4 DEF Last
      <4>2. i \in 2..(Len(queue) + 1) /\ i - 1 \in 1..Len(queue)
        BY <1>t, <3>2, <4>1
      <4> QED
        BY <3>2, <4>2
    <3>5. Shift(1)
      BY <3>3, <3>4 DEF Shift
    <3> QED
      BY <3>5
  <2> QED
    BY <1>1, <1>2, <2>1 DEF AddHead
<1>3. CASE queue # <<>> /\ First.type \notin Last /\ queue' = Tail(queue)
  <2>1. /\ Len(queue) > 0 /\ Len(queue') = Len(queue) - 1
        /\ \A i \in 1..Len(queue') : queue'[i] = queue[i + 1]
    BY <1>t, <1>3, Popped
  <2>2. ASSUME NEW j \in 1..Len(queue), queue[j].type \in Last
        PROVE  j + (-1) \in 1..Len(queue') /\ queue'[j + (-1)] = queue[j]
    <3>1. j # 1
      BY <1>3, <2>2 DEF First
    <3>2. j + (-1) \in 1..Len(queue') /\ (j + (-1)) + 1 = j
      BY <1>t, <2>1, <3>1
    <3> QED
      BY <2>1, <3>2
  <2>3. ASSUME NEW i \in 1..Len(queue')
        PROVE  i - (-1) \in 1..Len(queue) /\ queue[i - (-1)] = queue'[i]
    <3>1. i - (-1) = i + 1 /\ i + 1 \in 1..Len(queue)
      BY <1>t, <2>1
    <3> QED
      BY <2>1, <3>1
  <2>4. Shift(-1)
    BY <2>2, <2>3 DEF Shift
  <2> QED
    BY <2>4
<1>4. ASSUME NEW c \in Commands, queue' = Append(queue, c),
             c \in Byes => at["stopper"] \in {"disconnecting", "ending"}
      PROVE  \E d \in {-1, 0, 1} : Shift(d)
  <2>1. /\ Len(queue') = Len(queue) + 1 /\ queue'[Len(queue) + 1] = c
        /\ \A i \in 1..Len(queue) : queue'[i] = queue[i]
    BY <1>t, <1>4, Appended
  <2>2. \A j \in 1..Len(queue) : j + 0 \in 1..Len(queue') /\ queue'[j + 0] = queue[j]
    <3>1. \A j \in 1..Len(queue) : j + 0 = j /\ j \in 1..Len(queue')
      BY <1>t, <2>1
    <3> QED
      BY <2>1, <3>1
  <2>3. ASSUME NEW i \in 1..Len(queue'), queue'[i].type = "bye"
        PROVE  \/ i - 0 \in 1..Len(queue) /\ queue[i - 0] = queue'[i]
               \/ 0 = 0 /\ i = Len(queue) + 1 /\ at["stopper"] \in {"disconnecting", "ending"}
    <3>1. CASE i = Len(queue) + 1
      BY <1>4, <2>1, <2>3, <3>1 DEF Byes
    <3>2. CASE i # Len(queue) + 1
      <4>1. i - 0 = i /\ i \in 1..Len(queue)
        BY <1>t, <2>1, <3>2
      <4> QED
        BY <2>1, <4>1
    <3> QED
      BY <3>1, <3>2
  <2>4. Shift(0)
    BY <2>2, <2>3 DEF Shift
  <2> QED
    BY <2>4
<1>5. CASE Continues /\ link = "up"
  <2>1. QueueKeeps
    BY <1>5 DEF Continues
  <2>2. "connect" \notin Last
    BY DEF Last
  <2> QED
    BY <1>1, <1>2, <1>3, <1>4, <1>5, <2>1, <2>2 DEF QueueKeeps
<1> QED
  BY <1>3, <1>5

LEMMA StopperMoves ==
    ASSUME Posix, TypeInv, StopInv, [Next]_vars, token'["stopper"] # 0
    PROVE  \/ agent' = "stopping" /\ at'["stopper"] = "numbered"
           \/ /\ token["stopper"] # 0
              /\ at'["stopper"] \in {"disconnecting", "ending"} =>
                    at["stopper"] \in {"disconnecting", "ending"} \/ AddMessage("stopper")
<1> USE DEF TypeInv, TypeOK, Shape, Senders, StopInv, CallersInv
<1>1. CASE UNCHANGED callerVars
  BY <1>1 DEF callerVars
<1>2. CASE Connector
  BY <1>2 DEF Connector, Start, Offer, Heartbeat, Connect, BeginStop,
     StopConnector, Disconnect, LookAgain, AddBye, GiveUp, AssignId, AddMessage, After
<1> QED
  BY <1>1, <1>2, AgentMoves

LEMMA WillStep ==
    Posix /\ TypeInv /\ SessionInv /\ StopInv /\ NoReturn /\ OpeningInv /\ WillInv
        /\ [Next]_vars => WillInv'
<1> SUFFICES ASSUME Posix, TypeInv, SessionInv, StopInv, NoReturn, OpeningInv,
                    WillInv, [Next]_vars
             PROVE  WillInv'
  OBVIOUS
<1>t. queue \in Seq(Commands) /\ Len(queue) \in Nat
  BY LenProperties DEF TypeInv, TypeOK
<1>s. StopInv'
  BY StopStep
<1>1. ASSUME will' = "forgotten"
      PROVE  token'["stopper"] = 0 /\ agent' = "stopped"
  <2>1. agent = "stopped" /\ token["stopper"] = 0
    <3>1. CASE will = "forgotten"
      BY <3>1 DEF WillInv, WillIsNotForgotten
    <3>2. CASE will # "forgotten"
      <4>1. /\ queue # <<>> /\ First.type = "bye"
            /\ connected /\ link = "up" /\ will = "kept"
        BY <1>1, <3>2, Forgets
      <4>2. 1 \in 1..Len(queue) /\ queue[1].type = "bye"
        BY <1>t, <4>1, EmptySeq DEF First
      <4>3. ~WillAhead(1 - 1)
        BY DEF WillAhead
      <4> QED
        BY <4>1, <4>2, <4>3 DEF WillInv, StopInv, ByesInv
    <3> QED
      BY <3>1, <3>2
  <2>2. at["stopper"] = "idle" /\ at["publisher"] = "idle"
    BY <2>1 DEF StopInv, CallersInv, TypeInv, TypeOK, Senders
  <2>3. agent' = agent /\ token' = token
    BY <2>1, <2>2, AgentMoves DEF callerVars, Connector, Start, Offer, Heartbeat, Connect,
       BeginStop, StopConnector, Disconnect, LookAgain, AddBye, GiveUp, AssignId, AddMessage, Senders
  <2> QED
    BY <2>1, <2>3
<1> DEFINE Ahead == /\ at'["stopper"] \in {"disconnecting", "ending"} => WillAhead(Len(queue))'
                    /\ \A i \in 1..Len(queue') : queue'[i].type = "bye" => WillAhead(i - 1)'
<1>2. ASSUME token'["stopper"] # 0, connected', link' = "up", will' = "kept"
      PROVE  Ahead
  <2>1. CASE agent' = "stopping" /\ at'["stopper"] = "numbered"
    BY <1>s, <2>1 DEF StopInv, ByesInv
  <2>2. CASE /\ token["stopper"] # 0
             /\ at'["stopper"] \in {"disconnecting", "ending"} =>
                    at["stopper"] \in {"disconnecting", "ending"} \/ AddMessage("stopper")
    <3>0. Committed
      BY <2>2 DEF Committed
    <3>1. ~HandleConnack
      BY <3>0 DEF HandleConnack, Handling, NoReturn, SessionInv, Welcomes
    <3>2. ~OnConnect
      BY <3>0 DEF OnConnect, OpeningInv, TypeInv, TypeOK
    <3>3. /\ connected /\ link = "up" /\ will = "kept"
          /\ \E d \in {-1, 0, 1} : Shift(d)
      <4>1. CASE Write
        <5>1. /\ queue # <<>> /\ queue' = Tail(queue) /\ First.type \in Messages
              /\ connected /\ link' = link /\ Putdatas(First)
          BY <4>1 DEF Write, Ready, Messages
        <5>2. will = "kept" /\ First.type # "will"
          BY <1>2, <5>1 DEF Putdatas, Reaches, brokerVars
        <5>3. First.type \notin Last
          BY <5>1, <5>2 DEF Last, Messages, Subscribes, Publishes
        <5> QED
          BY <1>2, <5>1, <5>2, <5>3, QueueShifts
      <4>2. CASE ContinueWrite
        <5>1. /\ queue' = queue /\ connected /\ will = "kept" /\ link = "up"
          BY <1>2, <4>2 DEF ContinueWrite, Reaches, attemptVars
        <5>2. \A j \in 1..Len(queue) : j + 0 = j /\ j - 0 = j
          BY <1>t
        <5>3. Shift(0)
          BY <5>1, <5>2 DEF Shift
        <5> QED
          BY <5>1, <5>3
      <4>3. CASE Continues
        BY <1>2, <4>3, QueueShifts DEF Continues
      <4> QED
        BY <1>2, <3>1, <3>2, <4>1, <4>2, <4>3, SessionContinues
    <3>4. PICK d \in {-1, 0, 1} : Shift(d)
      BY <3>3
    <3>5. /\ at["stopper"] \in {"disconnecting", "ending"} => WillAhead(Len(queue))
          /\ \A i \in 1..Len(queue) : queue[i].type = "bye" => WillAhead(i - 1)
      BY <2>2, <3>3 DEF WillInv
    <3>6. ASSUME WillAhead(Len(queue)) PROVE \E j \in 1..Len(queue') : queue'[j].type = "will"
      BY <3>4, <3>6 DEF WillAhead, Shift, Last
    <3>7. at'["stopper"] \in {"disconnecting", "ending"} => \E j \in 1..Len(queue') : queue'[j].type = "will"
      <4>1. ASSUME AddMessage("stopper")
            PROVE  \E j \in 1..Len(queue') : queue'[j].type = "will"
        <5> DEFINE c == Command("will", token["stopper"], 0)
        <5>1. queue' = Append(queue, c) /\ c \in Commands /\ c.type = "will"
          BY <4>1, ConstantsTyped
          DEF AddMessage, Command, Commands, Types, Messages, Publishes, TypeInv, TypeOK, Senders
        <5> HIDE DEF c
        <5>2. Len(queue') = Len(queue) + 1 /\ queue'[Len(queue) + 1] = c
          BY <1>t, <5>1, Appended
        <5>3. Len(queue) + 1 \in 1..Len(queue')
          BY <1>t, <5>2
        <5> QED
          BY <5>1, <5>2, <5>3
      <4> QED
        BY <2>2, <3>5, <3>6, <4>1
    <3>8. ASSUME NEW i \in 1..Len(queue'), queue'[i].type = "bye"
          PROVE  \E j \in 1..(i - 1) : queue'[j].type = "will"
      <4>1. \/ i - d \in 1..Len(queue) /\ queue[i - d] = queue'[i]
            \/ d = 0 /\ i = Len(queue) + 1 /\ at["stopper"] \in {"disconnecting", "ending"}
        BY <3>4, <3>8 DEF Shift
      <4>2. CASE i - d \in 1..Len(queue) /\ queue[i - d] = queue'[i]
        <5>1. PICK j \in 1..((i - d) - 1) : queue[j].type = "will"
          BY <3>5, <3>8, <4>2 DEF WillAhead
        <5>2. j \in 1..Len(queue) /\ j + d <= i - 1
          BY <1>t, <4>2, <5>1
        <5>3. j + d \in 1..Len(queue') /\ queue'[j + d].type = "will"
          BY <3>4, <5>1, <5>2 DEF Shift, Last
        <5>4. j + d \in 1..(i - 1)
          BY <5>2, <5>3
        <5> QED
          BY <5>3, <5>4
      <4>3. CASE d = 0 /\ i = Len(queue) + 1 /\ at["stopper"] \in {"disconnecting", "ending"}
        <5>1. PICK j \in 1..Len(queue) : queue[j].type = "will"
          BY <3>5, <4>3 DEF WillAhead
        <5>2. j + 0 = j /\ j \in 1..(i - 1)
          BY <1>t, <4>3
        <5>3. queue'[j] = queue[j]
          BY <3>4, <4>3, <5>1, <5>2 DEF Shift, Last
        <5> QED
          BY <5>1, <5>2, <5>3
      <4> QED
        BY <4>1, <4>2, <4>3
    <3> QED
      BY <3>7, <3>8 DEF WillAhead
  <2> QED
    BY <1>2, <2>1, <2>2, StopperMoves
<1> QED
  BY <1>1, <1>2 DEF WillInv, WillIsNotForgotten, WillAhead

LEMMA WillInit == Init => WillInv
BY DEF Init, WillInv, WillIsNotForgotten

(* Where the publisher is cancelled before the connector stops, the broker *)
(* is told to forget a session's will only after the agent has published   *)
(* it: from the check for a connection to the DISCONNECT no other session  *)
(* and no other command gets in between.                                   *)
THEOREM WillIsPublished ==
    ASSUME Posix, MaxId > 2
    PROVE  Spec => []WillIsNotForgotten
<1> DEFINE All == TypeInv /\ SessionInv /\ StopInv /\ NoReturn /\ OpeningInv /\ WillInv
<1>1. Init => All
  BY TypeInit, SessionInit, StopInit, OpeningInit, WillInit
<1>2. All /\ [Next]_vars => All'
  BY TypeStep, SessionStep, StopStep, NoReturnStep, OpeningStep, WillStep
<1>3. All => WillIsNotForgotten
  BY DEF WillInv
<1> QED
  BY <1>1, <1>2, <1>3, PTL DEF Spec

(***************************************************************************)
(* Ids: the search begins after the last one given and goes round.         *)
(***************************************************************************)
LEMMA Remainders ==
    ASSUME NEW n \in Nat, n > 0, NEW a \in Nat, a < n
    PROVE  a % n = a /\ (a + n) % n = a
OBVIOUS

LEMMA NextIdComesFirst ==
    ASSUME msgID \in 0..MaxId, NextId # 0, NEW j \in FreeIds
    PROVE  /\ msgID < NextId => ~(msgID < j /\ j < NextId)
           /\ NextId < msgID => j <= msgID /\ NextId <= j
<1> DEFINE key(i) == (i + MaxId - msgID - 1) % MaxId
<1>0. MaxId \in Nat /\ MaxId > 0
  BY MqttAssumption
<1>1. NextId \in FreeIds /\ FreeIds \subseteq 1..MaxId
  BY NextIdIsFree DEF FreeIds, Ids
<1>2. NextId = CHOOSE i \in FreeIds : \A k \in FreeIds : key(i) <= key(k)
  BY <1>1 DEF NextId
<1>3. \A i \in 1..MaxId : /\ key(i) \in Nat
                          /\ i > msgID => key(i) = i - msgID - 1
                          /\ i <= msgID => key(i) = i + MaxId - msgID - 1
  <2> SUFFICES ASSUME NEW i \in 1..MaxId
               PROVE  /\ key(i) \in Nat
                      /\ i > msgID => key(i) = i - msgID - 1
                      /\ i <= msgID => key(i) = i + MaxId - msgID - 1
    OBVIOUS
  <2>1. CASE i > msgID
    <3>1. i - msgID - 1 \in Nat /\ i - msgID - 1 < MaxId
      BY <1>0, <2>1
    <3>2. i + MaxId - msgID - 1 = (i - msgID - 1) + MaxId
      BY <1>0
    <3> QED
      BY <1>0, <2>1, <3>1, <3>2, Remainders
  <2>2. CASE i <= msgID
    <3>1. i + MaxId - msgID - 1 \in Nat /\ i + MaxId - msgID - 1 < MaxId
      BY <1>0, <2>2
    <3> QED
      BY <1>0, <2>2, <3>1, Remainders
  <2> QED
    BY <1>0, <2>1, <2>2
<1> HIDE DEF key
<1>4. \E i \in FreeIds : \A k \in FreeIds : key(i) <= key(k)
  <2> DEFINE keys == {key(i) : i \in FreeIds}
  <2>1. keys \in SUBSET Nat /\ keys # {}
    BY <1>1, <1>3
  <2>2. PICK n \in keys : \A k \in keys : n <= k
    <3> HIDE DEF keys
    <3> QED
      BY <2>1, HasLeast
  <2> QED
    BY <2>2
<1>5. key(NextId) <= key(j)
  BY <1>2, <1>4
<1>6. j \in 1..MaxId /\ NextId \in 1..MaxId
  BY <1>1
<1>7. j # msgID /\ NextId # msgID
  BY <1>1 DEF FreeIds
<1>8. CASE msgID < NextId
  BY <1>0, <1>3, <1>5, <1>6, <1>7, <1>8
<1>9. CASE NextId < msgID
  BY <1>0, <1>3, <1>5, <1>6, <1>7, <1>9
<1> QED
  BY <1>0, <1>6, <1>7, <1>8, <1>9

(* The requests that may still have to be answered.                        *)
Requests(q) == {i \in 1..Len(q) : q[i].kind = "request"}
LeftOf(q, r) == Cardinality(Requests(q)) + (MaxRequests - r)
Left == LeftOf(inbox, requests)

(* While a sender holds an id that is in no queue yet, there are ids for    *)
(* the requests that may come meanwhile, or there is at most one.          *)
IdsSuffice ==
    \A s \in Senders : at[s] = "numbered" =>
        Left <= 1 \/ Cardinality(Taken \ {0}) + Left < MaxId

(* The ids given since t was; until they and those taken are all the       *)
(* others, the search does not come back to t.                             *)
Passed(t) ==
    IF t <= msgID THEN (t + 1)..msgID ELSE ((t + 1)..MaxId) \cup (1..msgID)

Room(t) ==
    \E D \in SUBSET (Ids \ {t}) :
        /\ Taken \ {0} \subseteq D /\ Passed(t) \subseteq D
        /\ Cardinality(D) + Left < MaxId \/ (msgID = t /\ Left <= 1)

LEMMA IdsFinite ==
    /\ IsFiniteSet(Ids) /\ Cardinality(Ids) = MaxId
    /\ \A D : D \subseteq Ids => IsFiniteSet(D) /\ Cardinality(D) \in Nat
<1>1. MaxId \in Int /\ 1 \in Int /\ 1 <= MaxId /\ (MaxId - 1) + 1 = MaxId
  BY MqttAssumption
<1>2. IsFiniteSet(1..MaxId) /\ Cardinality(1..MaxId) = MaxId
  BY <1>1, FS_Interval
<1> QED
  BY <1>2, FS_Subset, FS_CardinalityType DEF Ids

LEMMA RoomStays ==
    ASSUME NEW t \in Ids, Room(t), Taken' \subseteq Taken \cup {0}, msgID' = msgID,
           Left \in Nat, Left' \in Nat, Left' <= Left
    PROVE  Room(t)'
<1>1. PICK D \in SUBSET (Ids \ {t}) :
         /\ Taken \ {0} \subseteq D /\ Passed(t) \subseteq D
         /\ Cardinality(D) + Left < MaxId \/ (msgID = t /\ Left <= 1)
  BY DEF Room
<1>2. Cardinality(D) \in Nat
  BY IdsFinite
<1>3. Taken' \ {0} \subseteq D /\ Passed(t)' \subseteq D
  BY <1>1 DEF Passed
<1>4. Cardinality(D) + Left' < MaxId \/ (msgID' = t /\ Left' <= 1)
  <2>1. MaxId \in Nat
    BY MqttAssumption
  <2> QED
    BY <1>1, <1>2, <2>1
<1> QED
  BY <1>3, <1>4 DEF Room

LEMMA RoomAtFirst ==
    ASSUME NEW t \in Ids, t \notin Taken', msgID' = t, Taken' \subseteq 0..MaxId,
           Left' <= 1 \/ Cardinality(Taken' \ {0}) + Left' < MaxId
    PROVE  Room(t)'
<1> DEFINE D == Taken' \ {0}
<1>1. D \in SUBSET (Ids \ {t})
  BY MqttAssumption DEF Ids
<1>2. Passed(t)' \subseteq D
  BY MqttAssumption DEF Passed, Ids
<1> QED
  BY <1>1, <1>2 DEF Room

LEMMA RoomTaken ==
    ASSUME NEW t \in Ids, Room(t), msgID \in 0..MaxId, Taken \subseteq 0..MaxId,
           NextId # 0, Taken' \subseteq Taken \cup {NextId}, msgID' = NextId,
           Left \in Nat, Left' \in Nat, Left' <= Left - 1
    PROVE  NextId # t /\ Room(t)'
<1>0. MaxId \in Nat /\ MaxId > 0
  BY MqttAssumption
<1>1. PICK D \in SUBSET (Ids \ {t}) :
         /\ Taken \ {0} \subseteq D /\ Passed(t) \subseteq D
         /\ Cardinality(D) + Left < MaxId \/ (msgID = t /\ Left <= 1)
  BY DEF Room
<1>2. IsFiniteSet(D) /\ Cardinality(D) \in Nat /\ t \notin D
  BY <1>1, IdsFinite
<1>3. /\ NextId \in Ids /\ NextId \notin Taken /\ NextId # msgID
      /\ \A j \in FreeIds : /\ msgID < NextId => ~(msgID < j /\ j < NextId)
                            /\ NextId < msgID => j <= msgID /\ NextId <= j
  <2>1. NextId \in FreeIds
    BY NextIdIsFree
  <2> QED
    BY <2>1, NextIdComesFirst DEF FreeIds
<1>4. NextId # t
  <2>1. CASE msgID = t
    BY <1>3, <2>1
  <2>2. CASE msgID # t
    <3>1. Cardinality(D \cup {t}) < MaxId
      <4>1. Cardinality(D \cup {t}) = Cardinality(D) + 1
        BY <1>2, FS_AddElement
      <4> QED
        BY <1>0, <1>1, <1>2, <2>2, <4>1
    <3>2. PICK f \in Ids : f \notin D \cup {t}
      <4>1. Cardinality(D \cup {t}) \in Nat
        BY IdsFinite
      <4>2. Cardinality(D \cup {t}) # MaxId
        BY <1>0, <3>1, <4>1
      <4>3. D \cup {t} # Ids
        BY <4>2, IdsFinite, Zenon
      <4> QED
        BY <4>3
    <3>3. msgID = 0 \/ msgID \in D
      <4>1. CASE msgID # 0
        <5>1. msgID \in Passed(t)
          BY <1>0, <2>2, <4>1 DEF Passed, Ids
        <5> QED
          BY <1>1, <5>1
      <4> QED
        BY <4>1
    <3>4. f \in FreeIds /\ f \notin Passed(t)
      BY <1>1, <3>2, <3>3 DEF FreeIds, Ids
    <3>5. SUFFICES ASSUME NextId = t PROVE FALSE
      OBVIOUS
    <3> QED
      BY <1>0, <1>3, <2>2, <3>2, <3>4, <3>5 DEF Passed, Ids
  <2> QED
    BY <2>1, <2>2
<1> DEFINE E == D \cup {NextId}
<1>5. E \in SUBSET (Ids \ {t}) /\ Taken' \ {0} \subseteq E
  BY <1>1, <1>3, <1>4
<1>6. Passed(t)' \subseteq E
  <2> SUFFICES ASSUME NEW j \in Passed(t)', j # NextId PROVE j \in D
    OBVIOUS
  <2>1. j \in Ids /\ j # t
    BY <1>0, <1>3, <1>4 DEF Passed, Ids
  <2>2. CASE j \in Passed(t)
    BY <1>1, <2>2
  <2>3. CASE j \notin Passed(t)
    <3>1. j \notin FreeIds
      BY <1>0, <1>3, <1>4, <2>1, <2>3 DEF Passed, Ids
    <3>2. j \in Taken \/ j = msgID
      BY <2>1, <3>1 DEF FreeIds
    <3>3. j # msgID
      BY <1>0, <2>1, <2>3 DEF Passed, Ids
    <3> QED
      BY <1>0, <1>1, <2>1, <3>2, <3>3 DEF Ids
  <2> QED
    BY <2>2, <2>3
<1>7. Cardinality(E) + Left' < MaxId \/ (msgID' = t /\ Left' <= 1)
  <2>1. Cardinality(E) <= Cardinality(D) + 1 /\ Cardinality(E) \in Nat
    BY <1>2, <1>5, IdsFinite, FS_AddElement
  <2>2. CASE Cardinality(D) + Left < MaxId
    BY <1>0, <1>2, <2>1, <2>2
  <2>3. CASE msgID = t /\ Left <= 1
    <3>1. Left' = 0
      BY <2>3
    <3>2. Cardinality(E) < MaxId
      <4>1. Cardinality(Ids \ {t}) = MaxId - 1 /\ IsFiniteSet(Ids \ {t})
        BY IdsFinite, FS_RemoveElement
      <4>2. Cardinality(E) <= Cardinality(Ids \ {t})
        BY <1>5, <4>1, FS_Subset
      <4> QED
        BY <1>0, <2>1, <4>1, <4>2
    <3> QED
      BY <2>1, <3>1, <3>2
  <2> QED
    BY <1>1, <2>2, <2>3
<1> QED
  BY <1>4, <1>5, <1>6, <1>7 DEF Room

LEMMA Counted ==
    ASSUME NEW q \in Seq(Packets)
    PROVE  /\ IsFiniteSet(Requests(q)) /\ Cardinality(Requests(q)) \in Nat
           /\ q = <<>> => Cardinality(Requests(q)) = 0
<1>1. Len(q) \in Nat
  BY LenProperties
<1>2. IsFiniteSet(1..Len(q)) /\ Requests(q) \subseteq 1..Len(q)
  BY <1>1, FS_Interval DEF Requests
<1>3. ASSUME q = <<>> PROVE Requests(q) = {}
  BY <1>3 DEF Requests
<1> QED
  BY <1>2, <1>3, FS_Subset, FS_CardinalityType, FS_EmptySet

LEMMA CountAppended ==
    ASSUME NEW q \in Seq(Packets), NEW p \in Packets
    PROVE  Cardinality(Requests(Append(q, p)))
              <= Cardinality(Requests(q)) + (IF p.kind = "request" THEN 1 ELSE 0)
<1>1. /\ Len(q) \in Nat /\ Len(Append(q, p)) = Len(q) + 1
      /\ Append(q, p)[Len(q) + 1] = p
      /\ \A i \in 1..Len(q) : Append(q, p)[i] = q[i]
  BY Appended, LenProperties
<1>2. Requests(Append(q, p)) =
         Requests(q) \cup (IF p.kind = "request" THEN {Len(q) + 1} ELSE {})
  BY <1>1 DEF Requests
<1>3. IsFiniteSet(Requests(q)) /\ Cardinality(Requests(q)) \in Nat
  BY Counted
<1>4. CASE p.kind = "request"
  <2>1. Requests(Append(q, p)) = Requests(q) \cup {Len(q) + 1}
    BY <1>2, <1>4
  <2>2. Len(q) + 1 \notin Requests(q)
    BY <1>1 DEF Requests
  <2>3. Cardinality(Requests(Append(q, p))) = Cardinality(Requests(q)) + 1
    BY <1>3, <2>1, <2>2, FS_AddElement
  <2> QED
    BY <1>3, <1>4, <2>3
<1>5. CASE p.kind # "request"
  <2>1. Requests(Append(q, p)) = Requests(q)
    BY <1>2, <1>5
  <2> QED
    BY <1>3, <1>5, <2>1
<1> QED
  BY <1>4, <1>5

LEMMA CountPopped ==
    ASSUME NEW q \in Seq(Packets), q # <<>>
    PROVE  /\ Cardinality(Requests(Tail(q))) <= Cardinality(Requests(q))
           /\ q[1].kind = "request" =>
                Cardinality(Requests(Tail(q))) <= Cardinality(Requests(q)) - 1
<1>1. /\ Len(q) \in Nat /\ Len(q) > 0 /\ Len(Tail(q)) = Len(q) - 1
      /\ Tail(q) \in Seq(Packets)
      /\ \A i \in 1..Len(Tail(q)) : Tail(q)[i] = q[i + 1]
  BY Popped
<1> DEFINE T == Requests(q) \ {1}
           f == [i \in Requests(Tail(q)) |-> i + 1]
<1>2. \A i \in Requests(Tail(q)) : i \in Nat /\ i + 1 \in T
  BY <1>1 DEF Requests
<1>3. f \in Injection(Requests(Tail(q)), T)
  BY <1>2 DEF Injection, IsInjective
<1>4. IsFiniteSet(Requests(q)) /\ Cardinality(Requests(q)) \in Nat
  BY Counted
<1>5. /\ IsFiniteSet(T)
      /\ Cardinality(T) = IF 1 \in Requests(q) THEN Cardinality(Requests(q)) - 1
                          ELSE Cardinality(Requests(q))
  BY <1>4, FS_RemoveElement
<1>6. Cardinality(Requests(Tail(q))) <= Cardinality(T)
  <2> HIDE DEF f, T
  <2> QED
    BY <1>3, <1>5, FS_Injection
<1>7. q[1].kind = "request" => 1 \in Requests(q)
  BY <1>1 DEF Requests
<1>8. Cardinality(Requests(Tail(q))) \in Nat
  BY <1>1, Counted
<1> HIDE DEF T, f
<1> QED
  BY <1>4, <1>5, <1>6, <1>7, <1>8

(* Every command of the client has its own id, but for those that change   *)
(* the connection, which have none.                                        *)
Distinct ==
    /\ \A i, j \in 1..Len(queue) :
          queue[i].token # 0 /\ queue[i].token = queue[j].token => i = j
    /\ \A i \in 1..Len(queue), c \in responses : c.token # queue[i].token
    /\ \A c, d \in responses : c.token = d.token => c = d
    /\ \A c \in responses : c.token # 0
    /\ \A i \in 1..Len(queue) : queue[i].type \in Messages => queue[i].token # 0

LEMMA DistinctShifted ==
    ASSUME TypeInv, Distinct, Shifted(queue'), responses' \subseteq responses
    PROVE  Distinct' /\ Taken' \subseteq Taken \cup {0}
<1>1. PICK k \in {-1, 0, 1} : \A i \in 1..Len(queue') :
         \/ i + k \in 1..Len(queue) /\ queue'[i] = queue[i + k]
         \/ i = 1 /\ queue'[i] \in Heads
  BY DEF Shifted
<1>2. \A c \in Heads : c.token = 0 /\ c.type \notin Messages
  BY HeadsTyped DEF Messages, Subscribes, Publishes
<1>3. ASSUME NEW i \in 1..Len(queue'), NEW j \in 1..Len(queue'),
             queue'[i].token # 0, queue'[i].token = queue'[j].token
      PROVE  i = j
  <2>1. /\ i + k \in 1..Len(queue) /\ queue'[i] = queue[i + k]
        /\ j + k \in 1..Len(queue) /\ queue'[j] = queue[j + k]
    BY <1>1, <1>2, <1>3
  <2>2. i + k = j + k
    BY <1>3, <2>1 DEF Distinct
  <2> QED
    BY <2>2
<1>4. ASSUME NEW i \in 1..Len(queue')
      PROVE  /\ queue'[i].token = 0 \/ \E j \in 1..Len(queue) : queue'[i] = queue[j]
             /\ queue'[i].type \in Messages =>
                   \E j \in 1..Len(queue) : queue'[i] = queue[j]
  BY <1>1, <1>2
<1>5. Distinct'
  BY <1>3, <1>4 DEF Distinct
<1>6. Taken' \subseteq Taken \cup {0}
  BY <1>4 DEF Taken
<1> QED
  BY <1>5, <1>6

LEMMA DistinctAppended ==
    ASSUME TypeInv, Distinct, NEW c \in Commands, queue' = Append(queue, c),
           responses' = responses,
           \/ c.token # 0 /\ c.token \notin Taken
           \/ c.token = 0 /\ c.type \notin Messages
    PROVE  Distinct' /\ Taken' = Taken \cup {c.token}
<1>1. /\ Len(queue) \in Nat /\ Len(queue') = Len(queue) + 1
      /\ queue'[Len(queue) + 1] = c
      /\ \A i \in 1..Len(queue) : queue'[i] = queue[i]
  BY Appended, LenProperties DEF TypeInv, TypeOK
<1>2. \A i \in 1..Len(queue') : i \in 1..Len(queue) \/ i = Len(queue) + 1
  BY <1>1
<1>3. /\ \A i \in 1..Len(queue) : queue[i].token = c.token => c.token = 0
      /\ \A d \in responses : d.token # c.token
  BY DEF Taken, Distinct
<1>4. Distinct'
  BY <1>1, <1>2, <1>3 DEF Distinct
<1>5. Taken' = Taken \cup {c.token}
  BY TakenAppended
<1> QED
  BY <1>4, <1>5

LEMMA DistinctWritten ==
    ASSUME TypeInv, Distinct, Write
    PROVE  /\ Distinct' /\ Taken' \subseteq Taken
           /\ First \in Commands /\ First.token # 0
           /\ \A c \in responses : c.token # First.token
<1>1. /\ queue # <<>> /\ First.type \in Messages /\ queue' = Tail(queue)
      /\ responses' = responses \cup {First}
  BY DEF Write, Ready
<1>2. /\ Len(queue) \in Nat /\ Len(queue) > 0 /\ Len(queue') = Len(queue) - 1
      /\ \A i \in 1..Len(queue') : queue'[i] = queue[i + 1]
  BY <1>1, Popped DEF TypeInv, TypeOK
<1>3. \A i \in 1..Len(queue') : i + 1 \in 1..Len(queue) /\ i + 1 # 1
  BY <1>2
<1>4. 1 \in 1..Len(queue) /\ First = queue[1]
  BY <1>2 DEF First
<1>5. First.token # 0 /\ \A c \in responses : c.token # First.token
  BY <1>1, <1>4 DEF Distinct
<1>6. \A i \in 1..Len(queue') : queue'[i].token # First.token
  BY <1>2, <1>3, <1>4, <1>5 DEF Distinct
<1>7. ASSUME NEW i \in 1..Len(queue'), NEW j \in 1..Len(queue'),
             queue'[i].token # 0, queue'[i].token = queue'[j].token
      PROVE  i = j
  <2>1. i + 1 = j + 1
    BY <1>2, <1>3, <1>7 DEF Distinct
  <2> QED
    BY <2>1
<1>8. Distinct'
  BY <1>1, <1>2, <1>3, <1>5, <1>6, <1>7 DEF Distinct
<1>9. Taken' \subseteq Taken
  BY <1>1, <1>2, <1>3, <1>4 DEF Taken
<1> QED
  BY <1>1, <1>5, <1>8, <1>9, FirstTyped

(***************************************************************************)
(* While a session goes on, few actions change what is in flight or what   *)
(* has come from the broker.                                               *)
(***************************************************************************)
Keeps ==
    /\ UNCHANGED <<responses, outbound, arrived, partial>>
    /\ link' = "up" => link = "up"
    /\ got' = got \/ got'.kind # "suback"
    /\ \/ inbox' \in {inbox, <<>>} /\ requests' = requests
       \/ /\ inbox # <<>> /\ inbox[1].kind \in {"pingresp", "request"}
          /\ inbox' = Tail(inbox) /\ requests' = requests
       \/ \E p \in Packets :
             /\ inbox' = Append(inbox, p)
             /\ \/ p.kind = "pingresp" /\ requests' = requests
                \/ p.kind = "request" /\ requests' = requests + 1

Answering ==
    ContinueWrite \/ ReceiveAnswer \/ ReceivePuback \/ HandleSuback

LEMMA StepKeeps ==
    ASSUME TypeInv, SessionInv, [Next]_vars, connected, connected'
    PROVE  Keeps \/ Write \/ WriteFails \/ Answering
<1> DEFINE Goal == Keeps \/ Write \/ WriteFails \/ Answering
<1> SUFFICES Goal
  OBVIOUS
<1> USE DEF SessionInv, Keeps, Answering, agentVars, idVars, attemptVars, threadVars,
            socketVars, brokerVars
<1>1. CASE Start
  BY <1>1 DEF Start
<1>2. CASE Offer
  BY <1>2 DEF Offer
<1>3. CASE Heartbeat
  BY <1>3 DEF Heartbeat
<1>4. CASE Connect
  BY <1>4 DEF Connect
<1>5. ASSUME NEW s \in Senders, GiveUp(s) PROVE Goal
  BY <1>5 DEF GiveUp
<1>6. ASSUME NEW s \in Senders, AssignId(s) PROVE Goal
  BY <1>6 DEF AssignId
<1>7. ASSUME NEW s \in Senders, AddMessage(s) PROVE Goal
  BY <1>7 DEF AddMessage
<1>8. CASE BeginStop
  BY <1>8 DEF BeginStop
<1>9. CASE StopConnector
  BY <1>9 DEF StopConnector
<1>10. CASE Disconnect
  BY <1>10 DEF Disconnect, LookAgain, AddBye
<1>11. CASE IgnoreConnect
  BY <1>11 DEF IgnoreConnect
<1>12. CASE OpenSocket
  BY <1>12 DEF OpenSocket
<1>13. CASE OpenSocketFails
  BY <1>13 DEF OpenSocketFails
<1>14. CASE ProcessDisconnect
  BY <1>14 DEF ProcessDisconnect, CloseOnly
<1>15. CASE Write
  BY <1>15 DEF Write
<1>16. CASE WriteFails
  BY <1>16 DEF WriteFails
<1>17. CASE CheckTimeouts
  BY <1>17 DEF CheckTimeouts, ConnectFails, CloseOnly, Welcomes
<1>18. CASE TcpDone
  BY <1>18 DEF TcpDone, ConnectFails, CloseOnly, Welcomes
<1>19. CASE ReceiveAnswer
  BY <1>19 DEF ReceiveAnswer
<1>20. CASE ReceivePuback
  BY <1>20 DEF ReceivePuback
<1>21. CASE ReceivePingresp
  BY <1>21 DEF ReceivePingresp, Arriving
<1>22. CASE ReceiveRequest
  BY <1>22 DEF ReceiveRequest, Arriving, Nothing
<1>23. CASE TcpFails
  BY <1>23 DEF TcpFails, ConnectFails, CloseOnly, Welcomes, Reading
<1>24. CASE ReadError
  BY <1>24 DEF ReadError, ConnectFails, CloseOnly, Welcomes, Reading
<1>25. CASE Keepalive
  <2>1. [kind |-> "pingresp", token |-> 0] \in Packets
    BY ConstantsTyped DEF Packets
  <2> QED
    BY <1>25, <2>1 DEF Keepalive
<1>26. CASE ContinueWrite
  BY <1>26 DEF ContinueWrite
<1>27. CASE HandleUnknown
  BY <1>27 DEF HandleUnknown, Nothing
<1>28. CASE HandleError
  BY <1>28 DEF HandleError, CloseOnly, Handling, TypeInv, TypeOK, Results
<1>29. CASE AddDisconnect
  BY <1>29 DEF AddDisconnect, Nothing
<1>30. CASE HandleConnack
  BY <1>30 DEF HandleConnack, Handling, Welcomes
<1>31. CASE HandleRefusal
  BY <1>31 DEF HandleRefusal, ConnectFails, CloseOnly, Welcomes
<1>32. CASE HandleSuback
  BY <1>32 DEF HandleSuback
<1>33. CASE OnConnect
  BY <1>33 DEF OnConnect
<1>34. CASE Break
  BY <1>34 DEF Break
<1>35. CASE Request
  <2>1. [kind |-> "request", token |-> 0] \in Packets
    BY ConstantsTyped DEF Packets
  <2> QED
    BY <1>35, <2>1 DEF Request
<1>36. CASE Tick
  BY <1>36 DEF Tick
<1>37. CASE UNCHANGED vars
  BY <1>37 DEF vars
<1> QED
  BY <1>1, <1>2, <1>3, <1>4, <1>5, <1>6, <1>7, <1>8, <1>9, <1>10, <1>11, <1>12, <1>13, <1>14, <1>15, <1>16, <1>17, <1>18, <1>19, <1>20, <1>21, <1>22, <1>23, <1>24, <1>25, <1>26, <1>27, <1>28, <1>29, <1>30, <1>31, <1>32, <1>33, <1>34, <1>35, <1>36, <1>37
     DEF Next, Connector, SendThread, ReceiveThread, Receive, Handle, Network

(* No session is left more requests than it had.                           *)
LEMMA LeftTyped ==
    ASSUME NEW q \in Seq(Packets), NEW r \in 0..MaxRequests
    PROVE  LeftOf(q, r) \in Nat /\ LeftOf(<<>>, r) <= LeftOf(q, r)
<1>1. /\ Cardinality(Requests(q)) \in Nat /\ MaxRequests \in Nat
      /\ Cardinality(Requests(<<>>)) = 0
  BY Counted, EmptySeq, ConstantsTyped
<1> QED
  BY <1>1 DEF LeftOf

LEMMA LeftPopped ==
    ASSUME NEW q \in Seq(Packets), NEW r \in 0..MaxRequests, q # <<>>
    PROVE  /\ LeftOf(Tail(q), r) <= LeftOf(q, r)
           /\ q[1].kind = "request" => LeftOf(Tail(q), r) <= LeftOf(q, r) - 1
<1>1. /\ Cardinality(Requests(q)) \in Nat /\ MaxRequests \in Nat
      /\ Cardinality(Requests(Tail(q))) \in Nat
  BY Counted, Popped, ConstantsTyped
<1> QED
  BY <1>1, CountPopped DEF LeftOf

LEMMA LeftAppended ==
    ASSUME NEW q \in Seq(Packets), NEW r \in 0..MaxRequests, NEW p \in Packets
    PROVE  /\ p.kind # "request" => LeftOf(Append(q, p), r) <= LeftOf(q, r)
           /\ LeftOf(Append(q, p), r + 1) <= LeftOf(q, r)
<1>1. /\ Cardinality(Requests(q)) \in Nat /\ MaxRequests \in Nat
      /\ Cardinality(Requests(Append(q, p))) \in Nat
  BY Counted, Appended, ConstantsTyped
<1> QED
  BY <1>1, CountAppended DEF LeftOf

LEMMA AnswerTyped ==
    ASSUME NEW c \in Commands
    PROVE  /\ Answer(c) \in Packets /\ Answer(c).token = c.token
           /\ Answer(c).kind = IF c.type \in Subscribes THEN "suback" ELSE "puback"
BY DEF Answer, Commands, Packets

LEMMA LeftStep ==
    ASSUME TypeInv, SessionInv, [Next]_vars, connected, connected'
    PROVE  /\ Left \in Nat /\ Left' \in Nat /\ Left' <= Left
           /\ ReceiveRequest => Left' <= Left - 1
<1>t. /\ inbox \in Seq(Packets) /\ requests \in 0..MaxRequests
      /\ inbox' \in Seq(Packets) /\ requests' \in 0..MaxRequests
  BY TypeStep DEF TypeInv, TypeOK
<1>1. Left = LeftOf(inbox, requests) /\ Left' = LeftOf(inbox', requests')
  BY DEF Left
<1>2. Left \in Nat /\ Left' \in Nat /\ Left <= Left
  BY <1>t, <1>1, LeftTyped
<1>3. ASSUME inbox' = inbox, requests' = requests PROVE Left' <= Left
  BY <1>1, <1>2, <1>3
<1>4. ASSUME inbox' = <<>>, requests' = requests PROVE Left' <= Left
  BY <1>t, <1>1, <1>4, LeftTyped
<1>5. ASSUME inbox # <<>>, inbox' = Tail(inbox), requests' = requests
      PROVE  Left' <= Left /\ (inbox[1].kind = "request" => Left' <= Left - 1)
  BY <1>t, <1>1, <1>5, LeftPopped
<1>6. ASSUME NEW p \in Packets, inbox' = Append(inbox, p),
             \/ p.kind # "request" /\ requests' = requests
             \/ requests' = requests + 1
      PROVE  Left' <= Left
  BY <1>t, <1>1, <1>6, LeftAppended
<1>7. ASSUME ReceiveRequest PROVE Left' <= Left - 1
  BY <1>5, <1>7 DEF ReceiveRequest, Arriving, brokerVars
<1>8. ASSUME Keeps PROVE Left' <= Left
  <2>1. CASE inbox' \in {inbox, <<>>} /\ requests' = requests
    BY <1>3, <1>4, <2>1
  <2>2. CASE inbox # <<>> /\ inbox' = Tail(inbox) /\ requests' = requests
    BY <1>5, <2>2
  <2>3. ASSUME NEW p \in Packets, inbox' = Append(inbox, p),
               \/ p.kind = "pingresp" /\ requests' = requests
               \/ p.kind = "request" /\ requests' = requests + 1
        PROVE  Left' <= Left
    BY <1>6, <2>3
  <2> QED
    BY <1>8, <2>1, <2>2, <2>3, Zenon DEF Keeps
<1>9. ASSUME WriteFails \/ HandleSuback PROVE Left' <= Left
  BY <1>3, <1>9 DEF WriteFails, HandleSuback, brokerVars
<1>10. ASSUME ReceiveAnswer \/ ReceivePuback PROVE Left' <= Left
  BY <1>5, <1>10 DEF ReceiveAnswer, ReceivePuback, Arriving, brokerVars
<1>11. ASSUME NEW c \in Commands, inbox' = Append(inbox, Answer(c)), requests' = requests
       PROVE  Left' <= Left
  <2>1. Answer(c) \in Packets /\ Answer(c).kind # "request"
    BY AnswerTyped
  <2> QED
    BY <1>6, <1>11, <2>1
<1>12. ASSUME Write PROVE Left' <= Left
  <2>1. First \in Commands
    BY <1>12, FirstTyped DEF Write, Ready
  <2>2. \/ inbox' = inbox /\ requests' = requests
        \/ inbox' = Append(inbox, Answer(First)) /\ requests' = requests
    BY <1>12 DEF Write, Putdatas, Reaches, brokerVars
  <2> QED
    BY <1>3, <1>11, <2>1, <2>2
<1>13. ASSUME ContinueWrite PROVE Left' <= Left
  <2>1. requests' = requests
    BY <1>13 DEF ContinueWrite
  <2>2. \/ inbox' = inbox
        \/ \E c \in Commands : inbox' = Append(inbox, Answer(c))
    BY <1>13 DEF ContinueWrite, Reaches, TypeInv, TypeOK
  <2> QED
    BY <1>3, <1>11, <2>1, <2>2
<1> QED
  BY <1>2, <1>7, <1>8, <1>9, <1>10, <1>12, <1>13, StepKeeps DEF Answering

(* What a step does to the ids.                                            *)
IdsKeep ==
    /\ Shifted(queue') /\ responses' \subseteq responses
    /\ connected /\ connected' => msgID' = msgID

Numbering == ReceiveRequest \/ OnConnect \/ \E s \in Senders : AssignId(s)

Adding == Disconnect \/ \E s \in Senders : AddMessage(s)

LEMMA IdStep ==
    ASSUME TypeInv, SessionInv, [Next]_vars
    PROVE  IdsKeep \/ Numbering \/ Adding \/ Write
<1> DEFINE Goal == IdsKeep \/ Numbering \/ Adding \/ Write
<1> SUFFICES Goal
  OBVIOUS
<1> USE DEF TypeInv, TypeOK, SessionInv, IdsKeep, Numbering, Adding, agentVars, idVars,
            attemptVars, threadVars, socketVars, brokerVars
<1>1. CASE Start
  BY <1>1, HeadShifted DEF Start, Heads
<1>2. CASE Offer
  BY <1>2, ShiftedSame DEF Offer
<1>3. CASE Heartbeat
  BY <1>3, ShiftedSame DEF Heartbeat
<1>4. CASE Connect
  BY <1>4, HeadShifted DEF Connect, Heads
<1>5. ASSUME NEW s \in Senders, GiveUp(s) PROVE Goal
  BY <1>5, ShiftedSame DEF GiveUp
<1>6. ASSUME NEW s \in Senders, AssignId(s) PROVE Goal
  BY <1>6 DEF AssignId
<1>7. ASSUME NEW s \in Senders, AddMessage(s) PROVE Goal
  BY <1>7 DEF AddMessage
<1>8. CASE BeginStop
  BY <1>8, ShiftedSame DEF BeginStop
<1>9. CASE StopConnector
  BY <1>9, ShiftedSame DEF StopConnector
<1>10. CASE Disconnect
  BY <1>10 DEF Disconnect, LookAgain, AddBye
<1>11. CASE IgnoreConnect
  BY <1>11, TailShifted DEF IgnoreConnect, Ready
<1>12. CASE OpenSocket
  BY <1>12, TailShifted DEF OpenSocket, Ready
<1>13. CASE OpenSocketFails
  BY <1>13, TailShifted, HeadTailShifted DEF OpenSocketFails, Ready, Heads
<1>14. CASE ProcessDisconnect
  BY <1>14, ShiftedSame, TailShifted DEF ProcessDisconnect, Ready, CleanSession, CloseOnly
<1>15. CASE Write
  BY <1>15 DEF Write
<1>16. CASE WriteFails
  BY <1>16, HeadTailShifted DEF WriteFails, Ready, Heads
<1>17. CASE CheckTimeouts
  BY <1>17, ConnectFailsMoves DEF CheckTimeouts, ConnectFails, CloseOnly, CleanSession
<1>18. CASE TcpDone
  BY <1>18, ConnectFailsMoves, ShiftedSame DEF TcpDone, ConnectFails, CloseOnly, CleanSession
<1>19. CASE ReceiveAnswer
  BY <1>19, ShiftedSame DEF ReceiveAnswer
<1>20. CASE ReceivePuback
  BY <1>20, ShiftedSame, WithoutIsSubset DEF ReceivePuback
<1>21. CASE ReceivePingresp
  BY <1>21, ShiftedSame DEF ReceivePingresp
<1>22. CASE ReceiveRequest
  BY <1>22 DEF ReceiveRequest
<1>23. CASE TcpFails
  BY <1>23, ConnectFailsMoves DEF TcpFails, ConnectFails, CloseOnly, CleanSession
<1>24. CASE ReadError
  BY <1>24, ConnectFailsMoves, ShiftedSame DEF ReadError, ConnectFails, CloseOnly, CleanSession
<1>25. CASE Keepalive
  BY <1>25, HeadShifted, ShiftedSame DEF Keepalive, Heads
<1>26. CASE ContinueWrite
  BY <1>26, ShiftedSame DEF ContinueWrite
<1>27. CASE HandleUnknown
  BY <1>27, ShiftedSame DEF HandleUnknown
<1>28. CASE HandleError
  BY <1>28, ShiftedSame DEF HandleError
<1>29. CASE AddDisconnect
  BY <1>29, HeadShifted, ShiftedSame DEF AddDisconnect, Heads
<1>30. CASE HandleConnack
  BY <1>30, ShiftedSame DEF HandleConnack, CleanSession, Handling, Welcomes
<1>31. CASE HandleRefusal
  BY <1>31, ConnectFailsMoves DEF HandleRefusal, ConnectFails, CloseOnly, CleanSession
<1>32. CASE HandleSuback
  BY <1>32, ShiftedSame, WithoutIsSubset DEF HandleSuback
<1>33. CASE OnConnect
  BY <1>33 DEF OnConnect
<1>34. CASE Break
  BY <1>34, ShiftedSame DEF Break
<1>35. CASE Request
  BY <1>35, ShiftedSame DEF Request
<1>36. CASE Tick
  BY <1>36, ShiftedSame DEF Tick
<1>37. CASE UNCHANGED vars
  BY <1>37, ShiftedSame DEF vars
<1> QED
  BY <1>1, <1>2, <1>3, <1>4, <1>5, <1>6, <1>7, <1>8, <1>9, <1>10, <1>11, <1>12, <1>13, <1>14, <1>15, <1>16, <1>17, <1>18, <1>19, <1>20, <1>21, <1>22, <1>23, <1>24, <1>25, <1>26, <1>27, <1>28, <1>29, <1>30, <1>31, <1>32, <1>33, <1>34, <1>35, <1>36, <1>37
     DEF Next, Connector, SendThread, ReceiveThread, Receive, Handle, Network

(***************************************************************************)
(* Nobody else takes the id that a sender holds.                           *)
(***************************************************************************)
TokensInv ==
    /\ Distinct
    /\ \A s \in Senders : at[s] = "numbered" =>
          /\ token[s] \in Ids /\ token[s] \notin Taken
          /\ connected => Room(token[s])

LEMMA TakenTyped ==
    ASSUME TypeInv
    PROVE  Taken \subseteq 0..MaxId
<1>1. \A i \in 1..Len(queue) : queue[i] \in Commands
  BY ElementOfSeq DEF TypeInv, TypeOK
<1>2. \A c \in Commands : c.token \in 0..MaxId
  BY DEF Commands
<1> QED
  BY <1>1, <1>2 DEF TypeInv, TypeOK, Taken

LEMMA NextIdTyped ==
    ASSUME TypeInv
    PROVE  /\ NextId # 0 => NextId \in Ids /\ NextId \notin Taken
           /\ NextId \in 0..MaxId
<1>1. msgID \in 0..MaxId
  BY DEF TypeInv, TypeOK
<1> QED
  BY <1>1, NextIdIsFree DEF FreeIds

(* A sender that has an id either had it before the step, while nobody     *)
(* else is about to send, or was given it.                                 *)
LEMMA NumberedBy ==
    ASSUME TypeInv, StopInv, [Next]_vars,
           NEW s \in Senders, at'[s] = "numbered"
    PROVE  \/ AssignId(s)
           \/ /\ at[s] = "numbered" /\ token'[s] = token[s]
              /\ ~Disconnect /\ \A r \in Senders : ~AssignId(r) /\ ~AddMessage(r)
<1> USE DEF TypeInv, TypeOK, Shape, Senders, StopInv, CallersInv
<1>1. CASE UNCHANGED callerVars
  <2>1. at[s] = "numbered" /\ token'[s] = token[s]
    BY <1>1 DEF callerVars
  <2>2. ASSUME NEW r \in Senders PROVE ~AssignId(r) /\ ~AddMessage(r)
    BY <1>1 DEF callerVars, AssignId, AddMessage, After
  <2>3. ~Disconnect
    BY <1>1 DEF callerVars, Disconnect, LookAgain, AddBye
  <2> QED
    BY <2>1, <2>2, <2>3
<1>2. ASSUME NEW r \in Senders, r # s, at[r] # "idle", at[s] = "numbered"
      PROVE  FALSE
  BY <1>2
<1>3. ASSUME NEW r \in Senders, AddMessage(r) PROVE FALSE
  BY <1>2, <1>3 DEF AddMessage, After
<1>4. ASSUME NEW r \in Senders, AssignId(r) PROVE AssignId(s)
  BY <1>2, <1>4 DEF AssignId, After
<1>5. ASSUME NEW r \in Senders, GiveUp(r) PROVE FALSE
  BY <1>2, <1>5 DEF GiveUp, After
<1>6. ASSUME Disconnect PROVE FALSE
  BY <1>6 DEF Disconnect, LookAgain, AddBye
<1>7. ASSUME Start \/ Offer \/ Heartbeat \/ Connect \/ BeginStop \/ StopConnector
      PROVE  at[s] = "numbered" /\ token'[s] = token[s]
  BY <1>7 DEF Start, Offer, Heartbeat, Connect, BeginStop, StopConnector
<1>8. CASE Connector
  BY <1>3, <1>4, <1>5, <1>6, <1>7, <1>8 DEF Connector
<1> QED
  BY <1>1, <1>8, AgentMoves

LEMMA BecomesConnected ==
    ASSUME TypeInv, SessionInv, OpeningInv, [Next]_vars, ~connected, connected'
    PROVE  HandleConnack
<1>1. ~Continues /\ ~Write /\ ~ContinueWrite /\ ~OnConnect
  BY DEF Continues, Write, Ready, ContinueWrite, OnConnect, TypeInv, Shape, SessionInv
<1> QED
  BY <1>1, SessionContinues

LEMMA SenderIsCommitted ==
    ASSUME TypeInv, SessionInv, NoReturn, OpeningInv, [Next]_vars,
           NEW s \in Senders, at[s] = "numbered"
    PROVE  /\ callback = 0 /\ ~OnConnect
           /\ connected' => connected
<1>1. Committed
  BY DEF Committed, Senders
<1>2. callback = 0
  BY <1>1 DEF OpeningInv
<1>3. ~OnConnect
  BY <1>2 DEF OnConnect
<1>4. ~HandleConnack
  BY <1>1 DEF HandleConnack, Handling, NoReturn, SessionInv, Welcomes
<1>5. connected' => connected
  BY <1>3, <1>4, SessionContinues
     DEF Continues, Write, Ready, Messages, ContinueWrite, TypeInv, Shape
<1> QED
  BY <1>2, <1>3, <1>5

LEMMA TakenStep ==
    ASSUME TypeInv, SessionInv, Distinct, [Next]_vars,
           \A s \in Senders : at[s] = "numbered" => token[s] \in Ids /\ token[s] \notin Taken
    PROVE  /\ Distinct'
           /\ \/ /\ Taken' \subseteq Taken \cup {0}
                 /\ ~(\E s \in Senders : AssignId(s)) /\ connected /\ connected' => msgID' = msgID
              \/ /\ ReceiveRequest /\ connected /\ NextId # 0 /\ msgID' = NextId
                 /\ Taken' \subseteq Taken \cup {NextId}
              \/ OnConnect /\ Taken' \subseteq Taken \cup {NextId}
              \/ \E s \in Senders : AddMessage(s) /\ Taken' \subseteq Taken \cup {token[s]}
           /\ \A s \in Senders : AssignId(s) => Taken' = Taken
<1> DEFINE Keep == /\ Taken' \subseteq Taken \cup {0}
                   /\ ~(\E s \in Senders : AssignId(s)) /\ connected /\ connected' => msgID' = msgID
           Got == /\ ReceiveRequest /\ connected /\ NextId # 0 /\ msgID' = NextId
                  /\ Taken' \subseteq Taken \cup {NextId}
           Goal == /\ Distinct'
                   /\ \/ Keep \/ Got
                      \/ OnConnect /\ Taken' \subseteq Taken \cup {NextId}
                      \/ \E s \in Senders : AddMessage(s) /\ Taken' \subseteq Taken \cup {token[s]}
<1>0. \A s \in Senders : AssignId(s) => Taken' = Taken
  BY DEF AssignId, Taken
<1>2. ASSUME IdsKeep PROVE Goal
  BY <1>2, DistinctShifted DEF IdsKeep
<1>3. ASSUME Write PROVE Goal
  BY <1>3, DistinctWritten DEF Write
<1>4. ASSUME queue' = queue, responses' = responses PROVE Distinct' /\ Taken' = Taken
  BY <1>4 DEF Distinct, Taken
<1>5. ASSUME NEW type \in Messages, NextId # 0, responses' = responses,
             queue' = Append(queue, Command(type, NextId, 0))
      PROVE  Distinct' /\ Taken' \subseteq Taken \cup {NextId}
  <2>1. /\ Command(type, NextId, 0) \in Commands
        /\ Command(type, NextId, 0).token = NextId
    BY NextIdTyped DEF Command, Commands, Types
  <2>2. NextId \notin Taken
    BY <1>5, NextIdTyped
  <2> QED
    BY <1>5, <2>1, <2>2, DistinctAppended
<1>6. ASSUME ReceiveRequest PROVE Goal
  <2>1. "identity" \in Messages
    BY DEF Messages, Publishes
  <2>2. CASE NextId # 0 /\ connected
    BY <1>5, <1>6, <2>1, <2>2 DEF ReceiveRequest
  <2>3. CASE ~(NextId # 0 /\ connected)
    BY <1>4, <1>6, <2>3 DEF ReceiveRequest
  <2> QED
    BY <2>2, <2>3
<1>7. ASSUME OnConnect PROVE Goal
  <2>1. callback \in 1..3 /\ <<"identity", "identify", "agent">>[callback] \in Messages
    BY <1>7 DEF OnConnect, TypeInv, TypeOK, Messages, Publishes, Subscribes
  <2>2. CASE NextId # 0
    BY <1>5, <1>7, <2>1, <2>2 DEF OnConnect
  <2>3. CASE NextId = 0
    BY <1>4, <1>7, <2>3 DEF OnConnect
  <2> QED
    BY <1>7, <2>2, <2>3
<1>8. ASSUME NEW s \in Senders, AssignId(s) PROVE Goal
  BY <1>4, <1>8 DEF AssignId
<1>9. ASSUME Disconnect PROVE Goal
  <2>1. CASE queue' = queue
    BY <1>4, <1>9, <2>1 DEF Disconnect, LookAgain, AddBye, idVars
  <2>2. CASE queue' = Append(queue, Command("bye", 0, 0))
    <3>1. /\ Command("bye", 0, 0) \in Commands
          /\ Command("bye", 0, 0).token = 0
          /\ Command("bye", 0, 0).type \notin Messages
      BY ConstantsTyped DEF Command, Commands, Types, Messages, Publishes, Subscribes
    <3>2. responses' = responses /\ msgID' = msgID
      BY <1>9 DEF Disconnect, LookAgain, AddBye, idVars
    <3> QED
      BY <2>2, <3>1, <3>2, DistinctAppended
  <2> QED
    BY <1>9, <2>1, <2>2 DEF Disconnect, LookAgain, AddBye
<1>10. ASSUME NEW s \in Senders, AddMessage(s) PROVE Goal
  <2> DEFINE c == IF s = "publisher" THEN Command("data", token[s], sent')
                  ELSE Command("will", token[s], 0)
  <2>1. queue' = Append(queue, c) /\ sent' \in Nat /\ responses' = responses
    BY <1>10, ConstantsTyped DEF AddMessage, idVars, TypeInv, TypeOK
  <2>2. token[s] \in Ids /\ token[s] \notin Taken
    BY <1>10 DEF AddMessage
  <2>3. c \in Commands /\ c.token = token[s] /\ token[s] # 0
    BY <2>1, <2>2, ConstantsTyped DEF Command, Commands, Types, Messages, Publishes, Ids
  <2> HIDE DEF c
  <2> QED
    BY <1>10, <2>1, <2>2, <2>3, DistinctAppended
<1> HIDE DEF Keep, Got
<1>11. Goal
  BY <1>2, <1>3, <1>6, <1>7, <1>8, <1>9, <1>10, IdStep DEF Numbering, Adding
<1> QED
  BY <1>0, <1>11 DEF Keep, Got

LEMMA TokensStep ==
    ASSUME Posix, TypeInv, SessionInv, StopInv, NoReturn, OpeningInv, TokensInv,
           [Next]_vars, IdsSuffice'
    PROVE  TokensInv'
<1>t. TypeInv' /\ msgID \in 0..MaxId /\ Taken \subseteq 0..MaxId
  BY TypeStep, TakenTyped DEF TypeInv, TypeOK
<1>1. Distinct'
  BY TakenStep DEF TokensInv
<1>2. ASSUME NEW s \in Senders, at'[s] = "numbered", AssignId(s)
      PROVE  /\ token'[s] \in Ids /\ token'[s] \notin Taken'
             /\ \A t : t = token'[s] => Room(t)'
  <2>1. /\ NextId # 0 /\ token'[s] = NextId /\ msgID' = NextId
    BY <1>2 DEF AssignId, After, TypeInv, TypeOK, Senders
  <2>2. Taken' = Taken
    BY <1>2, TakenStep DEF TokensInv
  <2>3. NextId \in Ids /\ NextId \notin Taken
    BY <2>1, NextIdTyped
  <2>4. Left' <= 1 \/ Cardinality(Taken' \ {0}) + Left' < MaxId
    BY <1>2 DEF IdsSuffice
  <2>5. ASSUME NEW t, t = token'[s] PROVE Room(t)'
    <3>1. t \in Ids /\ t \notin Taken' /\ msgID' = t /\ Taken' \subseteq 0..MaxId
      BY <1>t, <2>1, <2>2, <2>3, <2>5
    <3> QED
      BY <2>4, <3>1, RoomAtFirst
  <2> QED
    BY <2>1, <2>2, <2>3, <2>5
<1>3. ASSUME NEW s \in Senders, at[s] = "numbered", token'[s] = token[s],
             ~Disconnect, \A r \in Senders : ~AssignId(r) /\ ~AddMessage(r)
      PROVE  /\ token'[s] \in Ids /\ token'[s] \notin Taken'
             /\ connected' => \A t : t = token'[s] => Room(t)'
  <2>1. callback = 0 /\ ~OnConnect /\ (connected' => connected)
    BY <1>3, SenderIsCommitted
  <2>2. /\ token[s] \in Ids /\ token[s] \notin Taken
        /\ connected => Room(token[s])
    BY <1>3 DEF TokensInv
  <2>3. \/ Taken' \subseteq Taken \cup {0} /\ (connected /\ connected' => msgID' = msgID)
        \/ /\ ReceiveRequest /\ connected /\ NextId # 0 /\ msgID' = NextId
           /\ Taken' \subseteq Taken \cup {NextId}
    BY <1>3, <2>1, TakenStep DEF TokensInv
  <2>4. ASSUME connected, connected'
        PROVE  /\ Left \in Nat /\ Left' \in Nat /\ Left' <= Left
               /\ ReceiveRequest => Left' <= Left - 1
    BY <2>4, LeftStep
  <2>5. token[s] # 0
    BY <2>2 DEF Ids
  <2>6. CASE Taken' \subseteq Taken \cup {0} /\ (connected /\ connected' => msgID' = msgID)
    <3>1. ASSUME connected', NEW t, t = token'[s] PROVE Room(t)'
      BY <1>3, <2>1, <2>2, <2>4, <2>6, <3>1, RoomStays
    <3> QED
      BY <1>3, <2>2, <2>5, <2>6, <3>1
  <2>7. CASE /\ ReceiveRequest /\ connected /\ NextId # 0 /\ msgID' = NextId
             /\ Taken' \subseteq Taken \cup {NextId}
    <3>0. connected'
      BY <2>7 DEF ReceiveRequest, attemptVars
    <3>1. NextId # token[s] /\ \A t : t = token'[s] => Room(t)'
      <4>1. ASSUME NEW t, t = token[s] PROVE NextId # t /\ Room(t)'
        BY <1>t, <2>2, <2>4, <2>7, <3>0, <4>1, RoomTaken
      <4> QED
        BY <1>3, <4>1
    <3> QED
      BY <1>3, <2>2, <2>7, <3>1
  <2> QED
    BY <2>3, <2>6, <2>7
<1>4. ASSUME NEW s \in Senders, at'[s] = "numbered"
      PROVE  /\ token'[s] \in Ids /\ token'[s] \notin Taken'
             /\ connected' => \A t : t = token'[s] => Room(t)'
  BY <1>2, <1>3, <1>4, NumberedBy
<1>5. ASSUME NEW s \in Senders, at'[s] = "numbered", connected' PROVE Room(token[s])'
  BY <1>4, <1>5 DEF Room, Passed
<1> QED
  BY <1>1, <1>4, <1>5 DEF TokensInv

LEMMA TokensInit == Init => TokensInv
<1> SUFFICES ASSUME Init PROVE TokensInv
  OBVIOUS
<1>1. Len(queue) = 0 /\ 1..Len(queue) = {} /\ responses = {}
  BY DEF Init
<1>2. \A s \in Senders : at[s] # "numbered"
  BY DEF Init
<1> QED
  BY <1>1, <1>2 DEF TokensInv, Distinct

(* As long as there are ids enough for the requests that may come before a *)
(* sender has queued its message, no command has the id of another that    *)
(* waits or is waited for.                                                 *)
THEOREM IdsDiffer ==
    ASSUME Posix, MaxId > 2
    PROVE  Spec /\ []IdsSuffice => []TokensDiffer
<1> DEFINE All == TypeInv /\ SessionInv /\ StopInv /\ NoReturn /\ OpeningInv /\ TokensInv
<1>1. Init => All
  BY TypeInit, SessionInit, StopInit, OpeningInit, TokensInit
<1>2. All /\ [Next]_vars /\ IdsSuffice' => All'
  BY TypeStep, SessionStep, StopStep, NoReturnStep, OpeningStep, TokensStep
<1>3. All => TokensDiffer
  BY DEF TokensInv, Distinct, TokensDiffer
<1> QED
  BY <1>1, <1>2, <1>3, PTL DEF Spec

(* While a session goes on, a message leaves the queue only to be written. *)
QueueGrows ==
    \/ queue' = queue
    \/ \E c \in Heads : queue' = AddHead(c, queue)
    \/ queue # <<>> /\ First.type = "connect" /\ queue' = Tail(queue)
    \/ \E c \in Commands : /\ queue' = Append(queue, c)
                           /\ c.type = "data" => c.arg = sent + 1

LEMMA QueueStep ==
    ASSUME TypeInv, SessionInv, [Next]_vars, connected, connected'
    PROVE  QueueGrows \/ Write \/ WriteFails
<1> DEFINE Goal == QueueGrows \/ Write \/ WriteFails
<1> SUFFICES Goal
  OBVIOUS
<1> USE DEF TypeInv, TypeOK, SessionInv, QueueGrows, agentVars, idVars, attemptVars,
            threadVars, socketVars, brokerVars
<1>1. CASE Start
  BY <1>1 DEF Start, Heads
<1>2. CASE Offer
  BY <1>2 DEF Offer
<1>3. CASE Heartbeat
  BY <1>3 DEF Heartbeat
<1>4. CASE Connect
  BY <1>4 DEF Connect, Heads
<1>5. ASSUME NEW s \in Senders, GiveUp(s) PROVE Goal
  BY <1>5 DEF GiveUp
<1>6. ASSUME NEW s \in Senders, AssignId(s) PROVE Goal
  BY <1>6 DEF AssignId
<1>7. ASSUME NEW s \in Senders, AddMessage(s) PROVE Goal
  <2> DEFINE c == IF s = "publisher" THEN Command("data", token[s], sent')
                  ELSE Command("will", token[s], 0)
  <2>1. /\ queue' = Append(queue, c) /\ sent' \in Nat
        /\ s = "publisher" => sent' = sent + 1
    BY <1>7, ConstantsTyped DEF AddMessage
  <2>2. c \in Commands /\ (c.type = "data" => c.arg = sent + 1)
    BY <2>1, ConstantsTyped DEF Command, Commands, Types, Messages, Publishes
  <2> HIDE DEF c
  <2> QED
    BY <2>1, <2>2
<1>8. CASE BeginStop
  BY <1>8 DEF BeginStop
<1>9. CASE StopConnector
  BY <1>9 DEF StopConnector
<1>10. CASE Disconnect
  <2>1. Command("bye", 0, 0) \in Commands /\ Command("bye", 0, 0).type # "data"
    BY NextIdTyped, ConstantsTyped DEF Command, Commands, Types, Messages, Publishes, Subscribes
  <2> QED
    BY <1>10, <2>1 DEF Disconnect, LookAgain, AddBye
<1>11. CASE IgnoreConnect
  BY <1>11 DEF IgnoreConnect, Ready
<1>12. CASE OpenSocket
  BY <1>12 DEF OpenSocket
<1>13. CASE OpenSocketFails
  BY <1>13 DEF OpenSocketFails
<1>14. CASE ProcessDisconnect
  BY <1>14 DEF ProcessDisconnect, CloseOnly
<1>15. CASE Write
  BY <1>15 DEF Write
<1>16. CASE WriteFails
  BY <1>16 DEF WriteFails
<1>17. CASE CheckTimeouts
  BY <1>17 DEF CheckTimeouts, ConnectFails, CloseOnly, Welcomes
<1>18. CASE TcpDone
  BY <1>18 DEF TcpDone, ConnectFails, CloseOnly, Welcomes
<1>19. CASE ReceiveAnswer
  BY <1>19 DEF ReceiveAnswer
<1>20. CASE ReceivePuback
  BY <1>20 DEF ReceivePuback
<1>21. CASE ReceivePingresp
  BY <1>21 DEF ReceivePingresp
<1>22. CASE ReceiveRequest
  <2>1. Command("identity", NextId, 0) \in Commands /\ Command("identity", NextId, 0).type # "data"
    BY NextIdTyped, ConstantsTyped DEF Command, Commands, Types, Messages, Publishes, Subscribes
  <2> QED
    BY <1>22, <2>1 DEF ReceiveRequest
<1>23. CASE TcpFails
  BY <1>23 DEF TcpFails, ConnectFails, CloseOnly, Welcomes, Reading
<1>24. CASE ReadError
  BY <1>24 DEF ReadError, ConnectFails, CloseOnly, Welcomes, Reading
<1>25. CASE Keepalive
  BY <1>25 DEF Keepalive, Heads
<1>26. CASE ContinueWrite
  BY <1>26 DEF ContinueWrite
<1>27. CASE HandleUnknown
  BY <1>27 DEF HandleUnknown
<1>28. CASE HandleError
  BY <1>28 DEF HandleError
<1>29. CASE AddDisconnect
  BY <1>29 DEF AddDisconnect, Heads
<1>30. CASE HandleConnack
  BY <1>30 DEF HandleConnack, Handling, Welcomes
<1>31. CASE HandleRefusal
  BY <1>31 DEF HandleRefusal, ConnectFails, CloseOnly, Welcomes
<1>32. CASE HandleSuback
  BY <1>32 DEF HandleSuback
<1>33. CASE OnConnect
  <2>1. callback \in 1..3
    BY <1>33 DEF OnConnect
  <2>2. <<"identity", "identify", "agent">>[callback] \in {"identity", "identify", "agent"}
    BY <2>1
  <2>3. /\ Command(<<"identity", "identify", "agent">>[callback], NextId, 0) \in Commands
        /\ Command(<<"identity", "identify", "agent">>[callback], NextId, 0).type # "data"
    BY <2>2, NextIdTyped DEF Command, Commands, Types, Messages, Publishes, Subscribes
  <2> QED
    BY <1>33, <2>3 DEF OnConnect
<1>34. CASE Break
  BY <1>34 DEF Break
<1>35. CASE Request
  BY <1>35 DEF Request
<1>36. CASE Tick
  BY <1>36 DEF Tick
<1>37. CASE UNCHANGED vars
  BY <1>37 DEF vars
<1> QED
  BY <1>1, <1>2, <1>3, <1>4, <1>5, <1>6, <1>7, <1>8, <1>9, <1>10, <1>11, <1>12, <1>13, <1>14, <1>15, <1>16, <1>17, <1>18, <1>19, <1>20, <1>21, <1>22, <1>23, <1>24, <1>25, <1>26, <1>27, <1>28, <1>29, <1>30, <1>31, <1>32, <1>33, <1>34, <1>35, <1>36, <1>37
     DEF Next, Connector, SendThread, ReceiveThread, Receive, Handle, Network

LEMMA DataPushed ==
    ASSUME TypeInv, NEW q \in Seq(Commands), NEW c \in Heads, NEW t, t = AddHead(c, q)
    PROVE  /\ \A i \in 1..Len(q) : \E j \in 1..Len(t) : t[j] = q[i]
           /\ \A j \in 1..Len(t) : t[j].type = "data" => \E i \in 1..Len(q) : t[j] = q[i]
<1>1. CASE t = q
  BY <1>1
<1>2. CASE t = <<c>> \o q
  <2>1. /\ Len(t) = Len(q) + 1 /\ t[1] = c
        /\ \A i \in 2..(Len(q) + 1) : t[i] = q[i - 1]
        /\ Len(q) \in Nat /\ c.type # "data"
    BY <1>2, Pushed, HeadsTyped, LenProperties
  <2>2. ASSUME NEW i \in 1..Len(q) PROVE \E j \in 1..Len(t) : t[j] = q[i]
    <3>1. /\ i + 1 \in 2..(Len(q) + 1) /\ (i + 1) - 1 = i
          /\ i + 1 \in 1..Len(t)
      BY <2>1
    <3>2. t[i + 1] = q[i]
      BY <2>1, <3>1
    <3> QED
      BY <3>1, <3>2
  <2>3. ASSUME NEW j \in 1..Len(t), t[j].type = "data"
        PROVE  \E i \in 1..Len(q) : t[j] = q[i]
    <3>1. j # 1
      BY <2>1, <2>3
    <3>2. j \in 2..(Len(q) + 1) /\ j - 1 \in 1..Len(q)
      BY <2>1, <3>1
    <3> QED
      BY <2>1, <3>2
  <2> QED
    BY <2>2, <2>3
<1> QED
  BY <1>1, <1>2 DEF AddHead

LEMMA DataStay ==
    ASSUME TypeInv, QueueGrows
    PROVE  /\ \A i \in 1..Len(queue) : queue[i].type = "data" =>
                 \E j \in 1..Len(queue') : queue'[j] = queue[i]
           /\ \A j \in 1..Len(queue') : queue'[j].type = "data" =>
                 \/ \E i \in 1..Len(queue) : queue'[j] = queue[i]
                 \/ queue'[j].arg = sent + 1
<1>t. queue \in Seq(Commands) /\ Len(queue) \in Nat
  BY LenProperties DEF TypeInv, TypeOK
<1>1. CASE queue' = queue
  BY <1>1
<1>2. ASSUME NEW c \in Heads, queue' = AddHead(c, queue)
      PROVE  /\ \A i \in 1..Len(queue) : \E j \in 1..Len(queue') : queue'[j] = queue[i]
             /\ \A j \in 1..Len(queue') : queue'[j].type = "data" =>
                   \E i \in 1..Len(queue) : queue'[j] = queue[i]
  BY <1>t, <1>2, DataPushed
<1>3. CASE queue # <<>> /\ First.type = "connect" /\ queue' = Tail(queue)
  <2>1. /\ Len(queue') = Len(queue) - 1
        /\ \A i \in 1..Len(queue') : queue'[i] = queue[i + 1]
    BY <1>t, <1>3, Popped
  <2>2. ASSUME NEW i \in 1..Len(queue), queue[i].type = "data"
        PROVE  i - 1 \in 1..Len(queue') /\ queue'[i - 1] = queue[i]
    <3>1. i # 1
      BY <1>3, <2>2 DEF First
    <3>2. i - 1 \in 1..Len(queue') /\ (i - 1) + 1 = i
      BY <1>t, <2>1, <3>1
    <3> QED
      BY <2>1, <3>2
  <2>3. \A j \in 1..Len(queue') : j + 1 \in 1..Len(queue)
    BY <1>t, <2>1
  <2> QED
    BY <2>1, <2>2, <2>3
<1>4. ASSUME NEW c \in Commands, queue' = Append(queue, c),
             c.type = "data" => c.arg = sent + 1
      PROVE  /\ \A i \in 1..Len(queue) : i \in 1..Len(queue') /\ queue'[i] = queue[i]
             /\ \A j \in 1..Len(queue') : queue'[j].type = "data" =>
                   (j \in 1..Len(queue) /\ queue'[j] = queue[j]) \/ queue'[j].arg = sent + 1
  <2>1. /\ Len(queue') = Len(queue) + 1 /\ queue'[Len(queue) + 1] = c
        /\ \A i \in 1..Len(queue) : queue'[i] = queue[i]
    BY <1>t, <1>4, Appended
  <2>2. \A i \in 1..Len(queue') : i \in 1..Len(queue) \/ i = Len(queue) + 1
    BY <1>t, <2>1
  <2>3. \A i \in 1..Len(queue) : i \in 1..Len(queue')
    BY <1>t, <2>1
  <2> QED
    BY <1>4, <2>1, <2>2, <2>3
<1> QED
  BY <1>1, <1>2, <1>3, <1>4 DEF QueueGrows

(* A message that is written was first in the queue, and leaves the rest.  *)
LEMMA DataWritten ==
    ASSUME TypeInv, queue # <<>>,
           queue' = Tail(queue) \/ queue' = AddHead(DisconnectInternal, Tail(queue))
    PROVE  /\ \A i \in 1..Len(queue) : i = 1 \/ \E j \in 1..Len(queue') : queue'[j] = queue[i]
           /\ \A j \in 1..Len(queue') : queue'[j].type = "data" =>
                 \E i \in 1..Len(queue) : 1 < i /\ queue'[j] = queue[i]
<1>1. PICK t : t = Tail(queue)
  OBVIOUS
<1>2. /\ t \in Seq(Commands) /\ Len(queue) \in Nat /\ Len(t) = Len(queue) - 1
      /\ \A i \in 1..Len(t) : t[i] = queue[i + 1]
  BY <1>1, Popped DEF TypeInv, TypeOK
<1>3. ASSUME NEW i \in 1..Len(queue), i # 1 PROVE \E j \in 1..Len(t) : t[j] = queue[i]
  <2>1. i - 1 \in 1..Len(t) /\ (i - 1) + 1 = i
    BY <1>2, <1>3
  <2>2. t[i - 1] = queue[i]
    BY <1>2, <2>1
  <2> QED
    BY <2>1, <2>2
<1>4. ASSUME NEW j \in 1..Len(t)
      PROVE  \E i \in 1..Len(queue) : 1 < i /\ t[j] = queue[i]
  <2>1. j + 1 \in 1..Len(queue) /\ 1 < j + 1
    BY <1>2
  <2> QED
    BY <1>2, <2>1
<1>5. CASE queue' = t
  BY <1>3, <1>4, <1>5
<1>6. CASE queue' = AddHead(DisconnectInternal, t)
  <2>1. DisconnectInternal \in Heads
    BY DEF Heads
  <2>2. /\ \A i \in 1..Len(t) : \E j \in 1..Len(queue') : queue'[j] = t[i]
        /\ \A j \in 1..Len(queue') : queue'[j].type = "data" =>
              \E i \in 1..Len(t) : queue'[j] = t[i]
    <3>1. PICK u : u = queue'
      OBVIOUS
    <3>2. u = AddHead(DisconnectInternal, t) /\ t \in Seq(Commands)
      BY <1>2, <1>6, <3>1
    <3>3. /\ \A i \in 1..Len(t) : \E j \in 1..Len(u) : u[j] = t[i]
          /\ \A j \in 1..Len(u) : u[j].type = "data" => \E i \in 1..Len(t) : u[j] = t[i]
      BY <2>1, <3>2, DataPushed
    <3> QED
      BY <3>1, <3>3
  <2>3. ASSUME NEW i \in 1..Len(queue), i # 1 PROVE \E j \in 1..Len(queue') : queue'[j] = queue[i]
    <3>1. PICK k \in 1..Len(t) : t[k] = queue[i]
      BY <1>3, <2>3
    <3> QED
      BY <2>2, <3>1
  <2>4. ASSUME NEW j \in 1..Len(queue'), queue'[j].type = "data"
        PROVE  \E i \in 1..Len(queue) : 1 < i /\ queue'[j] = queue[i]
    <3>1. PICK k \in 1..Len(t) : queue'[j] = t[k]
      BY <2>2, <2>4
    <3> QED
      BY <1>4, <3>1
  <2> QED
    BY <2>3, <2>4
<1> QED
  BY <1>1, <1>5, <1>6

(***************************************************************************)
(* What is in flight, and what answers it.                                 *)
(***************************************************************************)
Acks == {"suback", "puback"}

Acked(id) == \E i \in 1..Len(inbox) : inbox[i].kind \in Acks /\ inbox[i].token = id

Came(n) == \E i \in 1..Len(arrived) : arrived[i] = n

(* The command that a packet answers waits for it, and is of the packet's  *)
(* kind; a message that is acknowledged has arrived.                       *)
Answers(c, p) ==
    /\ c.token = p.token
    /\ p.kind = "suback" <=> c.type \in Subscribes
    /\ p.kind = "puback" /\ c.type = "data" => Came(c.arg)

FlightInv ==
    /\ \A c \in outbound : c.type \in Publishes
    /\ \A c \in outbound : c.type = "data" =>
          /\ c.arg <= sent
          /\ \A i \in 1..Len(queue) : queue[i].type = "data" => c.arg < queue[i].arg
    /\ connected /\ link = "up" => outbound \subseteq responses

(* Each answer is to a command that waits, and no two are to the same.     *)
Answered ==
    /\ \A i \in 1..Len(inbox) : inbox[i].kind \in Acks =>
          \E c \in responses : Answers(c, inbox[i])
    /\ \A i, j \in 1..Len(inbox) :
          inbox[i].kind \in Acks /\ inbox[j].kind \in Acks
             /\ inbox[i].token = inbox[j].token => i = j

AnswersInv ==
    /\ Answered
    /\ connected /\ got.kind = "suback" =>
          /\ ~Acked(got.token)
          /\ \E c \in responses : c.token = got.token /\ c.type \in Subscribes
    /\ \A c \in outbound : c \notin responses => ~Acked(c.token)
    /\ partial # 0 =>
          \A c \in outbound : c.type = "data" /\ c.arg = partial => ~Acked(c.token)

LEMMA FlightQuiet ==
    ASSUME outbound' = {}, partial' = 0, connected' => got'.kind # "suback",
           \A i \in 1..Len(inbox') : inbox'[i].kind \notin Acks
    PROVE  FlightInv' /\ AnswersInv'
<1>1. FlightInv'
  BY DEF FlightInv
<1>2. AnswersInv'
  BY DEF AnswersInv, Answered, Answers, Acked
<1> QED
  BY <1>1, <1>2

LEMMA WithoutOne ==
    ASSUME NEW S, NEW c \in S, \A d \in S : d.token = c.token => d = c,
           NEW T \in Without(S, c.token)
    PROVE  T = S \ {c}
BY DEF Without

LEMMA WithoutNone ==
    ASSUME NEW S, NEW id, \A d \in S : d.token # id, NEW T \in Without(S, id)
    PROVE  T = S
BY DEF Without

(* An acknowledgement ends one command, where it waits and in flight.      *)
LEMMA PubackEnds ==
    ASSUME TypeInv, Distinct, FlightInv, AnswersInv, ReceivePuback
    PROVE  \E c \in responses : /\ Answers(c, inbox[1]) /\ inbox[1].kind = "puback"
                                /\ responses' = responses \ {c}
                                /\ outbound' = outbound \ {c}
<1>1. /\ inbox # <<>> /\ inbox[1].kind = "puback"
      /\ outbound' \in Without(outbound, inbox[1].token)
      /\ responses' \in Without(responses, inbox[1].token)
  BY DEF ReceivePuback, Arriving
<1>2. 1 \in 1..Len(inbox)
  BY <1>1, Popped DEF TypeInv, TypeOK
<1>3. PICK c \in responses : Answers(c, inbox[1])
  BY <1>1, <1>2 DEF AnswersInv, Answered, Acks
<1>4. c.token = inbox[1].token /\ Acked(c.token)
  BY <1>1, <1>2, <1>3 DEF Answers, Acked, Acks
<1>5. \A d \in responses : d.token = c.token => d = c
  BY DEF Distinct
<1>6. responses' = responses \ {c}
  BY <1>1, <1>4, <1>5, WithoutOne
<1>7. \A d \in outbound : d.token = c.token => d = c
  BY <1>4, <1>5 DEF AnswersInv
<1>8. outbound' = outbound \ {c}
  <2>1. CASE c \in outbound
    BY <1>1, <1>4, <1>7, <2>1, WithoutOne
  <2>2. CASE c \notin outbound
    <3>1. outbound' = outbound
      BY <1>1, <1>4, <1>7, <2>2, WithoutNone
    <3> QED
      BY <2>2, <3>1
  <2> QED
    BY <2>1, <2>2
<1> QED
  BY <1>1, <1>3, <1>6, <1>8

LEMMA SubackEnds ==
    ASSUME TypeInv, Distinct, AnswersInv, HandleSuback, connected
    PROVE  \E c \in responses : /\ c.type \in Subscribes /\ ~Acked(c.token)
                                /\ responses' = responses \ {c}
<1>1. got.kind = "suback" /\ responses' \in Without(responses, got.token)
  BY DEF HandleSuback, Handling
<1>2. PICK c \in responses : c.token = got.token /\ c.type \in Subscribes
  BY <1>1 DEF AnswersInv
<1>3. ~Acked(c.token)
  BY <1>1, <1>2 DEF AnswersInv
<1>4. \A d \in responses : d.token = c.token => d = c
  BY DEF Distinct
<1>5. responses' = responses \ {c}
  BY <1>1, <1>2, <1>4, WithoutOne
<1> QED
  BY <1>2, <1>3, <1>5

(* What is in flight while a session goes on.                              *)
LEMMA OutboundStep ==
    ASSUME TypeInv, SessionInv, Distinct, FlightInv, AnswersInv, [Next]_vars,
           connected, connected'
    PROVE  \/ ReceivePuback
           \/ outbound' = outbound
           \/ (Write \/ WriteFails) /\ outbound' = OutboundAfter(First)
BY StepKeeps DEF Keeps, Answering, Write, WriteFails, ContinueWrite, ReceiveAnswer,
   HandleSuback, idVars

LEMMA SentGrows ==
    ASSUME TypeInv, [Next]_vars
    PROVE  sent' \in {sent, sent + 1}
BY AgentMoves DEF callerVars, Connector, Start, Offer, Heartbeat, Connect, GiveUp,
   AssignId, AddMessage, BeginStop, StopConnector, Disconnect, LookAgain, AddBye

LEMMA FlightStep ==
    ASSUME TypeInv, SessionInv, OrderInv, Distinct, FlightInv, AnswersInv,
           [Next]_vars, connected, connected'
    PROVE  FlightInv'
<1>0. /\ outbound \subseteq Commands /\ queue \in Seq(Commands)
      /\ sent \in 0..MaxMessages /\ MaxMessages \in Nat
  BY ConstantsTyped DEF TypeInv, TypeOK
<1>t. /\ sent \in Nat /\ (sent' = sent \/ sent' = sent + 1)
      /\ \A c \in Commands : c.arg \in Nat
      /\ outbound \subseteq Commands
      /\ \A i \in 1..Len(queue) : queue[i] \in Commands
  <2>1. sent \in Nat /\ (sent' = sent \/ sent' = sent + 1)
    BY <1>0, SentGrows
  <2>2. \A c \in Commands : c.arg \in Nat
    BY DEF Commands
  <2>3. \A i \in 1..Len(queue) : queue[i] \in Commands
    BY <1>0, ElementOfSeq
  <2> QED
    BY <1>0, <2>1, <2>2, <2>3
<1>1. CASE Write \/ WriteFails
  <2>1. /\ queue # <<>> /\ First.type \in Messages
        /\ queue' = Tail(queue) \/ queue' = AddHead(DisconnectInternal, Tail(queue))
        /\ outbound' = OutboundAfter(First)
    BY <1>1 DEF Write, WriteFails, Ready
  <2>2. /\ First \in Commands /\ First = queue[1] /\ 1 \in 1..Len(queue)
        /\ First.type = "data" => First.arg \in 1..sent
    BY <2>1, FirstTyped, Popped DEF First, TypeInv, TypeOK
  <2>3. \A c \in outbound' : c \in outbound \/ (c = First /\ First.type \in Publishes)
    BY <2>1 DEF OutboundAfter
  <2>4. ASSUME NEW j \in 1..Len(queue'), queue'[j].type = "data"
        PROVE  /\ First.type = "data" => First.arg < queue'[j].arg
               /\ \E i \in 1..Len(queue) : queue'[j] = queue[i]
    <3>1. PICK i \in 1..Len(queue) : 1 < i /\ queue'[j] = queue[i]
      BY <2>1, <2>4, DataWritten
    <3>2. First.type = "data" => First.arg < queue[i].arg
      BY <2>2, <2>4, <3>1 DEF OrderInv, Later, IsData
    <3> QED
      BY <3>1, <3>2
  <2>5. ASSUME NEW c \in outbound', c.type = "data"
        PROVE  /\ c.arg <= sent'
               /\ \A j \in 1..Len(queue') : queue'[j].type = "data" => c.arg < queue'[j].arg
    <3>1. CASE c \in outbound
      BY <1>t, <2>4, <2>5, <3>1 DEF FlightInv
    <3>2. CASE c = First
      BY <1>t, <2>2, <2>4, <2>5, <3>2
    <3> QED
      BY <2>3, <3>1, <3>2
  <2>6. link' = "up" => outbound' \subseteq responses'
    <3>1. CASE Write
      BY <2>3, <3>1 DEF Write, FlightInv
    <3>2. CASE WriteFails
      BY <3>2 DEF WriteFails
    <3> QED
      BY <1>1, <3>1, <3>2
  <2>7. \A c \in outbound' : c.type \in Publishes
    BY <2>3 DEF FlightInv
  <2> QED
    BY <2>5, <2>6, <2>7 DEF FlightInv
<1>2. CASE ~Write /\ ~WriteFails
  <2>1. outbound' \subseteq outbound
    <3>1. ASSUME ReceivePuback PROVE outbound' \subseteq outbound
      BY <3>1, PubackEnds
    <3> QED
      BY <1>2, <3>1, OutboundStep
  <2>2. QueueGrows
    BY <1>2, QueueStep
  <2>3. ASSUME NEW c \in outbound', c.type = "data",
               NEW j \in 1..Len(queue'), queue'[j].type = "data"
        PROVE  c.arg < queue'[j].arg
    <3>1. c \in outbound /\ c.arg <= sent /\ c.arg \in Nat
      BY <1>t, <2>1, <2>3 DEF FlightInv
    <3>2. CASE queue'[j].arg = sent + 1
      BY <1>t, <3>1, <3>2
    <3>3. CASE \E i \in 1..Len(queue) : queue'[j] = queue[i]
      BY <2>3, <3>1, <3>3 DEF FlightInv
    <3> QED
      BY <2>2, <2>3, <3>2, <3>3, DataStay
  <2>4. \A c \in outbound' : /\ c.type \in Publishes
                             /\ c.type = "data" => c.arg <= sent'
    BY <1>t, <2>1 DEF FlightInv
  <2>5. link' = "up" => outbound' \subseteq responses'
    <3>1. CASE Keeps
      BY <3>1 DEF Keeps, FlightInv
    <3>2. CASE ContinueWrite
      BY <3>2 DEF ContinueWrite, FlightInv, idVars
    <3>3. CASE ReceiveAnswer
      BY <3>3 DEF ReceiveAnswer, FlightInv, idVars
    <3>4. CASE ReceivePuback
      <4>1. link' = link
        BY <3>4 DEF ReceivePuback
      <4> QED
        BY <3>4, <4>1, PubackEnds DEF FlightInv
    <3>5. CASE HandleSuback
      <4>1. PICK c \in responses : c.type \in Subscribes /\ responses' = responses \ {c}
        BY <3>5, SubackEnds
      <4>2. link' = link /\ outbound' = outbound
        BY <3>5 DEF HandleSuback
      <4>3. c \notin outbound
        BY <4>1 DEF FlightInv, Subscribes, Publishes
      <4> QED
        BY <4>1, <4>2, <4>3 DEF FlightInv
    <3> QED
      BY <1>2, <3>1, <3>2, <3>3, <3>4, <3>5, StepKeeps DEF Answering
  <2> QED
    BY <2>3, <2>4, <2>5 DEF FlightInv
<1> QED
  BY <1>1, <1>2

(* The acknowledgements that come are those that came, perhaps fewer.      *)
Fewer ==
    \E k \in {0, 1} : \A i \in 1..Len(inbox') : inbox'[i].kind \in Acks =>
        i + k \in 1..Len(inbox) /\ inbox'[i] = inbox[i + k]

LEMMA FewerOf ==
    ASSUME TypeInv,
           \/ inbox' = inbox \/ inbox' = <<>>
           \/ inbox # <<>> /\ inbox' = Tail(inbox)
           \/ \E p \in Packets : inbox' = Append(inbox, p) /\ p.kind \notin Acks
    PROVE  Fewer
<1>t. inbox \in Seq(Packets) /\ Len(inbox) \in Nat
  BY LenProperties DEF TypeInv, TypeOK
<1>1. CASE inbox' = inbox
  <2>1. \A i \in 1..Len(inbox) : i + 0 = i
    OBVIOUS
  <2> QED
    BY <1>1, <2>1 DEF Fewer
<1>2. CASE inbox' = <<>>
  <2>1. 1..Len(inbox') = {}
    BY <1>2
  <2> QED
    BY <2>1 DEF Fewer
<1>3. CASE inbox # <<>> /\ inbox' = Tail(inbox)
  <2>1. /\ Len(inbox') = Len(inbox) - 1
        /\ \A i \in 1..Len(inbox') : inbox'[i] = inbox[i + 1]
    BY <1>t, <1>3, Popped
  <2>2. \A i \in 1..Len(inbox') : i + 1 \in 1..Len(inbox) /\ inbox'[i] = inbox[i + 1]
    BY <1>t, <2>1
  <2> QED
    BY <2>2 DEF Fewer
<1>4. ASSUME NEW p \in Packets, inbox' = Append(inbox, p), p.kind \notin Acks PROVE Fewer
  <2>1. /\ Len(inbox') = Len(inbox) + 1 /\ inbox'[Len(inbox) + 1] = p
        /\ \A i \in 1..Len(inbox) : inbox'[i] = inbox[i]
    BY <1>t, <1>4, Appended
  <2>2. \A i \in 1..Len(inbox') : inbox'[i].kind \in Acks =>
           i + 0 \in 1..Len(inbox) /\ inbox'[i] = inbox[i + 0]
    BY <1>t, <1>4, <2>1
  <2> QED
    BY <2>2 DEF Fewer
<1> QED
  BY <1>1, <1>2, <1>3, <1>4

LEMMA FewerAnswered ==
    ASSUME TypeInv, Answered, Fewer, arrived' = arrived, responses' = responses
    PROVE  Answered' /\ \A id : Acked(id)' => Acked(id)
<1>1. PICK k \in {0, 1} : \A i \in 1..Len(inbox') : inbox'[i].kind \in Acks =>
         i + k \in 1..Len(inbox) /\ inbox'[i] = inbox[i + k]
  BY DEF Fewer
<1>2. ASSUME NEW i \in 1..Len(inbox'), inbox'[i].kind \in Acks
      PROVE  \E c \in responses' :
                /\ c.token = inbox'[i].token
                /\ inbox'[i].kind = "suback" <=> c.type \in Subscribes
                /\ inbox'[i].kind = "puback" /\ c.type = "data" => Came(c.arg)'
  <2>1. PICK c \in responses : Answers(c, inbox[i + k])
    BY <1>1, <1>2 DEF Answered
  <2>2. /\ c.token = inbox'[i].token
        /\ inbox'[i].kind = "suback" <=> c.type \in Subscribes
        /\ inbox'[i].kind = "puback" /\ c.type = "data" => Came(c.arg)'
    BY <1>1, <1>2, <2>1 DEF Answers, Came
  <2> QED
    BY <2>2
<1>3. ASSUME NEW i \in 1..Len(inbox'), NEW j \in 1..Len(inbox'),
             inbox'[i].kind \in Acks, inbox'[j].kind \in Acks,
             inbox'[i].token = inbox'[j].token
      PROVE  i = j
  <2>1. i + k = j + k
    BY <1>1, <1>3 DEF Answered
  <2> QED
    BY <2>1
<1>4. ASSUME NEW id, Acked(id)' PROVE Acked(id)
  BY <1>1, <1>4 DEF Acked
<1> QED
  BY <1>2, <1>3, <1>4 DEF Answered, Answers

(* An answer more.                                                         *)
LEMMA OneAnswered ==
    ASSUME TypeInv, Answered, NEW c \in Commands, c.type \in Messages, ~Acked(c.token),
           responses \subseteq responses', c \in responses',
           inbox' = Append(inbox, Answer(c)),
           arrived' = (IF c.type = "data" THEN Append(arrived, c.arg) ELSE arrived),
           c.type = "data" => c.arg \in 1..MaxMessages
    PROVE  Answered' /\ \A id : Acked(id)' => Acked(id) \/ id = c.token
<1>t. /\ inbox \in Seq(Packets) /\ Len(inbox) \in Nat
      /\ arrived \in Seq(1..MaxMessages) /\ Len(arrived) \in Nat
  BY LenProperties DEF TypeInv, TypeOK
<1>1. /\ Answer(c) \in Packets /\ Answer(c).token = c.token
      /\ Answer(c).kind = IF c.type \in Subscribes THEN "suback" ELSE "puback"
  BY AnswerTyped
<1>2. /\ Len(inbox') = Len(inbox) + 1 /\ inbox'[Len(inbox) + 1] = Answer(c)
      /\ \A i \in 1..Len(inbox) : inbox'[i] = inbox[i]
  BY <1>t, <1>1, Appended
<1>3. \A i \in 1..Len(inbox') : i \in 1..Len(inbox) \/ i = Len(inbox) + 1
  BY <1>t, <1>2
<1>4. /\ \A n : Came(n) => Came(n)'
      /\ c.type = "data" => Came(c.arg)'
  <2>1. CASE c.type = "data"
    <3>1. /\ Len(arrived') = Len(arrived) + 1 /\ arrived'[Len(arrived) + 1] = c.arg
          /\ \A i \in 1..Len(arrived) : arrived'[i] = arrived[i]
      BY <1>t, <2>1, Appended
    <3>2. /\ \A i \in 1..Len(arrived) : i \in 1..Len(arrived')
          /\ Len(arrived) + 1 \in 1..Len(arrived')
      BY <1>t, <3>1
    <3> QED
      BY <3>1, <3>2 DEF Came
  <2>2. CASE c.type # "data"
    BY <2>2 DEF Came
  <2> QED
    BY <2>1, <2>2
<1>5. ASSUME NEW i \in 1..Len(inbox'), inbox'[i].kind \in Acks
      PROVE  \E d \in responses' :
                /\ d.token = inbox'[i].token
                /\ inbox'[i].kind = "suback" <=> d.type \in Subscribes
                /\ inbox'[i].kind = "puback" /\ d.type = "data" => Came(d.arg)'
  <2>1. CASE i \in 1..Len(inbox)
    <3>1. PICK d \in responses : Answers(d, inbox[i])
      BY <1>2, <1>5, <2>1 DEF Answered
    <3>2. /\ d.token = inbox'[i].token
          /\ inbox'[i].kind = "suback" <=> d.type \in Subscribes
          /\ inbox'[i].kind = "puback" /\ d.type = "data" => Came(d.arg)'
      BY <1>2, <1>4, <2>1, <3>1 DEF Answers
    <3> QED
      BY <3>2
  <2>2. CASE i = Len(inbox) + 1
    <3>1. /\ c.token = inbox'[i].token
          /\ inbox'[i].kind = "suback" <=> c.type \in Subscribes
          /\ inbox'[i].kind = "puback" /\ c.type = "data" => Came(c.arg)'
      BY <1>1, <1>2, <1>4, <2>2 DEF Answers
    <3> QED
      BY <3>1
  <2> QED
    BY <1>3, <2>1, <2>2
<1>6. ASSUME NEW i \in 1..Len(inbox'), NEW j \in 1..Len(inbox'),
             inbox'[i].kind \in Acks, inbox'[j].kind \in Acks,
             inbox'[i].token = inbox'[j].token
      PROVE  i = j
  <2>1. \A k \in 1..Len(inbox) : inbox[k].kind \in Acks => inbox[k].token # c.token
    BY DEF Acked
  <2> QED
    BY <1>1, <1>2, <1>3, <1>6, <2>1 DEF Answered
<1>7. ASSUME NEW id, Acked(id)' PROVE Acked(id) \/ id = c.token
  BY <1>1, <1>2, <1>3, <1>7 DEF Acked
<1> QED
  BY <1>5, <1>6, <1>7 DEF Answered, Answers

(* A new answer is to a command that had none: what is written last has a  *)
(* token of its own, and what is written in part is not answered yet.      *)
LEMMA AnswersStep ==
    ASSUME TypeInv, SessionInv, OrderInv, Distinct, FlightInv, AnswersInv,
           [Next]_vars, connected, connected'
    PROVE  AnswersInv'
<1>t. /\ inbox \in Seq(Packets) /\ outbound \subseteq Commands
      /\ queue \in Seq(Commands)
  BY DEF TypeInv, TypeOK
<1>0. Publishes \subseteq Messages /\ Publishes \cap Subscribes = {}
  BY DEF Publishes, Subscribes, Messages
<1>1. CASE Keeps
  <2>1. /\ UNCHANGED <<responses, outbound, arrived, partial>>
        /\ got' = got \/ got'.kind # "suback"
    BY <1>1 DEF Keeps
  <2>2. Fewer
    <3>1. ASSUME NEW p \in Packets, inbox' = Append(inbox, p),
                 p.kind = "pingresp" \/ p.kind = "request"
          PROVE  Fewer
      BY <3>1, FewerOf DEF Acks
    <3> QED
      BY <1>1, <3>1, FewerOf, Zenon DEF Keeps
  <2>3. Answered' /\ \A id : Acked(id)' => Acked(id)
    BY <2>1, <2>2, FewerAnswered DEF AnswersInv
  <2> QED
    BY <2>1, <2>3 DEF AnswersInv
<1>2. CASE ReceiveAnswer
  <2>1. /\ inbox # <<>> /\ inbox' = Tail(inbox)
        /\ got' = [kind |-> inbox[1].kind, fd |-> sock, token |-> inbox[1].token]
        /\ UNCHANGED <<responses, outbound, arrived, partial>>
    BY <1>2 DEF ReceiveAnswer, Arriving, idVars, socketVars, brokerVars
  <2>2. Answered' /\ \A id : Acked(id)' => Acked(id)
    BY <2>1, FewerOf, FewerAnswered DEF AnswersInv
  <2>3. ASSUME got'.kind = "suback"
        PROVE  /\ ~(\E i \in 1..Len(inbox') : inbox'[i].kind \in Acks
                                               /\ inbox'[i].token = got'.token)
               /\ \E c \in responses : c.token = got'.token /\ c.type \in Subscribes
    <3>1. inbox[1].kind = "suback" /\ got'.token = inbox[1].token
      BY <2>1, <2>3
    <3>2. /\ Len(inbox) \in Nat /\ Len(inbox) > 0 /\ Len(inbox') = Len(inbox) - 1
          /\ \A i \in 1..Len(inbox') : inbox'[i] = inbox[i + 1]
      BY <1>t, <2>1, Popped
    <3>3. 1 \in 1..Len(inbox) /\ inbox[1].kind \in Acks
      BY <3>1, <3>2 DEF Acks
    <3>4. PICK c \in responses : Answers(c, inbox[1])
      BY <3>3 DEF AnswersInv, Answered
    <3>5. \A i \in 1..Len(inbox') : i + 1 \in 1..Len(inbox) /\ i + 1 # 1
      BY <3>2
    <3>6. \A i \in 1..Len(inbox') :
             inbox'[i].kind \in Acks => inbox'[i].token # inbox[1].token
      BY <3>2, <3>3, <3>5 DEF AnswersInv, Answered
    <3> QED
      BY <3>1, <3>4, <3>6 DEF Answers
  <2> QED
    BY <2>1, <2>2, <2>3 DEF AnswersInv, Acked
<1>3. CASE WriteFails
  <2>1. /\ queue # <<>> /\ First.type \in Messages /\ inbox' = inbox
        /\ outbound' = OutboundAfter(First) /\ partial = 0
        /\ UNCHANGED <<responses, arrived, partial, got>>
    BY <1>3 DEF WriteFails, Ready, idVars, socketVars, brokerVars, threadVars
  <2>2. Answered' /\ \A id : Acked(id)' => Acked(id)
    BY <2>1, FewerOf, FewerAnswered DEF AnswersInv
  <2>3. ~Acked(First.token)
    <3>1. 1 \in 1..Len(queue) /\ First = queue[1]
      BY <1>t, <2>1, Popped DEF First
    <3>2. \A c \in responses : c.token # First.token
      BY <3>1 DEF Distinct
    <3> QED
      BY <3>2 DEF Acked, AnswersInv, Answered, Answers
  <2>4. \A c \in outbound' : c \in outbound \/ c = First
    BY <2>1 DEF OutboundAfter
  <2> QED
    BY <2>1, <2>2, <2>3, <2>4 DEF AnswersInv
<1>4. CASE ReceivePuback
  <2>1. PICK c \in responses : /\ Answers(c, inbox[1]) /\ inbox[1].kind = "puback"
                               /\ responses' = responses \ {c}
                               /\ outbound' = outbound \ {c}
    BY <1>4, PubackEnds
  <2>2. /\ inbox # <<>> /\ inbox' = Tail(inbox) /\ got = Nothing
        /\ UNCHANGED <<arrived, partial, got>>
    BY <1>4 DEF ReceivePuback, Arriving, Reading, socketVars, brokerVars, threadVars
  <2>3. /\ Len(inbox) \in Nat /\ Len(inbox) > 0 /\ Len(inbox') = Len(inbox) - 1
        /\ \A i \in 1..Len(inbox') : inbox'[i] = inbox[i + 1]
    BY <1>t, <2>2, Popped
  <2>4. 1 \in 1..Len(inbox) /\ inbox[1].kind \in Acks /\ c.token = inbox[1].token
    BY <2>1, <2>3 DEF Acks, Answers
  <2>5. \A i \in 1..Len(inbox') : i + 1 \in 1..Len(inbox) /\ i + 1 # 1
    BY <2>3
  <2>6. ASSUME NEW i \in 1..Len(inbox'), inbox'[i].kind \in Acks
        PROVE  \E d \in responses' :
                /\ d.token = inbox'[i].token
                /\ inbox'[i].kind = "suback" <=> d.type \in Subscribes
                /\ inbox'[i].kind = "puback" /\ d.type = "data" => Came(d.arg)'
    <3>1. PICK d \in responses : Answers(d, inbox[i + 1])
      BY <2>3, <2>5, <2>6 DEF AnswersInv, Answered
    <3>2. inbox[i + 1].token # inbox[1].token
      BY <2>3, <2>4, <2>5, <2>6 DEF AnswersInv, Answered
    <3>3. d # c
      BY <2>4, <3>1, <3>2 DEF Answers
    <3> QED
      BY <2>1, <2>2, <2>3, <3>1, <3>3 DEF Answers, Came
  <2>7. ASSUME NEW i \in 1..Len(inbox'), NEW j \in 1..Len(inbox'),
               inbox'[i].kind \in Acks, inbox'[j].kind \in Acks,
               inbox'[i].token = inbox'[j].token
        PROVE  i = j
    <3>1. i + 1 = j + 1
      BY <2>3, <2>5, <2>7 DEF AnswersInv, Answered
    <3> QED
      BY <3>1
  <2>8. \A id : Acked(id)' => Acked(id)
    BY <2>3, <2>5 DEF Acked
  <2>9. Answered'
    BY <2>6, <2>7 DEF Answered, Answers
  <2>10. got'.kind # "suback"
    BY <2>2 DEF Nothing
  <2> QED
    BY <2>1, <2>2, <2>8, <2>9, <2>10 DEF AnswersInv
<1>5. CASE HandleSuback
  <2>1. PICK c \in responses : /\ c.type \in Subscribes /\ ~Acked(c.token)
                               /\ responses' = responses \ {c}
    BY <1>5, SubackEnds DEF AnswersInv
  <2>2. /\ got' = Nothing
        /\ UNCHANGED <<inbox, outbound, arrived, partial>>
    BY <1>5 DEF HandleSuback, socketVars, brokerVars
  <2>3. ASSUME NEW i \in 1..Len(inbox), inbox[i].kind \in Acks
        PROVE  \E d \in responses' : Answers(d, inbox[i])
    <3>1. PICK d \in responses : Answers(d, inbox[i])
      BY <2>3 DEF AnswersInv, Answered
    <3>2. d # c
      BY <2>1, <2>3, <3>1 DEF Acked, Answers
    <3> QED
      BY <2>1, <3>1, <3>2
  <2>4. Answered'
    BY <2>2, <2>3 DEF AnswersInv, Answered, Answers, Came
  <2>5. /\ c \notin outbound /\ got'.kind # "suback"
        /\ \A id : Acked(id)' => Acked(id)
    BY <1>0, <2>1, <2>2 DEF FlightInv, Nothing, Acked
  <2> QED
    BY <2>1, <2>2, <2>4, <2>5 DEF AnswersInv
<1>6. CASE ContinueWrite
  <2>1. /\ got = Nothing /\ partial # 0 /\ partial' = 0
        /\ UNCHANGED <<responses, outbound, got>>
    BY <1>6 DEF ContinueWrite, idVars, threadVars
  <2>2. got'.kind # "suback"
    BY <2>1 DEF Nothing
  <2>3. CASE inbox' = inbox /\ arrived' = arrived
    <3>1. Answered' /\ \A id : Acked(id)' => Acked(id)
      BY <2>1, <2>3, FewerOf, FewerAnswered DEF AnswersInv
    <3> QED
      BY <2>1, <2>2, <3>1 DEF AnswersInv
  <2>4. ASSUME link = "up", NEW c \in outbound, c.type = "data", c.arg = partial, Reaches(c)
        PROVE  AnswersInv'
    <3>1. c \in Commands /\ c.type \in Messages /\ ~Acked(c.token)
          /\ outbound \subseteq responses
      BY <1>t, <1>0, <2>1, <2>4 DEF AnswersInv, FlightInv
    <3>2. partial \in 1..MaxMessages
      BY <2>1, ConstantsTyped DEF TypeInv, TypeOK
    <3>3. Answered'
      BY <2>1, <2>4, <3>1, <3>2, OneAnswered DEF Reaches, AnswersInv
    <3> QED
      BY <2>1, <2>2, <3>1, <3>3 DEF AnswersInv
  <2>5. \/ inbox' = inbox /\ arrived' = arrived
        \/ link = "up" /\ \E c \in outbound : c.type = "data" /\ c.arg = partial /\ Reaches(c)
    BY <1>6 DEF ContinueWrite
  <2> QED
    BY <2>3, <2>4, <2>5
<1>7. CASE Write
  <2>1. /\ queue # <<>> /\ First.type \in Messages /\ partial = 0
        /\ responses' = responses \cup {First} /\ outbound' = OutboundAfter(First)
        /\ got' = got /\ Putdatas(First)
    BY <1>7 DEF Write, Ready, threadVars
  <2>2. /\ First \in Commands /\ First = queue[1] /\ 1 \in 1..Len(queue)
        /\ First.type = "data" => First.arg \in 1..sent
    BY <1>t, <2>1, FirstTyped, Popped DEF First
  <2>3. \A c \in responses : c.token # First.token
    BY <2>2, <1>7, DistinctWritten
  <2>4. ~Acked(First.token)
    BY <2>3 DEF Acked, AnswersInv, Answered, Answers
  <2>5. \A c \in outbound' : c \in outbound \/ c = First
    BY <2>1 DEF OutboundAfter
  <2>6. ASSUME inbox' = inbox, arrived' = arrived,
               \/ partial' = partial
               \/ First.type = "data" /\ partial' = First.arg
        PROVE  AnswersInv'
    <3>1. Answered'
      BY <2>1, <2>6 DEF AnswersInv, Answered, Answers, Came
    <3>2. \A id : Acked(id)' => Acked(id)
      BY <2>6 DEF Acked
    <3>3. ASSUME partial' # 0, NEW c \in outbound', c.type = "data", c.arg = partial'
          PROVE  c = First
      <4>1. First.type = "data" /\ partial' = First.arg
        BY <2>1, <2>6, <3>3
      <4>2. c \in outbound => c.arg < First.arg
        BY <2>2, <3>3, <4>1 DEF FlightInv
      <4>3. First.arg \in Nat
        BY <2>2 DEF Commands
      <4> QED
        BY <2>5, <3>3, <4>1, <4>2, <4>3
    <3> QED
      BY <2>1, <2>4, <2>5, <2>6, <3>1, <3>2, <3>3 DEF AnswersInv
  <2>7. ASSUME link = "up", Reaches(First), partial' = partial PROVE AnswersInv'
    <3>1. First.type = "data" => First.arg \in 1..MaxMessages
      BY <2>2, ConstantsTyped DEF TypeInv, TypeOK
    <3>2. /\ Answered'
          /\ \A id : Acked(id)' => Acked(id) \/ id = First.token
      BY <2>1, <2>2, <2>4, <2>7, <3>1, OneAnswered DEF Reaches, AnswersInv
    <3>3. outbound' \subseteq responses'
      BY <2>1, <2>5, <2>7 DEF FlightInv
    <3> QED
      BY <2>1, <2>3, <2>7, <3>2, <3>3 DEF AnswersInv
  <2> QED
    BY <2>1, <2>6, <2>7 DEF Putdatas, brokerVars
<1> QED
  BY <1>1, <1>2, <1>3, <1>4, <1>5, <1>6, <1>7, StepKeeps DEF Answering

LEMMA SessionFlight ==
    ASSUME TypeInv, SessionInv, OpeningInv, OrderInv, Distinct, FlightInv, AnswersInv,
           [Next]_vars
    PROVE  FlightInv' /\ AnswersInv'
<1>t. inbox \in Seq(Packets) /\ SessionInv'
  BY SessionStep DEF TypeInv, TypeOK
<1>0. Welcomes \cap Acks = {}
  BY DEF Welcomes, Acks
<1>1. CASE ~connected'
  BY <1>t, <1>0, <1>1, FlightQuiet DEF SessionInv
<1>2. CASE connected /\ connected'
  BY <1>2, FlightStep, AnswersStep
<1>3. CASE ~connected /\ connected'
  <2>1. HandleConnack
    BY <1>3, BecomesConnected
  <2>2. /\ outbound' = {} /\ inbox' = inbox /\ partial' = partial /\ got' = Nothing
    BY <2>1 DEF HandleConnack, CleanSession, socketVars
  <2>3. partial = 0 /\ \A i \in 1..Len(inbox) : inbox[i].kind \notin Acks
    BY <1>3, <1>0 DEF SessionInv
  <2>4. got'.kind # "suback"
    BY <2>2 DEF Nothing
  <2> QED
    BY <2>2, <2>3, <2>4, FlightQuiet
<1> QED
  BY <1>1, <1>2, <1>3

LEMMA FlightInit == Init => FlightInv /\ AnswersInv
<1> SUFFICES ASSUME Init PROVE FlightInv /\ AnswersInv
  OBVIOUS
<1>1. outbound = {} /\ partial = 0 /\ ~connected /\ 1..Len(inbox) = {}
  BY DEF Init
<1> QED
  BY <1>1 DEF FlightInv, AnswersInv, Answered

(* While a session goes on, a message is given up only when it has come.   *)
LEMMA DroppedStep ==
    ASSUME TypeInv, SessionInv, Distinct, FlightInv, AnswersInv, [Next]_vars,
           connected, connected', NEW n, Held(n), ~Held(n)'
    PROVE  Came(n)
<1>1. ASSUME NEW i \in 1..Len(queue), queue[i].type = "data", queue[i].arg = n
      PROVE  Held(n)'
  <2>1. CASE QueueGrows
    <3>1. PICK j \in 1..Len(queue') : queue'[j] = queue[i]
      BY <1>1, <2>1, DataStay
    <3> QED
      BY <1>1, <3>1 DEF Held
  <2>2. CASE Write \/ WriteFails
    <3>1. /\ queue # <<>>
          /\ queue' = Tail(queue) \/ queue' = AddHead(DisconnectInternal, Tail(queue))
          /\ outbound' = OutboundAfter(First)
      BY <2>2 DEF Write, WriteFails, Ready
    <3>2. CASE i = 1
      <4>1. First \in outbound' /\ First.type = "data" /\ First.arg = n
        BY <1>1, <3>1, <3>2 DEF First, OutboundAfter, Publishes
      <4> QED
        BY <4>1 DEF Held
    <3>3. CASE \E j \in 1..Len(queue') : queue'[j] = queue[i]
      BY <1>1, <3>3 DEF Held
    <3> QED
      BY <3>1, <3>2, <3>3, DataWritten
  <2> QED
    BY <2>1, <2>2, QueueStep
<1>2. ASSUME NEW c \in outbound, c.type = "data", c.arg = n
      PROVE  Came(n)
  <2>1. c \notin outbound'
    BY <1>2 DEF Held
  <2>2. ReceivePuback
    BY <2>1, <1>2, OutboundStep DEF OutboundAfter
  <2>3. PICK d \in responses : /\ Answers(d, inbox[1]) /\ inbox[1].kind = "puback"
                               /\ outbound' = outbound \ {d}
    BY <2>2, PubackEnds
  <2>4. c = d
    BY <1>2, <2>1, <2>3
  <2> QED
    BY <1>2, <2>3, <2>4 DEF Answers
<1> QED
  BY <1>1, <1>2 DEF Held

(* As long as the ids suffice, a message the client has taken leaves it    *)
(* only when the broker has got it, or with the session: no answer to      *)
(* another command takes it away, and no fault of the network does.        *)
THEOREM NoneIsDropped ==
    ASSUME Posix, MaxId > 2
    PROVE  Spec /\ []IdsSuffice => DroppedOnlyWithSession
<1> DEFINE All == /\ TypeInv /\ SessionInv /\ StopInv /\ NoReturn /\ OpeningInv
                  /\ TokensInv /\ OrderInv /\ FlightInv /\ AnswersInv
           Dropped == \A n \in 1..MaxMessages :
                         Held(n) /\ ~Held(n)'
                             => (\E i \in 1..Len(arrived) : arrived[i] = n)
                                \/ ~connected \/ ~connected'
<1>1. Init => All
  BY TypeInit, SessionInit, StopInit, OpeningInit, TokensInit, OrderInit, FlightInit
<1>2. All /\ [Next]_vars /\ IdsSuffice' => All'
  BY TypeStep, SessionStep, StopStep, NoReturnStep, OpeningStep, TokensStep,
     OrderStep, SessionFlight DEF TokensInv
<1>3. All /\ [Next]_vars => [Dropped]_vars
  BY DroppedStep DEF TokensInv, Came
<1>4. DroppedOnlyWithSession <=> [][Dropped]_vars
  BY DEF DroppedOnlyWithSession
<1> HIDE DEF All, Dropped
<1> QED
  BY <1>1, <1>2, <1>3, <1>4, PTL DEF Spec

(***************************************************************************)
(* With one request at most the ids always suffice.                        *)
(***************************************************************************)
LeftInv == Left <= MaxRequests

LEMMA LeftBetween ==
    ASSUME TypeInv, ~connected \/ inbox = <<>>, SessionInv
    PROVE  LeftInv
<1>t. requests \in 0..MaxRequests /\ MaxRequests \in Nat
  BY ConstantsTyped DEF TypeInv, TypeOK
<1>1. Requests(inbox) = {}
  BY DEF Requests, SessionInv, Welcomes
<1>2. Left = MaxRequests - requests
  BY <1>t, <1>1, FS_EmptySet DEF Left, LeftOf
<1> QED
  BY <1>t, <1>2 DEF LeftInv

LEMMA LeftInvStep ==
    TypeInv /\ SessionInv /\ OpeningInv /\ LeftInv /\ [Next]_vars /\ TypeInv' /\ SessionInv'
        => LeftInv'
<1> SUFFICES ASSUME TypeInv, SessionInv, OpeningInv, LeftInv, [Next]_vars,
                    TypeInv', SessionInv'
             PROVE  LeftInv'
  OBVIOUS
<1>t. requests' \in 0..MaxRequests /\ MaxRequests \in Nat
  BY ConstantsTyped DEF TypeInv, TypeOK
<1>1. CASE connected /\ connected'
  <2>1. Left \in Nat /\ Left' \in Nat /\ Left' <= Left
    BY <1>1, LeftStep
  <2> QED
    BY <1>t, <2>1 DEF LeftInv
<1>2. CASE ~connected \/ ~connected'
  <2>1. Requests(inbox') = {}
    <3>1. CASE ~connected'
      BY <3>1 DEF Requests, SessionInv, Welcomes
    <3>2. CASE ~connected /\ connected'
      <4>1. inbox' = inbox
        BY <3>2, BecomesConnected DEF HandleConnack
      <4> QED
        BY <3>2, <4>1 DEF Requests, SessionInv, Welcomes
    <3> QED
      BY <1>2, <3>1, <3>2
  <2>2. Left' = MaxRequests - requests'
    <3>1. Left' = Cardinality(Requests(inbox')) + (MaxRequests - requests')
      BY DEF Left, LeftOf
    <3> QED
      BY <1>t, <2>1, <3>1, FS_EmptySet
  <2>3. \A r \in 0..MaxRequests : MaxRequests - r <= MaxRequests
    BY <1>t
  <2> QED
    BY <1>t, <2>2, <2>3 DEF LeftInv
<1> QED
  BY <1>1, <1>2

(* With one request at most, and ids for the three of the opening, nobody  *)
(* has to assume that the ids suffice.                                     *)
THEOREM OneRequestSuffices ==
    ASSUME Posix, MaxId > 2, MaxRequests <= 1
    PROVE  Spec => []TokensDiffer /\ DroppedOnlyWithSession
<1> DEFINE All == TypeInv /\ SessionInv /\ StopInv /\ NoReturn /\ OpeningInv /\ LeftInv
<1>1. Init => All
  <2>1. Init => LeftInv
    BY TypeInit, SessionInit, LeftBetween DEF Init
  <2> QED
    BY <2>1, TypeInit, SessionInit, StopInit, OpeningInit
<1>2. All /\ [Next]_vars => All'
  BY TypeStep, SessionStep, StopStep, NoReturnStep, OpeningStep, LeftInvStep
<1>3. All => IdsSuffice
  <2> SUFFICES ASSUME TypeInv, LeftInv PROVE Left <= 1
    BY DEF IdsSuffice
  <2>1. Left \in Nat /\ MaxRequests \in Nat
    BY ConstantsTyped, LeftTyped DEF Left, TypeInv, TypeOK
  <2> QED
    BY <2>1 DEF LeftInv
<1>4. Spec => []IdsSuffice
  BY <1>1, <1>2, <1>3, PTL DEF Spec
<1> QED
  BY <1>4, IdsDiffer, NoneIsDropped, PTL

(***************************************************************************)
(* So they do with as many ids as there may be commands: a session takes   *)
(* one for each step of its opening, each request, each message that has   *)
(* not been sent yet and the will.                                         *)
(***************************************************************************)
WillToCome ==
    IF agent \in {"off", "running", "stopping"} /\ at["stopper"] \notin {"disconnecting", "ending"}
    THEN 1 ELSE 0

SessionToCome == IF connected THEN Left + callback ELSE MaxRequests + 3

BoundInv ==
    Cardinality(Taken \ {0}) + SessionToCome + (MaxMessages - sent) + WillToCome
       <= MaxRequests + MaxMessages + 4

LEMMA WillComesOnce ==
    ASSUME TypeInv, StopInv, [Next]_vars
    PROVE  /\ WillToCome \in {0, 1} /\ WillToCome' \in {0, 1}
           /\ WillToCome = 0 => WillToCome' = 0
           /\ AddMessage("stopper") => WillToCome = 1 /\ WillToCome' = 0
           /\ AddMessage("publisher") => sent' = sent + 1
<1> USE DEF TypeInv, TypeOK, StopInv, CallersInv, Senders, WillToCome
<1>1. CASE UNCHANGED callerVars
  BY <1>1 DEF callerVars, AddMessage, After
<1>2. CASE Connector
  <2>1. WillToCome = 0 => WillToCome' = 0
    BY <1>2 DEF Connector, Start, Offer, Heartbeat, Connect, GiveUp, AssignId, AddMessage,
       BeginStop, StopConnector, Disconnect, LookAgain, AddBye, After
  <2>2. AddMessage("stopper") => WillToCome = 1 /\ WillToCome' = 0
    BY DEF AddMessage, After
  <2>3. AddMessage("publisher") => sent' = sent + 1
    BY DEF AddMessage
  <2> QED
    BY <2>1, <2>2, <2>3
<1> QED
  BY <1>1, <1>2, AgentMoves

LEMMA TakenSize ==
    ASSUME NEW S \in SUBSET (0..MaxId), NEW T \in SUBSET (0..MaxId), NEW x
    PROVE  /\ Cardinality(S \ {0}) \in Nat
           /\ T \subseteq S \cup {0} => Cardinality(T \ {0}) <= Cardinality(S \ {0})
           /\ T \subseteq S \cup {x} => Cardinality(T \ {0}) <= Cardinality(S \ {0}) + 1
           /\ T = {} => Cardinality(T \ {0}) = 0
<1>1. S \ {0} \subseteq Ids /\ T \ {0} \subseteq Ids
  BY ConstantsTyped DEF Ids
<1>2. /\ IsFiniteSet(S \ {0}) /\ Cardinality(S \ {0}) \in Nat
      /\ IsFiniteSet(T \ {0}) /\ Cardinality(T \ {0}) \in Nat
  BY <1>1, IdsFinite
<1>3. ASSUME T \subseteq S \cup {0} PROVE Cardinality(T \ {0}) <= Cardinality(S \ {0})
  <2>1. T \ {0} \subseteq S \ {0}
    BY <1>3
  <2> QED
    BY <1>2, <2>1, FS_Subset
<1>4. ASSUME T \subseteq S \cup {x} PROVE Cardinality(T \ {0}) <= Cardinality(S \ {0}) + 1
  <2> DEFINE U == (S \ {0}) \cup {x}
  <2>1. /\ IsFiniteSet(U) /\ Cardinality(U) \in Nat
        /\ Cardinality(U) <= Cardinality(S \ {0}) + 1
    <3>1. /\ IsFiniteSet(U)
          /\ Cardinality(U) = IF x \in S \ {0} THEN Cardinality(S \ {0})
                              ELSE Cardinality(S \ {0}) + 1
      BY <1>2, FS_AddElement
    <3> HIDE DEF U
    <3> QED
      BY <1>2, <3>1
  <2>2. T \ {0} \subseteq U
    BY <1>4
  <2>3. Cardinality(T \ {0}) <= Cardinality(U)
    <3> HIDE DEF U
    <3> QED
      BY <2>1, <2>2, FS_Subset
  <2> HIDE DEF U
  <2> QED
    BY <1>2, <2>1, <2>3
<1>5. ASSUME T = {} PROVE Cardinality(T \ {0}) = 0
  <2>1. T \ {0} = {}
    BY <1>5
  <2> QED
    BY <2>1, FS_EmptySet
<1> QED
  BY <1>2, <1>3, <1>4, <1>5

LEMMA BoundStep ==
    ASSUME Posix, TypeInv, SessionInv, StopInv, NoReturn, OpeningInv, TokensInv,
           LeftInv, BoundInv, [Next]_vars
    PROVE  BoundInv'
<1>t. TypeInv' /\ SessionInv' /\ LeftInv'
  BY TypeStep, SessionStep, LeftInvStep
<1>c. /\ MaxRequests \in Nat /\ MaxMessages \in Nat /\ MaxId \in Nat
      /\ MaxRequests' = MaxRequests /\ MaxMessages' = MaxMessages
  BY ConstantsTyped
<1>1. PICK a, a1 : a = Cardinality(Taken \ {0}) /\ a1 = Cardinality(Taken' \ {0})
  OBVIOUS
<1>2. PICK b, b1 : b = Left /\ b1 = Left'
  OBVIOUS
<1>3. PICK k, k1 : k = callback /\ k1 = callback'
  OBVIOUS
<1>4. PICK c, c1 : c = sent /\ c1 = sent'
  OBVIOUS
<1>5. PICK w, w1 : w = WillToCome /\ w1 = WillToCome'
  OBVIOUS
<1>6. /\ b \in Nat /\ b1 \in Nat /\ b <= MaxRequests /\ b1 <= MaxRequests
      /\ k \in 0..3 /\ k1 \in 0..3 /\ c \in 0..MaxMessages /\ c1 \in 0..MaxMessages
  <2>1. Left \in Nat /\ Left' \in Nat
    BY <1>t, LeftTyped DEF Left, TypeInv, TypeOK
  <2> QED
    BY <1>t, <1>2, <1>3, <1>4, <2>1 DEF LeftInv, TypeInv, TypeOK
<1>7. /\ w \in {0, 1} /\ w1 \in {0, 1} /\ (w = 0 => w1 = 0)
      /\ AddMessage("stopper") => w = 1 /\ w1 = 0
      /\ AddMessage("publisher") => c1 = c + 1
      /\ c1 = c \/ c1 = c + 1
  BY <1>4, <1>5, WillComesOnce, SentGrows
<1>8. /\ a \in Nat /\ a1 \in Nat
      /\ Taken' \subseteq Taken \cup {0} => a1 <= a
      /\ \A x : Taken' \subseteq Taken \cup {x} => a1 <= a + 1
      /\ Taken' = {} => a1 = 0
  <2>1. Taken \in SUBSET (0..MaxId) /\ Taken' \in SUBSET (0..MaxId)
    <3>1. \A i \in 1..Len(queue') : queue'[i] \in Commands
      BY <1>t, ElementOfSeq DEF TypeInv, TypeOK
    <3>2. \A d \in Commands : d.token \in 0..MaxId
      BY DEF Commands
    <3>3. Taken' \subseteq 0..MaxId
      BY <1>t, <3>1, <3>2 DEF TypeInv, TypeOK, Taken
    <3> QED
      BY <3>3, TakenTyped
  <2>2. PICK S, T : S = Taken /\ T = Taken'
    OBVIOUS
  <2>3. S \in SUBSET (0..MaxId) /\ T \in SUBSET (0..MaxId)
    BY <2>1, <2>2
  <2>4. a = Cardinality(S \ {0}) /\ a1 = Cardinality(T \ {0})
    BY <1>1, <2>2
  <2> QED
    BY <2>2, <2>3, <2>4, TakenSize
<1>9. /\ connected => a + (b + k) + (MaxMessages - c) + w <= MaxRequests + MaxMessages + 4
      /\ ~connected => a + (MaxRequests + 3) + (MaxMessages - c) + w
                           <= MaxRequests + MaxMessages + 4
  BY <1>1, <1>2, <1>3, <1>4, <1>5 DEF BoundInv, SessionToCome
<1>10. SUFFICES
         /\ connected' => a1 + (b1 + k1) + (MaxMessages - c1) + w1
                             <= MaxRequests + MaxMessages + 4
         /\ ~connected' => a1 + (MaxRequests + 3) + (MaxMessages - c1) + w1
                             <= MaxRequests + MaxMessages + 4
  BY <1>1, <1>2, <1>3, <1>4, <1>5 DEF BoundInv, SessionToCome
<1>11. ASSUME NEW s \in Senders, AddMessage(s)
       PROVE  (MaxMessages - c1) + w1 <= (MaxMessages - c) + w - 1
  <2>1. AddMessage("stopper") \/ AddMessage("publisher")
    BY <1>11 DEF Senders
  <2> QED
    BY <1>c, <1>6, <1>7, <2>1
<1>12. (MaxMessages - c1) + w1 <= (MaxMessages - c) + w
  BY <1>c, <1>6, <1>7
<1>13. \/ Taken' \subseteq Taken \cup {0}
       \/ ReceiveRequest /\ connected /\ Taken' \subseteq Taken \cup {NextId}
       \/ OnConnect /\ Taken' \subseteq Taken \cup {NextId}
       \/ \E s \in Senders : AddMessage(s) /\ Taken' \subseteq Taken \cup {token[s]}
  BY TakenStep DEF TokensInv
<1>14. \/ a1 <= a
       \/ ReceiveRequest /\ connected /\ a1 <= a + 1
       \/ OnConnect /\ a1 <= a + 1
       \/ /\ a1 <= a + 1
          /\ (MaxMessages - c1) + w1 <= (MaxMessages - c) + w - 1
  BY <1>8, <1>11, <1>13
<1>15. CASE connected /\ connected'
  <2>1. b1 <= b /\ (ReceiveRequest => b1 <= b - 1)
    BY <1>2, <1>15, LeftStep
  <2>2. k1 <= k /\ (OnConnect => k1 = k - 1)
    <3>1. ~HandleConnack
      BY <1>15 DEF HandleConnack, Handling, SessionInv, Welcomes
    <3>2. callback' = callback \/ OnConnect
      BY <1>15, <3>1, SessionContinues DEF Continues, Write, ContinueWrite, threadVars
    <3>3. OnConnect => callback' = callback - 1
      BY DEF OnConnect
    <3> QED
      BY <1>3, <1>6, <3>2, <3>3
  <2>3. a1 + (b1 + k1) + (MaxMessages - c1) + w1 <= a + (b + k) + (MaxMessages - c) + w
    BY <1>c, <1>6, <1>7, <1>8, <1>12, <1>14, <2>1, <2>2
  <2> QED
    BY <1>c, <1>6, <1>7, <1>8, <1>9, <1>15, <2>3
<1>16. CASE connected /\ ~connected'
  <2>1. ProcessDisconnect
    BY <1>16, Ends
  <2>2. Taken' = {}
    BY <1>16, <2>1, TakenEmpty DEF ProcessDisconnect, CleanSession
  <2> QED
    BY <1>c, <1>6, <1>7, <1>8, <1>16, <2>2
<1>17. CASE ~connected /\ connected'
  <2>1. HandleConnack
    BY <1>17, BecomesConnected
  <2>2. Taken' = {}
    BY <2>1, TakenEmpty DEF HandleConnack, CleanSession
  <2> QED
    BY <1>c, <1>6, <1>7, <1>8, <1>17, <2>2
<1>18. CASE ~connected /\ ~connected'
  <2>1. ~OnConnect
    BY <1>18 DEF OnConnect, SessionInv
  <2>2. a1 + (MaxMessages - c1) + w1 <= a + (MaxMessages - c) + w
    BY <1>c, <1>6, <1>7, <1>8, <1>12, <1>14, <1>18, <2>1
  <2> QED
    BY <1>c, <1>6, <1>7, <1>8, <1>9, <1>18, <2>2
<1> QED
  BY <1>15, <1>16, <1>17, <1>18

LEMMA BoundSuffices ==
    ASSUME TypeInv, StopInv, LeftInv, BoundInv, MaxId > MaxMessages + MaxRequests + 3
    PROVE  IdsSuffice
<1> SUFFICES ASSUME NEW s \in Senders, at[s] = "numbered"
             PROVE  Cardinality(Taken \ {0}) + Left < MaxId
  BY DEF IdsSuffice
<1>1. /\ MaxRequests \in Nat /\ MaxMessages \in Nat /\ MaxId \in Nat
      /\ Left \in Nat /\ Left <= MaxRequests /\ sent \in 0..MaxMessages
      /\ callback \in 0..3
  BY ConstantsTyped, LeftTyped DEF Left, LeftInv, TypeInv, TypeOK
<1>2. Cardinality(Taken \ {0}) \in Nat
  <2>1. Taken \in SUBSET (0..MaxId)
    BY TakenTyped
  <2> QED
    BY <2>1, TakenSize
<1>3. WillToCome \in {0, 1} /\ MaxMessages - sent >= 0
  BY <1>1 DEF WillToCome
<1>4. (MaxMessages - sent) + WillToCome >= 1
  BY <1>1, <1>3 DEF TypeInv, TypeOK, Shape, StopInv, CallersInv, WillToCome, Senders
<1>5. Left <= SessionToCome
  BY <1>1 DEF SessionToCome
<1>6. SessionToCome \in Nat
  BY <1>1 DEF SessionToCome
<1> QED
  BY <1>1, <1>2, <1>3, <1>4, <1>5, <1>6 DEF BoundInv

(* With more ids than commands may want, of the agent's whole life, the    *)
(* ids suffice, and neither theorem needs a condition.                     *)
THEOREM ManyIdsSuffice ==
    ASSUME Posix, MaxId > MaxMessages + MaxRequests + 3
    PROVE  Spec => []TokensDiffer /\ DroppedOnlyWithSession
<1> DEFINE Rest == /\ TypeInv /\ SessionInv /\ StopInv /\ NoReturn /\ OpeningInv
                   /\ LeftInv /\ BoundInv
<1>0. MaxId > 2
  BY ConstantsTyped
<1>1. Init => Rest /\ TokensInv
  <2> SUFFICES ASSUME Init PROVE Rest /\ TokensInv
    OBVIOUS
  <2>1. TypeInv /\ SessionInv /\ StopInv /\ NoReturn /\ OpeningInv /\ TokensInv
    BY TypeInit, SessionInit, StopInit, OpeningInit, TokensInit
  <2>2. LeftInv
    BY <2>1, LeftBetween DEF Init
  <2>3. Taken = {} /\ ~connected /\ sent = 0
    BY DEF Init, Taken
  <2>4. Cardinality(Taken \ {0}) = 0
    <3>1. Taken \ {0} = {}
      BY <2>3
    <3> QED
      BY <3>1, FS_EmptySet
  <2>5. BoundInv
    BY <2>3, <2>4, ConstantsTyped DEF BoundInv, SessionToCome, WillToCome
  <2> QED
    BY <2>1, <2>2, <2>5
<1>2. Rest /\ TokensInv /\ [Next]_vars => Rest'
  BY <1>0, TypeStep, SessionStep, StopStep, NoReturnStep, OpeningStep, LeftInvStep, BoundStep
<1>3. Rest => IdsSuffice
  BY BoundSuffices
<1>4. Rest /\ TokensInv /\ [Next]_vars /\ IdsSuffice' => TokensInv'
  BY TokensStep
<1>5. Spec => []IdsSuffice
  BY <1>1, <1>2, <1>3, <1>4, PTL DEF Spec
<1> QED
  BY <1>0, <1>5, IdsDiffer, NoneIsDropped, PTL
=============================================================================
