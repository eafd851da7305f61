----------------------------- MODULE MqttClient -----------------------------
(***************************************************************************)
(* The MQTT worker thread and the pipe that feeds it (packages/            *)
(* pahomqtt-v1.1.0/MQTTClient-RT/paho_mqtt_pipe.c), with the callbacks and *)
(* the shell command of applications/mqtt.c.                               *)
(*                                                                         *)
(* A thread publishes by writing one message into pub_pipe.  The worker    *)
(* waits in select for the socket and the pipe, and looks at the socket    *)
(* first; one read() takes all the bytes in the pipe, of which it sends    *)
(* the first message.  A step of the worker ends where it waits: in        *)
(* select, in a send that blocks, or in a delay.  The worker is the more   *)
(* urgent thread, so publishers run only while it waits (Calm).            *)
(*                                                                         *)
(* Not here: the time between pings (any), what an incoming PUBLISH does   *)
(* to the application, a message only partly written when the pipe is      *)
(* full, shell subscriptions, and a second worker.                         *)
(***************************************************************************)
EXTENDS Integers, SequencesExt

CONSTANTS Messages,    \* what threads publish, each at most once
          Page0,       \* the message mqtt_online_callback publishes
          Disconnect,  \* the command "DISCONNECT" in the pipe
          Garbage,     \* what a misread command becomes
          Nothing,     \* no message is being sent
          PipeCap,     \* messages pub_pipe holds
          MaxFaults,   \* bound: failures while the broker is reachable, cuts
          MaxStops     \* bound: how often the shell runs mqtt_stop

ASSUME PipeCapAssumption == PipeCap \in Nat \ {0}
ASSUME MaxFaultsAssumption == MaxFaults \in Nat
ASSUME MaxStopsAssumption == MaxStops \in Nat
ASSUME DistinctAssumption ==
    /\ Page0 \notin Messages
    /\ {Disconnect, Garbage, Nothing} \cap (Messages \cup {Page0}) = {}
    /\ Disconnect # Garbage /\ Disconnect # Nothing /\ Garbage # Nothing

VARIABLES worker,       \* where paho_mqtt_thread waits
          isconnected,  \* c->isconnected
          is_online, is_started, is_first_time_online,  \* applications/mqtt.c
          pub_pipe,     \* the messages in the pipe, oldest first
          sending,      \* the message the worker read last, until it is sent
          writing,      \* messages of threads between lines 924 and 937
          wire,         \* messages the socket accepted, not yet arrived
          cloud,        \* messages that arrived, in order
          published,    \* messages the pipe accepted, in order
          lost,         \* messages that will not arrive any more, and why
          stopping,     \* mqtt_stop stands before the write of its command
          reachable,    \* the broker can be reached
          faults, stops \* count the environment's moves

flags == <<isconnected, is_online, is_started, is_first_time_online>>
network == <<reachable, faults>>
line == <<pub_pipe, sending, wire>>
shell == <<stopping, stops>>
client == <<worker, flags, line, writing, cloud, published, lost, network, shell>>

Payload == Messages \cup {Page0}
Linked == {"select", "pingresp", "publish", "puback"}
Online == Linked \cup {"online"}
Session == Online \cup {"suback", "disconnect", "leave"}

Init == /\ worker = "none"
        /\ isconnected = FALSE /\ is_online = FALSE /\ is_started = FALSE
        /\ is_first_time_online = TRUE
        /\ pub_pipe = <<>> /\ sending = Nothing /\ writing = {}
        /\ wire = <<>> /\ cloud = <<>> /\ published = <<>> /\ lost = {}
        /\ reachable \in BOOLEAN /\ faults = 0 /\ stopping = FALSE /\ stops = 0

Lost(s, why) == {<<m, why>> : m \in ToSet(s) \cap Payload}
Lose(s, why) == lost' = lost \cup Lost(s, why)

(* A call on the network fails if the broker cannot be reached, and        *)
(* MaxFaults times although it can.                                        *)
Works == reachable /\ UNCHANGED network
Fails == /\ UNCHANGED reachable
         /\ IF reachable THEN faults < MaxFaults /\ faults' = faults + 1
                         ELSE UNCHANGED faults

-----------------------------------------------------------------------------
(* mqtt_start.  The worker starts by making its pipe. *)
Start == /\ ~is_started /\ worker = "none"
         /\ is_started' = TRUE /\ isconnected' = FALSE
         /\ worker' = "connect"
         /\ UNCHANGED <<is_online, is_first_time_online, line, writing, cloud,
                        published, lost, network, shell>>

(* _mqtt_restart: offline_callback, net_disconnect, 5 s *)
Restart == /\ worker' = "pause"
           /\ is_online' = FALSE

Resume == /\ worker = "pause"
          /\ worker' = "connect"
          /\ UNCHANGED <<flags, line, writing, cloud, published, lost, network,
                         shell>>

(* net_connect; MQTTConnect up to the wait for CONNACK.  MQTTConnect fails *)
(* when the client believes it is connected.                               *)
Connect == /\ worker = "connect"
           /\ \/ /\ Works /\ ~isconnected
                 /\ worker' = "connack"
                 /\ UNCHANGED is_online
              \/ /\ Fails \/ (Works /\ isconnected)
                 /\ Restart
           /\ UNCHANGED <<isconnected, is_started, is_first_time_online, line,
                          writing, cloud, published, lost, shell>>

(* The broker drops what the client's former connection still carried. *)
ConnAck == /\ worker = "connack"
           /\ \/ /\ Works
                 /\ isconnected' = TRUE
                 /\ worker' = "suback"
                 /\ wire' = <<>>
                 /\ Lose(wire, "takeover")
                 /\ UNCHANGED is_online
              \/ /\ Fails
                 /\ Restart
                 /\ UNCHANGED <<isconnected, wire, lost>>
           /\ UNCHANGED <<is_started, is_first_time_online, pub_pipe, sending,
                          writing, cloud, published, shell>>

(* mqtt_online_callback sets is_online and the first time publishes Page0. *)
(* Without room in the pipe it waits in "online", for ever, since only     *)
(* this thread makes room.                                                 *)
Greet == /\ is_first_time_online /\ Len(pub_pipe) < PipeCap
         /\ pub_pipe' = Append(pub_pipe, Page0)
         /\ published' = Append(published, Page0)
         /\ is_first_time_online' = FALSE
         /\ worker' = "select"
NoGreeting == /\ is_first_time_online => Len(pub_pipe) = PipeCap
              /\ worker' = IF is_first_time_online THEN "online" ELSE "select"
              /\ UNCHANGED <<is_first_time_online, pub_pipe, published>>
OnlineCallbackLate ==  \* mutant: is_online is set after the publish
    /\ Greet \/ NoGreeting
    /\ is_online' = (worker' = "select")
OnlineCallback == /\ Greet \/ NoGreeting
                  /\ is_online' = TRUE

(* MQTTSubscribe, then online_callback *)
SubAck == /\ worker = "suback"
          /\ \/ Works /\ OnlineCallback
             \/ /\ Fails
                /\ worker' = "disconnect"
                /\ UNCHANGED <<is_online, is_first_time_online, pub_pipe,
                               published>>
          /\ UNCHANGED <<isconnected, is_started, sending, writing, wire, cloud,
                         lost, shell>>

(* MQTT_cycle: a PUBLISH that has to be acknowledged, another packet, or   *)
(* none that can be read.                                                  *)
Cycle == /\ worker \in {"select", "pingresp"}
         /\ \/ Works /\ worker' \in {"puback", "select"}
            \/ Fails /\ worker' = "disconnect"
         /\ UNCHANGED <<flags, line, writing, cloud, published, lost, shell>>

PubAck == /\ worker = "puback"
          /\ \/ UNCHANGED network /\ worker' = "select"
             \/ Fails /\ worker' = "disconnect"
          /\ UNCHANGED <<flags, line, writing, cloud, published, lost, shell>>

(* select timed out: nothing in the pipe, time for a ping *)
Ping == /\ worker = "select" /\ pub_pipe = <<>>
        /\ \/ UNCHANGED network /\ worker' = "pingresp"
           \/ Fails /\ worker' = "disconnect"
        /\ UNCHANGED <<flags, line, writing, cloud, published, lost, shell>>

NoPingResp == /\ worker = "pingresp"
              /\ Fails
              /\ worker' = "disconnect"
              /\ UNCHANGED <<flags, line, writing, cloud, published, lost, shell>>

ReadPipeOnce ==        \* mutant: reads, but the bytes stay in the pipe
    /\ worker = "select" /\ pub_pipe # <<>>
    /\ sending' = Head(pub_pipe) /\ worker' = "publish"
    /\ UNCHANGED <<flags, pub_pipe, writing, wire, cloud, published, lost,
                   network, shell>>
ReadPipeNever ==       \* mutant: the pipe is not in the read set
    FALSE /\ UNCHANGED client

(* The first message is sent, the rest of the buffer forgotten.  The       *)
(* command is recognised only when it is alone; in front of a message it   *)
(* is misread: it cannot be sent, or something else is.                    *)
ReadPipe ==
    /\ worker = "select" /\ pub_pipe # <<>>
    /\ pub_pipe' = <<>>
    /\ Lose(Tail(pub_pipe), "overrun")
    /\ \/ /\ Head(pub_pipe) # Disconnect
          /\ sending' = Head(pub_pipe) /\ worker' = "publish"
       \/ /\ pub_pipe = <<Disconnect>>
          /\ worker' = "leave" /\ UNCHANGED sending
       \/ /\ Head(pub_pipe) = Disconnect /\ Len(pub_pipe) > 1
          /\ \/ worker' = "disconnect" /\ UNCHANGED sending
             \/ sending' = Garbage /\ worker' = "publish"
    /\ UNCHANGED <<flags, writing, wire, cloud, published, network, shell>>

(* sendPacket.  The socket may accept bytes for a broker out of reach. *)
SendDone == /\ worker = "publish"
            /\ sending' = Nothing
            /\ \/ /\ UNCHANGED <<network, lost>>
                  /\ wire' = Append(wire, sending)
                  /\ worker' = "select"
               \/ /\ Fails
                  /\ Lose(<<sending>>, "unsent")
                  /\ worker' = "disconnect"
                  /\ UNCHANGED wire
            /\ UNCHANGED <<flags, pub_pipe, writing, cloud, published, shell>>

DisconnectedKeeps ==   \* mutant: isconnected is not reset
    /\ worker = "disconnect"
    /\ Restart
    /\ UNCHANGED <<isconnected, is_started, is_first_time_online, line, writing,
                   cloud, published, lost, network, shell>>
DisconnectedClears ==  \* mutant: the pipe is made anew for each connection
    /\ worker = "disconnect"
    /\ isconnected' = FALSE
    /\ Restart
    /\ pub_pipe' = <<>>
    /\ UNCHANGED <<is_started, is_first_time_online, sending, wire, writing,
                   cloud, published, lost, network, shell>>

(* _mqtt_disconnect: MQTTDisconnect, whatever its send returns *)
Disconnected == /\ worker = "disconnect"
                /\ isconnected' = FALSE
                /\ Restart
                /\ UNCHANGED <<is_started, is_first_time_online, line, writing,
                               cloud, published, lost, network, shell>>

(* _mqtt_disconnect_exit: MQTTDisconnect, net_disconnect_exit.  There is   *)
(* no offline_callback here.                                               *)
Exit == /\ worker = "leave"
        /\ isconnected' = FALSE
        /\ worker' = "exit"
        /\ pub_pipe' = <<>>
        /\ Lose(pub_pipe, "deleted")
        /\ UNCHANGED <<is_online, is_started, is_first_time_online, sending,
                       wire, writing, cloud, published, network, shell>>

Worker == \/ Resume \/ Connect \/ ConnAck \/ SubAck
          \/ Cycle \/ PubAck \/ Ping \/ NoPingResp \/ ReadPipe \/ SendDone
          \/ Disconnected \/ Exit

-----------------------------------------------------------------------------
(* The other threads *)

Calm == ~(worker = "select" /\ pub_pipe # <<>>)

Room == Len(pub_pipe) < PipeCap
Put(m) == pub_pipe' = Append(pub_pipe, m)

(* MQTTPublish up to the write ... *)
Enter(m) == /\ Calm /\ isconnected
            /\ writing' = writing \cup {m}
            /\ UNCHANGED <<worker, flags, line, cloud, published, lost, network,
                           shell>>
(* ... the write, which waits for room ... *)
Write(m) == /\ Calm /\ m \in writing
            /\ worker # "exit" /\ Room
            /\ Put(m)
            /\ published' = Append(published, m)
            /\ writing' = writing \ {m}
            /\ UNCHANGED <<worker, flags, sending, wire, cloud, lost, network,
                           shell>>
(* ... and its failure when the pipe is gone. *)
WriteFails(m) == /\ Calm /\ m \in writing
                 /\ worker = "exit"
                 /\ writing' = writing \ {m}
                 /\ UNCHANGED <<worker, flags, line, cloud, published, lost,
                                network, shell>>

(* mqtt_stop clears is_started, and while connected writes the command ... *)
Stop == /\ Calm /\ ~stopping /\ stops < MaxStops
        /\ stops' = stops + 1
        /\ is_started' = FALSE
        /\ stopping' = isconnected
        /\ UNCHANGED <<worker, isconnected, is_online, is_first_time_online,
                       line, writing, cloud, published, lost, network>>
(* ... for which it waits for room, or finds the pipe gone. *)
Command == /\ Calm /\ stopping
           /\ \/ worker # "exit" /\ Room /\ Put(Disconnect)
              \/ worker = "exit" /\ UNCHANGED pub_pipe
           /\ stopping' = FALSE
           /\ UNCHANGED <<worker, flags, sending, wire, writing, cloud, published,
                          lost, network, stops>>

(* The broker and the way to it *)
Deliver == /\ reachable /\ wire # <<>>
           /\ cloud' = Append(cloud, Head(wire))
           /\ wire' = Tail(wire)
           /\ UNCHANGED <<worker, flags, pub_pipe, sending, writing, published,
                          lost, network, shell>>
Cut == /\ reachable /\ faults < MaxFaults
       /\ reachable' = FALSE /\ faults' = faults + 1
       /\ UNCHANGED <<worker, flags, line, writing, cloud, published, lost, shell>>
Heal == /\ ~reachable
        /\ reachable' = TRUE
        /\ UNCHANGED <<worker, flags, line, writing, cloud, published, lost,
                       faults, shell>>
Network == Deliver \/ Cut \/ Heal

(* A shell that publishes, for the runs of this module alone: mqtt_publish *)
(* looks at is_started only.                                               *)
Publish(m) == /\ is_started
              /\ m \notin writing \cup ToSet(published)
              /\ Enter(m)

Next == \/ Start \/ Worker \/ Stop \/ Command \/ Network
        \/ \E m \in Messages : Publish(m) \/ Write(m) \/ WriteFails(m)

Spec == Init /\ [][Next]_client

(* Threads are scheduled and what they wait for has a timeout; an outage   *)
(* ends; the socket is not always readable when the pipe is, so that the   *)
(* worker reaches the pipe some day.                                       *)
ClientFairness == /\ WF_client(Start) /\ WF_client(Worker) /\ SF_client(ReadPipe)
                  /\ WF_client(Heal) /\ WF_client(Deliver)
FairSpec == /\ Spec /\ ClientFairness
            /\ \A m \in Messages : SF_client(Write(m) \/ WriteFails(m))

-----------------------------------------------------------------------------
(* Where messages are, those that left the pipe first in front *)
InTransit == wire \o <<sending>> \o pub_pipe
Journey == cloud \o InTransit
LostMessages == {l[1] : l \in lost}

(* Every variable has its type; the pipe holds no more than it can. *)
TypeOK ==
    /\ worker \in {"none", "connect", "connack", "pause", "exit"} \cup Session
    /\ isconnected \in BOOLEAN /\ is_online \in BOOLEAN
    /\ is_started \in BOOLEAN /\ is_first_time_online \in BOOLEAN
    /\ pub_pipe \in Seq(Payload \cup {Disconnect}) /\ Len(pub_pipe) <= PipeCap
    /\ sending \in Payload \cup {Garbage, Nothing}
    /\ writing \subseteq Messages
    /\ wire \in Seq(Payload \cup {Garbage}) /\ cloud \in Seq(Payload \cup {Garbage})
    /\ published \in Seq(Payload)
    /\ lost \subseteq Payload \X {"overrun", "unsent", "takeover", "deleted"}
    /\ reachable \in BOOLEAN /\ stopping \in BOOLEAN
    /\ faults \in 0..MaxFaults /\ stops \in 0..MaxStops

(* What other threads read of the worker is true when they read it:        *)
(* isconnected (MQTTPublish, MQTT_CMD) whenever a session exists, and      *)
(* is_online (the report thread) from online_callback on, also while that  *)
(* waits for room (mqtt.c:106), until offline_callback; after the worker's *)
(* exit it stays set (paho_mqtt_pipe.c:620, 1171-1177, 1185).              *)
FlagsTruthful ==
    /\ isconnected <=> worker \in Session
    /\ worker \in Online => is_online
    /\ is_online => worker \in Online \cup {"disconnect", "leave", "exit"}

(* Messages travel in the order in which the pipe accepted them, none      *)
(* twice (paho_mqtt_pipe.c:1130, 1145-1158), over all reconnections.       *)
InOrder == \A i, j \in 1..Len(Journey) :
              i < j /\ {Journey[i], Journey[j]} \subseteq Payload =>
                 \E k, l \in 1..Len(published) :
                    /\ k < l
                    /\ published[k] = Journey[i] /\ published[l] = Journey[j]

(* An accepted message is under way or arrived, or it was lost for one of  *)
(* four reasons: read together with an older one, not sent, dropped with   *)
(* the old connection, or in the pipe that was deleted.                    *)
Accounted ==
    /\ ToSet(published) = (ToSet(Journey) \cap Payload) \cup LostMessages
    /\ ToSet(Journey) \cap LostMessages = {}

(* The online callback, run by the only thread that empties the pipe,      *)
(* waits for room in it (mqtt.c:111).                                      *)
WaitsForItself == worker = "online"

(* The worker always comes back: if nobody stops it and faults cease, it   *)
(* is in its working loop for ever (docs/introduction.md:32-34), unless it *)
(* came to wait for itself.                                                *)
Recovers == <>[](worker \in Linked) \/ <>(stops > 0) \/ <>[]WaitsForItself

(* A message that was accepted arrives or is lost, and its publisher does  *)
(* not wait for ever, unless mqtt_stop came or the worker waits for        *)
(* itself.                                                                 *)
MovesOn == \A m \in Messages :
              (m \in writing \cup ToSet(published))
                 ~> \/ m \in ToSet(cloud) \cup LostMessages
                    \/ stops > 0 \/ WaitsForItself
=============================================================================
