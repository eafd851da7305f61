-------------------------- MODULE MqttClientProofs --------------------------
(***************************************************************************)
(* Proofs about the MQTT client, for any messages, any size of the pipe,   *)
(* any number of faults and stops.                                         *)
(*                                                                         *)
(* Flags.  FlagsTruthful is inductive once the flags are known to be       *)
(* Boolean: each jump of paho_mqtt_thread that leaves the session clears   *)
(* isconnected, and each but the exit clears is_online.                    *)
(*                                                                         *)
(* Account.  An accepted message is in exactly one of five places: at the  *)
(* broker, on the wire, in the hands of the worker, in the pipe, or lost.  *)
(*                                                                         *)
(* Order.  Each place, and the places among themselves, keep the order in  *)
(* which the pipe accepted the messages.                                   *)
(*                                                                         *)
(* The lemmas about account and order take AnyStep, in which messages are  *)
(* published by the shell of this module or by any thread that holds a     *)
(* message not yet accepted: StatusReportProofs uses them for its thread.  *)
(***************************************************************************)
EXTENDS MqttClient, TLAPS

Places == {"none", "connect", "connack", "pause", "exit"} \cup Session

FlagTypes == /\ worker \in Places
             /\ isconnected \in BOOLEAN
             /\ is_online \in BOOLEAN

FlagsInv == FlagTypes /\ FlagsTruthful

LEMMA InitFlags == Init => FlagsInv
BY DEF Init, FlagsInv, FlagTypes, Places, FlagsTruthful, Session, Online, Linked

(* The steps in which neither the worker moves nor a flag of it changes:   *)
(* other threads, the broker and the network.                              *)
LEMMA OthersKeepFlags ==
    ASSUME FlagsInv, UNCHANGED <<worker, isconnected, is_online>>
    PROVE  FlagsInv'
BY DEF FlagsInv, FlagTypes, FlagsTruthful

(* What net_connect and MQTTConnect up to the wait for CONNACK do to the   *)
(* flags: a failure jumps to _mqtt_restart, which clears is_online.        *)
LEMMA ConnectFlags ==
    ASSUME Connect
    PROVE  /\ worker = "connect" /\ isconnected' = isconnected
           /\ \/ worker' = "connack" /\ is_online' = is_online
              \/ worker' = "pause" /\ is_online' = FALSE
<1>1. worker = "connect" /\ isconnected' = isconnected
  BY Zenon DEF Connect
<1>2. \/ worker' = "connack" /\ is_online' = is_online
      \/ Restart
  BY Zenon DEF Connect
<1> QED
  BY <1>1, <1>2, Zenon DEF Restart

(* What the answer to CONNECT does: CONNACK sets isconnected, a failure     *)
(* jumps to _mqtt_restart with isconnected as it was.                      *)
LEMMA ConnAckFlags ==
    ASSUME ConnAck
    PROVE  \/ worker' = "suback" /\ isconnected' = TRUE /\ is_online' = is_online
           \/ worker' = "pause" /\ isconnected' = isconnected /\ is_online' = FALSE
BY Zenon DEF ConnAck, Restart

(* mqtt_start and the way to a session: net_connect, CONNACK, SUBACK and   *)
(* the jumps to _mqtt_restart and _mqtt_disconnect.                        *)
LEMMA ConnectingKeepsFlags ==
    ASSUME FlagsInv, Start \/ Resume \/ Connect \/ ConnAck \/ SubAck
    PROVE  FlagsInv'
<1> USE DEF FlagsInv, FlagTypes, Places, FlagsTruthful, Session, Online, Linked,
            flags
<1>1. CASE Start
  BY <1>1 DEF Start
<1>2. CASE Resume
  BY <1>2 DEF Resume
<1>3. CASE Connect
  <2>1. worker = "connect" /\ isconnected' = isconnected
    BY <1>3, ConnectFlags
  <2>2. isconnected = FALSE /\ is_online = FALSE
    BY <2>1
  <2>3. isconnected' = FALSE /\ is_online' = FALSE
    BY <1>3, <2>1, <2>2, ConnectFlags
  <2>4. worker' \in {"connack", "pause"}
    BY <1>3, ConnectFlags
  <2> QED
    BY <2>3, <2>4
<1>4. CASE ConnAck
  <2>1. isconnected = FALSE /\ is_online = FALSE
    BY <1>4 DEF ConnAck
  <2>2. \/ worker' = "suback" /\ isconnected' = TRUE /\ is_online' = is_online
        \/ worker' = "pause" /\ isconnected' = isconnected /\ is_online' = FALSE
    BY <1>4, ConnAckFlags
  <2>3. CASE worker' = "suback"
    BY <2>1, <2>2, <2>3
  <2>4. CASE worker' = "pause"
    BY <2>1, <2>2, <2>4
  <2> QED
    BY <2>2, <2>3, <2>4
<1>5. CASE SubAck
  BY <1>5 DEF SubAck, OnlineCallback, Greet, NoGreeting
<1> QED
  BY <1>1, <1>2, <1>3, <1>4, <1>5

(* The working loop and the two ways out of it. *)
LEMMA WorkingKeepsFlags ==
    ASSUME FlagsInv,
           \/ Cycle \/ PubAck \/ Ping \/ NoPingResp \/ ReadPipe \/ SendDone
           \/ Disconnected \/ Exit
    PROVE  FlagsInv'
<1> USE DEF FlagsInv, FlagTypes, Places, FlagsTruthful, Session, Online, Linked,
            flags
<1>1. CASE Cycle
  BY <1>1 DEF Cycle
<1>2. CASE PubAck
  BY <1>2 DEF PubAck
<1>3. CASE Ping
  BY <1>3 DEF Ping
<1>4. CASE NoPingResp
  BY <1>4 DEF NoPingResp
<1>5. CASE ReadPipe
  BY <1>5 DEF ReadPipe
<1>6. CASE SendDone
  BY <1>6 DEF SendDone
<1>7. CASE Disconnected
  BY <1>7 DEF Disconnected, Restart
<1>8. CASE Exit
  BY <1>8 DEF Exit
<1> QED
  BY <1>1, <1>2, <1>3, <1>4, <1>5, <1>6, <1>7, <1>8

LEMMA NextFlags ==
    ASSUME FlagsInv, [Next]_client
    PROVE  FlagsInv'
<1>1. CASE Start \/ Worker
  BY <1>1, ConnectingKeepsFlags, WorkingKeepsFlags DEF Worker
<1>2. CASE Stop \/ Command \/ Network
  BY <1>2, OthersKeepFlags DEF Stop, Command, Network, Deliver, Cut, Heal, flags
<1>3. ASSUME NEW m \in Messages, Publish(m) \/ Write(m) \/ WriteFails(m)
      PROVE  FlagsInv'
  BY <1>3, OthersKeepFlags DEF Publish, Enter, Write, WriteFails, flags
<1>4. CASE UNCHANGED client
  BY <1>4, OthersKeepFlags DEF client, flags
<1> QED
  BY <1>1, <1>2, <1>3, <1>4 DEF Next

(* Whoever reads isconnected or is_online between two steps of the worker  *)
(* reads the truth about it (paho_mqtt_pipe.c:620, 924, 1171-1185).        *)
THEOREM FlagsTellTheTruth == Spec => []FlagsTruthful
<1>1. Init => FlagsInv
  BY InitFlags
<1>2. FlagsInv /\ [Next]_client => FlagsInv'
  BY NextFlags
<1>3. FlagsInv => FlagsTruthful
  BY DEF FlagsInv
<1> QED
  BY <1>1, <1>2, <1>3, PTL DEF Spec

-----------------------------------------------------------------------------
(***************************************************************************)
(* Accounted.  The proof looks at the payload in each place a message can  *)
(* be in, five sets that are kept apart while messages move from one to    *)
(* the next, and knows the sequences only through the lemmas that follow.  *)
(***************************************************************************)
Item == Payload \cup {Disconnect, Garbage, Nothing}

Has(s) == ToSet(s) \cap Payload

(* No payload is twice in s. *)
Once(s) == \A i, j \in 1..Len(s) : s[i] = s[j] /\ i # j => s[i] \notin Payload

LEMMA HasEmpty == Has(<<>>) = {} /\ Once(<<>>)
BY DEF Has, Once, ToSet

LEMMA Elements ==
    ASSUME NEW X, NEW s \in Seq(X)
    PROVE  /\ \A i \in 1..Len(s) : s[i] \in ToSet(s)
           /\ \A x \in ToSet(s) : \E i \in 1..Len(s) : s[i] = x
BY DEF ToSet

LEMMA ToSetAppend ==
    ASSUME NEW X, NEW s \in Seq(X), NEW x \in X
    PROVE  ToSet(Append(s, x)) = ToSet(s) \cup {x}
<1> DEFINE t == Append(s, x)
<1>1. /\ t \in Seq(X) /\ Len(s) \in Nat /\ Len(t) = Len(s) + 1
      /\ t[Len(s) + 1] = x /\ Len(s) + 1 \in 1..Len(t)
      /\ \A k \in 1..Len(s) : t[k] = s[k] /\ k \in 1..Len(t)
  OBVIOUS
<1>2. \A k \in 1..Len(t) : k \in 1..Len(s) \/ k = Len(s) + 1
  BY <1>1
<1> HIDE DEF t
<1>3. ASSUME NEW y \in ToSet(t)
      PROVE  y \in ToSet(s) \cup {x}
  BY <1>1, <1>2, Elements
<1>4. ASSUME NEW y \in ToSet(s) \cup {x}
      PROVE  y \in ToSet(t)
  BY <1>1, Elements
<1> QED
  BY <1>3, <1>4 DEF t

LEMMA HasAppend ==
    ASSUME NEW X, NEW s \in Seq(X), NEW x \in X
    PROVE  Has(Append(s, x)) = Has(s) \cup ({x} \cap Payload)
BY ToSetAppend DEF Has

LEMMA OnceAppend ==
    ASSUME NEW X, NEW s \in Seq(X), NEW x \in X, Once(s), x \notin Has(s)
    PROVE  Once(Append(s, x))
<1> SUFFICES ASSUME NEW i \in 1..Len(Append(s, x)), NEW j \in 1..Len(Append(s, x)),
                    Append(s, x)[i] = Append(s, x)[j], i # j,
                    Append(s, x)[i] \in Payload
             PROVE  FALSE
  BY DEF Once
<1>1. Len(Append(s, x)) = Len(s) + 1 /\ Append(s, x)[Len(s) + 1] = x
  OBVIOUS
<1>2. \A k \in 1..Len(s) : Append(s, x)[k] = s[k] /\ s[k] \in ToSet(s)
  BY DEF ToSet
<1>3. CASE i \in 1..Len(s) /\ j \in 1..Len(s)
  BY <1>2, <1>3 DEF Once
<1>4. CASE i = Len(s) + 1 /\ j \in 1..Len(s)
  BY <1>1, <1>2, <1>4 DEF Has
<1>5. CASE j = Len(s) + 1 /\ i \in 1..Len(s)
  BY <1>1, <1>2, <1>5 DEF Has
<1> QED
  BY <1>1, <1>3, <1>4, <1>5

LEMMA ToSetTail ==
    ASSUME NEW X, NEW s \in Seq(X), s # <<>>
    PROVE  /\ Head(s) \in X /\ Tail(s) \in Seq(X)
           /\ ToSet(s) = {Head(s)} \cup ToSet(Tail(s))
<1>1. Len(s) \in Nat /\ Len(s) # 0 /\ Head(s) = s[1] /\ Head(s) \in X
  OBVIOUS
<1>2. /\ Tail(s) \in Seq(X) /\ Len(Tail(s)) = Len(s) - 1
      /\ \A k \in 1..(Len(s) - 1) : Tail(s)[k] = s[k + 1]
  BY <1>1
<1>3. ToSet(Tail(s)) \subseteq ToSet(s) /\ Head(s) \in ToSet(s)
  BY <1>1, <1>2 DEF ToSet
<1>4. ASSUME NEW i \in 1..Len(s)
      PROVE  s[i] \in {Head(s)} \cup ToSet(Tail(s))
  <2>1. CASE i = 1
    BY <1>1, <2>1
  <2>2. CASE i # 1
    <3>1. i - 1 \in 1..Len(Tail(s)) /\ Tail(s)[i - 1] = s[i]
      BY <1>1, <1>2, <2>2
    <3> QED
      BY <3>1, <1>2, Elements
  <2> QED
    BY <2>1, <2>2
<1>5. ToSet(s) \subseteq {Head(s)} \cup ToSet(Tail(s))
  BY <1>4 DEF ToSet
<1> QED
  BY <1>1, <1>2, <1>3, <1>5

LEMMA HasTail ==
    ASSUME NEW X, NEW s \in Seq(X), s # <<>>
    PROVE  Has(s) = ({Head(s)} \cap Payload) \cup Has(Tail(s))
BY ToSetTail DEF Has

LEMMA OnceTail ==
    ASSUME NEW X, NEW s \in Seq(X), s # <<>>, Once(s)
    PROVE  Once(Tail(s)) /\ Head(s) \notin Has(Tail(s))
<1>1. /\ Len(s) \in Nat /\ Len(s) # 0 /\ Head(s) = s[1]
      /\ Tail(s) \in Seq(X) /\ Len(Tail(s)) = Len(s) - 1
  OBVIOUS
<1>2. \A k \in 1..Len(Tail(s)) :
         Tail(s)[k] = s[k + 1] /\ k + 1 \in 1..Len(s) /\ k + 1 # 1
  BY <1>1
<1>3. Once(Tail(s))
  BY <1>1, <1>2 DEF Once
<1>4. ASSUME NEW k \in 1..Len(Tail(s)), Tail(s)[k] = Head(s)
      PROVE  Head(s) \notin Payload
  BY <1>1, <1>2, <1>4, 1 \in 1..Len(s) DEF Once
<1> QED
  BY <1>1, <1>3, <1>4 DEF Has, ToSet

LEMMA ToSetConcat ==
    ASSUME NEW X, NEW s \in Seq(X), NEW t \in Seq(X)
    PROVE  s \o t \in Seq(X) /\ ToSet(s \o t) = ToSet(s) \cup ToSet(t)
<1>1. /\ s \o t \in Seq(X) /\ Len(s \o t) = Len(s) + Len(t)
      /\ Len(s) \in Nat /\ Len(t) \in Nat
  OBVIOUS
<1>2. \A k \in 1..Len(s) : k \in 1..Len(s \o t) /\ (s \o t)[k] = s[k]
  BY <1>1
<1>3. \A k \in 1..Len(t) :
         k + Len(s) \in 1..Len(s \o t) /\ (s \o t)[k + Len(s)] = t[k]
  BY <1>1
<1>4. \A k \in 1..Len(s \o t) : k \notin 1..Len(s) =>
         k - Len(s) \in 1..Len(t) /\ k = (k - Len(s)) + Len(s)
  BY <1>1
<1> DEFINE u == s \o t
<1> HIDE DEF u
<1>5. ASSUME NEW y \in ToSet(s) \cup ToSet(t)
      PROVE  y \in ToSet(u)
  <2>1. CASE y \in ToSet(s)
    <3>1. PICK k \in 1..Len(s) : s[k] = y
      BY <2>1, Elements
    <3> QED
      BY <3>1, <1>1, <1>2, Elements DEF u
  <2>2. CASE y \in ToSet(t)
    <3>1. PICK k \in 1..Len(t) : t[k] = y
      BY <2>2, Elements
    <3> QED
      BY <3>1, <1>1, <1>3, Elements DEF u
  <2> QED
    BY <1>5, <2>1, <2>2
<1>6. ASSUME NEW y \in ToSet(u)
      PROVE  y \in ToSet(s) \cup ToSet(t)
  <2>1. PICK k \in 1..Len(u) : u[k] = y
    BY <1>1, <1>6, Elements DEF u
  <2>2. CASE k \in 1..Len(s)
    BY <2>1, <2>2, <1>2, Elements DEF u
  <2>3. CASE k \notin 1..Len(s)
    <3>1. k - Len(s) \in 1..Len(t) /\ u[k] = t[k - Len(s)]
      BY <2>1, <2>3, <1>3, <1>4 DEF u
    <3> QED
      BY <3>1, <2>1, Elements
  <2> QED
    BY <2>2, <2>3
<1> QED
  BY <1>1, <1>5, <1>6 DEF u

(* Losing a sequence loses its payload. *)
LEMMA LoseLoses ==
    ASSUME NEW s, NEW why, Lose(s, why)
    PROVE  LostMessages' = LostMessages \cup Has(s)
<1>1. lost' = lost \cup {<<m, why>> : m \in Has(s)}
  BY DEF Lose, Lost, Has
<1>2. \A m : <<m, why>>[1] = m
  OBVIOUS
<1>3. {l[1] : l \in lost'} = {l[1] : l \in lost} \cup Has(s)
  BY <1>1, <1>2, Zenon
<1> QED
  BY <1>3, Zenon DEF LostMessages

-----------------------------------------------------------------------------
InHand == {sending} \cap Payload

AccountTypes ==
    /\ cloud \in Seq(Item) /\ wire \in Seq(Item) /\ pub_pipe \in Seq(Item)
    /\ sending \in Item
    /\ published \in Seq(Payload)
    /\ writing \subseteq Messages

(* No two of five sets have an element in common. *)
Apart(A, B, C, D, E) ==
    /\ A \cap B = {} /\ A \cap C = {} /\ A \cap D = {} /\ A \cap E = {}
    /\ B \cap C = {} /\ B \cap D = {} /\ B \cap E = {}
    /\ C \cap D = {} /\ C \cap E = {} /\ D \cap E = {}

Covers(A, B, C, D, E) == ToSet(published) = UNION {A, B, C, D, E}

Account(A, B, C, D, E) == Covers(A, B, C, D, E) /\ Apart(A, B, C, D, E)

(* The worker holds a message only while it sends it; a message in the     *)
(* hands of a publisher, or still to come, is not yet published.           *)
AccountInv ==
    /\ AccountTypes
    /\ Once(wire) /\ Once(pub_pipe)
    /\ worker # "publish" => sending = Nothing
    /\ is_first_time_online => Page0 \notin ToSet(published)
    /\ is_first_time_online \in BOOLEAN
    /\ writing \cap ToSet(published) = {}
    /\ Account(Has(cloud), Has(wire), InHand, Has(pub_pipe), LostMessages)

LEMMA Names ==
    /\ Page0 \in Payload /\ Page0 \notin Messages /\ Messages \subseteq Payload
    /\ Payload \subseteq Item /\ {Disconnect, Garbage, Nothing} \subseteq Item
    /\ {Disconnect, Garbage, Nothing} \cap Payload = {}
BY DistinctAssumption DEF Payload, Item

LEMMA InitAccount == Init => AccountInv
<1> SUFFICES ASSUME Init
             PROVE  AccountInv
  OBVIOUS
<1>1. /\ cloud = <<>> /\ wire = <<>> /\ pub_pipe = <<>> /\ published = <<>>
      /\ sending = Nothing /\ writing = {} /\ lost = {}
      /\ is_first_time_online = TRUE /\ worker = "none"
  BY DEF Init
<1>2. Has(cloud) = {} /\ Has(wire) = {} /\ Has(pub_pipe) = {} /\ InHand = {}
  BY <1>1, HasEmpty, Names DEF InHand
<1>3. LostMessages = {} /\ ToSet(published) = {}
  BY <1>1 DEF LostMessages, ToSet
<1>4. Account(Has(cloud), Has(wire), InHand, Has(pub_pipe), LostMessages)
  BY <1>2, <1>3 DEF Account, Covers, Apart
<1>5. AccountTypes
  BY <1>1, Names DEF AccountTypes
<1> QED
  BY <1>1, <1>3, <1>4, <1>5, HasEmpty DEF AccountInv

(* Steps that touch neither a message nor the worker's place in a send *)
LEMMA QuietStep ==
    ASSUME AccountInv,
           UNCHANGED <<line, cloud, published, lost, is_first_time_online>>,
           writing' \subseteq Messages, writing' \cap ToSet(published) = {},
           worker = "publish" => worker' = "publish"
    PROVE  AccountInv'
<1>1. UNCHANGED <<pub_pipe, sending, wire, cloud, published, lost,
                  is_first_time_online>>
  BY DEF line
<1>2. UNCHANGED <<Has(cloud), Has(wire), InHand, Has(pub_pipe), LostMessages,
                  ToSet(published)>>
  BY <1>1 DEF Has, InHand, LostMessages
<1>3. Account(Has(cloud), Has(wire), InHand, Has(pub_pipe), LostMessages)'
  BY <1>2 DEF AccountInv, Account, Covers, Apart
<1>4. AccountTypes'
  BY <1>1 DEF AccountInv, AccountTypes
<1> QED
  BY <1>1, <1>2, <1>3, <1>4 DEF AccountInv, Once

(* A message that was not published yet goes into the pipe: mqtt_publish,  *)
(* the report thread and mqtt_online_callback.                             *)
LEMMA PutStep ==
    ASSUME AccountInv, NEW m \in Payload, m \notin ToSet(published),
           pub_pipe' = Append(pub_pipe, m), published' = Append(published, m),
           UNCHANGED <<sending, wire, cloud, lost>>
    PROVE  /\ Once(wire)' /\ Once(pub_pipe)'
           /\ ToSet(published)' = ToSet(published) \cup {m}
           /\ pub_pipe' \in Seq(Item) /\ published' \in Seq(Payload)
           /\ Account(Has(cloud), Has(wire), InHand, Has(pub_pipe), LostMessages)'
<1>1. m \in Item /\ pub_pipe \in Seq(Item) /\ published \in Seq(Payload)
  BY Names DEF AccountInv, AccountTypes
<1>2. /\ Has(pub_pipe)' = Has(pub_pipe) \cup {m}
      /\ ToSet(published)' = ToSet(published) \cup {m}
  BY <1>1, HasAppend, ToSetAppend
<1>3. UNCHANGED <<Has(cloud), Has(wire), InHand, LostMessages>>
  BY DEF Has, InHand, LostMessages
<1>4. m \notin UNION {Has(cloud), Has(wire), InHand, Has(pub_pipe), LostMessages}
  BY DEF AccountInv, Account, Covers
<1>5. Once(pub_pipe)'
  BY <1>1, <1>4, OnceAppend DEF AccountInv
<1>6. Account(Has(cloud), Has(wire), InHand, Has(pub_pipe), LostMessages)'
  BY <1>2, <1>3, <1>4 DEF AccountInv, Account, Covers, Apart
<1> QED
  BY <1>1, <1>2, <1>5, <1>6 DEF AccountInv, Once

(* paho_mqtt_pipe.c:1130-1156: the head of the pipe is in the worker's     *)
(* hands unless it is a command, the rest is lost.                         *)
LEMMA ReadStep == ASSUME AccountInv, ReadPipe PROVE AccountInv'
<1>1. /\ worker = "select" /\ pub_pipe # <<>> /\ pub_pipe' = <<>>
      /\ Lose(Tail(pub_pipe), "overrun")
      /\ UNCHANGED <<wire, cloud, published, writing, is_first_time_online>>
      /\ worker' # "publish" => sending' = sending
  BY DEF ReadPipe, flags
<1>2. \/ sending' = Head(pub_pipe)
      \/ Head(pub_pipe) = Disconnect /\ sending' \in {sending, Garbage}
  BY DEF ReadPipe
<1>3. sending = Nothing /\ pub_pipe \in Seq(Item)
  BY <1>1 DEF AccountInv, AccountTypes
<1> DEFINE h == {Head(pub_pipe)} \cap Payload
           T == Has(Tail(pub_pipe))
<1>4. /\ Head(pub_pipe) \in Item
      /\ Has(pub_pipe) = h \cup T /\ h \cap T = {}
  BY <1>1, <1>3, ToSetTail, HasTail, OnceTail DEF AccountInv
<1>5. InHand = {} /\ InHand' = h
  BY <1>2, <1>3, Names DEF InHand
<1>6. LostMessages' = LostMessages \cup T
  BY <1>1, LoseLoses
<1>7. /\ UNCHANGED <<Has(cloud), Has(wire), ToSet(published)>>
      /\ Has(pub_pipe)' = {} /\ Once(pub_pipe)' /\ Once(wire)'
  BY <1>1, HasEmpty DEF Has, AccountInv, Once
<1> HIDE DEF h, T
<1>8. Account(Has(cloud), Has(wire), InHand, Has(pub_pipe), LostMessages)'
  BY <1>4, <1>5, <1>6, <1>7 DEF AccountInv, Account, Covers, Apart
<1>9. sending' \in Item
  BY <1>2, <1>3, <1>4, Names
<1>10. AccountTypes'
  BY <1>1, <1>9 DEF AccountInv, AccountTypes
<1> QED
  BY <1>1, <1>3, <1>7, <1>8, <1>10 DEF AccountInv

(* sendPacket: the message is on the wire or lost. *)
LEMMA SendStep == ASSUME AccountInv, SendDone PROVE AccountInv'
<1>1. /\ sending' = Nothing
      /\ UNCHANGED <<pub_pipe, cloud, published, writing, is_first_time_online>>
      /\ \/ lost' = lost /\ wire' = Append(wire, sending)
         \/ Lose(<<sending>>, "unsent") /\ wire' = wire
  BY DEF SendDone, flags
<1>2. sending \in Item /\ wire \in Seq(Item) /\ Once(wire)
  BY DEF AccountInv, AccountTypes
<1>3. /\ InHand' = {} /\ Once(pub_pipe)'
      /\ UNCHANGED <<Has(cloud), Has(pub_pipe), ToSet(published)>>
  BY <1>1, Names DEF InHand, Has, AccountInv, Once
<1>4. CASE lost' = lost /\ wire' = Append(wire, sending)
  <2>1. Has(wire)' = Has(wire) \cup InHand /\ LostMessages' = LostMessages
    BY <1>2, <1>4, HasAppend DEF InHand, LostMessages
  <2>2. sending \notin Has(wire)
    BY DEF AccountInv, Account, Apart, InHand, Has
  <2>3. Once(wire)' /\ wire' \in Seq(Item)
    BY <1>2, <1>4, <2>2, OnceAppend
  <2>4. Account(Has(cloud), Has(wire), InHand, Has(pub_pipe), LostMessages)'
    BY <1>3, <2>1 DEF AccountInv, Account, Covers, Apart
  <2> QED
    BY <1>1, <1>3, <2>3, <2>4, Names DEF AccountInv, AccountTypes
<1>5. CASE Lose(<<sending>>, "unsent") /\ wire' = wire
  <2>1. Has(<<sending>>) = InHand
    BY DEF Has, InHand, ToSet
  <2>2. LostMessages' = LostMessages \cup InHand /\ Has(wire)' = Has(wire)
    BY <1>5, <2>1, LoseLoses
  <2>3. Account(Has(cloud), Has(wire), InHand, Has(pub_pipe), LostMessages)'
    BY <1>3, <2>2 DEF AccountInv, Account, Covers, Apart
  <2> QED
    BY <1>1, <1>2, <1>3, <1>5, <2>3, Names DEF AccountInv, AccountTypes, Once
<1> QED
  BY <1>1, <1>4, <1>5

(* A new connection: what the old one carried is lost. *)
LEMMA TakeoverStep ==
    ASSUME AccountInv, wire' = <<>>, Lose(wire, "takeover"),
           UNCHANGED <<pub_pipe, sending, writing, cloud, published,
                       is_first_time_online>>,
           worker # "publish"
    PROVE  AccountInv'
<1>1. LostMessages' = LostMessages \cup Has(wire)
  BY LoseLoses
<1>2. /\ UNCHANGED <<Has(cloud), InHand, Has(pub_pipe), ToSet(published)>>
      /\ Has(wire)' = {} /\ Once(wire)' /\ Once(pub_pipe)'
  BY HasEmpty DEF Has, InHand, AccountInv, Once
<1>3. Account(Has(cloud), Has(wire), InHand, Has(pub_pipe), LostMessages)'
  BY <1>1, <1>2 DEF AccountInv, Account, Covers, Apart
<1> QED
  BY <1>2, <1>3 DEF AccountInv, AccountTypes

(* The pipe is deleted with what is in it (net_disconnect_exit). *)
LEMMA ExitStep == ASSUME AccountInv, Exit PROVE AccountInv'
<1>1. /\ worker = "leave" /\ pub_pipe' = <<>> /\ Lose(pub_pipe, "deleted")
      /\ UNCHANGED <<wire, sending, writing, cloud, published,
                     is_first_time_online>>
  BY DEF Exit
<1>2. LostMessages' = LostMessages \cup Has(pub_pipe)
  BY <1>1, LoseLoses
<1>3. /\ UNCHANGED <<Has(cloud), InHand, Has(wire), ToSet(published)>>
      /\ Has(pub_pipe)' = {} /\ Once(wire)' /\ Once(pub_pipe)'
  BY <1>1, HasEmpty DEF Has, InHand, AccountInv, Once
<1>4. Account(Has(cloud), Has(wire), InHand, Has(pub_pipe), LostMessages)'
  BY <1>2, <1>3 DEF AccountInv, Account, Covers, Apart
<1> QED
  BY <1>1, <1>3, <1>4 DEF AccountInv, AccountTypes

(* The broker gets the oldest message of the wire. *)
LEMMA DeliverStep == ASSUME AccountInv, Deliver PROVE AccountInv'
<1>1. /\ wire # <<>> /\ cloud' = Append(cloud, Head(wire)) /\ wire' = Tail(wire)
      /\ UNCHANGED <<worker, pub_pipe, sending, writing, published, lost,
                     is_first_time_online>>
  BY DEF Deliver, flags
<1>2. cloud \in Seq(Item) /\ wire \in Seq(Item) /\ Once(wire)
  BY DEF AccountInv, AccountTypes
<1> DEFINE h == {Head(wire)} \cap Payload
<1>3. /\ Head(wire) \in Item /\ wire' \in Seq(Item) /\ Once(wire)'
      /\ Has(wire) = h \cup Has(wire)' /\ h \cap Has(wire)' = {}
  BY <1>1, <1>2, ToSetTail, HasTail, OnceTail
<1>4. Has(cloud)' = Has(cloud) \cup h /\ cloud' \in Seq(Item)
  BY <1>1, <1>2, <1>3, HasAppend
<1>5. UNCHANGED <<InHand, Has(pub_pipe), LostMessages, ToSet(published)>>
  BY <1>1 DEF InHand, Has, LostMessages
<1> HIDE DEF h
<1>6. Account(Has(cloud), Has(wire), InHand, Has(pub_pipe), LostMessages)'
  BY <1>3, <1>4, <1>5 DEF AccountInv, Account, Covers, Apart
<1> QED
  BY <1>1, <1>3, <1>4, <1>6 DEF AccountInv, AccountTypes, Once

(* mqtt_stop writes a command: nothing is published. *)
LEMMA CommandStep == ASSUME AccountInv, Command PROVE AccountInv'
<1>1. UNCHANGED <<worker, sending, wire, cloud, published, writing, lost,
                  is_first_time_online>>
  BY DEF Command, flags
<1>2. pub_pipe \in Seq(Item) /\ Once(pub_pipe) /\ Disconnect \in Item
  BY Names DEF AccountInv, AccountTypes
<1>3. pub_pipe' = pub_pipe \/ pub_pipe' = Append(pub_pipe, Disconnect)
  BY Zenon DEF Command, Put
<1>4. Has(pub_pipe)' = Has(pub_pipe) /\ Once(pub_pipe)' /\ pub_pipe' \in Seq(Item)
  <2>1. CASE pub_pipe' = pub_pipe
    BY <1>2, <2>1 DEF Has, Once
  <2>2. CASE pub_pipe' = Append(pub_pipe, Disconnect)
    BY <1>2, <2>2, Names, HasAppend, OnceAppend DEF Has
  <2> QED
    BY <1>3, <2>1, <2>2
<1>5. UNCHANGED <<Has(cloud), Has(wire), InHand, LostMessages, ToSet(published)>>
  BY <1>1 DEF Has, InHand, LostMessages
<1>6. Account(Has(cloud), Has(wire), InHand, Has(pub_pipe), LostMessages)'
  BY <1>4, <1>5 DEF AccountInv, Account, Covers, Apart
<1> QED
  BY <1>1, <1>4, <1>6 DEF AccountInv, AccountTypes, Once

(* The online callback publishes its message the first time only. *)
LEMMA SubAckStep == ASSUME AccountInv, SubAck PROVE AccountInv'
<1>1. /\ worker = "suback" /\ worker' # "publish"
      /\ UNCHANGED <<sending, wire, cloud, writing, lost>>
  BY DEF SubAck, OnlineCallback, Greet, NoGreeting
<1>2. \/ /\ UNCHANGED <<pub_pipe, published>>
         /\ is_first_time_online' = FALSE \/ UNCHANGED is_first_time_online
      \/ /\ is_first_time_online /\ is_first_time_online' = FALSE
         /\ pub_pipe' = Append(pub_pipe, Page0)
         /\ published' = Append(published, Page0)
  BY Zenon DEF SubAck, OnlineCallback, Greet, NoGreeting
<1>3. CASE /\ UNCHANGED <<pub_pipe, published>>
           /\ is_first_time_online' = FALSE \/ UNCHANGED is_first_time_online
  <2>1. UNCHANGED <<Has(cloud), Has(wire), InHand, Has(pub_pipe), LostMessages,
                    ToSet(published)>>
    BY <1>1, <1>3 DEF Has, InHand, LostMessages
  <2>2. Account(Has(cloud), Has(wire), InHand, Has(pub_pipe), LostMessages)'
    BY <2>1 DEF AccountInv, Account, Covers, Apart
  <2>3. is_first_time_online' \in BOOLEAN
    BY <1>3 DEF AccountInv
  <2>4. is_first_time_online' => Page0 \notin ToSet(published)'
    BY <1>3, <2>1 DEF AccountInv
  <2>5. AccountTypes' /\ Once(wire)' /\ Once(pub_pipe)'
    BY <1>1, <1>3 DEF AccountInv, AccountTypes, Once
  <2> QED
    BY <1>1, <2>1, <2>2, <2>3, <2>4, <2>5 DEF AccountInv
<1>4. CASE /\ is_first_time_online /\ is_first_time_online' = FALSE
           /\ pub_pipe' = Append(pub_pipe, Page0)
           /\ published' = Append(published, Page0)
  <2>1. Page0 \in Payload /\ Page0 \notin ToSet(published)
    BY <1>4, Names DEF AccountInv
  <2>2. /\ Once(wire)' /\ Once(pub_pipe)'
        /\ ToSet(published)' = ToSet(published) \cup {Page0}
        /\ pub_pipe' \in Seq(Item) /\ published' \in Seq(Payload)
        /\ Account(Has(cloud), Has(wire), InHand, Has(pub_pipe), LostMessages)'
    BY <1>1, <1>4, <2>1, PutStep
  <2>3. writing' \cap ToSet(published)' = {}
    BY <1>1, <2>2, Names DEF AccountInv, AccountTypes
  <2> QED
    BY <1>1, <1>4, <2>2, <2>3 DEF AccountInv, AccountTypes
<1> QED
  BY <1>2, <1>3, <1>4

LEMMA WriteStep ==
    ASSUME AccountInv, NEW m \in Messages, Write(m)
    PROVE  AccountInv'
<1>1. /\ m \in writing /\ writing' = writing \ {m}
      /\ pub_pipe' = Append(pub_pipe, m) /\ published' = Append(published, m)
      /\ UNCHANGED <<worker, sending, wire, cloud, lost, is_first_time_online>>
  BY DEF Write, Put, flags
<1>2. m \in Payload /\ m # Page0 /\ m \notin ToSet(published)
  BY <1>1, Names DEF AccountInv
<1>3. /\ Once(wire)' /\ Once(pub_pipe)'
      /\ ToSet(published)' = ToSet(published) \cup {m}
      /\ pub_pipe' \in Seq(Item) /\ published' \in Seq(Payload)
      /\ Account(Has(cloud), Has(wire), InHand, Has(pub_pipe), LostMessages)'
  BY <1>1, <1>2, PutStep
<1> QED
  BY <1>1, <1>2, <1>3 DEF AccountInv, AccountTypes

(* A step of anybody: what is published is new, and a publisher need not   *)
(* look at is_started, as the report thread does not (module StatusReport) *)
Enters(m) == m \notin ToSet(published) /\ Enter(m)

AnyStep == \/ Start \/ Worker \/ Stop \/ Command \/ Network
           \/ \E m \in Messages : Enters(m) \/ Write(m) \/ WriteFails(m)

LEMMA NextIsAnyStep == Next => AnyStep
BY Zenon DEF Next, AnyStep, Publish, Enters

LEMMA NextAccount ==
    ASSUME AccountInv, [AnyStep]_client
    PROVE  AccountInv'
<1>1. /\ writing \subseteq Messages /\ writing \cap ToSet(published) = {}
  BY DEF AccountInv, AccountTypes
<1>2. CASE Start \/ Resume \/ Connect \/ Cycle \/ PubAck \/ Ping \/ NoPingResp
           \/ Disconnected \/ Stop \/ Cut \/ Heal \/ UNCHANGED client
  <2>1. /\ UNCHANGED <<line, cloud, published, writing, lost,
                       is_first_time_online>>
        /\ worker = "publish" => worker' = "publish"
    BY <1>2 DEF Start, Resume, Connect, Cycle, PubAck, Ping, NoPingResp,
                Disconnected, Stop, Cut, Heal, client, flags
  <2> QED
    BY <1>1, <2>1, QuietStep
<1>3. CASE ConnAck
  <2>1. /\ worker = "connack"
        /\ UNCHANGED <<pub_pipe, sending, writing, cloud, published,
                       is_first_time_online>>
    BY <1>3 DEF ConnAck
  <2>2. \/ wire' = <<>> /\ Lose(wire, "takeover")
        \/ UNCHANGED <<wire, lost>>
    BY <1>3, Zenon DEF ConnAck
  <2> QED
    BY <1>1, <2>1, <2>2, TakeoverStep, QuietStep DEF line
<1>4. CASE SubAck \/ ReadPipe \/ SendDone \/ Exit \/ Command \/ Deliver
  BY <1>4, SubAckStep, ReadStep, SendStep, ExitStep, CommandStep, DeliverStep
<1>5. ASSUME NEW m \in Messages, Enters(m) \/ Write(m) \/ WriteFails(m)
      PROVE  AccountInv'
  <2>1. CASE Enters(m)
    <3>1. /\ m \notin ToSet(published) /\ writing' = writing \cup {m}
          /\ UNCHANGED <<worker, line, cloud, published, lost,
                         is_first_time_online>>
      BY <2>1 DEF Enters, Enter, flags
    <3> QED
      BY <1>1, <3>1, QuietStep
  <2>2. CASE Write(m)
    BY <2>2, WriteStep
  <2>3. CASE WriteFails(m)
    <3>1. /\ writing' = writing \ {m}
          /\ UNCHANGED <<worker, line, cloud, published, lost,
                         is_first_time_online>>
      BY <2>3 DEF WriteFails, flags
    <3> QED
      BY <1>1, <3>1, QuietStep
  <2> QED
    BY <1>5, <2>1, <2>2, <2>3
<1> QED
  BY <1>2, <1>3, <1>4, <1>5, Zenon DEF AnyStep, Worker, Network

(* A message that the pipe accepted is in exactly one place or was lost,   *)
(* never both, over any number of reconnections, stops and outages         *)
(* (paho_mqtt_pipe.c:861-955, 1123-1193).                                  *)
THEOREM EveryMessageAccounted == Spec => []Accounted
<1>1. Init => AccountInv
  BY InitAccount
<1>2. AccountInv /\ [Next]_client => AccountInv'
  BY NextAccount, NextIsAnyStep
<1>3. AccountInv => Accounted
  <2> SUFFICES ASSUME AccountInv
               PROVE  Accounted
    OBVIOUS
  <2>1. /\ cloud \in Seq(Item) /\ wire \in Seq(Item) /\ pub_pipe \in Seq(Item)
        /\ <<sending>> \in Seq(Item) /\ ToSet(<<sending>>) = {sending}
    BY DEF AccountInv, AccountTypes, ToSet
  <2>2. ToSet(Journey) = UNION {ToSet(cloud), ToSet(wire), {sending},
                                ToSet(pub_pipe)}
    <3> DEFINE one == <<sending>>
               front == wire \o one
               rest == front \o pub_pipe
    <3>0. one \in Seq(Item) /\ ToSet(one) = {sending}
      BY <2>1
    <3> HIDE DEF one
    <3>1. front \in Seq(Item) /\ ToSet(front) = ToSet(wire) \cup ToSet(one)
      BY <2>1, <3>0, ToSetConcat
    <3> HIDE DEF front
    <3>2. rest \in Seq(Item) /\ ToSet(rest) = ToSet(front) \cup ToSet(pub_pipe)
      BY <2>1, <3>1, ToSetConcat
    <3> HIDE DEF rest
    <3>3. ToSet(cloud \o rest) = ToSet(cloud) \cup ToSet(rest)
      BY <2>1, <3>2, ToSetConcat
    <3>4. Journey = cloud \o rest
      BY DEF Journey, InTransit, one, front, rest
    <3> QED
      BY <3>0, <3>1, <3>2, <3>3, <3>4
  <2>3. ToSet(Journey) \cap Payload =
           UNION {Has(cloud), Has(wire), InHand, Has(pub_pipe)}
    BY <2>2 DEF Has, InHand
  <2>4. Account(Has(cloud), Has(wire), InHand, Has(pub_pipe), LostMessages)
    BY DEF AccountInv
  <2>5. LostMessages \subseteq Payload
    BY <2>4, Elements DEF Account, Covers, AccountInv, AccountTypes
  <2> QED
    BY <2>3, <2>4, <2>5 DEF Account, Covers, Apart, Accounted
<1> QED
  BY <1>1, <1>2, <1>3, PTL DEF Spec
-----------------------------------------------------------------------------
(***************************************************************************)
(* Types.  Beside them: the worker that sends has something to send.       *)
(***************************************************************************)
Why == {"overrun", "unsent", "takeover", "deleted"}

MessageTypes ==
    /\ pub_pipe \in Seq(Payload \cup {Disconnect})
    /\ wire \in Seq(Payload \cup {Garbage}) /\ cloud \in Seq(Payload \cup {Garbage})
    /\ published \in Seq(Payload)
    /\ sending \in Payload \cup {Garbage, Nothing}
    /\ worker = "publish" => sending # Nothing
    /\ writing \subseteq Messages

Bounded ==
    /\ Len(pub_pipe) <= PipeCap
    /\ faults \in 0..MaxFaults /\ stops \in 0..MaxStops

Booleans ==
    /\ is_started \in BOOLEAN /\ is_first_time_online \in BOOLEAN
    /\ reachable \in BOOLEAN /\ stopping \in BOOLEAN

LEMMA LoseTypes ==
    ASSUME NEW s, NEW why \in Why, Lose(s, why), lost \subseteq Payload \X Why
    PROVE  lost' \subseteq Payload \X Why
BY DEF Lose, Lost

LEMMA LostTypes ==
    ASSUME lost \subseteq Payload \X Why, [Next]_client
    PROVE  lost' \subseteq Payload \X Why
<1>1. \/ UNCHANGED lost
      \/ \E why \in Why : \E s \in {wire, Tail(pub_pipe), <<sending>>, pub_pipe} :
            Lose(s, why)
  BY
  DEF Why, Next, Start, Worker, Stop, Command, Network, Resume, Connect,
      ConnAck, SubAck, OnlineCallback, Greet, NoGreeting, Cycle, PubAck, Ping,
      NoPingResp, ReadPipe, SendDone, Disconnected, Exit, Deliver, Cut, Heal,
      Publish, Enter, Write, WriteFails, client, shell
<1> QED
  BY <1>1, LoseTypes

LEMMA AppendTypes ==
    ASSUME NEW X, NEW s \in Seq(X), NEW x \in X
    PROVE  Append(s, x) \in Seq(X)
OBVIOUS

LEMMA NextMessageTypes ==
    ASSUME MessageTypes, [Next]_client
    PROVE  MessageTypes'
<1> USE DEF MessageTypes
<1>1. CASE Start \/ Resume \/ Connect \/ Cycle \/ PubAck \/ Ping \/ NoPingResp
           \/ Disconnected \/ Stop \/ Cut \/ Heal \/ UNCHANGED client
  BY <1>1 DEF Start, Resume, Connect, Restart, Cycle, PubAck, Ping, NoPingResp,
              Disconnected, Stop, Cut, Heal, client, line
<1>2. CASE ConnAck
  <2>1. /\ UNCHANGED <<pub_pipe, sending, writing, cloud, published>>
        /\ wire' = <<>> \/ wire' = wire
    BY <1>2, Zenon DEF ConnAck
  <2>2. worker' \in {"suback", "pause"}
    BY <1>2, ConnAckFlags
  <2>3. <<>> \in Seq(Payload \cup {Garbage})
    OBVIOUS
  <2>4. wire' \in Seq(Payload \cup {Garbage})
    BY <2>1, <2>3
  <2> QED
    BY <2>1, <2>2, <2>4
<1>3. CASE SubAck
  <2>1. /\ UNCHANGED <<wire, sending, writing, cloud>>
        /\ worker' # "publish"
        /\ \/ UNCHANGED <<pub_pipe, published>>
           \/ /\ pub_pipe' = Append(pub_pipe, Page0)
              /\ published' = Append(published, Page0)
    BY <1>3, Zenon DEF SubAck, OnlineCallback, Greet, NoGreeting
  <2>2. Page0 \in Payload /\ Page0 \in Payload \cup {Disconnect}
    BY Names
  <2> QED
    BY <2>1, <2>2, AppendTypes
<1>4. CASE ReadPipe
  <2>1. /\ pub_pipe # <<>> /\ pub_pipe' = <<>>
        /\ UNCHANGED <<wire, writing, cloud, published>>
        /\ \/ Head(pub_pipe) # Disconnect /\ sending' = Head(pub_pipe)
           \/ worker' # "publish" /\ sending' = sending
           \/ sending' = Garbage
    BY <1>4, Zenon DEF ReadPipe
  <2>2. Head(pub_pipe) \in Payload \cup {Disconnect}
    BY <2>1
  <2>3. Garbage # Nothing /\ Nothing \notin Payload
    BY Names, DistinctAssumption
  <2> QED
    BY <2>1, <2>2, <2>3
<1>5. CASE SendDone
  <2>1. /\ worker = "publish" /\ worker' # "publish" /\ sending' = Nothing
        /\ UNCHANGED <<pub_pipe, writing, cloud, published>>
        /\ wire' = wire \/ wire' = Append(wire, sending)
    BY <1>5, Zenon DEF SendDone, flags
  <2>2. sending \in Payload \cup {Garbage}
    BY <2>1
  <2> QED
    BY <2>1, <2>2, AppendTypes
<1>6. CASE Exit
  BY <1>6 DEF Exit
<1>7. CASE Command
  <2>1. /\ UNCHANGED <<worker, sending, wire, writing, cloud, published>>
        /\ pub_pipe' = pub_pipe \/ pub_pipe' = Append(pub_pipe, Disconnect)
    BY <1>7, Zenon DEF Command, Put, flags
  <2>2. Disconnect \in Payload \cup {Disconnect}
    OBVIOUS
  <2> QED
    BY <2>1, <2>2, AppendTypes
<1>8. CASE Deliver
  <2>1. /\ wire # <<>> /\ cloud' = Append(cloud, Head(wire)) /\ wire' = Tail(wire)
        /\ UNCHANGED <<worker, pub_pipe, sending, writing, published>>
    BY <1>8, Zenon DEF Deliver
  <2>2. /\ Head(wire) \in Payload \cup {Garbage}
        /\ Tail(wire) \in Seq(Payload \cup {Garbage})
    BY <2>1
  <2> QED
    BY <2>1, <2>2, AppendTypes
<1>9. ASSUME NEW m \in Messages, Publish(m) \/ Write(m) \/ WriteFails(m)
      PROVE  MessageTypes'
  <2>1. m \in Payload /\ m \in Payload \cup {Disconnect}
    BY Names
  <2>2. /\ UNCHANGED <<worker, sending, wire, cloud>>
        /\ writing' = writing \cup {m} \/ writing' = writing \ {m}
        /\ \/ UNCHANGED <<pub_pipe, published>>
           \/ pub_pipe' = Append(pub_pipe, m) /\ published' = Append(published, m)
    <3>1. CASE Publish(m)
      BY <3>1, Zenon DEF Publish, Enter, line
    <3>2. CASE Write(m)
      BY <3>2, Zenon DEF Write, Put
    <3>3. CASE WriteFails(m)
      BY <3>3, Zenon DEF WriteFails, line
    <3> QED
      BY <1>9, <3>1, <3>2, <3>3
  <2>3. pub_pipe' \in Seq(Payload \cup {Disconnect})
    <3>1. pub_pipe \in Seq(Payload \cup {Disconnect})
      OBVIOUS
    <3>2. Append(pub_pipe, m) \in Seq(Payload \cup {Disconnect})
      BY <2>1, <3>1, AppendTypes
    <3> QED
      BY <2>2, <3>1, <3>2, Zenon
  <2>5. published' \in Seq(Payload)
    BY <2>1, <2>2, AppendTypes
  <2>4. writing' \subseteq Messages
    BY <2>2
  <2> QED
    BY <2>2, <2>3, <2>4, <2>5
<1> QED
  BY <1>1, <1>2, <1>3, <1>4, <1>5, <1>6, <1>7, <1>8, <1>9, Zenon
  DEF Next, Worker, Network

LEMMA FaultTypes ==
    ASSUME faults \in 0..MaxFaults, [Next]_client
    PROVE  faults' \in 0..MaxFaults
<1>1. \/ UNCHANGED faults
      \/ faults < MaxFaults /\ faults' = faults + 1
  BY
  DEF Next, Start, Worker, Stop, Command, Network, network, Works, Fails,
      Resume, Connect, ConnAck, SubAck, OnlineCallback, Greet, NoGreeting,
      Cycle, PubAck, Ping, NoPingResp, ReadPipe, SendDone, Disconnected, Exit,
      Deliver, Cut, Heal, Publish, Enter, Write, WriteFails, client, shell
<1> QED
  BY <1>1, MaxFaultsAssumption

LEMMA NextBounded ==
    ASSUME MessageTypes, Bounded, [Next]_client
    PROVE  Bounded'
<1>1. faults' \in 0..MaxFaults
  BY FaultTypes DEF Bounded
<1>2. \/ UNCHANGED stops
      \/ stops < MaxStops /\ stops' = stops + 1
  BY
  DEF Next, Start, Worker, Stop, Command, Network, Resume, Connect, ConnAck,
      SubAck, OnlineCallback, Greet, NoGreeting, Cycle, PubAck, Ping,
      NoPingResp, ReadPipe, SendDone, Disconnected, Exit, Deliver, Cut, Heal,
      Publish, Enter, Write, WriteFails, client, shell
<1>3. \/ UNCHANGED pub_pipe
      \/ pub_pipe' = <<>>
      \/ Len(pub_pipe) < PipeCap
         /\ \E m \in Payload \cup {Disconnect} : pub_pipe' = Append(pub_pipe, m)
  BY Names
  DEF Room, Put, line, Next, Start, Worker, Stop, Command, Network, Resume,
      Connect, ConnAck, SubAck, OnlineCallback, Greet, NoGreeting, Cycle,
      PubAck, Ping, NoPingResp, ReadPipe, SendDone, Disconnected, Exit,
      Deliver, Cut, Heal, Publish, Enter, Write, WriteFails, client, shell
<1>4. Len(pub_pipe') <= PipeCap
  BY <1>3, PipeCapAssumption DEF Bounded, MessageTypes
<1> QED
  BY <1>1, <1>2, <1>4, MaxStopsAssumption DEF Bounded

LEMMA NextBooleans ==
    ASSUME Booleans, isconnected \in BOOLEAN, [Next]_client
    PROVE  Booleans'
<1>1. \/ UNCHANGED stopping
      \/ stopping' = FALSE
      \/ stopping' = isconnected
  BY Zenon
  DEF Next, Start, Worker, Stop, Command, Network, shell, Resume, Connect,
      ConnAck, SubAck, Cycle, PubAck, Ping, NoPingResp, ReadPipe, SendDone,
      Disconnected, Exit, Deliver, Cut, Heal, Publish, Enter, Write,
      WriteFails, client
<1>2. stopping' \in BOOLEAN
  BY <1>1, Zenon DEF Booleans
<1>3. /\ is_started' \in BOOLEAN /\ is_first_time_online' \in BOOLEAN
      /\ reachable' \in BOOLEAN
  BY Zenon
  DEF Booleans, Next, Start, Worker, Stop, Command, Network, network, Works,
      Fails, flags, Resume, Connect, ConnAck, SubAck, OnlineCallback, Greet,
      NoGreeting, Cycle, PubAck, Ping, NoPingResp, ReadPipe, SendDone,
      Disconnected, Exit, Restart, Deliver, Cut, Heal, Publish, Enter, Write,
      WriteFails, client
<1> QED
  BY <1>2, <1>3, Zenon DEF Booleans

(* Every variable keeps its type, and the pipe its capacity, although four *)
(* places write into it (mqtt.c:111, paho_mqtt_pipe.c:620, 937).           *)
THEOREM TypesAreKept == Spec => []TypeOK
<1> DEFINE Inv == /\ MessageTypes /\ Bounded /\ Booleans
                  /\ lost \subseteq Payload \X Why
<1>1. Init => Inv
  <2> SUFFICES ASSUME Init PROVE Inv
    OBVIOUS
  <2>1. MessageTypes /\ Bounded
    BY PipeCapAssumption, MaxFaultsAssumption, MaxStopsAssumption
    DEF Init, MessageTypes, Bounded
  <2>2. Booleans
    BY Zenon DEF Init, Booleans
  <2>3. lost \subseteq Payload \X Why
    BY DEF Init
  <2> QED
    BY <2>1, <2>2, <2>3
<1>2. Inv /\ FlagTypes /\ [Next]_client => Inv'
  BY NextMessageTypes, NextBounded, NextBooleans, LostTypes DEF FlagTypes
<1>3. Inv /\ FlagTypes => TypeOK
  BY DEF TypeOK, MessageTypes, Bounded, Booleans, Why, FlagTypes, Places
<1>4. FlagsInv => FlagTypes
  BY DEF FlagsInv
<1>5. Init => FlagsInv
  BY InitFlags
<1>6. FlagsInv /\ [Next]_client => FlagsInv'
  BY NextFlags
<1> HIDE DEF Inv
<1> QED
  BY <1>1, <1>2, <1>3, <1>4, <1>5, <1>6, PTL DEF Spec

-----------------------------------------------------------------------------
(***************************************************************************)
(* Order.  The pipe accepts messages one after the other, which orders     *)
(* them.  Each place a message can be in respects that order, and so do    *)
(* the places among themselves: what arrived is older than what is on the  *)
(* wire, that is older than the message in the worker's hands, and that is *)
(* older than what is in the pipe.  Messages move from the front of one    *)
(* place to the end of the one before it, or are lost.                     *)
(***************************************************************************)
Precedes == {p \in Payload \X Payload :
                \E k, l \in 1..Len(published) :
                   k < l /\ published[k] = p[1] /\ published[l] = p[2]}

Across(A, B, R) == \A a \in A, b \in B : <<a, b>> \in R

Ordered(s, R) ==
    \A i, j \in 1..Len(s) :
       i < j /\ s[i] \in Payload /\ s[j] \in Payload => <<s[i], s[j]>> \in R

Lined(A, B, C, D, R) ==
    /\ Across(A, B, R) /\ Across(A, C, R) /\ Across(A, D, R)
    /\ Across(B, C, R) /\ Across(B, D, R) /\ Across(C, D, R)

OrderInv == /\ Ordered(cloud, Precedes)
            /\ Ordered(wire, Precedes)
            /\ Ordered(pub_pipe, Precedes)
            /\ Lined(Has(cloud), Has(wire), InHand, Has(pub_pipe), Precedes)

LEMMA OrderedEmpty == \A R : Ordered(<<>>, R)
BY DEF Ordered

(* More pairs in the order do no harm. *)
LEMMA OrderGrows ==
    ASSUME NEW R, NEW Q, R \subseteq Q
    PROVE  /\ \A s : Ordered(s, R) => Ordered(s, Q)
           /\ \A A, B : Across(A, B, R) => Across(A, B, Q)
BY DEF Ordered, Across

LEMMA OrderedAppend ==
    ASSUME NEW X, NEW s \in Seq(X), NEW x \in X, NEW R,
           Ordered(s, R), Across(Has(s), {x} \cap Payload, R)
    PROVE  Ordered(Append(s, x), R)
<1> DEFINE t == Append(s, x)
<1>1. /\ Len(s) \in Nat /\ Len(t) = Len(s) + 1 /\ t[Len(s) + 1] = x
      /\ \A k \in 1..Len(s) : t[k] = s[k]
  OBVIOUS
<1> HIDE DEF t
<1>2. ASSUME NEW i \in 1..Len(t), NEW j \in 1..Len(t), i < j,
             t[i] \in Payload, t[j] \in Payload
      PROVE  <<t[i], t[j]>> \in R
  <2>1. i \in 1..Len(s) /\ t[i] = s[i]
    BY <1>1, <1>2
  <2>2. CASE j \in 1..Len(s)
    BY <2>1, <2>2, <1>1, <1>2 DEF Ordered
  <2>3. CASE j \notin 1..Len(s)
    <3>1. t[j] = x
      BY <2>3, <1>1
    <3>2. s[i] \in Has(s)
      BY <2>1, <1>2, Elements DEF Has
    <3> QED BY <2>1, <3>1, <3>2, <1>2 DEF Across
  <2> QED BY <2>2, <2>3
<1> QED BY <1>2 DEF Ordered, t

LEMMA OrderedTail ==
    ASSUME NEW X, NEW s \in Seq(X), s # <<>>, NEW R, Ordered(s, R)
    PROVE  /\ Ordered(Tail(s), R)
           /\ Across({Head(s)} \cap Payload, Has(Tail(s)), R)
<1>1. /\ Len(s) \in Nat /\ Len(s) # 0 /\ Head(s) = s[1] /\ Tail(s) \in Seq(X)
      /\ Len(Tail(s)) = Len(s) - 1
      /\ \A k \in 1..Len(Tail(s)) : Tail(s)[k] = s[k + 1]
  OBVIOUS
<1>2. \A k \in 1..Len(Tail(s)) : k + 1 \in 1..Len(s) /\ 1 < k + 1
  BY <1>1
<1>3. Ordered(Tail(s), R)
  BY <1>1, <1>2 DEF Ordered
<1>4. ASSUME NEW b \in Has(Tail(s)), Head(s) \in Payload
      PROVE  <<Head(s), b>> \in R
  <2>1. PICK k \in 1..Len(Tail(s)) : Tail(s)[k] = b
    BY <1>1, Elements DEF Has
  <2>2. b \in Payload /\ s[k + 1] = b
    BY <2>1, <1>1 DEF Has
  <2> QED BY <2>1, <2>2, <1>1, <1>2, <1>4, 1 \in 1..Len(s) DEF Ordered
<1> QED BY <1>3, <1>4 DEF Across

LEMMA OrderedConcat ==
    ASSUME NEW X, NEW s \in Seq(X), NEW t \in Seq(X), NEW R,
           Ordered(s, R), Ordered(t, R), Across(Has(s), Has(t), R)
    PROVE  Ordered(s \o t, R)
<1> DEFINE u == s \o t
<1>1. /\ Len(s) \in Nat /\ Len(t) \in Nat /\ Len(u) = Len(s) + Len(t)
      /\ \A k \in 1..Len(s) : u[k] = s[k]
      /\ \A k \in 1..Len(t) : u[k + Len(s)] = t[k]
  OBVIOUS
<1> HIDE DEF u
<1>2. \A k \in 1..Len(u) : k \notin 1..Len(s) =>
         k - Len(s) \in 1..Len(t) /\ u[k] = t[k - Len(s)] /\ k > Len(s)
  <2> SUFFICES ASSUME NEW k \in 1..Len(u), k \notin 1..Len(s)
               PROVE  k - Len(s) \in 1..Len(t) /\ u[k] = t[k - Len(s)] /\ k > Len(s)
    OBVIOUS
  <2>1. k - Len(s) \in 1..Len(t) /\ (k - Len(s)) + Len(s) = k /\ k > Len(s)
    BY <1>1
  <2> QED BY <2>1, <1>1
<1>3. ASSUME NEW i \in 1..Len(u), NEW j \in 1..Len(u), i < j,
             u[i] \in Payload, u[j] \in Payload
      PROVE  <<u[i], u[j]>> \in R
  <2>1. CASE j \in 1..Len(s)
    <3>1. i \in 1..Len(s)
      BY <2>1, <1>1, <1>3
    <3> QED BY <2>1, <3>1, <1>1, <1>3 DEF Ordered
  <2>2. CASE i \in 1..Len(s) /\ j \notin 1..Len(s)
    <3>1. u[i] = s[i] /\ u[j] = t[j - Len(s)] /\ j - Len(s) \in 1..Len(t)
      BY <2>2, <1>1, <1>2
    <3>2. u[i] \in Has(s) /\ u[j] \in Has(t)
      BY <2>2, <3>1, <1>3, Elements DEF Has
    <3> QED BY <3>2 DEF Across
  <2>3. CASE i \notin 1..Len(s)
    <3>1. j \notin 1..Len(s)
      BY <2>3, <1>1, <1>2, <1>3
    <3>2. /\ u[i] = t[i - Len(s)] /\ i - Len(s) \in 1..Len(t)
          /\ u[j] = t[j - Len(s)] /\ j - Len(s) \in 1..Len(t)
          /\ i - Len(s) < j - Len(s)
      BY <2>3, <3>1, <1>1, <1>2, <1>3
    <3> QED BY <3>2, <1>3 DEF Ordered
  <2> QED BY <2>1, <2>2, <2>3
<1> QED BY <1>3 DEF Ordered, u

(* The order in each place and among the places is the order of Journey. *)
LEMMA OrderInvInOrder ==
    ASSUME AccountTypes, OrderInv
    PROVE  InOrder
<1> DEFINE one == <<sending>>
           front == wire \o one
           rest == front \o pub_pipe
           all == cloud \o rest
<1>1. /\ cloud \in Seq(Item) /\ wire \in Seq(Item) /\ pub_pipe \in Seq(Item)
      /\ one \in Seq(Item) /\ Has(one) = InHand /\ Ordered(one, Precedes)
  BY DEF AccountTypes, ToSet, Has, InHand, Ordered
<1>2. Lined(Has(cloud), Has(wire), InHand, Has(pub_pipe), Precedes)
  BY DEF OrderInv
<1> HIDE DEF one
<1>3. /\ front \in Seq(Item) /\ Has(front) = Has(wire) \cup InHand
      /\ Ordered(front, Precedes)
  BY <1>1, <1>2, ToSetConcat, OrderedConcat DEF Has, OrderInv, Lined
<1> HIDE DEF front
<1>4. Across(Has(front), Has(pub_pipe), Precedes)
  BY <1>2, <1>3 DEF Lined, Across
<1>5. /\ rest \in Seq(Item) /\ Has(rest) = Has(front) \cup Has(pub_pipe)
      /\ Ordered(rest, Precedes)
  BY <1>1, <1>3, <1>4, ToSetConcat, OrderedConcat DEF Has, OrderInv
<1> HIDE DEF rest
<1>6. Across(Has(cloud), Has(rest), Precedes)
  BY <1>2, <1>3, <1>5 DEF Lined, Across
<1>7. Ordered(all, Precedes)
  BY <1>1, <1>5, <1>6, OrderedConcat DEF OrderInv
<1>8. Journey = all
  BY DEF Journey, InTransit, all, rest, front, one
<1> HIDE DEF all
<1>9. ASSUME NEW i \in 1..Len(Journey), NEW j \in 1..Len(Journey),
             i < j, {Journey[i], Journey[j]} \subseteq Payload
      PROVE  \E k, l \in 1..Len(published) :
                k < l /\ published[k] = Journey[i] /\ published[l] = Journey[j]
  <2>1. <<Journey[i], Journey[j]>> \in Precedes
    BY <1>7, <1>8, <1>9 DEF Ordered
  <2> QED BY <2>1 DEF Precedes
<1> QED BY <1>9 DEF InOrder

LEMMA InitOrder == Init => OrderInv
<1> SUFFICES ASSUME Init PROVE OrderInv
  OBVIOUS
<1>1. cloud = <<>> /\ wire = <<>> /\ pub_pipe = <<>> /\ sending = Nothing
  BY DEF Init
<1>2. /\ Has(cloud) = {} /\ Has(wire) = {} /\ Has(pub_pipe) = {} /\ InHand = {}
  BY <1>1, HasEmpty, Names DEF InHand
<1> QED BY <1>1, <1>2, OrderedEmpty DEF OrderInv, Lined, Across

(* Steps that move no message *)
LEMMA QuietOrder ==
    ASSUME OrderInv, UNCHANGED <<pub_pipe, sending, wire, cloud, published>>
    PROVE  OrderInv'
<1>1. UNCHANGED <<Has(cloud), Has(wire), InHand, Has(pub_pipe), Precedes>>
  BY DEF Has, InHand, Precedes
<1> QED BY <1>1 DEF OrderInv, Ordered

(* What the pipe accepts now comes after all that it accepted before. *)
LEMMA PrecedesAppend ==
    ASSUME published \in Seq(Payload), NEW m \in Payload,
           published' = Append(published, m)
    PROVE  /\ Precedes \subseteq Precedes'
           /\ Across(ToSet(published), {m}, Precedes')
<1>1. /\ Len(published) \in Nat /\ Len(published') = Len(published) + 1
      /\ published'[Len(published) + 1] = m
      /\ \A k \in 1..Len(published) :
            k \in 1..Len(published') /\ published'[k] = published[k]
  OBVIOUS
<1>2. Precedes \subseteq Precedes'
  BY <1>1 DEF Precedes
<1>3. ASSUME NEW a \in ToSet(published)
      PROVE  <<a, m>> \in Precedes'
  <2>1. PICK k \in 1..Len(published) : published[k] = a
    BY Elements
  <2>2. a \in Payload
    BY <2>1
  <2>3. /\ k \in 1..Len(published') /\ Len(published) + 1 \in 1..Len(published')
        /\ k < Len(published) + 1
    BY <2>1, <1>1
  <2> QED BY <2>1, <2>2, <2>3, <1>1 DEF Precedes
<1> QED BY <1>2, <1>3 DEF Across

(* mqtt_publish, the report thread and mqtt_online_callback *)
LEMMA PutOrder ==
    ASSUME AccountInv, OrderInv, NEW m \in Payload,
           pub_pipe' = Append(pub_pipe, m), published' = Append(published, m),
           UNCHANGED <<sending, wire, cloud>>
    PROVE  OrderInv'
<1>1. /\ pub_pipe \in Seq(Item) /\ published \in Seq(Payload) /\ m \in Item
      /\ UNION {Has(cloud), Has(wire), InHand, Has(pub_pipe)} \subseteq ToSet(published)
  BY Names DEF AccountInv, AccountTypes, Account, Covers
<1>2. /\ Precedes \subseteq Precedes'
      /\ Across(ToSet(published), {m}, Precedes')
  BY <1>1, PrecedesAppend
<1>3. /\ Ordered(cloud, Precedes') /\ Ordered(wire, Precedes')
      /\ Ordered(pub_pipe, Precedes')
      /\ Lined(Has(cloud), Has(wire), InHand, Has(pub_pipe), Precedes')
  BY <1>2, OrderGrows DEF OrderInv, Lined
<1>4. /\ Across(Has(pub_pipe), {m} \cap Payload, Precedes')
      /\ Has(pub_pipe)' = Has(pub_pipe) \cup {m}
  BY <1>1, <1>2, HasAppend DEF Across
<1>5. Ordered(pub_pipe', Precedes')
  BY <1>1, <1>3, <1>4, OrderedAppend
<1>6. UNCHANGED <<Has(cloud), Has(wire), InHand>>
  BY DEF Has, InHand
<1>7. Lined(Has(cloud), Has(wire), InHand, Has(pub_pipe), Precedes)'
  BY <1>1, <1>2, <1>3, <1>4, <1>6 DEF Lined, Across
<1> QED BY <1>3, <1>5, <1>7 DEF OrderInv

(* The head of the pipe passes into the worker's hands, the rest is lost. *)
LEMMA ReadOrder ==
    ASSUME AccountInv, OrderInv, ReadPipe PROVE OrderInv'
<1>1. /\ worker = "select" /\ pub_pipe # <<>> /\ pub_pipe' = <<>>
      /\ UNCHANGED <<wire, cloud, published>>
  BY DEF ReadPipe
<1>2. \/ sending' = Head(pub_pipe)
      \/ Head(pub_pipe) = Disconnect /\ sending' \in {sending, Garbage}
  BY DEF ReadPipe
<1>3. sending = Nothing /\ pub_pipe \in Seq(Item)
  BY <1>1 DEF AccountInv, AccountTypes
<1>4. InHand' \subseteq Has(pub_pipe)
  <2>1. {Head(pub_pipe)} \cap Payload \subseteq Has(pub_pipe)
    BY <1>1, <1>3, HasTail
  <2>2. Nothing \notin Payload /\ Garbage \notin Payload
    BY Names
  <2> QED BY <2>1, <2>2, <1>2, <1>3 DEF InHand
<1>5. UNCHANGED <<Has(cloud), Has(wire), Precedes>> /\ Has(pub_pipe)' = {}
  BY <1>1, HasEmpty DEF Has, Precedes
<1>6. Lined(Has(cloud), Has(wire), InHand, Has(pub_pipe), Precedes)'
  BY <1>4, <1>5 DEF OrderInv, Lined, Across
<1> QED BY <1>1, <1>5, <1>6, OrderedEmpty DEF OrderInv, Ordered

(* sendPacket: to the end of the wire, or nowhere. *)
LEMMA SendOrder ==
    ASSUME AccountInv, OrderInv, SendDone PROVE OrderInv'
<1>1. /\ sending' = Nothing /\ UNCHANGED <<pub_pipe, cloud, published>>
      /\ wire' = Append(wire, sending) \/ wire' = wire
  BY DEF SendDone
<1>2. sending \in Item /\ wire \in Seq(Item)
  BY DEF AccountInv, AccountTypes
<1>3. UNCHANGED <<Has(cloud), Has(pub_pipe), Precedes>> /\ InHand' = {}
  BY <1>1, Names DEF Has, Precedes, InHand
<1>4. Ordered(cloud, Precedes)' /\ Ordered(pub_pipe, Precedes)'
  BY <1>1, <1>3 DEF OrderInv, Ordered
<1>5. CASE wire' = Append(wire, sending)
  <2>1. Has(wire)' = Has(wire) \cup InHand
    BY <1>2, <1>5, HasAppend DEF InHand
  <2>2. Ordered(wire', Precedes)
    BY <1>2, <1>5, OrderedAppend DEF OrderInv, Lined, InHand
  <2>3. Lined(Has(cloud), Has(wire), InHand, Has(pub_pipe), Precedes)'
    BY <1>3, <2>1 DEF OrderInv, Lined, Across
  <2> QED BY <1>3, <1>4, <2>2, <2>3 DEF OrderInv
<1>6. CASE wire' = wire
  <2>1. Has(wire)' = Has(wire)
    BY <1>6 DEF Has
  <2>2. Ordered(wire, Precedes)'
    BY <1>3, <1>6 DEF OrderInv, Ordered
  <2>3. Lined(Has(cloud), Has(wire), InHand, Has(pub_pipe), Precedes)'
    BY <1>3, <2>1 DEF OrderInv, Lined, Across
  <2> QED BY <1>4, <2>2, <2>3 DEF OrderInv
<1> QED BY <1>1, <1>5, <1>6

(* A new connection empties the wire, the worker's exit the pipe. *)
LEMMA DropOrder ==
    ASSUME OrderInv, UNCHANGED <<sending, cloud, published>>,
           wire' \in {wire, <<>>}, pub_pipe' \in {pub_pipe, <<>>}
    PROVE  OrderInv'
<1>1. UNCHANGED <<Has(cloud), InHand, Precedes>>
  BY DEF Has, InHand, Precedes
<1>2. /\ Has(wire)' \subseteq Has(wire) /\ Has(pub_pipe)' \subseteq Has(pub_pipe)
  BY HasEmpty DEF Has
<1>3. /\ Ordered(cloud, Precedes)' /\ Ordered(wire, Precedes)'
      /\ Ordered(pub_pipe, Precedes)'
  BY <1>1, OrderedEmpty DEF OrderInv, Ordered
<1>4. Lined(Has(cloud), Has(wire), InHand, Has(pub_pipe), Precedes)'
  BY <1>1, <1>2 DEF OrderInv, Lined, Across
<1> QED BY <1>3, <1>4 DEF OrderInv

(* The broker gets the oldest message of the wire. *)
LEMMA DeliverOrder ==
    ASSUME AccountInv, OrderInv, Deliver PROVE OrderInv'
<1>1. /\ wire # <<>> /\ cloud' = Append(cloud, Head(wire)) /\ wire' = Tail(wire)
      /\ UNCHANGED <<pub_pipe, sending, published>>
  BY DEF Deliver
<1>2. cloud \in Seq(Item) /\ wire \in Seq(Item)
  BY DEF AccountInv, AccountTypes
<1> DEFINE h == {Head(wire)} \cap Payload
<1>3. Head(wire) \in Item /\ Has(wire) = h \cup Has(wire)'
  BY <1>1, <1>2, ToSetTail, HasTail
<1>4. Ordered(wire', Precedes) /\ Across(h, Has(wire)', Precedes)
  BY <1>1, <1>2, OrderedTail DEF OrderInv
<1>5. Has(cloud)' = Has(cloud) \cup h
  BY <1>1, <1>2, <1>3, HasAppend
<1>6. Across(Has(cloud), h, Precedes)
  BY <1>3 DEF OrderInv, Lined, Across
<1>7. Ordered(cloud', Precedes)
  BY <1>1, <1>2, <1>3, <1>6, OrderedAppend DEF OrderInv
<1>8. UNCHANGED <<InHand, Has(pub_pipe), Precedes>>
  BY <1>1 DEF InHand, Has, Precedes
<1> HIDE DEF h
<1>9. Lined(Has(cloud), Has(wire), InHand, Has(pub_pipe), Precedes)'
  BY <1>3, <1>4, <1>5, <1>8 DEF OrderInv, Lined, Across
<1>10. Ordered(pub_pipe, Precedes)'
  BY <1>1, <1>8 DEF OrderInv, Ordered
<1> QED BY <1>4, <1>7, <1>8, <1>9, <1>10 DEF OrderInv

(* mqtt_stop's command is no message. *)
LEMMA CommandOrder ==
    ASSUME AccountInv, OrderInv, Command PROVE OrderInv'
<1>1. /\ UNCHANGED <<sending, wire, cloud, published>>
      /\ pub_pipe' = pub_pipe \/ pub_pipe' = Append(pub_pipe, Disconnect)
  BY Zenon DEF Command, Put
<1>2. CASE pub_pipe' = pub_pipe
  BY <1>1, <1>2, QuietOrder
<1>3. CASE pub_pipe' = Append(pub_pipe, Disconnect)
  <2>1. pub_pipe \in Seq(Item) /\ Disconnect \in Item /\ {Disconnect} \cap Payload = {}
    BY Names DEF AccountInv, AccountTypes
  <2>2. Has(pub_pipe)' = Has(pub_pipe)
    BY <1>3, <2>1, Names, HasAppend DEF Has
  <2>3. Ordered(pub_pipe', Precedes)
    BY <1>3, <2>1, OrderedAppend DEF OrderInv, Across
  <2>4. UNCHANGED <<Has(cloud), Has(wire), InHand, Precedes>>
    BY <1>1 DEF Has, InHand, Precedes
  <2>5. Ordered(cloud, Precedes)' /\ Ordered(wire, Precedes)'
    BY <1>1, <2>4 DEF OrderInv, Ordered
  <2>6. Lined(Has(cloud), Has(wire), InHand, Has(pub_pipe), Precedes)'
    BY <2>2, <2>4 DEF OrderInv, Lined, Across
  <2> QED BY <2>3, <2>4, <2>5, <2>6 DEF OrderInv
<1> QED BY <1>1, <1>2, <1>3

LEMMA NextOrder ==
    ASSUME AccountInv, OrderInv, [AnyStep]_client
    PROVE  OrderInv'
<1>1. CASE Start \/ Resume \/ Connect \/ Cycle \/ PubAck \/ Ping \/ NoPingResp
           \/ Disconnected \/ Stop \/ Cut \/ Heal \/ UNCHANGED client
  <2>1. UNCHANGED <<pub_pipe, sending, wire, cloud, published>>
    BY <1>1 DEF Start, Resume, Connect, Cycle, PubAck, Ping, NoPingResp,
                Disconnected, Stop, Cut, Heal, client, line
  <2> QED BY <2>1, QuietOrder
<1>2. CASE ConnAck \/ Exit
  <2>1. /\ UNCHANGED <<sending, cloud, published>>
        /\ wire' \in {wire, <<>>} /\ pub_pipe' \in {pub_pipe, <<>>}
    BY <1>2 DEF ConnAck, Exit
  <2> QED BY <2>1, DropOrder
<1>3. CASE SubAck
  <2>1. /\ UNCHANGED <<sending, wire, cloud>>
        /\ \/ UNCHANGED <<pub_pipe, published>>
           \/ /\ pub_pipe' = Append(pub_pipe, Page0)
              /\ published' = Append(published, Page0)
    BY <1>3, Zenon DEF SubAck, OnlineCallback, Greet, NoGreeting
  <2> QED BY <2>1, QuietOrder, PutOrder, Names
<1>4. CASE ReadPipe \/ SendDone \/ Command \/ Deliver
  BY <1>4, ReadOrder, SendOrder, CommandOrder, DeliverOrder
<1>5. ASSUME NEW m \in Messages, Enters(m) \/ WriteFails(m)
      PROVE  OrderInv'
  <2>1. UNCHANGED <<pub_pipe, sending, wire, cloud, published>>
    BY <1>5 DEF Enters, Enter, WriteFails, line
  <2> QED BY <2>1, QuietOrder
<1>6. ASSUME NEW m \in Messages, Write(m)
      PROVE  OrderInv'
  <2>1. /\ pub_pipe' = Append(pub_pipe, m) /\ published' = Append(published, m)
        /\ UNCHANGED <<sending, wire, cloud>>
    BY <1>6 DEF Write, Put
  <2> QED BY <2>1, PutOrder, Names
<1> QED
  BY <1>1, <1>2, <1>3, <1>4, <1>5, <1>6, Zenon DEF AnyStep, Worker, Network

(* No message is accepted twice: a publisher's message and Page0 are new    *)
(* when they go into the pipe.                                             *)
LEMMA NextAcceptedOnce ==
    ASSUME AccountInv, Once(published), [AnyStep]_client
    PROVE  Once(published)'
<1>1. \/ UNCHANGED published
      \/ is_first_time_online /\ published' = Append(published, Page0)
      \/ \E m \in writing : m \in Messages /\ published' = Append(published, m)
  BY Zenon
  DEF AnyStep, Start, Worker, Stop, Command, Network, Resume, Connect, ConnAck,
      SubAck, OnlineCallback, Greet, NoGreeting, Cycle, PubAck, Ping,
      NoPingResp, ReadPipe, SendDone, Disconnected, Exit, Deliver, Cut, Heal,
      Enters, Enter, Write, WriteFails, client, shell
<1>2. CASE UNCHANGED published
  BY <1>2 DEF Once
<1>3. ASSUME NEW m \in Payload, m \notin ToSet(published),
             published' = Append(published, m)
      PROVE  Once(published)'
  <2>1. published \in Seq(Payload) /\ m \notin Has(published)
    BY <1>3 DEF AccountInv, AccountTypes, Has
  <2> QED BY <1>3, <2>1, OnceAppend
<1>4. /\ is_first_time_online => Page0 \notin ToSet(published)
      /\ \A m \in writing : m \notin ToSet(published)
  BY DEF AccountInv
<1> QED BY <1>1, <1>2, <1>3, <1>4, Names

(* Over all reconnections, takeovers, overruns and stops, what the cloud   *)
(* gets and what is still under way is in the order in which the pipe      *)
(* accepted it, and the pipe accepts no message twice                      *)
(* (paho_mqtt_pipe.c:937, 1130-1158).                                      *)
THEOREM MessagesStayInOrder == Spec => [](InOrder /\ Once(published))
<1> DEFINE Inv == AccountInv /\ OrderInv /\ Once(published)
<1>1. Init => Inv
  BY InitAccount, InitOrder, HasEmpty DEF Init
<1>2. Inv /\ [Next]_client => Inv'
  BY NextAccount, NextOrder, NextAcceptedOnce, NextIsAnyStep
<1>3. Inv => InOrder /\ Once(published)
  BY OrderInvInOrder DEF AccountInv
<1> QED
  BY <1>1, <1>2, <1>3, PTL DEF Spec
=============================================================================
