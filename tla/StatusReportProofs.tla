------------------------- MODULE StatusReportProofs -------------------------
(***************************************************************************)
(* The whole way of a status change to the cloud, for any number of        *)
(* changes, failures and stops and any size of the mailbox and the pipe:   *)
(* none disappears without a reason and none is doubled, and the cloud     *)
(* hears them in the order in which they were seen.                        *)
(*                                                                         *)
(* The client's part of the argument is the one of MqttClientProofs, whose *)
(* lemmas are used here for the reports as messages: CP.  They tell that   *)
(* what the pipe has accepted is in one of the client's places, and that   *)
(* the places keep the order of acceptance.  Here it remains to show that  *)
(* reports are accepted in the order of their numbers (Spread, Rising).    *)
(***************************************************************************)
EXTENDS StatusReport, TLAPS

CP == INSTANCE MqttClientProofs WITH Messages <- Reports

(* What MqttClient assumes of its constants, and MqttClientProofs with it *)
LEMMA Assumptions ==
    /\ PipeCap \in Nat \ {0} /\ MaxFaults \in Nat /\ MaxStops \in Nat
    /\ Page0 \notin Reports
    /\ {Disconnect, Garbage, Nothing} \cap (Reports \cup {Page0}) = {}
    /\ Disconnect # Garbage /\ Disconnect # Nothing /\ Garbage # Nothing
BY ClientAssumption, DistinctAssumption

(* The client of StatusReport is the one of MqttClientProofs. *)
LEMMA SameWorker ==
    Client!Worker => CP!Worker
BY Zenon
DEF Client!Worker, CP!Worker, Client!Resume, CP!Resume, Client!Connect,
    CP!Connect, Client!ConnAck, CP!ConnAck, Client!SubAck, CP!SubAck,
    Client!OnlineCallback, CP!OnlineCallback, Client!Greet, CP!Greet,
    Client!NoGreeting, CP!NoGreeting, Client!shell, CP!shell, Client!Cycle,
    CP!Cycle, Client!PubAck, CP!PubAck, Client!Ping, CP!Ping,
    Client!NoPingResp, CP!NoPingResp, Client!ReadPipe, CP!ReadPipe,
    Client!SendDone, CP!SendDone, Client!Disconnected, CP!Disconnected,
    Client!Exit, CP!Exit, Client!Restart, CP!Restart, Client!flags, CP!flags,
    Client!line, CP!line, Client!network, CP!network, Client!Works, CP!Works,
    Client!Fails, CP!Fails, Client!Lose, CP!Lose, Client!Lost, CP!Lost,
    Client!Payload, CP!Payload, Client!ToSet, CP!ToSet

LEMMA SameOthers ==
    /\ Client!Start => CP!Start
    /\ Client!Stop => CP!Stop
    /\ Client!Command => CP!Command
    /\ Client!Network => CP!Network
BY Zenon
DEF Client!Start, CP!Start, Client!Stop, CP!Stop, Client!Command, CP!Command,
    Client!shell, CP!shell, Client!Network, CP!Network, Client!Deliver,
    CP!Deliver, Client!Cut, CP!Cut, Client!Heal, CP!Heal, Client!flags,
    CP!flags, Client!line, CP!line, Client!network, CP!network, Client!Calm,
    CP!Calm, Client!Room, CP!Room, Client!Put, CP!Put

LEMMA SamePublisher ==
    ASSUME NEW m
    PROVE  /\ Client!Enter(m) => CP!Enter(m)
           /\ Client!Write(m) => CP!Write(m)
           /\ Client!WriteFails(m) => CP!WriteFails(m)
BY Zenon
DEF Client!Enter, CP!Enter, Client!Write, CP!Write, Client!WriteFails,
    CP!WriteFails, Client!flags, CP!flags, Client!line, CP!line, Client!network,
    CP!network, Client!shell, CP!shell, Client!Calm, CP!Calm, Client!Room, CP!Room,
    Client!Put, CP!Put

LEMMA SameInit == Client!Init => CP!Init
BY Zenon DEF Client!Init, CP!Init

-----------------------------------------------------------------------------
(* The numbers of the changes *)

LEMMA ReportNumbers ==
    /\ Reports \subseteq [nth : 1..MaxChanges, status : Int]
    /\ \A n \in 1..MaxChanges : Source!Mail(n) \in Reports /\ Source!Mail(n).nth = n
    /\ \A m \in Reports : m = Source!Mail(m.nth) /\ m.nth \in 1..MaxChanges
BY MaxChangesAssumption DEF Reports, Source!Mail, Source!StatusOf

LEMMA NumbersOf ==
    ASSUME NEW S
    PROVE  /\ Numbers(S) \subseteq 1..MaxChanges
           /\ \A n \in 1..MaxChanges : n \in Numbers(S) <=> Source!Mail(n) \in S
           /\ \A m \in S \cap Reports : m.nth \in Numbers(S)
BY ReportNumbers DEF Numbers

LEMMA NumbersAdd ==
    ASSUME NEW S, NEW T
    PROVE  Numbers(S \cup T) = Numbers(S) \cup Numbers(T)
BY DEF Numbers

LEMMA NumbersApart ==
    ASSUME NEW S, NEW T, S \cap T \cap Reports = {}
    PROVE  Numbers(S) \cap Numbers(T) = {}
<1> SUFFICES ASSUME NEW n \in Numbers(S), n \in Numbers(T)
             PROVE  FALSE
  OBVIOUS
<1>1. n \in 1..MaxChanges /\ Source!Mail(n) \in S /\ Source!Mail(n) \in T
  BY NumbersOf
<1> QED
  BY <1>1, ReportNumbers

LEMMA NumbersOne ==
    /\ Numbers({}) = {}
    /\ \A m : m \notin Reports => Numbers({m}) = {}
    /\ \A m \in Reports : Numbers({m}) = {m.nth}
BY DEF Numbers

LEMMA SameToSet ==
    ASSUME NEW s
    PROVE  CP!ToSet(s) = ToSet(s) /\ Client!ToSet(s) = ToSet(s)
BY DEF ToSet, CP!ToSet, Client!ToSet

-----------------------------------------------------------------------------
(* The client's part of the way *)

Accepted == Numbers(ToSet(published))
Places == /\ InClient = UNION {Numbers(ToSet(wire)), Numbers({sending}),
                               Numbers(ToSet(pub_pipe))}
          /\ Accepted = UNION {Arrived, InClient, LostOnTheWay}
          /\ Arrived \cap InClient = {} /\ Arrived \cap LostOnTheWay = {}
          /\ InClient \cap LostOnTheWay = {}

(* What is in transit is on the wire, in the hands of the worker or in the *)
(* pipe.                                                                   *)
LEMMA InTransitIs ==
    ASSUME CP!AccountInv
    PROVE  ToSet(Client!InTransit) = UNION {ToSet(wire), {sending}, ToSet(pub_pipe)}
<1> DEFINE one == <<sending>>
           front == wire \o one
<1>1. /\ wire \in Seq(CP!Item) /\ pub_pipe \in Seq(CP!Item)
      /\ one \in Seq(CP!Item) /\ ToSet(one) = {sending}
  BY DEF CP!AccountInv, CP!AccountTypes, ToSet
<1> HIDE DEF one
<1>2. /\ front \in Seq(CP!Item)
      /\ CP!ToSet(front) = CP!ToSet(wire) \cup CP!ToSet(one)
  BY <1>1, CP!ToSetConcat, Assumptions
<1> HIDE DEF front
<1>3. CP!ToSet(front \o pub_pipe) = CP!ToSet(front) \cup CP!ToSet(pub_pipe)
  BY <1>1, <1>2, CP!ToSetConcat, Assumptions
<1>4. Client!InTransit = front \o pub_pipe
  BY DEF Client!InTransit, front, one
<1> QED
  BY <1>1, <1>2, <1>3, <1>4, SameToSet

(* The client has all reports the pipe has accepted, except those that     *)
(* arrived or were lost.                                                   *)
LEMMA InPlaces == CP!AccountInv => Places
<1> SUFFICES ASSUME CP!AccountInv PROVE Places
  OBVIOUS
<1> DEFINE C == CP!Has(cloud)
           W == CP!Has(wire)
           H == CP!InHand
           Q == CP!Has(pub_pipe)
           L == CP!LostMessages
<1>1. /\ ToSet(published) = UNION {C, W, H, Q, L}
      /\ C \cap W = {} /\ C \cap H = {} /\ C \cap Q = {} /\ C \cap L = {}
      /\ W \cap L = {} /\ H \cap L = {} /\ Q \cap L = {}
  BY SameToSet DEF CP!AccountInv, CP!Account, CP!Covers, CP!Apart
<1>2. Reports \subseteq CP!Payload
  BY DEF CP!Payload
<1>3. /\ Numbers(ToSet(cloud)) = Numbers(C) /\ Numbers(ToSet(wire)) = Numbers(W)
      /\ Numbers({sending}) = Numbers(H) /\ Numbers(ToSet(pub_pipe)) = Numbers(Q)
  BY <1>2, SameToSet DEF Numbers, CP!Has, CP!InHand
<1>4. LostOnTheWay = Numbers(L)
  BY DEF LostOnTheWay, CP!LostMessages, Client!LostMessages
<1>5. InClient = UNION {Numbers(ToSet(wire)), Numbers({sending}),
                        Numbers(ToSet(pub_pipe))}
  BY InTransitIs DEF InClient, Numbers
<1> HIDE DEF C, W, H, Q, L
<1>6. InClient = Numbers(UNION {W, H, Q})
  <2>1. Numbers(UNION {W, H, Q}) = UNION {Numbers(W), Numbers(H), Numbers(Q)}
    BY DEF Numbers
  <2> QED
    BY <1>3, <1>5, <2>1, Zenon
<1>7. Accepted = UNION {Arrived, InClient, LostOnTheWay}
  BY <1>1, <1>3, <1>4, <1>6 DEF Accepted, Arrived, Numbers
<1>8. /\ Arrived \cap InClient = {} /\ Arrived \cap LostOnTheWay = {}
      /\ InClient \cap LostOnTheWay = {}
  BY <1>1, <1>3, <1>4, <1>6, NumbersApart DEF Arrived
<1> QED
  BY <1>5, <1>7, <1>8 DEF Places

-----------------------------------------------------------------------------
(* The invariant.  Changes pass from the mailbox to the report thread and  *)
(* into the pipe: what the pipe has accepted is older than what the thread *)
(* holds, and that is older than what is in the mailbox.                   *)

Below(A, B) == \A a \in A, b \in B : a < b

SourceInv ==
    /\ changes \in 0..MaxChanges /\ dropped \subseteq 1..changes
    /\ computer_status_mail \in Seq(Reports)
    /\ \A i, j \in 1..Len(computer_status_mail) :
          i < j => computer_status_mail[i].nth < computer_status_mail[j].nth

ThreadInv ==
    /\ report \in {"none", "recv", "check", "publish", "write", "sleep"}
    /\ IF report \in {"none", "recv"} THEN status = Nothing ELSE status \in Reports
    /\ writing = IF report = "write" THEN {status} ELSE {}

Spread ==
    /\ 1..changes = UNION {Accepted, Held, Mailed, dropped}
    /\ Below(Accepted, Held) /\ Below(Accepted, Mailed) /\ Below(Held, Mailed)
    /\ dropped \cap UNION {Accepted, Held, Mailed} = {}

Rising == \A i, j \in 1..Len(published) :
             i < j /\ {published[i], published[j]} \subseteq Reports
                => published[i].nth < published[j].nth

WayInv == /\ CP!AccountInv /\ CP!OrderInv /\ Rising
          /\ SourceInv /\ ThreadInv /\ Spread

LEMMA InitWay == Init => WayInv
<1> SUFFICES ASSUME Init PROVE WayInv
  OBVIOUS
<1>1. /\ changes = 0 /\ computer_status_mail = <<>> /\ dropped = {}
      /\ published = <<>> /\ writing = {} /\ report = "none" /\ status = Nothing
  BY DEF Init, Source!Init, Client!Init
<1>2. CP!Init
  BY SameInit DEF Init
<1>3. CP!AccountInv /\ CP!OrderInv
  BY <1>2, CP!InitAccount, CP!InitOrder, Assumptions
<1>4. Accepted = {} /\ Held = {} /\ Mailed = {}
  BY <1>1, Assumptions DEF Accepted, Held, Mailed, Numbers, ToSet
<1> QED
  BY <1>1, <1>3, <1>4, MaxChangesAssumption
     DEF WayInv, Rising, SourceInv, ThreadInv, Spread, Below

(* What the pipe accepts now is no report, or newer than those before. *)
LEMMA Accepts ==
    ASSUME published \in Seq(CP!Payload), Rising, NEW m \in CP!Payload,
           published' = Append(published, m),
           \A n \in Accepted : m \in Reports => n < m.nth
    PROVE  Rising' /\ Accepted' = Accepted \cup Numbers({m})
<1>1. Accepted' = Accepted \cup Numbers({m})
  <2>1. ToSet(published') = ToSet(published) \cup {m}
    <3>1. CP!ToSet(Append(published, m)) = CP!ToSet(published) \cup {m}
      BY CP!ToSetAppend, Assumptions
    <3> QED
      BY <3>1, SameToSet
  <2> QED
    BY <2>1, NumbersAdd DEF Accepted
<1>2. ASSUME NEW i \in 1..Len(published'), NEW j \in 1..Len(published'), i < j,
             {published'[i], published'[j]} \subseteq Reports
      PROVE  published'[i].nth < published'[j].nth
  <2>1. /\ i \in 1..Len(published) /\ published'[i] = published[i]
    BY <1>2
  <2>2. CASE j \in 1..Len(published)
    <3>1. published'[j] = published[j]
      BY <2>2
    <3> QED
      BY <1>2, <2>1, <2>2, <3>1 DEF Rising
  <2>3. CASE j \notin 1..Len(published)
    <3>1. published'[j] = m
      BY <2>3
    <3>2. published[i] \in ToSet(published) \cap Reports
      BY <1>2, <2>1 DEF ToSet
    <3>3. published[i].nth \in Accepted
      BY <3>2, NumbersOf DEF Accepted
    <3> QED
      BY <1>2, <2>1, <3>1, <3>3
  <2> QED
    BY <2>2, <2>3
<1> QED
  BY <1>1, <1>2 DEF Rising

-----------------------------------------------------------------------------
(* The mailbox *)

LEMMA MailedIs ==
    SourceInv => /\ Mailed = {computer_status_mail[i].nth :
                                 i \in 1..Len(computer_status_mail)}
                 /\ Len(computer_status_mail) \in Nat
<1> SUFFICES ASSUME SourceInv
             PROVE  Mailed = {computer_status_mail[i].nth :
                                 i \in 1..Len(computer_status_mail)}
  BY DEF SourceInv
<1>1. computer_status_mail \in Seq(Reports)
  BY DEF SourceInv
<1> QED
  BY <1>1 DEF Mailed, Numbers, ToSet

(* A change gets the next number; its mail goes to the end of the mailbox, *)
(* or is dropped.                                                          *)
LEMMA ChangeStep ==
    ASSUME SourceInv, changes < MaxChanges, Mailed \subseteq 1..changes,
           Source!Change
    PROVE  /\ SourceInv' /\ changes' = changes + 1
           /\ \/ dropped' = dropped /\ Mailed' = Mailed \cup {changes + 1}
              \/ dropped' = dropped \cup {changes + 1} /\ Mailed' = Mailed
<1> DEFINE m == Source!Mail(changes + 1)
           mails == computer_status_mail
<1>1. changes + 1 \in 1..MaxChanges /\ changes \in Nat
  BY MaxChangesAssumption DEF SourceInv
<1>2. m \in Reports /\ m.nth = changes + 1
  BY <1>1, ReportNumbers
<1>3. /\ changes' = changes + 1
      /\ \/ mails' = Append(mails, m) /\ dropped' = dropped
         \/ mails' = mails /\ dropped' = dropped \cup {m.nth}
  BY Zenon DEF Source!Change, Source!SendMail
<1> HIDE DEF m
<1>4. /\ mails \in Seq(Reports) /\ Len(mails) \in Nat
      /\ \A i \in 1..Len(mails) : mails[i].nth <= changes
      /\ \A i, j \in 1..Len(mails) : i < j => mails[i].nth < mails[j].nth
  <2>1. \A i \in 1..Len(mails) : mails[i].nth \in Mailed
    BY MailedIs, Zenon
  <2>2. \A i \in 1..Len(mails) : mails[i].nth <= changes
    <3>1. \A n \in Mailed : n <= changes
      BY <1>1
    <3> QED
      BY <2>1, <3>1, Zenon
  <2> QED
    BY <2>2 DEF SourceInv
<1>5. changes' \in 0..MaxChanges /\ dropped' \subseteq 1..changes'
  <2>1. dropped \subseteq 1..changes
    BY DEF SourceInv
  <2>2. dropped' \subseteq dropped \cup {changes + 1}
    BY <1>2, <1>3
  <2>3. changes' = changes + 1
    BY <1>3
  <2> QED
    BY <1>1, <2>1, <2>2, <2>3, MaxChangesAssumption
<1>6. ASSUME mails' = Append(mails, m), dropped' = dropped
      PROVE  SourceInv' /\ Mailed' = Mailed \cup {changes + 1}
  <2>1. /\ mails' \in Seq(Reports) /\ Len(mails') = Len(mails) + 1
        /\ mails'[Len(mails) + 1] = m
        /\ \A i \in 1..Len(mails) : i \in 1..Len(mails') /\ mails'[i] = mails[i]
    BY <1>2, <1>4, <1>6
  <2>2. ASSUME NEW i \in 1..Len(mails'), NEW j \in 1..Len(mails'), i < j
        PROVE  mails'[i].nth < mails'[j].nth
    <3>1. i \in 1..Len(mails) /\ mails'[i] = mails[i]
      BY <1>4, <2>1, <2>2
    <3>2. CASE j \in 1..Len(mails)
      <4>1. mails'[j] = mails[j]
        BY <2>1, <3>2
      <4> QED
        BY <1>4, <2>2, <3>1, <3>2, <4>1
    <3>3. CASE j \notin 1..Len(mails)
      <4>1. mails'[j] = m
        <5>1. j = Len(mails) + 1
          BY <1>4, <2>1, <3>3
        <5> QED
          BY <2>1, <5>1
      <4>2. mails[i].nth <= changes /\ mails[i].nth \in Int
        BY <1>4, <3>1, ReportNumbers
      <4> QED
        BY <1>1, <1>2, <3>1, <4>1, <4>2
    <3> QED
      BY <3>2, <3>3
  <2>3. SourceInv'
    BY <1>5, <2>1, <2>2 DEF SourceInv
  <2>4. Mailed' = Mailed \cup {changes + 1}
    <3>1. CP!ToSet(Append(mails, m)) = CP!ToSet(mails) \cup {m}
      <4>1. mails \in Seq(Reports) /\ m \in Reports
        BY <1>2, <1>4
      <4> QED
        BY <4>1, CP!ToSetAppend, Assumptions
    <3>2. ToSet(mails') = ToSet(mails) \cup {m}
      BY <1>6, <3>1, SameToSet
    <3>3. Mailed' = Mailed \cup Numbers({m})
      BY <3>2, NumbersAdd, Zenon DEF Mailed
    <3> QED
      BY <1>2, <3>3, NumbersOne
  <2> QED
    BY <2>3, <2>4
<1>7. ASSUME mails' = mails, dropped' = dropped \cup {m.nth}
      PROVE  /\ SourceInv' /\ Mailed' = Mailed /\ dropped' = dropped \cup {changes + 1}
  BY <1>2, <1>4, <1>5, <1>7 DEF SourceInv, Mailed
<1> QED
  BY <1>3, <1>6, <1>7

(* The oldest mail is taken. *)
LEMMA TakeStep ==
    ASSUME SourceInv, Source!Take
    PROVE  /\ SourceInv' /\ Head(computer_status_mail) \in Reports
           /\ UNCHANGED <<changes, dropped>>
           /\ Mailed = {Head(computer_status_mail).nth} \cup Mailed'
           /\ Below({Head(computer_status_mail).nth}, Mailed')
<1> DEFINE mails == computer_status_mail
           h == Head(mails)
<1>1. /\ mails # <<>> /\ mails' = Tail(mails) /\ UNCHANGED <<changes, dropped>>
  BY DEF Source!Take
<1>2. /\ mails \in Seq(Reports) /\ Len(mails) \in Nat
      /\ \A i, j \in 1..Len(mails) : i < j => mails[i].nth < mails[j].nth
  BY DEF SourceInv
<1>3. /\ h \in Reports /\ h = mails[1] /\ 1 \in 1..Len(mails)
      /\ mails' \in Seq(Reports) /\ Len(mails') = Len(mails) - 1
      /\ \A i \in 1..Len(mails') : mails'[i] = mails[i + 1] /\ i + 1 \in 1..Len(mails)
                                   /\ 1 < i + 1
  BY <1>1, <1>2
<1>4. SourceInv'
  <2>1. ASSUME NEW i \in 1..Len(mails'), NEW j \in 1..Len(mails'), i < j
        PROVE  mails'[i].nth < mails'[j].nth
    <3>1. /\ i \in 1..Len(mails') /\ mails'[i] = mails[i + 1]
          /\ i + 1 \in 1..Len(mails)
      BY <1>3
    <3>2. /\ j \in 1..Len(mails') /\ mails'[j] = mails[j + 1]
          /\ j + 1 \in 1..Len(mails)
      BY <1>3
    <3>3. i + 1 < j + 1
      BY <2>1, <1>2, <1>3
    <3>4. mails[i + 1].nth < mails[j + 1].nth
      BY <3>1, <3>2, <3>3, <1>2
    <3> QED
      BY <3>1, <3>2, <3>4, Zenon
  <2> QED
    BY <1>1, <1>3, <2>1 DEF SourceInv
<1>5. Mailed = {h.nth} \cup Mailed'
  <2>1. CP!ToSet(mails) = {h} \cup CP!ToSet(mails')
    BY <1>1, <1>2, CP!ToSetTail, Assumptions
  <2>2. ToSet(mails) = {h} \cup ToSet(mails')
    BY <2>1, SameToSet
  <2>3. Mailed = Numbers({h}) \cup Mailed'
    BY <2>2, NumbersAdd, Zenon DEF Mailed
  <2> QED
    BY <1>3, <2>3, NumbersOne
<1>6. Mailed' = {mails'[i].nth : i \in 1..Len(mails')}
  <2>1. SourceInv' => (Mailed = {mails[i].nth : i \in 1..Len(mails)})'
    BY MailedIs, PTL
  <2> QED
    BY <1>4, <2>1
<1>7. Below({h.nth}, Mailed')
  BY <1>2, <1>3, <1>6 DEF Below
<1> QED
  BY <1>1, <1>3, <1>4, <1>5, <1>7

-----------------------------------------------------------------------------
(* Steps of the client *)

(* The worker publishes nothing but the first page, so no report is        *)
(* accepted by its steps.                                                  *)
LEMMA ClientMoves ==
    ASSUME CP!AccountInv, CP!OrderInv, Rising, ClientStep
    PROVE  /\ CP!AccountInv' /\ CP!OrderInv' /\ Rising' /\ Accepted' = Accepted
           /\ UNCHANGED <<source, report, status, writing>>
<1>1. /\ CP!Start \/ CP!Worker \/ CP!Stop \/ CP!Command \/ CP!Network
      /\ UNCHANGED <<source, report, status>>
  BY SameWorker, SameOthers, Zenon DEF ClientStep
<1>2. CP!AnyStep
  BY <1>1, Zenon DEF CP!AnyStep
<1>3. CP!AccountInv' /\ CP!OrderInv'
  BY <1>2, CP!NextAccount, CP!NextOrder, Assumptions
<1>4. /\ writing' = writing
      /\ \/ published' = published
         \/ published' = Append(published, Page0)
  BY <1>1, Zenon
  DEF CP!Start, CP!Worker, CP!Stop, CP!Command, CP!Network, CP!Resume,
      CP!Connect, CP!ConnAck, CP!SubAck, CP!OnlineCallback, CP!Greet,
      CP!NoGreeting, CP!Cycle, CP!PubAck, CP!Ping, CP!NoPingResp, CP!ReadPipe,
      CP!SendDone, CP!Disconnected, CP!Exit, CP!Deliver, CP!Cut, CP!Heal
<1>5. Rising' /\ Accepted' = Accepted
  <2>1. CASE published' = published
    BY <2>1 DEF Rising, Accepted
  <2>2. CASE published' = Append(published, Page0)
    <3>1. published \in Seq(CP!Payload)
      BY DEF CP!AccountInv, CP!AccountTypes
    <3>2. Page0 \in CP!Payload /\ Page0 \notin Reports
      BY Assumptions DEF CP!Payload
    <3> QED
      BY <2>2, <3>1, <3>2, Accepts, NumbersOne
  <2> QED
    BY <1>4, <2>1, <2>2
<1> QED
  BY <1>1, <1>3, <1>4, <1>5

LEMMA ClientWay ==
    ASSUME WayInv, ClientStep
    PROVE  WayInv'
<1>1. /\ CP!AccountInv' /\ CP!OrderInv' /\ Rising' /\ Accepted' = Accepted
      /\ UNCHANGED <<changes, computer_status_mail, dropped, report, status, writing>>
  BY ClientMoves DEF WayInv, source
<1>2. UNCHANGED <<Held, Mailed>>
  BY <1>1 DEF Held, Mailed
<1>3. SourceInv' /\ ThreadInv' /\ Spread'
  BY <1>1, <1>2, Zenon DEF WayInv, SourceInv, ThreadInv, Spread
<1> QED
  BY <1>1, <1>3 DEF WayInv

(* Steps that leave the client alone *)
LEMMA ClientStays ==
    ASSUME WayInv, UNCHANGED client
    PROVE  /\ CP!AccountInv' /\ CP!OrderInv' /\ Rising' /\ Accepted' = Accepted
           /\ writing' = writing /\ Arrived' = Arrived /\ InClient' = InClient
<1>1. UNCHANGED CP!client
  BY Zenon DEF client, CP!client, CP!flags, CP!line, CP!network, CP!shell
<1>2. CP!AccountInv' /\ CP!OrderInv'
  BY <1>1, CP!NextAccount, CP!NextOrder, Assumptions DEF WayInv
<1>3. UNCHANGED <<published, writing, cloud, wire, sending, pub_pipe>>
  BY DEF client
<1> QED
  BY <1>2, <1>3 DEF WayInv, Rising, Accepted, Arrived, InClient, Client!InTransit

LEMMA ChangeWay ==
    ASSUME WayInv, Change
    PROVE  WayInv'
<1>1. /\ changes < MaxChanges /\ Source!Change /\ UNCHANGED <<report, status, client>>
  BY DEF Change
<1>2. /\ CP!AccountInv' /\ CP!OrderInv' /\ Rising' /\ Accepted' = Accepted
      /\ writing' = writing
  BY <1>1, ClientStays
<1>3. Held' = Held
  BY <1>1 DEF Held
<1>4. /\ 1..changes = UNION {Accepted, Held, Mailed, dropped} /\ changes \in Nat
      /\ Mailed \subseteq 1..changes
  BY MaxChangesAssumption DEF WayInv, Spread, SourceInv
<1>5. /\ SourceInv' /\ changes' = changes + 1
      /\ \/ dropped' = dropped /\ Mailed' = Mailed \cup {changes + 1}
         \/ dropped' = dropped \cup {changes + 1} /\ Mailed' = Mailed
  BY <1>1, <1>4, ChangeStep DEF WayInv
<1>6. 1..changes' = (1..changes) \cup {changes + 1}
  BY <1>4, <1>5
<1>7. \A n \in UNION {Accepted, Held, Mailed, dropped} : n < changes + 1
  BY <1>4
<1>8. Spread'
  <2>1. 1..changes' = UNION {Accepted, Held, Mailed, dropped}'
    BY <1>2, <1>3, <1>4, <1>5, <1>6
  <2>2. Below(Accepted', Held') /\ Below(Accepted', Mailed') /\ Below(Held', Mailed')
    BY <1>2, <1>3, <1>5, <1>7 DEF WayInv, Spread, Below
  <2>3. (dropped \cap UNION {Accepted, Held, Mailed} = {})'
    <3>1. changes + 1 \notin UNION {Accepted, Held, Mailed, dropped}
      BY <1>4
    <3> QED
      BY <1>2, <1>3, <1>5, <3>1 DEF WayInv, Spread
  <2> QED
    BY <2>1, <2>2, <2>3 DEF Spread
<1>9. ThreadInv'
  BY <1>1, <1>2 DEF WayInv, ThreadInv
<1> QED
  BY <1>2, <1>5, <1>8, <1>9 DEF WayInv

LEMMA ReceiveWay ==
    ASSUME WayInv, Receive
    PROVE  WayInv' /\ Held' \cup Mailed' = Held \cup Mailed
<1> DEFINE h == Head(computer_status_mail)
<1>1. /\ report = "recv" /\ Source!Take /\ status' = h /\ report' = "check"
      /\ UNCHANGED client
  BY DEF Receive
<1>2. /\ CP!AccountInv' /\ CP!OrderInv' /\ Rising' /\ Accepted' = Accepted
      /\ writing' = writing
  BY <1>1, ClientStays
<1>3. /\ SourceInv' /\ h \in Reports /\ UNCHANGED <<changes, dropped>>
      /\ Mailed = {h.nth} \cup Mailed' /\ Below({h.nth}, Mailed')
  BY <1>1, TakeStep DEF WayInv
<1> HIDE DEF h
<1>4. Held = {} /\ Held' = {h.nth}
  <2>1. status = Nothing /\ Nothing \notin Reports
    BY <1>1, Assumptions DEF WayInv, ThreadInv
  <2> QED
    BY <1>1, <1>3, <2>1, NumbersOne DEF Held
<1>5. Spread'
  BY <1>2, <1>3, <1>4 DEF WayInv, Spread, Below
<1>6. ThreadInv'
  BY <1>1, <1>2, <1>3 DEF WayInv, ThreadInv
<1> QED
  BY <1>2, <1>3, <1>4, <1>5, <1>6 DEF WayInv

(* Steps of the report thread between its calls *)
LEMMA ThreadWay ==
    ASSUME WayInv, Boot \/ CheckOnline \/ Wake
    PROVE  WayInv' /\ UNCHANGED <<source, client, status>>
<1>1. /\ UNCHANGED <<changes, computer_status_mail, dropped, status, client>>
      /\ \/ report = "none" /\ report' = "recv"
         \/ /\ report \in {"check", "sleep"}
            /\ report' \in {"publish", "sleep", "check"}
  BY DEF Boot, CheckOnline, Wake, source
<1>2. /\ CP!AccountInv' /\ CP!OrderInv' /\ Rising' /\ Accepted' = Accepted
      /\ writing' = writing
  BY <1>1, ClientStays
<1>3. UNCHANGED <<Held, Mailed>>
  BY <1>1 DEF Held, Mailed
<1>4. SourceInv' /\ Spread'
  BY <1>1, <1>2, <1>3, Zenon DEF WayInv, SourceInv, Spread
<1>5. ThreadInv'
  BY <1>1, <1>2 DEF WayInv, ThreadInv
<1> QED
  BY <1>1, <1>2, <1>4, <1>5 DEF WayInv, source

(* What the report thread holds has not been accepted. *)
LEMMA HeldIsNew ==
    ASSUME WayInv, status \in Reports
    PROVE  /\ Held = {status.nth} /\ status \in CP!Payload
           /\ status \notin CP!ToSet(published)
           /\ \A n \in Accepted : n < status.nth
<1>1. Held = {status.nth}
  BY NumbersOne DEF Held
<1>2. \A n \in Accepted : n < status.nth
  BY <1>1 DEF WayInv, Spread, Below
<1>3. status \notin CP!ToSet(published)
  <2> SUFFICES ASSUME status \in ToSet(published) PROVE FALSE
    BY SameToSet
  <2>1. status.nth \in Accepted /\ status.nth \in Int
    BY NumbersOf, ReportNumbers DEF Accepted
  <2> QED
    BY <1>2, <2>1
<1> QED
  BY <1>1, <1>2, <1>3 DEF CP!Payload

LEMMA PublishWay ==
    ASSUME WayInv, Publish
    PROVE  /\ WayInv'
           /\ UNCHANGED <<source, status, published, cloud, wire, sending,
                          pub_pipe>>
<1>1. /\ report = "publish" /\ UNCHANGED <<source, status>>
      /\ \/ Client!Enter(status) /\ report' = "write"
         \/ report' = "sleep" /\ UNCHANGED client
  BY Zenon DEF Publish
<1>2. status \in Reports /\ writing = {}
  BY <1>1 DEF WayInv, ThreadInv
<1>3. CASE report' = "sleep" /\ UNCHANGED client
  <2>1. /\ CP!AccountInv' /\ CP!OrderInv' /\ Rising' /\ Accepted' = Accepted
        /\ writing' = writing
    BY <1>3, ClientStays
  <2>3. UNCHANGED <<published, cloud, wire, sending, pub_pipe, changes,
                    computer_status_mail, dropped, Held, Mailed, status>>
    BY <1>1, <1>3 DEF client, source, Held, Mailed
  <2>4. SourceInv' /\ Spread'
    BY <2>1, <2>3, Zenon DEF WayInv, SourceInv, Spread
  <2>5. ThreadInv'
    BY <1>2, <1>3, <2>1, <2>3 DEF ThreadInv
  <2> QED
    BY <1>1, <2>1, <2>3, <2>4, <2>5 DEF WayInv
<1>4. CASE Client!Enter(status) /\ report' = "write"
  <2>1. /\ writing' = writing \cup {status}
        /\ UNCHANGED <<published, cloud, wire, sending, pub_pipe>>
    BY <1>4, Zenon DEF Client!Enter, Client!line
  <2>2. CP!AnyStep
    <3>1. CP!Enters(status)
      BY <1>2, <1>4, HeldIsNew, SamePublisher, Zenon DEF CP!Enters
    <3> QED
      BY <1>2, <3>1, Zenon DEF CP!AnyStep
  <2>3. CP!AccountInv' /\ CP!OrderInv'
    BY <2>2, CP!NextAccount, CP!NextOrder, Assumptions DEF WayInv
  <2>4. UNCHANGED <<changes, computer_status_mail, dropped, status>>
    BY <1>1 DEF source
  <2>5. UNCHANGED <<Accepted, Held, Mailed>>
    BY <2>1, <2>4 DEF Accepted, Held, Mailed
  <2>6. SourceInv' /\ Spread' /\ Rising'
    BY <2>1, <2>4, <2>5, Zenon DEF WayInv, SourceInv, Spread, Rising
  <2>7. ThreadInv'
    BY <1>2, <1>4, <2>1, <2>4 DEF ThreadInv
  <2> QED
    BY <1>1, <2>1, <2>3, <2>6, <2>7 DEF WayInv
<1> QED
  BY <1>1, <1>3, <1>4

(* The report passes into the pipe, or stays where it is. *)
LEMMA WrittenWay ==
    ASSUME WayInv, Written
    PROVE  /\ WayInv' /\ UNCHANGED <<source, cloud, lost>>
           /\ \/ Accepted' = Accepted \cup Held /\ Held' = {}
              \/ Accepted' = Accepted /\ Held' = Held
<1>1. /\ report = "write" /\ UNCHANGED <<changes, computer_status_mail, dropped>>
      /\ \/ Client!Write(status) /\ report' = "recv" /\ status' = Nothing
         \/ Client!WriteFails(status) /\ report' = "sleep" /\ status' = status
  BY Zenon DEF Written, source
<1>2. status \in Reports /\ writing = {status}
  BY <1>1 DEF WayInv, ThreadInv
<1>3. CP!AnyStep
  <2>1. CP!Write(status) \/ CP!WriteFails(status)
    BY <1>1, SamePublisher, Zenon
  <2> QED
    BY <1>2, <2>1, Zenon DEF CP!AnyStep
<1>4. CP!AccountInv' /\ CP!OrderInv'
  BY <1>3, CP!NextAccount, CP!NextOrder, Assumptions DEF WayInv
<1>5. Mailed' = Mailed /\ SourceInv'
  BY <1>1, Zenon DEF WayInv, SourceInv, Mailed
<1>6. /\ Held = {status.nth} /\ status \in CP!Payload
      /\ \A n \in Accepted : n < status.nth
  BY <1>2, HeldIsNew
<1>7. CASE Client!Write(status) /\ report' = "recv" /\ status' = Nothing
  <2>1. /\ published' = Append(published, status) /\ writing' = writing \ {status}
        /\ UNCHANGED <<cloud, lost>>
    BY <1>7, Zenon DEF Client!Write
  <2>2. published \in Seq(CP!Payload) /\ Rising
    BY DEF WayInv, CP!AccountInv, CP!AccountTypes
  <2>3. Rising' /\ Accepted' = Accepted \cup Numbers({status})
    BY <1>6, <2>1, <2>2, Accepts
  <2>4. Accepted' = Accepted \cup Held /\ Held' = {}
    <3>1. Held' = Numbers({Nothing}) /\ Nothing \notin Reports
      BY <1>7, Assumptions DEF Held
    <3> QED
      BY <2>3, <3>1, NumbersOne DEF Held
  <2>5. Spread'
    BY <1>1, <1>5, <2>4 DEF WayInv, Spread, Below
  <2>6. ThreadInv'
    BY <1>2, <1>7, <2>1 DEF ThreadInv
  <2> QED
    BY <1>1, <1>4, <1>5, <2>1, <2>3, <2>4, <2>5, <2>6 DEF WayInv, source
<1>8. CASE Client!WriteFails(status) /\ report' = "sleep" /\ status' = status
  <2>1. writing' = writing \ {status} /\ UNCHANGED <<published, cloud, lost>>
    BY <1>8, Zenon DEF Client!WriteFails
  <2>2. UNCHANGED <<Accepted, Held>>
    BY <1>8, <2>1 DEF Accepted, Held
  <2>3. Rising' /\ Spread'
    BY <1>1, <1>5, <2>1, <2>2, Zenon DEF WayInv, Rising, Spread
  <2>4. ThreadInv'
    BY <1>2, <1>8, <2>1 DEF ThreadInv
  <2> QED
    BY <1>1, <1>4, <1>5, <2>1, <2>2, <2>3, <2>4 DEF WayInv, source
<1> QED
  BY <1>1, <1>7, <1>8

LEMMA NextWay == WayInv /\ [Next]_vars => WayInv'
<1> SUFFICES ASSUME WayInv, [Next]_vars PROVE WayInv'
  OBVIOUS
<1>1. CASE UNCHANGED vars
  <2>1. /\ UNCHANGED client
        /\ UNCHANGED <<changes, computer_status_mail, dropped, report, status>>
    BY <1>1 DEF vars, source
  <2>2. /\ CP!AccountInv' /\ CP!OrderInv' /\ Rising' /\ Accepted' = Accepted
        /\ writing' = writing
    BY <2>1, ClientStays
  <2> QED
    BY <2>1, <2>2, Zenon DEF WayInv, SourceInv, ThreadInv, Spread, Held, Mailed
<1> QED
  BY <1>1, ClientWay, ChangeWay, ReceiveWay, ThreadWay, PublishWay, WrittenWay, Zenon
  DEF Next, Report

(* The inductive invariant *)
LEMMA WayIsKept == Spec => []WayInv
BY InitWay, NextWay, PTL DEF Spec

(* No change of the status disappears without a reason and none is         *)
(* doubled, whatever happens to the mailbox, the pipe and the connection   *)
(* (mqtt.c:273-288, boot_check.c:182-184).                                 *)
THEOREM ChangesAreConserved == Spec => []Conserved
<1>1. WayInv => Conserved
  <2> SUFFICES ASSUME WayInv PROVE Conserved
    OBVIOUS
  <2>1. Places
    BY InPlaces DEF WayInv
  <2>2. /\ 1..changes = UNION {Accepted, Held, Mailed, dropped}
        /\ Below(Accepted, Held) /\ Below(Accepted, Mailed) /\ Below(Held, Mailed)
        /\ dropped \cap UNION {Accepted, Held, Mailed} = {}
        /\ changes \in Nat
    BY MaxChangesAssumption DEF WayInv, Spread, SourceInv
  <2>3. \A n \in UNION {Accepted, Held, Mailed} : n \in Int /\ ~(n < n)
    BY <2>2
  <2>4. Accepted \cap Held = {} /\ Accepted \cap Mailed = {} /\ Held \cap Mailed = {}
    BY <2>2, <2>3, Zenon DEF Below
  <2>5. /\ 1..changes = UNION {Arrived, InClient, Held, Mailed, dropped, LostOnTheWay}
        /\ OnlyOnce
    <3> HIDE DEF Accepted, Held, Mailed, Arrived, InClient, LostOnTheWay
    <3> QED
      BY <2>1, <2>2, <2>4 DEF Places, OnlyOnce
  <2> QED
    BY <2>5 DEF Conserved
<1> QED
  BY <1>1, WayIsKept, PTL

-----------------------------------------------------------------------------
(* Refinement.  A step of the client either delivers the oldest report of  *)
(* those under way, or takes some of them away; the other steps keep them, *)
(* or add the newest.                                                      *)

UnderWay == InClient \cup Held \cup Mailed

LEMMA NumbersAreSmall ==
    /\ Arrived \subseteq 1..MaxChanges /\ InClient \subseteq 1..MaxChanges
    /\ Held \subseteq 1..MaxChanges /\ Mailed \subseteq 1..MaxChanges
    /\ Accepted \subseteq 1..MaxChanges
BY NumbersOf DEF Arrived, InClient, Held, Mailed, Accepted

(* What has arrived is older than what the client still carries. *)
LEMMA ArrivedIsOlder == WayInv => Below(Arrived, InClient)
<1> SUFFICES ASSUME WayInv, NEW a \in Arrived, NEW b \in InClient
             PROVE  a < b
  BY DEF Below
<1> DEFINE A == Source!Mail(a)
           B == Source!Mail(b)
<1>1. a \in 1..MaxChanges /\ b \in 1..MaxChanges
  BY NumbersAreSmall
<1>2. A \in Reports /\ B \in Reports /\ A.nth = a /\ B.nth = b
  BY <1>1, ReportNumbers
<1>3. A \in ToSet(cloud) /\ B \in ToSet(Client!InTransit)
  BY <1>1, NumbersOf DEF Arrived, InClient
<1>4. B \in ToSet(wire) \/ B = sending \/ B \in ToSet(pub_pipe)
  BY <1>3, InTransitIs DEF WayInv
<1> HIDE DEF A, B
<1>5. /\ A \in CP!Has(cloud)
      /\ B \in CP!Has(wire) \/ B \in CP!InHand \/ B \in CP!Has(pub_pipe)
  BY <1>2, <1>3, <1>4, SameToSet DEF CP!Has, CP!InHand, CP!Payload
<1>6. <<A, B>> \in CP!Precedes
  BY <1>5, Zenon DEF WayInv, CP!OrderInv, CP!Lined, CP!Across
<1>7. PICK k \in 1..Len(published), l \in 1..Len(published) :
         k < l /\ published[k] = A /\ published[l] = B
  BY <1>6 DEF CP!Precedes
<1> QED
  BY <1>2, <1>7 DEF WayInv, Rising

(* The value of NewestArrived *)
LEMMA Greatest ==
    ASSUME NEW S, S \subseteq Nat, NEW n \in S, \A k \in S : k <= n
    PROVE  n = CHOOSE x \in S : \A k \in S : k <= x
<1>1. \A x \in S : (\A k \in S : k <= x) => x = n
  OBVIOUS
<1> QED
  BY <1>1

LEMMA SameNewest ==
    ASSUME Arrived' = Arrived
    PROVE  NewestArrived' = NewestArrived
BY DEF NewestArrived

(* What becomes of the reports in the client follows from where they are. *)
LEMMA InClientIs ==
    WayInv => InClient = Accepted \ (Arrived \cup LostOnTheWay)
BY InPlaces, Zenon DEF WayInv, Places

(* The report at the head of the wire is the oldest one under way. *)
LEMMA DeliverArrives ==
    ASSUME WayInv, WayInv', Client!Deliver, Head(wire) \in Reports,
           UNCHANGED <<source, report, status>>
    PROVE  Channel!Arrive
<1> DEFINE h == Head(wire)
           n == h.nth
<1>1. /\ wire # <<>> /\ cloud' = Append(cloud, h)
      /\ UNCHANGED <<published, lost, changes, computer_status_mail, status>>
  BY Zenon DEF Client!Deliver, source
<1>2. UNCHANGED <<Accepted, LostOnTheWay, Held, Mailed>>
  BY <1>1 DEF Accepted, LostOnTheWay, Client!LostMessages, Held, Mailed
<1>3. wire \in Seq(CP!Item) /\ cloud \in Seq(CP!Item) /\ h \in CP!Item
  <2>1. wire \in Seq(CP!Item) /\ cloud \in Seq(CP!Item)
    BY DEF WayInv, CP!AccountInv, CP!AccountTypes
  <2> QED
    BY <1>1, <2>1
<1>4. h \in ToSet(wire)
  <2>1. 1 \in 1..Len(wire) /\ h = wire[1]
    BY <1>1, <1>3
  <2> QED
    BY <2>1 DEF ToSet
<1>5. h \in Reports
  OBVIOUS
<1> HIDE DEF h
<1>6. n \in InClient
  <2>1. h \in ToSet(Client!InTransit)
    BY <1>4, InTransitIs DEF WayInv
  <2> QED
    BY <1>5, <2>1, NumbersOf DEF InClient
<1>7. Arrived' = Arrived \cup {n}
  <2>1. CP!ToSet(Append(cloud, h)) = CP!ToSet(cloud) \cup {h}
    BY <1>3, CP!ToSetAppend, Assumptions
  <2>2. ToSet(cloud') = ToSet(cloud) \cup {h}
    BY <1>1, <2>1, SameToSet
  <2>3. Arrived' = Arrived \cup Numbers({h})
    BY <2>2, NumbersAdd, Zenon DEF Arrived
  <2> QED
    BY <1>5, <2>3, NumbersOne
<1> HIDE DEF n
<1>8. /\ InClient = Accepted \ (Arrived \cup LostOnTheWay)
      /\ Below(Arrived, InClient)
  BY InClientIs, ArrivedIsOlder
<1>9. /\ InClient' = Accepted' \ (Arrived' \cup LostOnTheWay')
      /\ Below(Arrived', InClient')
  <2>1. /\ WayInv' => (InClient = Accepted \ (Arrived \cup LostOnTheWay))'
        /\ WayInv' => Below(Arrived, InClient)'
    BY InClientIs, ArrivedIsOlder, PTL
  <2> QED
    BY <2>1 DEF Below
<1>10. InClient' = InClient \ {n}
  BY <1>2, <1>7, <1>8, <1>9
<1>11. n \in Accepted
  BY <1>6, <1>8
<1>12. n \in Nat /\ (\A m \in InClient \ {n} : n < m) /\ \A k \in Arrived : k < n
  <2>1. n \in 1..MaxChanges
    BY <1>6, NumbersAreSmall
  <2>2. n \in Arrived' /\ InClient' = InClient \ {n}
    BY <1>7, <1>10
  <2>3. \A m \in InClient \ {n} : n < m
    BY <1>9, <2>2, Zenon DEF Below
  <2>4. \A k \in Arrived : k < n
    BY <1>6, <1>8, Zenon DEF Below
  <2> QED
    BY <2>1, <2>3, <2>4
<1>13. \A m \in Held \cup Mailed : n < m
  BY <1>11, Zenon DEF WayInv, Spread, Below
<1>14. UnderWay' = UnderWay \ {n}
  <2>1. n \notin Held \cup Mailed
    BY <1>12, <1>13
  <2> QED
    BY <1>2, <1>10, <2>1 DEF UnderWay
<1>15. \A m \in UnderWay : n <= m
  BY <1>12, <1>13, NumbersAreSmall DEF UnderWay
<1>16. NewestArrived' = n
  <2>1. \A k \in Arrived' : k <= n
    BY <1>7, <1>12, NumbersAreSmall
  <2>2. n \in Arrived' /\ Arrived' \subseteq Nat
    BY <1>7, <1>12, NumbersAreSmall
  <2>3. n = CHOOSE x \in Arrived' : \A k \in Arrived' : k <= x
    BY <2>1, <2>2, Greatest
  <2> QED
    BY <2>2, <2>3 DEF NewestArrived
<1>17. n \in UnderWay
  BY <1>6 DEF UnderWay
<1> QED
  BY <1>1, <1>14, <1>15, <1>16, <1>17 DEF Channel!Arrive, UnderWay

(* Where nothing is accepted and nothing arrives, reports can only be lost. *)
LEMMA OthersLose ==
    ASSUME WayInv, WayInv', UNCHANGED <<changes, Accepted, Arrived, Held, Mailed>>,
           LostOnTheWay \subseteq LostOnTheWay'
    PROVE  Channel!Lose
<1>1. InClient = Accepted \ (Arrived \cup LostOnTheWay)
  BY InClientIs
<1>2. InClient' = Accepted' \ (Arrived' \cup LostOnTheWay')
  <2>1. WayInv' => (InClient = Accepted \ (Arrived \cup LostOnTheWay))'
    BY InClientIs, PTL
  <2> QED
    BY <2>1
<1>3. InClient' \subseteq InClient
  BY <1>1, <1>2
<1>4. NewestArrived' = NewestArrived
  BY SameNewest
<1> QED
  BY <1>3, <1>4 DEF Channel!Lose

LEMMA ClientRefines ==
    ASSUME WayInv, WayInv', ClientStep
    PROVE  Channel!Arrive \/ Channel!Lose
<1>1. /\ Client!Start \/ Client!Worker \/ Client!Stop \/ Client!Command
         \/ Client!Network
      /\ UNCHANGED <<source, report, status>>
      /\ UNCHANGED <<changes, computer_status_mail>>
  BY Zenon DEF ClientStep, source
<1>2. Accepted' = Accepted
  BY ClientMoves DEF WayInv
<1>3. UNCHANGED <<Held, Mailed>>
  BY <1>1 DEF Held, Mailed
<1>4. CASE ~Client!Deliver
  <2>1. cloud' = cloud /\ (lost' = lost \/ \E s, why : Client!Lose(s, why))
    BY <1>1, <1>4, Zenon
    DEF Client!Start, Client!Worker, Client!Stop, Client!Command,
        Client!Network, Client!Resume, Client!Connect, Client!ConnAck,
        Client!SubAck, Client!OnlineCallback, Client!Greet, Client!NoGreeting,
        Client!Cycle, Client!PubAck, Client!Ping, Client!NoPingResp,
        Client!ReadPipe, Client!SendDone, Client!Disconnected, Client!Exit,
        Client!Cut, Client!Heal
  <2>2. lost \subseteq lost'
    BY <2>1, Zenon DEF Client!Lose
  <2>3. LostOnTheWay \subseteq LostOnTheWay'
    BY <2>2 DEF LostOnTheWay, Client!LostMessages, Numbers
  <2>4. Arrived' = Arrived
    BY <2>1 DEF Arrived
  <2> QED
    BY <1>1, <1>2, <1>3, <2>3, <2>4, OthersLose
<1>5. CASE Client!Deliver /\ Head(wire) \in Reports
  BY <1>1, <1>5, DeliverArrives
<1>6. CASE Client!Deliver /\ Head(wire) \notin Reports
  <2>1. wire # <<>> /\ cloud' = Append(cloud, Head(wire)) /\ lost' = lost
    BY <1>6, Zenon DEF Client!Deliver
  <2>2. /\ cloud \in Seq(CP!Item) /\ wire \in Seq(CP!Item)
        /\ Head(wire) \in CP!Item
    <3>1. cloud \in Seq(CP!Item) /\ wire \in Seq(CP!Item)
      BY DEF WayInv, CP!AccountInv, CP!AccountTypes
    <3> QED
      BY <2>1, <3>1
  <2>3. CP!ToSet(Append(cloud, Head(wire))) = CP!ToSet(cloud) \cup {Head(wire)}
    BY <2>2, CP!ToSetAppend, Assumptions
  <2>4. ToSet(cloud') = ToSet(cloud) \cup {Head(wire)}
    BY <2>1, <2>3, SameToSet
  <2>5. Arrived' = Arrived \cup Numbers({Head(wire)})
    BY <2>4, NumbersAdd, Zenon DEF Arrived
  <2>6. Arrived' = Arrived
    BY <1>6, <2>5, NumbersOne
  <2>7. LostOnTheWay' = LostOnTheWay
    BY <2>1 DEF LostOnTheWay, Client!LostMessages
  <2> QED
    BY <1>1, <1>2, <1>3, <2>6, <2>7, OthersLose
<1> QED
  BY <1>4, <1>5, <1>6

LEMMA ChangeRefines ==
    ASSUME WayInv, Change
    PROVE  Channel!Enter
<1>1. /\ changes < MaxChanges /\ Source!Change /\ UNCHANGED <<report, status, client>>
  BY DEF Change
<1>2. Arrived' = Arrived /\ InClient' = InClient
  BY <1>1, ClientStays
<1>3. Held' = Held
  BY <1>1 DEF Held
<1>4. Mailed \subseteq 1..changes
  BY DEF WayInv, Spread
<1>5. /\ changes' = changes + 1
      /\ Mailed' = Mailed \cup {changes + 1} \/ Mailed' = Mailed
  BY <1>1, <1>4, ChangeStep DEF WayInv
<1>6. UnderWay' \in {UnderWay, UnderWay \cup {changes + 1}}
  BY <1>2, <1>3, <1>5 DEF UnderWay
<1> QED
  BY <1>2, <1>5, <1>6, SameNewest DEF Channel!Enter, UnderWay

(* Steps that move a report nearer to the cloud without arriving there *)
LEMMA WrittenStays ==
    ASSUME WayInv, Written
    PROVE  UNCHANGED <<changes, UnderWay, Arrived>>
<1>1. /\ WayInv' /\ UNCHANGED <<changes, computer_status_mail, cloud, lost>>
      /\ \/ Accepted' = Accepted \cup Held /\ Held' = {}
         \/ Accepted' = Accepted /\ Held' = Held
  BY WrittenWay DEF source
<1>2. UNCHANGED <<Arrived, Mailed, LostOnTheWay>>
  BY <1>1 DEF Arrived, Mailed, LostOnTheWay, Client!LostMessages
<1>3. InClient = Accepted \ (Arrived \cup LostOnTheWay)
      /\ Accepted = UNION {Arrived, InClient, LostOnTheWay}
  BY InClientIs, InPlaces DEF WayInv, Places
<1>4. InClient' = Accepted' \ (Arrived' \cup LostOnTheWay')
  <2>1. WayInv' => (InClient = Accepted \ (Arrived \cup LostOnTheWay))'
    BY InClientIs, PTL
  <2> QED
    BY <1>1, <2>1
<1>5. Held \cap Accepted = {}
  <2>1. \A n \in Accepted, m \in Held : n < m
    BY DEF WayInv, Spread, Below
  <2> QED
    BY <2>1, NumbersAreSmall
<1> QED
  BY <1>1, <1>2, <1>3, <1>4, <1>5 DEF UnderWay

(* The cloud hears the changes in the order in which they were seen, each  *)
(* at most once, over all reconnections (paho_mqtt_pipe.c:1130, 1145-1158, *)
(* mqtt.c:273-288).                                                        *)
THEOREM ChangesArriveInOrder == Spec => ImplementsLossyChannel
<1>1. Init => WayInv /\ Channel!Init
  <2> SUFFICES ASSUME Init PROVE Channel!Init
    BY InitWay
  <2>1. /\ changes = 0 /\ cloud = <<>> /\ computer_status_mail = <<>>
        /\ wire = <<>> /\ pub_pipe = <<>> /\ sending = Nothing /\ status = Nothing
    BY Zenon DEF Init, Source!Init, Client!Init
  <2>2. ToSet(Client!InTransit) = {Nothing}
    <3>1. ToSet(Client!InTransit) = UNION {ToSet(wire), {sending}, ToSet(pub_pipe)}
      BY InitWay, InTransitIs DEF WayInv
    <3> QED
      BY <2>1, <3>1 DEF ToSet
  <2>3. Arrived = {} /\ InClient = {} /\ Held = {} /\ Mailed = {}
    <3>1. ToSet(cloud) = {} /\ ToSet(computer_status_mail) = {}
      BY <2>1 DEF ToSet
    <3> QED
      BY <2>1, <2>2, <3>1, NumbersOne, Assumptions
      DEF Arrived, InClient, Held, Mailed
  <2> QED
    BY <2>1, <2>3 DEF Channel!Init, NewestArrived
<1>2. ASSUME WayInv, [Next]_vars
      PROVE  [Channel!Next]_<<changes, UnderWay, NewestArrived>>
  <2>1. WayInv'
    BY <1>2, NextWay
  <2>2. ASSUME UNCHANGED <<changes, Held, Mailed, Arrived, InClient>>
        PROVE  UNCHANGED <<changes, UnderWay, NewestArrived>>
    BY <2>2, SameNewest DEF UnderWay
  <2>3. CASE UNCHANGED vars
    <3>1. UNCHANGED <<changes, computer_status_mail, status, client>>
      BY <2>3 DEF vars, source
    <3> QED
      BY <1>2, <2>2, <3>1, ClientStays DEF Held, Mailed
  <2>4. CASE Boot \/ CheckOnline \/ Wake
    <3>1. UNCHANGED <<changes, computer_status_mail, status, client>>
      BY <1>2, <2>4, ThreadWay DEF source
    <3> QED
      BY <1>2, <2>2, <3>1, ClientStays DEF Held, Mailed
  <2>5. CASE Change
    BY <1>2, <2>5, ChangeRefines DEF Channel!Next
  <2>6. CASE Receive
    <3>1. UNCHANGED <<changes, client>> /\ Held' \cup Mailed' = Held \cup Mailed
      BY <1>2, <2>6, ReceiveWay DEF Receive, Source!Take
    <3>2. UNCHANGED <<Arrived, InClient>>
      BY <1>2, <3>1, ClientStays
    <3> QED
      BY <3>1, <3>2, SameNewest DEF UnderWay
  <2>7. CASE Publish
    <3>1. UNCHANGED <<changes, computer_status_mail, status, cloud, wire,
                      sending, pub_pipe>>
      BY <1>2, <2>7, PublishWay DEF source
    <3> QED
      BY <2>2, <3>1 DEF Held, Mailed, Arrived, InClient, Client!InTransit
  <2>8. CASE Written
    BY <1>2, <2>8, WrittenStays, SameNewest
  <2>9. CASE ClientStep
    BY <1>2, <2>1, <2>9, ClientRefines DEF Channel!Next
  <2> QED
    BY <1>2, <2>3, <2>4, <2>5, <2>6, <2>7, <2>8, <2>9 DEF Next, Report
<1> QED
  BY <1>1, <1>2, WayIsKept, PTL
  DEF Spec, ImplementsLossyChannel, Channel!Spec, UnderWay
=============================================================================
