---------------------------- MODULE StatusReport ----------------------------
(***************************************************************************)
(* The way of a status change to the cloud: the check thread mails it      *)
(* (StatusSource), the report thread (status_report_thread,                *)
(* applications/mqtt.c) takes it and tries once a second to publish it     *)
(* while the client is online, the MQTT worker (MqttClient) takes it out   *)
(* of the pipe and sends it.                                               *)
(*                                                                         *)
(* computer_status_mail and the two threads exist only after system_boot   *)
(* has seen is_online set once.  The worker is the most urgent of the      *)
(* threads: the others run while it waits (Calm).                          *)
(***************************************************************************)
EXTENDS Integers, SequencesExt

CONSTANTS MailSize, PipeCap,
          Page0, Disconnect, Garbage, Nothing,  \* see MqttClient
          MaxFaults, MaxStops,
          MaxChanges  \* bound: how many changes of the status are seen

ASSUME MailSizeAssumption == MailSize \in Nat \ {0}
ASSUME MaxChangesAssumption == MaxChanges \in Nat
ASSUME ClientAssumption == /\ PipeCap \in Nat \ {0}
                           /\ MaxFaults \in Nat /\ MaxStops \in Nat

VARIABLES changes, computer_status_mail, dropped,  \* see StatusSource
          report,   \* where status_report_thread stands
          status,   \* its local: the mail it has to publish
          worker, isconnected, is_online, is_started, is_first_time_online,
          pub_pipe, sending, writing, wire, cloud, published, lost,
          stopping, reachable, faults, stops       \* see MqttClient

Source == INSTANCE StatusSource
Reports == {Source!Mail(n) : n \in 1..MaxChanges}
Client == INSTANCE MqttClient WITH Messages <- Reports

ASSUME DistinctAssumption ==
    /\ Page0 \notin Reports
    /\ {Disconnect, Garbage, Nothing} \cap (Reports \cup {Page0}) = {}
    /\ Disconnect # Garbage /\ Disconnect # Nothing /\ Garbage # Nothing

source == <<changes, computer_status_mail, dropped>>
client == <<worker, isconnected, is_online, is_started, is_first_time_online,
            pub_pipe, sending, writing, wire, cloud, published, lost,
            stopping, reachable, faults, stops>>
vars == <<source, report, status, client>>

Init == Source!Init /\ Client!Init /\ report = "none" /\ status = Nothing

(* system_boot, lines 103-119: the mailbox and the threads are created *)
Boot == /\ report = "none" /\ is_online
        /\ report' = "recv"
        /\ UNCHANGED <<source, status, client>>

(* The check thread saw a change. *)
Change == /\ report # "none" /\ Client!Calm
          /\ changes < MaxChanges
          /\ Source!Change
          /\ UNCHANGED <<report, status, client>>

Receive == /\ report = "recv" /\ Client!Calm
           /\ Source!Take
           /\ status' = Head(computer_status_mail)
           /\ report' = "check"
           /\ UNCHANGED client

(* Lines 276-281.  While is_started is 0 the thread spins. *)
CheckOnline == /\ report = "check" /\ Client!Calm
               /\ is_started
               /\ report' = IF is_online THEN "publish" ELSE "sleep"
               /\ UNCHANGED <<source, status, client>>

(* paho_mqtt_publish *)
Publish == /\ report = "publish" /\ Client!Calm
           /\ \/ Client!Enter(status) /\ report' = "write"
              \/ ~isconnected /\ report' = "sleep" /\ UNCHANGED client
           /\ UNCHANGED <<source, status>>
Written == /\ report = "write"
           /\ \/ Client!Write(status) /\ report' = "recv" /\ status' = Nothing
              \/ Client!WriteFails(status) /\ report' = "sleep" /\ UNCHANGED status
           /\ UNCHANGED source

WakeNever ==     \* mutant: gives up after one attempt
    /\ report = "sleep"
    /\ report' = "recv" /\ status' = Nothing
    /\ UNCHANGED <<source, client>>
Wake == /\ report = "sleep" /\ Client!Calm
        /\ report' = "check"
        /\ UNCHANGED <<source, status, client>>

Report == Receive \/ CheckOnline \/ Publish \/ Written \/ Wake

ClientStep == /\ Client!Start \/ Client!Worker \/ Client!Stop
                 \/ Client!Command \/ Client!Network
              /\ UNCHANGED <<source, report, status>>

Next == Boot \/ Change \/ Report \/ ClientStep

Spec == Init /\ [][Next]_vars

(* See MqttClient.  The report thread gets to run between the steps of the *)
(* worker: it waits a second at a time, the worker does not keep it from   *)
(* running for ever.                                                       *)
FairSpec ==
    /\ Spec
    /\ WF_vars(Boot) /\ SF_vars(Receive) /\ SF_vars(CheckOnline)
    /\ SF_vars(Publish) /\ SF_vars(Written) /\ SF_vars(Wake)
    /\ WF_vars(Client!Start /\ UNCHANGED <<source, report, status>>)
    /\ WF_vars(Client!Worker /\ UNCHANGED <<source, report, status>>)
    /\ SF_vars(Client!ReadPipe /\ UNCHANGED <<source, report, status>>)
    /\ WF_vars(Client!Heal /\ UNCHANGED <<source, report, status>>)
    /\ WF_vars(Client!Deliver /\ UNCHANGED <<source, report, status>>)

-----------------------------------------------------------------------------
(* The numbers of the changes in a sequence or a set of messages *)
Numbers(S) == {m.nth : m \in S \cap Reports}
Arrived == Numbers(ToSet(cloud))
Mailed == Numbers(ToSet(computer_status_mail))
Held == Numbers({status})
InClient == Numbers(ToSet(Client!InTransit))
LostOnTheWay == Numbers(Client!LostMessages)

(* No change disappears without a reason, and none is doubled: each is in  *)
(* one place on its way, or dropped at the full mailbox, or lost by the    *)
(* client (mqtt.c:273-288, boot_check.c:182-184).                          *)
OnlyOnce == /\ Arrived \cap InClient = {}
            /\ Held \cap (Arrived \cup InClient \cup LostOnTheWay) = {}
            /\ Mailed \cap UNION {Arrived, InClient, Held, LostOnTheWay} = {}
            /\ dropped \cap UNION {Arrived, InClient, Held, Mailed,
                                   LostOnTheWay} = {}
Conserved == /\ 1..changes = UNION {Arrived, InClient, Held, Mailed, dropped,
                                    LostOnTheWay}
             /\ OnlyOnce

(* The cloud hears the changes in the order in which they were seen, each  *)
(* at most once, whatever happens to connections (LossyChannel).           *)
NewestArrived == IF Arrived = {} THEN 0
                 ELSE CHOOSE n \in Arrived : \A k \in Arrived : k <= n
Channel == INSTANCE LossyChannel WITH
    seen <- changes,
    under_way <- InClient \cup Held \cup Mailed,
    newest <- NewestArrived
ImplementsLossyChannel == Channel!Spec

(* No change stays on the way for ever, unless somebody stops the client,  *)
(* when outages end: the report thread keeps on trying (mqtt.c:274-288).   *)
NothingStuck ==
    \A n \in 1..MaxChanges :
       n <= changes ~> \/ n \in UNION {Arrived, dropped, LostOnTheWay}
                       \/ stops > 0

(* When changes and faults cease, the cloud knows the present status: the  *)
(* result is reported when it changes (README.md:15).                      *)
LastStatus == Source!StatusOf(NewestArrived)
CloudLearns == <>[](changes > 0 => /\ Arrived # {}
                                   /\ LastStatus = Source!StatusOf(changes))
=============================================================================
