----------------------------- MODULE KeepAlive ------------------------------
(***************************************************************************)
(* The timeouts of the working loop of paho_mqtt_thread (packages/         *)
(* pahomqtt-v1.1.0/MQTTClient-RT/paho_mqtt_pipe.c, lines 1054-1120), in    *)
(* seconds.  MqttClient, which has no time, lets a ping happen always.     *)
(*                                                                         *)
(* Before each wait the loop computes how long to wait for the socket or   *)
(* the pipe from the time since tick_ping, the last answer to a ping.  A   *)
(* negative result is what select takes for "no limit".                    *)
(*                                                                         *)
(* Packets may arrive in any second.  The connection can fall silent:      *)
(* nothing arrives and nobody says so.  Then TCP gives up some time after  *)
(* the client has sent something.  Before that the answer to a ping takes  *)
(* up to Delay seconds, which the broker's patience leaves room for.       *)
(***************************************************************************)
EXTENDS Integers

CONSTANTS Keep,   \* keepAliveInterval, 30 in mqtt_start
          Delay   \* the seconds in which a broker within reach answers

ASSUME KeepAssumption == Keep \in Nat /\ Keep > 10
ASSUME DelayAssumption == Delay \in Nat /\ Delay < 10 + Keep \div 2

VARIABLES worker,   \* the select in which it waits, or "left"
          wait,     \* seconds until that select times out, or Forever
          elapsed,  \* seconds since tick_ping, up to Cap
          idle,     \* seconds since the broker heard of the client, likewise
          owed,     \* seconds the broker has owed an answer to a ping, or None
          link,     \* "up" or "silent"
          unacked   \* something was sent into the silent connection

timing == <<worker, wait, elapsed, idle, owed, link, unacked>>

Forever == -1
None == -1
Patience == Keep + Keep \div 2  \* of the broker, with a silent client
Cap == 2 * Keep                 \* bound of the clocks: all later is the same

Connected == worker \in {"select", "pingresp"}

KeepAliveInit == /\ worker = "select" /\ wait = Keep - 10
                 /\ elapsed = 0 /\ idle = 0
                 /\ owed = None /\ link = "up" /\ unacked = FALSE

(* Lines 1063-1071, and select for negative times *)
TimeoutLate(e) ==      \* mutant: ten seconds too many, not too few
    IF e > Keep - 5 THEN 1 ELSE IF e > Keep + 10 THEN Forever ELSE Keep + 10 - e
TimeoutNone(e) ==      \* mutant: zero, too, is no limit
    IF e > Keep - 5 THEN 1 ELSE IF e > Keep - 11 THEN Forever ELSE Keep - 10 - e
TimeoutAfter(e) ==
    IF e > Keep - 5 THEN 1 ELSE IF e > Keep - 10 THEN Forever ELSE Keep - 10 - e

(* The next turn of the loop *)
Select == worker' = "select" /\ wait' = TimeoutAfter(elapsed')

(* A packet of the client: the broker hears it, or TCP repeats it. *)
Sent == /\ idle' = IF link = "up" THEN 0 ELSE idle
        /\ unacked' = (unacked \/ link = "silent")

-----------------------------------------------------------------------------
(* The worker *)

Ping == /\ worker = "select" /\ wait = 0
        /\ worker' = "pingresp" /\ wait' = 5
        /\ Sent
        /\ owed' = IF owed = None /\ link = "up" THEN 0 ELSE owed
        /\ UNCHANGED <<elapsed, link>>

NoPingResp == /\ worker = "pingresp" /\ wait = 0
              /\ worker' = "left"
              /\ UNCHANGED <<wait, elapsed, idle, owed, link, unacked>>

(* MQTT_cycle: the answer to the oldest ping, and to others sent in its    *)
(* second.  A ping sent later, at the last packet at the earliest, may     *)
(* still be without one.                                                   *)
PingResp == /\ Connected /\ link = "up" /\ owed # None
            /\ owed' \in {None} \cup (idle .. owed - 1)
            /\ elapsed' = 0
            /\ Select
            /\ UNCHANGED <<idle, link, unacked>>

(* Any other packet, which may have to be acknowledged.  It ends the wait  *)
(* for the answer to a ping, too.                                          *)
Packet == /\ Connected /\ link = "up"
          /\ idle' \in {idle, 0}
          /\ UNCHANGED <<elapsed, owed, link, unacked>>
          /\ Select

(* A message in the pipe, at which the worker looks in the first select *)
Publish == /\ worker = "select"
           /\ Sent
           /\ UNCHANGED <<elapsed, owed, link>>
           /\ Select

Reconnect == /\ worker = "left"
             /\ worker' = "select" /\ wait' = Keep - 10
             /\ elapsed' = 0 /\ idle' = 0
             /\ owed' = None /\ link' = "up" /\ unacked' = FALSE

-----------------------------------------------------------------------------
(* Time, the network and the broker *)

Later(t) == IF t < Cap THEN t + 1 ELSE Cap

(* A broker within reach answers before Delay is over, and closes the      *)
(* connection when its patience is.                                        *)
Tick == /\ Connected /\ wait # 0
        /\ link = "up" => owed # Delay /\ idle # Patience
        /\ wait' = IF wait = Forever THEN Forever ELSE wait - 1
        /\ elapsed' = Later(elapsed) /\ idle' = Later(idle)
        /\ owed' = IF owed = None \/ link = "silent" THEN owed ELSE owed + 1
        /\ UNCHANGED <<worker, link, unacked>>

Silence == /\ Connected /\ link = "up"
           /\ link' = "silent"
           /\ UNCHANGED <<worker, wait, elapsed, idle, owed, unacked>>

GiveUp == \/ Connected /\ link = "silent" /\ unacked   \* TCP
          \/ Connected /\ link = "up" /\ idle = Patience  \* the broker
Closed == /\ GiveUp
          /\ worker' = "left"
          /\ UNCHANGED <<wait, elapsed, idle, owed, link, unacked>>

KeepAliveNext ==
    \/ Ping \/ NoPingResp \/ PingResp \/ Packet \/ Publish \/ Reconnect
    \/ Tick \/ Silence \/ Closed

KeepAliveSpec == KeepAliveInit /\ [][KeepAliveNext]_timing

(* Time passes, timeouts happen, and TCP does not try for ever. *)
FairKeepAlive ==
    /\ KeepAliveSpec
    /\ WF_timing(Tick) /\ WF_timing(Ping) /\ WF_timing(NoPingResp)
    /\ WF_timing(Closed) /\ WF_timing(Reconnect)

-----------------------------------------------------------------------------
(* Every variable has its type. *)
TypeOK == /\ worker \in {"select", "pingresp", "left"}
          /\ wait \in Int
          /\ worker = "pingresp" => wait \in 0..5
          /\ worker = "select" => wait \in {Forever} \cup (0..Keep)
          /\ elapsed \in 0..Cap /\ idle \in 0..Cap
          /\ owed \in {None} \cup (0..Delay) /\ unacked \in BOOLEAN
          /\ link \in {"up", "silent"}

(* The broker hears of the client before its patience ends, one and a half *)
(* times the interval it was promised: whenever packets arrive, also when  *)
(* one of them makes the timeout negative, it never closes a connection    *)
(* that works (paho_mqtt_pipe.c:1063-1070).                                *)
BrokerContent == Connected /\ link = "up" => idle < Patience

(* A packet arrived 21 to 25 seconds after tick_ping, instead of the       *)
(* answer to a ping.  Now the wait has no limit, and nothing was sent that *)
(* TCP would give up for.                                                  *)
Unlimited == worker = "select" /\ wait = Forever /\ owed # None /\ ~unacked

(* A connection that has fallen silent is left, so that the client can     *)
(* connect again (paho_mqtt_pipe.c:1078-1104, docs/introduction.md:32-34), *)
(* unless the worker waits without limit beside an unanswered ping for     *)
(* ever (line 1070).                                                       *)
NoticesSilence == \/ (link = "silent") ~> (worker = "left")
                  \/ <>[]Unlimited
=============================================================================
