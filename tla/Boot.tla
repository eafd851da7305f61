-------------------------------- MODULE Boot --------------------------------
(***************************************************************************)
(* system_boot (applications/system_boot.c:63), the objects and threads it *)
(* creates, and what meets it while it runs: commands from the cloud       *)
(* (mqtt.c:40) and the Wake-on-LAN thread (wol.c:9).                       *)
(*                                                                         *)
(* The main thread runs system_boot once after the reset.  The shell runs  *)
(* it as a command, at any time: on a system that runs already it creates  *)
(* a second semaphore, mailbox and set of threads.                         *)
(*                                                                         *)
(* rt_sem_release and rt_mb_send halt the program on a null pointer        *)
(* (RT_ASSERT, ipc.c:439 and ipc.c:1456); `halted' stands for it.          *)
(*                                                                         *)
(* External: the Wi-Fi, the clock's server and the broker.  The card is    *)
(* module Card's and the file module Settings'; here each look finds them  *)
(* in any state.  What the screen shows is module Ui's.                    *)
(***************************************************************************)
EXTENDS Integers

CONSTANTS Runs,        \* the two runs of system_boot
          Tries,       \* 100 looks at sd_status and is_online, 10 at the Wi-Fi
          MaxCommands, \* bound: commands of the cloud
          MaxDrops     \* bound: how often the broker is lost

ASSUME BootAssumption == /\ Runs = {"main", "shell"} /\ Tries \in Nat \ {0}
                         /\ {MaxCommands, MaxDrops} \subseteq Nat

VARIABLES at,          \* where each run of system_boot is
          index,       \* its counter of tries
          is_started, is_online,
          computer_on_sem,  \* the run that created the semaphore in use, or NULL
          sems,        \* the count of each semaphore
          has_page_mail,    \* page_mail is not NULL
          wol,         \* where each Wake-on-LAN thread is
          wol_sem,     \* the semaphore it waits on
          halted,
          turn_ons, packets, unread,  \* commands, sent, lost by an unreadable card
          commands, drops             \* bounds

boot == <<at, index>>
broker == <<is_started, is_online, commands, drops>>
wakeup == <<computer_on_sem, sems, wol, wol_sem, turn_ons, packets, unread>>
vars == <<boot, broker, wakeup, has_page_mail, halted>>

NULL == "NULL"
Ended == {"done", "failed"}
Places == {"idle", "card", "config", "wifi_ready", "wifi", "ntp", "mqtt", "online",
           "sem", "page_mail", "threads"} \cup Ended

TypeOK ==
    /\ at \in [Runs -> Places] /\ index \in [Runs -> 0 .. Tries]
    /\ is_started \in BOOLEAN /\ is_online \in BOOLEAN
    /\ computer_on_sem \in Runs \cup {NULL} /\ sems \in [Runs -> Nat]
    /\ has_page_mail \in BOOLEAN
    /\ wol \in [Runs -> {"none", "loop", "wait", "send"}]
    /\ wol_sem \in [Runs -> Runs \cup {NULL}]
    /\ halted \in BOOLEAN
    /\ {turn_ons, packets, unread} \subseteq Nat
    /\ commands \in 0 .. MaxCommands /\ drops \in 0 .. MaxDrops

Init ==
    /\ at = [r \in Runs |-> IF r = "main" THEN "card" ELSE "idle"]
    /\ index = [r \in Runs |-> 0]
    /\ is_started = FALSE /\ is_online = FALSE
    /\ computer_on_sem = NULL /\ sems = [r \in Runs |-> 0]
    /\ has_page_mail = FALSE
    /\ wol = [r \in Runs |-> "none"] /\ wol_sem = [r \in Runs |-> NULL]
    /\ halted = FALSE
    /\ turn_ons = 0 /\ packets = 0 /\ unread = 0
    /\ commands = 0 /\ drops = 0

-----------------------------------------------------------------------------
(* system_boot, step by step *)

Move(r, here, there) == /\ at[r] = here
                        /\ at' = [at EXCEPT ![r] = there]
                        /\ index' = [index EXCEPT ![r] = 0]
(* One more of the tries: the last one ends the run *)
TryAgain(r, here) == /\ at[r] = here
                     /\ index' = [index EXCEPT ![r] = @ + 1]
                     /\ at' = [at EXCEPT ![r] = IF index'[r] = Tries THEN "failed"
                                                                    ELSE here]
BootOnly == UNCHANGED <<broker, wakeup, has_page_mail, halted>>

(* The command of the shell, given again when it has failed *)
Call == (Move("shell", "idle", "card") \/ Move("shell", "failed", "card")) /\ BootOnly

Card(r) == (Move(r, "card", "config") \/ TryAgain(r, "card")) /\ BootOnly
Config(r) == /\ \/ Move(r, "config", "wifi_ready")
                \/ Move(r, "config", "failed")
             /\ BootOnly
(* wifi_connect: the first loop has no bound, it ends when the device is there *)
WifiReady(r) == Move(r, "wifi_ready", "wifi") /\ BootOnly
Wifi(r) == (Move(r, "wifi", "ntp") \/ TryAgain(r, "wifi")) /\ BootOnly
(* Nor has the loop that asks for the time *)
Ntp(r) == Move(r, "ntp", "mqtt") /\ BootOnly

(* mqtt_start, whose refusal to start twice is ignored *)
MqttStart(r) == /\ Move(r, "mqtt", "online")
                /\ is_started' = TRUE
                /\ UNCHANGED <<is_online, commands, drops, wakeup, has_page_mail,
                               halted>>
OnlineForgets(r) ==  \* mutant: goes on after the last try
    /\ IF is_online THEN Move(r, "online", "sem")
       ELSE /\ at[r] = "online" /\ index' = [index EXCEPT ![r] = (@ + 1) % Tries]
            /\ UNCHANGED at
    /\ BootOnly
Online(r) == /\ IF is_online THEN Move(r, "online", "sem")
                             ELSE TryAgain(r, "online")
             /\ BootOnly

(* common_param_init: the pointers of an earlier run are overwritten *)
CreateSemAfresh(r) ==  \* mutant: all the pointers are cleared first
    /\ Move(r, "sem", "page_mail")
    /\ computer_on_sem' = r /\ has_page_mail' = FALSE
    /\ UNCHANGED <<broker, sems, wol, wol_sem, turn_ons, packets, unread, halted>>
CreateSem(r) == /\ Move(r, "sem", "page_mail")
                /\ computer_on_sem' = r
                /\ UNCHANGED <<broker, sems, wol, wol_sem, turn_ons, packets, unread,
                               has_page_mail, halted>>
CreatePageMail(r) == /\ Move(r, "page_mail", "threads")
                     /\ has_page_mail' = TRUE
                     /\ UNCHANGED <<broker, wakeup, halted>>
CreateThreads(r) == /\ Move(r, "threads", "done")
                    /\ wol' = [wol EXCEPT ![r] = "loop"]
                    /\ UNCHANGED <<broker, computer_on_sem, sems, wol_sem, turn_ons,
                                   packets, unread, has_page_mail, halted>>

-----------------------------------------------------------------------------
(* The worker and the commands it hands over *)

GoOnline == /\ is_started /\ ~is_online
            /\ is_online' = TRUE
            /\ UNCHANGED <<boot, is_started, commands, drops, wakeup, has_page_mail,
                           halted>>
GoOffline == /\ is_online /\ drops < MaxDrops
             /\ is_online' = FALSE /\ drops' = drops + 1
             /\ UNCHANGED <<boot, is_started, commands, wakeup, has_page_mail, halted>>

Commanded == /\ is_online /\ commands < MaxCommands
             /\ commands' = commands + 1
             /\ UNCHANGED <<boot, is_started, is_online, drops, computer_on_sem, wol,
                            wol_sem, packets, unread, has_page_mail>>
TurnOnBinary ==  \* mutant: the semaphore holds one release at most
    /\ Commanded
    /\ IF computer_on_sem = NULL
       THEN halted' = TRUE /\ UNCHANGED <<sems, turn_ons>>
       ELSE /\ sems' = [sems EXCEPT ![computer_on_sem] = 1]
            /\ turn_ons' = turn_ons + 1 /\ UNCHANGED halted
TurnOn == /\ Commanded
          /\ IF computer_on_sem = NULL
             THEN halted' = TRUE /\ UNCHANGED <<sems, turn_ons>>
             ELSE /\ sems' = [sems EXCEPT ![computer_on_sem] = @ + 1]
                  /\ turn_ons' = turn_ons + 1 /\ UNCHANGED halted
ShowPage == /\ Commanded
            /\ halted' = ~has_page_mail
            /\ UNCHANGED <<sems, turn_ons>>

-----------------------------------------------------------------------------
(* wol_thread *)

WolOnly == UNCHANGED <<boot, broker, computer_on_sem, turn_ons, has_page_mail, halted>>
(* The pointer is read when the wait begins *)
WolTake(r) == /\ wol[r] = "loop"
              /\ wol' = [wol EXCEPT ![r] = "wait"]
              /\ wol_sem' = [wol_sem EXCEPT ![r] = computer_on_sem]
              /\ WolOnly /\ UNCHANGED <<sems, packets, unread>>
WolWoken(r) == /\ wol[r] = "wait" /\ sems[wol_sem[r]] > 0
               /\ sems' = [sems EXCEPT ![wol_sem[r]] = @ - 1]
               /\ wol' = [wol EXCEPT ![r] = "send"]
               /\ WolOnly /\ UNCHANGED <<wol_sem, packets, unread>>
Sent == /\ packets' = packets + 1
        /\ UNCHANGED unread
Unread == /\ unread' = unread + 1
          /\ UNCHANGED packets
WolSendGivesUp(r) ==  \* mutant: return in the place of continue
    /\ wol[r] = "send"
    /\ \/ Sent /\ wol' = [wol EXCEPT ![r] = "loop"]
       \/ Unread /\ wol' = [wol EXCEPT ![r] = "none"]
    /\ WolOnly /\ UNCHANGED <<sems, wol_sem>>
(* Without the file the command is dropped *)
WolSend(r) == /\ wol[r] = "send"
              /\ wol' = [wol EXCEPT ![r] = "loop"]
              /\ Sent \/ Unread
              /\ WolOnly /\ UNCHANGED <<sems, wol_sem>>

-----------------------------------------------------------------------------
Run(r) == \/ Card(r) \/ Config(r) \/ Wifi(r) \/ MqttStart(r) \/ Online(r)
          \/ CreateSem(r) \/ CreatePageMail(r) \/ CreateThreads(r)
Outside(r) == WifiReady(r) \/ Ntp(r)
Wol(r) == WolTake(r) \/ WolWoken(r) \/ WolSend(r)
Cloud == GoOnline \/ GoOffline \/ TurnOn \/ ShowPage

Next == /\ ~halted
        /\ (\E r \in Runs : Run(r) \/ Outside(r) \/ Wol(r)) \/ Call \/ Cloud

(* Threads that can run do.  The Wi-Fi, the server, the broker and the     *)
(* user owe nothing.                                                       *)
Fairness == \A r \in Runs : WF_vars(~halted /\ Run(r)) /\ WF_vars(~halted /\ Wol(r))

Spec == Init /\ [][Next]_vars /\ Fairness

-----------------------------------------------------------------------------
(* A command halts the program only as long as no run of system_boot has   *)
(* created what the commands need (mqtt.c:71 and 79 against                *)
(* system_boot.c:117): a second run, which replaces the objects, must not  *)
(* bring the danger back.                                                  *)
HaltsEarlyOnly ==
    halted => \A r \in Runs : at[r] \notin {"threads", "done"}

(* Every command to turn the computer on is one packet, one unreadable     *)
(* card, or still waiting, on a semaphore in use or abandoned by a second  *)
(* system_boot (wol.c:22).                                                 *)
Pending(r) == sems[r] + (IF wol[r] = "send" THEN 1 ELSE 0)
OnePacketEach == turn_ons = packets + unread + Pending("main") + Pending("shell")

(* The semaphore in use is served: two runs of system_boot never leave it  *)
(* to a thread that has ended or that waits on the other one.              *)
CommandServed ==
    \A r \in Runs : (computer_on_sem = r /\ sems[r] > 0)
                    ~> (halted \/ sems[r] = 0 \/ computer_on_sem # r)

(* A run of system_boot ends, or waits for the Wi-Fi device or for the     *)
(* time for ever (system_boot.c:27 and 98, the loops without a bound).     *)
RunEnds ==
    \A r \in Runs : at[r] # "idle"
                    ~> (halted \/ at[r] \in Ended \cup {"wifi_ready", "ntp"})

(* The assertions of the kernel hold: no command finds a null pointer      *)
(* (rt-thread/src/ipc.c:439).                                              *)
NeverHalts == ~halted
=============================================================================
