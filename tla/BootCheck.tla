----------------------------- MODULE BootCheck ------------------------------
(***************************************************************************)
(* The boot_check thread (applications/boot_check.c): it looks for the     *)
(* address of the computer by pinging the whole subnet and reading the ARP *)
(* table, then pings the address it found once a second, and mails every   *)
(* change of the status it concludes.                                      *)
(*                                                                         *)
(* ping_and_find_ip is also a shell command.  The thread and the shell     *)
(* share computer_ip_addr, which every probe of either assigns (line 89)   *)
(* and which is tested in a second read (line 91).                         *)
(*                                                                         *)
(* A step ends where the thread waits, or where the shell, more urgent,    *)
(* can come in between.  Delays are not modelled, nor is a missing         *)
(* netif_default: system_boot starts the thread after Wi-Fi is connected.  *)
(***************************************************************************)
EXTENDS Integers, Sequences

CONSTANTS Subnet,       \* addresses 1..Subnet are scanned, 0 is "no address"
          Leases,       \* addresses the computer may get from DHCP
          MailSize,     \* see StatusSource
          MaxSwitches,  \* bound: how often the computer is switched on or off
          MaxMishaps,   \* bound: answers lost, or heard from the wrong host
          ShellScans    \* bound: how often the shell runs ping_and_find_ip

ASSUME SubnetAssumption == Subnet \in Nat \ {0}
ASSUME LeasesAssumption == Leases \subseteq 1..Subnet
ASSUME MailSizeAssumption == MailSize \in Nat \ {0}
ASSUME BoundsAssumption == {MaxSwitches, MaxMishaps, ShellScans} \subseteq Nat

VARIABLES check_pc,             \* where computer_status_check_thread stands
          computer_status, computer_status_bak,  \* its locals
          computer_ip_addr,     \* the address found last, shared
          scan_pc, probe,       \* each caller's place in ping_and_find_ip
          heard,                \* the answer to ping(), while it waits
          shell_scans,          \* counts the shell commands
          host,                 \* the computer's address, 0 while it is off
          arp,                  \* addresses the ARP table has for find_mac
          switches, mishaps,    \* count the environment's moves
          changes, computer_status_mail, dropped  \* see StatusSource

thread == <<check_pc, computer_status, computer_status_bak, heard>>
scans == <<scan_pc, probe, shell_scans>>
network == <<host, arp, switches, mishaps>>
source == <<changes, computer_status_mail, dropped>>
vars == <<thread, computer_ip_addr, scans, network, source>>

Source == INSTANCE StatusSource

Callers == {"check", "shell"}

Init == /\ check_pc = "start"
        /\ computer_status = 0 /\ computer_status_bak = 1
        /\ computer_ip_addr = 0
        /\ scan_pc = [c \in Callers |-> "idle"]
        /\ probe = [c \in Callers |-> 1]
        /\ heard = FALSE
        /\ shell_scans = 0
        /\ host \in {0} \cup Leases
        /\ arp = {}
        /\ switches = 0 /\ mishaps = 0
        /\ Source!Init

-----------------------------------------------------------------------------
(* The network *)

(* A request reaches the computer if it is on and has that address; then   *)
(* the answer arrives, or is lost.  Whoever answers was resolved by ARP.   *)
Answer(a, answered) ==
    IF a # 0 /\ host = a
    THEN /\ answered \/ mishaps < MaxMishaps
         /\ arp' = IF answered THEN arp \cup {a} ELSE arp
         /\ mishaps' = IF answered THEN mishaps ELSE mishaps + 1
    ELSE ~answered /\ UNCHANGED <<arp, mishaps>>

(* get_ip_from_mac: the first stable entry with this MAC, in an order that *)
(* depends on the history of the table, or 0.0.0.0                         *)
Lookup(table) == IF table = {} THEN {0} ELSE table

Switch(a) == /\ switches < MaxSwitches
             /\ (host = 0) # (a = 0)
             /\ host' = a
             /\ switches' = switches + 1
             /\ UNCHANGED <<thread, computer_ip_addr, scans, arp, mishaps,
                            source>>

(* An entry expires, or is not stable while it is requested again. *)
Age(a) == /\ a \in arp
          /\ arp' = arp \ {a}
          /\ UNCHANGED <<thread, computer_ip_addr, scans, host, switches, mishaps,
                         source>>

Environment == (\E a \in {0} \cup Leases : Switch(a)) \/ (\E a \in arp : Age(a))

-----------------------------------------------------------------------------
(* ping_and_find_ip *)

OpenScan(c) == /\ scan_pc[c] = "idle"
               /\ scan_pc' = [scan_pc EXCEPT ![c] = "probe"]
               /\ probe' = [probe EXCEPT ![c] = 1]

(* One address: send, wait for an answer, look the table up (lines 76-89). *)
Probe(c) ==
    /\ scan_pc[c] = "probe"
    /\ \E answered \in BOOLEAN : Answer(probe[c], answered)
    /\ \E a \in Lookup(arp') : computer_ip_addr' = a
    /\ scan_pc' = [scan_pc EXCEPT ![c] = "test"]
    /\ UNCHANGED <<thread, probe, shell_scans, host, switches, source>>

(* Line 91 reads the shared address again. *)
Found(c) == scan_pc[c] = "test" /\ computer_ip_addr # 0
NotFound(c) == scan_pc[c] = "test" /\ computer_ip_addr = 0

TryNext(c) == /\ NotFound(c) /\ probe[c] < Subnet
              /\ probe' = [probe EXCEPT ![c] = @ + 1]
              /\ scan_pc' = [scan_pc EXCEPT ![c] = "probe"]
              /\ UNCHANGED <<thread, computer_ip_addr, shell_scans, network,
                             source>>
GiveUp(c) == NotFound(c) /\ probe[c] = Subnet
CloseScan(c) == /\ scan_pc' = [scan_pc EXCEPT ![c] = "idle"]
                /\ UNCHANGED <<computer_ip_addr, probe, network, source>>

-----------------------------------------------------------------------------
(* computer_status_check_thread *)

Start == /\ check_pc = "start"
         /\ check_pc' = IF computer_ip_addr = 0 THEN "compare1" ELSE "compare2"
         /\ UNCHANGED <<computer_status, computer_status_bak, heard,
                        computer_ip_addr, scans, network, source>>

ReportForgets ==   \* mutant: computer_status_bak is not updated
    /\ IF computer_status # computer_status_bak
       THEN /\ changes' = changes + 1
            /\ Source!SendMail([nth |-> changes + 1, status |-> computer_status])
       ELSE UNCHANGED source
    /\ UNCHANGED computer_status_bak
Report ==
    /\ IF computer_status # computer_status_bak
       THEN /\ changes' = changes + 1
            /\ Source!SendMail([nth |-> changes + 1, status |-> computer_status])
       ELSE UNCHANGED source
    /\ computer_status_bak' = computer_status

Compare == /\ \/ check_pc = "compare1" /\ check_pc' = "scan"
              \/ check_pc = "compare2" /\ check_pc' = "ping"
           /\ Report
           /\ UNCHANGED <<computer_status, heard, computer_ip_addr, scans,
                          network>>

StartScan == /\ check_pc = "scan"
             /\ OpenScan("check")
             /\ UNCHANGED <<thread, computer_ip_addr, shell_scans, network, source>>

(* lwip_socket fails *)
NoSocket == /\ check_pc = "scan" /\ scan_pc["check"] = "idle"
            /\ mishaps < MaxMishaps
            /\ mishaps' = mishaps + 1
            /\ check_pc' = "compare1"
            /\ UNCHANGED <<computer_status, computer_status_bak, heard,
                           computer_ip_addr, scans, host, arp, switches, source>>

ScanFoundAnyway == /\ Found("check") \/ GiveUp("check")  \* mutant: always 0
                   /\ computer_status' = 1
                   /\ check_pc' = "compare2"
                   /\ CloseScan("check")
                   /\ UNCHANGED <<computer_status_bak, heard, shell_scans>>
ScanFound == /\ Found("check")
             /\ computer_status' = 1
             /\ check_pc' = "compare2"
             /\ CloseScan("check")
             /\ UNCHANGED <<computer_status_bak, heard, shell_scans>>
ScanFailed == /\ GiveUp("check")
              /\ check_pc' = "compare1"
              /\ CloseScan("check")
              /\ UNCHANGED <<computer_status, computer_status_bak, heard,
                             shell_scans>>

(* ping: line 129 reads the shared address *)
PingNobody == /\ check_pc = "ping"      \* mutant: to_addr stays zero
              /\ heard' = FALSE
              /\ check_pc' = "pingWait"
              /\ UNCHANGED <<computer_status, computer_status_bak,
                             computer_ip_addr, scans, network, source>>
Ping == /\ check_pc = "ping"
        /\ \E answered \in BOOLEAN : /\ Answer(computer_ip_addr, answered)
                                     /\ heard' = answered
        /\ check_pc' = "pingWait"
        /\ UNCHANGED <<computer_status, computer_status_bak, computer_ip_addr,
                       scans, host, switches, source>>

(* Line 155 takes any echo reply: also one to the shell's scan, from       *)
(* another host of the subnet.                                             *)
Hear(reply) == \/ /\ reply = heard
                  /\ UNCHANGED mishaps
               \/ /\ reply /\ scan_pc["shell"] # "idle"
                  /\ mishaps < MaxMishaps
                  /\ mishaps' = mishaps + 1

PingDoneKeeps ==   \* mutant: no else branch
    /\ check_pc = "pingWait"
    /\ \E reply \in BOOLEAN :
          /\ Hear(reply)
          /\ computer_status' = IF reply THEN 1 ELSE computer_status
    /\ heard' = FALSE
    /\ check_pc' = "compare2"
    /\ UNCHANGED <<computer_status_bak, computer_ip_addr, scans, host, arp,
                   switches, source>>
PingDone ==
    /\ check_pc = "pingWait"
    /\ \E reply \in BOOLEAN :
          /\ Hear(reply)
          /\ computer_status' = IF reply THEN 1 ELSE 0
    /\ heard' = FALSE
    /\ check_pc' = "compare2"
    /\ UNCHANGED <<computer_status_bak, computer_ip_addr, scans, host, arp,
                   switches, source>>

Check == \/ Start \/ Compare \/ StartScan \/ NoSocket
         \/ Probe("check") \/ TryNext("check") \/ ScanFound \/ ScanFailed
         \/ Ping \/ PingDone

-----------------------------------------------------------------------------
(* The shell *)

ShellScan == /\ shell_scans < ShellScans
             /\ OpenScan("shell")
             /\ shell_scans' = shell_scans + 1
             /\ UNCHANGED <<thread, computer_ip_addr, network, source>>
ShellDone == /\ Found("shell") \/ GiveUp("shell")
             /\ CloseScan("shell")
             /\ UNCHANGED <<thread, shell_scans>>
ShellGoesOn == Probe("shell") \/ TryNext("shell") \/ ShellDone

(* The report thread, of which only the mailbox matters here *)
Take == /\ Source!Take
        /\ UNCHANGED <<thread, computer_ip_addr, scans, network>>

Next == Check \/ ShellScan \/ ShellGoesOn \/ Environment \/ Take

Spec == Init /\ [][Next]_vars

(* The threads are scheduled, and nothing they wait for lasts for ever:    *)
(* every receive has a timeout.                                            *)
FairSpec == Spec /\ WF_vars(Check) /\ WF_vars(ShellGoesOn)

-----------------------------------------------------------------------------
(* Every variable has its type. *)
TypeOK ==
    /\ check_pc \in {"start", "compare1", "scan", "compare2", "ping", "pingWait"}
    /\ computer_status \in {0, 1} /\ computer_status_bak \in {0, 1}
    /\ computer_ip_addr \in 0..Subnet
    /\ scan_pc \in [Callers -> {"idle", "probe", "test"}]
    /\ probe \in [Callers -> 1..Subnet]
    /\ heard \in BOOLEAN
    /\ shell_scans \in 0..ShellScans
    /\ host \in 0..Subnet /\ arp \subseteq 1..Subnet
    /\ switches \in 0..MaxSwitches /\ mishaps \in 0..MaxMishaps
    /\ changes \in Nat
    /\ computer_status_mail \in Seq([nth : Nat, status : {0, 1}])
    /\ dropped \subseteq Nat

(* The mails are what StatusSource says: numbered changes that start with  *)
(* "off" and alternate, none sent twice (boot_check.c:182-184, 196-198).   *)
ImplementsStatusSource == Source!Spec

(* "On" is never concluded without an address to conclude it from, as long *)
(* as nobody else runs the scan (boot_check.c:91-101, 185-191).            *)
OnMeansAddress ==
    shell_scans = 0 /\ computer_status = 1 => computer_ip_addr # 0

(* A computer that stays off is reported off (or its mail was dropped),    *)
(* whatever the ARP table still remembers (boot_check.c:203-206).          *)
DetectsOff == <>[](host = 0) => <>[](computer_status_bak = 0)

(* A computer that stays on, with one address, is reported on (or its mail *)
(* was dropped), unless the thread pings another address for ever: one of  *)
(* a former lease, or what a scan of the shell left (boot_check.c:89, 129, *)
(* 187-201).                                                               *)
LooksElsewhere == /\ check_pc \in {"compare2", "ping", "pingWait"}
                  /\ computer_ip_addr # host
FindsComputer == \A a \in Leases :
    <>[](host = a) => <>[](computer_status_bak = 1) \/ <>[]LooksElsewhere

=============================================================================
