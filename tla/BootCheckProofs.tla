--------------------------- MODULE BootCheckProofs --------------------------
(***************************************************************************)
(* Proofs about the check thread, for any subnet, leases, mailbox size and *)
(* bounds: its mails are the alternating changes of StatusSource, and      *)
(* without the shell it concludes "on" only from an address.               *)
(***************************************************************************)
EXTENDS BootCheck, TLAPS

(* The status mailed last is the status of the change counted last, so     *)
(* that a status that differs from it is that of the next change.          *)
Backed == /\ computer_status \in {0, 1}
          /\ changes \in Nat
          /\ computer_status_bak = Source!StatusOf(changes)

(* "Off" and "on" alternate. *)
LEMMA Alternate ==
  ASSUME NEW n \in Nat
  PROVE  /\ Source!StatusOf(n) \in {0, 1}
         /\ Source!StatusOf(n + 1) = 1 - Source!StatusOf(n)
BY DEF Source!StatusOf

(* The check thread compares: it reports a change, or nothing happens to   *)
(* the mailbox (boot_check.c:182-184).                                     *)
LEMMA CompareStep ==
  ASSUME Backed, Compare
  PROVE  Backed' /\ (Source!Change \/ UNCHANGED source)
<1>1. Report /\ computer_status' = computer_status
  BY DEF Compare
<1>2. CASE computer_status = computer_status_bak
  <2>1. UNCHANGED source /\ computer_status_bak' = computer_status_bak
    BY <1>1, <1>2 DEF Report, source
  <2> QED BY <1>1, <2>1 DEF Backed, source, Source!StatusOf
<1>3. CASE computer_status # computer_status_bak
  <2>1. computer_status = Source!StatusOf(changes + 1)
    BY <1>3, Alternate DEF Backed
  <2>2. /\ changes' = changes + 1
        /\ Source!SendMail([nth |-> changes + 1, status |-> computer_status])
        /\ computer_status_bak' = computer_status
    BY <1>1, <1>3 DEF Report
  <2>3. Source!Change
    BY <2>1, <2>2 DEF Source!Change, Source!Mail
  <2>4. Source!StatusOf(changes') = computer_status
    BY <2>1, <2>2
  <2> QED BY <1>1, <2>2, <2>3, <2>4 DEF Backed, Source!StatusOf
<1> QED BY <1>2, <1>3

(* Every other step leaves the mailbox and what was mailed last alone. *)
LEMMA OtherSteps ==
  ASSUME Backed, [Next]_vars
  PROVE  Compare \/ Take \/ (Backed' /\ UNCHANGED source)
<1>1. SUFFICES ASSUME ~Compare, ~Take
               PROVE  Backed' /\ UNCHANGED source
  OBVIOUS
<1>2. \/ computer_status' = computer_status
      \/ computer_status' \in {0, 1}
  BY <1>1 DEF Backed, Next, Check, ShellGoesOn, ShellScan, Environment, Start,
     StartScan, NoSocket, Probe, TryNext, ScanFound, ScanFailed, Ping, PingDone,
     ShellDone, Switch, Age, vars, thread
<1>3. computer_status_bak' = computer_status_bak /\ UNCHANGED source
  BY <1>1 DEF Next, Check, ShellGoesOn, ShellScan, Environment, Start,
     StartScan, NoSocket, Probe, TryNext, ScanFound, ScanFailed, CloseScan, Ping,
     PingDone, ShellDone, Switch, Age, vars, thread, source
<1> QED BY <1>2, <1>3 DEF Backed, source, Source!StatusOf

(* The mails of the check thread are those of StatusSource: each change    *)
(* once, off and on in turn, whatever the network and the shell do         *)
(* (boot_check.c:182-184, 196-198).                                        *)
THEOREM Implements == Spec => ImplementsStatusSource
<1>1. Init => Backed /\ Source!Init
  BY DEF Init, Backed, Source!Init, Source!StatusOf
<1>2. Backed /\ [Next]_vars => Backed' /\ [Source!Next]_Source!source
  <2> SUFFICES ASSUME Backed, [Next]_vars
               PROVE  Backed' /\ (Source!Next \/ UNCHANGED source)
    BY DEF Source!source, source
  <2>1. CASE Compare
    BY <2>1, CompareStep DEF Source!Next
  <2>2. CASE Take
    <3>1. Source!Take /\ UNCHANGED <<computer_status, computer_status_bak>>
      BY <2>2 DEF Take, thread
    <3>2. changes' = changes
      BY <3>1 DEF Source!Take
    <3> QED BY <3>1, <3>2 DEF Backed, Source!StatusOf, Source!Next
  <2>3. CASE Backed' /\ UNCHANGED source
    BY <2>3
  <2> QED BY <2>1, <2>2, <2>3, OtherSteps
<1> QED BY <1>1, <1>2, PTL DEF Spec, ImplementsStatusSource, Source!Spec

-----------------------------------------------------------------------------
(* Before the shell's first scan, the only one that can be running is the  *)
(* thread's own, and it leaves an address behind when the thread goes on   *)
(* to ping.                                                                *)
AddressKept ==
    /\ scan_pc \in [Callers -> {"idle", "probe", "test"}]
    /\ scan_pc["shell"] = "idle"
    /\ scan_pc["check"] # "idle" => check_pc = "scan"
    /\ check_pc \in {"ping", "pingWait", "compare2"} => computer_ip_addr # 0
    /\ computer_status = 1 => check_pc \in {"ping", "pingWait", "compare2"}

AddressInv == shell_scans \in Nat /\ (shell_scans = 0 => AddressKept)

(* Until the shell scans, the thread concludes "on" only when it has an    *)
(* address (boot_check.c:91-101, 185-191).                                 *)
THEOREM OnNeedsAddress == Spec => []OnMeansAddress
<1>1. Init => AddressInv
  BY DEF Init, AddressInv, AddressKept, Callers
<1>2. AddressInv /\ [Next]_vars => AddressInv'
  <2> SUFFICES ASSUME AddressInv, [Next]_vars
               PROVE  AddressInv'
    OBVIOUS
  <2>a. CASE ShellScan
    <3>1. shell_scans' \in Nat /\ shell_scans' # 0
      BY <2>a DEF ShellScan, AddressInv
    <3> QED BY <3>1 DEF AddressInv
  <2>b. ASSUME ~ShellScan PROVE shell_scans' = shell_scans
    BY <2>b DEF Next, Check, ShellGoesOn, Environment, Start, Compare,
       StartScan, NoSocket, Probe, TryNext, ScanFound, ScanFailed, Ping,
       PingDone, ShellDone, Switch, Age, Take, vars, scans
  <2>c. ASSUME ~ShellScan, shell_scans = 0
        PROVE  AddressKept'
    <3> SUFFICES ASSUME AddressKept PROVE AddressKept'
      BY <2>c DEF AddressInv
    <3>1. CASE UNCHANGED vars
      BY <3>1 DEF AddressKept, vars, thread, scans
    <3>2. CASE Check
      <4>1. CASE Start
        BY <3>2, <4>1 DEF AddressKept, Start, scans
      <4>2. CASE Compare
        BY <4>2 DEF AddressKept, Compare, scans
      <4>3. CASE StartScan
        BY <4>3 DEF AddressKept, StartScan, OpenScan, thread, Callers
      <4>4. CASE NoSocket
        BY <4>4 DEF AddressKept, NoSocket, scans
      <4>5. CASE Probe("check")
        BY <4>5 DEF AddressKept, Probe, thread, Callers
      <4>6. CASE TryNext("check")
        BY <4>6 DEF AddressKept, TryNext, NotFound, thread, Callers
      <4>7. CASE ScanFound
        BY <4>7 DEF AddressKept, ScanFound, Found, CloseScan, Callers
      <4>8. CASE ScanFailed
        BY <4>8 DEF AddressKept, ScanFailed, GiveUp, NotFound, CloseScan, Callers
      <4>9. CASE Ping
        BY <4>9 DEF AddressKept, Ping, scans
      <4>10. CASE PingDone
        BY <4>10 DEF AddressKept, PingDone, scans
      <4> QED BY <3>2, <4>1, <4>2, <4>3, <4>4, <4>5, <4>6, <4>7, <4>8, <4>9,
                 <4>10 DEF Check
    <3>3. CASE ShellGoesOn
      BY <3>3 DEF AddressKept, ShellGoesOn, Probe, TryNext, NotFound,
         ShellDone, Found, GiveUp
    <3>4. CASE Environment
      BY <3>4 DEF AddressKept, Environment, Switch, Age, thread, scans
    <3>5. CASE Take
      BY <3>5 DEF AddressKept, Take, thread, scans
    <3> QED BY <2>c, <3>1, <3>2, <3>3, <3>4, <3>5 DEF Next
  <2> QED BY <2>a, <2>b, <2>c DEF AddressInv
<1>3. AddressInv => OnMeansAddress
  BY DEF AddressInv, AddressKept, OnMeansAddress
<1> QED BY <1>1, <1>2, <1>3, PTL DEF Spec

LEMMA LookupTypes ==
  ASSUME NEW table \in SUBSET (1..Subnet), NEW a \in Lookup(table)
  PROVE  a \in 0..Subnet
BY SubnetAssumption DEF Lookup

(* The mails and what is dropped, for one change *)
LEMMA SourceTypes ==
  ASSUME changes \in Nat, dropped \subseteq Nat, computer_status \in {0, 1},
         computer_status_mail \in Seq([nth : Nat, status : {0, 1}]),
         Report \/ UNCHANGED source \/ Source!Take
  PROVE  /\ changes' \in Nat /\ dropped' \subseteq Nat
         /\ computer_status_mail' \in Seq([nth : Nat, status : {0, 1}])
<1>1. CASE Report
  <2>1. [nth |-> changes + 1, status |-> computer_status] \in [nth : Nat, status : {0, 1}]
    OBVIOUS
  <2>2. \/ UNCHANGED source
        \/ /\ changes' = changes + 1
           /\ Source!SendMail([nth |-> changes + 1, status |-> computer_status])
    BY <1>1 DEF Report
  <2>3. ASSUME NEW m \in [nth : Nat, status : {0, 1}], Source!SendMail(m)
        PROVE  /\ dropped' \subseteq Nat
               /\ computer_status_mail' \in Seq([nth : Nat, status : {0, 1}])
    <3>1. CASE Len(computer_status_mail) < MailSize
      <4>1. computer_status_mail' = Append(computer_status_mail, m) /\ dropped' = dropped
        BY <2>3, <3>1, Zenon DEF Source!SendMail
      <4> QED BY <4>1
    <3>2. CASE ~(Len(computer_status_mail) < MailSize)
      <4>1. computer_status_mail' = computer_status_mail /\ dropped' = dropped \cup {m.nth}
        BY <2>3, <3>2, Zenon DEF Source!SendMail
      <4>2. m.nth \in Nat
        OBVIOUS
      <4> QED BY <4>1, <4>2
    <3> QED BY <3>1, <3>2
  <2> QED BY <2>1, <2>2, <2>3 DEF source
<1>2. CASE UNCHANGED source
  BY <1>2 DEF source
<1>3. CASE Source!Take
  BY <1>3 DEF Source!Take
<1> QED BY <1>1, <1>2, <1>3

(* Every variable keeps its type: each scan ends within the subnet         *)
(* (boot_check.c:74), and only mails and the environment are counted.      *)
THEOREM TypesAreKept == Spec => []TypeOK
<1> USE SubnetAssumption, LeasesAssumption, BoundsAssumption
<1>1. Init => TypeOK
  <2> SUFFICES ASSUME Init PROVE TypeOK
    OBVIOUS
  <2>1. /\ scan_pc \in [Callers -> {"idle", "probe", "test"}]
        /\ probe \in [Callers -> 1..Subnet]
    BY DEF Init
  <2>2. /\ computer_ip_addr \in 0..Subnet /\ host \in 0..Subnet
        /\ shell_scans \in 0..ShellScans /\ switches \in 0..MaxSwitches
        /\ mishaps \in 0..MaxMishaps /\ arp \subseteq 1..Subnet
    BY DEF Init
  <2>3. changes \in Nat /\ computer_status_mail = <<>> /\ dropped \subseteq Nat
    BY DEF Init, Source!Init
  <2>4. heard \in BOOLEAN
    BY Zenon DEF Init
  <2>5. computer_status_mail \in Seq([nth : Nat, status : {0, 1}])
    BY <2>3
  <2>6. check_pc = "start" /\ computer_status = 0 /\ computer_status_bak = 1
    BY DEF Init
  <2> QED
    BY <2>1, <2>2, <2>3, <2>4, <2>5, <2>6 DEF TypeOK
<1>2. TypeOK /\ [Next]_vars => TypeOK'
  <2> SUFFICES ASSUME TypeOK, [Next]_vars PROVE TypeOK'
    OBVIOUS
  <2>1. /\ changes' \in Nat /\ dropped' \subseteq Nat
        /\ computer_status_mail' \in Seq([nth : Nat, status : {0, 1}])
    <3>1. Report \/ UNCHANGED source \/ Source!Take
      BY DEF Next, Check, ShellGoesOn, ShellScan, Environment, Start, Compare,
         StartScan, NoSocket, Probe, TryNext, ScanFound, ScanFailed, CloseScan, Ping,
         PingDone, ShellDone, Switch, Age, Take, vars
    <3> QED BY <3>1, SourceTypes DEF TypeOK
  <2>2. /\ check_pc' \in {"start", "compare1", "scan", "compare2", "ping", "pingWait"}
        /\ computer_status' \in {0, 1} /\ computer_status_bak' \in {0, 1}
    BY DEF TypeOK, Next, Check, ShellGoesOn, ShellScan, Environment, Start, Compare,
       Report, StartScan, NoSocket, Probe, TryNext, ScanFound, ScanFailed, Ping,
       PingDone, ShellDone, Switch, Age, Take, vars, thread
  <2>3. heard' \in BOOLEAN
    BY Zenon
    DEF TypeOK, Next, Check, ShellGoesOn, ShellScan, Environment, Start, Compare,
       StartScan, NoSocket, Probe, TryNext, ScanFound, ScanFailed, Ping,
       PingDone, ShellDone, Switch, Age, Take, vars, thread
  <2>4. /\ scan_pc' \in [Callers -> {"idle", "probe", "test"}]
        /\ probe' \in [Callers -> 1..Subnet]
        /\ shell_scans' \in 0..ShellScans
    <3>1. ASSUME NEW c \in Callers, Probe(c) \/ TryNext(c) \/ OpenScan(c) \/ CloseScan(c)
          PROVE  /\ scan_pc' \in [Callers -> {"idle", "probe", "test"}]
                 /\ probe' \in [Callers -> 1..Subnet]
      BY <3>1 DEF Probe, TryNext, OpenScan, CloseScan, TypeOK
    <3>2. \/ \E c \in Callers : Probe(c) \/ TryNext(c) \/ OpenScan(c) \/ CloseScan(c)
          \/ UNCHANGED <<scan_pc, probe>>
      BY DEF Callers, Next, Check, ShellGoesOn, ShellScan, Environment, Start, Compare,
         StartScan, NoSocket, ScanFound, ScanFailed, Ping, PingDone, ShellDone, Switch,
         Age, Take, vars, scans
    <3>3. shell_scans' \in 0..ShellScans
      BY DEF TypeOK, Next, Check, ShellGoesOn, ShellScan, Environment, Start, Compare,
         StartScan, NoSocket, Probe, TryNext, ScanFound, ScanFailed, Ping, PingDone,
         ShellDone, Switch, Age, Take, vars, scans
    <3> QED BY <3>1, <3>2, <3>3 DEF TypeOK
  <2>5. /\ host' \in 0..Subnet /\ arp' \subseteq 1..Subnet
        /\ switches' \in 0..MaxSwitches /\ mishaps' \in 0..MaxMishaps
        /\ computer_ip_addr' \in 0..Subnet
    <3>0. /\ host \in 0..Subnet /\ arp \subseteq 1..Subnet
          /\ switches \in 0..MaxSwitches /\ mishaps \in 0..MaxMishaps
          /\ computer_ip_addr \in 0..Subnet
          /\ MaxSwitches \in Nat /\ MaxMishaps \in Nat
      BY DEF TypeOK
    <3>1. ASSUME NEW a \in 0..Subnet, NEW answered \in BOOLEAN, Answer(a, answered)
          PROVE  arp' \subseteq 1..Subnet /\ mishaps' \in 0..MaxMishaps
      <4>1. CASE answered /\ a # 0 /\ host = a
        <5>1. arp' = arp \cup {a} /\ mishaps' = mishaps
          BY <3>1, <4>1, Zenon DEF Answer
        <5> QED BY <3>0, <4>1, <5>1
      <4>2. CASE ~answered /\ a # 0 /\ host = a
        <5>1. mishaps < MaxMishaps /\ arp' = arp /\ mishaps' = mishaps + 1
          BY <3>1, <4>2, Zenon DEF Answer
        <5> QED BY <3>0, <5>1
      <4>3. CASE ~(a # 0 /\ host = a)
        <5>1. arp' = arp /\ mishaps' = mishaps
          BY <3>1, <4>3, Zenon DEF Answer
        <5> QED BY <3>0, <5>1
      <4> QED BY <4>1, <4>2, <4>3
    <3>2. CASE \E c \in Callers : Probe(c)
      <4>1. arp' \subseteq 1..Subnet /\ mishaps' \in 0..MaxMishaps
        BY <3>1, <3>2 DEF Probe, TypeOK
      <4>2. computer_ip_addr' \in 0..Subnet
        BY <3>2, <4>1, LookupTypes DEF Probe
      <4> QED BY <3>2, <4>1, <4>2 DEF Probe, TypeOK
    <3>3. CASE Ping
      <4>1. arp' \subseteq 1..Subnet /\ mishaps' \in 0..MaxMishaps
        BY <3>1, <3>3 DEF Ping, TypeOK
      <4> QED BY <3>3, <4>1 DEF Ping, TypeOK
    <3>4. CASE Environment
      <4>1. ASSUME NEW a \in {0} \cup Leases, Switch(a)
            PROVE  /\ host' \in 0..Subnet /\ switches' \in 0..MaxSwitches
                   /\ UNCHANGED <<arp, mishaps, computer_ip_addr>>
        <5>1. /\ host' = a /\ switches < MaxSwitches /\ switches' = switches + 1
              /\ UNCHANGED <<arp, mishaps, computer_ip_addr>>
          BY <4>1, Zenon DEF Switch
        <5>2. a \in 0..Subnet
          OBVIOUS
        <5> QED BY <3>0, <5>1, <5>2
      <4>2. ASSUME NEW a \in arp, Age(a)
            PROVE  /\ arp' \subseteq 1..Subnet
                   /\ UNCHANGED <<host, switches, mishaps, computer_ip_addr>>
        <5>1. /\ arp' = arp \ {a}
              /\ UNCHANGED <<host, switches, mishaps, computer_ip_addr>>
          BY <4>2, Zenon DEF Age
        <5> QED BY <3>0, <5>1
      <4> QED BY <3>0, <3>4, <4>1, <4>2 DEF Environment
    <3>5. CASE NoSocket \/ PingDone
      <4>1. /\ UNCHANGED <<computer_ip_addr, host, arp, switches>>
            /\ \/ mishaps' = mishaps
               \/ mishaps < MaxMishaps /\ mishaps' = mishaps + 1
        <5>1. CASE NoSocket
          BY <5>1, Zenon DEF NoSocket
        <5>2. CASE PingDone
          <6>1. PICK reply \in BOOLEAN : Hear(reply)
            BY <5>2, Zenon DEF PingDone
          <6>2. \/ mishaps' = mishaps
                \/ mishaps < MaxMishaps /\ mishaps' = mishaps + 1
            BY <6>1, Zenon DEF Hear
          <6>3. UNCHANGED <<computer_ip_addr, host, arp, switches>>
            BY <5>2, Zenon DEF PingDone
          <6> QED BY <6>2, <6>3
        <5> QED BY <3>5, <5>1, <5>2
      <4> QED BY <3>0, <4>1
    <3>6. CASE UNCHANGED <<computer_ip_addr, network>>
      BY <3>6 DEF network, TypeOK
    <3> QED
      BY <3>2, <3>3, <3>4, <3>5, <3>6
      DEF Callers, Next, Check, ShellGoesOn, ShellScan, Start, Compare, StartScan,
          TryNext, ScanFound, ScanFailed, CloseScan, ShellDone, Take, vars
  <2> QED
    BY <2>1, <2>2, <2>3, <2>4, <2>5 DEF TypeOK
<1> QED
  BY <1>1, <1>2, PTL DEF Spec
=============================================================================
