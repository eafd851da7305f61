----------------------------- MODULE BootProofs -----------------------------
(***************************************************************************)
(* What a command from the cloud finds, whatever the order of the runs of  *)
(* system_boot, the connection and the commands, and for any bounds.       *)
(***************************************************************************)
EXTENDS Boot, TLAPS

(* Types that need no bound, and the order in which the objects appear:    *)
(* the semaphore before the mailbox, both before the threads.              *)
Shape ==
    /\ at \in [Runs -> Places]
    /\ computer_on_sem \in Runs \cup {NULL} /\ has_page_mail \in BOOLEAN
    /\ halted \in BOOLEAN
    /\ wol \in [Runs -> {"none", "loop", "wait", "send"}]
    /\ wol_sem \in [Runs -> Runs \cup {NULL}]
    /\ sems \in [Runs -> Nat] /\ {turn_ons, packets, unread} \subseteq Nat
Order ==
    /\ \A r \in Runs : at[r] \in {"page_mail", "threads", "done"}
                       => computer_on_sem # NULL
    /\ \A r \in Runs : at[r] \in {"threads", "done"} => has_page_mail
    /\ \A r \in Runs : wol[r] = "wait" => wol_sem[r] \in Runs
    /\ \A r \in Runs : wol[r] # "none" => computer_on_sem # NULL
    /\ \A r \in Runs : at[r] # "done" => wol[r] = "none"
    /\ halted => computer_on_sem = NULL \/ ~has_page_mail
BootInv == Shape /\ Order /\ OnePacketEach

LEMMA InitBootInv == Init => BootInv
<1> SUFFICES ASSUME Init PROVE BootInv
    OBVIOUS
<1>1. Shape
      <2>1. at \in [Runs -> Places]
            BY DEF Init, Places, Ended
      <2>2. sems \in [Runs -> Nat] /\ {turn_ons, packets, unread} \subseteq Nat
            BY DEF Init
      <2>3. /\ wol \in [Runs -> {"none", "loop", "wait", "send"}]
            /\ wol_sem \in [Runs -> Runs \cup {NULL}]
            BY DEF Init
      <2>4. QED
            BY <2>1, <2>2, <2>3 DEF Init, Shape
<1>2. Order
      <2>1. \A r \in Runs : at[r] \notin {"page_mail", "threads", "done"}
            BY DEF Init
      <2>2. QED
            BY <2>1 DEF Init, Order
<1>3. OnePacketEach
      BY BootAssumption DEF Init, OnePacketEach, Pending
<1>4. QED
      BY <1>1, <1>2, <1>3 DEF BootInv

(* Steps of a run that create nothing *)
LEMMA MoveBootInv ==
    ASSUME BootInv, ~halted, NEW r \in Runs, at[r] # "done",
           NEW there \in Places \ {"page_mail", "threads", "done"},
           at' = [at EXCEPT ![r] = there], BootOnly
    PROVE  BootInv'
BY BootAssumption
DEF BootInv, Shape, Order, OnePacketEach, Pending, BootOnly, broker, wakeup

LEMMA TryAgainBootInv ==
    ASSUME BootInv, ~halted, NEW r \in Runs, NEW here \in {"card", "wifi", "online"},
           TryAgain(r, here), BootOnly
    PROVE  BootInv'
<1>1. PICK there \in {"failed", here} : at' = [at EXCEPT ![r] = there]
      BY DEF TryAgain
<1>3. at[r] # "done"
      BY DEF TryAgain
<1>2. there \in Places \ {"page_mail", "threads", "done"}
      BY DEF Places, Ended
<1>4. QED
      BY <1>1, <1>2, <1>3, MoveBootInv

LEMMA RunBootInv ==
    ASSUME BootInv, ~halted, NEW r \in Runs, Run(r) \/ Outside(r) \/ Call
    PROVE  BootInv'
<1> DEFINE Plain == Places \ {"page_mail", "threads", "done"}
<1>1. {"card", "config", "failed", "wifi_ready", "wifi", "ntp", "mqtt", "online",
       "sem"} \subseteq Plain
      BY DEF Places, Ended
<1>2. ASSUME NEW q \in Runs, NEW here, NEW there \in Plain,
             here # "done", Move(q, here, there), BootOnly
      PROVE  BootInv'
      <2>1. at[q] # "done" /\ at' = [at EXCEPT ![q] = there]
            BY <1>2 DEF Move
      <2>2. QED
            BY <1>2, <2>1, MoveBootInv
<1> HIDE DEF Plain
<1>3. CASE Call
      BY <1>1, <1>2, <1>3, BootAssumption DEF Call
<1>4. CASE Card(r)
      BY <1>1, <1>2, <1>4, TryAgainBootInv DEF Card
<1>5. CASE Config(r)
      BY <1>1, <1>2, <1>5 DEF Config
<1>6. CASE Wifi(r)
      BY <1>1, <1>2, <1>6, TryAgainBootInv DEF Wifi
<1>7. CASE Outside(r)
      BY <1>1, <1>2, <1>7 DEF Outside, WifiReady, Ntp
<1>8. CASE Online(r)
      BY <1>1, <1>2, <1>8, TryAgainBootInv DEF Online
<1>9. CASE MqttStart(r)
      BY <1>9, BootAssumption
      DEF MqttStart, Move, BootInv, Shape, Order, OnePacketEach, Pending, wakeup,
          Places, Ended
<1>10. CASE CreateSem(r)
      BY <1>10, BootAssumption
      DEF CreateSem, Move, BootInv, Shape, Order, OnePacketEach, Pending, Places,
          Ended, NULL
<1>11. CASE CreatePageMail(r)
      BY <1>11, BootAssumption
      DEF CreatePageMail, Move, BootInv, Shape, Order, OnePacketEach, Pending, wakeup,
          Places, Ended
<1>12. CASE CreateThreads(r)
      BY <1>12, BootAssumption
      DEF CreateThreads, Move, BootInv, Shape, Order, OnePacketEach, Pending,
          Places, Ended
<1>13. QED
      BY <1>3, <1>4, <1>5, <1>6, <1>7, <1>8, <1>9, <1>10, <1>11, <1>12 DEF Run

(* The connection, and a command that finds what it needs or halts *)
LEMMA CloudBootInv ==
    ASSUME BootInv, ~halted, Cloud
    PROVE  BootInv'
<1>1. CASE GoOnline \/ GoOffline
      BY <1>1 DEF GoOnline, GoOffline, BootInv, Shape, Order, OnePacketEach, Pending,
                  boot, wakeup
<1>2. CASE ShowPage
      BY <1>2 DEF ShowPage, Commanded, BootInv, Shape, Order, OnePacketEach, Pending,
                  boot
<1>3. CASE TurnOn
      <2>1. CASE computer_on_sem = NULL
            BY <1>3, <2>1
            DEF TurnOn, Commanded, BootInv, Shape, Order, OnePacketEach, Pending, boot
      <2>2. CASE computer_on_sem # NULL
            BY <1>3, <2>2, BootAssumption
            DEF TurnOn, Commanded, BootInv, Shape, Order, OnePacketEach, Pending, boot
      <2>3. QED
            BY <2>1, <2>2
<1>4. QED
      BY <1>1, <1>2, <1>3 DEF Cloud

LEMMA WolBootInv ==
    ASSUME BootInv, ~halted, NEW r \in Runs, Wol(r)
    PROVE  BootInv'
<1>1. CASE WolTake(r)
      BY <1>1, BootAssumption
      DEF WolTake, WolOnly, BootInv, Shape, Order, OnePacketEach, Pending, boot
<1>2. CASE WolWoken(r)
      BY <1>2, BootAssumption
      DEF WolWoken, WolOnly, BootInv, Shape, Order, OnePacketEach, Pending, boot
<1>3. CASE WolSend(r)
      BY <1>3, BootAssumption
      DEF WolSend, WolOnly, Sent, Unread, BootInv, Shape, Order, OnePacketEach,
          Pending, boot
<1>4. QED
      BY <1>1, <1>2, <1>3 DEF Wol

LEMMA NextBootInv == BootInv /\ [Next]_vars => BootInv'
<1> SUFFICES ASSUME BootInv, [Next]_vars PROVE BootInv'
    OBVIOUS
<1>1. CASE Next
      BY <1>1, BootAssumption, RunBootInv, CloudBootInv, WolBootInv DEF Next
<1>2. CASE UNCHANGED vars
      BY <1>2 DEF vars, boot, wakeup, BootInv, Shape, Order, OnePacketEach, Pending
<1>3. QED
      BY <1>1, <1>2

(* A command halts the program only as long as no run of system_boot has   *)
(* created the semaphore and the mailbox (mqtt.c:71 and 79).               *)
THEOREM HaltsOnlyEarly == Spec => []HaltsEarlyOnly
<1>1. BootInv => HaltsEarlyOnly
      BY DEF BootInv, Order, HaltsEarlyOnly
<1>2. QED
      BY <1>1, InitBootInv, NextBootInv, PTL DEF Spec

(* Every command to turn the computer on is a packet, a card that could    *)
(* not be read, or still on its way (wol.c:22).                            *)
THEOREM CommandsAccounted == Spec => []OnePacketEach
<1>1. BootInv => OnePacketEach
      BY DEF BootInv
<1>2. QED
      BY <1>1, InitBootInv, NextBootInv, PTL DEF Spec

(* The tries are counted: only a run that gave up has used them all. *)
Counted == /\ index \in [Runs -> 0 .. Tries]
           /\ \A r \in Runs : at[r] # "failed" => index[r] < Tries
           /\ is_started \in BOOLEAN /\ is_online \in BOOLEAN
           /\ commands \in 0 .. MaxCommands /\ drops \in 0 .. MaxDrops

LEMMA RunCounted ==
    ASSUME BootInv, Counted, NEW r \in Runs, Run(r) \/ Outside(r) \/ Call
    PROVE  Counted'
<1>1. ASSUME NEW q \in Runs, NEW here, NEW there, Move(q, here, there)
      PROVE  /\ index' \in [Runs -> 0 .. Tries]
             /\ \A p \in Runs : at'[p] # "failed" => index'[p] < Tries
      BY <1>1, BootAssumption DEF Counted, Move, BootInv, Shape
<1>2. ASSUME NEW here \in {"card", "wifi", "online"}, TryAgain(r, here)
      PROVE  /\ index' \in [Runs -> 0 .. Tries]
             /\ \A p \in Runs : at'[p] # "failed" => index'[p] < Tries
      BY <1>2, BootAssumption DEF Counted, TryAgain, BootInv, Shape
<1>3. /\ index' \in [Runs -> 0 .. Tries]
      /\ \A p \in Runs : at'[p] # "failed" => index'[p] < Tries
      BY <1>1, <1>2, BootAssumption
      DEF Run, Outside, Call, Card, Config, Wifi, MqttStart, Online, CreateSem,
          CreatePageMail, CreateThreads, WifiReady, Ntp
<1>4. is_started' \in BOOLEAN /\ UNCHANGED <<is_online, commands, drops>>
      BY Zenon
      DEF Run, Outside, Call, Card, Config, Wifi, MqttStart, Online, CreateSem,
          CreatePageMail, CreateThreads, WifiReady, Ntp, BootOnly, broker, Counted
<1>5. QED
      BY <1>3, <1>4 DEF Counted

(* Every variable keeps its type: each wait gives up after its last try    *)
(* (system_boot.c:30, 74, 107).                                            *)
THEOREM TypesAreKept == Spec => []TypeOK
<1>1. Init => Counted
      <2> SUFFICES ASSUME Init PROVE Counted
          OBVIOUS
      <2>1. index \in [Runs -> 0 .. Tries] /\ \A r \in Runs : index[r] < Tries
            BY BootAssumption DEF Init
      <2>2. commands \in 0 .. MaxCommands /\ drops \in 0 .. MaxDrops
            BY BootAssumption DEF Init
      <2>3. is_started \in BOOLEAN /\ is_online \in BOOLEAN
            BY Zenon DEF Init
      <2>4. QED
            BY <2>1, <2>2, <2>3 DEF Counted
<1>2. BootInv /\ Counted /\ [Next]_vars => Counted'
      <2> SUFFICES ASSUME BootInv, Counted, [Next]_vars PROVE Counted'
          OBVIOUS
      <2>1. ASSUME NEW r \in Runs, Wol(r) PROVE Counted'
            BY <2>1 DEF Wol, WolTake, WolWoken, WolSend, WolOnly, boot, broker, Counted
      <2>2. CASE Cloud
            <3>1. commands' \in 0 .. MaxCommands /\ drops' \in 0 .. MaxDrops
                  BY <2>2, BootAssumption
                  DEF Cloud, GoOnline, GoOffline, TurnOn, ShowPage, Commanded, Counted
            <3>2. is_started' \in BOOLEAN /\ is_online' \in BOOLEAN
                  BY <2>2, Zenon
                  DEF Cloud, GoOnline, GoOffline, TurnOn, ShowPage, Commanded, Counted
            <3>3. UNCHANGED boot
                  BY <2>2 DEF Cloud, GoOnline, GoOffline, TurnOn, ShowPage, Commanded
            <3>4. QED
                  BY <3>1, <3>2, <3>3 DEF boot, Counted
      <2>3. CASE UNCHANGED vars
            BY <2>3 DEF vars, boot, broker, Counted
      <2>4. QED
            BY <2>1, <2>2, <2>3, RunCounted, BootAssumption DEF Next
<1>3. BootInv /\ Counted => TypeOK
      BY DEF BootInv, Shape, Counted, TypeOK
<1>4. QED
      BY <1>1, <1>2, <1>3, InitBootInv, NextBootInv, PTL DEF Spec
=============================================================================
