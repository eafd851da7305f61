# A TLA+ verification of the PC remote boot firmware

The firmware runs on an STM32H750 (ART-Pi) under RT-Thread 4.0.3. It connects
to Wi-Fi and to Tencent Cloud over MQTT, switches a PC on with a Wake-on-LAN
packet when the cloud asks for it, watches with ping and the ARP table whether
the PC is on, and reports every change to the cloud. An OLED screen shows the
time, the settings and a QR code, turned page by page with a key or from the
cloud. The settings are typed on a serial console and kept on an SD card.

This directory holds TLA+ modules of all parts of its own code, TLC
configurations that check them on small instances, and theorems with proofs
checked by TLAPS. `PROJECT.json` relates every definition to the source lines it
models, every run to its properties and every hazard to the property that covers
it.

## Inventory

Priorities: a smaller number is more urgent.

| component | state | operations | module |
|---|---|---|---|
| system boot (`system_boot.c`; main 10, again from the shell 20) | the step of the start, the shared objects | wait for card, Wi-Fi, time and broker; create objects and threads | `Boot` |
| commands from the cloud (`mqtt.c:40`, in the worker) | `computer_on_sem`, `page_mail` | release the semaphore, mail a page | `Boot`, `Settings` |
| Wake-on-LAN (`wol.c`, thread 25) | its copy of the settings | take the semaphore, read the file, send the packet | `Boot`, `Settings` |
| boot check (`boot_check.c`; thread 25, shell 20) | `computer_ip_addr`, status and its copy, the place in the scan | scan of the subnet, ping once a second, mail a change | `BootCheck` |
| status report (`mqtt.c:267`, thread 25) | the status it holds | receive a mail, try once a second to publish it | `StatusReport` |
| MQTT client (`paho_mqtt_pipe.c`, worker 10; `mqtt.c`) | `isconnected`, `is_online`, `is_started`, `pub_pipe` | start, connect, subscribe, cycle, ping, publish, disconnect, stop | `MqttClient` |
| keep-alive timing (`paho_mqtt_pipe.c:1062`) | `tick_ping`, the timeout of `select` | choose a timeout, ping | `KeepAlive` |
| kernel pipe (`pipe.c`, `ringbuffer.c`, `waitqueue.c`, `poll.c`) | ring of bytes, mutex, two wait queues | blocking write, read, poll | `Pipe`, `RingBuffer` |
| kernel mailbox (`ipc.c`, `thread.c`) | ring of mails, `entry`, two suspend lists, each thread's error and timer | create, send, receive, time out, reset | `Mailbox` |
| configuration file (`file_config.c`) | `config.txt` and its copies | read, truncate, write | `Settings` |
| console (`device_config.c`; shell 20 and interrupt) | ring of characters, semaphore, line, menu state | character in, edit, return, escape | `Console`, `Settings` |
| screen and key (`ui.c`, `system_boot.c:45`; both 10) | `page_index`, its copy, the flag, the level of the key | receive a page, draw, press | `Ui` |
| SD card hot plug (`filesystem.c`, thread 30; `mmcsd_core.c:616`) | the pin as it was, `sd_status`, the mount, two mailboxes | mount, unmount, ask the driver | `Card` |
| ARP table (`etharp.c:1205`) | entries and their ages | look a MAC address up, age | part of `BootCheck` |
| Wi-Fi settings, the rest of kernel, lwIP, drivers and packages | | | not modelled |

How they interact:

    PC <--ping/ARP--> boot check --computer_status_mail--> status report
     ^                                                        | pub_pipe
     | packet                 commands <--- MQTT worker <-----+
    wol thread <--computer_on_sem--+         |  ^
     | reads                       |       socket <--> Tencent Cloud
    config.txt <--writes-- console | page_mail
     | reads                       v
    screen <--page_mail----------- + <-- key

    SD card --pin--> sd_mount <--two mailboxes--> mmcsd_detect

Everything shared is a global variable read and written without a lock; the
priorities, the mailboxes, the semaphores and the pipe are the only order there
is. What makes the code hard is therefore: steps of several threads, or of an
interrupt, between a test and the use of what was tested; reconnections and the
flags that describe them; results of bounded queues that nobody looks at; a pipe
whose reader takes more than it handles; stale addresses, files and cards; a
start that can be run a second time. `PROJECT.json` lists each hazard at its
line.

What makes each component correct, as the properties state it:

- *Boot*: a null pointer is only met before the objects exist; each command is
  one packet or one unreadable card; the semaphore in use is served; a run ends.
- *Boot check*: the mails are the alternating changes off, on, off, ...; "on" is
  concluded only from an address; a PC that stays on (off) is in the end
  reported so.
- *MQTT client*: the flags tell the truth; after a fault it works again; every
  accepted message is sent once, in order, or lost for a known reason, and none
  stays on the way for ever.
- *Status report*: every change reaches the cloud once and in order, or is lost
  for a known reason.
- *Keep-alive*: the broker stays content, a silent connection is left.
- *Pipe and mailbox*: a bounded FIFO queue that loses no wakeup.
- *Settings*: saving one keeps the others; whoever reads them is told what the
  user meant.
- *Console*: keys are handled once and in order; a setting is made of what was
  typed for it, as long as the ring loses nothing.
- *Screen and key*: the screen shows the page the thread believes it shows; the
  key leads back to the clock.
- *Card*: questions and answers stay paired; `sd_status` tells the truth; a card
  that is pulled is noticed and one that is put in becomes usable.

## Modules

| module | models | kind |
|---|---|---|
| `BoundedQueue` | what a mailbox promises | abstract specification |
| `Mailbox` | the kernel mailbox | detailed; implements `BoundedQueue` |
| `RingBuffer` | `ringbuffer.c` | operators on a ring, for `Pipe` and `Console` |
| `Pipe` | the kernel pipe between writers and a polling reader, in bytes | detailed |
| `StatusSource` | what the check thread promises to the report thread | abstract specification |
| `BootCheck` | the check thread, the shell's scan, the network | detailed; implements `StatusSource` |
| `MqttClient` | the MQTT worker, its pipe, its publishers, the network | detailed |
| `KeepAlive` | the timeouts of the worker, in seconds | detailed |
| `LossyChannel` | what the way of a status to the cloud promises | abstract specification |
| `StatusReport` | the report thread between `StatusSource` and `MqttClient` | composition; implements `LossyChannel` |
| `Boot` | both runs of `system_boot`, the commands, both Wake-on-LAN threads | detailed |
| `Ui` | the screen's thread, the key, `page_mail` | detailed, for `Settings` |
| `Settings` | the file, the card under it, sessions, readers and the screen | composition with `Ui` |
| `Console` | the console session and the interrupt of the serial line | detailed |
| `Card` | `sd_mount` and the loop of `mmcsd_detect` | detailed |
| `MCMailbox`, `MCMqttClient`, `MCPipe` | threads, priorities, names and lengths of messages | TLC instances |
| `MailboxProofs`, `BootCheckProofs`, `MqttClientProofs`, `StatusReportProofs`, `SelectProofs` (of `Pipe` and `KeepAlive`), `BootProofs`, `StorageProofs` (of `Settings` and `Card`), `ConsoleProofs` | | proofs |

The other modules are instantiated by their `.cfg` alone. Definitions marked
"mutant" are broken variants of the one that follows them; no specification uses
them, they show that a property would notice such a fault.

### Mailbox

A step is what the kernel does between two points where interrupts are enabled.
A call that waits is therefore several steps: the one that puts the thread on a
suspend list (`SendSuspend`, `RecvSuspend`), that of whoever resumes it (`Store`,
`Fetch`, `Timeout`, `Reset`) and another turn of its loop (`SendAgain`,
`RecvAgain`, `ReturnError`), before which another thread may take what it was
resumed for. `pc` says where a thread stands. Ticks left are abstracted to none
or some; a thread that was resumed may find either.

### BootCheck

`check_pc` is the place of the check thread, `scan_pc` that of each of the two
callers of `ping_and_find_ip`. A probe of one address is one step (send, wait,
look the ARP table up, assign `computer_ip_addr`), the test of the address that
was assigned another (`boot_check.c:91`), because the shell's scan can come in
between. `Answer` is what the network does with one echo request. The table
`arp` gets an entry with every answer and loses entries at any time; a lookup
returns any entry with the PC's MAC address, as the order depends on the past of
the table. The environment switches the PC on with any of its leases, or off.

The ghost variables `changes` and `dropped`, and the number in each mail, only
tell the mails apart.

### MqttClient

`worker` is the place where the worker thread waits; a step goes from one such
place to the next, since the worker is the most urgent of the threads that
publish (`Calm` keeps publishers from running while the worker is ready). The
jumps of the code are kept: `_mqtt_restart` is `Restart` and `Resume`,
`_mqtt_disconnect` is `Disconnected`, `_mqtt_disconnect_exit` is `Exit`.
`ReadPipe` is the heart: it takes everything and handles the first message.
`MQTTPublish` is two steps, the test of `isconnected` (`Enter`) and the write
(`Write`, `WriteFails`), which may have to wait for room. So is the online
callback: it sets `is_online` (`mqtt.c:106`) and then publishes, at once
(`Greet`) or, with the pipe full, never: the worker stays at the place "online",
with the flag set, and waits for itself. `mqtt_stop` clears `is_started`
(`Stop`) before it writes its command into the pipe (`Command`).

`lost` is a ghost that says which messages will not arrive and why: `overrun`
(read from the pipe behind another message), `unsent` (the send failed),
`takeover` (in the old connection when the client connected anew), `deleted` (in
the pipe when the worker ended). The pipe is counted in messages, `PipeCap` of
them; that it loses no byte and no wakeup, and where it cuts a message, is the
business of `Pipe`.

### Pipe and RingBuffer

`RingBuffer` has the indices and mirror bits of `ringbuffer.c`. In `Pipe` a
writer's call is cut where something else can see it: the mutex is taken, the
bytes are copied and the mirror bit is flipped (`Put`), the index follows
(`PutIndex`, since `pipe_fops_poll` looks without the mutex), the mutex is
released, the reader is woken, the writer waits. `flag` and `waiting` are the
wait queue of the writers, `listed`, `triggered` and `timed_out` what `poll_do`
and its table remember. The reader is the worker of `MqttClient`: it looks at
the socket first, is more urgent than the writers, and can be woken between any
two steps of theirs by the socket or by the end of its timeout.

### KeepAlive

`MqttClient` has no time: there a ping can happen whenever the worker waits.
`KeepAlive` has the opposite cut: nothing but the times. `wait` is what is left
of the timeout of the present `select`, `elapsed` the time since `tick_ping`,
`idle` the time since the broker heard of the client, `owed` how long the broker
has owed the answer to a ping. `TimeoutAfter` is the computation of
`paho_mqtt_pipe.c:1063-1070`; its result may be negative, which `select` and
`poll` take for no limit (`Forever`). A second is one tick. Packets other than
answers to pings arrive in any second, also in those between the 21st and the
25th after `tick_ping` for which the result is negative: while the worker waits
for the answer to a ping, any packet ends that wait and the timeout is computed
anew. The connection may fall silent, which TCP notices some time after
something was sent into it. `Delay` bounds the answer of a broker within reach.

### StatusReport

`INSTANCE StatusSource` stands for the check thread and `INSTANCE MqttClient`
for the client, whose messages are the status changes. The module adds
`status_report_thread` and the moment of `system_boot` at which the mailbox and
the threads come to exist.

### Boot

`at[r]` is the place of each run of `system_boot`, the one after the reset and
the one the shell may start at any time; `index` counts the tries of the loop it
is in. `common_param_init` is one step per object, since a command of the cloud
can come in between: `CreateSem` overwrites the semaphore of an earlier run,
`CreateThreads` starts a second Wake-on-LAN thread. `wol_sem[r]` is the
semaphore that thread began to wait on. A command that finds a null pointer
fails an assertion of the kernel: `halted`, after which nothing happens any
more. The state of card, Wi-Fi, time and broker is whatever each look finds.

### Settings and Ui

`Ui` holds `ui_thread_body` (with its `continue` when a page cannot be read),
`key_check` and `page_mail`. `Settings` composes it with the file. A file is the
sequence of its lines, two of them here: the value of a setting is the number of
the save it was typed for. `write_to_file` is `Save` (truncate) and `Close`.

The two readers, the Wake-on-LAN thread and the screen, read in two steps,
`open` (`WolOpen`, `Screen`) and `read` (`WolRead`, `ScreenRead`), since the
shell is more urgent than the former, and runs while the latter waits for the
card. What
the second step finds is FatFs's doing: `open` copies the size and the place of
the file, files are not locked (`_FS_LOCK` is 0), `read` fetches the one sector,
and a file that is truncated and written anew is laid at the same place and its
sector written by `close`. So a file opened empty reads as empty; one opened
before a save reads as the old one until `Close`, and as the new one, cut at the
old one's size, after it (`handle` "stale", `Got`). A pulled card ends the read.

A pulled card or a reset leaves of a file that is being written nothing, or what
was there (`Cut`). The ghosts say what the user meant (`meant`) and what was
meant while a reader had the file open (`since`), that the last save did not
reach the card though the console announced it (`unsaved`), and that a session
that had never been able to read the file wrote its empty settings over it
(`spoilt`). The shell's command that draws on the screen (`ui_test`, `ui.c:144`)
is not modelled: `screen` is what the screen's thread has drawn.

### Console

`Interrupt` is `console_rx_ind`; it can come between any two steps of
`console_getchar` (`Take` the semaphore, `Look` at the ring, `Advance` its
index, where the index may have been read before or after an interrupt moved
it). With nothing in the ring the character is left as it was: any. The rest of
a turn of the loop, with `cmd_handle`, is one step of the thread (`Handle`).
Each key of a line carries the number of the dialog it was handled in, and
whether it came out of the ring or from the stack: ghosts. `EarlyInterrupt` is a
key typed after the routine was set and before its ring exists. `cur_line` has
`LineSize` characters (128) and a name or a password `FieldSize` (100), and
nothing compares (`device_config.c:105-139`, `245`): a longer line overwrites
what lies behind, which ends the model's session (`Overrun`).

### Card

`at` is the place of `sd_mount`, `re_sd_check_pin` what it remembers of the pin.
It asks `mmcsd_detect` to look at the bus with a mail (`Ask`, which throws an old
answer away) and waits for an answer that does not come if there neither is nor
was a card (`Silence`), or if the card in the slot answers neither as an SD nor
as an MMC card (`Mute`). `answers` says that the card in the slot has been
initialised since it was put in: FatFs can mount no other.

## Runs

| run | question | bounds | result |
|---|---|---|---|
| `mailbox` | Is the mailbox a bounded queue that loses no wakeup and serves the most urgent first? | 3 threads, 2 priorities, 2 mails, 2 slots | holds |
| `boot_check` | Are the mails the alternating changes, and is a PC that stays on or off reported so, whatever the shell scans? | 3 addresses, 2 leases, 1 scan, 3 switches, 1 mishap | holds |
| `mqtt_client` | Do flags, order and accounts survive stops and faults, does the client work again, does every message move on? | 2 messages and the online message, pipe of 2, 2 faults, 2 stops | holds |
| `status_report` | Is every change in one place, in order, or lost for a known reason, and does none stay? | 3 changes, mailbox of 2, pipe of 2, 1 fault, 1 stop | holds |
| `status_report_cloud` | Does the cloud learn the present status? | 3 changes, no fault | violated |
| `keep_alive` | Do pings keep the broker content, and is a silent connection left? | 30 seconds, answers within 24, other packets at any time | holds |
| `pipe` | Is no byte and no wakeup lost, is a message cut only by a full pipe, is everything read? | messages of 2, 3 and 4 bytes, pipe of 4, 2 events of the socket | holds |
| `boot` | Are commands counted and served over two runs of `system_boot`, and do runs end? | 2 tries of each wait, 3 commands, 2 lost connections | holds |
| `boot_early_command` | Does the kernel's assertion on the semaphore hold? | as `boot` | violated |
| `settings` | Do the settings, their readers, the screen and the key agree with what the user did? | 4 pages and a blank one, 1 mail, 2 saves, 2 mishaps, 1 page of the cloud | holds |
| `console` | Are keys handled once and in order, and settings made of what was typed for them? | ring of 2, MAC address of 2, fields of 3, line of 4, 7 keys, 2 sessions | holds |
| `card` | Do questions and answers stay paired, and does the mount follow the card? | 5 moves of the card, 2 that are refused or find no answer | holds |

Why the bounds are enough. *Mailbox*: two slots make the ring wrap around and
the box full, empty and neither; three threads put two on a list while the third
resumes, with equal and with different priorities. *Boot check*: three
addresses give a scan a first, a middle and a last one; three switches give off,
on and off again with a stale entry between; the mailbox of two gets full.
*Client*: three messages fill a pipe of two while one is being sent; two faults
give a failure inside a recovery; two stops give one that is read alone and one
behind a message. *Status report*: three changes are more than the mailbox
holds, so that one is dropped and later ones still pass. *Keep-alive*: the
interval is the firmware's; clocks stop at twice that, when everything that
depends on them has happened; 24 seconds are the longest delay with which the
broker stays content (with 25 a packet's run of waits outlasts its patience), and
no second is left out for packets. *Pipe*: the messages wrap around, fill the pipe
exactly and do not fit; three writers put two on the wait queue while a third
holds the mutex. *Boot*: two tries give one that goes on and a last one; three
commands are one before the objects, one for the first semaphore and one for the
second. *Settings*: two saves can be of the same or of both settings, and both fit
between a reader's open and its read; two mishaps give one in the recovery from
the other; a mailbox of one is full with the first mail. *Console*: seven keys overflow
a ring of two within a dialog, so that a setting with a key from the stack is
saved (the run without the second conjunct's exemption fails), are enough for a
line and for a name that are too long, and leave keys for another dialog. *Card*: five moves
pull the next card while the question about the one before is still out. Runs in
which the client may be stopped, the program halted, or in which bounded moves
come to an end, really stop, and do not check for deadlock.

What the violations show:

- *A status lost without a fault* (`status_report_cloud`; `README.md:15`
  promises that changes are reported). Messages read behind another are
  forgotten (`paho_mqtt_pipe.c:1130`), here the first status behind the page
  report of the online callback; `paho_mqtt_publish` has returned success.
- *A command before its objects* (`boot_early_command`; the assertion is
  `ipc.c:439`). The client subscribes while `system_boot` still waits for it to
  be online; `common_param_init` comes after that, or never if the wait was
  given up. A command of the cloud in between releases a semaphore that is
  null.

### What the properties exempt

The liveness properties, and some of the others, name the states in which the
code does not do what one would wish. Each exemption is what TLC showed to be
reachable, and the property states that nothing else stands in the way:

- `FindsComputer`: the thread pings another address for ever. It scans until the
  first match and from then on pings the address it found (`boot_check.c:199`);
  a PC that gets another lease, or whose address a shell scan has replaced by
  0.0.0.0 (`boot_check.c:89`, `129`), stays "off".
- `Recovers`, `MovesOn`: the worker waits for itself. `mqtt_online_callback`
  publishes from the only thread that empties the pipe (`mqtt.c:111`), and with
  a full pipe waits for ever. A stop given while disconnected, on the other
  hand, only clears `is_started` (`paho_mqtt_pipe.c:880`).
- `AllRead`: a wakeup for bytes the reader has already taken reaches it in its
  next `poll`, which then finds nothing, does not sleep, and does not time out
  until the socket or a writer brings something (`pipe.c:248-252`,
  `poll.c:96-114`). It is the most urgent thread, so no writer runs meanwhile.
- `NoticesSilence`: the worker waits without limit (`Unlimited`). From the 21st
  to the 25th second after `tick_ping` the timeout is negative
  (`paho_mqtt_pipe.c:1063-1070`); computed then, because a packet arrives while
  the worker waits for the answer to a ping, it is no limit at all, and if the
  connection now falls silent, before that answer, nothing wakes the worker
  unless somebody publishes. `BrokerContent` needs no exemption: while the
  connection works the answer that is owed comes and ends the wait.
- `KeepsSettings`, `ReadersTrue`: the last save failed, which the console
  announces as done (`device_config.c:118`), or a save was made by a session
  that could not read the file and so wrote empty settings over it
  (`device_config.c:195`). A write that is cut leaves an empty file.
  `ReadersTrue` lets a packet go to nobody when the file was empty or gone, or
  replaced while it was open, and a page keep what it showed; which of the
  values meant while the file was open a reader gets is left open.
- `SavesAreTyped`: as soon as the ring has lost a character the semaphore counts
  more than the ring holds, and `getchar` returns what its stack held
  (`device_config.c:30-35`): a setting with gaps, or with keys nobody typed, is
  saved. It is still made in the dialog that asked for it.
- `BackToClock`: the file can in the end be read, and the page is not one
  beyond the last that the cloud has asked for, from which the key counts on
  without end.
- `PutInIsUsable`: `sd_mount` has seen the slot empty, and the driver has no
  card. A card put in between the first two looks is taken for a mounted one
  (`filesystem.c:84`), and one pulled while the question of an unmounting is out
  stays registered. `DeafSaysSo` says in which state the watcher may wait for an
  answer that never comes (`mmcsd_core.c:668`), after which hot plug is over.
- `RunEnds`: the loops that wait for the Wi-Fi device and for the time have no
  bound.
- `HaltsEarlyOnly`, `CommandServed` take the halt of `boot_early_command` for
  granted.

## Fairness

- Threads that are ready run in the end: weak fairness of each thread's steps.
  RT-Thread is preemptive with time slices, and the threads modelled wait in
  each turn of their loops.
- Every wait on the network has a timeout (`SO_RCVTIMEO` in `boot_check.c`, the
  timeouts of `select` in `paho_mqtt_pipe.c`), so that a step that waits ends.
- `MqttClient`: an outage ends (`Heal`) and what the socket accepted arrives
  while the broker is reachable (`Deliver`); `MaxFaults` bounds the faults, so
  "when faults cease" is a part of the model and not of the property. Strong
  fairness of `ReadPipe` says that incoming packets do not keep the worker from
  the pipe for ever: the code does not enforce it, a broker that never pauses
  would starve the pipe (`paho_mqtt_pipe.c:1113-1120`). A publisher's write is
  strongly fair because `Calm` interrupts it each time the worker is ready.
- `StatusReport`: strong fairness of the report thread's steps, since `Calm`
  interrupts them each time the worker becomes ready.
- `KeepAlive`: time passes, and what is due happens before more time does;
  TCP gives up after it has repeated a packet often enough.
- `Pipe`: the reader runs; writers are strongly fair, because they run only
  while the reader is blocked, which it is for seconds at a time.
- `Boot`: a run of `system_boot` and a Wake-on-LAN thread that can go on do.
  Wi-Fi device, time server, broker and user owe nothing.
- `Settings`: the screen's thread and a session that is writing go on. User, cloud and card owe nothing; `BackToClock` has its own premise on
  them.
- `Card`: both threads run. `sd_mount` is the least urgent thread of the
  firmware; that it runs assumes that the report thread does not spin, which it
  does after `mqtt_stop` (`mqtt.c:276`).
- `Console`, `boot_early_command`: none; only safety is stated.

## Proofs

TLAPS proves every safety property the passing runs check: invariants, action
properties and the three refinements. The proofs hold for all values of the
constants under the named assumptions of each module: bounds are natural
numbers; the mailbox and the pipe have room for one entry; a message has at
least one byte; the values that stand for "nothing" and for packets of the
protocol are no messages; `system_boot` runs at the start and from the shell.
`BrokerStaysContent` rests on an assumption about the broker, not the code:
`Delay` is less than half an interval and ten seconds (25 seconds here; with 25
TLC finds it violated). Scans of the shell are what `OnMeansAddress` itself
exempts: it speaks of the check thread alone, and that a conclusion drawn from
the shell's address is corrected is left to `DetectsOff` and `FindsComputer`.

*Mailbox*

- `MailboxProofs!TypesAndWaiters`: `TypeOK` and `WaitersListed`. The inductive
  invariant `IInv` is `TypeOK` with `WaitersListed`, strengthened by the facts
  about a thread's error in each state of its call, without which a thread that
  is resumed could still stand on a list. One lemma per step of the kernel, on
  top of lemmas about `InsertAt`, `RemoveAt` and the first and last thread of a
  list.
- `MailboxProofs!NoLostWakeup`, `RoomIsFilled`: the two wakeup invariants. They
  need `IInv` and count the resumed threads: `Store` adds a mail and a resumed
  receiver together, a turn of a resumed receiver takes a mail away or finds
  none; the same for room and senders.
- `MailboxProofs!UrgentComesFirst`: `MostUrgentFirst`. The invariant `BothSorted`
  says that each list is sorted by priority. Inserting before the first thread
  less urgent keeps it so, and so does taking any thread out (a timeout).
- `MailboxProofs!MailboxIsAQueue`: `Spec => ImplementsBoundedQueue`. The slots
  from `out_offset` up to `in_offset`, around the end of the ring, hold the
  queue (`RingHoldsQueue`), and a thread that waits to send still has its mail.

*Boot check*

- `BootCheckProofs!Implements`: `Spec => ImplementsStatusSource`. The step
  simulation needs one fact: the copy of the status is the status of the last
  change (`Backed`), so that a change is numbered and alternates.
- `BootCheckProofs!OnNeedsAddress`: without shell scans `computer_status = 1`
  implies an address. Its invariant says that the thread leaves the scan with
  success only in the state in which it has tested the address.

*MQTT client*

- `MqttClientProofs!FlagsTellTheTruth`: `FlagsTruthful`, inductive as soon as
  the flags and the places of the worker have their types; "online", where the
  callback waits for ever, is one of the places with both flags set.
- `MqttClientProofs!EveryMessageAccounted`: `Accounted`. The invariant
  `AccountInv` splits the accepted messages into those in the cloud, on the
  wire, in the worker's hand, in the pipe and lost, five sets that are kept
  apart; it needs that no message is twice in the pipe or on the wire and that
  one that is being written was not accepted yet.
- `MqttClientProofs!MessagesStayInOrder`: `InOrder`, from `AccountInv` and
  `OrderInv`: the messages in each of the four places are in the order of
  acceptance, and all those in one place precede all those in the next. The
  lemmas take the order as a relation that a step may only extend at its end.

*Status report*

- `StatusReportProofs!ChangesAreConserved`, `ChangesArriveInOrder`: `Conserved`
  and `Spec => ImplementsLossyChannel`. The way through the client is not proved
  again: `StatusReportProofs` is an instance of `MqttClientProofs` with the
  reports as messages, whose lemmas about account and order leave open who
  publishes. What is added (`WayInv`) is the thread's part: each change is
  accepted, held, in the mailbox or dropped, in this order (`Spread`), and so
  reports are accepted in the order of their numbers (`Rising`).

*Pipe and keep-alive*

- `SelectProofs!BytesAreKept`, `FullPipesCut`: `NothingLost` and `CutOnlyWhenFull`.
  In the middle of a put the ring is not sound, its mirror bit is flipped and
  its index is the old one. So `PipeInv` speaks of the ring after the running
  put (`Settled`) and of what each writer has written by then (`Amount`): the
  reads so far followed by the content of `Settled` hold every byte below
  `Amount` once and in order (`Each`), and a message is left unfinished only
  where the pipe was full (`Cut`). A put appends to that content, around the end
  of the pool or not; a read takes all of it; no other step touches it.
- `SelectProofs!PipeWakes`: `NoLostWakeup`. `ReaderInv`: beside bytes the reader
  sleeps only while their writer is between its index and its wakeup.
  `RoomInv`: an empty pipe has a writer on its way, or the flag of the queue,
  which is only left set while a resumed writer has not run.
- `SelectProofs!BrokerStaysContent`: `BrokerContent`, for every interval above
  ten seconds and packets in any second. `Heard`: while no ping is owed the
  worker is in the first `select`, its timeout ends exactly `Keep - 10` seconds
  after `tick_ping`, and the broker heard of the client at most `Delay` seconds
  before `tick_ping`; while one is owed the timeout may be anything, but the
  broker heard of the client when the ping was sent, and answers in time.

*Boot*

- `BootProofs!HaltsOnlyEarly`, `CommandsAccounted`: the pointers, once set, are
  never null again, and a run that has come to its threads has set them; each
  command adds to the count of a semaphore what the threads take from it.

*Settings, screen, card*

- `StorageProofs!SettingsAreKept`, `ReadersAreTold`: the invariant `FileInv`
  relates the file, the copy of the session and what the user meant in each
  state of a session, with the file open and not. `ReaderInv` adds, for a reader
  that has opened a file with lines, that the sector it will read holds settings
  that were meant since: a save under it replaces them by others that are meant,
  and every other way to lose them ends the read. `ScreenIsTrue`: a page that
  fails leaves both the screen and `page_index_bak` alone.
- `StorageProofs!NoAnswerLeftOver`, `StatusIsTrue`, `DeafIsHonest`: the invariant
  `CardInv` says for each place of `sd_mount` what the mailboxes and the driver
  can hold.

*Console*

- `ConsoleProofs!SavesWereTyped`: ESC leaves a half-typed line behind, but with
  no command chosen; the return that chooses one clears it. Hence the line is
  of this dialog whenever a command is chosen, and the name of a pair whenever
  `cur_lvl` is 2. That its keys were typed needs `ConsoleInv`, below: without an
  overflow a notice that was taken stands for a character in the ring.
- `ConsoleProofs!NoticesAreExact`, `NoKeyBehind`, `KeysAreTyped`: `CountsAgree`,
  `NeverBehind`, `AsTyped`. An index and its mirror bit are a position on a
  circle of `2 * Size`, with the writer's some way ahead of the reader's. The
  interrupt may move both while the thread has an old copy of the reader's,
  which it then writes back; `ConsoleInv` bounds the notices from below across
  that detour, and says that without an overflow the content of the ring is
  what was typed and not handled.

`TypesAreKept` in the proof modules of `BootCheck`, `MqttClient`, `KeepAlive` and
`Boot`, and `CardTypesAreKept`: `TypeOK`. For these modules, `Mailbox` and
`Settings` types are proved and not checked by a run; the other modules state
none, their inductive invariants hold what types the proofs need.

Only model-checked, by runs on small instances, is liveness
(`MailMeetsReceiver`, `DetectsOff`, `FindsComputer`, `Recovers`, `MovesOn`,
`NothingStuck`, `NoticesSilence`, `AllRead`, `CommandServed`, `RunEnds`,
`BackToClock`, `PullIsNoticed`, `PutInIsUsable`): it rests on fairness, hence on
`ENABLED`, which the prover does not handle. The two properties that are
violated are counterexamples, for which a run is the proof.

## Not modelled

- Wi-Fi settings (`wifi_config.c`): the last access point in flash, through
  EasyFlash; board support and pure I/O.
- Scheduler, timers, lwIP (except the lookup in its ARP table), TLS, NTP, cJSON,
  FatFs, U8g2, drivers: third-party code, taken for what the callers rely on.
  Of `mmcsd_core.c` only the loop of the thread is modelled.
- What is drawn on the screen and printed on the console, and the bytes of MQTT
  and Wake-on-LAN packets.
- The shell's `mqtt_subscribe` and `mqtt_unsubscribe`, which share the worker's
  buffers without a lock, and a second worker after `mqtt_stop` and
  `mqtt_start`.
- The check and report threads that a second `system_boot` starts beside the
  first ones (`Boot` has the second Wake-on-LAN thread).
- Priorities across components: a thread that spins (`mqtt.c:276`) starves less
  urgent ones, which the fairness of `Card` excludes.
- The strings the client keeps of `system_boot`'s configuration, which a second
  run reads anew (`mqtt.c:145`), and the MAC address the scan looks for, a
  constant of the program (`boot_check.c:13`).
- What a line or a name that is too long overwrites in the console's session, and
  the shell's `ui_test`, which draws over a page.
- A semaphore that is released 65536 times and wraps around, page numbers below
  zero, and the lines below the end of the screen (`ui.c:39`).

## Plan

Modelled in this order: mailbox, boot check, MQTT client, keep-alive, status
report, pipe, boot, settings with the screen, console, card. All their safety
properties are proved. To model next: the second check and report threads, and
the shell's subscriptions; `StatusReportProofs` and `MqttClientProofs`, whose
lemmas leave open who publishes, are where their proofs would start.
