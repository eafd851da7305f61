------------------------------ MODULE Settings ------------------------------
(***************************************************************************)
(* The settings: config.txt on the card (applications/file_config.c), the  *)
(* console session that changes them (device_config.c:116, 141, 169, 195), *)
(* and those who read them, the Wake-on-LAN thread (wol.c:26) and two of   *)
(* the screen's pages (module Ui, composed here).                          *)
(*                                                                         *)
(* A file is the sequence of its lines: <<>> after the truncation, the     *)
(* settings once it is closed.  The Wi-Fi's and the broker's settings are  *)
(* one of the two here, the MAC address the other; a value is the number   *)
(* of the save it was typed for, 0 an empty one.  A file that is not there *)
(* is a card that is out.                                                  *)
(*                                                                         *)
(* FatFs (external) keeps the directory entry in memory: readers see the   *)
(* truncation at once, the card may or may not have it when it is pulled   *)
(* or the power fails.  A reader opens the file, which fixes its size and  *)
(* where it lies, and later reads the one sector it has.  The new file is  *)
(* laid where the old one was, and its sector written by close.            *)
(***************************************************************************)
EXTENDS Ui

CONSTANTS CloudPages,  \* pages the cloud asks for
          MaxSaves,    \* bound: settings typed
          MaxMishaps,  \* bound: cards pulled and resets
          MaxAsked     \* bound: pages asked for

ASSUME SettingsAssumption ==
    CloudPages \subseteq 0 .. PAGE_MAX + 1 /\ {MaxSaves, MaxMishaps, MaxAsked} \subseteq Nat

VARIABLES card,     \* the card is mounted and can be read
          file,     \* config.txt
          before,   \* what the card may still hold when a write is cut
          session,  \* none, menu, or writing the file
          good,     \* the file being written is the one that was opened
          config,   \* device_config.c:24, what the session knows
          handle,   \* what init_from_file has opened for a reader
          packet,   \* the MAC address of the last Wake-on-LAN packet
          shown,    \* ui.c: what the pages were drawn from
          since,    \* what has been meant while it was open (history)
          meant,    \* what the user has typed (history)
          unsaved,  \* the last save did not reach the card (history)
          blind,    \* no session has read the file since the reset (history)
          spoilt,   \* a save was made so (history)
          saves, mishaps, asked  \* bounds

written == <<file, before, good>>
readers == <<handle, packet, shown>>
history == <<meant, unsaved, blind, spoilt>>
bounds == <<saves, mishaps, asked>>
vars == <<ui, card, written, session, config, readers, since, history, bounds>>

Readers == {"wol", "ui"}
Blank == <<0, 0>>
MAC == 2
Fields == 1 .. 2
Values == 0 .. MaxSaves
Pairs == Values \X Values
Contents == {<<>>} \cup Pairs

TypeOK == /\ UiTypeOK
          /\ card \in BOOLEAN /\ good \in BOOLEAN
          /\ {file, before} \subseteq Contents
          /\ session \in {"none", "menu", "writing"}
          /\ {config, shown, meant} \subseteq Pairs
          /\ packet \in Values
          /\ handle \in [Readers -> {"closed", "open", "stale", "empty"}]
          /\ since \in [Readers -> SUBSET Pairs]
          /\ {unsaved, blind, spoilt} \subseteq BOOLEAN
          /\ saves \in 0 .. MaxSaves /\ mishaps \in 0 .. MaxMishaps /\ asked \in 0 .. MaxAsked

Init == /\ UiInit
        /\ card \in BOOLEAN /\ file \in {<<>>, Blank} /\ before = <<>>
        /\ session = "none" /\ good = FALSE
        /\ config = Blank /\ shown = Blank /\ packet = 0
        /\ handle = [r \in Readers |-> "closed"] /\ since = [r \in Readers |-> {}]
        /\ meant = Blank /\ unsaved = FALSE /\ blind = TRUE /\ spoilt = FALSE
        /\ saves = 0 /\ mishaps = 0 /\ asked = 0

-----------------------------------------------------------------------------
(* init_from_file *)

(* open, here of a file that may be empty *)
Open(r) == /\ card /\ handle[r] = "closed"
           /\ handle' = [handle EXCEPT ![r] = IF file = <<>> THEN "empty" ELSE "open"]
Shut(r) == /\ handle[r] # "closed"
           /\ handle' = [handle EXCEPT ![r] = "closed"]

(* What the sector holds: the old file until the new one is closed *)
OnCard == IF file = <<>> THEN before ELSE file

(* read, until the size the file had when it was opened ("stale": another  *)
(* one has been closed since, and may be longer), or an error.  A line     *)
(* that is not read, or not to its end, leaves the copy as it was.         *)
GotCleared(r, copy) ==  \* mutant: the caller's copy is cleared first
    IF handle[r] = "empty" THEN {Blank} ELSE {OnCard}
Got(r, copy) ==
    IF handle[r] = "empty" THEN {copy}
    ELSE {OnCard} \cup (IF handle[r] = "open" THEN {}
                        ELSE {copy, [OnCard EXCEPT ![MAC] = copy[MAC]]})

(* The console's session is the only writer: between its own open and read *)
(* only the card can change, which may as well have happened before.       *)
Read(copy) == IF card /\ file # <<>> THEN file ELSE copy

-----------------------------------------------------------------------------
(* The console *)

BeginUnread ==  \* mutant: without the call of init_from_file
    /\ session = "none"
    /\ session' = "menu"
    /\ blind' = (blind /\ ~card)
    /\ meant' = IF unsaved THEN config ELSE meant
    /\ UNCHANGED <<ui, card, written, config, readers, unsaved, spoilt, bounds>>
(* What the user meant by a save that failed is what the file says now *)
Begin == /\ session = "none"
         /\ session' = "menu"
         /\ config' = Read(config)
         /\ blind' = (blind /\ ~card)
         /\ meant' = IF unsaved THEN config' ELSE meant
         /\ UNCHANGED <<ui, card, written, readers, unsaved, spoilt, bounds>>
Leave == /\ session = "menu"
         /\ session' = "none"
         /\ UNCHANGED <<ui, card, written, config, readers, history, bounds>>

(* write_to_file opens with O_TRUNC; without a card the save is still      *)
(* announced as done                                                       *)
Save(f) == /\ session = "menu" /\ saves < MaxSaves
           /\ saves' = saves + 1
           /\ config' = [config EXCEPT ![f] = saves']
           /\ meant' = [meant EXCEPT ![f] = saves']
           /\ IF card
              THEN /\ session' = "writing" /\ good' = TRUE
                   /\ before' = file /\ file' = <<>>
                   /\ UNCHANGED unsaved
              ELSE /\ unsaved' = TRUE
                   /\ UNCHANGED <<written, session>>
           /\ UNCHANGED <<ui, card, readers, blind, spoilt, mishaps, asked>>

(* The writes and close, whose errors are ignored *)
Close == /\ session = "writing"
         /\ session' = "menu"
         /\ IF good THEN /\ file' = config /\ unsaved' = FALSE
                         /\ spoilt' = (spoilt \/ blind)
                    ELSE unsaved' = TRUE /\ UNCHANGED <<file, spoilt>>
         /\ good' = FALSE
         /\ handle' = [r \in Readers |->
                         IF good /\ handle[r] = "open" THEN "stale" ELSE handle[r]]
         /\ UNCHANGED <<ui, card, before, config, packet, shown, meant, blind, bounds>>

-----------------------------------------------------------------------------
(* The readers *)

(* wol_thread: the address is cleared before the file is read *)
WolOpen == /\ Open("wol")
           /\ UNCHANGED <<ui, card, written, session, config, packet, shown, history,
                          bounds>>
WolRead == /\ Shut("wol")
           /\ \E copy \in Got("wol", Blank) : packet' = copy[MAC]
           /\ UNCHANGED <<ui, card, written, session, config, shown, history, bounds>>

Asks == page_index' \in FromFile /\ page_changed_flag'
Screen == /\ handle["ui"] = "closed"
          /\ Receive \/ Idle
          /\ IF Asks /\ card THEN Open("ui") ELSE UNCHANGED handle
          /\ UNCHANGED <<card, written, session, config, packet, shown, history, bounds>>
ScreenRead == /\ Shut("ui")
              /\ shown' \in Got("ui", shown)
              /\ DrawRead
              /\ UNCHANGED <<card, written, session, config, packet, history, bounds>>
Rest == UNCHANGED <<card, written, session, config, readers, history, bounds>>
Key == (\E down \in BOOLEAN : Sample(down)) /\ Rest
Cloud == /\ asked < MaxAsked /\ asked' = asked + 1
         /\ \E p \in CloudPages : ShowPage(p)
         /\ UNCHANGED <<card, written, session, config, readers, history, saves,
                        mishaps>>

-----------------------------------------------------------------------------
(* Pulled cards and resets *)

Mishap == mishaps < MaxMishaps /\ mishaps' = mishaps + 1
          /\ UNCHANGED <<saves, asked>>
(* A write that is cut leaves nothing or what was there *)
Cut == /\ good' = FALSE
       /\ file' \in IF good THEN {file, before} ELSE {file}
       /\ UNCHANGED before

CardOut == /\ card /\ Mishap
           /\ card' = FALSE
           /\ Cut /\ unsaved' = (unsaved \/ good)
           /\ handle' = [r \in Readers |->
                           IF handle[r] = "closed" THEN "closed" ELSE "empty"]
           /\ UNCHANGED <<ui, session, config, packet, shown, meant, blind, spoilt>>
CardIn == /\ ~card
          /\ card' = TRUE
          /\ UNCHANGED <<ui, written, session, config, readers, history, bounds>>

Reset == /\ Mishap
         /\ Cut
         /\ session' = "none" /\ config' = Blank /\ shown' = Blank /\ packet' = 0
         /\ handle' = [r \in Readers |-> "closed"]
         /\ meant' = IF file' = <<>> THEN Blank ELSE file'
         /\ unsaved' = FALSE /\ blind' = TRUE /\ spoilt' = FALSE
         /\ page_mail' = <<>>
         /\ page_index' = 0 /\ page_index_bak' = 0 /\ page_changed_flag' = FALSE
         /\ screen' = NoPage /\ key_value_bak' = FALSE
         /\ UNCHANGED card

-----------------------------------------------------------------------------
(* What a reader may take for the settings: what was meant while it had    *)
(* the file open, or anything if the file was not what was meant.          *)
Follow == since' = [r \in Readers |->
                      IF handle'[r] \in {"closed", "empty"} THEN {}
                      ELSE IF unsaved' \/ spoilt' THEN Pairs
                      ELSE since[r] \cup {meant'}]

Next == /\ \/ Begin \/ Leave \/ (\E f \in Fields : Save(f)) \/ Close
           \/ WolOpen \/ WolRead \/ Screen \/ ScreenRead \/ Key \/ Cloud
           \/ CardOut \/ CardIn \/ Reset
        /\ Follow

(* The screen's thread and a save that has begun go on; the user, the      *)
(* cloud, the card and the Wake-on-LAN thread owe nothing.                 *)
Spec == /\ Init /\ [][Next]_vars
        /\ WF_vars((Screen \/ ScreenRead) /\ Follow) /\ WF_vars(Close /\ Follow)

-----------------------------------------------------------------------------
(* Saving one setting keeps the other (device_config.c:116): whatever      *)
(* cards, sessions and resets come between, the file holds what the user   *)
(* meant, unless the last save failed, or one was made by a session that   *)
(* had not been able to read the file since the reset.                     *)
KeepsSettings ==
    file # <<>> /\ ~unsaved /\ ~spoilt => file = meant

(* The computer that is woken and the settings that are shown are those    *)
(* the user meant at some time while the reader had the file open, however *)
(* saves, pulled cards and the two steps of the read fall together.  A     *)
(* file that is empty, gone or longer than it was leaves out a setting: a  *)
(* packet then goes to nobody (wol.c:26), a page shows what it showed.     *)
ReadersTrue ==
    [][\/ /\ packet' \in {packet} \cup {s[MAC] : s \in since["wol"]}
                         \cup (IF handle["wol"] = "open" THEN {} ELSE {0})
          /\ \A f \in Fields :
                shown'[f] \in {shown[f]} \cup {s[f] : s \in since["ui"]}
       \/ Reset]_vars

(* The screen shows the page its thread believes it shows, from which the  *)
(* next press of the key counts (ui.c:126).                                *)
ScreenTrue == screen # NoPage => screen = page_index_bak

(* The key leads back to the clock from any page that exists, however      *)
(* presses, the cloud's pages and a full mailbox fall together, as long as *)
(* the file can be read in the end (ui.c:99).  From a blank page the cloud *)
(* has asked for the key counts on.                                        *)
Pressed == []<>key_value_bak /\ []<>~key_value_bak
BackToClock == Pressed /\ <>[]card
               => []<>(page_index = 0) \/ <>[](page_index = Beyond /\ asked > 0)
=============================================================================
