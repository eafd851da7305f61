-------------------------------- MODULE Card --------------------------------
(***************************************************************************)
(* The slot of the SD card: sd_mount watches a pin and mounts and unmounts *)
(* (board/port/filesystem.c:43), mmcsd_detect answers it when it asks for  *)
(* a look at the bus (rt-thread/components/drivers/sdio/mmcsd_core.c:616). *)
(* They talk through two mailboxes.  Module StorageProofs extends this one *)
(* and Settings.                                                           *)
(*                                                                         *)
(* External: the card and the one who pulls it, and FatFs, which can mount *)
(* a card only if it has been initialised since it was put in.             *)
(***************************************************************************)
EXTENDS Integers

CONSTANTS MaxMoves,    \* bound: how often the card is pulled or put in
          MaxRefusals  \* bound: how often a card refuses or does not answer

ASSUME CardAssumption == MaxMoves \in Nat /\ MaxRefusals \in Nat

VARIABLES inserted,    \* the pin
          answers,     \* the card in the slot has been initialised
          host_card,   \* host->card is not NULL: the device sd0 exists
          detect_mb,   \* mails to mmcsd_detect
          hotpluge_mb, \* and from it
          at, re_sd_check_pin, \* sd_mount
          mounted, sd_status,
          moves, refusals      \* bounds

slot == <<inserted, answers, moves>>
driver == <<host_card, detect_mb, hotpluge_mb, refusals>>
mount == <<at, re_sd_check_pin, mounted, sd_status>>
CardVars == <<slot, driver, mount>>

Places == {"start", "put_in", "pulled", "mount", "mount_wait", "dfs_mount",
           "unmount", "unmount_wait"}
Waits == {"mount_wait", "unmount_wait"}
Usable == mounted /\ inserted /\ answers

CardTypeOK ==
    /\ inserted \in BOOLEAN /\ answers \in BOOLEAN /\ moves \in 0 .. MaxMoves
    /\ host_card \in BOOLEAN /\ refusals \in 0 .. MaxRefusals
    /\ detect_mb \in 0 .. 1 /\ hotpluge_mb \in 0 .. 1
    /\ at \in Places /\ re_sd_check_pin \in BOOLEAN
    /\ mounted \in BOOLEAN /\ sd_status \in 0 .. 1

CardInit == /\ inserted \in BOOLEAN /\ answers = FALSE /\ moves = 0
            /\ host_card = FALSE /\ detect_mb = 0 /\ hotpluge_mb = 0
            /\ refusals = 0
            /\ at = "start" /\ re_sd_check_pin = TRUE
            /\ mounted = FALSE /\ sd_status = 0

-----------------------------------------------------------------------------
(* sd_mount *)

Looks == UNCHANGED <<slot, driver, mounted, sd_status>>

(* Line 86: a card that is not there is taken for one that has been seen *)
Start == /\ at = "start"
         /\ at' = IF inserted THEN "mount" ELSE "put_in"
         /\ Looks /\ UNCHANGED re_sd_check_pin
(* Lines 93-96 *)
LookPutIn == /\ at = "put_in"
             /\ re_sd_check_pin' = (re_sd_check_pin \/ inserted)
             /\ at' = IF ~re_sd_check_pin /\ inserted THEN "mount" ELSE "pulled"
             /\ Looks
(* Lines 98-101 *)
LookPulled == /\ at = "pulled"
              /\ re_sd_check_pin' = (re_sd_check_pin /\ inserted)
              /\ at' = IF re_sd_check_pin /\ ~inserted THEN "unmount" ELSE "put_in"
              /\ Looks

(* An old answer is thrown away before the question *)
AskTwice ==  \* mutant: what is asked again and again piles up
    /\ detect_mb' = detect_mb + 2 /\ hotpluge_mb' = 0
    /\ UNCHANGED <<host_card, refusals>>
Ask == /\ detect_mb' = detect_mb + 1 /\ hotpluge_mb' = 0
       /\ UNCHANGED <<host_card, refusals>>
Answered == /\ hotpluge_mb > 0
            /\ hotpluge_mb' = hotpluge_mb - 1
            /\ UNCHANGED <<host_card, detect_mb, refusals>>

MountUnasked ==  \* mutant: the driver is not asked to look for the card
    /\ at = "mount" /\ at' = "dfs_mount"
    /\ UNCHANGED <<driver, slot, re_sd_check_pin, mounted, sd_status>>
Mount == /\ at = "mount"
         /\ IF host_card THEN at' = "dfs_mount" /\ UNCHANGED driver
                         ELSE at' = "mount_wait" /\ Ask
         /\ UNCHANGED <<slot, re_sd_check_pin, mounted, sd_status>>
MountAnswered == /\ at = "mount_wait" /\ Answered
                 /\ at' = "dfs_mount"
                 /\ UNCHANGED <<slot, re_sd_check_pin, mounted, sd_status>>
DfsMountTrusts ==  \* mutant: the result of dfs_mount is not looked at
    /\ at = "dfs_mount"
    /\ at' = "pulled"
    /\ IF host_card THEN mounted' = (inserted /\ answers) /\ sd_status' = 1
                    ELSE UNCHANGED <<mounted, sd_status>>
    /\ UNCHANGED <<slot, driver, re_sd_check_pin>>
DfsMount == /\ at = "dfs_mount"
            /\ at' = "pulled"
            /\ IF host_card THEN /\ mounted' = (inserted /\ answers)
                                 /\ sd_status' = IF mounted' THEN 1 ELSE 0
                            ELSE UNCHANGED <<mounted, sd_status>>
            /\ UNCHANGED <<slot, driver, re_sd_check_pin>>

Unmount == /\ at = "unmount"
           /\ at' = "unmount_wait" /\ Ask
           /\ mounted' = FALSE
           /\ UNCHANGED <<slot, re_sd_check_pin, sd_status>>
UnmountAnsweredForgets ==  \* mutant: sd_status is not cleared
    /\ at = "unmount_wait" /\ Answered
    /\ at' = "put_in"
    /\ UNCHANGED <<slot, re_sd_check_pin, mounted, sd_status>>
UnmountAnswered == /\ at = "unmount_wait" /\ Answered
                   /\ at' = "put_in" /\ sd_status' = 0
                   /\ UNCHANGED <<slot, re_sd_check_pin, mounted>>

-----------------------------------------------------------------------------
(* mmcsd_detect, one question *)

Removed == /\ host_card' = FALSE /\ hotpluge_mb' = hotpluge_mb + 1
           /\ UNCHANGED <<answers, refusals>>
Initialised == /\ host_card' = TRUE /\ answers' = TRUE
               /\ hotpluge_mb' = hotpluge_mb + 1
               /\ UNCHANGED refusals
Refused == /\ refusals < MaxRefusals
           /\ refusals' = refusals + 1 /\ hotpluge_mb' = hotpluge_mb + 1
           /\ UNCHANGED <<host_card, answers>>
Silence == UNCHANGED <<host_card, answers, hotpluge_mb, refusals>>
Mute == /\ refusals < MaxRefusals  \* neither an SD nor an MMC card
        /\ refusals' = refusals + 1
        /\ UNCHANGED <<host_card, answers, hotpluge_mb>>
DetectSilent ==  \* mutant: a removed card is no news either
    /\ detect_mb > 0 /\ detect_mb' = detect_mb - 1
    /\ \/ /\ host_card /\ host_card' = FALSE
          /\ UNCHANGED <<answers, hotpluge_mb, refusals>>
       \/ ~host_card /\ inserted /\ (Initialised \/ Refused \/ Mute)
       \/ ~host_card /\ ~inserted /\ Silence
    /\ UNCHANGED <<inserted, moves, mount>>
Detect == /\ detect_mb > 0 /\ detect_mb' = detect_mb - 1
          /\ \/ host_card /\ Removed
             \/ ~host_card /\ inserted /\ (Initialised \/ Refused \/ Mute)
             \/ ~host_card /\ ~inserted /\ Silence
          /\ UNCHANGED <<inserted, moves, mount>>

(* Somebody pulls the card or puts one in *)
Move == /\ moves < MaxMoves /\ moves' = moves + 1
        /\ inserted' = ~inserted /\ answers' = FALSE
        /\ UNCHANGED <<driver, mount>>

-----------------------------------------------------------------------------
SdMount == Start \/ LookPutIn \/ LookPulled \/ Mount \/ MountAnswered \/ DfsMount
           \/ Unmount \/ UnmountAnswered
CardNext == SdMount \/ Detect \/ Move

(* Both threads run; that sd_mount, the least urgent one, does is the case *)
(* as long as nothing more urgent loops without a delay (mqtt.c:276).      *)
CardSpec == /\ CardInit /\ [][CardNext]_CardVars
            /\ WF_CardVars(SdMount) /\ WF_CardVars(Detect)

-----------------------------------------------------------------------------
(* A question has one answer, read by the one who asked: none is left over *)
(* to end a later wait too early (filesystem.c:50 and 76 never find one).  *)
OneAnswer == /\ detect_mb + hotpluge_mb <= 1
             /\ detect_mb + hotpluge_mb = 1 => at \in Waits

(* sd_status says 1 of a card that is mounted, or while the unmounting     *)
(* waits for its answer (filesystem.c:79).                                 *)
StatusTrue == sd_status = 1 => mounted \/ at = "unmount_wait"

(* A card without an answer leaves sd_mount waiting for ever               *)
(* (mmcsd_core.c:668): only with sd_status 0, and never with the old card  *)
(* still registered.                                                       *)
Deaf == at \in Waits /\ detect_mb = 0 /\ hotpluge_mb = 0
DeafSaysSo == Deaf => sd_status = 0 /\ ~mounted /\ ~host_card

(* A card that is pulled for good is noticed in the end.                   *)
PullIsNoticed == <>[]~inserted => <>[](sd_status = 0 /\ ~mounted)

(* A card that is put in and left there becomes usable, if sd_mount has    *)
(* seen the slot empty, the only state in which line 93 looks for a card,  *)
(* the driver has no card (the question of an unmounting may have found    *)
(* one that was pulled since) and the card does not refuse.                *)
PutInIsUsable ==
    [](at = "put_in" /\ ~re_sd_check_pin /\ ~host_card /\ []inserted
       /\ [](refusals = MaxRefusals)
       => <>[]Usable)

=============================================================================
