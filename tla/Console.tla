------------------------------ MODULE Console -------------------------------
(***************************************************************************)
(* The console session of applications/device_config.c: the interrupt of   *)
(* the serial line puts characters into a ring buffer (module RingBuffer)  *)
(* and releases a semaphore; the shell's thread takes them, edits a line   *)
(* and hands it to cmd_handle.                                             *)
(*                                                                         *)
(* The interrupt may come between any two steps of the thread; a full ring *)
(* loses its oldest character and the semaphore is released all the same.  *)
(* Keys are a few characters and the three that edit; a MAC address is a   *)
(* line of MacLen characters (17 in the code).  Each key of a line carries *)
(* the number of the dialog it was handled in, and whether it was in the   *)
(* ring or on the stack, for the properties.                               *)
(* What write_to_file does with a setting is module Settings'.             *)
(***************************************************************************)
EXTENDS RingBuffer

CONSTANTS Characters,  \* keys other than ESC, backspace and return
          MacLen,
          LineSize,    \* cur_line
          FieldSize,   \* STR_SIZE
          MaxKeys,     \* bound: keys typed
          MaxSessions  \* bound: calls of system_config

VARIABLES at,          \* where system_config is
          fifo, rx_notice, \* console_rx_fifo and the semaphore's count
          loaded,      \* the ring as getchar has found it
          ch,          \* what it has found
          cur_cmd, cur_lvl, config_temp, \* static, kept between sessions
          cur_line,
          halted,      \* an assertion has failed, or memory is overwritten
          saved,       \* the setting written by the last key
          dialog,      \* counts the commands chosen (history)
          pending,     \* typed and not handled yet (history)
          overflowed,  \* a character of this session was lost (history)
          keys, sessions   \* bounds

ring == <<fifo, rx_notice, pending, overflowed, keys>>
editor == <<cur_cmd, cur_lvl, config_temp, cur_line, saved, dialog>>
vars == <<ring, editor, at, loaded, ch, halted, sessions>>

ESC == "ESC"
BACKSPACE == "BACKSPACE"
RETURN == "RETURN"
Keys == Characters \cup {ESC, BACKSPACE, RETURN}
CMD_NULL == "0"
Pairs == {"1", "2"}      \* the Wi-Fi's and the broker's name and password
MAC_CMD == "3"
Commands == Pairs \cup {MAC_CMD}
Taking == {"take", "look", "advance"}

ASSUME SizesAssumption == LineSize \in Nat /\ FieldSize \in Nat

Init == /\ at = "outside" /\ fifo = Create /\ rx_notice = 0
        /\ loaded = Create /\ ch = RETURN
        /\ cur_cmd = CMD_NULL /\ cur_lvl = 0 /\ config_temp = <<>> /\ cur_line = <<>>
        /\ halted = FALSE /\ saved = <<>> /\ dialog = 0
        /\ pending = <<>> /\ overflowed = FALSE
        /\ keys = 0 /\ sessions = 0

-----------------------------------------------------------------------------
(* config_init: the interrupt's routine is set before its semaphore and    *)
(* its ring exist                                                          *)

Hook == /\ at = "outside" /\ sessions < MaxSessions
        /\ sessions' = sessions + 1
        /\ at' = "hooked" /\ cur_cmd' = CMD_NULL /\ cur_line' = <<>> /\ saved' = <<>>
        /\ UNCHANGED <<ring, loaded, ch, cur_lvl, config_temp, halted, dialog>>
PrepareKeeps ==  \* mutant: the ring of the session before is used again
    /\ at = "hooked"
    /\ at' = "take" /\ fifo' = fifo /\ rx_notice' = DataLen(fifo)
    /\ pending' = <<>> /\ overflowed' = FALSE
    /\ UNCHANGED <<editor, loaded, ch, halted, keys, sessions>>
Prepare == /\ at = "hooked"
           /\ at' = "take" /\ fifo' = Create /\ rx_notice' = 0
           /\ pending' = <<>> /\ overflowed' = FALSE
           /\ UNCHANGED <<editor, loaded, ch, halted, keys, sessions>>

-----------------------------------------------------------------------------
(* console_rx_ind, in the interrupt.  Before the ring exists it finds a    *)
(* null pointer, or in a later session the freed ring of the one before.   *)
PutOnEmpty(k) ==  \* mutant: only the first character is notified
    /\ fifo' = Forced(fifo, k)
    /\ rx_notice' = IF IsEmpty(fifo) THEN rx_notice + 1 ELSE rx_notice
Put(k) == fifo' = Forced(fifo, k) /\ rx_notice' = rx_notice + 1
Typed == keys < MaxKeys /\ keys' = keys + 1
Interrupt(k) == /\ at \in Taking /\ Typed
                /\ Put(k)
                /\ overflowed' = (overflowed \/ IsFull(fifo))
                /\ pending' = IF overflowed' THEN <<>> ELSE Append(pending, k)
                /\ UNCHANGED <<editor, at, loaded, ch, halted, sessions>>
EarlyInterrupt == /\ at = "hooked" /\ Typed
                  /\ halted' \in IF sessions = 1 THEN {TRUE} ELSE BOOLEAN
                  /\ UNCHANGED <<fifo, rx_notice, pending, overflowed, editor, at, loaded,
                                 ch, sessions>>

-----------------------------------------------------------------------------
(* console_getchar *)

TakeUncounted ==  \* mutant: the count is not taken down
    /\ at = "take" /\ rx_notice > 0
    /\ at' = "look"
    /\ UNCHANGED <<ring, editor, loaded, ch, halted, sessions>>
Take == /\ at = "take" /\ rx_notice > 0
        /\ rx_notice' = rx_notice - 1
        /\ at' = "look"
        /\ UNCHANGED <<fifo, pending, overflowed, keys, editor, loaded, ch, halted,
                       sessions>>
(* With nothing in the ring ch is left as it was on the stack *)
Look == /\ at = "look"
        /\ IF IsEmpty(fifo) THEN ch' \in Keys ELSE ch' = Content(fifo)[1]
        /\ at' = "advance" /\ loaded' = fifo
        /\ UNCHANGED <<ring, editor, halted, sessions>>
(* The index is read again for the assignment, or not: an interrupt that   *)
(* moved it in between is undone or adds up                                *)
Advance == IF IsEmpty(loaded) THEN UNCHANGED fifo
           ELSE \E from \in {fifo, loaded} :
                   fifo' = [fifo EXCEPT
                               !.read_index = Taken(from, 1).read_index,
                               !.read_mirror = Taken(from, 1).read_mirror]

-----------------------------------------------------------------------------
(* cmd_handle, with a line that is not empty *)

Choose == /\ cur_cmd = CMD_NULL
          /\ IF Len(cur_line) = 1 /\ cur_line[1].key \in Commands
             THEN cur_cmd' = cur_line[1].key /\ cur_lvl' = 1 /\ dialog' = dialog + 1
             ELSE UNCHANGED <<cur_cmd, cur_lvl, dialog>>
          /\ saved' = <<>> /\ UNCHANGED config_temp
Name == /\ cur_cmd \in Pairs /\ cur_lvl = 1
        /\ config_temp' = cur_line /\ cur_lvl' = 2
        /\ saved' = <<>> /\ UNCHANGED <<cur_cmd, dialog>>
Password == /\ cur_cmd \in Pairs /\ cur_lvl = 2
            /\ saved' = <<config_temp, cur_line>>
            /\ cur_cmd' = CMD_NULL /\ cur_lvl' = 0
            /\ UNCHANGED <<config_temp, dialog>>
Mac == /\ cur_cmd = MAC_CMD
       /\ IF Len(cur_line) = MacLen THEN saved' = <<cur_line>> /\ cur_cmd' = CMD_NULL
                                    ELSE saved' = <<>> /\ UNCHANGED cur_cmd
       /\ UNCHANGED <<cur_lvl, config_temp, dialog>>
cmd_handle == Choose \/ Name \/ Password \/ Mac

-----------------------------------------------------------------------------
(* The loop of config_init, with the character that was taken *)

Same == saved' = <<>> /\ UNCHANGED <<cur_cmd, cur_lvl, config_temp, dialog>>
(* What has been typed of the line stays *)
Escape == /\ ch = ESC
          /\ IF cur_cmd # CMD_NULL THEN at' = "take" /\ cur_cmd' = CMD_NULL
                                   ELSE at' = "outside" /\ UNCHANGED cur_cmd
          /\ saved' = <<>> /\ UNCHANGED <<cur_lvl, config_temp, cur_line, dialog>>
Back == /\ ch = BACKSPACE
        /\ cur_line' = IF cur_line = <<>> THEN <<>>
                       ELSE SubSeq(cur_line, 1, Len(cur_line) - 1)
        /\ at' = "take" /\ Same
ReturnKeeps ==  \* mutant: the line is cleared only by a save
    /\ ch = RETURN
    /\ IF cur_line # <<>> THEN cmd_handle ELSE Same
    /\ cur_line' = IF saved' = <<>> THEN cur_line ELSE <<>>
    /\ at' = "take"
Return == /\ ch = RETURN
          /\ IF cur_line # <<>> THEN cmd_handle ELSE Same
          /\ cur_line' = <<>>
          /\ at' = "take"
Character == /\ ch \in Characters
             /\ cur_line' = Append(cur_line, [key |-> ch, in |-> dialog,
                                              typed |-> ~IsEmpty(loaded)])
             /\ at' = "take" /\ Same
(* A line longer than cur_line, or a name or password longer than its      *)
(* field, is stored all the same.  What that overwrites is not modelled:   *)
(* the session ends here.                                                  *)
TooLong == \/ ch \in Characters /\ Len(cur_line) = LineSize
           \/ ch = RETURN /\ cur_cmd \in Pairs /\ Len(cur_line) >= FieldSize
Overrun == /\ TooLong
           /\ halted' = TRUE
           /\ at' = "take" /\ Same /\ UNCHANGED cur_line
Handle == /\ at = "advance"
          /\ Advance
          /\ pending' = IF overflowed THEN <<>> ELSE Tail(pending)
          /\ loaded' = Create /\ ch' = RETURN
          /\ \/ Overrun
             \/ /\ ~TooLong /\ UNCHANGED halted
                /\ Escape \/ Back \/ Return \/ Character
          /\ UNCHANGED <<rx_notice, overflowed, keys, sessions>>

-----------------------------------------------------------------------------
Thread == Prepare \/ Take \/ Look \/ Handle
Next == /\ ~halted
        /\ Hook \/ Thread \/ EarlyInterrupt \/ \E k \in Keys : Interrupt(k)

Spec == Init /\ [][Next]_vars

-----------------------------------------------------------------------------
InHand == IF at \in {"look", "advance"} THEN 1 ELSE 0

(* The count of the semaphore and the characters in the ring agree as long *)
(* as none was lost, with the interrupt between any two steps of getchar   *)
(* (device_config.c:33 and 47).                                            *)
CountsAgree == at \in Taking /\ ~overflowed => rx_notice + InHand = DataLen(fifo)

(* Even after characters were lost, and indices with them, no character    *)
(* lies in the ring without a notice: the session never falls a key behind.*)
NeverBehind == at \in Taking => rx_notice + InHand >= DataLen(fifo)

(* The characters the session handles are the ones that were typed, each   *)
(* once and in order, as long as none was lost.                            *)
AsTyped == at \in Taking /\ ~overflowed
           => /\ Content(fifo) = pending
              /\ at = "advance" => ch = pending[1]

(* A setting that is saved consists of keys handled after its command was  *)
(* chosen, the name and the password in one dialog, whatever was left of a *)
(* line when ESC was pressed (device_config.c:214, 231 and 240).  Somebody *)
(* typed each of them, unless the session has lost a character: then the   *)
(* notices outnumber the ring, and a key may be what getchar found on its  *)
(* stack (device_config.c:30-35).                                          *)
SavesAreTyped ==
    \A i \in DOMAIN saved : \A m \in DOMAIN saved[i] :
        /\ saved[i][m].in = dialog
        /\ saved[i][m].typed \/ overflowed
=============================================================================
