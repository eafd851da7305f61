--------------------------------- MODULE Ui ---------------------------------
(***************************************************************************)
(* The screen and the key (applications/ui.c:49, system_boot.c:45): pages  *)
(* asked for by the cloud or by a press of the key go through page_mail to *)
(* the screen's thread.  Module Settings composes this one with the file   *)
(* two of the pages are read from.                                         *)
(*                                                                         *)
(* A page beyond the last one is a blank screen, from which the key counts *)
(* on; Beyond stands for all of them, except 100, which is the key's mail. *)
(* The cloud asks for no negative page.  The shell's commands that draw    *)
(* (ui.c:146) are left out.                                                *)
(***************************************************************************)
EXTENDS Integers, Sequences

CONSTANTS PAGE_MAX,
          PageMails    \* mails page_mail holds

ASSUME UiAssumption == PAGE_MAX \in Nat /\ PAGE_MAX >= 2 /\ PageMails \in Nat \ {0}

VARIABLES page_mail,       \* what is in the mailbox
          page_index, page_index_bak, page_changed_flag,  \* ui_thread_body
          screen,          \* the page the screen shows, or NoPage
          key_value_bak    \* key_check: the key was down at the last look

thread == <<page_index, page_index_bak, page_changed_flag>>
ui == <<page_mail, thread, screen, key_value_bak>>

Beyond == PAGE_MAX + 1
Pages == 0 .. Beyond
NextPage == 100  \* the mail of the key
FromFile == {1, 2}
NoPage == -1     \* what system_boot has written is on the screen

UiTypeOK == /\ page_mail \in Seq(Pages \cup {NextPage}) /\ Len(page_mail) <= PageMails
            /\ page_index \in Pages /\ page_index_bak \in Pages
            /\ page_changed_flag \in BOOLEAN
            /\ screen \in Pages \cup {NoPage}
            /\ key_value_bak \in BOOLEAN

UiInit == /\ page_mail = <<>>
          /\ page_index = 0 /\ page_index_bak = 0 /\ page_changed_flag = FALSE
          /\ screen = NoPage
          /\ key_value_bak = FALSE

(* rt_mb_send, whose result is ignored *)
Send(m) == page_mail' = IF Len(page_mail) < PageMails THEN Append(page_mail, m)
                                                      ELSE page_mail

(* The page a mail asks for *)
TurnWithoutEnd(m) ==   \* mutant: PAGE_MAX is not compared
    IF m # NextPage THEN m
    ELSE IF page_index_bak = Beyond THEN Beyond ELSE page_index_bak + 1
Turn(m) == IF m # NextPage THEN m
           ELSE IF page_index_bak = PAGE_MAX THEN 0
           ELSE IF page_index_bak = Beyond THEN Beyond
           ELSE page_index_bak + 1

(* The rest of a turn of the loop: the clock is drawn each time, another   *)
(* page once.  A page from the file is not drawn yet: the thread waits for *)
(* the card in read, or leaves with continue, to try again next time.      *)
DrawForgets(page, changed) ==  \* mutant: the page is taken for drawn
    /\ page_index_bak' = page
    /\ screen' = IF page = 0 \/ (changed /\ page \notin FromFile) THEN page ELSE screen
    /\ page_changed_flag' = FALSE
Draw(page, changed) ==
    LET unread == changed /\ page \in FromFile
    IN  /\ page_index_bak' = IF unread THEN page_index_bak ELSE page
        /\ screen' = IF page = 0 \/ (changed /\ ~unread) THEN page ELSE screen
        /\ page_changed_flag' = (changed /\ (page = 0 \/ unread))

(* One turn, with a mail or after the timeout of the wait *)
Receive == /\ page_mail # <<>>
           /\ page_mail' = Tail(page_mail)
           /\ page_index' = Turn(Head(page_mail))
           /\ Draw(page_index', TRUE)
           /\ UNCHANGED key_value_bak
Idle == /\ page_mail = <<>>
        /\ Draw(page_index, page_changed_flag)
        /\ UNCHANGED <<page_index, page_mail, key_value_bak>>

(* The end of a turn that has read the file *)
DrawRead == /\ page_index_bak' = page_index /\ screen' = page_index
            /\ page_changed_flag' = FALSE
            /\ UNCHANGED <<page_mail, page_index, key_value_bak>>

(* key_check, once in ten milliseconds: the key is down, or it is not *)
Sample(down) == /\ IF down /\ ~key_value_bak THEN Send(NextPage) ELSE UNCHANGED page_mail
                /\ key_value_bak' = down
                /\ UNCHANGED <<thread, screen>>

ShowPage(page) == Send(page) /\ UNCHANGED <<thread, screen, key_value_bak>>
=============================================================================
