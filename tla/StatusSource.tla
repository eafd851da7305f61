---------------------------- MODULE StatusSource ----------------------------
(***************************************************************************)
(* What the check thread promises to the report thread: changes of the     *)
(* computer's status, off first and then in turn on and off, each put once *)
(* into computer_status_mail in the order they were seen, or dropped when  *)
(* the mailbox is full.  How changes are seen is the business of           *)
(* BootCheck, which implements this specification.                         *)
(*                                                                         *)
(* The number of a change is not in the code: it tells the mails apart.    *)
(***************************************************************************)
EXTENDS Integers, Sequences

CONSTANT MailSize  \* mails computer_status_mail holds (common_param.c:11)

VARIABLES changes,               \* how many changes were seen so far
          computer_status_mail,  \* the mails, oldest first
          dropped                \* the changes no mail was sent for

source == <<changes, computer_status_mail, dropped>>

StatusOf(n) == (n + 1) % 2
Mail(n) == [nth |-> n, status |-> StatusOf(n)]

Init == changes = 0 /\ computer_status_mail = <<>> /\ dropped = {}

SendMailFirst(m) ==   \* mutant: the newest mail is taken first
    IF Len(computer_status_mail) < MailSize
    THEN /\ computer_status_mail' = <<m>> \o computer_status_mail
         /\ UNCHANGED dropped
    ELSE /\ dropped' = dropped \cup {m.nth}
         /\ UNCHANGED computer_status_mail
(* rt_mb_send, whose result is ignored *)
SendMail(m) ==
    IF Len(computer_status_mail) < MailSize
    THEN /\ computer_status_mail' = Append(computer_status_mail, m)
         /\ UNCHANGED dropped
    ELSE /\ dropped' = dropped \cup {m.nth}
         /\ UNCHANGED computer_status_mail

Change == /\ changes' = changes + 1
          /\ SendMail(Mail(changes + 1))

(* rt_mb_recv by the report thread *)
Take == /\ computer_status_mail # <<>>
        /\ computer_status_mail' = Tail(computer_status_mail)
        /\ UNCHANGED <<changes, dropped>>

Next == Change \/ Take

Spec == Init /\ [][Next]_source
=============================================================================
