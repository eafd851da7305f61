----------------------------- MODULE MCMailbox -----------------------------
(* Three threads of two priorities and two mails on a mailbox of Size slots. *)
EXTENDS Mailbox

CONSTANTS ui, mqtt, key, m1, m2

MCThreads == {ui, mqtt, key}
MCMails == {m1, m2}
MCPrio == (ui :> 10 @@ mqtt :> 10 @@ key :> 25)
=============================================================================
