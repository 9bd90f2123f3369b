------------------------------- MODULE MailQueue -------------------------------
(***************************************************************************)
(* What the verify server's MailClient promises to the callers of          *)
(* send_mail (the comment at the head of verify_server/mail_client.hpp):   *)
(* the call only queues the mail, mails are handed over one at a time in   *)
(* the order of the calls, and the process does not end before all are.    *)
(* VerifyServer, with its threads, mutex, condition variable and shutdown, *)
(* implements this module.                                                 *)
(***************************************************************************)
EXTENDS Integers, Sequences

CONSTANT Mails

VARIABLES
    taken,      \* the mails that send_mail took
    handed,     \* the mails handed to /usr/bin/mail
    open        \* the process runs

vars == <<taken, handed, open>>

Init == taken = <<>> /\ handed = <<>> /\ open = TRUE

Take(m) ==
    /\ open
    /\ taken' = Append(taken, m)
    /\ UNCHANGED <<handed, open>>

HandOver ==
    /\ open /\ Len(handed) < Len(taken)
    /\ handed' = Append(handed, taken[Len(handed) + 1])
    /\ UNCHANGED <<taken, open>>

Close ==
    /\ open /\ handed = taken
    /\ open' = FALSE
    /\ UNCHANGED <<taken, handed>>

Next == (\E m \in Mails : Take(m)) \/ HandOver \/ Close

Safety == Init /\ [][Next]_vars

(* Every mail is handed over in the end.                                   *)
Spec == Safety /\ WF_vars(HandOver)
================================================================================
