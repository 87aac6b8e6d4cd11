------------------------------- MODULE MC_Mpi -------------------------------
(* The mailboxes and the windows of the MPI shim, which share no state, in  *)
(* one run: Init picks the part that runs, the other stays as it is.        *)
EXTENDS MpiMailbox, MpiWindow, TLC

VARIABLE part

\* Ranks 1 and 2 are in one virtual machine, rank 3 in another.
MCVms == [r \in WinRanks |-> IF r = 3 THEN "y" ELSE "x"]

SenderSymmetry == Permutations(Senders)

MpiInit ==
  /\ part \in {"mailbox", "window"}
  /\ MailInit
  /\ WinInit /\ (part # "window" => sync_mode = "fence")

MpiNext ==
  \/ part = "mailbox" /\ MailNext /\ UNCHANGED <<part, winVars>>
  \/ part = "window" /\ WinNext /\ UNCHANGED <<part, mailVars>>

MpiSpec == MpiInit /\ [][MpiNext]_<<part, mailVars, winVars>>

\* The indices of a mailbox and the epochs of a window stay in order: the tail
\* behind the head, no more claims than slots, no rank a fence ahead of another.
MpiTypeOK == MailTypeOK /\ WinTypeOK
=============================================================================
