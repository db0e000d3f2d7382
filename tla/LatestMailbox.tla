---------------------------- MODULE LatestMailbox ----------------------------
(***************************************************************************)
(* What LatestTripleBuffer promises its two threads, with no buffers in it:*)
(* a mailbox that holds at most one packet.  Depositing replaces whatever  *)
(* is pending; collecting empties the box and delivers the packet that was *)
(* in it, so the consumer only ever sees the newest packet and each packet *)
(* at most once.                                                           *)
(***************************************************************************)
EXTENDS Naturals

VARIABLES
  newest,     \* number of the last packet deposited, 0 before the first
  box,        \* the pending packet, 0 when the box is empty
  delivered,  \* the last packet collected, 0 before the first
  replaced    \* how many pending packets a deposit has replaced

mailboxVars == <<newest, box, delivered, replaced>>

Init ==
  /\ newest = 0
  /\ box = 0
  /\ delivered = 0
  /\ replaced = 0

Deposit ==
  /\ newest' = newest + 1
  /\ box' = newest + 1
  /\ replaced' = IF box # 0 THEN replaced + 1 ELSE replaced
  /\ UNCHANGED delivered

Collect ==
  /\ box # 0
  /\ delivered' = box
  /\ box' = 0
  /\ UNCHANGED <<newest, replaced>>

Next == Deposit \/ Collect

Spec == Init /\ [][Next]_mailboxVars
=============================================================================
