---------------------------- MODULE ReliableFifo ----------------------------
(***************************************************************************)
(* What one direction of a RUDP session promises its application.          *)
(*                                                                         *)
(* send_rudp appends a message to "sent".  on_rudp_recv hands messages to  *)
(* the other application: always a prefix of what was sent, each message   *)
(* whole, once and in order.  on_rudp_send confirms messages to the        *)
(* sender, in order, and only messages the other application already has.  *)
(***************************************************************************)
EXTENDS Naturals, SequencesExt

VARIABLES sent,        \* the messages accepted by send_rudp, in order
          delivered,   \* the messages passed to on_rudp_recv, in order
          confirmed    \* how many of them on_rudp_send has confirmed

vars == <<sent, delivered, confirmed>>

Init ==
    /\ sent = <<>>
    /\ delivered = <<>>
    /\ confirmed = 0

\* The application sends one more message.
Write ==
    /\ Len(sent') = Len(sent) + 1
    /\ IsPrefix(sent, sent')
    /\ UNCHANGED <<delivered, confirmed>>

\* One arriving packet may complete several messages.
Deliver ==
    /\ \E n \in (Len(delivered) + 1) .. Len(sent) : delivered' = SubSeq(sent, 1, n)
    /\ UNCHANGED <<sent, confirmed>>

\* One acknowledgement may confirm several messages.
Confirm ==
    /\ confirmed' \in (confirmed + 1) .. Len(delivered)
    /\ UNCHANGED <<sent, delivered>>

Next == Write \/ Deliver \/ Confirm

Spec == Init /\ [][Next]_vars
=============================================================================
