---------------------------- MODULE MessageChannel ----------------------------
(***************************************************************************)
(* What read_message and write_message promise each other: one message at  *)
(* a time, delivered whole and in order.  Only the last message of a       *)
(* sender that dies may be cut short, and its reader cannot tell.          *)
(***************************************************************************)
EXTENDS Integers, Sequences

CONSTANT Messages      \* the messages: sequences of characters

VARIABLES inFlight,    \* written and not yet delivered: one message at most
          delivered,   \* the messages delivered so far
          broken       \* the sender died

vars == <<inFlight, delivered, broken>>

Init ==
    /\ inFlight = <<>>
    /\ delivered = <<>>
    /\ broken = FALSE

Send(m) ==
    /\ ~broken
    /\ inFlight = <<>>
    /\ inFlight' = <<m>>
    /\ UNCHANGED <<delivered, broken>>

Deliver ==
    /\ inFlight # <<>>
    /\ delivered' = Append(delivered, Head(inFlight))
    /\ inFlight' = <<>>
    /\ UNCHANGED broken

Break ==
    /\ ~broken
    /\ broken' = TRUE
    /\ UNCHANGED <<inFlight, delivered>>

DeliverCut ==
    /\ broken
    /\ inFlight # <<>>
    /\ \E n \in 1 .. Len(Head(inFlight)) - 1 :
        delivered' = Append(delivered, SubSeq(Head(inFlight), 1, n))
    /\ inFlight' = <<>>
    /\ UNCHANGED broken

Next ==
    \/ \E m \in Messages : Send(m)
    \/ Deliver
    \/ Break
    \/ DeliverCut

Spec == Init /\ [][Next]_vars
===============================================================================
