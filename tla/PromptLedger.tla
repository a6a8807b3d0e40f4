---------------------------- MODULE PromptLedger ----------------------------
(***************************************************************************)
(* What the user who is asked about phones may expect of the store of      *)
(* events, as long as no two commands have held the same file: a ledger of *)
(* questions, the oldest first and the newest Cap of them, each about a    *)
(* device.  Nobody is asked again while a question about the device is     *)
(* open.  A question about a device without a connection learns its        *)
(* connection, once.  Questions neither go nor move, but for the oldest    *)
(* when a new one comes; an answered one stays answered; a device whose    *)
(* policy is saved stays saved.                                            *)
(***************************************************************************)
EXTENDS Naturals, Sequences

CONSTANTS
    Ifaces, Conns, NoConn,  \* a device: its interface and its connection
    Cap                     \* number of questions kept

VARIABLES
    ledger, \* the questions
    saved,  \* the devices with a saved policy
    torn    \* have two commands held the same file?

Devices == [iface : Ifaces, conn : Conns \cup {NoConn}]

\* The open questions about a device, a connection of which may be unknown.
Open(d) == {k \in DOMAIN ledger :
    /\ ~ledger[k].answered
    /\ ledger[k].iface = d.iface
    /\ ledger[k].conn = d.conn \/ NoConn \in {ledger[k].conn, d.conn}}

Newest(s) == IF Len(s) > Cap THEN Tail(s) ELSE s

Init == ledger = <<>> /\ saved = {} /\ torn = FALSE

Ask(d) ==
    /\ ~torn /\ Open(d) = {}
    /\ ledger' = Newest(Append(ledger,
                     [iface |-> d.iface, conn |-> d.conn, answered |-> FALSE]))
    /\ UNCHANGED <<saved, torn>>

Name(k, c) ==
    /\ ~torn /\ ~ledger[k].answered /\ ledger[k].conn = NoConn
    /\ ledger' = [ledger EXCEPT ![k].conn = c]
    /\ UNCHANGED <<saved, torn>>

Answer(k) ==
    /\ ~torn /\ ~ledger[k].answered
    /\ ledger' = [ledger EXCEPT ![k].answered = TRUE]
    /\ UNCHANGED <<saved, torn>>

Save(d) ==
    /\ ~torn
    /\ saved' = saved \cup {d}
    /\ UNCHANGED <<ledger, torn>>

Tear == ~torn /\ torn' = TRUE /\ UNCHANGED <<ledger, saved>>

\* Nothing is promised any more.
Lost == torn /\ torn' = TRUE

Next ==
    \/ \E d \in Devices : Ask(d) \/ Save(d)
    \/ \E k \in DOMAIN ledger : Answer(k) \/ \E c \in Conns : Name(k, c)
    \/ Tear \/ Lost

Spec == Init /\ [][Next]_<<ledger, saved, torn>>
=============================================================================
