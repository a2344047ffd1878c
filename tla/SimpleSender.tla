----------------------------- MODULE SimpleSender -----------------------------
(***************************************************************************)
(* The best-effort SimpleSender (network/src/simple_sender.rs), as         *)
(* operators on mail: a function from addresses to the messages accepted   *)
(* for them and not read by the other side.  There is one connection per   *)
(* address; it keeps the order of its messages and is made anew when it    *)
(* is gone, without what it had accepted.                                  *)
(***************************************************************************)
EXTENDS Naturals, FiniteSets, SequencesExt

CONSTANT MailCapacity  \* capacity of a connection; its sender waits for room

ASSUME MailCapacityAssumption == MailCapacity \in Nat \ {0}

NoMail(addresses) == [a \in addresses |-> <<>>]

HasRoom(mail, addresses) == \A a \in addresses : Len(mail[a]) < MailCapacity

\* send()
Post(mail, a, m) == [mail EXCEPT ![a] = Append(@, m)]

\* broadcast()
Broadcast(mail, addresses, m) ==
    [a \in DOMAIN mail |-> IF a \in addresses THEN Append(mail[a], m) ELSE mail[a]]

\* lucky_broadcast() shuffles the addresses and keeps the first ones: the sets it may keep.
LuckyChoices(addresses, nodes) ==
    {S \in SUBSET addresses :
        Cardinality(S) = IF nodes < Cardinality(addresses) THEN nodes ELSE Cardinality(addresses)}

\* The receiver at address a reads a message.
Arrived(mail, a) == Head(mail[a])
Take(mail, a) == [mail EXCEPT ![a] = Tail(@)]

\* run() returns, for want of a connection or because it broke.
Lose(mail, a) == [mail EXCEPT ![a] = <<>>]
=============================================================================
