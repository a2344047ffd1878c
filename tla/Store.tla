-------------------------------- MODULE Store --------------------------------
(***************************************************************************)
(* The store (store/src/lib.rs): one task that serves a queue of commands, *)
(* as operators on a record s:                                             *)
(*                                                                         *)
(*   commands     commands in the channel, oldest first                    *)
(*   db           keys in the database                                     *)
(*   obligations  pairs of a key that was missing and who waits for it     *)
(*   answered     those whose NotifyRead was answered                      *)
(*                                                                         *)
(* A value is determined by its key (a digest), so keys are enough.  The   *)
(* database does not fail.                                                 *)
(***************************************************************************)
EXTENDS Naturals, SequencesExt, Subsequences

CONSTANT StoreCapacity  \* capacity of the channel; callers wait for room

ASSUME StoreCapacityAssumption == StoreCapacity \in Nat \ {0}

NewStore == [commands |-> <<>>, db |-> {}, obligations |-> {}, answered |-> {}]

Accepts(s) == Len(s.commands) < StoreCapacity

\* write() returns when the command is in the channel.
Write(s, k) == [s EXCEPT !.commands = Append(@, [op |-> "write", key |-> k])]

\* notify_read() up to its second await.
NotifyRead(s, k, w) ==
    [s EXCEPT !.commands = Append(@, [op |-> "notify", key |-> k, waiter |-> w])]

\* What a read() that is called now finds, whenever it is served: it comes after the
\* writes in the channel.
Readable(s) == s.db \cup {c.key : c \in {d \in ToSet(s.commands) : d.op = "write"}}

\* Fault seeded to test the properties: the database is not looked at before waiting.
PerformNotifyBlindly(s) ==
    LET c == Head(s.commands)
        due == {o \in s.obligations : o[1] = c.key}
        rest == [s EXCEPT !.commands = Tail(@)]
    IN  IF c.op = "write"
        THEN [rest EXCEPT !.db = @ \cup {c.key}, !.obligations = @ \ due,
                          !.answered = @ \cup {o[2] : o \in due}]
        ELSE [rest EXCEPT !.obligations = @ \cup {<<c.key, c.waiter>>}]

\* The task takes a command.  A write answers everyone who waits for its key.
Perform(s) ==
    LET c == Head(s.commands)
        due == {o \in s.obligations : o[1] = c.key}
        rest == [s EXCEPT !.commands = Tail(@)]
    IN  IF c.op = "write"
        THEN [rest EXCEPT !.db = @ \cup {c.key}, !.obligations = @ \ due,
                          !.answered = @ \cup {o[2] : o \in due}]
        ELSE IF c.key \in s.db THEN [rest EXCEPT !.answered = @ \cup {c.waiter}]
        ELSE [rest EXCEPT !.obligations = @ \cup {<<c.key, c.waiter>>}]

\* The receiver w was dropped: from now on an answer to it goes nowhere.
Forget(s, w) ==
    [s EXCEPT !.commands = Keep(@, {c \in ToSet(@) : c.op = "write" \/ c.waiter # w}),
              !.obligations = {o \in @ : o[2] # w},
              !.answered = @ \ {w}]
=============================================================================
