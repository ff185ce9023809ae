----------------------------- MODULE ClassQueue -----------------------------
(***************************************************************************)
(* What the spool promises its two users (package comment of               *)
(* internal/spool/spool.go), with no segment, cursor or file: one queue    *)
(* per priority class, 0 the most important.  A collector stores a record  *)
(* at the tail of its class; room is made at the head of the least         *)
(* important class, and never in a class more important than the record.   *)
(* The batcher is offered the oldest records of the most important class   *)
(* that has any, and later takes some records from the head of one class.  *)
(* A restart may cut a queue down, and never reorders or repeats it.       *)
(***************************************************************************)
EXTENDS Integers, Sequences, SequencesExt

CONSTANTS
    Classes,  \* the priority classes, 0..n
    ClassOf   \* ClassOf[s]: the class of a stream's records

VARIABLES
    queue,    \* queue[c]: the records of class c not yet taken, oldest first
    offer     \* the records the batcher is working on

vars == <<queue, offer>>

Init ==
    /\ queue = [c \in Classes |-> <<>>]
    /\ offer = <<>>

\* Room is made at the heads only, in a class only when every less important
\* one is empty already, and never for a record that is less important.
FairCut(before, after, c) ==
    /\ \A k \in Classes : IsSuffix(after[k], before[k])
    /\ \A k \in Classes : after[k] # before[k] =>
          k >= c /\ \A j \in Classes : j > k => after[j] = <<>>

Stored(before, after) ==
    \E c \in Classes :
        /\ after[c] # <<>>
        /\ ClassOf[Last(after[c]).stream] = c
        /\ FairCut(before, [after EXCEPT ![c] = Front(@)], c)

\* A record that room could only be made for in a more important class.
Refused(before, after) ==
    \E c \in Classes :
        /\ FairCut(before, after, c)
        /\ \A k \in Classes : k >= c => after[k] = <<>>

Store == UNCHANGED offer /\ (Stored(queue, queue') \/ Refused(queue, queue'))

\* The oldest records of the most important class that has any.
Offered(before, recs) ==
    \E c \in Classes :
        /\ before[c] # <<>> /\ \A k \in Classes : k < c => before[k] = <<>>
        /\ IsPrefix(recs, before[c])

Offer == offer' # <<>> /\ Offered(queue, offer') /\ UNCHANGED queue

Taken(before, after) ==
    \E c \in Classes :
        /\ IsSuffix(after[c], before[c])
        /\ \A k \in Classes \ {c} : after[k] = before[k]

Take == offer' = <<>> /\ Taken(queue, queue')

Reopened(before, after) ==
    \A c \in Classes : \E i \in 1..Len(before[c]) + 1, j \in 0..Len(before[c]) :
        after[c] = SubSeq(before[c], i, j)

Restart == offer' = <<>> /\ Reopened(queue, queue')

Next == Store \/ Offer \/ Take \/ Restart

Spec == Init /\ [][Next]_vars
=============================================================================
