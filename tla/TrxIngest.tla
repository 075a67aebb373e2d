----------------------------- MODULE TrxIngest -----------------------------
(***************************************************************************)
(* What the transaction dispatcher promises, without channels, goroutines *)
(* or WaitGroups (specification 4.1 and 5.): events are read in order;    *)
(* the work items of a well-formed event are issued while it is the last  *)
(* event read, and the next event is read only once they all are; items  *)
(* complete in any order, each at most once; a transaction is persisted  *)
(* once, and only after every one of its items has completed.            *)
(***************************************************************************)
EXTENDS Naturals

CONSTANTS
    NTx,        \* number of events
    Malformed,  \* events that are skipped
    Work        \* Work[t]: number of derived work items of event t

Txs == 1..NTx

VARIABLES
    read,       \* events read so far
    issued,     \* issued[t]: items of t handed to a consumer
    completed,  \* completed[t]: items of t that signalled completion
    persisted   \* transactions persisted

avars == <<read, issued, completed, persisted>>

(* The last event read has all its items issued (or has none to issue).   *)
LastFannedOut ==
    read = 0 \/ read \in Malformed \/ issued[read] = Work[read]

Init ==
    /\ read = 0
    /\ issued = [t \in Txs |-> 0]
    /\ completed = [t \in Txs |-> 0]
    /\ persisted = {}

Read ==
    /\ read < NTx /\ LastFannedOut
    /\ read' = read + 1
    /\ UNCHANGED <<issued, completed, persisted>>

Issue ==
    /\ read \in Txs \ Malformed /\ issued[read] < Work[read]
    /\ issued' = [issued EXCEPT ![read] = @ + 1]
    /\ UNCHANGED <<read, completed, persisted>>

Complete(t) ==
    /\ completed[t] < issued[t]
    /\ completed' = [completed EXCEPT ![t] = @ + 1]
    /\ UNCHANGED <<read, issued, persisted>>

Persist(t) ==
    /\ t <= read /\ t \notin Malformed /\ t \notin persisted
    /\ completed[t] = Work[t]
    /\ persisted' = persisted \cup {t}
    /\ UNCHANGED <<read, issued, completed>>

Next ==
    \/ Read \/ Issue
    \/ \E t \in Txs : Complete(t) \/ Persist(t)

(* Issued items are completed and completed transactions persisted; the   *)
(* reading of events is up to the producer.                                *)
Spec ==
    /\ Init /\ [][Next]_avars
    /\ WF_avars(Issue)
    /\ \A t \in Txs : WF_avars(Complete(t)) /\ WF_avars(Persist(t))

=============================================================================
