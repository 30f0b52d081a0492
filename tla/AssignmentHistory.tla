------------------------- MODULE AssignmentHistory -------------------------
(***************************************************************************)
(* What the assignment log promises to those who act on it: on each device  *)
(* a durable history and a durable outbox of at most one operation, and a   *)
(* room that has what was published.  AssignmentLog implements it through   *)
(* failed writes, lost answers and crashes, all of which are invisible      *)
(* here, on every device that wrote nothing before it had loaded.  Any      *)
(* write may here lose operations of others.  The log loses only those it   *)
(* saved as the room's keys changed, and does not show: that is said of it  *)
(* by AssignmentLog!ShownIsKept.                                            *)
(***************************************************************************)
EXTENDS Assignments

VARIABLES
  saved,      \* [Device -> the events in storage]
  outbox,     \* [Device -> the events signed and not known to be published]
  published   \* the events the room has

historyVars == <<saved, outbox, published>>

HistoryInit ==
  /\ saved = [d \in Device |-> {}]
  /\ outbox = [d \in Device |-> {}]
  /\ published = {}

\* A write may drop what others said, whichever it is (more than the log does), and
\* what this device said, while it is in the outbox.
Droppable(d) == {e \in saved[d] : Last(e).by # d \/ e \in outbox[d]}

\* What the room has reaches the device's storage, in any order.
Learn(d, S, lost) ==
  /\ S \subseteq published /\ lost \subseteq Droppable(d)
  /\ saved' = [saved EXCEPT ![d] = (@ \ lost) \cup S]
  /\ UNCHANGED <<outbox, published>>

\* A new operation on what is shown goes to the outbox.
Sign(d, i, lost) ==
  LET K == saved[d] \ lost
      e == Append(Tip(K), i)
  IN /\ outbox[d] = {} /\ lost \subseteq Droppable(d)
     /\ i.by = d /\ MayFollow(K, i) /\ Len(e) <= MaxOps
     /\ saved' = [saved EXCEPT ![d] = K]
     /\ outbox' = [outbox EXCEPT ![d] = {e}]
     /\ UNCHANGED published

\* It reaches the room, as often as it is tried.
Publish(d, e) ==
  /\ e \in outbox[d]
  /\ published' = published \cup {e}
  /\ UNCHANGED <<saved, outbox>>

\* Slip: the operation counts as published once it is sent.
SettleUnsent(d, e, lost) ==
  /\ e \in outbox[d] /\ lost \subseteq Droppable(d)
  /\ saved' = [saved EXCEPT ![d] = (@ \ lost) \cup {e}]
  /\ outbox' = [outbox EXCEPT ![d] = @ \ {e}]
  /\ UNCHANGED published

\* It is known to be published.
Settle(d, e, lost) ==
  /\ e \in outbox[d] \cap published /\ lost \subseteq Droppable(d)
  /\ saved' = [saved EXCEPT ![d] = (@ \ lost) \cup {e}]
  /\ outbox' = [outbox EXCEPT ![d] = @ \ {e}]
  /\ UNCHANGED published

HistoryNext ==
  \E d \in Device :
    \/ \E e \in outbox[d] : Publish(d, e)
    \/ \E lost \in SUBSET Droppable(d) :
         \/ \E S \in SUBSET published : Learn(d, S, lost)
         \/ \E i \in Tried : Sign(d, i, lost)
         \/ \E e \in outbox[d] : Settle(d, e, lost)

HistorySpec == HistoryInit /\ [][HistoryNext]_historyVars

=============================================================================
