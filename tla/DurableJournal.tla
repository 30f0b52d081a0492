--------------------------- MODULE DurableJournal ---------------------------
(***************************************************************************)
(* What a journal promises its callers (src/journal-storage.ts): calls     *)
(* take effect one at a time, in the order they were made, each at most     *)
(* once and each as a whole.  A call that resolved has taken effect for     *)
(* good; one that rejected, or that the process died under, took effect or  *)
(* did not, and nothing in between.  A load answers the whole journal.      *)
(***************************************************************************)
EXTENDS Naturals, Sequences

CONSTANTS
  Text,      \* what a snapshot can say
  Delta,     \* what a delta can say
  Empty,     \* the empty snapshot
  NoText,    \* the journal was never written
  MaxCalls   \* a bound on the calls made

Image == [base: Text \cup {NoText}, deltas: Seq(Delta)]
Operation == [kind: {"save"}, text: Text] \cup [kind: {"append"}, delta: Delta]
             \cup [kind: {"load", "loadIncremental"}]
Loads == {"load", "loadIncremental"}

\* The journal after op.
Applied(op, image) ==
  IF op.kind = "save" THEN [base |-> op.text, deltas |-> <<>>]
  ELSE [base |-> IF image.base = NoText THEN Empty ELSE image.base,
        deltas |-> Append(image.deltas, op.delta)]

VARIABLES
  value,    \* the journal
  calls,    \* the calls made, in order
  phase,    \* how far each got
  answer    \* what each load that resolved answered

vars == <<value, calls, phase, answer>>

Settled == {"ok", "failed", "lost"}
NoAnswer == [base |-> NoText, deltas |-> <<>>]

Init ==
  /\ value \in {[base |-> t, deltas |-> <<>>] : t \in Text \cup {NoText}}
  /\ calls = <<>>
  /\ phase = [c \in 1..MaxCalls |-> "none"]
  /\ answer = [c \in 1..MaxCalls |-> NoAnswer]

Call(op) ==
  /\ Len(calls) < MaxCalls
  /\ calls' = Append(calls, op)
  /\ phase' = [phase EXCEPT ![Len(calls) + 1] = "open"]
  /\ UNCHANGED <<value, answer>>

Turn(c) == phase[c] = "open" /\ \A e \in 1..(c - 1) : phase[e] \in Settled

\* The call takes effect; it may resolve, reject or go on from there.
Take(c) ==
  /\ Turn(c)
  /\ calls[c].kind \notin Loads
  /\ value' = Applied(calls[c], value)
  /\ \E p \in {"took", "ok", "failed", "lost"} : phase' = [phase EXCEPT ![c] = p]
  /\ UNCHANGED <<calls, answer>>

Resolve(c) ==
  /\ phase[c] = "took"
  /\ phase' = [phase EXCEPT ![c] = "ok"]
  /\ UNCHANGED <<value, calls, answer>>

Answer(c) ==
  /\ Turn(c)
  /\ calls[c].kind \in Loads
  /\ calls[c].kind = "load" => value.deltas = <<>>
  /\ answer' = [answer EXCEPT ![c] = value]
  /\ phase' = [phase EXCEPT ![c] = "ok"]
  /\ UNCHANGED <<value, calls>>

Reject(c) ==
  /\ Turn(c)
  /\ phase' = [phase EXCEPT ![c] = "failed"]
  /\ UNCHANGED <<value, calls, answer>>

\* The process dies: whoever still waits will not be answered.
Crash ==
  /\ phase' = [c \in 1..MaxCalls |-> IF phase[c] \in {"open", "took"} THEN "lost" ELSE phase[c]]
  /\ UNCHANGED <<value, calls, answer>>

Next ==
  \/ \E op \in Operation : Call(op)
  \/ \E c \in 1..Len(calls) : Take(c) \/ Resolve(c) \/ Answer(c) \/ Reject(c)
  \/ Crash

Spec == Init /\ [][Next]_vars
=============================================================================
