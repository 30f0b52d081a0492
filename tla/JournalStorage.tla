--------------------------- MODULE JournalStorage ---------------------------
(***************************************************************************)
(* createJournalStorage, src/journal-storage.ts: a journal kept as a root   *)
(* key and immutable records in a key-value store whose calls are           *)
(* asynchronous, may reject, and may be cut off by the end of the process.  *)
(*                                                                         *)
(* A record is kept under the SHA-256 of its text and names the records     *)
(* before it, so a record is identified with the part of the journal it     *)
(* reaches: its base and the deltas up to its own, none for the base record. *)
(* The root says where the journal ends.  A call of get() changes nothing,   *)
(* and no one else writes meanwhile (the storages are opened under a lock),  *)
(* so reading the chain is one step.                                         *)
(***************************************************************************)
EXTENDS Naturals, Sequences

CONSTANTS
  Text, Delta, Empty, NoText, MaxCalls,   \* see DurableJournal
  Unread,       \* the cache holds nothing
  Bytes(_, _),  \* the UTF-8 bytes of a base and of the segments on it
  MaxBytes, MaxDepth,
  CanRemove,    \* has the store a remove()?  Otherwise records are blanked
  Mishaps       \* what may go wrong: "reject", "crash", "damage"

\* What the root key holds: nothing or the text of an older version (v2 is
\* FALSE, no deltas), or a head.
Root   == [v2: BOOLEAN, base: Text \cup {NoText}, deltas: Seq(Delta)]
Record == [base: Text, deltas: Seq(Delta)]

ASSUME StorageAssumption ==
  /\ Empty \in Text /\ NoText \notin Text /\ MaxCalls \in Nat
  /\ Unread \notin Root
  /\ MaxBytes \in Nat \ {0} /\ MaxDepth \in Nat \ {0}
  /\ CanRemove \in BOOLEAN
  /\ Mishaps \subseteq {"reject", "crash", "damage"}

VARIABLES
  root,      \* the root key
  present,   \* the records whose key holds their text
  blank,     \* the records whose key holds '' in its stead
  damaged,   \* the records whose key holds something else
  cached,    \* `cached'
  calls,     \* the calls made, in order: the chain of `tail'
  pc,        \* what each of them awaits
  next,      \* the head each of them is about to write
  todo,      \* the records each of them has still to clean up
  answer     \* what each load resolved with

records == <<present, blank, damaged>>
vars == <<root, records, cached, calls, pc, next, todo, answer>>

Journal(r) == [base |-> r.base, deltas |-> r.deltas]
Base(t) == [base |-> t, deltas |-> <<>>]

Phase == [c \in 1..MaxCalls |-> IF pc[c] \in {"queued", "base", "tip", "root"} THEN "open"
                                ELSE IF pc[c] = "clean" THEN "took" ELSE pc[c]]

\* The journal is what the root says it is.
D == INSTANCE DurableJournal WITH value <- Journal(root), phase <- Phase

Init ==
  /\ root \in {[v2 |-> FALSE, base |-> t, deltas |-> <<>>] : t \in Text \cup {NoText}}
  /\ present = {} /\ blank = {} /\ damaged = {}
  /\ cached = Unread
  /\ calls = <<>>
  /\ pc = [c \in 1..MaxCalls |-> "none"]
  /\ next = [c \in 1..MaxCalls |-> root]
  /\ todo = [c \in 1..MaxCalls |-> {}]
  /\ answer = [c \in 1..MaxCalls |-> D!NoAnswer]

-----------------------------------------------------------------------------
(* Reading *)

\* The records a state of the journal refers to: its base and every segment.
References(r) ==
  IF r.v2 THEN {[base |-> r.base, deltas |-> SubSeq(r.deltas, 1, i)] : i \in 0..Len(r.deltas)}
  ELSE {}

Within(r) == Len(r.deltas) <= MaxDepth /\ Bytes(r.base, r.deltas) <= MaxBytes

\* read() throws: a record on the chain is missing, blanked or changed, or the
\* journal is too large.
Broken == ~ (References(root) \subseteq present) \/ (root.v2 /\ ~Within(root))

\* current(): the cache, or else the root.
Known == IF cached = Unread THEN root ELSE cached

-----------------------------------------------------------------------------
(* serial() *)

Call(op) ==
  /\ Len(calls) < MaxCalls
  /\ calls' = Append(calls, op)
  /\ pc' = [pc EXCEPT ![Len(calls) + 1] = "queued"]
  /\ UNCHANGED <<root, records, cached, next, todo, answer>>

\* Slip: a rejected call blocks the chain.
TurnAfterSuccess(c) == pc[c] = "queued" /\ \A e \in 1..(c - 1) : pc[e] \in {"ok", "lost"}

\* The task starts when the one before it has settled, however it did.
Turn(c) == pc[c] = "queued" /\ \A e \in 1..(c - 1) : pc[e] \in D!Settled

Goto(c, place) == pc' = [pc EXCEPT ![c] = place]

\* Slip: a rejection leaves the cache as it was.
FailKeepingCache(c) == Goto(c, "failed") /\ UNCHANGED <<cached, calls, next, todo, answer>>

\* The task rejects: the next one reads the root again.
Fail(c) == Goto(c, "failed") /\ cached' = Unread /\ UNCHANGED <<calls, next, todo, answer>>

-----------------------------------------------------------------------------
(* load() and loadIncremental() *)

\* Slip: a chain that breaks off is answered as far as it goes.
LoadPrefix(c) ==
  LET n == CHOOSE i \in 0..Len(root.deltas) : \A j \in 0..Len(root.deltas) :
             [base |-> root.base, deltas |-> SubSeq(root.deltas, 1, j)] \in present <=> j <= i
  IN /\ Turn(c)
     /\ calls[c].kind = "loadIncremental"
     /\ Base(root.base) \in present
     /\ cached' = root
     /\ Goto(c, "ok")
     /\ answer' = [answer EXCEPT ![c] = [base |-> root.base, deltas |-> SubSeq(root.deltas, 1, n)]]
     /\ UNCHANGED <<root, records, calls, next, todo>>

\* Both read again; load() has no way to return deltas.
Load(c) ==
  /\ Turn(c)
  /\ calls[c].kind \in D!Loads
  /\ ~Broken
  /\ cached' = root
  /\ IF calls[c].kind = "load" /\ root.deltas # <<>>
     THEN Goto(c, "failed") /\ UNCHANGED answer
     ELSE Goto(c, "ok") /\ answer' = [answer EXCEPT ![c] = Journal(root)]
  /\ UNCHANGED <<root, records, calls, next, todo>>

\* read() throws, or a get() it awaits rejects.
ReadThrows(c) ==
  /\ Turn(c)
  /\ calls[c].kind \in D!Loads \/ cached = Unread
  /\ Broken \/ "reject" \in Mishaps
  /\ Fail(c)
  /\ UNCHANGED <<root, records>>

-----------------------------------------------------------------------------
(* save() and appendIncremental() *)

\* Slip: a first delta is kept without a base.
SoughtWithoutBase(c) ==
  IF calls[c].kind = "save" THEN Base(calls[c].text)
  ELSE [base |-> Known.base, deltas |-> Append(Known.deltas, calls[c].delta)]

Sought(c) == D!Applied(calls[c], Journal(Known))

Fits(c) == Within(Sought(c))

Knows == cached # Unread \/ ~Broken

TooLarge(c) ==
  /\ Turn(c)
  /\ calls[c].kind \notin D!Loads
  /\ Knows /\ ~Fits(c)
  /\ Fail(c)
  /\ UNCHANGED <<root, records>>

\* Slip: the old base goes even if it is the new one.
LeftoversAndBase(c) == References(Known)
\* What cleanup() is given: the records of the old head, but the base if it is kept.
Leftovers(c) == References(Known) \ {Base(Sought(c).base)}

\* A save writes a base of its own and will clean up; an append writes a base
\* only if there is none.
Begin(c) ==
  /\ Turn(c)
  /\ calls[c].kind \notin D!Loads
  /\ Knows /\ Fits(c)
  /\ cached' = Known
  /\ next' = [next EXCEPT ![c] = [v2 |-> TRUE, base |-> Sought(c).base, deltas |-> Sought(c).deltas]]
  /\ todo' = [todo EXCEPT ![c] = IF calls[c].kind = "save" THEN Leftovers(c) ELSE {}]
  /\ Goto(c, IF calls[c].kind = "save" \/ ~Known.v2 THEN "base" ELSE "tip")
  /\ UNCHANGED <<root, records, calls, answer>>

\* writeRecord(): a key that holds the text already is left alone, one that holds
\* another text is an error.  A store call that rejects may have taken effect.
WriteRecord(c, r, then) ==
  \/ /\ r \notin damaged
     /\ present' = present \cup {r} /\ blank' = blank \ {r}
     /\ Goto(c, then)
     /\ UNCHANGED <<root, damaged, cached, calls, next, todo, answer>>
  \/ /\ r \notin damaged /\ "reject" \in Mishaps
     /\ present' = present \cup {r} /\ blank' = blank \ {r}
     /\ Fail(c)
     /\ UNCHANGED <<root, damaged>>
  \/ /\ r \in damaged \/ "reject" \in Mishaps
     /\ Fail(c)
     /\ UNCHANGED <<root, records>>

WriteBase(c) ==
  /\ pc[c] = "base"
  /\ WriteRecord(c, Base(next[c].base), IF calls[c].kind = "save" THEN "root" ELSE "tip")

WriteTip(c) ==
  /\ pc[c] = "tip"
  /\ WriteRecord(c, Journal(next[c]), "root")

\* The commit.  After it an append resolves at once; a save cleans up first.
WriteRoot(c) ==
  /\ pc[c] = "root"
  /\ \/ /\ root' = next[c]
        /\ IF calls[c].kind = "save"
           THEN Goto(c, "clean") /\ UNCHANGED cached
           ELSE Goto(c, "ok") /\ cached' = next[c]
        /\ UNCHANGED <<calls, next, todo, answer>>
     \/ /\ "reject" \in Mishaps
        /\ root' \in {root, next[c]}
        /\ Fail(c)
  /\ UNCHANGED records

\* The key of r is removed, or else blanked: '' is the text of the empty base.
Erase(r) ==
  LET itself == ~CanRemove /\ r = Base(Empty)
  IN /\ present' = IF itself THEN present \cup {r} ELSE present \ {r}
     /\ blank' = IF CanRemove \/ itself THEN blank \ {r} ELSE blank \cup {r}
     /\ damaged' = damaged \ {r}

\* cleanup() swallows a rejection.  Its order is left open.
Clean(c) ==
  /\ pc[c] = "clean"
  /\ \E r \in todo[c] :
       /\ todo' = [todo EXCEPT ![c] = @ \ {r}]
       /\ Erase(r) \/ ("reject" \in Mishaps /\ UNCHANGED records)
  /\ UNCHANGED <<root, cached, calls, pc, next, answer>>

Finish(c) ==
  /\ pc[c] = "clean" /\ todo[c] = {}
  /\ Goto(c, "ok")
  /\ cached' = next[c]
  /\ UNCHANGED <<root, records, calls, next, todo, answer>>

-----------------------------------------------------------------------------
(* The environment *)

\* The process ends; another opens the store.  A store call under way was made
\* or was not: the steps above, left out or taken before this one.
Crash ==
  /\ "crash" \in Mishaps
  /\ pc' = [c \in 1..MaxCalls |-> IF pc[c] \in D!Settled \cup {"none"} THEN pc[c] ELSE "lost"]
  /\ cached' = Unread
  /\ todo' = [c \in 1..MaxCalls |-> {}]
  /\ UNCHANGED <<root, records, calls, next, answer>>

\* The medium changes a record.
Damage(r) ==
  /\ "damage" \in Mishaps
  /\ present' = present \ {r} /\ damaged' = damaged \cup {r}
  /\ UNCHANGED <<root, blank, cached, calls, pc, next, todo, answer>>

Work(c) == \/ Load(c) \/ ReadThrows(c) \/ TooLarge(c) \/ Begin(c)
           \/ WriteBase(c) \/ WriteTip(c) \/ WriteRoot(c) \/ Clean(c) \/ Finish(c)

Next ==
  \/ \E op \in D!Operation : Call(op)
  \/ \E c \in 1..Len(calls) : Work(c)
  \/ Crash
  \/ \E r \in present : Damage(r)

Spec == Init /\ [][Next]_vars

-----------------------------------------------------------------------------
(* Properties *)

\* Every variable keeps its shape.
TypeOK ==
  /\ root \in Root
  /\ present \subseteq Record /\ blank \subseteq Record /\ damaged \subseteq Record
  /\ cached \in Root \cup {Unread}
  /\ calls \in Seq(D!Operation) /\ Len(calls) <= MaxCalls
  /\ pc \in [1..MaxCalls -> {"none", "queued", "base", "tip", "root", "clean"} \cup D!Settled]
  /\ next \in [1..MaxCalls -> Root]
  /\ todo \in [1..MaxCalls -> SUBSET Record]
  /\ answer \in [1..MaxCalls -> D!Image]

\* Whenever the process may die, the root leads to every record it refers to, in
\* a journal that read() accepts: no record is cleaned up too early, no head
\* written before its records, nothing written that is too large to read back.
Recoverable ==
  /\ References(root) \subseteq present \cup damaged
  /\ root.v2 => Within(root)

\* What is cached is what a fresh read of the root would give, unless a save has
\* just replaced it: no rejected call leaves a stale cache for the next one to build on.
CacheIsTrue ==
  cached # Unread => cached = root \/ \E c \in 1..Len(calls) : pc[c] = "clean" /\ next[c] = root

\* When nothing goes wrong, nothing unreachable is left behind.
Tidy ==
  Mishaps = {} /\ (\A c \in 1..Len(calls) : pc[c] \in D!Settled) => present = References(root)

\* The storage implements the durable journal.
ImplementsDurableJournal == D!Spec

\* Every call settles: the store's promises do, and no outcome of one call keeps
\* the next from starting.
FairSpec == Spec /\ WF_vars(\E c \in 1..Len(calls) : Work(c))
EveryCallSettles ==
  \A c \in 1..MaxCalls : (pc[c] = "queued") ~> (pc[c] \in D!Settled)
=============================================================================
