------------------------ MODULE JournalStorageProofs ------------------------
(* Crash safety of the journal for any texts, limits, number of calls and      *)
(* mishaps, and that it implements the durable journal.                       *)
EXTENDS JournalStorage, SequenceTheorems, TLAPS

Settling == {"ok", "failed", "lost"}
Active   == {"base", "tip", "root", "clean"}
Kept     == present \cup damaged

\* The records of a base and the deltas on it.
Chain(b, ds) == {[base |-> b, deltas |-> SubSeq(ds, 1, i)] : i \in 0..Len(ds)}

-----------------------------------------------------------------------------
(* The inductive invariant *)

\* A head has a base; nothing else has deltas.
RootOK == IF root.v2 THEN root.base \in Text ELSE root.deltas = <<>>

\* One call at a time, in order.
Serial == \A c, e \in 1..MaxCalls : e < c /\ pc[c] \in Active => pc[e] \in Settling
Made   == \A c \in 1..MaxCalls : c > Len(calls) => pc[c] = "none"

\* The head that will be written follows from the root as it is, and its records
\* are there before it is.
WritesWell(c) ==
  pc[c] \in {"base", "tip", "root"} =>
    /\ cached = root
    /\ calls[c].kind \in {"save", "append"}
    /\ next[c].v2 /\ next[c].base \in Text
    /\ Journal(next[c]) = D!Applied(calls[c], Journal(root))
    /\ Within(next[c])
    /\ Base(next[c].base) \notin todo[c]
    /\ pc[c] = "base" /\ calls[c].kind = "append" => root.deltas = <<>>
    /\ pc[c] = "tip" => calls[c].kind = "append" /\ Chain(next[c].base, root.deltas) \subseteq Kept
    /\ pc[c] = "root" => References(next[c]) \subseteq Kept

\* What is cleaned up is nothing the new head refers to.
CleansWell(c) ==
  pc[c] = "clean" =>
    /\ calls[c].kind = "save"
    /\ root = next[c] /\ root.v2 /\ root.deltas = <<>>
    /\ Base(root.base) \notin todo[c]

Writing == \A c \in 1..Len(calls) : WritesWell(c) /\ CleansWell(c)

IInv == TypeOK /\ RootOK /\ Recoverable /\ CacheIsTrue /\ Serial /\ Made /\ Writing

-----------------------------------------------------------------------------
(* Records *)

\* A base alone is its only record.
LEMMA BaseChain == ASSUME NEW b PROVE Chain(b, <<>>) = {Base(b)}
<1>1. Len(<<>>) = 0 /\ 0..0 = {0}
  OBVIOUS
<1>2. SubSeq(<<>>, 1, 0) = <<>>
  BY SubSeqEmpty
<1> QED
  BY <1>1, <1>2 DEF Chain, Base

\* One more delta is one more record.
LEMMA LongerChain ==
  ASSUME NEW b, NEW ds \in Seq(Delta), NEW d \in Delta
  PROVE  Chain(b, Append(ds, d)) = Chain(b, ds) \cup {[base |-> b, deltas |-> Append(ds, d)]}
<1> DEFINE es == Append(ds, d)
<1>1. es \in Seq(Delta) /\ Len(es) = Len(ds) + 1 /\ Len(ds) \in Nat
  OBVIOUS
<1>2. \A i \in 0..Len(ds) : SubSeq(es, 1, i) = SubSeq(ds, 1, i)
  <2> TAKE i \in 0..Len(ds)
  <2>1. \A j \in 1..i : es[j] = ds[j] /\ ds[j] \in Delta /\ es[j] \in Delta
    BY <1>1
  <2>2. /\ SubSeq(es, 1, i) \in Seq(Delta) /\ SubSeq(ds, 1, i) \in Seq(Delta)
        /\ Len(SubSeq(es, 1, i)) = i /\ Len(SubSeq(ds, 1, i)) = i
        /\ \A j \in 1..i : SubSeq(es, 1, i)[j] = es[j] /\ SubSeq(ds, 1, i)[j] = ds[j]
    <3>1. i \in Int /\ 1 \in Int /\ (IF 1 <= i THEN i - 1 + 1 ELSE 0) = i /\ i - 1 + 1 = i
      BY <1>1
    <3>2. \A j \in 1..i : 1 + j - 1 = j
      OBVIOUS
    <3> HIDE DEF es
    <3>3. /\ SubSeq(es, 1, i) \in Seq(Delta)
          /\ Len(SubSeq(es, 1, i)) = IF 1 <= i THEN i - 1 + 1 ELSE 0
          /\ \A j \in 1..(i - 1 + 1) : SubSeq(es, 1, i)[j] = es[1 + j - 1]
      BY <2>1, <3>1, SubSeqProperties
    <3>4. /\ SubSeq(ds, 1, i) \in Seq(Delta)
          /\ Len(SubSeq(ds, 1, i)) = IF 1 <= i THEN i - 1 + 1 ELSE 0
          /\ \A j \in 1..(i - 1 + 1) : SubSeq(ds, 1, i)[j] = ds[1 + j - 1]
      BY <2>1, <3>1, SubSeqProperties
    <3> QED
      BY <3>1, <3>2, <3>3, <3>4
  <2> QED
    BY <2>1, <2>2, SeqEqual
<1>3. SubSeq(es, 1, Len(ds) + 1) = es
  BY <1>1, SubSeqFull
<1>4. 0..(Len(ds) + 1) = (0..Len(ds)) \cup {Len(ds) + 1}
  BY <1>1
<1> HIDE DEF es
<1>5. Chain(b, es) = {[base |-> b, deltas |-> SubSeq(es, 1, i)] : i \in (0..Len(ds)) \cup {Len(ds) + 1}}
  BY <1>1, <1>4 DEF Chain
<1> QED
  BY <1>2, <1>3, <1>5 DEF Chain, es

\* What a head refers to is its chain.
LEMMA ReferencesAreChain == ASSUME NEW r \in Root, r.v2 PROVE References(r) = Chain(r.base, r.deltas)
BY DEF References, Chain, Root

\* Every record of a chain on a text is a record.
LEMMA ChainType ==
  ASSUME NEW b \in Text, NEW ds \in Seq(Delta) PROVE Chain(b, ds) \subseteq Record
<1>1. ASSUME NEW i \in 0..Len(ds) PROVE SubSeq(ds, 1, i) \in Seq(Delta)
  <2>1. \A j \in 1..i : ds[j] \in Delta
    OBVIOUS
  <2>2. i \in Int /\ 1 \in Int
    OBVIOUS
  <2> QED
    BY <2>1, <2>2, SubSeqProperties
<1> QED
  BY <1>1 DEF Chain, Record

-----------------------------------------------------------------------------
(* Calls take turns *)

\* A call at work, or whose turn it is, is the only one.
LEMMA Alone ==
  ASSUME IInv, NEW c \in 1..MaxCalls, Turn(c) \/ pc[c] \in Active,
         NEW e \in 1..MaxCalls, e # c
  PROVE  pc[e] \notin Active
<1>1. c \in Nat /\ e \in Nat /\ (e < c \/ c < e)
  BY StorageAssumption
<1>2. CASE Turn(c)
  <2>1. pc[c] = "queued" /\ \A d \in 1..(c - 1) : pc[d] \in Settling
    BY <1>2 DEF Turn, D!Settled, Settling
  <2>2. CASE e < c
    <3>1. e \in 1..(c - 1)
      BY <1>1, <2>2
    <3> QED
      BY <2>1, <3>1 DEF Settling, Active
  <2>3. CASE c < e
    BY <2>1, <2>3 DEF IInv, Serial, Settling, Active
  <2> QED
    BY <1>1, <2>2, <2>3
<1>3. CASE pc[c] \in Active
  BY <1>1, <1>3 DEF IInv, Serial, Settling, Active
<1> QED
  BY <1>2, <1>3

\* When a call's turn comes, the cache is empty or holds the root.
LEMMA TurnReads ==
  ASSUME IInv, NEW c \in 1..MaxCalls, Turn(c) PROVE cached = Unread \/ cached = root
<1>1. \A e \in 1..MaxCalls : pc[e] # "clean"
  BY Alone DEF Turn, Active
<1>2. 1..Len(calls) \subseteq 1..MaxCalls
  BY StorageAssumption DEF IInv, TypeOK
<1> QED
  BY <1>1, <1>2 DEF IInv, CacheIsTrue

\* A call that moves on by itself keeps the order.
LEMMA SerialStep ==
  ASSUME IInv, NEW c \in 1..MaxCalls, Turn(c) \/ pc[c] \in Active,
         NEW place \in Active \cup Settling, Goto(c, place), calls' = calls
  PROVE  /\ pc' \in [1..MaxCalls -> {"none", "queued", "base", "tip", "root", "clean"} \cup D!Settled]
         /\ Serial' /\ Made'
         /\ pc'[c] = place
         /\ \A e \in 1..MaxCalls : e # c => pc'[e] = pc[e] /\ pc'[e] \notin Active
<1>1. pc' = [pc EXCEPT ![c] = place]
  BY DEF Goto
<1>2. pc \in [1..MaxCalls -> {"none", "queued", "base", "tip", "root", "clean"} \cup D!Settled]
  BY DEF IInv, TypeOK
<1>3. pc'[c] = place /\ \A e \in 1..MaxCalls : e # c => pc'[e] = pc[e] /\ pc'[e] \notin Active
  BY <1>1, <1>2, Alone
<1>4. pc' \in [1..MaxCalls -> {"none", "queued", "base", "tip", "root", "clean"} \cup D!Settled]
  BY <1>1, <1>2 DEF Active, Settling, D!Settled
<1>5. \A e \in 1..MaxCalls : e < c => pc[e] \in Settling
  <2> TAKE e \in 1..MaxCalls
  <2> HAVE e < c
  <2>1. CASE Turn(c)
    <3>1. e \in 1..(c - 1)
      BY StorageAssumption
    <3> QED
      BY <2>1, <3>1 DEF Turn, D!Settled, Settling
  <2>2. CASE pc[c] \in Active
    BY <2>2 DEF IInv, Serial
  <2> QED
    BY <2>1, <2>2
<1>6. Serial'
  <2> SUFFICES ASSUME NEW d \in 1..MaxCalls, NEW e \in 1..MaxCalls, e < d, pc'[d] \in Active
               PROVE  pc'[e] \in Settling
    BY DEF Serial
  <2>1. d = c
    BY <1>3
  <2>2. e # c
    BY <2>1, StorageAssumption
  <2> QED
    BY <1>3, <1>5, <2>1, <2>2
<1>7. Made'
  <2>1. pc[c] # "none"
    BY DEF Turn, Active
  <2>2. ~ (c > Len(calls))
    BY <2>1 DEF IInv, Made
  <2> QED
    BY <1>3, <2>2 DEF IInv, Made
<1> QED
  BY <1>3, <1>4, <1>6, <1>7

\* What a call relies on stays while its own variables and the root do.
LEMMA StillWell ==
  ASSUME NEW c, WritesWell(c), CleansWell(c), pc'[c] = pc[c], calls'[c] = calls[c],
         next' = next, todo' = todo, UNCHANGED <<root, cached>>, Kept \subseteq Kept'
  PROVE  WritesWell(c)' /\ CleansWell(c)'
<1>1. Within(next[c])' = Within(next[c]) /\ References(next[c])' = References(next[c])
  BY DEF Within, References
<1>2. Chain(next[c].base, root.deltas)' = Chain(next[c].base, root.deltas)
  BY DEF Chain
<1>3. D!Applied(calls[c], Journal(root))' = D!Applied(calls[c], Journal(root))
  BY DEF D!Applied, Journal
<1>4. Journal(next[c])' = Journal(next[c]) /\ Base(next[c].base)' = Base(next[c].base)
  BY DEF Journal, Base
<1>5. CleansWell(c)'
  BY DEF CleansWell, Base
<1>6. WritesWell(c)'
  BY <1>1, <1>2, <1>3, <1>4 DEF WritesWell
<1> QED
  BY <1>5, <1>6

\* When nothing is at work after a step, and the cache is empty or true, only the
\* records and the root are left to look at.
LEMMA AtRest ==
  ASSUME TypeOK', RootOK', Recoverable', Serial', Made', cached' = Unread \/ cached' = root',
         \A e \in 1..MaxCalls : pc'[e] \notin Active
  PROVE  IInv'
<1>1. 1..Len(calls') \subseteq 1..MaxCalls
  BY StorageAssumption DEF TypeOK
<1>2. CacheIsTrue'
  BY DEF CacheIsTrue
<1>3. Writing'
  BY <1>1 DEF Writing, WritesWell, CleansWell, Active
<1> QED
  BY <1>2, <1>3 DEF IInv

\* A task that rejects, with or without a write of records or of the root.
LEMMA FailStep ==
  ASSUME IInv, NEW c \in 1..MaxCalls, Turn(c) \/ pc[c] \in Active, Fail(c),
         present' \subseteq Record, blank' \subseteq Record, damaged' = damaged,
         root' \in Root, RootOK', Recoverable'
  PROVE  IInv'
<1>1. Goto(c, "failed") /\ cached' = Unread /\ calls' = calls /\ UNCHANGED <<next, todo, answer>>
  BY DEF Fail
<1>2. "failed" \in Active \cup Settling
  BY DEF Settling
<1>3. /\ pc' \in [1..MaxCalls -> {"none", "queued", "base", "tip", "root", "clean"} \cup D!Settled]
      /\ Serial' /\ Made' /\ pc'[c] = "failed"
      /\ \A e \in 1..MaxCalls : e # c => pc'[e] \notin Active
  BY <1>1, <1>2, SerialStep
<1>4. TypeOK'
  BY <1>1, <1>3 DEF IInv, TypeOK
<1>5. \A e \in 1..MaxCalls : pc'[e] \notin Active
  BY <1>3 DEF Active
<1> QED
  BY <1>1, <1>3, <1>4, <1>5, AtRest

-----------------------------------------------------------------------------
(* The steps *)

\* The invariant holds at first; the lemmas that follow show each step to preserve it.
LEMMA InitHolds == Init => IInv
<1> SUFFICES ASSUME Init PROVE IInv
  OBVIOUS
<1>1. root \in Root /\ RootOK /\ ~root.v2
  <2>1. PICK t \in Text \cup {NoText} : root = [v2 |-> FALSE, base |-> t, deltas |-> <<>>]
    BY DEF Init
  <2>2. <<>> \in Seq(Delta) /\ FALSE \in BOOLEAN
    OBVIOUS
  <2>3. ~root.v2 /\ root.deltas = <<>>
    BY <2>1
  <2> QED
    BY <2>1, <2>2, <2>3 DEF Root, RootOK
<1>2. TypeOK
  <2>1. D!NoAnswer \in D!Image
    BY DEF D!NoAnswer, D!Image
  <2> QED
    BY <1>1, <2>1, StorageAssumption DEF Init, TypeOK
<1>3. Recoverable
  BY <1>1 DEF Recoverable, References
<1>4. CacheIsTrue /\ Serial /\ Made
  BY DEF Init, CacheIsTrue, Serial, Made, Active
<1>5. Writing
  BY DEF Init, Writing
<1> QED
  BY <1>1, <1>2, <1>3, <1>4, <1>5 DEF IInv

\* A new call waits behind the others.
LEMMA CallHolds == ASSUME IInv, NEW op \in D!Operation, Call(op) PROVE IInv'
<1> DEFINE n == Len(calls) + 1
<1>1. calls \in Seq(D!Operation) /\ Len(calls) \in Nat /\ n \in 1..MaxCalls
  BY StorageAssumption DEF IInv, TypeOK, Call
<1>2. calls' = Append(calls, op) /\ calls' \in Seq(D!Operation) /\ Len(calls') = n
  BY <1>1 DEF Call
<1>3. \A c \in 1..Len(calls) : calls'[c] = calls[c]
  BY <1>1, <1>2
<1>4. pc[n] = "none" /\ pc' = [pc EXCEPT ![n] = "queued"]
  BY <1>1 DEF IInv, Made, Call
<1>5. /\ pc'[n] = "queued"
      /\ \A c \in 1..MaxCalls : c # n => pc'[c] = pc[c]
      /\ pc' \in [1..MaxCalls -> {"none", "queued", "base", "tip", "root", "clean"} \cup D!Settled]
  BY <1>1, <1>4 DEF IInv, TypeOK
<1>6. UNCHANGED <<root, present, blank, damaged, cached, next, todo, answer>>
  BY DEF Call, records
<1>7. TypeOK'
  BY <1>1, <1>2, <1>5, <1>6 DEF IInv, TypeOK
<1>8. RootOK' /\ Recoverable'
  BY <1>6 DEF IInv, RootOK, Recoverable, References, Within
<1>9. Made'
  BY <1>1, <1>2, <1>5 DEF IInv, Made
<1>10. Serial'
  <2> SUFFICES ASSUME NEW c \in 1..MaxCalls, NEW e \in 1..MaxCalls, e < c, pc'[c] \in Active
               PROVE  pc'[e] \in Settling
    BY DEF Serial
  <2>1. c # n /\ pc[c] \in Active
    BY <1>5 DEF Active
  <2>2. e # n
    <3>1. pc[e] \in Settling
      BY <2>1 DEF IInv, Serial
    <3> QED
      BY <1>4, <3>1 DEF Settling
  <2> QED
    BY <1>5, <2>1, <2>2 DEF IInv, Serial
<1>11. CacheIsTrue'
  <2>1. \A c \in 1..Len(calls) : c \in 1..MaxCalls /\ c \in 1..Len(calls') /\ c # n
    <3>1. Len(calls') = Len(calls) + 1 /\ Len(calls) + 1 <= MaxCalls /\ Len(calls) \in Nat
      BY <1>1, <1>2, StorageAssumption
    <3> QED
      BY <3>1, StorageAssumption
  <2>2. ASSUME NEW c \in 1..Len(calls), pc[c] = "clean", next[c] = root
        PROVE  \E d \in 1..Len(calls') : pc'[d] = "clean" /\ next'[d] = root'
    BY <1>5, <1>6, <2>1, <2>2
  <2> QED
    BY <1>6, <2>2 DEF IInv, CacheIsTrue
<1>12. Writing'
  <2> SUFFICES ASSUME NEW c \in 1..Len(calls'), pc'[c] \in Active
               PROVE  WritesWell(c)' /\ CleansWell(c)'
    BY DEF Writing, WritesWell, CleansWell, Active
  <2>1. c # n
    BY <1>1, <1>2, <1>5 DEF Active
  <2>2. c \in 1..Len(calls) /\ c \in 1..MaxCalls
    <3>1. Len(calls') = Len(calls) + 1 /\ Len(calls) + 1 <= MaxCalls
      BY <1>1, <1>2
    <3>2. c # Len(calls) + 1
      BY <2>1
    <3> HIDE DEF n
    <3> QED
      BY <1>1, <3>1, <3>2, StorageAssumption
  <2>2a. pc'[c] = pc[c] /\ calls'[c] = calls[c]
    BY <1>3, <1>5, <2>1, <2>2
  <2>3. WritesWell(c) /\ CleansWell(c)
    BY <2>2 DEF IInv, Writing
  <2> QED
    BY <1>6, <2>2a, <2>3, StillWell DEF Kept
<1> QED
  BY <1>7, <1>8, <1>9, <1>10, <1>11, <1>12 DEF IInv

\* A call that stays at work answers for itself; no other is at work.
LEMMA Onward ==
  ASSUME IInv, NEW c \in 1..Len(calls), Turn(c) \/ pc[c] \in Active,
         NEW place \in Active, Goto(c, place), calls' = calls,
         root' \in Root, present' \subseteq Record, blank' \subseteq Record, damaged' \subseteq Record,
         cached' \in Root \cup {Unread}, next' \in [1..MaxCalls -> Root],
         todo' \in [1..MaxCalls -> SUBSET Record], answer' = answer,
         RootOK', Recoverable', CacheIsTrue', WritesWell(c)', CleansWell(c)'
  PROVE  IInv'
<1>1. c \in 1..MaxCalls /\ 1..Len(calls) \subseteq 1..MaxCalls
  BY StorageAssumption DEF IInv, TypeOK
<1>2. /\ pc' \in [1..MaxCalls -> {"none", "queued", "base", "tip", "root", "clean"} \cup D!Settled]
      /\ Serial' /\ Made'
      /\ \A e \in 1..MaxCalls : e # c => pc'[e] \notin Active
  BY <1>1, SerialStep
<1>3. TypeOK'
  BY <1>2 DEF IInv, TypeOK
<1>4. Writing'
  <2> SUFFICES ASSUME NEW e \in 1..Len(calls), e # c PROVE WritesWell(e)' /\ CleansWell(e)'
    BY DEF Writing
  <2>1. pc'[e] \notin Active
    BY <1>1, <1>2
  <2> QED
    BY <2>1 DEF WritesWell, CleansWell, Active
<1> QED
  BY <1>2, <1>3, <1>4 DEF IInv

\* What a call that changes the journal is about to write.
LEMMA SoughtIsHead ==
  ASSUME IInv, NEW c \in 1..Len(calls), Turn(c), calls[c].kind \notin D!Loads
  PROVE  /\ Known = root
         /\ calls[c].kind \in {"save", "append"}
         /\ calls[c].kind = "save" => Sought(c) = Base(calls[c].text) /\ calls[c].text \in Text
         /\ calls[c].kind = "append" =>
              /\ calls[c].delta \in Delta
              /\ Sought(c) = [base |-> IF root.base = NoText THEN Empty ELSE root.base,
                              deltas |-> Append(root.deltas, calls[c].delta)]
         /\ Sought(c) = D!Applied(calls[c], Journal(root))
         /\ Sought(c).base \in Text /\ Sought(c).deltas \in Seq(Delta)
<1>1. c \in 1..MaxCalls /\ calls[c] \in D!Operation
  BY StorageAssumption DEF IInv, TypeOK
<1>2. Known = root
  BY <1>1, TurnReads DEF Known
<1>3. /\ calls[c].kind \in {"save", "append"}
      /\ calls[c].kind = "save" => calls[c].text \in Text
      /\ calls[c].kind = "append" => calls[c].delta \in Delta
  BY <1>1 DEF D!Operation, D!Loads
<1>4. root.base \in Text \cup {NoText} /\ root.deltas \in Seq(Delta)
  BY DEF IInv, TypeOK, Root
<1>5. Sought(c) = D!Applied(calls[c], Journal(root))
  BY <1>2 DEF Sought
<1>6. calls[c].kind = "save" => Sought(c) = Base(calls[c].text)
  BY <1>5 DEF D!Applied, Base
<1>7. calls[c].kind = "append" =>
        Sought(c) = [base |-> IF root.base = NoText THEN Empty ELSE root.base,
                     deltas |-> Append(root.deltas, calls[c].delta)]
  BY <1>5 DEF D!Applied, Journal
<1>8. Sought(c).base \in Text /\ Sought(c).deltas \in Seq(Delta)
  <2>1. CASE calls[c].kind = "save"
    <3>1. Sought(c).base = calls[c].text /\ Sought(c).deltas = <<>>
      BY <1>6, <2>1 DEF Base
    <3> QED
      BY <1>3, <2>1, <3>1
  <2>2. CASE calls[c].kind = "append"
    <3>1. Append(root.deltas, calls[c].delta) \in Seq(Delta)
      BY <1>3, <1>4, <2>2
    <3>2. (IF root.base = NoText THEN Empty ELSE root.base) \in Text
      BY <1>4, StorageAssumption
    <3> QED
      BY <1>7, <2>2, <3>1, <3>2
  <2> QED
    BY <1>3, <2>1, <2>2
<1> QED
  BY <1>2, <1>3, <1>5, <1>6, <1>7, <1>8

\* A load fills the cache with the root.
LEMMA LoadHolds == ASSUME IInv, NEW c \in 1..Len(calls), Load(c) PROVE IInv'
<1>1. c \in 1..MaxCalls /\ root \in Root /\ Journal(root) \in D!Image
  BY StorageAssumption DEF IInv, TypeOK, Root, Journal, D!Image
<1>2. UNCHANGED <<root, present, blank, damaged, calls, next, todo>> /\ cached' = root
  BY DEF Load, records
<1>3. Turn(c) /\ \E place \in {"failed", "ok"} : Goto(c, place)
  BY DEF Load
<1>4. /\ pc' \in [1..MaxCalls -> {"none", "queued", "base", "tip", "root", "clean"} \cup D!Settled]
      /\ Serial' /\ Made'
      /\ \A e \in 1..MaxCalls : pc'[e] \notin Active
  <2>1. \A place \in {"failed", "ok"} : place \in Active \cup Settling /\ place \notin Active
    BY DEF Settling, Active
  <2> QED
    BY <1>1, <1>2, <1>3, <2>1, SerialStep
<1>5. answer' \in [1..MaxCalls -> D!Image]
  BY <1>1 DEF Load, IInv, TypeOK
<1>6. TypeOK'
  BY <1>1, <1>2, <1>4, <1>5 DEF IInv, TypeOK
<1>7. RootOK' /\ Recoverable'
  BY <1>2 DEF IInv, RootOK, Recoverable, References, Within
<1> QED
  BY <1>2, <1>4, <1>6, <1>7, AtRest

\* A call that fails before it writes.
LEMMA EarlyFailHolds ==
  ASSUME IInv, NEW c \in 1..Len(calls), ReadThrows(c) \/ TooLarge(c) PROVE IInv'
<1>1. c \in 1..MaxCalls /\ Turn(c) /\ Fail(c) /\ UNCHANGED <<root, present, blank, damaged>>
  BY StorageAssumption DEF IInv, TypeOK, ReadThrows, TooLarge, records
<1>2. root' \in Root /\ present' \subseteq Record /\ blank' \subseteq Record
  BY <1>1 DEF IInv, TypeOK
<1>3. RootOK' /\ Recoverable'
  BY <1>1 DEF IInv, RootOK, Recoverable, References, Within
<1> QED
  BY <1>1, <1>2, <1>3, FailStep

\* What a call begins follows from the root, read now or cached.
LEMMA BeginHolds == ASSUME IInv, NEW c \in 1..Len(calls), Begin(c) PROVE IInv'
<1> DEFINE head == [v2 |-> TRUE, base |-> Sought(c).base, deltas |-> Sought(c).deltas]
           rest == IF calls[c].kind = "save" THEN References(root) \ {Base(Sought(c).base)} ELSE {}
           place == IF calls[c].kind = "save" \/ ~root.v2 THEN "base" ELSE "tip"
<1>1. c \in 1..MaxCalls /\ Turn(c) /\ calls[c].kind \notin D!Loads
  BY StorageAssumption DEF IInv, TypeOK, Begin, Leftovers
<1>2. /\ Known = root
      /\ calls[c].kind \in {"save", "append"}
      /\ Sought(c) = D!Applied(calls[c], Journal(root))
      /\ Sought(c).base \in Text /\ Sought(c).deltas \in Seq(Delta)
      /\ Sought(c) = Journal(head)
  <2>1. \E b, ds : Sought(c) = [base |-> b, deltas |-> ds]
    BY <1>1, SoughtIsHead DEF Base
  <2> QED
    BY <1>1, <2>1, SoughtIsHead DEF Journal
<1>3. /\ cached' = root /\ next' = [next EXCEPT ![c] = head] /\ todo' = [todo EXCEPT ![c] = rest]
      /\ Goto(c, place) /\ UNCHANGED <<root, present, blank, damaged, calls, answer>>
      /\ Within(Sought(c))
  BY <1>2 DEF Begin, Leftovers, records, Fits
<1>4. head \in Root
  BY <1>2 DEF Root
<1>5. References(root) \subseteq Record
  <2>1. CASE root.v2
    BY <2>1, ReferencesAreChain, ChainType DEF IInv, TypeOK, RootOK, Root
  <2>2. CASE ~root.v2
    BY <2>2 DEF References
  <2> QED
    BY <2>1, <2>2
<1>6. /\ root' \in Root /\ cached' \in Root \cup {Unread}
      /\ present' \subseteq Record /\ blank' \subseteq Record /\ damaged' \subseteq Record
  BY <1>3 DEF IInv, TypeOK
<1>7. next' \in [1..MaxCalls -> Root] /\ next'[c] = head
  BY <1>1, <1>3, <1>4 DEF IInv, TypeOK
<1>8. todo' \in [1..MaxCalls -> SUBSET Record] /\ todo'[c] = rest
  <2>1. rest \in SUBSET Record
    BY <1>5
  <2> HIDE DEF rest
  <2> QED
    BY <1>1, <1>3, <2>1 DEF IInv, TypeOK
<1>9. RootOK' /\ Recoverable' /\ CacheIsTrue'
  BY <1>3 DEF IInv, RootOK, Recoverable, References, Within, CacheIsTrue
<1>10. place \in {"base", "tip"} /\ place \in Active /\ pc'[c] = place
  <2>1. place \in {"base", "tip"} /\ place \in Active
    BY DEF Active
  <2> HIDE DEF place
  <2> QED
    BY <1>1, <1>3, <2>1 DEF Goto, IInv, TypeOK
<1>11. CleansWell(c)'
  BY <1>10 DEF CleansWell
<1>12. Within(head) /\ head.v2 /\ head.base = Sought(c).base /\ head.deltas = Sought(c).deltas
  BY <1>3 DEF Within
<1>13. place = "base" /\ calls[c].kind = "append" => root.deltas = <<>>
  BY DEF IInv, RootOK
<1>14. place = "tip" => calls[c].kind = "append" /\ Chain(Sought(c).base, root.deltas) \subseteq Kept
  <2> SUFFICES ASSUME place = "tip"
               PROVE  calls[c].kind = "append" /\ Chain(Sought(c).base, root.deltas) \subseteq Kept
    OBVIOUS
  <2>1. calls[c].kind = "append" /\ root.v2
    BY <1>2
  <2>2. root.base \in Text /\ root.base # NoText
    BY <2>1, StorageAssumption DEF IInv, RootOK
  <2>3. Sought(c).base = root.base
    BY <1>1, <2>1, <2>2, SoughtIsHead
  <2>4. References(root) = Chain(root.base, root.deltas)
    BY <2>1, ReferencesAreChain DEF IInv, TypeOK
  <2> QED
    BY <2>1, <2>3, <2>4 DEF IInv, Recoverable, Kept
<1>15. Base(Sought(c).base) \notin rest
  OBVIOUS
<1> HIDE DEF place, rest, head
<1>16. WritesWell(c)'
  <2>1. /\ Within(next[c])' = Within(head) /\ Kept' = Kept
        /\ Journal(root)' = Journal(root) /\ Journal(next[c])' = Journal(head)
        /\ Base(next[c].base)' = Base(head.base)
        /\ Chain(next[c].base, root.deltas)' = Chain(head.base, root.deltas)
    BY <1>3, <1>7 DEF Within, Kept, Journal, Base, Chain
  <2>2. D!Applied(calls[c], Journal(root))' = D!Applied(calls[c], Journal(root))
    BY <1>3, <2>1 DEF D!Applied
  <2>3. pc'[c] # "root"
    BY <1>10
  <2> QED
    BY <1>2, <1>3, <1>7, <1>8, <1>10, <1>12, <1>13, <1>14, <1>15, <2>1, <2>2, <2>3 DEF WritesWell
<1> QED
  BY <1>1, <1>3, <1>6, <1>7, <1>8, <1>9, <1>10, <1>11, <1>16, Onward

\* What a call at work is about to write, and to which records it will refer.
LEMMA NextIsHead ==
  ASSUME IInv, NEW c \in 1..Len(calls), pc[c] \in {"base", "tip", "root"}
  PROVE  /\ next[c] \in Root /\ next[c].v2 /\ next[c].base \in Text /\ next[c].deltas \in Seq(Delta)
         /\ calls[c].kind \in {"save", "append"}
         /\ calls[c].kind = "save" =>
              next[c].deltas = <<>> /\ References(next[c]) = {Base(next[c].base)}
         /\ calls[c].kind = "append" =>
              References(next[c]) = Chain(next[c].base, root.deltas) \cup {Journal(next[c])}
<1>1. c \in 1..MaxCalls /\ calls[c] \in D!Operation /\ next[c] \in Root /\ WritesWell(c)
  BY StorageAssumption DEF IInv, TypeOK, Writing
<1>2. /\ next[c].v2 /\ next[c].base \in Text /\ calls[c].kind \in {"save", "append"}
      /\ Journal(next[c]) = D!Applied(calls[c], Journal(root))
  BY <1>1 DEF WritesWell
<1>3. next[c].deltas \in Seq(Delta) /\ References(next[c]) = Chain(next[c].base, next[c].deltas)
  BY <1>1, <1>2, ReferencesAreChain DEF Root
<1>4. ASSUME calls[c].kind = "save" PROVE next[c].deltas = <<>>
  BY <1>2, <1>4 DEF Journal, D!Applied
<1>5. ASSUME calls[c].kind = "append"
      PROVE  next[c].deltas = Append(root.deltas, calls[c].delta) /\ calls[c].delta \in Delta
  BY <1>1, <1>2, <1>5 DEF Journal, D!Applied, D!Operation
<1>6. calls[c].kind = "save" => References(next[c]) = {Base(next[c].base)}
  BY <1>3, <1>4, BaseChain
<1>7. calls[c].kind = "append" =>
        References(next[c]) = Chain(next[c].base, root.deltas) \cup {Journal(next[c])}
  <2> HAVE calls[c].kind = "append"
  <2> DEFINE b == next[c].base
             d == calls[c].delta
  <2>1. root.deltas \in Seq(Delta) /\ d \in Delta /\ next[c].deltas = Append(root.deltas, d)
    BY <1>5 DEF IInv, TypeOK, Root
  <2>2. Chain(b, Append(root.deltas, d))
          = Chain(b, root.deltas) \cup {[base |-> b, deltas |-> Append(root.deltas, d)]}
    BY <2>1, LongerChain
  <2> QED
    BY <1>3, <2>1, <2>2 DEF Journal
<1> QED
  BY <1>1, <1>2, <1>3, <1>4, <1>6, <1>7

\* A record more spoils nothing, whether the call that wrote it goes on or rejects.
LEMMA RecordWritten ==
  ASSUME IInv, NEW c \in 1..Len(calls), pc[c] \in {"base", "tip"}, NEW r \in Record,
         NEW place \in {"tip", "root"}, WriteRecord(c, r, place),
         place = "tip" => calls[c].kind = "append" /\ Chain(next[c].base, root.deltas) \subseteq Kept \cup {r},
         place = "root" => References(next[c]) \subseteq Kept \cup {r}
  PROVE  IInv'
<1>1. c \in 1..MaxCalls /\ pc[c] \in Active /\ place \in Active
  BY StorageAssumption DEF IInv, TypeOK, Active
<1>2. root' = root
  BY DEF WriteRecord
<1>3. RootOK' /\ root' \in Root
  BY <1>2 DEF IInv, RootOK, TypeOK
<1>4. present' \subseteq Record /\ blank' \subseteq Record /\ damaged' = damaged
      /\ present \subseteq present'
  BY DEF WriteRecord, records, IInv, TypeOK
<1>5. Recoverable'
  BY <1>2, <1>4 DEF IInv, Recoverable, References, Within
<1>6. CASE Fail(c)
  BY <1>1, <1>3, <1>4, <1>5, <1>6, FailStep
<1>7. CASE /\ present' = present \cup {r} /\ Goto(c, place)
           /\ UNCHANGED <<cached, calls, next, todo, answer>>
  <2>1. /\ damaged' \subseteq Record /\ cached' \in Root \cup {Unread}
        /\ next' \in [1..MaxCalls -> Root] /\ todo' \in [1..MaxCalls -> SUBSET Record]
    BY <1>4, <1>7 DEF IInv, TypeOK
  <2>2. pc'[c] = place
    BY <1>1, <1>7 DEF Goto, IInv, TypeOK
  <2>3. WritesWell(c)
    BY DEF IInv, Writing
  <2>4. Kept' = Kept \cup {r}
    BY <1>4, <1>7 DEF Kept
  <2>5. CleansWell(c)'
    BY <2>2 DEF CleansWell
  <2>6. WritesWell(c)'
    <3>1. /\ Within(next[c])' = Within(next[c]) /\ References(next[c])' = References(next[c])
          /\ Chain(next[c].base, root.deltas)' = Chain(next[c].base, root.deltas)
          /\ D!Applied(calls[c], Journal(root))' = D!Applied(calls[c], Journal(root))
          /\ Journal(next[c])' = Journal(next[c]) /\ Base(next[c].base)' = Base(next[c].base)
      BY <1>2, <1>7 DEF Within, References, Chain, D!Applied, Journal, Base
    <3> QED
      BY <1>2, <1>7, <2>2, <2>3, <2>4, <3>1 DEF WritesWell
  <2>7. CacheIsTrue'
    BY <1>2, <1>7, <2>3 DEF WritesWell, CacheIsTrue
  <2> QED
    BY <1>1, <1>3, <1>4, <1>5, <1>7, <2>1, <2>5, <2>6, <2>7, Onward
<1> QED
  BY <1>6, <1>7 DEF WriteRecord

\* The base is there before a head or a segment names it.
LEMMA WriteBaseHolds == ASSUME IInv, NEW c \in 1..Len(calls), WriteBase(c) PROVE IInv'
<1> DEFINE r == Base(next[c].base)
           place == IF calls[c].kind = "save" THEN "root" ELSE "tip"
<1>1. pc[c] = "base" /\ WriteRecord(c, r, place) /\ WritesWell(c)
  BY DEF WriteBase, IInv, Writing
<1>2. r \in Record /\ place \in {"tip", "root"}
  <2>1. next[c].base \in Text /\ <<>> \in Seq(Delta)
    BY <1>1 DEF WritesWell
  <2> QED
    BY <2>1 DEF Base, Record
<1>3. place = "root" => References(next[c]) \subseteq Kept \cup {r}
  BY <1>1, NextIsHead
<1>4. place = "tip" => calls[c].kind = "append" /\ Chain(next[c].base, root.deltas) \subseteq Kept \cup {r}
  BY <1>1, BaseChain DEF WritesWell
<1> HIDE DEF place, r
<1> QED
  BY <1>1, <1>2, <1>3, <1>4, RecordWritten

\* The last segment is there before the head names it.
LEMMA WriteTipHolds == ASSUME IInv, NEW c \in 1..Len(calls), WriteTip(c) PROVE IInv'
<1> DEFINE r == Journal(next[c])
<1>1. pc[c] = "tip" /\ WriteRecord(c, r, "root") /\ WritesWell(c)
  BY DEF WriteTip, IInv, Writing
<1>2. r \in Record
  BY <1>1, NextIsHead DEF Journal, Record
<1>3. References(next[c]) \subseteq Kept \cup {r}
  BY <1>1, NextIsHead DEF WritesWell
<1> HIDE DEF r
<1> QED
  BY <1>1, <1>2, <1>3, RecordWritten

\* The commit: the new root leads to records that are all there.
LEMMA WriteRootHolds == ASSUME IInv, NEW c \in 1..Len(calls), WriteRoot(c) PROVE IInv'
<1>1. /\ c \in 1..MaxCalls /\ pc[c] = "root" /\ pc[c] \in Active
      /\ UNCHANGED <<present, blank, damaged>> /\ WritesWell(c)
  BY StorageAssumption DEF IInv, TypeOK, Active, WriteRoot, records, Writing
<1>2. /\ next[c] \in Root /\ next[c].v2 /\ next[c].base \in Text
      /\ calls[c].kind \in {"save", "append"}
      /\ calls[c].kind = "save" => next[c].deltas = <<>>
      /\ Within(next[c]) /\ References(next[c]) \subseteq Kept
      /\ Base(next[c].base) \notin todo[c]
  BY <1>1, NextIsHead DEF WritesWell
<1>3. root' \in {root, next[c]}
  BY DEF WriteRoot
<1>4. root' \in Root /\ RootOK' /\ Recoverable'
  <2>1. CASE root' = root
    BY <1>1, <2>1 DEF IInv, TypeOK, RootOK, Recoverable, References, Within
  <2>2. CASE root' = next[c]
    <3>1. References(root') \subseteq present' \cup damaged'
      BY <1>1, <1>2, <2>2 DEF Kept
    <3>2. Within(root')
      BY <1>2, <2>2
    <3>3. References(root)' = References(root') /\ Within(root)' = Within(root')
      BY DEF References, Within
    <3> QED
      BY <1>2, <2>2, <3>1, <3>2, <3>3 DEF RootOK, Recoverable
  <2> QED
    BY <1>3, <2>1, <2>2
<1>5. present' \subseteq Record /\ blank' \subseteq Record /\ damaged' \subseteq Record
  BY <1>1 DEF IInv, TypeOK
<1>6. CASE Fail(c)
  BY <1>1, <1>4, <1>5, <1>6, FailStep
<1>7. CASE /\ root' = next[c] /\ calls[c].kind = "save" /\ Goto(c, "clean")
           /\ UNCHANGED <<cached, calls, next, todo, answer>>
  <2>1. "clean" \in Active /\ pc'[c] = "clean"
    BY <1>1, <1>7 DEF Active, Goto, IInv, TypeOK
  <2>2. /\ cached' \in Root \cup {Unread}
        /\ next' \in [1..MaxCalls -> Root] /\ todo' \in [1..MaxCalls -> SUBSET Record]
    BY <1>7 DEF IInv, TypeOK
  <2>3. CacheIsTrue'
    BY <1>7, <2>1 DEF CacheIsTrue
  <2>4. WritesWell(c)'
    BY <2>1 DEF WritesWell
  <2>5. CleansWell(c)'
    BY <1>2, <1>7 DEF CleansWell, Base
  <2> QED
    BY <1>1, <1>4, <1>5, <1>7, <2>1, <2>2, <2>3, <2>4, <2>5, Onward
<1>8. CASE /\ root' = next[c] /\ Goto(c, "ok") /\ cached' = next[c]
           /\ UNCHANGED <<calls, next, todo, answer>>
  <2>1. "ok" \in Active \cup Settling /\ "ok" \notin Active
    BY DEF Active, Settling
  <2>2. /\ pc' \in [1..MaxCalls -> {"none", "queued", "base", "tip", "root", "clean"} \cup D!Settled]
        /\ Serial' /\ Made'
        /\ \A e \in 1..MaxCalls : pc'[e] \notin Active
    BY <1>1, <1>8, <2>1, SerialStep
  <2>3. TypeOK'
    BY <1>2, <1>4, <1>5, <1>8, <2>2 DEF IInv, TypeOK
  <2> QED
    BY <1>4, <1>8, <2>2, <2>3, AtRest
<1> QED
  BY <1>6, <1>7, <1>8 DEF WriteRoot

\* An erased record is gone, or blanked, or was blank to begin with.
LEMMA EraseType ==
  ASSUME present \subseteq Record, blank \subseteq Record, damaged \subseteq Record,
         NEW r \in Record, Erase(r)
  PROVE  /\ present' \subseteq Record /\ blank' \subseteq Record /\ damaged' \subseteq Record
         /\ Kept \ {r} \subseteq Kept'
BY DEF Erase, Kept

\* Cleaning up leaves the base of the new root alone.
LEMMA CleanHolds == ASSUME IInv, NEW c \in 1..Len(calls), Clean(c) PROVE IInv'
<1>1. /\ c \in 1..MaxCalls /\ pc[c] = "clean" /\ CleansWell(c) /\ todo[c] \subseteq Record
      /\ UNCHANGED <<root, cached, calls, pc, next, answer>>
  BY StorageAssumption DEF IInv, TypeOK, Clean, Writing
<1>2. PICK r \in todo[c] : /\ todo' = [todo EXCEPT ![c] = todo[c] \ {r}]
                           /\ Erase(r) \/ UNCHANGED <<present, blank, damaged>>
  BY DEF Clean, records
<1>3. /\ present' \subseteq Record /\ blank' \subseteq Record /\ damaged' \subseteq Record
      /\ Kept \ {r} \subseteq Kept'
  <2>1. CASE Erase(r)
    BY <1>1, <2>1, EraseType DEF IInv, TypeOK
  <2>2. CASE UNCHANGED <<present, blank, damaged>>
    BY <2>2 DEF IInv, TypeOK, Kept
  <2> QED
    BY <1>2, <2>1, <2>2
<1>4. todo' \in [1..MaxCalls -> SUBSET Record] /\ todo'[c] = todo[c] \ {r}
  BY <1>1, <1>2 DEF IInv, TypeOK
<1>5. /\ calls[c].kind = "save" /\ root = next[c] /\ root.v2 /\ root.deltas = <<>>
      /\ Base(root.base) \notin todo[c] /\ root \in Root
  BY <1>1 DEF CleansWell, IInv, TypeOK
<1>6. References(root) = {Base(root.base)}
  BY <1>5, ReferencesAreChain, BaseChain
<1>7. Recoverable'
  <2>1. Base(root.base) \in Kept /\ Base(root.base) # r
    BY <1>2, <1>5, <1>6 DEF IInv, Recoverable, Kept
  <2>2. References(root)' = References(root) /\ Within(root)' = Within(root)
    BY <1>1 DEF References, Within
  <2> QED
    BY <1>1, <1>3, <1>6, <2>1, <2>2 DEF IInv, Recoverable, Kept
<1>8. TypeOK' /\ RootOK' /\ CacheIsTrue' /\ Serial' /\ Made'
  BY <1>1, <1>3, <1>4 DEF IInv, TypeOK, RootOK, CacheIsTrue, Serial, Made
<1>9. Writing'
  <2> SUFFICES ASSUME NEW e \in 1..Len(calls) PROVE WritesWell(e)' /\ CleansWell(e)'
    BY <1>1 DEF Writing
  <2>1. CASE e = c
    <3>1. Base(root.base)' = Base(root.base)
      BY <1>1 DEF Base
    <3> QED
      BY <1>1, <1>4, <1>5, <2>1, <3>1 DEF WritesWell, CleansWell
  <2>2. CASE e # c
    <3>1. e \in 1..MaxCalls /\ pc[e] \notin Active
      BY <1>1, <2>2, Alone, StorageAssumption DEF IInv, TypeOK, Active
    <3> QED
      BY <1>1, <3>1 DEF WritesWell, CleansWell, Active
  <2> QED
    BY <2>1, <2>2
<1> QED
  BY <1>7, <1>8, <1>9 DEF IInv

\* When a save is done its cache is the root.
LEMMA FinishHolds == ASSUME IInv, NEW c \in 1..Len(calls), Finish(c) PROVE IInv'
<1>1. /\ c \in 1..MaxCalls /\ pc[c] \in Active /\ CleansWell(c) /\ pc[c] = "clean"
      /\ Goto(c, "ok") /\ cached' = next[c]
      /\ UNCHANGED <<root, present, blank, damaged, calls, next, todo, answer>>
  BY StorageAssumption DEF IInv, TypeOK, Finish, Writing, records, Active
<1>2. cached' = root'
  BY <1>1 DEF CleansWell
<1>3. "ok" \in Active \cup Settling /\ "ok" \notin Active
  BY DEF Active, Settling
<1>4. /\ pc' \in [1..MaxCalls -> {"none", "queued", "base", "tip", "root", "clean"} \cup D!Settled]
      /\ Serial' /\ Made'
      /\ \A e \in 1..MaxCalls : pc'[e] \notin Active
  BY <1>1, <1>3, SerialStep
<1>5. TypeOK'
  BY <1>1, <1>2, <1>4 DEF IInv, TypeOK
<1>6. RootOK' /\ Recoverable'
  BY <1>1 DEF IInv, RootOK, Recoverable, References, Within
<1> QED
  BY <1>2, <1>4, <1>5, <1>6, AtRest

\* A crash leaves only the store, and nobody at work.
LEMMA CrashHolds == ASSUME IInv, Crash PROVE IInv'
<1>1. /\ cached' = Unread /\ todo' = [c \in 1..MaxCalls |-> {}]
      /\ UNCHANGED <<root, present, blank, damaged, calls, next, answer>>
      /\ pc' = [c \in 1..MaxCalls |-> IF pc[c] \in D!Settled \cup {"none"} THEN pc[c] ELSE "lost"]
  BY DEF Crash, records
<1>2. \A c \in 1..MaxCalls : pc'[c] \notin Active /\ (pc[c] = "none" => pc'[c] = "none")
  BY <1>1 DEF Active, D!Settled
<1>3. pc' \in [1..MaxCalls -> {"none", "queued", "base", "tip", "root", "clean"} \cup D!Settled]
  BY <1>1 DEF D!Settled
<1>4. TypeOK'
  BY <1>1, <1>3 DEF IInv, TypeOK
<1>5. Serial' /\ Made'
  BY <1>1, <1>2 DEF IInv, Serial, Made
<1>6. RootOK' /\ Recoverable'
  BY <1>1 DEF IInv, RootOK, Recoverable, References, Within
<1> QED
  BY <1>1, <1>2, <1>4, <1>5, <1>6, AtRest

\* A damaged record is still kept for, if unreadable.
LEMMA DamageHolds == ASSUME IInv, NEW r \in present, Damage(r) PROVE IInv'
<1>1. /\ present' = present \ {r} /\ damaged' = damaged \cup {r}
      /\ UNCHANGED <<root, blank, cached, calls, pc, next, todo, answer>>
  BY DEF Damage
<1>2. Kept' = Kept
  BY <1>1 DEF Kept
<1>3. TypeOK' /\ RootOK' /\ CacheIsTrue' /\ Serial' /\ Made'
  BY <1>1 DEF IInv, TypeOK, RootOK, CacheIsTrue, Serial, Made
<1>4. Recoverable'
  BY <1>1, <1>2 DEF IInv, Recoverable, Kept, References, Within
<1>5. Writing'
  <2> SUFFICES ASSUME NEW e \in 1..Len(calls) PROVE WritesWell(e)' /\ CleansWell(e)'
    BY <1>1 DEF Writing
  <2>1. WritesWell(e) /\ CleansWell(e)
    BY DEF IInv, Writing
  <2> QED
    BY <1>1, <1>2, <2>1, StillWell
<1> QED
  BY <1>3, <1>4, <1>5 DEF IInv

\* Every step preserves the invariant.
LEMMA StepHolds == IInv /\ [Next]_vars => IInv'
<1> SUFFICES ASSUME IInv, [Next]_vars PROVE IInv'
  OBVIOUS
<1>1. CASE UNCHANGED vars
  <2>1. UNCHANGED <<root, present, blank, damaged, cached, calls, pc, next, todo, answer>>
    BY <1>1 DEF vars, records
  <2>2. TypeOK' /\ RootOK' /\ CacheIsTrue' /\ Serial' /\ Made' /\ Recoverable'
    BY <2>1 DEF IInv, TypeOK, RootOK, CacheIsTrue, Serial, Made, Recoverable, References, Within
  <2>3. \A e \in 1..Len(calls) : WritesWell(e)' /\ CleansWell(e)'
    <3> TAKE e \in 1..Len(calls)
    <3>1. WritesWell(e) /\ CleansWell(e)
      BY DEF IInv, Writing
    <3> QED
      BY <2>1, <3>1, StillWell DEF Kept
  <2> QED
    BY <2>1, <2>2, <2>3 DEF IInv, Writing
<1>2. CASE \E op \in D!Operation : Call(op)
  BY <1>2, CallHolds
<1>3. CASE \E c \in 1..Len(calls) : Work(c)
  BY <1>3, LoadHolds, EarlyFailHolds, BeginHolds, WriteBaseHolds, WriteTipHolds, WriteRootHolds,
     CleanHolds, FinishHolds DEF Work
<1>4. CASE Crash
  BY <1>4, CrashHolds
<1>5. CASE \E r \in present : Damage(r)
  BY <1>5, DamageHolds
<1> QED
  BY <1>1, <1>2, <1>3, <1>4, <1>5 DEF Next

\* The invariant, for every text, limit, number of calls and choice of mishaps.
THEOREM Invariance == Spec => []IInv
BY InitHolds, StepHolds, PTL DEF Spec

\* The types, for every text, limit and number of calls.
THEOREM TypeCorrect == Spec => []TypeOK
<1>1. IInv => TypeOK
  BY DEF IInv
<1> QED
  BY <1>1, Invariance, PTL

\* Wherever the process dies, the root leads to every record of a journal within
\* its limits (journal-storage.ts: a commit is the one write of the root).
THEOREM CrashSafe == Spec => []Recoverable
<1>1. IInv => Recoverable
  BY DEF IInv
<1> QED
  BY <1>1, Invariance, PTL

\* No outcome of a store call leaves a cache that differs from the root.
THEOREM CacheTrue == Spec => []CacheIsTrue
<1>1. IInv => CacheIsTrue
  BY DEF IInv
<1> QED
  BY <1>1, Invariance, PTL

-----------------------------------------------------------------------------
(* The storage implements the durable journal *)

Seen(p) == IF p \in {"queued", "base", "tip", "root"} THEN "open"
           ELSE IF p = "clean" THEN "took" ELSE p

\* A step of one call moves that call's phase alone.
LEMMA PhaseStep ==
  ASSUME TypeOK, NEW c \in 1..MaxCalls, NEW place, Goto(c, place)
  PROVE  Phase' = [Phase EXCEPT ![c] = Seen(place)]
<1>1. pc' = [pc EXCEPT ![c] = place] /\ DOMAIN pc = 1..MaxCalls
  BY DEF Goto, TypeOK
<1> QED
  BY <1>1 DEF Phase, Seen

\* A call that may take effect has its turn in the abstract journal.
LEMMA AbstractTurn ==
  ASSUME IInv, NEW c \in 1..Len(calls), Turn(c) \/ pc[c] \in {"base", "tip", "root"}
  PROVE  D!Turn(c)
<1>1. c \in 1..MaxCalls /\ c \in Nat
  BY StorageAssumption DEF IInv, TypeOK
<1>2. Phase[c] = "open"
  BY <1>1 DEF Phase, Turn
<1>3. \A e \in 1..(c - 1) : e \in 1..MaxCalls /\ e < c
  BY <1>1, StorageAssumption
<1>4. \A e \in 1..(c - 1) : pc[e] \in Settling
  BY <1>1, <1>3 DEF IInv, Serial, Active, Turn, D!Settled, Settling
<1>5. \A e \in 1..(c - 1) : Phase[e] \in D!Settled
  BY <1>3, <1>4 DEF Phase, Settling, D!Settled
<1> QED
  BY <1>2, <1>5 DEF D!Turn

\* A rejection before the root was written took no effect.
LEMMA FailRejects ==
  ASSUME IInv, NEW c \in 1..Len(calls), Turn(c) \/ pc[c] \in {"base", "tip", "root"},
         Goto(c, "failed"), UNCHANGED <<root, calls, answer>>
  PROVE  D!Reject(c)
<1>1. c \in 1..MaxCalls /\ Seen("failed") = "failed"
  BY StorageAssumption DEF IInv, TypeOK, Seen
<1>2. Phase' = [Phase EXCEPT ![c] = "failed"]
  BY <1>1, PhaseStep DEF IInv
<1>3. Journal(root)' = Journal(root)
  BY DEF Journal
<1> QED
  BY <1>2, <1>3, AbstractTurn DEF D!Reject

\* The write of the root is where a call takes effect.
LEMMA RootTakes ==
  ASSUME IInv, NEW c \in 1..Len(calls), pc[c] = "root", NEW place \in {"clean", "ok", "failed"},
         Goto(c, place), root' = next[c], UNCHANGED <<calls, answer>>
  PROVE  D!Take(c)
<1>1. c \in 1..MaxCalls /\ WritesWell(c)
  BY StorageAssumption DEF IInv, TypeOK, Writing
<1>2. Phase' = [Phase EXCEPT ![c] = Seen(place)] /\ Seen(place) \in {"took", "ok", "failed", "lost"}
  BY <1>1, PhaseStep DEF IInv, Seen
<1>3. calls[c].kind \notin D!Loads
  BY <1>1 DEF WritesWell, D!Loads
<1>4. Journal(root)' = D!Applied(calls[c], Journal(root))
  <2>1. Journal(root)' = Journal(next[c])
    BY DEF Journal
  <2> QED
    BY <1>1, <2>1 DEF WritesWell
<1> QED
  BY <1>2, <1>3, <1>4, AbstractTurn DEF D!Take

\* A step that goes on within its phase is none of the abstract journal's.
LEMMA Unseen ==
  ASSUME IInv, NEW c \in 1..Len(calls), NEW place, Goto(c, place), Seen(place) = Seen(pc[c]),
         UNCHANGED <<root, calls, answer>>
  PROVE  UNCHANGED D!vars
<1>1. c \in 1..MaxCalls
  BY StorageAssumption DEF IInv, TypeOK
<1>2. Phase' = [Phase EXCEPT ![c] = Seen(pc[c])]
  BY <1>1, PhaseStep DEF IInv
<1>3. Phase[c] = Seen(pc[c]) /\ Phase' = Phase
  BY <1>1, <1>2 DEF Phase, Seen
<1>4. Journal(root)' = Journal(root)
  BY DEF Journal
<1> QED
  BY <1>3, <1>4 DEF D!vars

\* A fresh store is a journal nobody has called.
LEMMA AbstractInit == Init => D!Init
<1> SUFFICES ASSUME Init PROVE D!Init
  OBVIOUS
<1>1. PICK t \in Text \cup {NoText} : root = [v2 |-> FALSE, base |-> t, deltas |-> <<>>]
  BY DEF Init
<1>2. Journal(root) \in {[base |-> u, deltas |-> <<>>] : u \in Text \cup {NoText}}
  BY <1>1 DEF Journal
<1>3. Phase = [c \in 1..MaxCalls |-> "none"]
  BY DEF Init, Phase
<1> QED
  BY <1>2, <1>3 DEF Init, D!Init

\* A step of a call is a step of the same call in the durable journal, or none.
LEMMA AbstractWork ==
  ASSUME IInv, NEW c \in 1..Len(calls), Work(c)
  PROVE  D!Take(c) \/ D!Resolve(c) \/ D!Answer(c) \/ D!Reject(c) \/ UNCHANGED D!vars
<1>1. c \in 1..MaxCalls /\ pc \in [1..MaxCalls -> {"none", "queued", "base", "tip", "root", "clean"} \cup D!Settled]
  BY StorageAssumption DEF IInv, TypeOK
<1>2. CASE Load(c)
  <2>1. Turn(c) /\ calls[c].kind \in D!Loads /\ UNCHANGED <<root, calls>>
    BY <1>2 DEF Load
  <2>2. CASE calls[c].kind = "load" /\ root.deltas # <<>>
    BY <1>2, <2>1, <2>2, FailRejects DEF Load
  <2>3. CASE ~ (calls[c].kind = "load" /\ root.deltas # <<>>)
    <3>1. Goto(c, "ok") /\ answer' = [answer EXCEPT ![c] = Journal(root)]
      BY <1>2, <2>3 DEF Load
    <3>2. Phase' = [Phase EXCEPT ![c] = "ok"]
      BY <1>1, <3>1, PhaseStep DEF IInv, Seen
    <3>3. Journal(root)' = Journal(root) /\ Journal(root).deltas = root.deltas
      BY <2>1 DEF Journal
    <3> QED
      BY <2>1, <2>3, <3>1, <3>2, <3>3, AbstractTurn DEF D!Answer
  <2> QED
    BY <2>2, <2>3
<1>3. CASE ReadThrows(c) \/ TooLarge(c)
  BY <1>3, FailRejects DEF ReadThrows, TooLarge, Fail
<1>4. CASE Begin(c)
  <2>1. \E place \in {"base", "tip"} : Goto(c, place)
    BY <1>4 DEF Begin
  <2>2. pc[c] = "queued" /\ UNCHANGED <<root, calls, answer>>
    BY <1>4 DEF Begin, Turn
  <2> QED
    BY <2>1, <2>2, Unseen DEF Seen
<1>5. ASSUME NEW r, NEW place \in {"tip", "root"}, WriteRecord(c, r, place), pc[c] \in {"base", "tip"}
      PROVE  D!Reject(c) \/ UNCHANGED D!vars
  <2>1. UNCHANGED <<root, calls, answer>> /\ (Goto(c, place) \/ Goto(c, "failed"))
    BY <1>5 DEF WriteRecord, Fail
  <2>2. CASE Goto(c, place)
    BY <1>5, <2>1, <2>2, Unseen DEF Seen
  <2>3. CASE Goto(c, "failed")
    BY <1>5, <2>1, <2>3, FailRejects
  <2> QED
    BY <2>1, <2>2, <2>3
<1>6. CASE WriteBase(c)
  <2>1. (IF calls[c].kind = "save" THEN "root" ELSE "tip") \in {"tip", "root"}
    OBVIOUS
  <2> QED
    BY <1>5, <1>6, <2>1 DEF WriteBase
<1>7. CASE WriteTip(c)
  BY <1>5, <1>7 DEF WriteTip
<1>8. CASE WriteRoot(c)
  <2>1. pc[c] = "root" /\ root' \in {root, next[c]} /\ UNCHANGED <<calls, answer>>
    BY <1>8 DEF WriteRoot, Fail
  <2>2. \/ root' = next[c] /\ \E place \in {"clean", "ok", "failed"} : Goto(c, place)
        \/ root' = root /\ Goto(c, "failed")
    BY <1>8 DEF WriteRoot, Fail
  <2>3. CASE root' = next[c] /\ \E place \in {"clean", "ok", "failed"} : Goto(c, place)
    BY <2>1, <2>3, RootTakes
  <2>4. CASE root' = root /\ Goto(c, "failed")
    BY <2>1, <2>4, FailRejects
  <2> QED
    BY <2>2, <2>3, <2>4
<1>9. CASE Clean(c)
  <2>1. UNCHANGED <<root, calls, pc, answer>>
    BY <1>9 DEF Clean
  <2>2. Phase' = Phase /\ Journal(root)' = Journal(root)
    BY <2>1 DEF Phase, Journal
  <2> QED
    BY <2>1, <2>2 DEF D!vars
<1>10. CASE Finish(c)
  <2>1. pc[c] = "clean" /\ Goto(c, "ok") /\ UNCHANGED <<root, calls, answer>>
    BY <1>10 DEF Finish
  <2>2. Phase[c] = "took" /\ Phase' = [Phase EXCEPT ![c] = "ok"]
    <3>1. Seen("ok") = "ok" /\ Phase[c] = "took"
      BY <1>1, <2>1 DEF Seen, Phase
    <3> QED
      BY <1>1, <2>1, <3>1, PhaseStep DEF IInv
  <2>3. Journal(root)' = Journal(root)
    BY <2>1 DEF Journal
  <2> QED
    BY <2>1, <2>2, <2>3 DEF D!Resolve
<1> QED
  BY <1>2, <1>3, <1>4, <1>6, <1>7, <1>8, <1>9, <1>10 DEF Work

\* Every step is a step of the durable journal, or none.
LEMMA AbstractStep == IInv /\ [Next]_vars => [D!Next]_(D!vars)
<1> SUFFICES ASSUME IInv, [Next]_vars PROVE D!Next \/ UNCHANGED D!vars
  OBVIOUS
<1>1. CASE UNCHANGED vars
  BY <1>1 DEF vars, D!vars, Phase, Journal
<1>2. ASSUME NEW op \in D!Operation, Call(op) PROVE D!Next
  <2> DEFINE n == Len(calls) + 1
  <2>1. n \in 1..MaxCalls /\ pc' = [pc EXCEPT ![n] = "queued"]
    BY <1>2, StorageAssumption DEF Call, IInv, TypeOK
  <2>2. Phase' = [Phase EXCEPT ![n] = "open"]
    <3>1. Goto(n, "queued") /\ Seen("queued") = "open"
      BY <2>1 DEF Goto, Seen
    <3> HIDE DEF n
    <3> QED
      BY <2>1, <3>1, PhaseStep DEF IInv
  <2>3. Journal(root)' = Journal(root)
    BY <1>2 DEF Call, Journal
  <2>4. D!Call(op)
    BY <1>2, <2>2, <2>3 DEF Call, D!Call
  <2> QED
    BY <2>4 DEF D!Next
<1>3. ASSUME NEW c \in 1..Len(calls), Work(c) PROVE D!Next \/ UNCHANGED D!vars
  BY <1>3, AbstractWork DEF D!Next
<1>4. CASE Crash
  <2>1. Journal(root)' = Journal(root) /\ UNCHANGED <<calls, answer>>
    BY <1>4 DEF Crash, Journal
  <2>2. Phase' = [c \in 1..MaxCalls |-> IF Phase[c] \in {"open", "took"} THEN "lost" ELSE Phase[c]]
    <3>1. pc' = [c \in 1..MaxCalls |-> IF pc[c] \in D!Settled \cup {"none"} THEN pc[c] ELSE "lost"]
      BY <1>4 DEF Crash
    <3>2. pc \in [1..MaxCalls -> {"none", "queued", "base", "tip", "root", "clean"} \cup D!Settled]
      BY DEF IInv, TypeOK
    <3>3. \A c \in 1..MaxCalls :
            Seen(pc'[c]) = IF Seen(pc[c]) \in {"open", "took"} THEN "lost" ELSE Seen(pc[c])
      BY <3>1, <3>2 DEF Seen, D!Settled
    <3>4. Phase = [c \in 1..MaxCalls |-> Seen(pc[c])] /\ Phase' = [c \in 1..MaxCalls |-> Seen(pc'[c])]
      BY DEF Phase, Seen
    <3> QED
      BY <3>3, <3>4
  <2>3. D!Crash
    BY <2>1, <2>2 DEF D!Crash
  <2> QED
    BY <2>3 DEF D!Next
<1>5. ASSUME NEW r \in present, Damage(r) PROVE UNCHANGED D!vars
  BY <1>5 DEF Damage, D!vars, Phase, Journal
<1> QED
  BY <1>1, <1>2, <1>3, <1>4, <1>5 DEF Next

\* Every behaviour of the storage is one of the durable journal: no call is torn,
\* repeated, reordered or undone.
THEOREM Implements == Spec => ImplementsDurableJournal
<1>1. Spec => [][D!Next]_(D!vars)
  BY Invariance, AbstractStep, PTL DEF Spec
<1> QED
  BY <1>1, AbstractInit, PTL DEF Spec, D!Spec, ImplementsDurableJournal
=============================================================================
