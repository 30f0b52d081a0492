-------------------------- MODULE KeeperAuthority --------------------------
(***************************************************************************)
(* What a live keeper promises to the room: one chain of rekeys, each of    *)
(* them decided only after the one before it went out, an invitation that   *)
(* is withdrawn once and for all, and answers to those who ask that are     *)
(* never given behind the chain's back.  LiveKeeper implements it with a    *)
(* journal, through failed writes, lost handoffs and crashes.               *)
(***************************************************************************)
EXTENDS Naturals, Sequences, SequencesExt

CONSTANTS
  Request,    \* the requests for admission
  Secret,     \* what a rekey may hand over
  MaxEpoch    \* bound: rekeys on one path

VARIABLES
  chain,      \* the rekeys decided on, in order
  shared,     \* those that were handed out
  lifecycle,  \* "active", "retired" or "closed"
  proven      \* [Request -> the epoch it was answered in, or NoEpoch]

authorityVars == <<chain, shared, lifecycle, proven>>

NoEpoch == MaxEpoch + 1

\* A rekey names the epoch it opens and hands over a secret; the last closes.
Rekey(n, s, c) == [epoch |-> n, secret |-> s, closes |-> c]

AuthorityInit ==
  /\ chain = << >> /\ shared = {}
  /\ lifecycle = "active"
  /\ proven = [r \in Request |-> NoEpoch]

Decide(s, c) ==
  /\ lifecycle # "closed" /\ ToSet(chain) \subseteq shared
  /\ Len(chain) < MaxEpoch
  /\ chain' = Append(chain, Rekey(Len(chain) + 1, s, c))
  /\ lifecycle' = IF c THEN "closed" ELSE lifecycle
  /\ UNCHANGED <<shared, proven>>

Share ==
  /\ shared' = ToSet(chain)
  /\ UNCHANGED <<chain, lifecycle, proven>>

Retire ==
  /\ lifecycle = "active" /\ ToSet(chain) \subseteq shared
  /\ lifecycle' = "retired"
  /\ UNCHANGED <<chain, shared, proven>>

\* A request is answered in one epoch only, and only in the current one.
Answer(r) ==
  /\ lifecycle = "active" /\ ToSet(chain) \subseteq shared
  /\ proven[r] \in {NoEpoch, Len(chain)}
  /\ proven' = [proven EXCEPT ![r] = Len(chain)]
  /\ UNCHANGED <<chain, shared, lifecycle>>

AuthorityNext ==
  \/ \E s \in Secret, c \in BOOLEAN : Decide(s, c)
  \/ Share
  \/ Retire
  \/ \E r \in Request : Answer(r)

AuthoritySpec == AuthorityInit /\ [][AuthorityNext]_authorityVars

-----------------------------------------------------------------------------
(* Properties *)

\* Nobody is ever handed two different rekeys into one epoch, and nobody is
\* handed a rekey beyond one that was not handed out.
OneSuccessor ==
  /\ \A e, f \in shared : e.epoch = f.epoch => e = f
  /\ \A e \in shared : \A n \in 1..e.epoch : \E f \in shared : f.epoch = n
=============================================================================
