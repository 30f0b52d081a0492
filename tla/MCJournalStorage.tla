-------------------------- MODULE MCJournalStorage --------------------------
(* Small journals: the empty snapshot and one or two others, two deltas.       *)
EXTENDS JournalStorage

CONSTANTS s1, s2, d1, d2

MCText == {"", s1, s2}
MCShortText == {"", s1}
MCDelta == {d1, d2}

\* A delta counts 1, s1 too, so that s1 and a delta fill a limit of 2.
MCBytes(b, ds) == Len(ds) + (CASE b = "" -> 0 [] b = s2 -> 3 [] OTHER -> 1)

=============================================================================
