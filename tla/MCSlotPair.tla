----------------------------- MODULE MCSlotPair -----------------------------
\* Two devices; the key of "a" is the lower.
EXTENDS SlotPair

MCDevice == {"a", "b"}
MCPolite == "a"
EarlyCandidate == {<<"a", 1>>}
=============================================================================
