---------------------------- MODULE MCSPSegment ----------------------------
(* Model-checking instance of SPSegment.                                  *)
EXTENDS SPSegment

(* Records are created with 4 bytes and resized to 12 or 20: on a 52-byte *)
(* page (40 bytes behind the header, four slots) three records crowd a    *)
(* page, a 20-byte record outgrows it, and a redirect target of 20 + 8    *)
(* bytes still fits on another page.                                      *)
MCAllocSizes == {4}
MCSizes == {12, 20}

(* One record size: four records fill one page and no resize moves any.  *)
MCSmallSizes == {4}

(* A failed assert ends the program: an aborted state has no successor    *)
(* and keeps the pages of the state before it, on which every invariant   *)
(* was already checked.  All aborted states are therefore one state for   *)
(* the search.                                                            *)
MCView == IF aborted THEN <<TRUE>> ELSE <<FALSE, pages, numSp, fsi, recs>>
=============================================================================
