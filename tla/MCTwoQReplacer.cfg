\* A replacer of num_pages = 4 whose callers use the frame ids 0 .. 4 that
\* the assertions on frame_id allow: every path of Victim, Pin and Unpin,
\* both assertions a caller can trip, and lists of up to four entries with
\* placeholders between, before and behind the victim.
CONSTANTS
    Frames = {0, 1, 2, 3, 4}
    NumPages = 4
SPECIFICATION Spec
\* A failed assertion ends the process; nothing else stops.
CHECK_DEADLOCK FALSE
INVARIANT TypeOK
INVARIANT ListsMatchTable
PROPERTY TwoQSpec
