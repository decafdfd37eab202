\* Three messages over three milliseconds, limits 0 (rejected), 1 and 2.
CONSTANTS
    MaxMsgs = 3
    MaxMs = 2
    Limits = {0, 1, 2}
    NoBefore = NoBefore
    Unparsable = Unparsable
SPECIFICATION Spec
INVARIANT TypeOK
INVARIANT NewestFirstWithinLimit
INVARIANT PagingNeverSkips
