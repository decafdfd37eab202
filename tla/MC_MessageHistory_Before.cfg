\* Spec §4.7 says a page with before holds only strictly older messages.
CONSTANTS
    MaxMsgs = 3
    MaxMs = 2
    Limits = {0, 1, 2}
    NoBefore = NoBefore
    Unparsable = Unparsable
SPECIFICATION Spec
INVARIANT StrictlyOlderThanBefore
