\* Two worker threads and the event loop, three entries.
CONSTANTS
    Workers = {w1, w2}
    Loop = loop
    MaxCalls = 3
SPECIFICATION Spec
INVARIANTS SerialLedgerVerifies LedgerIsHistory NeverOverbilled
CHECK_DEADLOCK FALSE
