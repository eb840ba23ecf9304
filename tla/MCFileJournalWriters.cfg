CONSTANTS
    a = a  b = b  x = x  r1 = r1
    Entries = {a, b, x}
    NoEntry = NoEntry
    Consumers = {p}
    Applicable <- MCApplicable
    Writers = {w1, w2}
    Requesters = {r1}
    Asks <- MCAsks
    Interruptions = {}
    MaxHour = 2
SPECIFICATION Spec
INVARIANT AddedIsReadable
