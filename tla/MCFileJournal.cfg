CONSTANTS
    a = a  b = b  x = x  r1 = r1
    Entries = {a, b, x}
    NoEntry = NoEntry
    Consumers = {p}
    Applicable <- MCApplicable
    Writers = {w1}
    Requesters = {r1, r2}
    Asks <- MCAsks
    Interruptions <- Survivable
    MaxHour = 2
SPECIFICATION Spec
CONSTRAINT MCReadersAlone
SYMMETRY Symmetry
INVARIANTS TypeOK AddedIsReadable ScanMissesNothing
PROPERTIES JournalSpec NothingMeansDone
