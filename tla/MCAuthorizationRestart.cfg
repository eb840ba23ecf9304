CONSTANTS
    x = x  y = y  z = z
    x1 = x1  x2 = x2  y1 = y1  y2 = y2  z1 = z1
    Ids = {x, y, z}
    NoId = NoId
    Instances = {x1, x2, y1, y2, z1}
    NoInstance = NoInstance
    Threads = {t1, t2}
    NoThread = NoThread
    IdOf <- MCIdOf
    Priority <- MCPriority
    MaxReferences <- MCMaxReferences
SPECIFICATION Spec

INVARIANT ReplacedIsStopping
