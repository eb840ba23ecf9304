CONSTANTS
    Clients = {t1, t2}
    Instances = {s1, s2, s3}
    NoInstance = NoInstance
    NoClient = NoClient
    MaxLeaks = 0
    Startup = "immediate"
SPECIFICATION ServiceSpec
INVARIANT RunningMeansActive
