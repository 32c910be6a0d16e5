\* Either a heavy and a light task of two instances on one host, one server; or two
\* tasks of one instance, queued on two hosts, and two servers.
SPECIFICATION PairSpec
CONSTANTS
    t1 = t1
    t2 = t2
    t3 = t3
    i1 = i1
    i2 = i2
    i3 = i3
    h1 = h1
    w1 = w1
    Tasks = {t1, t2, t3}
    Instances = {i1, i2}
    Hosts = {h1, h2}
    Workers = {w1, w2}
    HeavyTasks = {t1}
    InstanceOf <- SharedInstance
    HostOf <- SharedHost
    LIGHT_TASK_CONCURRENCY = 1
    NoTask = NoTask
    NoWorker = NoWorker
INVARIANTS
    TypeOK
    HostExclusive
    ExecutorOwnsRow
    ExecutionExclusive
    DestroyedUntouched
PROPERTIES
    SlotsSpec
    ExecutedOnce
