\* One server and one host: a heavy and a light task, crashes and restarts, or these
\* and a second light task that has to wait for the first.
SPECIFICATION CrowdedSpec
CONSTANTS
    t1 = t1
    t2 = t2
    t3 = t3
    i1 = i1
    i2 = i2
    i3 = i3
    h1 = h1
    w1 = w1
    Tasks = {t1, t2, t3}
    Instances = {i1, i2, i3}
    Hosts = {h1}
    Workers = {w1}
    HeavyTasks = {t1}
    InstanceOf <- OwnInstance
    HostOf <- OneHost
    LIGHT_TASK_CONCURRENCY = 1
    NoTask = NoTask
    NoWorker = NoWorker
PROPERTIES
    ClaimedTaskSettles
    PendingTaskServed
