\* A pending task of a deleted instance, under the fairness of the worker.
SPECIFICATION FairSpec
CONSTANTS
    t1 = t1
    t2 = t2
    t3 = t3
    i1 = i1
    i2 = i2
    i3 = i3
    h1 = h1
    w1 = w1
    Tasks = {t1, t2}
    Instances = {i1, i2}
    Hosts = {h1}
    Workers = {w1}
    HeavyTasks = {t1}
    InstanceOf <- OwnInstance
    HostOf <- OneHost
    LIGHT_TASK_CONCURRENCY = 1
    NoTask = NoTask
    NoWorker = NoWorker
PROPERTIES
    DeletedTaskCancelled
