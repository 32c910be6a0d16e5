\* Without an agent, a running instance may stay unbilled.
SPECIFICATION FairSpec
CONSTANTS
    u1 = u1
    Users <- OneUser
    Creator = u1
    reserveQuantum = 1
    MaxFunds = 2
    MaxTime = 1
    MaxReserved = 20
    Agents = {"absent"}
    AgentFunds = 0
    AgentTime = 0
    MaxUses = 2
PROPERTIES
    RunningTimeCharged
CHECK_DEADLOCK FALSE
