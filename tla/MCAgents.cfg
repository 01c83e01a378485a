SPECIFICATION FairSpec
CONSTANTS aa=aa ra=ra rb=rb k1=k1 k2=k2 nil=nil
Parts={"router", "denied", "remote", "relay", "labels", "rivals", "graph", "taint", "flow",
    "cap", "siblings", "goeson", "team", "ralph", "quick", "synth", "background", "updates",
    "nudge", "cancel", "asks", "calls", "listens", "tasks", "steers", "tools", "cancels"}
INVARIANTS RoutingHolds RunsHold
PROPERTIES AgentSteps AgentsFinish
CHECK_DEADLOCK FALSE
