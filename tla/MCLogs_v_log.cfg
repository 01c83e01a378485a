SPECIFICATION Spec
CONSTANTS w1=w1 w2=w2 rda=rda rdb=rdb pbc=pbc q1=q1 q2=q2 nothing=nothing
Parts={"torn"}
INVARIANTS LogLoads
CHECK_DEADLOCK FALSE
