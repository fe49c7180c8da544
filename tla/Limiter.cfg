SPECIFICATION Spec
CONSTANTS
    q1 = q1
    q2 = q2
    q3 = q3
    q4 = q4
    q5 = q5
    a = a
    b = b
    Reqs = {q1, q2, q3, q4, q5}
    Keys = {a, b}
    Keeping = {a}
    CfgRPS = 3
    CfgBurst = 2
    Res = 5
    MaxNow = 6
SYMMETRY ReqSymmetry
INVARIANTS TypeOK RateBound PoliteServed
