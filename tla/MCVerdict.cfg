SPECIFICATION Spec
CONSTANTS
    r1 = r1  r2 = r2
    None = None
    Requests = {r1, r2}
    Outcomes = {"none", "allow", "challenge", "redirect", "drop"}
    ScriptActs = {"none", "unknown", "allow", "redirect"}
    Ladder <- MCLadder
    MaxFaults = 1
    MaxReloads = 1
    MaxExpiries = 2
SYMMETRY Symmetry
INVARIANTS TypeOK VerdictComplete NotWeakened EscalationEarned
CHECK_DEADLOCK FALSE
