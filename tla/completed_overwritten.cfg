SPECIFICATION CutoverSpec
CONSTANTS
    Procs = {p1, p2}
    Overlapping = TRUE
PROPERTIES TerminalStands
