SPECIFICATION Spec
CONSTANTS
    Controllers = {k1}
    MaxRuns = 1
    MaxVolatile = 1
    None = None
INVARIANT
    ExportIffTerminal
