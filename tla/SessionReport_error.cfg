\* Two overlapping generations, one status reader, up to 3 versions and 2 runs.
SPECIFICATION Spec
CONSTANTS
    Generators = {g1, g2}
    Readers = {r1}
    NoOne = NoOne
    MaxVersion = 3
    MaxRun = 2

INVARIANT StatusIsResolved
