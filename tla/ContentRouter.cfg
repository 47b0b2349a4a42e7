SPECIFICATION Spec
CONSTANTS
    Callers = {a, b}
    Texts = {x}
    MaxMessages = 2
SYMMETRY CallerSymmetry
INVARIANTS BareNeverServed FrozenStays FreeRideBehindMutation
