SPECIFICATION Spec
CONSTANTS
    Callers = {c1, c2}
PROPERTIES
    FindsBrokerAgain
