SPECIFICATION BookSpec
CONSTANTS
    Ids = {1, 2, 3}
    Levels = {1, 2}
    Quantities = {1, 2}
INVARIANTS
    AggressorIsB
