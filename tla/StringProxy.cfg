CONSTANTS
    Dicts = {1, 2}
    Strings = {a, b}
    Threads = {t1, t2}
    Translations <- ToAndFro
SPECIFICATION Spec
INVARIANTS   UnionKeepsStored
PROPERTIES MissesOnlyUnknown
SYMMETRY Symmetric
