\* One derivation in flight, two sessions, two transfers, two keypairs.
SPECIFICATION Spec
CONSTANTS
    Keys = {a, b}
    Jobs = {j}
    Engines = {e, f}
    Sends = {s, t}
    Garbled = garbled
    None = none
SYMMETRY Symmetry
INVARIANTS
    KeysAreSaved
    StoredIsOnDisk
    OneEngine
    DialogIsTrue
