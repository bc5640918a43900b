\* One send, one wallet.
SPECIFICATION Spec
CONSTANTS
    Keys = {a}
    Jobs = {j}
    Engines = {e}
    Sends = {s}
    Garbled = garbled
    None = none
PROPERTIES
    SignsOnlyUnlocked
