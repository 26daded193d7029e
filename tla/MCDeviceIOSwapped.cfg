SPECIFICATION Spec
CONSTANTS
    Proc = {p1, p2}
    Installed <- Devices12
    NULL = NULL
PROPERTIES
    InterruptsAreTaken
