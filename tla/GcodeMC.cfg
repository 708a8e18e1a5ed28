CONSTANTS
    Tools = {0, 1}
    Ports = 1
    Systems = {540, 550}
    Inch = 2
    Vocabularies <- MCVocabularies
    Waits = {"rpm", "tool", "spindle", "coolant", "override", "dwell", "motion", "flow"}
    Places <- MCPlaces
    KeepOffsets = FALSE
    Limit = 2
SPECIFICATION Spec
INVARIANTS CoordsFresh PositionTracks FeedInMode
PROPERTIES ChangesNamed
