SPECIFICATION LiveSpec
CONSTANTS
    None = None
CHECK_DEADLOCK FALSE
PROPERTIES StreamEndsWhole FeedCatchesUp VoiceEnds
