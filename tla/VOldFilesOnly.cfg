\* A candidate who applies and then sends two edits at once, each with a new CV.
SPECIFICATION ProfileSpec
CONSTANTS
    Uploads = {q1, q2}
    MaxFiles = 3
    MaxWords = 0
PROPERTIES
    OldFilesOnly
CHECK_DEADLOCK FALSE
