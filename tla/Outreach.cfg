CONSTANTS
    Contacts = {c1}
    Emails = {c1}
    Phones = {c1}
    None = None
    MaxPreviews = 2
    MaxResearches = 2
    MaxDrafts = 1
    MaxEnvelopes = 2
    MaxRuns = 2
    MaxRecords = 8
SPECIFICATION Spec
INVARIANTS SelectionHidesCandidates PreviewsAreCurrent ActiveRunIsCurrent CaptionsHaveCleanup
PROPERTIES ImplementsSimulation
CHECK_DEADLOCK FALSE
