SPECIFICATION Spec
CONSTANTS
    Lower <- MCLower
    Punct = "punct"
    Label = "label"
    Checklists <- MCChecklists
    Lines <- MCLines
    Outputs <- MCOutputs
    Objects <- MCObjects
    MinWords = 2
    MaxConsultations = 2
    MaxPasses = 2
    MaxLines = 2
    MaxRaw = 6
INVARIANT OnlyMarkedCovered
