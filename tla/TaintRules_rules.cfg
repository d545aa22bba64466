CONSTANTS
    a = a
    m = m
    Exec = {a}
    Modules = {m}
    Scripts = {}
    Hosts = {}
    NoFile = NoFile
    Covers <- Trusting
    Seeds <- Directories
    PromptIds = {q}
    PerBlock = 1
    Limit = 2
    MaxJobs = 1
    MaxBatches = 2
    MaxAnswers = 1
    MaxFailures = 1
SPECIFICATION Spec
INVARIANTS StoreCurrent TrustEndsTaint AllowEndsTaint
