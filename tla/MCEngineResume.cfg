SPECIFICATION EngineSpec
CONSTANTS
    code = code
    tests = tests
    doc = doc
    artifact = artifact
    settings = settings
    elsewhere = elsewhere
    NoFile = NoFile
    Files = {code, tests, doc, artifact, settings}
    LeftBehind = {artifact}
    Docs = {doc}
    Outside = elsewhere
    Objects <- MCObjects
    Original <- MCOriginal
    Upstream <- MCUpstream
    Requests <- MCRequests
    Reports <- MCReports
    Defaults <- MCDefaults
    Surfaces <- MCSurfaces
    Runners <- MCRunners
    Installed = {"test"}
    MaxAttempts = 3
INVARIANTS CompletedIsWhole
CHECK_DEADLOCK FALSE
