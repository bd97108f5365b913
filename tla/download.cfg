SPECIFICATION FairSpec
CONSTANTS
    PipeCap = 1
    MaxLines = 2
INVARIANTS
    TypeOK
    ResultIsOfThisAttempt
PROPERTIES
    CancelStopsDownload
    DownloadReturns
    KeepsDownloadPromise
    CancelWindsDown
