SPECIFICATION LockSpec
CONSTANTS
    None = None
    MaxHeight = 1
    Window = 1
    Batch = 2
    MaxMishaps = 1
INVARIANT ViewsAgree
