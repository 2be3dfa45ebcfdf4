\* A resume whose argument is no thread.
CONSTANTS
    Threads = {t1, t2, t3}
    Args = {a1}
    Main = Main
    NoValues = NoValues
    None = None
    Programs = {{"bad resume", "yield", "return"}}
    ResumeLimit = 2
    ActivationLimit = 4
SPECIFICATION Spec
INVARIANTS
    DepthMatchesStack
