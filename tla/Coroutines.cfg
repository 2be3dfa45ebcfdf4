\* Three kinds of programs: resumes only, wrapped calls only, everything.
CONSTANTS
    Threads = {t1, t2, t3, t4}
    Args = {a1}
    Main = Main
    NoValues = NoValues
    None = None
    Programs = {{"nested resume", "yield", "return", "fail", "close"},
                {"wrap call", "yield", "return", "fail", "close"},
                {"bad resume", "nested resume", "wrap call", "yield", "return", "fail", "close"}}
    ResumeLimit = 3
    ActivationLimit = 4
SPECIFICATION Spec
INVARIANTS
    StackSound
    UnmixedSound
PROPERTIES
    TrampolineReturns
