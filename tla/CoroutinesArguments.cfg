\* A coroutine calls a wrapped one again after a yield.
CONSTANTS
    Threads = {t1, t2}
    Args = {a1, a2}
    Main = Main
    NoValues = NoValues
    None = None
    Programs = {{"wrap call", "yield", "return"}}
    ResumeLimit = 2
    ActivationLimit = 4
SPECIFICATION Spec
INVARIANTS
    ValuesArrive
