CONSTANTS
    Threads = {t1, t2, t3}
    Paths = {p1, p2}
    Mutexes = {m1, m2, m3}
    NoMutex = NoMutex
SPECIFICATION FairSpec
INVARIANTS MutualExclusion CountsUsers IInv
PROPERTIES ImplementsEntryLock WaiterServed
