\* Two threads, the code's three buffers, and four calls: three can lose every
\* buffer, and the fourth uses a buffer again.
CONSTANTS
    th1 = th1
    th2 = th2
    Threads <- MCThreads
    Buffers = 3
    NoThread = NoThread
    MaxChunks = 4
SPECIFICATION LiveSpec
INVARIANTS
    TypeOK
    BuffersHaveOneHolder
    SoundIsInOrder
PROPERTIES
    SoundIsALine
    CallsReturn
