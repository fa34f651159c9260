\* Two players, which may overlap or not, two buffers, so that the main thread
\* and the callback read at the same time, and a file longer than the buffers.
CONSTANTS
    MaxPlayers = 2
    QueueBufferSize = 2
    Chunks = 3
SPECIFICATION LiveSpec
INVARIANTS
    TypeOK
    BuffersHaveOneHolder
    SoundIsInOrder
PROPERTIES
    ReadersReturn
    PlaybackEnds
