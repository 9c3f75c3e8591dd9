SPECIFICATION Spec
CONSTANTS
    Writers = {w1, w2}
    Texts = {blank, run}
    Blank = blank
    NoWriter = NoWriter
    Absent = Absent
INVARIANTS
    AllStoppedIsBlank
    WriterIsOwned
PROPERTY
    LoneWriterCatchesUp
