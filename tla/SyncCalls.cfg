SPECIFICATION Spec
CONSTANTS
    Thread = {a, b, c}
    NoThread = NoThread
    MaxItems = 3
    BufferSize = 2
SYMMETRY Symmetry
INVARIANTS
    TypeOK
    SlotsSerialise
    SlotsComeBack
    DataOnce
    ProtectionKept
VIEW SlotView
