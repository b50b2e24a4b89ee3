\* Two bytes of space behind one of prepend, strings of up to three: the content
\* moves, grows, and spills over the end of the vector.
CONSTANTS
    Byte = {0, 1}
    kCheapPrepend = 1
    kInitialSize = 2
    ExtraSize = 2
    IntMax = 2147483647
    MaxLength = 3
    MaxContent = 5
SPECIFICATION Spec
INVARIANTS TypeOK SizeBounded
PROPERTY StreamSpec
