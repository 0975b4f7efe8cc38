SPECIFICATION Spec
CONSTANTS
    Owners = {r1, r2, r3}
    HEAP_SIZE = 8
    MaxRequest = 4
    Bits = 8
    Letters <- MCLetters
    MaxString = 3
    Area = 4
    MaxBuffer = 6
INVARIANT HeapIntact ArithmeticExact StringsExact
