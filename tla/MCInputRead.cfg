SPECIFICATION InputsSpec
CONSTANTS
    MaxDepth = 3
    MaxMembers = 2
    Block = 2
    MaxBytes = 6
INVARIANT ReadIsHandled
