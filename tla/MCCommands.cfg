SPECIFICATION Spec
CONSTANT
    Messages <- MCMessages
INVARIANTS
    ValidatedCanBePerformed
    SyntaxIsEnforced
    RejectionShowsWhere
    DoneOnce
    RepliesAreLines
    StartedRunIsSound
    RepliesAreReported
