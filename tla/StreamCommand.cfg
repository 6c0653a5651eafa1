SPECIFICATION Spec
CONSTANTS
    Commands <- MCCommands
    MaxTouched = 1
INVARIANTS
    StdoutReported
    EchoRestored
    PromptNotWasted
    ExitCodeTells
PROPERTIES
    CommandEnds
