SPECIFICATION Spec
CONSTANTS
    Count <- Wide
    Menu <- All
    MaxOps = 3
INVARIANT DecodesWhatWasMeant
CHECK_DEADLOCK FALSE
