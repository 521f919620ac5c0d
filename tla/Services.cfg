SPECIFICATION Spec
CONSTANT None = None
INVARIANT AuthSound
INVARIANT AccessSound
INVARIANT FrameworkSound
 
INVARIANT ApiSound
 
CHECK_DEADLOCK FALSE
