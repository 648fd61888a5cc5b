\* The timer, the keyboard and the mouse.
CONSTANT Lines = {0, 1, 12}
SPECIFICATION Spec
INVARIANT TimerIsUnmasked
