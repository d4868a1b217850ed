\* JPEG, CAMERA_GRAB_LATEST, and interrupts that may overflow the event queue.
SPECIFICATION Spec
CONSTANTS
    frame_cnt = 3
    EventQueueLen = 2
    FrameQueueLen = 2
    jpeg_mode = TRUE
    Prompt = FALSE
    NULL = NULL
INVARIANTS TypeOK OneOwner NeverOverwritten
PROPERTY ImplementsFrameSource
