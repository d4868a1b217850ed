\* The two raw frames of the robot, and a cam_task that keeps up.
SPECIFICATION FairSpec
CONSTANTS
    frame_cnt = 2
    EventQueueLen = 2
    FrameQueueLen = 2
    jpeg_mode = FALSE
    Prompt = TRUE
    NULL = NULL
INVARIANT ReadsWhatIsRecorded
PROPERTY FramesKeepComing
