SPECIFICATION MCSpec
CONSTANTS
    ZeroBurst = 3
    PinsOf <- cPinsOf
    TrafficPins = {"red", "blue"}
    MaxFrames = 2
    Quiet = Quiet
    Sources = {"joy", "nav", "lora"}
    Priority <- cPriority
    Autonomous = {"nav"}
    LinkStates = {"UP", "DOWN"}
    Down = "DOWN"
    Unset = Unset
    Sensors = {"sensor_rover", "sensor_arm"}
    Retries = 2
    BusFrames = 2
    NoRequest = NoRequest
    LidFrames = 3
    NoCmd = NoCmd
    Ids = {"w12", "w3"}
    ScaleFrames = 4
    Nothing = Nothing
    PadInputs <- cPadInputs
    DriveKeys <- cDriveKeys
    Buttons = {"active", "raw", "vy"}
    Requests = {"power"}
    ZeroTwists = 2
    MaxTyped = 2
    NoKey = NoKey
    MaxFaults = 6
    Depth = 2
    History = 4
    MaxLines = 1
    Backups = 2
    Viewers = {"gs", "tablet"}
    QueueSize = 1
    BodyLen = 8
    Bodies <- cBodies
    MaxLookalikes = 2
    Cameras = {"front", "rear"}
    Threads = 2
    MaxCalls = 2
    Unknown = Unknown
    Pads = {"none", "sysfs", "hidraw"}
INVARIANTS
    FullStop OneLateTwist
    StationsTypeOK
    BoardAsBelieved
    ContainerTells
    StopsAndLetsGo DriverIsObeyed
    LogTells CameraServes DatasetTells Resynchronises
PROPERTIES
    LinkFallsSilent
    LampFollows
    RecordingAsks
    BarSettles
CHECK_DEADLOCK FALSE
