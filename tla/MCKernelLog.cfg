SPECIFICATION Spec
CONSTANTS
    Width = 3
    Height = 2
    TabWidth = 2
    EraseColour = "bright green"
    RingSize = 24
    HeaderSize = 2
    Alignment = 2
    MaxLength = 4
    Messages <- MCMessages
    LogLevels = {6, 8}
    MaxLogs = 7
    Readers = {"vga", "uart"}
    InitOut <- InitDevices
    DoLog <- DeviceLog
CHECK_DEADLOCK FALSE
INVARIANTS
    TypeOK
    RingHoldsTheLatest
    RetainsWhatFits
    ReadersHearUnbrokenLog
    ConsoleShowsLastRows
