CONSTANTS
    gsm = gsm
    ilbc = ilbc
    opus = opus
    telev = telev
    Events = telev
    Null = Null
    Codecs <- AllCodecs
    Format <- FormatOfCodec
    Settings <- SwapSetting
SPECIFICATION Spec
CHECK_DEADLOCK FALSE
PROPERTY NothingInUseIsFreed
