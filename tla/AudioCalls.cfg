CONSTANTS
    gsm = gsm
    ilbc = ilbc
    opus = opus
    telev = telev
    Events = telev
    Null = Null
    Codecs <- AllCodecs
    Format <- FormatOfCodec
    Settings <- AllSettings
SPECIFICATION FairSpec
CHECK_DEADLOCK FALSE
INVARIANTS
    EncoderReady
    FormatsAgree
    DecodePipeline
PROPERTIES
    NothingInUseIsFreed
    CallsReturn
