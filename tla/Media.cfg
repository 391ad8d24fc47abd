CONSTANTS
    gsm = gsm
    telev = telev
    k1 = k1
    k2 = k2
    Null = Null
    Events = telev
    Codecs <- OneCodec
    Format <- FormatOfCodec
    Settings <- AudioSettings
    Keeps <- TwoKeeps
    SendSettings <- StreamSettings
    MaxSilent = 3
SPECIFICATION MediaSpec
CHECK_DEADLOCK FALSE
INVARIANTS
    OneKeepalive
    SendersLive
    BindingKept
