\* The CORS rule of spec 6 over every BEACON_CORS_ORIGINS value of one or two entries.
CONSTANTS
    Ips = {ip1}
    Origins = {o1, o2}
    RestInputs <- MCRestInputs
    U32Inputs <- MCU32Inputs
    CorsInputs <- MCCorsInputs
    HeaderInputs <- MCHeaderInputs
    Unset = Unset
    Junk = Junk
    Blank = Blank
    Star = Star
    Invalid = Invalid
SPECIFICATION Spec
INVARIANT CorsAsSpecified
