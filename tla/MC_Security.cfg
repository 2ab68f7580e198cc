\* Two origins, one client address; every environment the numeric inputs and
\* one- or two-entry CORS values give, then REST requests over every pair of
\* one-entry headers.
CONSTANTS
    Ips = {ip1}
    Origins = {o1, o2}
    RestInputs <- MCRestInputs
    U32Inputs <- MCU32Inputs
    CorsInputs <- MCCorsInputs
    HeaderInputs <- MCHeaderInputs
    Unset = Unset
    Junk = Junk
    Blank = Blank
    Star = Star
    Invalid = Invalid
SPECIFICATION Spec
INVARIANT TypeOK
INVARIANT CorsAllowsExactlyListed
CHECK_DEADLOCK FALSE
