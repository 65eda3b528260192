SPECIFICATION Spec
CONSTANTS
    ByteTexts <- MC_ByteTexts
    UnitTexts <- MC_UnitTexts
    NumberTexts <- MC_NumberTexts
    LLONG_MAX = 655
    INT_MAX = 655359
    PORT_MAX = 65535
    Bytes = {65, 127, 128, 143, 144, 159, 160, 191, 193, 194, 223, 224, 225, 237, 239, 240, 241, 244, 245, 255}
    Units = {65, 127, 128, 2047, 2048, 55295, 55296, 56319, 56320, 57343, 57344, 65535}
    Digits = {0, 3, 5, 6}
    MaxBytes = 4
    MaxUnits = 4
    MaxDigits = 6
CHECK_DEADLOCK FALSE
INVARIANTS
    TypeOK
    Utf8IsExact
    JavaTextIsExact
    NumbersAreExact
