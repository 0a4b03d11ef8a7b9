SPECIFICATION SpecLaunch
CONSTANTS
    Unset = Unset
    Words <- MCWords
    Dimensions = {"300"}
    Dashed = {"-5"}
    NotText = {"bytes"}
    MaxArguments = 6
    MaxRefused = 3
PROPERTIES DoesWhatItSays
