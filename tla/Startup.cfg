SPECIFICATION Spec
CONSTANTS
    Handlers <- Tools
    Settings <- AllSettings
INVARIANTS DirectoryIsOneFile EachUnderItsName ToolsAreCallable StartsOnSoundFiles
