SPECIFICATION Spec
CONSTANTS
    Numbers = {0, 1, 2}
    Devs = {1, 2}
    VersionTexts <- MCVersionTexts
    Updaters = {u1, u2}
    Unreadable = Unreadable
    Tags <- MCTags
    MaxReleases = 3
    Characters <- MCCharacters
    MaxText = 3
    Words <- MCWords
    Bytes = {0, 1, 63, 128, 255}
    MaxBytes = 4
    Octets = {0, 9, 16, 127, 255}
    Coordinates = {0, 10, 600}
    MaxLength = 2
    OperatingSystems = {"Windows", "MacOS", "Linux"}
    Unset = Unset
    HomePath <- MCHomePath
    KnownDirs <- MCKnownDirs
    Settings <- MCSettings
    Lines <- MCLines
    ExecutableDirectory <- MCExecutableDirectory
    Places <- MCPlaces
    WindowsApps = "apps"
    Names = {"tool"}
    DomainOf <- MCDomainOf
    Languages <- MCLanguages
    Catalogs <- MCCatalogs
    Locales <- MCLocales
    Managers = {"Windows", "MacOS", "libsecret"}
    Programs = {p1, p2}
    Usernames = {j1}
    Passwords = {w1, w2}
    UsageCallers = {c1, c2}
    Width = 16
    MaxTime = 3
INVARIANTS
    ValuesCompareAndConvert
    LanguageIsHonoured
    SecretsAreHeld
    UsageIsMeasured
PROPERTIES
    UpdatesAreCurrent
    PasswordsEnd
    DependencyIsUsable
CHECK_DEADLOCK FALSE
