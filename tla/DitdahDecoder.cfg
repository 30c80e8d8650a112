SPECIFICATION Spec
CONSTANTS
    Keywords <- MCKeywords
    s1 = s1
    s2 = s2
    Stations <- MCStations
    Texts <- MCTexts
    Modes = {"minimal", "normal", "paranoid"}
    NoiseReads <- MCNoise
    Dot = 2
    Breakpoint = 4
    Half = 12
    Cap = 96
    Chunk = 6
    BirdieSec = 1
    MaxFed = 132
    MaxRetunes = 1
    MaxSec = 1
INVARIANTS ReadsWhatIsKeyed StationsApart BirdieEarned SpotsAreMessages
SYMMETRY StationsAlike
CHECK_DEADLOCK FALSE
