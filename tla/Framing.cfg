SPECIFICATION Spec
CONSTANTS
    Base = 2
    Width = 2
    Bytes = {0, 1, 192, 219, 220, 221}
    END = 192
    ESC = 219
    ESC_END = 220
    ESC_ESC = 221
    Framings = {"size", "slip"}
    Packets <- MCPackets
    Noise <- MCNoise
    MaxPackets = 3
CHECK_DEADLOCK FALSE
INVARIANTS TypeOK Faithful Prompt
