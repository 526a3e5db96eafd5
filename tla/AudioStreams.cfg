SPECIFICATION Spec
CONSTANTS
    NULL = NULL
    Lost = Lost
    out = out
    in_voice = in_voice
    in_hotword = in_hotword
    player = player
    recorder = recorder
    binder = binder
    r1 = r1
    r2 = r2
    r3 = r3
    Inputs = {in_voice, in_hotword}
    Hotword = {in_hotword}
    AecInputs = {in_voice}
    Players = {player}
    Recorders = {recorder}
    Binders = {binder}
    Refs = {r1, r2, r3}
    RoutesOut <- MCRoutesOut
    RoutesIn = {"builtin", "sco"}
    InSources = {"mic", "voice_communication"}
SYMMETRY MCSymmetry
INVARIANTS ReferenceOwned ForcedInputIsActive InputIsCurrent PathsMatchUse
