SPECIFICATION LmSpec
CONSTANTS
    Tap = {t1}
    Picked = {"q720"}
INVARIANT AllUseThisSetting
