CONSTANTS
    Heights <- SmallHeights
    Counts <- SmallCounts
    Lines <- SmallLines
    Scrolloffs <- SmallScrolloffs
    SizeLimit = 1000
SPECIFICATION Spec
INVARIANTS ListViewFits PagerViewFits MarginsKept ScreenIsCurrent
PROPERTIES ScrollsSmoothly
