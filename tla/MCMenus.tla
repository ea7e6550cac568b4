------------------------------- MODULE MCMenus -------------------------------
(* Small instances of Menus for TLC: one feed or two, alone in the global   *)
(* section or not, with and without the settings that open explore mode.    *)
EXTENDS Menus

Config(total, one_section, sections_explore, feeds_explore, menu_responsiveness) == [
    total |-> total, one_section |-> one_section, sections_explore |-> sections_explore,
    feeds_explore |-> feeds_explore, menu_responsiveness |-> menu_responsiveness ]

OnlyFeed == Config(1, TRUE, FALSE, FALSE, TRUE)
OnlyFeedExplored == Config(1, TRUE, TRUE, TRUE, TRUE)
OnlySection == Config(2, TRUE, FALSE, FALSE, TRUE)
FeedsExplored == Config(2, FALSE, FALSE, TRUE, TRUE)
PlainSettings == Config(2, FALSE, FALSE, FALSE, TRUE)
SectionsExplored == Config(1, FALSE, TRUE, FALSE, FALSE)

AllConfigs ==
    {OnlyFeed, OnlyFeedExplored, OnlySection, FeedsExplored, PlainSettings, SectionsExplored}
LiveConfigs == {OnlyFeed, OnlyFeedExplored}
=============================================================================
