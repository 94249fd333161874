---------------------------- MODULE MCRoutedChain -----------------------------
(***************************************************************************)
(* Small instances of RoutedChain: the runs of each service that the       *)
(* question at hand needs.                                                 *)
(***************************************************************************)
EXTENDS RoutedChain

Profile(texture, distance) ==
    [status |-> "SUCCESS", texture |-> [a |-> texture, b |-> texture],
     distance |-> {distance}, gsd |-> {}]

\* A profile that asks for the deep matcher and one that does not.
TwoProfiles == {Profile("HIGH", 60), Profile("LOW", 10)}

\* Rules of a request that look at no condition: a matcher without fallback.
OwnRules ==
    {<<Rule("R-OWN", 1, Modes, "all", {}, "ROUTED", "akaze", NoMatcher, "none")>>}

NoRules == {}
===============================================================================
