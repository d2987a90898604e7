--------------------------- MODULE MCRouteMonitor ---------------------------
(* Instances of RouteMonitor for TLC, and the patterns it is tried with.    *)
EXTENDS RouteMonitor, TLC

eth == <<101>>
wlan == <<119>>
home == <<104>>
work == <<107>>
WlanHome == wlan \o <<Colon>> \o home

TwoIfaces == {eth, wlan}
HomeOrWork == (eth :> {<<>>}) @@ (wlan :> {home, work})

\* An exact name, with and without a default; patterns that hide it or are hidden.
Settings ==
    {{eth, WlanHome}, {eth, WlanHome, Default},
     {wlan \o <<Star>>, WlanHome, Default},
     {<<Star>>, wlan \o <<Colon, Question>>},
     {<<Star, Colon>> \o work, <<Question>>}}
=============================================================================
