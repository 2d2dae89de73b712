------------------------------ MODULE MCServices ------------------------------
(***************************************************************************)
(* Services with small values of its constants.                            *)
(***************************************************************************)
EXTENDS Services

KindsOf == {"login:ip", "login:pair", "login:user", "token:ip", "token", "api:user", "compute:user", "hfmap:user",
            "register:ip", "register:mail", "forgot:ip", "forgot:mail", "verify:user", "admin:ip", "share"}
Two == {"a1", "a2"}
OneEach == [k \in KindsOf |-> 1]
FivePerName == [OneEach EXCEPT !["login:ip"] = 3, !["login:user"] = 5]

Mixed(routes, ips, attempts) == [routes |-> routes, ips |-> ips, attempts |-> attempts]
MixesOfRoutes ==
    {Mixed(routes, {"away"}, Two) : routes \in
        {{"login"}, {"token"}, {"session", "compute", "binary"}, {"hfmap"}, {"register"}, {"forgot"}, {"verify"}, {"admin"},
         {"share"}}}

SkewsOfOne == {0 - 1, 0, 1}
PathsOfTiles == {<<"n">>, <<"n", "m">>}
HoursOfRequest == <<1, 4>>
FrequenciesOfRequest == <<"7 MHz", "14 MHz">>
================================================================================
