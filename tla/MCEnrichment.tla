---------------------------- MODULE MCEnrichment ----------------------------
(***************************************************************************)
(* TLC instance of Enrichment: each service switched on by itself.         *)
(***************************************************************************)
EXTENDS Enrichment

CONSTANTS a1, a2, c1, c2, p1, k1, k2

Seen(a, c) == [icao |-> a, callsign |-> c]
Located(c, position) == [callsign |-> c, position |-> position]

Only(service, until) == [enabled |-> {service}, until |-> until]
MCConfigurations == {Only("adsbdb", 3), Only("adsblol", 2), Only("weather", 4)}
MCAircraftKeys == {<<a1, c1>>, <<a1, c2>>, <<a2, c1>>}
MCSnapshots == { <<Seen(a1, c1), Seen(a2, c1)>>, <<Seen(a1, c2)>> }
MCRouteSnapshots == {<<Located(NoCallsign, TRUE), Located(c1, TRUE)>>}
MCAirportsOf == (c1 :> <<p1>>) @@ (c2 :> <<p1>>)
=============================================================================
