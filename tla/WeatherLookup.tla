--------------------------- MODULE WeatherLookup ---------------------------
(***************************************************************************)
(* Airport weather from aviationweather.gov                                *)
(* (weather/aviationweather/client.go).  A lookup is for an airport, with  *)
(* or without a reporting station set by an administrator; it runs on its  *)
(* own, detached from the handlers that wait for it, once per key at a     *)
(* time.  It finds the station that reports for the airport in up to four  *)
(* requests, asks for the METAR and the TAF, and caches what it found.     *)
(*                                                                         *)
(* A request is answered with an error (the deadline of the lookup is one),*)
(* with nothing, with a row whose observation is blank, or with data.      *)
(***************************************************************************)
EXTENDS LookupCache

CONSTANTS
  WeatherKeys, Overrides,      \* cache keys, and those with a station set
  WeatherTTL, NegativeTTL, WeatherErrorTTL, WeatherStaleTTL, StationTTL,
  WeatherMax, WeatherBudget

ASSUME WeatherAssumption ==
  /\ Overrides \subseteq WeatherKeys
  /\ {WeatherTTL, NegativeTTL, WeatherErrorTTL, StationTTL, WeatherMax, WeatherBudget} \subseteq Nat \ {0}
  /\ WeatherStaleTTL \in Nat

VARIABLES
  observations,  \* the cache: "metar", "blank", "none" or "error"
  stations,      \* the resolved stations: whether they report, until when
  lookups,       \* the lookup of each key that is under way
  usable,        \* until when the last METAR of a key may be shown
  reply          \* the last answer of the client

weatherVars == <<observations, stations, lookups, usable, reply>>

WeatherAnswers == {"error", "empty", "blank", "data"}

WeatherInit ==
  /\ observations = <<>>
  /\ stations = <<>>
  /\ lookups = <<>>
  /\ usable = [k \in WeatherKeys |-> 0]
  /\ reply = [key |-> "", value |-> "none"]

(* storeStation makes room at the bound, even for a key that is there.     *)
StationStored(k, reports, ttl) ==
  LET entry == [reports |-> reports, expires |-> clock + ttl] IN
  IF Cardinality(DOMAIN stations) >= WeatherMax
  THEN \E old \in DOMAIN stations : stations' = Put(Without(stations, old), k, entry)
  ELSE stations' = Put(stations, k, entry)

(* cached: an expired entry stays as long as it may be shown stale.        *)
IsCached(k) == Fresh(observations, k, clock)
(* stale: the fallback of a lookup that failed.                            *)
HasFreshFallback(k) == IsCached(k) /\ EntryOf(observations, k).value = "metar"
HasFallback(k) ==
  Found(observations, k, clock) /\ EntryOf(observations, k).value = "metar"

(* What is stored is what may be shown until it is replaced by an answer   *)
(* that there is nothing, or leaves at the bound of the cache.             *)
Stored(k, value, ttl) ==
  LET stale == IF value = "error" THEN 0 ELSE WeatherStaleTTL
      next == AfterSet(observations, Entry(k, value, ttl, stale, clock), WeatherMax)
  IN  /\ observations' = next
      /\ usable' = [o \in WeatherKeys |->
           IF o = k /\ value = "metar" THEN clock + ttl + stale
           ELSE IF (o = k /\ value # "error") \/ o \notin CachedKeys(next) THEN 0
           ELSE usable[o]]
      /\ reply' = [key |-> k, value |-> value]

-----------------------------------------------------------------------------
AtPhase(k, phase) == lookups' = [lookups EXCEPT ![k].phase = phase]
Landed(k) == lookups' = Without(lookups, k)

(* LookupAt: answered from the cache, or a lookup begins; a handler that   *)
(* joins one, or gives up waiting, changes nothing.  It starts with the    *)
(* station that was resolved before, if it is still known.                 *)
LookupAt(k) ==
  LET known == k \in DOMAIN stations /\ clock < stations[k].expires
      first == IF known THEN "recheck" ELSE "metar"
      direct == known /\ k \notin Overrides /\ ~stations[k].reports
  IN  \/ /\ IsCached(k)
         /\ observations' = AfterGet(observations, k, clock)
         /\ reply' = [key |-> k, value |-> EntryOf(observations, k).value]
         /\ UNCHANGED <<stations, lookups, usable>>
      \/ /\ ~IsCached(k) /\ k \notin DOMAIN lookups
         /\ stations' = IF known THEN stations ELSE Without(stations, k)
         /\ IF direct
            THEN Stored(k, "none", NegativeTTL) /\ UNCHANGED lookups
            ELSE /\ lookups' = Put(lookups, k, [phase |-> first, metar |-> "data",
                                                reports |-> known /\ stations[k].reports,
                                                deadline |-> clock + WeatherBudget])
                 /\ observations' = IF Found(observations, k, clock) THEN observations ELSE Others(observations, k)
                 /\ UNCHANGED <<usable, reply>>

(* A lookup that fails answers with the METAR that may still be shown, and *)
(* only without one caches the error.                                      *)
LookupFails(k) ==
  /\ IF HasFallback(k)
     THEN /\ observations' = AfterGet(observations, k, clock)
          /\ reply' = [key |-> k, value |-> "metar"]
          /\ UNCHANGED usable
     ELSE Stored(k, "error", WeatherErrorTTL)
  /\ Landed(k)
  /\ UNCHANGED stations

(* The station is resolved: with data the TAF is next, without it is over. *)
Resolved(k, reports) ==
  IF reports THEN AtPhase(k, "taf") /\ UNCHANGED <<observations, usable, reply>>
  ELSE Landed(k) /\ Stored(k, "none", NegativeTTL)

StationResolved(k, reports) ==
  /\ StationStored(k, reports, IF reports THEN StationTTL ELSE NegativeTTL)
  /\ Resolved(k, reports)

(* The METAR of the station that was resolved before.  Without an override *)
(* any row will do; with one, a station stored as silent stays silent.     *)
RecheckStation(k, answer) ==
  /\ lookups[k].phase = "recheck"
  /\ \/ answer = "error" /\ LookupFails(k)
     \/ /\ answer = "data" \/ (answer = "blank" /\ k \notin Overrides)
        /\ lookups[k].reports
        /\ lookups' = [lookups EXCEPT ![k] = [@ EXCEPT !.phase = "taf", !.metar = answer]]
        /\ UNCHANGED <<stations, observations, usable, reply>>
     \/ /\ answer = "data" /\ ~lookups[k].reports
        /\ Resolved(k, FALSE) /\ UNCHANGED stations
     \/ /\ answer = "empty" \/ (answer = "blank" /\ k \in Overrides)
        /\ stations' = Without(stations, k)
        /\ AtPhase(k, "metar")
        /\ UNCHANGED <<observations, usable, reply>>

(* The METAR of the airport itself, or of the station that is set.  A set  *)
(* station that is elsewhere has its distance computed.                    *)
AskStation(k, answer) ==
  /\ lookups[k].phase = "metar"
  /\ \/ answer = "error" /\ LookupFails(k)
     \/ answer = "data" /\ StationResolved(k, TRUE)
     \/ /\ answer = "data" /\ k \in Overrides
        /\ AtPhase(k, "airport") /\ UNCHANGED <<stations, observations, usable, reply>>
     \/ /\ answer \in {"empty", "blank"} /\ k \notin Overrides
        /\ AtPhase(k, "airport") /\ UNCHANGED <<stations, observations, usable, reply>>
     \/ answer \in {"empty", "blank"} /\ k \in Overrides /\ StationResolved(k, FALSE)

(* airportPosition: the airport, then the station of that name.            *)
AskPosition(k, answer) ==
  /\ lookups[k].phase \in {"airport", "stationinfo"}
  /\ \/ answer = "error" /\ LookupFails(k)
     \/ /\ answer = "data" /\ k \notin Overrides
        /\ AtPhase(k, "nearby") /\ UNCHANGED <<stations, observations, usable, reply>>
     \/ /\ answer # "error" /\ k \in Overrides
        /\ answer = "data" \/ lookups[k].phase = "stationinfo"
        /\ StationResolved(k, TRUE)
     \/ /\ answer \in {"empty", "blank"} /\ lookups[k].phase = "airport"
        /\ AtPhase(k, "stationinfo") /\ UNCHANGED <<stations, observations, usable, reply>>
     \/ /\ answer \in {"empty", "blank"} /\ lookups[k].phase = "stationinfo" /\ k \notin Overrides
        /\ StationResolved(k, FALSE)

(* The nearest station within the radius with a recent observation.        *)
AskNearby(k, answer) ==
  /\ lookups[k].phase = "nearby"
  /\ \/ answer = "error" /\ LookupFails(k)
     \/ answer # "error" /\ StationResolved(k, answer = "data")

(* Whatever becomes of the TAF, the observation is stored.                 *)
AskTAF(k, answer) ==
  /\ lookups[k].phase = "taf"
  /\ Landed(k)
  /\ Stored(k, IF lookups[k].metar = "blank" THEN "blank" ELSE "metar", WeatherTTL)
  /\ UNCHANGED stations

WeatherAnswered(k) ==
  /\ k \in DOMAIN lookups
  /\ \E answer \in WeatherAnswers :
       \/ RecheckStation(k, answer) \/ AskStation(k, answer) \/ AskPosition(k, answer)
       \/ AskNearby(k, answer) \/ AskTAF(k, answer)

-----------------------------------------------------------------------------
WeatherInTime == \A k \in DOMAIN lookups : clock < lookups[k].deadline
WeatherNext == \E k \in WeatherKeys : LookupAt(k) \/ WeatherAnswered(k)
=============================================================================
