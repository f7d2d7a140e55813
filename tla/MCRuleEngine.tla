---------------------------- MODULE MCRuleEngine ----------------------------
(***************************************************************************)
(* TLC instance of RuleEngine: a disabled exact rule, or a best-effort    *)
(* rule, or a first-seen and a radius rule, that are still to be added;    *)
(* two evaluators and an enrichment worker.                                *)
(***************************************************************************)
EXTENDS RuleEngine

CONSTANTS a1, exact, radius, owner, first, local, remote, t1, t2, w1

MCScopeOf == [r \in Rules |-> local]
MCKind == [r \in Rules |->
  CASE r = exact -> "exact" [] r = radius -> "radius" [] r = first -> "first"
    [] OTHER -> "besteffort"]
MCMinimum == [r \in Rules |-> IF r = radius THEN 2 ELSE 1]
MCCooldown == [r \in Rules |-> IF r = radius THEN 2 ELSE 3]
MCThreadScope == [t \in Threads |-> IF t = t1 THEN local ELSE remote]

Obs(matches, holds, emergency) ==
  [matches |-> matches, holds |-> holds, emergency |-> emergency]
MCSnapshots == [t \in Threads |-> {[a \in Aircraft |-> o] : o \in
  IF t = t2 THEN {Obs({}, {}, FALSE), Obs({}, {}, TRUE)}
  ELSE {NotSeen, Obs(Rules, Rules, TRUE), Obs({}, {radius}, FALSE)}}]

\* One rule, or two for the cap.
Only(S, status) == [x \in Rules |-> IF x \in S THEN status ELSE "deleted"]
MCInitialRules ==
  {Only({exact}, "disabled"), Only({owner}, "new"),
   Only({first, radius}, "new")}
=============================================================================
