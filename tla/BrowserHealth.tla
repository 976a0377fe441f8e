---------------------------- MODULE BrowserHealth ----------------------------
(***************************************************************************)
(* evaluate_browser_health of health.hpp: one readiness made of the        *)
(* browser's own parts and of what its dependencies say of themselves.     *)
(***************************************************************************)
EXTENDS FiniteSets, SequencesExt

CONSTANT Subsystems

Conditions == {"healthy", "degraded", "unavailable", "unknown"}
Freshnesses == {"current", "stale", "unknown"}
Signals == [subsystem : Subsystems, condition : Conditions, freshness : Freshnesses,
            required : BOOLEAN]

\* The browser's own parts, in the order in which a failure of one is reported.
CoreParts == <<"process loop", "render engine", "local state", "browser ui">>

Verdict(readiness, reason) == [readiness |-> readiness, reason |-> reason]

\* Why a required dependency blocks, "none" if it does not.
BlockingReason(s) ==
  IF s.condition \in {"unavailable", "unknown"} THEN <<"dependency", s.condition>>
  ELSE IF s.freshness # "current" THEN <<"evidence", s.freshness>>
  ELSE <<"none", "none">>

Degrades(s) == IF s.required THEN s.condition = "degraded"
               ELSE s.condition # "healthy" \/ s.freshness # "current"

DegradingReason(s) ==
  IF s.freshness # "current" THEN <<"evidence", s.freshness>>
  ELSE <<"dependency", s.condition>>

\* Mutant: what was degraded before is forgotten.
ConsideredLast(v, s) ==
  IF v.readiness = "blocked" THEN v
  ELSE IF s.required /\ BlockingReason(s) # <<"none", "none">>
    THEN Verdict("blocked", BlockingReason(s))
  ELSE IF Degrades(s) THEN Verdict("degraded", DegradingReason(s))
  ELSE Verdict("ready", <<"none", "none">>)

\* The loop over the dependencies: the first that blocks ends it, the first
\* that degrades gives the reason.
Considered(v, s) ==
  IF v.readiness = "blocked" THEN v
  ELSE IF s.required /\ BlockingReason(s) # <<"none", "none">>
    THEN Verdict("blocked", BlockingReason(s))
  ELSE IF Degrades(s)
    THEN Verdict("degraded", IF v.readiness = "degraded" THEN v.reason ELSE DegradingReason(s))
  ELSE v

Concluded(signals) ==
  LET verdict[n \in 0..Len(signals)] ==
        IF n = 0 THEN Verdict("ready", <<"none", "none">>)
        ELSE Considered(verdict[n - 1], signals[n])
  IN  verdict[Len(signals)]

Health(failed, signals) ==
  IF ~IsInjective([i \in DOMAIN signals |-> signals[i].subsystem])
    THEN Verdict("blocked", <<"duplicate", "signal">>)
  ELSE IF failed # {}
    THEN Verdict("blocked", <<"core", SelectSeq(CoreParts, LAMBDA p : p \in failed)[1]>>)
  ELSE Concluded(signals)

----------------------------------------------------------------------------
\* Readiness is that of the worst of what is said, in whatever order it is said:
\* a dependency that is needed and not known to be well blocks, whatever else
\* is fine, and one that is not needed never does.
ReadinessIsTheWorst(failed, signals) ==
  LET sure(s) == s.condition \in {"healthy", "degraded"} /\ s.freshness = "current"
      twice == \E i, j \in DOMAIN signals :
                 i # j /\ signals[i].subsystem = signals[j].subsystem
      well(s) == s.condition = "healthy" /\ s.freshness = "current"
  IN  Health(failed, signals).readiness =
        IF failed # {} \/ twice \/ \E s \in Range(signals) : s.required /\ ~sure(s)
          THEN "blocked"
        ELSE IF \A s \in Range(signals) : well(s) THEN "ready" ELSE "degraded"
=============================================================================
