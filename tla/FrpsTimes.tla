----------------------------- MODULE FrpsTimes ------------------------------
(***************************************************************************)
(* What the two specifications of overlapping scrapes of one frps target,  *)
(* FrpsStatus and FrpsRates, have in common: the goroutines and how long   *)
(* they may take (src/internal/app/frps_monitor.go).                       *)
(***************************************************************************)
EXTENDS Naturals

CONSTANTS
  Scrapers,    \* goroutines scraping; their number is a bound for TLC
  Timeout,     \* frpsScrapeTimeout, in ticks
  MaxDelay,    \* bound: ticks between an answer and its storing
  None         \* no state, no sample

ASSUME TimesAssumption == Timeout \in Nat \ {0} /\ MaxDelay \in Nat
=============================================================================
