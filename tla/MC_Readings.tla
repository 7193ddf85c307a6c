---------------------------- MODULE MC_Readings -----------------------------
(***************************************************************************)
(* Five small components that share no state, in one model: each behaviour *)
(* is one of one of them, and the other four stay as they are.             *)
(***************************************************************************)
EXTENDS MetricsText, ConfigText, LogTail, FrpsRates, AuditLog, TLC

VARIABLE subject

rest == <<metricsVars, configVars, log, tail, ratesVars, auditVars>>

ReadingsInit ==
  /\ subject \in {"metrics", "config", "log", "rates", "audit"}
  /\ MetricsInit /\ ConfigInit /\ LogInit /\ RatesInit /\ AuditInit
  /\ subject # "config" => format = "toml"
  /\ subject # "log" => log = <<>>
  /\ subject # "rates" => traffic = 0

ReadingsNext ==
  /\ UNCHANGED subject
  /\ \/ subject = "metrics" /\ MetricsNext /\ UNCHANGED <<configVars, logVars, ratesVars, auditVars>>
     \/ subject = "config" /\ ConfigNext /\ UNCHANGED <<metricsVars, logVars, ratesVars, auditVars>>
     \/ subject = "log" /\ LogNext /\ UNCHANGED <<metricsVars, configVars, ratesVars, auditVars>>
     \/ subject = "rates" /\ RatesNext /\ UNCHANGED <<metricsVars, configVars, logVars, auditVars>>
     \/ subject = "audit" /\ AuditNext /\ UNCHANGED <<metricsVars, configVars, logVars, ratesVars>>

ReadingsSpec == ReadingsInit /\ [][ReadingsNext]_<<subject, rest>>

Symmetry == Permutations(Scrapers) \cup Permutations(Callers)
=============================================================================
