---------------------------- MODULE MetricsText -----------------------------
(***************************************************************************)
(* What the panel reads in the answer of a frps dashboard, line by line    *)
(* (parseFrpsMetrics in src/internal/app/frps_monitor.go).  The text of a  *)
(* line is left out but for what the parser tells apart: the metric, the   *)
(* labels "name" and "type" of its proxy ("" when there is none), its      *)
(* value.  The three metrics that are counted both for a proxy and for the *)
(* server are treated alike: the constant Totals is the set of those the   *)
(* text may hold.                                                          *)
(***************************************************************************)
EXTENDS Naturals, Sequences, FiniteSets, Functions

CONSTANTS
  Totals,     \* connection_counts, traffic_in, traffic_out
  Names,      \* names of proxies
  Types,      \* types of proxies
  Values,     \* values of a metric
  MaxMetrics  \* bound: lines of an answer

ASSUME MetricsAssumption ==
  /\ Totals \subseteq {"connection_counts", "traffic_in", "traffic_out"}
  /\ Values \subseteq Nat /\ MaxMetrics \in Nat

VARIABLES
  metrics,  \* the answer, as far as it has been read
  acc       \* what the parser has gathered from it

metricsVars == <<metrics, acc>>

Labels == [name : Names \cup {""}, type : Types \cup {""}]
NoLabels == [name |-> "", type |-> ""]

\* parsePrometheusLine: "foreign" is a metric of another program, "" a line
\* that is a comment, blank or not a sample.
Metric ==
  [name : Totals \cup {"proxy_counts", "proxy_counts_detailed", "client_counts"},
   labels : Labels, value : Values]
    \cup [name : {"", "foreign"}, labels : {NoLabels}, value : {0}]

-----------------------------------------------------------------------------
(* parseFrpsMetrics *)

NoSample == [seen |-> FALSE, clients |-> 0, byType |-> 0, detailed |-> 0,
             set |-> {}, total |-> [t \in Totals |-> 0], proxies |-> {},
             proxy |-> [l \in Labels |-> [t \in Totals |-> 0]]]

HasProxyLabels(labels) == labels.name # "" \/ labels.type # ""

Mutant_NotNoted(sample, name, value) == [sample EXCEPT !.total[name] = value]
SetTotal(sample, name, value) ==
  [sample EXCEPT !.set = @ \cup {name}, !.total[name] = value]

\* One line.  Proxies are kept by type and name, a total that is given is noted.
ReadMetric(gathered, line) ==
  LET sample == [gathered EXCEPT !.seen = @ \/ line.name \notin {"", "foreign"}]
  IN  CASE line.name \in Totals /\ HasProxyLabels(line.labels) ->
             [sample EXCEPT !.proxies = @ \cup {line.labels},
                            !.proxy[line.labels][line.name] = line.value]
        [] line.name \in Totals /\ ~HasProxyLabels(line.labels) ->
             SetTotal(sample, line.name, line.value)
        [] line.name = "proxy_counts" /\ line.labels.name = "" ->
             [sample EXCEPT !.byType = @ + line.value]
        [] line.name = "proxy_counts_detailed" ->
             [sample EXCEPT !.proxies = @ \cup {line.labels},
                            !.detailed = @ + IF line.value > 0 THEN 1 ELSE 0]
        [] line.name = "client_counts" -> [sample EXCEPT !.clients = line.value]
        [] OTHER -> sample

SumFrom(base, summands) == FoldFunction(LAMBDA x, sum : sum + x, base, summands)

\* The end of parseFrpsMetrics, after the last line.
Sampled ==
  [ok |-> acc.seen, clients |-> acc.clients, proxies |-> acc.proxies, proxy |-> acc.proxy,
   total |-> [t \in Totals |->
     IF t \in acc.set THEN acc.total[t]
     ELSE SumFrom(acc.total[t], [l \in acc.proxies |-> acc.proxy[l][t]])],
   count |-> IF acc.detailed > 0 THEN acc.detailed
             ELSE IF acc.byType > 0 THEN acc.byType ELSE Cardinality(acc.proxies)]

-----------------------------------------------------------------------------
(* parseFrpsMetrics reads line by line, and any text is an answer *)

MetricsInit == metrics = <<>> /\ acc = NoSample

ReadLine ==
  /\ Len(metrics) < MaxMetrics
  /\ \E line \in Metric : metrics' = Append(metrics, line) /\ acc' = ReadMetric(acc, line)

MetricsNext == ReadLine

MetricsSpec == MetricsInit /\ [][MetricsNext]_metricsVars

-----------------------------------------------------------------------------
(* Properties *)

LinesOf(name, labels) ==
  {i \in 1..Len(metrics) : metrics[i].name = name /\ metrics[i].labels = labels}

LastOf(name, labels) ==
  LET lines == LinesOf(name, labels)
      last  == CHOOSE i \in lines : \A j \in lines : j <= i
  IN  IF lines = {} THEN 0 ELSE metrics[last].value

\* The proxies that the text names: by a traffic of theirs, or by themselves.
Listed ==
  {l \in Labels : \/ l # NoLabels /\ \E t \in Totals : LinesOf(t, l) # {}
                  \/ LinesOf("proxy_counts_detailed", l) # {}}

Carried(t, l) == IF l = NoLabels THEN 0 ELSE LastOf(t, l)

(* Wherever the lines of the server and of its proxies stand in the answer *)
(* and however often, a total is what the server gives last or, only when  *)
(* it gives none, the sum of what each proxy has last: nothing is counted  *)
(* twice.  Every proxy that is named is kept, once, with what it has last. *)
(* An answer that is not of a frps, and only that, is refused.             *)
MetricsAreRead ==
  LET got == Sampled
  IN  /\ got.ok <=> \E i \in 1..Len(metrics) : metrics[i].name \notin {"", "foreign"}
      /\ got.proxies = Listed
      /\ \A l \in Listed, t \in Totals : got.proxy[l][t] = Carried(t, l)
      /\ \A t \in Totals :
           got.total[t] = IF LinesOf(t, NoLabels) # {} THEN LastOf(t, NoLabels)
                          ELSE SumFrom(0, [l \in Listed |-> Carried(t, l)])
=============================================================================
