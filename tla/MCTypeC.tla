------------------------------ MODULE MCTypeC ------------------------------
(* TypeC for TLC: one port of every table, of which one ever runs.          *)
EXTENDS TypeC

CONSTANTS snk, src, drp, try_src, try_snk

OnePerTable == [p \in {snk, src, drp, try_src, try_snk} |->
  CASE p = snk -> "sink"       [] p = src -> "source"        [] p = drp -> "drp_none"
    [] p = try_src -> "drp_source" [] p = try_snk -> "drp_sink"]
One == [p \in Port |-> 1]
Two == [p \in Port |-> 2]

\* bound: the others stay as they are before start()
OneRuns ==
  LET rests == {p \in Port : state[p] = "disabled"} IN
  /\ Cardinality(rests) >= Cardinality(Port) - 1
  /\ \A p \in rests : vbus[p] = 0 /\ allowed[p]
=============================================================================
