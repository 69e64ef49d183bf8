---------------------------- MODULE MCTwinConfigs ----------------------------
(***************************************************************************)
(* Config files for the model-checking instances.  They follow the Keboola *)
(* git-sync layout: component directory, then one directory per           *)
(* configuration; variables live in a "variables" directory below their   *)
(* transformation, their values in variables/values/<id>.                  *)
(***************************************************************************)
SNOW == "keboola.snowflake-transformation"
PY   == "keboola.python-transformation"

\* The spec's end-to-end scenario, extended with a repeated input.
AggOrders ==
  [path |-> <<SNOW, "agg_orders">>, meta |-> <<>>,
   inputs |-> <<"in.c-shopify.orders">>,
   outputs |-> <<"out.c-shopify.daily_totals">>]

\* Reads the same table twice and a table that another config produces.
Report ==
  [path |-> <<PY, "report">>, meta |-> [name |-> "Report", isDisabled |-> TRUE],
   inputs |-> <<"in.c-shopify.daily_totals", "in.c-shopify.orders", "in.c-shopify.orders">>,
   outputs |-> <<"out.c-crm.report">>]

\* A mapping without "source", a two-part reference, and a bucket "crm"
\* that cleans to the same name as "c-crm".
Cleanup ==
  [path |-> <<PY, "cleanup">>, meta |-> [name |-> "Cleanup"],
   inputs |-> <<"", "in.c-crm">>,
   outputs |-> <<"out.crm.report", "out.c-crm.report">>]

NoMappings ==
  [path |-> <<SNOW, "noop">>, meta |-> <<>>, inputs |-> <<>>, outputs |-> <<>>]

Variables ==
  [path |-> <<SNOW, "agg_orders", "variables">>, meta |-> <<>>,
   inputs |-> <<>>, outputs |-> <<>>]

VariableValues ==
  [path |-> <<SNOW, "agg_orders", "variables", "values", "default">>,
   meta |-> <<>>, inputs |-> <<"in.c-shopify.orders">>, outputs |-> <<>>]

MCConfigUniverse == {AggOrders, Report, Cleanup, NoMappings, Variables, VariableValues}

\* A second configuration directory named agg_orders, under another component.
AggOrdersPython ==
  [path |-> <<PY, "agg_orders">>, meta |-> [name |-> "Aggregate orders"],
   inputs |-> <<"in.c-shopify.daily_totals">>, outputs |-> <<>>]

\* A bucket whose name matches no source pattern and holds "c-" inside it.
SfdcSync ==
  [path |-> <<SNOW, "sfdc_sync">>, meta |-> <<>>,
   inputs |-> <<"in.c-sfdc-contacts.accounts">>, outputs |-> <<>>]

\* A configuration whose display name sanitizes to another's directory name.
OrdersRenamed ==
  [path |-> <<PY, "orders_py">>, meta |-> [name |-> "Agg Orders"],
   inputs |-> <<"in.c-shopify.orders">>, outputs |-> <<>>]

MCConfigUniverseDivergent == MCConfigUniverse \cup {AggOrdersPython, SfdcSync, OrdersRenamed}

\* Sessions read from bucket "ga4", events written to "gc-a4", which
\* cleans to "ga4" as well but infers no source.
Ga4Events ==
  [path |-> <<PY, "ga4_events">>, meta |-> <<>>,
   inputs |-> <<"in.ga4.sessions">>, outputs |-> <<"out.gc-a4.events">>]

\* The registry universe: a re-used directory name and a bucket whose
\* cleaned name merges two sources.
MCConfigUniverseRegistry == MCConfigUniverse \cup {AggOrdersPython, Ga4Events}

\* A transformation configuration named "Default" (directory default).
DefaultConfig ==
  [path |-> <<SNOW, "default">>, meta |-> [name |-> "Default"],
   inputs |-> <<"in.c-shopify.orders">>, outputs |-> <<"out.c-shopify.weekly_totals">>]

MCConfigUniverseV2 == {AggOrders, DefaultConfig, SfdcSync, Variables, VariableValues}
==============================================================================
