\* parse_table_reference on every short string over "a", "-" and ".", and
\* the v2 platform chain on the Keboola transformation component ids.
CONSTANTS
  None = None
  Inputs <- MCNameInputs
SPECIFICATION Spec
INVARIANTS ParseRoundTrip PlatformMatchesComponentV2
