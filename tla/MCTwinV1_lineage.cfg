\* v1's scan and build over every project drawn from the universe, config
\* files visited in every order.
CONSTANTS
  None = None
  ConfigUniverse <- MCConfigUniverse
SPECIFICATION V1Spec
INVARIANT V1TypeOK
PROPERTY LineageRefinementV1
