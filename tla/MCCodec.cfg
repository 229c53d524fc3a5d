SPECIFICATION Spec
CONSTANTS
  MaxKids = 2
  Cases <- MCCases
INVARIANTS RoundTrip ReadsToEnd
