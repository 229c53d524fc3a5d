SPECIFICATION QueueSpec
CONSTANTS
  Heads = {h1, h2}
  Nodes = {n1, n2, n3}
INVARIANTS RingsExact
