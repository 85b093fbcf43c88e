SPECIFICATION MCSpec
CONSTANTS
  m1 = m1
  Memories = {m1, m2}
  Names = {n1, k1}
  Skills = {k1}
  Groups = {g1}
  None = None
  MaxMentions = 2
INVARIANTS
  CountsCoverLinks
  NoDangling
PROPERTY SweepKeepsMentioned
