SPECIFICATION Spec
CONSTANTS
  e1 = e1  e2 = e2  k1 = k1  k2 = k2  c1 = c1  c2 = c2  s1 = s1  s2 = s2  t1 = t1
  None = None
  Episodes <- TwoEpisodes
  Concepts <- TwoConcepts
  Callers <- TwoCallers
  Memories <- SomeMemories
  Limit = 1
  Enforced <- Pooled
  MaxAdds = 2
SYMMETRY Symmetry
INVARIANT ConceptsFound
