SPECIFICATION Spec
CONSTANT Price = {1, 2, 3}
INVARIANT StatisticsTruthful
