\* Two tasks and two requests at a time; any number of deaths and restarts.
CONSTANTS
  Task = {t1, t2}
  Session = {s1, s2}
  Nobody = nobody
SYMMETRY Symmetry
SPECIFICATION Spec
INVARIANT CountedOnce
INVARIANT NothingForgotten
