SPECIFICATION Spec
CONSTANTS
  Parts = {logging, mod}
  Mods = {mod}
  Watchers = {w1, w2}
  MaxWrites = 3
INVARIANTS NotedIsLoaded
PROPERTIES LoadsInOrder WriteIsLoaded
