SPECIFICATION Spec
CONSTANTS
  w1 = w1
  w2 = w2
  r1 = r1
  f1 = f1
  f2 = f2
  f3 = f3
  f4 = f4
  Writers = {w1, w2}
  Readers = {r1}
  Files = {f1, f2, f3, f4}
  NoFile = nofile
  Torn = torn
  MaxDay = 1
  MaxCount = 3
INVARIANT WholeFiles
