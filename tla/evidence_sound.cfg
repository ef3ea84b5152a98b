SPECIFICATION Spec
CONSTANTS
  r1 = r1
  r2 = r2
  t1 = t1
  t2 = t2
  s1 = s1
  s2 = s2
  s3 = s3
  h = h
  NoFile = NoFile
  NoSha = NoSha
  NoNode = NoNode
  Run = {r1}
  Test = {t1, t2}
  Source = {s1, s2}
  Other = {}
  Commit = {1, 2, 3}
  Edited = {}
  Content <- Kept
  Covers <- KeptCovers
  Shards = 2
  Flaky = {t2}
  Kinds = {"run", "map"}
  Mappers = FALSE
INVARIANTS TypeOK Sound
PROPERTY CancelHonoured
