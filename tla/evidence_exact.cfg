SPECIFICATION Spec
CONSTANTS
  r1 = r1
  r2 = r2
  t1 = t1
  t2 = t2
  s1 = s1
  s2 = s2
  s3 = s3
  h = h
  NoFile = NoFile
  NoSha = NoSha
  NoNode = NoNode
  Run = {r1}
  Test = {t1, t2}
  Source = {s1, s2, s3}
  Other = {}
  Commit = {1, 2, 3, 4}
  Edited = {}
  Content <- History
  Covers <- HistoryCovers
  Shards = 1
  Flaky = {}
  Kinds = {"run"}
  Mappers = TRUE
  Ingested = {s3}
  Approved = {}
  Imports <- Reach
  Ignored = {}
  Limits = {0, 1, 2}

INVARIANT AnswersComplete
PROPERTY FullSpec
