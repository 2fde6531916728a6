CONSTANTS
  Key = {0, 1, 2, 3, 4}
  Value = {v0, v1}
  Default = v0
  DefaultKey = 0
  NoKey = NoKey
  NoValue = NoValue
  table_size = 2
  BUCKET_SIZE = 1
  INSERTION_QUEUE_MAX_SIZE = 3
  HashFunctions <- MCHash
  MaxTimestamp = 1000
SPECIFICATION Spec
VIEW MCView
PROPERTIES GetFindsEveryKey
