SPECIFICATION FairFilesSpec
CONSTANTS
  v1 = v1
  v2 = v2
  v3 = v3
  n1 = n1
  Vfs <- MCVfs
  Connection <- MCConnection
  Os = Os
  Null = Null
INVARIANTS FilesTypeOK NoDanglingVfs DefaultExists PagesReadBack
PROPERTY OpenEnds
