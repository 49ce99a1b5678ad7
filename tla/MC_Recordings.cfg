SPECIFICATION ArtifactsSpec
CONSTANTS
  Tasks = {1}
  MaxLine = 2
  MaxPosts = 2
  StaffLines = 1
PROPERTIES
  RecordingsAppear
CHECK_DEADLOCK FALSE
