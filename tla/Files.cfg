\* Two processes, a file of the image and another, three open files.
CONSTANTS
  File = {image, other}
  Byte = {0, 1, 2}
  Imaged = {image}
  Image <- ImageBytes
  Label <- LabelBytes
  MaxProc = 2
  MaxFds = 2
  MaxOpen = 3
  MaxSize = 2
  Offsets <- Distances
  Lengths = {2}
  News <- Texts
SPECIFICATION Spec
INVARIANTS TypeOK SizeExact
PROPERTIES OffsetsPrivate IsByteStore
VIEW View
CHECK_DEADLOCK FALSE
