\* Two processes on trees read from an image, with one file to be made.
CONSTANTS
  MaxProc = 2
  MaxMade = 1
  MaxDepth = 3
  Letters = {".", "a", "b", "c", "d", "k", "l", "p", "r", "s", "0", "1", "2"}
  LinkLimit = 1
  Images <- AllImages
  PathSet <- Asked
  LookedUp <- AllPaths
  Numerals <- Numbers
  Counts = {3, 10}
SPECIFICATION Spec
INVARIANTS TypeOK LookupCorrect ListingInOrder
PROPERTIES MountRebuilds ChdirEnters EntriesKept
CHECK_DEADLOCK FALSE
