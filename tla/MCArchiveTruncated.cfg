SPECIFICATION ExtractSpec
CONSTANTS
  r1 = r1
  r2 = r2
  x = x
  y = y
  Entry <- Entries
  MaxLength = 1
  EntryLimit = 3
  FileLimit = 2
  ExpandedLimit = 3
  RatioLimit = 2
  CompressedLimit = 2
  Sizes = {0, 1, 2, 3}
INVARIANT DownloadIsRead
