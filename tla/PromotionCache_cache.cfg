SPECIFICATION CacheSpec
CONSTANTS
  Publishers = {e1}
  Places = {s1}
  Pictures = {x, y}
  NoPicture = NoPicture
  MaxErrors = 0
INVARIANT UrlsShowTheirPicture
CHECK_DEADLOCK FALSE
