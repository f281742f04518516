SPECIFICATION FairSpec
CONSTANTS
  Scrapes = {s1, s2}
  Devices = {d1}
  Hooked = {"ha"}
PROPERTIES
  PageOfOneInstant
  ScrapesAnswered
