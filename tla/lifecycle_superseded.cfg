SPECIFICATION FairSpec
CONSTANTS
  Openers = {bar}
  Creators = {peer}
  Reclaimers = {jwm}
  Mortal = {peer}
  Mappings = {m0, m1}
  Left = m0
  Ghost = Ghost
  Elder = Elder
  Strategy = "eventfd"
  None = None
PROPERTY SupersededTold
