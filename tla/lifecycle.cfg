SPECIFICATION FairSpec
CONSTANTS
  Openers = {bar}
  Creators = {peer}
  Reclaimers = {jwm}
  Mortal = {jwm, peer}
  Mappings = {m0, m1}
  Left = m0
  Ghost = Ghost
  Elder = Elder
  Strategy = "futex"
  None = None
INVARIANTS TypeOK LiveCreatorNamed
PROPERTIES OnlyDropDangles NameKept ExpiredReturns
