SPECIFICATION Spec
CONSTANTS
  NodeUUIDs = {n1, n2}
  EdgeUUIDs = {e1, e2}
  Texts = {t}
  LongTexts = {}
  MetadataTexts = {"object", "unparsable"}
  OrderTexts = {"fits", "wide"}
  Blank = Blank
  NoNode = NoNode
  NoResolution = NoResolution
  NoErrors = NoErrors
  NoPayload = NoPayload
SYMMETRY Interchangeable
INVARIANTS
  NoDanglingReference
  ErrorsDescribeDraft
  RefusedOnlyForColumns
