SPECIFICATION Spec
CONSTANTS
  Grammars <- MCGrammars
  PathSize = 8
INVARIANTS PathFollowsDocument FieldsStayHome ValuesOfOneElement
           MetadataIsRead ContentIsWhole
