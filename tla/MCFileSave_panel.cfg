\* Three encodings of which one cannot represent the text.
\* One text filter, no binary filter, two changes of the file's status by other
\* programs.
\* A context that was destroyed does nothing more.
CONSTANTS
  utf8 = utf8
  latin1 = latin1
  ascii = ascii
  none = none
  t1 = t1
  t2 = t2
  b1 = b1
  Charsets <- MCCharsets
  NoCharset = none
  UTF8 = utf8
  Encodable <- MCEncodable
  TextFilters = {t1}
  BinaryFilters = {}
  MaxChanges = 2
SPECIFICATION Spec
CHECK_DEADLOCK FALSE
INVARIANT PanelEncodingUsed
