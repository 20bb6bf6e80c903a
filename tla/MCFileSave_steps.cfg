\* Three encodings of which one cannot represent the text, two text filters,
\* one binary filter, two changes of the file's status by other programs.
\* A context that was destroyed does nothing more.
CONSTANTS
  utf8 = utf8
  latin1 = latin1
  ascii = ascii
  none = none
  t1 = t1
  t2 = t2
  b1 = b1
  Charsets <- MCCharsets
  NoCharset = none
  UTF8 = utf8
  Encodable <- MCEncodable
  TextFilters = {t1, t2}
  BinaryFilters = {b1}
  MaxChanges = 2
SPECIFICATION FairSpec
CHECK_DEADLOCK FALSE
INVARIANTS
  TypeOK
  ReportedOnce
  LockedNeedsConsent
  WrittenAsReported
PROPERTIES
  KeepsContract
  EventuallyReported
