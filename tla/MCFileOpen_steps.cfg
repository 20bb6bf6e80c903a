\* UTF-8 with and without a byte order mark, Windows-1252, no encoding that
\* decodes all bytes; two text filters, two binary filters.
\* A context that was destroyed does nothing more.
CONSTANTS
  utf8 = utf8
  bom = bom
  win = win
  none = none
  unknown = unknown
  noContent = noContent
  t1 = t1
  t2 = t2
  b1 = b1
  b2 = b2
  Charsets <- MCCharsets
  NoCharset = none
  Unknown = unknown
  UTF8 = utf8
  Windows1252 = win
  Total = {}
  WithBOM = {bom}
  TextFilters = {t1, t2}
  BinaryFilters = {b1, b2}
  NoContent = noContent
SPECIFICATION FairSpec
CHECK_DEADLOCK FALSE
INVARIANTS
  TypeOK
  AnsweredOnce
  AskedLast
  ShownAsReported
PROPERTIES
  KeepsContract
  EventuallyAnswered
