CONSTANTS
  next = next
  page = page
  tab = tab
  item = item
  other = other
  field = field
  d1 = d1
  d2 = d2
  Actions = {next, page}
  Keys = {tab}
  KeyOf <- TabOf
  Repeating = {page}
  Devices = {d1, d2}
  Objects = {item, other, field}
  TextInputs = {field}
  Explicit = {item}
  NoObject = NoObject
  Gone = Gone
SPECIFICATION Spec
INVARIANT TypeOK
INVARIANT RememberedIsReal
PROPERTY NoStuckKey
