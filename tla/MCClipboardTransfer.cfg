CONSTANTS
  server = server
  c1 = c1
  c2 = c2
  photo = photo
  scan = scan
  note = note
  book = book
  Server = server
  Clients = {c1, c2}
  Texts = {note, book}
  Oversized = {book}
  Images = {photo, scan}
  NumChunks <- TwoChunks
  RingCap = 2
  MaxCopies = 2
SPECIFICATION Spec
INVARIANTS
  
  NothingIsLost
 
SYMMETRY Alike
