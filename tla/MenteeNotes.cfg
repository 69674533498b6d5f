SPECIFICATION Spec
CONSTANTS
  n1 = n1
  n2 = n2
  n3 = n3
  mentor = mentor
  other = other
  Note = {n1, n2, n3}
  User = {mentor, other}
  NoUser = NoUser
  MaxLength = 17
  HeaderLength = 5
  CardLimit = 2
  NoteDocs <- AllDocs
INVARIANTS
  TypeOK
  FitsSchema
  NewestNotesShown
  OnlyNewestFew
