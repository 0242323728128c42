SPECIFICATION Spec
CONSTANTS
  author = author
  book1 = book1
  book2 = book2
  Items = {author, book1, book2}
  Class <- MCClass
  Refs <- MCRefs
  v1 = v1
  v2 = v2
  Values = {v1, v2, Deleted}
  Deleted = Deleted
  NoRow = NoRow
  SoftDeleted = {"Author"}
  Hooks = {"commitPre", "deletePre", "deletePost", "insertPre", "insertPost", "updatePre", "updatePost"}
  EditInFlight = FALSE
  Commits = {c1}
  MaxCommits = 2
  MaxEdits = 3
  MaxFailures = 1
SYMMETRY Symmetry
CHECK_DEADLOCK FALSE
INVARIANTS
  SessionSafety
PROPERTIES
  CommitsAreComplete
