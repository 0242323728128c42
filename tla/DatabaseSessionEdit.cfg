SPECIFICATION Spec
CONSTANTS
  author = author
  book1 = book1
  book2 = book2
  Items = {author, book1, book2}
  Class <- MCClass
  Refs <- MCRefs
  v1 = v1
  v2 = v2
  Values = {v1, v2, Deleted}
  Deleted = Deleted
  NoRow = NoRow
  SoftDeleted = {"Author"}
  Hooks = {"commitPre", "deletePre", "deletePost", "insertPre", "insertPost", "updatePre", "updatePost"}
  EditInFlight = TRUE
  Commits = {c1}
  MaxCommits = 2
  MaxEdits = 2
  MaxFailures = 0
SYMMETRY Symmetry
CHECK_DEADLOCK FALSE
PROPERTY
  CommitWrites
