CONSTANTS
  Secrets = {x1, x2, x3, x4}
  NoSecret = noSecret
  Events = {"crash", "disk", "compose", "import", "files"}
  Names = {n1, n2, n3, out}
  Outside = {out}
  NoName = noName
  Contents = {c1, c2}
  FileEvents = {"others", "disk", "restart"}
SPECIFICATION DirectorySpec
INVARIANTS Inv SecretsOpenVolume ManagerInv SuccessIsTrue
PROPERTIES NothingElseIsLost
SYMMETRY Symmetry
