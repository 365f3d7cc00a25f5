CONSTANTS
  t1 = t1
  t2 = t2
  a = a
  b = b
  tmp1 = tmp1
  tmp2 = tmp2
  Thread = {t1, t2}
  Writer = {t1}
  Object = {a, b, tmp1, tmp2}
  Owner <- OwnerOf
  Temp <- TempOf
  Data <- DataOf
  Inode = {i1, i2}
  NoInode = NoInode
  Byte = {"0", "x"}
  ChunkSize = 2
  InitialSize = 3
  MaxHandle = 2
  MaxShort = 1
  MaxRemove = 1
SPECIFICATION Spec
SYMMETRY Symmetry
INVARIANTS TypeOK HandlesAreOwned ContentIsWhole
VIEW View
